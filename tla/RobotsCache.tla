----------------------------- MODULE RobotsCache -----------------------------
(***************************************************************************)
(* robots.txt is downloaded once per host (robots.rs): a map from host to   *)
(* cell, under a lock for readers and writers, and in each cell a promise   *)
(* that the first task to come keeps and the others wait for.  The map is   *)
(* keyed by the host without its port.                                      *)
(***************************************************************************)
EXTENDS Naturals, FiniteSets

CONSTANTS Tasks,        \* calls of load_host_rules, one task each
          HostOf,       \* the host each asks about
          Answers,      \* what a robots.txt may turn out to be
          Nothing       \* a value that is none of them

ASSUME CacheAssumption ==
  /\ HostOf \in [Tasks -> {HostOf[t] : t \in Tasks}]
  /\ Nothing \notin Answers /\ Nothing \notin Tasks

CachedHosts == {HostOf[t] : t \in Tasks}

VARIABLES cells,        \* the hosts that have a cell in the map
          rules,        \* the value of each cell, or Nothing
          keeper,       \* the task that downloads for each cell, or Nothing
          at,           \* where each task is
          given         \* the rules each task goes on with, or Nothing

cacheVars == <<cells, rules, keeper, at, given>>

CacheInit ==
  /\ cells = {}
  /\ rules = [h \in CachedHosts |-> Nothing] /\ keeper = [h \in CachedHosts |-> Nothing]
  /\ at = [t \in Tasks |-> "asks"] /\ given = [t \in Tasks |-> Nothing]

Goes(t, place) == at' = [at EXCEPT ![t] = place]

(* The map is read under the lock for readers.                              *)
Look(t) ==
  /\ at[t] = "asks"
  /\ Goes(t, IF HostOf[t] \in cells THEN "cell" ELSE "no cell")
  /\ UNCHANGED <<cells, rules, keeper, given>>

(* And looked at again under the other lock: someone may have been faster.  *)
EnterAnew(t) ==
  /\ at[t] = "no cell"
  /\ cells' = cells \cup {HostOf[t]}
  /\ rules' = [rules EXCEPT ![HostOf[t]] = Nothing] /\ keeper' = [keeper EXCEPT ![HostOf[t]] = Nothing]
  /\ Goes(t, "cell")
  /\ UNCHANGED given
Enter(t) ==
  /\ at[t] = "no cell"
  /\ cells' = cells \cup {HostOf[t]}
  /\ Goes(t, "cell")
  /\ UNCHANGED <<rules, keeper, given>>

(* The cell has its value, now or after waiting for it.                     *)
TakeEvenIfEmpty(t) ==
  /\ at[t] = "cell"
  /\ given' = [given EXCEPT ![t] = IF rules[HostOf[t]] = Nothing THEN CHOOSE a \in Answers : TRUE ELSE rules[HostOf[t]]]
  /\ Goes(t, "done")
  /\ UNCHANGED <<cells, rules, keeper>>
Take(t) ==
  /\ at[t] = "cell" /\ rules[HostOf[t]] # Nothing
  /\ given' = [given EXCEPT ![t] = rules[HostOf[t]]]
  /\ Goes(t, "done")
  /\ UNCHANGED <<cells, rules, keeper>>

(* It has not, and nobody is at it.                                         *)
Download(t) ==
  /\ at[t] = "cell" /\ rules[HostOf[t]] = Nothing /\ keeper[HostOf[t]] = Nothing
  /\ keeper' = [keeper EXCEPT ![HostOf[t]] = t]
  /\ Goes(t, "downloads")
  /\ UNCHANGED <<cells, rules, given>>

(* A file, its absence and a failure are kept alike.                        *)
Answered(t) ==
  /\ at[t] = "downloads"
  /\ \E a \in Answers :
       rules' = [rules EXCEPT ![HostOf[t]] = a] /\ given' = [given EXCEPT ![t] = a]
  /\ keeper' = [keeper EXCEPT ![HostOf[t]] = Nothing]
  /\ Goes(t, "done")
  /\ UNCHANGED cells

(* The task is dropped, or panics: who waits in its cell takes over.        *)
Drop(t) ==
  /\ at[t] \notin {"done", "dropped"}
  /\ keeper' = [h \in CachedHosts |-> IF keeper[h] = t THEN Nothing ELSE keeper[h]]
  /\ Goes(t, "dropped")
  /\ UNCHANGED <<cells, rules, given>>

Step(t) == Look(t) \/ Enter(t) \/ Take(t) \/ Download(t) \/ Answered(t)
CacheNext == \E t \in Tasks : Step(t) \/ Drop(t)
CacheSpec == CacheInit /\ [][CacheNext]_cacheVars

(* What is left in the file when a session ends: the cells with a value.    *)
Snapshot == {h \in cells : rules[h] # Nothing}

-----------------------------------------------------------------------------
(* Properties. *)

(* Where tasks and cells may be.                                            *)
CacheTypeOK ==
  /\ cells \subseteq CachedHosts
  /\ rules \in [CachedHosts -> Answers \cup {Nothing}]
  /\ keeper \in [CachedHosts -> Tasks \cup {Nothing}]
  /\ at \in [Tasks -> {"asks", "no cell", "cell", "downloads", "done", "dropped"}]
  /\ given \in [Tasks -> Answers \cup {Nothing}]

(* A host is asked for its robots.txt by one task at a time, and never      *)
(* again once it has answered.                                              *)
OneDownload ==
  \A t \in Tasks :
    at[t] = "downloads" =>
      /\ rules[HostOf[t]] = Nothing
      /\ \A s \in Tasks \ {t} : at[s] = "downloads" => HostOf[s] # HostOf[t]

(* No task goes on without the rules of its host, and those of one host go  *)
(* on with the same ones, which are those that the file will have.          *)
SameRulesForAll ==
  \A t \in Tasks :
    /\ at[t] = "done" <=> given[t] # Nothing
    /\ given[t] # Nothing => given[t] = rules[HostOf[t]] /\ HostOf[t] \in Snapshot
=============================================================================
