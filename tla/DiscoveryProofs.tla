--------------------------- MODULE DiscoveryProofs ---------------------------
(***************************************************************************)
(* The cache of robots.txt, for any number of tasks and hosts and any      *)
(* answers, by itself and then in the crawl that uses it: what is proved   *)
(* of its steps holds through the discovery of sitemaps, that asks for one *)
(* host when it needs it and may be interrupted, and of the pages.  Then   *)
(* the discovery itself, for any sitemaps and any order of their answers.  *)
(***************************************************************************)
EXTENDS Discovery, WellFoundedInduction, FiniteSetTheorems, TLAPS

-----------------------------------------------------------------------------
(* The cache by itself.                                                    *)

(* Who downloads is who keeps the promise of the cell of its host.          *)
PromiseInv ==
  /\ \A t \in Tasks : at[t] = "downloads" <=> keeper[HostOf[t]] = t
  /\ \A h \in CachedHosts : keeper[h] \in Tasks => HostOf[keeper[h]] = h

(* A cell with a value keeps no promise, and a task past the map has its    *)
(* cell in it.                                                              *)
CellInv ==
  /\ \A h \in CachedHosts : rules[h] # Nothing => keeper[h] = Nothing /\ h \in cells
  /\ \A t \in Tasks : at[t] \in {"cell", "downloads"} => HostOf[t] \in cells

(* A task goes on with the rules of its cell, once they are there.          *)
GivenInv ==
  \A t \in Tasks :
    /\ at[t] = "done" <=> given[t] # Nothing
    /\ given[t] # Nothing => given[t] = rules[HostOf[t]]

(* The invariant of the cache.                                              *)
CacheInv == CacheTypeOK /\ PromiseInv /\ CellInv /\ GivenInv

(* Every task asks for the rules of a host.                                 *)
LEMMA HostTypes == \A t \in Tasks : HostOf[t] \in CachedHosts
BY CacheAssumption DEF CachedHosts

(* No cell has a value and no task is past the map when a session starts.  *)
LEMMA CacheInitHolds == CacheInit => CacheInv
BY CacheAssumption, HostTypes DEF CacheInit, CacheInv, CacheTypeOK, PromiseInv, CellInv, GivenInv

(* Every step of a task, and its death, keep the invariant.                *)
LEMMA CacheStepKeeps == CacheInv /\ [CacheNext]_cacheVars => CacheInv'
<1> SUFFICES ASSUME CacheTypeOK, PromiseInv, CellInv, GivenInv, [CacheNext]_cacheVars
             PROVE  CacheInv'
  BY DEF CacheInv
<1>1. ASSUME NEW t \in Tasks, Look(t) PROVE CacheInv'
  <2>1. HostOf[t] \in CachedHosts /\ Nothing \notin Tasks /\ Nothing \notin Answers
    BY HostTypes, CacheAssumption
  <2>2. CacheTypeOK'
    BY <1>1, <2>1 DEF Look, Goes, CacheTypeOK
  <2>3. PromiseInv'
    BY <1>1, <2>1, HostTypes DEF Look, Goes, CacheTypeOK, PromiseInv, CellInv
  <2>4. CellInv'
    BY <1>1, <2>1, HostTypes DEF Look, Goes, CacheTypeOK, PromiseInv, CellInv
  <2>5. GivenInv'
    BY <1>1, <2>1, HostTypes DEF Look, Goes, CacheTypeOK, PromiseInv, GivenInv
  <2> QED
    BY <2>2, <2>3, <2>4, <2>5 DEF CacheInv
<1>2. ASSUME NEW t \in Tasks, Enter(t) PROVE CacheInv'
  <2>1. HostOf[t] \in CachedHosts /\ Nothing \notin Tasks /\ Nothing \notin Answers
    BY HostTypes, CacheAssumption
  <2>2. CacheTypeOK'
    BY <1>2, <2>1 DEF Enter, Goes, CacheTypeOK
  <2>3. PromiseInv'
    BY <1>2, <2>1, HostTypes DEF Enter, Goes, CacheTypeOK, PromiseInv, CellInv
  <2>4. CellInv'
    BY <1>2, <2>1, HostTypes DEF Enter, Goes, CacheTypeOK, PromiseInv, CellInv
  <2>5. GivenInv'
    BY <1>2, <2>1, HostTypes DEF Enter, Goes, CacheTypeOK, PromiseInv, GivenInv
  <2> QED
    BY <2>2, <2>3, <2>4, <2>5 DEF CacheInv
<1>3. ASSUME NEW t \in Tasks, Take(t) PROVE CacheInv'
  <2>1. HostOf[t] \in CachedHosts /\ Nothing \notin Tasks /\ Nothing \notin Answers
    BY HostTypes, CacheAssumption
  <2>2. CacheTypeOK'
    BY <1>3, <2>1 DEF Take, Goes, CacheTypeOK
  <2>3. PromiseInv'
    BY <1>3, <2>1, HostTypes DEF Take, Goes, CacheTypeOK, PromiseInv, CellInv
  <2>4. CellInv'
    BY <1>3, <2>1, HostTypes DEF Take, Goes, CacheTypeOK, PromiseInv, CellInv
  <2>5. GivenInv'
    BY <1>3, <2>1, HostTypes DEF Take, Goes, CacheTypeOK, PromiseInv, GivenInv
  <2> QED
    BY <2>2, <2>3, <2>4, <2>5 DEF CacheInv
<1>4. ASSUME NEW t \in Tasks, Download(t) PROVE CacheInv'
  <2>1. HostOf[t] \in CachedHosts /\ Nothing \notin Tasks /\ Nothing \notin Answers
    BY HostTypes, CacheAssumption
  <2>2. CacheTypeOK'
    BY <1>4, <2>1 DEF Download, Goes, CacheTypeOK
  <2>3. keeper' = [keeper EXCEPT ![HostOf[t]] = t] /\ at' = [at EXCEPT ![t] = "downloads"] /\ keeper[HostOf[t]] = Nothing
    BY <1>4 DEF Download, Goes
  <2>4. PromiseInv'
    <3>1. ASSUME NEW s \in Tasks PROVE at'[s] = "downloads" <=> keeper'[HostOf[s]] = s
      <4>1. CASE s = t
        BY <2>1, <2>3, <4>1 DEF CacheTypeOK
      <4>2. CASE s # t /\ HostOf[s] = HostOf[t]
        <5>1. keeper[HostOf[s]] = Nothing /\ s # Nothing
          BY <2>1, <2>3, <4>2
        <5>2. at[s] # "downloads"
          BY <5>1 DEF PromiseInv
        <5>3. at'[s] = at[s]
          BY <2>3, <4>2 DEF CacheTypeOK
        <5>4. keeper'[HostOf[s]] = t
          BY <2>1, <2>3, <4>2 DEF CacheTypeOK
        <5> QED
          BY <4>2, <5>2, <5>3, <5>4
      <4>3. CASE s # t /\ HostOf[s] # HostOf[t]
        BY <2>1, <2>3, <4>3, HostTypes DEF CacheTypeOK, PromiseInv
      <4> QED
        BY <4>1, <4>2, <4>3
    <3>2. ASSUME NEW h \in CachedHosts, keeper'[h] \in Tasks PROVE HostOf[keeper'[h]] = h
      BY <2>1, <2>3, <3>2 DEF CacheTypeOK, PromiseInv
    <3> QED
      BY <3>1, <3>2 DEF PromiseInv
  <2>5. CellInv'
    BY <1>4, <2>1, HostTypes DEF Download, Goes, CacheTypeOK, PromiseInv, CellInv
  <2>6. GivenInv'
    BY <1>4, <2>1, HostTypes DEF Download, Goes, CacheTypeOK, PromiseInv, GivenInv
  <2> QED
    BY <2>2, <2>4, <2>5, <2>6 DEF CacheInv
<1>5. ASSUME NEW t \in Tasks, Answered(t) PROVE CacheInv'
  <2>1. HostOf[t] \in CachedHosts /\ Nothing \notin Tasks /\ Nothing \notin Answers
    BY HostTypes, CacheAssumption
  <2>2. PICK a \in Answers :
          /\ rules' = [rules EXCEPT ![HostOf[t]] = a] /\ given' = [given EXCEPT ![t] = a]
          /\ keeper' = [keeper EXCEPT ![HostOf[t]] = Nothing] /\ at' = [at EXCEPT ![t] = "done"]
          /\ cells' = cells /\ at[t] = "downloads"
    BY <1>5 DEF Answered, Goes
  <2>3. keeper[HostOf[t]] = t /\ rules[HostOf[t]] = Nothing /\ HostOf[t] \in cells
    BY <2>1, <2>2 DEF PromiseInv, CellInv
  <2>4. CacheTypeOK'
    BY <2>1, <2>2 DEF CacheTypeOK
  <2>5. PromiseInv'
    <3>1. ASSUME NEW s \in Tasks PROVE at'[s] = "downloads" <=> keeper'[HostOf[s]] = s
      <4>1. CASE s = t
        BY <2>1, <2>2, <4>1 DEF CacheTypeOK
      <4>2. CASE s # t /\ HostOf[s] = HostOf[t]
        BY <2>1, <2>2, <2>3, <4>2 DEF CacheTypeOK, PromiseInv
      <4>3. CASE s # t /\ HostOf[s] # HostOf[t]
        BY <2>1, <2>2, <4>3, HostTypes DEF CacheTypeOK, PromiseInv
      <4> QED
        BY <4>1, <4>2, <4>3
    <3>2. ASSUME NEW h \in CachedHosts, keeper'[h] \in Tasks PROVE HostOf[keeper'[h]] = h
      BY <2>1, <2>2, <3>2 DEF CacheTypeOK, PromiseInv
    <3> QED
      BY <3>1, <3>2 DEF PromiseInv
  <2>6. CellInv'
    BY <2>1, <2>2, <2>3, HostTypes DEF CacheTypeOK, CellInv
  <2>7. GivenInv'
    BY <2>1, <2>2, <2>3, HostTypes DEF CacheTypeOK, GivenInv
  <2> QED
    BY <2>4, <2>5, <2>6, <2>7 DEF CacheInv
<1>6. ASSUME NEW t \in Tasks, Drop(t) PROVE CacheInv'
  <2>1. HostOf[t] \in CachedHosts /\ Nothing \notin Tasks /\ Nothing \notin Answers
    BY HostTypes, CacheAssumption
  <2>2. CacheTypeOK'
    BY <1>6, <2>1 DEF Drop, Goes, CacheTypeOK
  <2>3. PromiseInv'
    BY <1>6, <2>1, HostTypes DEF Drop, Goes, CacheTypeOK, PromiseInv, CellInv
  <2>4. CellInv'
    BY <1>6, <2>1, HostTypes DEF Drop, Goes, CacheTypeOK, PromiseInv, CellInv
  <2>5. GivenInv'
    BY <1>6, <2>1, HostTypes DEF Drop, Goes, CacheTypeOK, PromiseInv, GivenInv
  <2> QED
    BY <2>2, <2>3, <2>4, <2>5 DEF CacheInv
<1>7. CASE UNCHANGED cacheVars
  BY <1>7 DEF cacheVars, CacheInv, CacheTypeOK, PromiseInv, CellInv, GivenInv
<1> QED
  BY <1>1, <1>2, <1>3, <1>4, <1>5, <1>6, <1>7 DEF CacheNext, Step

(* What the cache keeps, with tasks dropped anywhere.                       *)
THEOREM CacheSafe == CacheSpec => []CacheInv
BY CacheInitHolds, CacheStepKeeps, PTL DEF CacheSpec

(* A host is asked for its robots.txt by one task at a time, and never      *)
(* again once it has answered.                                              *)
LEMMA InvGivesOneDownload == CacheInv => OneDownload
<1> SUFFICES ASSUME CacheInv, NEW t \in Tasks, at[t] = "downloads"
             PROVE  /\ rules[HostOf[t]] = Nothing
                    /\ \A s \in Tasks \ {t} : at[s] = "downloads" => HostOf[s] # HostOf[t]
  BY DEF OneDownload
<1>1. HostOf[t] \in CachedHosts /\ keeper[HostOf[t]] = t /\ t # Nothing
  BY HostTypes, CacheAssumption DEF CacheInv, PromiseInv
<1> QED
  BY <1>1 DEF CacheInv, PromiseInv, CellInv

(* Every task of a host goes on with the same rules, which are those that   *)
(* the file will have.                                                      *)
LEMMA InvGivesSameRules == CacheInv => SameRulesForAll
BY HostTypes DEF CacheInv, CellInv, GivenInv, SameRulesForAll, Snapshot

-----------------------------------------------------------------------------
(* The cache in the discovery of sitemaps and in the loop of pages.        *)

(* The crawl loop asks for each host as a task of its own.                  *)
LEMMA LoopTypes == \A h \in Hosts : Loop[h] \in Tasks
BY DiscoveryAssumption

(* A step of a task, or none at all, keeps what the cache keeps.            *)
LEMMA StepsKeep ==
  /\ CacheInv /\ UNCHANGED cacheVars => CacheInv'
  /\ \A t \in Tasks : CacheInv /\ (Step(t) \/ Drop(t)) => CacheInv'
BY CacheStepKeeps DEF CacheNext

(* The deadline drops every request at once, and with them the promises.    *)
LEMMA InterruptKeeps == CacheInv /\ Interrupt => CacheInv'
<1> SUFFICES ASSUME CacheTypeOK, PromiseInv, CellInv, GivenInv, Interrupt
             PROVE  CacheInv'
  BY DEF CacheInv
<1>1. /\ at' = [t \in Tasks |-> IF at[t] \notin {"asks", "done"} THEN "dropped" ELSE at[t]]
      /\ keeper' = [h \in CachedHosts |-> Nothing]
      /\ cells' = cells /\ rules' = rules /\ given' = given
  BY DEF Interrupt
<1>2. Nothing \notin Tasks
  BY CacheAssumption
<1>3. CacheTypeOK'
  BY <1>1 DEF CacheTypeOK
<1>4. PromiseInv'
  BY <1>1, <1>2, HostTypes DEF PromiseInv
<1>5. CellInv'
  BY <1>1 DEF CellInv
<1>6. GivenInv'
  BY <1>1 DEF GivenInv
<1> QED
  BY <1>3, <1>4, <1>5, <1>6 DEF CacheInv

(* So no step of the discovery or of a page touches what the cache keeps.   *)
LEMMA NextKeeps == CacheInv /\ [Next]_vars => CacheInv'
<1> SUFFICES ASSUME CacheInv, [Next]_vars
             PROVE  CacheInv'
  OBVIOUS
<1>1. CASE AskRobots
  <2>1. CASE \E h \in Hosts : Step(Loop[h])
    BY <2>1, LoopTypes, StepsKeep
  <2>2. CASE \E t \in PageTasks : Step(t) \/ Drop(t)
    BY <2>2, StepsKeep DEF PageTasks
  <2> QED
    BY <1>1, <2>1, <2>2 DEF AskRobots
<1>2. CASE Interrupt
  BY <1>2, InterruptKeeps
<1>3. CASE Start \/ LaunchDeferred \/ TakeNext \/ Join \/ EndDiscovery \/ TakeFound \/ Ended \/ UNCHANGED vars
  <2>1. UNCHANGED cacheVars
    BY <1>3 DEF Start, LaunchDeferred, TakeNext, Join, EndDiscovery, TakeFound, Ended, vars
  <2> QED
    BY <2>1, StepsKeep
<1> QED
  BY <1>1, <1>2, <1>3 DEF Next


-----------------------------------------------------------------------------
(* The search for sitemaps.                                                *)

(* The sitemaps in hand: waiting for room, asked for, and read.            *)
Waiting == ToSet(deferred)
Asked == {x.url : x \in inFlight}
Noted == {rows[i].url : i \in DOMAIN rows}
ReadWell(u) == Doc(u).answer = "doc" /\ Doc(u).status = 200

(* The rows there may be.                                                 *)
RowsThereAre ==
  [url : DOMAIN web.docs, origin : {"robots", "well_known", "index"}, status : Nat, valid : BOOLEAN, urls : Nat]

(* What there is of each.                                                  *)
SearchTypes ==
  /\ pending \in Seq(DOMAIN web.docs) /\ deferred \in Seq(DOMAIN web.docs) /\ visited \subseteq DOMAIN web.docs
  /\ inFlight \subseteq [url : DOMAIN web.docs, origin : {"robots", "well_known", "index"}]
  /\ rows \in Seq(RowsThereAre)
  /\ found \in Seq(DOMAIN web.pages) /\ downloaded \in Nat

(* The rules that were waited for are known.                               *)
RulesKnown ==
  /\ RulesFor(web.home) # Nothing
  /\ \A u \in visited : AsksRobots(u) => RulesFor(Doc(u).host) # Nothing

(* A sitemap met that may be read is in one place, once; and it has the    *)
(* origin it has.                                                          *)
OnePlace ==
  /\ Waiting \cup Asked \cup Noted \subseteq {u \in visited : Fit(u)}
  /\ Waiting \cap Asked = {} /\ Waiting \cap Noted = {} /\ Asked \cap Noted = {}
  /\ \A i, j \in DOMAIN deferred : deferred[i] = deferred[j] => i = j
  /\ \A i, j \in DOMAIN rows : rows[i].url = rows[j].url => i = j
  /\ \A x \in inFlight : x.origin = Origin(x.url)
  /\ \A i \in DOMAIN rows : rows[i].origin = Origin(rows[i].url) /\ Doc(rows[i].url).answer # "died"
  /\ \A u \in visited : Fit(u) /\ Doc(u).answer # "died" => u \in Waiting \cup Asked \cup Noted

(* What was met is all that the roots lead to through what was met, and    *)
(* nothing else.                                                           *)
NothingElse ==
  \A S \in SUBSET DOMAIN web.docs :
    Roots \subseteq S /\ (\A v \in S \cap visited : Children(v) \subseteq S) => visited \cup ToSet(pending) \subseteq S
Followed ==
  /\ Roots \subseteq visited \cup ToSet(pending)
  /\ ~Full(Len(found)) =>
       \A u \in visited \ (Waiting \cup Asked) : Children(u) \subseteq visited \cup ToSet(pending)

(* As many were asked for as the count says.                               *)
Counted == downloaded = Cardinality({u \in visited : Fit(u)} \ Waiting)

(* The URLs are of what was read, all of them until there are enough, and  *)
(* each once if each is declared once.                                     *)
WellRead == {u \in Noted : ReadWell(u)}
UrlsRead == UNION {ToSet(Doc(u).urls) : u \in WellRead}
AllTaken ==
  /\ ToSet(found) \subseteq UrlsRead
  /\ ~Full(Len(found)) => ToSet(found) = UrlsRead
  /\ DeclareApart(WellRead) =>
       \A i, j \in DOMAIN found : web.pages[found[i]].same = web.pages[found[j]].same => i = j

SearchInv == SearchTypes /\ RulesKnown /\ OnePlace /\ NothingElse /\ Followed /\ Counted /\ AllTaken

(* The search over its stages.                                             *)
DiscoveryInv ==
  /\ web \in Webs /\ limit \in [Hosts -> Nat \ {0}] /\ ceiling \in [Hosts -> Nat]
  /\ stage \in {"rules", "sitemaps", "found", "pages", "over"}
  /\ stage = "rules" =>
       pending = <<>> /\ deferred = <<>> /\ visited = {} /\ inFlight = {} /\ downloaded = 0 /\ found = <<>> /\ rows = <<>>
  /\ stage \in {"sitemaps", "found"} => SearchInv
  /\ stage = "found" =>
       inFlight = {} /\ (~Full(Len(found)) /\ downloaded < MaxSitemaps => pending = <<>> /\ deferred = <<>>)

-----------------------------------------------------------------------------
(* Sequences as the sets of what is in them.                               *)

LEMMA AppendSays ==
  ASSUME NEW S, NEW s \in Seq(S), NEW e \in S
  PROVE  Append(s, e) \in Seq(S) /\ ToSet(Append(s, e)) = ToSet(s) \cup {e}
<1>1. /\ Append(s, e) \in Seq(S) /\ DOMAIN Append(s, e) = 1..(Len(s) + 1) /\ DOMAIN s = 1..Len(s)
      /\ \A i \in 1..Len(s) : Append(s, e)[i] = s[i]
      /\ Append(s, e)[Len(s) + 1] = e
  OBVIOUS
<1>2. 1..(Len(s) + 1) = (1..Len(s)) \cup {Len(s) + 1}
  OBVIOUS
<1> QED
  BY <1>1, <1>2 DEF ToSet

LEMMA ConcatSays ==
  ASSUME NEW S, NEW s \in Seq(S), NEW t \in Seq(S)
  PROVE  s \o t \in Seq(S) /\ ToSet(s \o t) = ToSet(s) \cup ToSet(t)
<1> DEFINE r == s \o t
<1>1. /\ r \in Seq(S) /\ Len(r) = Len(s) + Len(t)
      /\ \A i \in 1..Len(s) : r[i] = s[i]
      /\ \A i \in 1..Len(t) : r[Len(s) + i] = t[i]
      /\ \A i \in 1..Len(r) : r[i] = IF i <= Len(s) THEN s[i] ELSE t[i - Len(s)]
  OBVIOUS
<1>2. DOMAIN s = 1..Len(s) /\ DOMAIN t = 1..Len(t) /\ DOMAIN r = 1..Len(r) /\ Len(s) \in Nat /\ Len(t) \in Nat
  BY <1>1
<1> HIDE DEF r
<1>3. ToSet(s) \cup ToSet(t) \subseteq ToSet(r)
  <2>1. \A i \in 1..Len(s) : i \in 1..Len(r)
    BY <1>1, <1>2
  <2>2. \A i \in 1..Len(t) : Len(s) + i \in 1..Len(r)
    BY <1>1, <1>2
  <2>3. ToSet(s) \subseteq ToSet(r)
    <3> SUFFICES ASSUME NEW i \in 1..Len(s) PROVE s[i] \in ToSet(r)
      BY <1>2 DEF ToSet
    <3>1. i \in DOMAIN r /\ r[i] = s[i]
      BY <1>1, <1>2, <2>1
    <3> QED
      BY <3>1 DEF ToSet
  <2>4. ToSet(t) \subseteq ToSet(r)
    <3> SUFFICES ASSUME NEW i \in 1..Len(t) PROVE t[i] \in ToSet(r)
      BY <1>2 DEF ToSet
    <3>1. Len(s) + i \in DOMAIN r /\ r[Len(s) + i] = t[i]
      BY <1>1, <1>2, <2>2
    <3> QED
      BY <3>1 DEF ToSet
  <2> QED
    BY <2>3, <2>4
<1>4. ToSet(r) \subseteq ToSet(s) \cup ToSet(t)
  <2> SUFFICES ASSUME NEW i \in 1..Len(r) PROVE r[i] \in ToSet(s) \cup ToSet(t)
    BY <1>2 DEF ToSet
  <2>1. CASE i <= Len(s)
    BY <1>1, <1>2, <2>1 DEF ToSet
  <2>2. CASE i > Len(s)
    <3>1. i - Len(s) \in 1..Len(t) /\ r[i] = t[i - Len(s)]
      BY <1>1, <1>2, <2>2
    <3> QED
      BY <1>2, <3>1 DEF ToSet
  <2> QED
    BY <1>2, <2>1, <2>2
<1> QED
  BY <1>1, <1>3, <1>4 DEF r

LEMMA HeadAndTail ==
  ASSUME NEW S, NEW s \in Seq(S), s # <<>>
  PROVE  Head(s) \in S /\ Tail(s) \in Seq(S) /\ ToSet(s) = {Head(s)} \cup ToSet(Tail(s))
<1>1. /\ Head(s) \in S /\ Tail(s) \in Seq(S) /\ Head(s) = s[1] /\ Len(s) \in Nat \ {0}
      /\ DOMAIN s = 1..Len(s) /\ DOMAIN Tail(s) = 1..(Len(s) - 1)
      /\ \A i \in 1..(Len(s) - 1) : Tail(s)[i] = s[i + 1]
  OBVIOUS
<1>2. \A i \in 1..Len(s) : i = 1 \/ (i - 1 \in 1..(Len(s) - 1) /\ s[i] = Tail(s)[i - 1])
  BY <1>1
<1>3. \A i \in 1..(Len(s) - 1) : i + 1 \in 1..Len(s)
  BY <1>1
<1>4. ASSUME NEW i \in DOMAIN s PROVE s[i] \in {Head(s)} \cup ToSet(Tail(s))
  <2>1. CASE i = 1
    BY <1>1, <2>1
  <2>2. CASE i # 1
    <3>1. i - 1 \in DOMAIN Tail(s) /\ s[i] = Tail(s)[i - 1]
      BY <1>1, <1>2, <2>2
    <3> QED
      BY <3>1 DEF ToSet
  <2> QED
    BY <2>1, <2>2
<1>5. Head(s) \in ToSet(s)
  <2>1. 1 \in DOMAIN s
    BY <1>1
  <2> QED
    BY <1>1, <2>1 DEF ToSet
<1>6. ASSUME NEW i \in DOMAIN Tail(s) PROVE Tail(s)[i] \in ToSet(s)
  <2>1. i + 1 \in DOMAIN s /\ Tail(s)[i] = s[i + 1]
    BY <1>1, <1>3
  <2> QED
    BY <2>1 DEF ToSet
<1>7. ToSet(s) \subseteq {Head(s)} \cup ToSet(Tail(s))
  BY <1>4 DEF ToSet
<1>8. ToSet(Tail(s)) \subseteq ToSet(s)
  BY <1>6 DEF ToSet
<1> QED
  BY <1>1, <1>5, <1>7, <1>8

LEMMA RemoveAtSays ==
  ASSUME NEW S, NEW s \in Seq(S), NEW i \in DOMAIN s, \A j, k \in DOMAIN s : s[j] = s[k] => j = k
  PROVE  LET r == RemoveAt(s, i) IN
         /\ r \in Seq(S) /\ ToSet(r) = ToSet(s) \ {s[i]}
         /\ \A j, k \in DOMAIN r : r[j] = r[k] => j = k
<1> DEFINE r == RemoveAt(s, i)
           n == Len(s)
           of(k) == IF k < i THEN k ELSE k + 1
<1>1. n \in Nat /\ i \in 1..n /\ DOMAIN s = 1..n
  OBVIOUS
<1>2. r = SubSeq(s, 1, i - 1) \o SubSeq(s, i + 1, n)
  BY DEF RemoveAt
<1> DEFINE a == SubSeq(s, 1, i - 1)
           b == SubSeq(s, i + 1, n)
<1>a. a \in Seq(S) /\ Len(a) = i - 1 /\ \A k \in 1..(i - 1) : a[k] = s[k]
  <2>1. \A k \in 1..(i - 1) : s[k] \in S
    BY <1>1
  <2>2. a = [k \in 1..(i - 1) |-> s[1 + k - 1]]
    BY <1>1
  <2> QED
    BY <1>1, <2>1, <2>2
<1>b. b \in Seq(S) /\ Len(b) = n - i /\ \A k \in 1..(n - i) : b[k] = s[i + k]
  <2>1. \A k \in (i + 1)..n : s[k] \in S
    BY <1>1
  <2>2. b = [k \in 1..(n - i) |-> s[(i + 1) + k - 1]]
    BY <1>1
  <2> QED
    BY <1>1, <2>1, <2>2
<1>c. r = a \o b
  BY <1>2
<1> HIDE DEF a, b, r
<1>3. r \in Seq(S) /\ Len(r) = n - 1
  <2>1. r \in Seq(S) /\ Len(r) = Len(a) + Len(b)
    <3>1. \A x, y \in Seq(S) : x \o y \in Seq(S) /\ Len(x \o y) = Len(x) + Len(y)
      OBVIOUS
    <3>2. a \in Seq(S) /\ b \in Seq(S)
      BY <1>a, <1>b
    <3> QED
      BY <1>c, <3>1, <3>2
  <2>2. Len(a) + Len(b) = n - 1
    BY <1>1, <1>a, <1>b
  <2> QED
    BY <2>1, <2>2
<1>4. DOMAIN r = 1..(n - 1)
  BY <1>3
<1>5. \A k \in 1..(n - 1) : r[k] = s[of(k)]
  <2> SUFFICES ASSUME NEW k \in 1..(n - 1) PROVE r[k] = s[of(k)]
    OBVIOUS
  <2>1. CASE k < i
    <3>1. k \in 1..(i - 1) /\ r[k] = a[k]
      BY <1>1, <1>a, <1>b, <1>c, <2>1
    <3> QED
      BY <1>a, <2>1, <3>1
  <2>2. CASE ~(k < i)
    <3>0. k - (i - 1) \in 1..(n - i)
      BY <1>1, <2>2
    <3>1. k - (i - 1) \in 1..(n - i) /\ r[k] = b[k - (i - 1)]
      <4>1. k = Len(a) + (k - (i - 1)) /\ k - (i - 1) \in 1..Len(b)
        BY <1>1, <1>a, <1>b, <3>0
      <4>2. \A m \in 1..Len(b) : (a \o b)[Len(a) + m] = b[m]
        BY <1>a, <1>b
      <4> QED
        BY <1>c, <3>0, <4>1, <4>2
    <3>2. i + (k - (i - 1)) = k + 1
      BY <1>1
    <3> QED
      BY <1>b, <2>2, <3>1, <3>2
  <2> QED
    BY <2>1, <2>2
<1>6. \A k \in 1..(n - 1) : of(k) \in 1..n /\ of(k) # i
  BY <1>1
<1>7. \A j, k \in 1..(n - 1) : of(j) = of(k) => j = k
  BY <1>1
<1>8. \A j \in 1..n : j # i => \E k \in 1..(n - 1) : of(k) = j
  <2> SUFFICES ASSUME NEW j \in 1..n, j # i PROVE \E k \in 1..(n - 1) : of(k) = j
    OBVIOUS
  <2>1. CASE j < i
    BY <1>1, <2>1
  <2>2. CASE j > i
    <3>1. j - 1 \in 1..(n - 1) /\ of(j - 1) = j
      BY <1>1, <2>2
    <3> QED
      BY <3>1
  <2> QED
    BY <1>1, <2>1, <2>2
<1> HIDE DEF of
<1>9. \A j, k \in DOMAIN r : r[j] = r[k] => j = k
  BY <1>1, <1>4, <1>5, <1>6, <1>7
<1>10. ToSet(r) \subseteq ToSet(s) \ {s[i]}
  BY <1>1, <1>4, <1>5, <1>6 DEF ToSet
<1>11. ToSet(s) \ {s[i]} \subseteq ToSet(r)
  <2> SUFFICES ASSUME NEW j \in 1..n, j # i PROVE s[j] \in ToSet(r)
    BY <1>1 DEF ToSet
  <2>1. PICK k \in DOMAIN r : of(k) = j
    BY <1>4, <1>8
  <2> QED
    BY <1>4, <1>5, <2>1 DEF ToSet
<1> QED
  BY <1>3, <1>9, <1>10, <1>11 DEF r

(* Of some positions there is a first.                                     *)
LEMMA FirstOf ==
  ASSUME NEW T \in SUBSET Nat, T # {}
  PROVE  \E x \in T : \A y \in T : x <= y
<1> DEFINE Below == {p \in Nat \X Nat : p[1] < p[2]}
<1>1. IsWellFoundedOn(Below, Nat)
  <2>1. Below = OpToRel(<, Nat)
    BY DEF OpToRel
  <2> QED
    BY <2>1, NatLessThanWellFounded
<1>2. PICK x \in T : \A y \in T : ~(<<y, x>> \in Below)
  BY <1>1, WFMin
<1>3. ASSUME NEW y \in T PROVE x <= y
  <2>1. x \in Nat /\ y \in Nat /\ ~(<<y, x>> \in Below)
    BY <1>2
  <2>2. ~(y < x)
    BY <2>1
  <2> QED
    BY <2>1, <2>2
<1> QED
  BY <1>3

-----------------------------------------------------------------------------
(* What is known of a sitemap stays.                                       *)

(* As long as the site and the rules that were given are the same.         *)
LEMMA ReadsAlike ==
  ASSUME web' = web, given' = given
  PROVE  /\ Roots' = Roots /\ \A h : RulesFor(h)' = RulesFor(h)
         /\ \A u : /\ Doc(u)' = Doc(u) /\ (AsksRobots(u)' <=> AsksRobots(u)) /\ (ReadWell(u)' <=> ReadWell(u))
                   /\ (Fit(u)' <=> Fit(u)) /\ Children(u)' = Children(u) /\ Origin(u)' = Origin(u)
<1>1. \A h : RulesFor(h)' = RulesFor(h)
  BY DEF RulesFor
<1>2. Announced' = Announced
  BY <1>1 DEF Announced
<1>3. \A u : Doc(u)' = Doc(u) /\ (AsksRobots(u)' <=> AsksRobots(u)) /\ (Crawled(u)' <=> Crawled(u))
  BY DEF Doc, AsksRobots, Crawled
<1>4. \A u : Allowed(u)' <=> Allowed(u)
  BY <1>1, <1>3 DEF Allowed
<1>5. \A u : Fit(u)' <=> Fit(u)
  BY <1>3, <1>4 DEF Fit
<1>6. \A u : Children(u)' = Children(u) /\ (ReadWell(u)' <=> ReadWell(u))
  BY <1>3, <1>5 DEF Children, ReadWell
<1>7. Roots' = Roots /\ \A u : Origin(u)' = Origin(u)
  BY <1>2 DEF Roots, Origin
<1> QED
  BY <1>1, <1>3, <1>5, <1>6, <1>7

(* And what it declares was taken, or not.                                 *)
LEMMA TakenStays ==
  ASSUME AllTaken, web' = web, found' = found, Noted' = Noted
  PROVE  AllTaken'
<1>1. \A u : Doc(u)' = Doc(u) /\ (ReadWell(u)' <=> ReadWell(u)) /\ (Wanted(u)' <=> Wanted(u))
  BY DEF Doc, ReadWell, Wanted
<1>2. WellRead' = WellRead
  BY <1>1 DEF WellRead
<1>3. UrlsRead' = UrlsRead
  BY <1>1, <1>2 DEF UrlsRead
<1>4. DeclareApart(WellRead)' <=> DeclareApart(WellRead)
  BY <1>1, <1>2 DEF DeclareApart
<1>5. Full(Len(found))' <=> Full(Len(found))
  BY DEF Full, Tope
<1> QED
  BY <1>3, <1>4, <1>5 DEF AllTaken

(* A task that was given rules keeps them.                                 *)
LEMMA GivenStays ==
  ASSUME CacheInv, NEW t \in Tasks, Step(t)
  PROVE  \A s \in Tasks : given[s] # Nothing => given'[s] = given[s]
<1>1. CASE Look(t) \/ Enter(t) \/ Download(t)
  BY <1>1 DEF Look, Enter, Download
<1>2. CASE Take(t) \/ Answered(t)
  <2>1. given[t] = Nothing
    BY <1>2 DEF Take, Answered, CacheInv, GivenInv
  <2>2. given \in [Tasks -> Answers \cup {Nothing}] /\ \E a : given' = [given EXCEPT ![t] = a]
    BY <1>2 DEF Take, Answered, CacheInv, CacheTypeOK
  <2> QED
    BY <2>1, <2>2
<1> QED
  BY <1>1, <1>2 DEF Step

(* The rules of another host make no difference to the search.             *)
LEMMA SearchStays ==
  ASSUME SearchInv, web \in Webs,
         UNCHANGED <<web, pending, deferred, visited, inFlight, downloaded, found, rows>>,
         \A h \in Hosts : RulesFor(h) # Nothing => RulesFor(h)' = RulesFor(h)
  PROVE  SearchInv'
<1>0. /\ web' = web /\ pending' = pending /\ deferred' = deferred /\ visited' = visited /\ inFlight' = inFlight
      /\ downloaded' = downloaded /\ found' = found /\ rows' = rows
  OBVIOUS
<1>1. web.home \in Hosts /\ \A u \in DOMAIN web.docs : web.docs[u].host \in Hosts
  BY DiscoveryAssumption
<1>2. visited \subseteq DOMAIN web.docs
  BY DEF SearchInv, SearchTypes, RowsThereAre
<1>3. \A u : /\ Doc(u)' = Doc(u) /\ (AsksRobots(u)' <=> AsksRobots(u))
             /\ (ReadWell(u)' <=> ReadWell(u)) /\ (Crawled(u)' <=> Crawled(u))
  BY <1>0 DEF Doc, AsksRobots, Crawled, ReadWell
<1>4. RulesFor(web.home)' = RulesFor(web.home)
  BY <1>0, <1>1 DEF SearchInv, RulesKnown, RulesFor
<1>5. ASSUME NEW u \in visited, AsksRobots(u) PROVE RulesFor(Doc(u).host)' = RulesFor(Doc(u).host)
  BY <1>0, <1>1, <1>2, <1>5 DEF SearchInv, RulesKnown, RulesFor, Doc
<1>6. \A u \in visited : Fit(u)' <=> Fit(u)
  BY <1>0, <1>3, <1>5 DEF Fit, Allowed, AsksRobots, Crawled, Doc
<1>7. \A u \in visited : Children(u)' = Children(u)
  BY <1>3, <1>6 DEF Children
<1>8. Announced' = Announced
  BY <1>0, <1>4 DEF Announced
<1>9. Roots' = Roots /\ \A u : Origin(u)' = Origin(u)
  BY <1>0, <1>8 DEF Roots, Origin
<1>10. Waiting' = Waiting /\ Asked' = Asked /\ Noted' = Noted /\ \A n : Full(n)' <=> Full(n)
  BY <1>0 DEF Waiting, Asked, Noted, Full, Tope
<1>11. SearchTypes'
  BY <1>0 DEF SearchInv, SearchTypes, RowsThereAre
<1>12. RulesKnown'
  BY <1>0, <1>3, <1>4, <1>5 DEF SearchInv, RulesKnown, RulesFor, Doc
<1>13. OnePlace'
  BY <1>0, <1>3, <1>6, <1>9, <1>10 DEF SearchInv, OnePlace
<1>14. NothingElse'
  BY <1>0, <1>7, <1>9 DEF SearchInv, NothingElse
<1>15. Followed'
  BY <1>0, <1>7, <1>9, <1>10 DEF SearchInv, Followed
<1>16. AllTaken'
  BY <1>0, <1>10, TakenStays DEF SearchInv
<1>17. Counted'
  BY <1>0, <1>6, <1>10 DEF SearchInv, Counted
<1> QED
  BY <1>11, <1>12, <1>13, <1>14, <1>15, <1>16, <1>17 DEF SearchInv

-----------------------------------------------------------------------------
(* Each step of the search. *)

LEMMA SearchStarts ==
  ASSUME DiscoveryInv, Start
  PROVE  SearchInv'
<1>1. /\ pending' = Announced \o web.usual /\ stage = "rules"
      /\ web' = web /\ given' = given /\ deferred' = <<>> /\ visited' = {} /\ inFlight' = {}
      /\ downloaded' = 0 /\ found' = <<>> /\ rows' = <<>>
  BY DEF Start, DiscoveryInv, cacheVars
<1>2. web \in Webs /\ Announced \in Seq(DOMAIN web.docs) /\ web.usual \in Seq(DOMAIN web.docs)
  <2>1. web \in Webs /\ <<>> \in Seq(DOMAIN web.docs)
    BY DEF DiscoveryInv
  <2>2. web.announced \in Seq(DOMAIN web.docs) /\ web.usual \in Seq(DOMAIN web.docs)
    BY <2>1, DiscoveryAssumption
  <2> QED
    BY <2>1, <2>2 DEF Announced
<1>3. pending' \in Seq(DOMAIN web.docs) /\ ToSet(pending') = Roots
  BY <1>1, <1>2, ConcatSays DEF Roots
<1>4. SearchTypes'
  BY <1>1, <1>3 DEF SearchTypes, RowsThereAre
<1>5. RulesKnown'
  <2>1. RulesFor(web.home) # Nothing
    BY <1>1 DEF Start, Awaiting, AwaitedHosts
  <2> QED
    BY <1>1, <2>1, ReadsAlike DEF RulesKnown
<1>6. Waiting' = {} /\ Asked' = {} /\ Noted' = {}
  BY <1>1 DEF Waiting, Asked, Noted, ToSet
<1>7. OnePlace'
  BY <1>1, <1>6 DEF OnePlace
<1>8. NothingElse' /\ Followed'
  BY <1>1, <1>3, ReadsAlike DEF NothingElse, Followed
<1>9. AllTaken'
  BY <1>1, <1>6 DEF AllTaken, UrlsRead, WellRead, ToSet
<1>10. Counted'
  BY <1>1, FS_EmptySet DEF Counted
<1> QED
  BY <1>4, <1>5, <1>7, <1>8, <1>9, <1>10 DEF SearchInv

(* What was asked for has one record.                                      *)
LEMMA AskedOnce ==
  ASSUME SearchTypes, OnePlace, NEW x \in inFlight, NEW y \in inFlight, x.url = y.url
  PROVE  x = y
<1>1. /\ x \in [url : DOMAIN web.docs, origin : {"robots", "well_known", "index"}]
      /\ y \in [url : DOMAIN web.docs, origin : {"robots", "well_known", "index"}]
      /\ x.origin = y.origin
  BY DEF SearchTypes, OnePlace
<1> QED
  BY <1>1

LEMMA OriginTypes == \A u : Origin(u) \in {"robots", "well_known", "index"}
  BY DEF Origin

(* There are finitely many sitemaps.                                       *)
LEMMA FinitelyMany ==
  ASSUME SearchTypes, web \in Webs
  PROVE  \A P \in SUBSET visited : IsFiniteSet(P)
<1>1. visited \subseteq DOMAIN web.docs /\ IsFiniteSet(DOMAIN web.docs)
  BY DiscoveryAssumption DEF SearchTypes
<1> QED
  BY <1>1, FS_Subset

LEMMA DeferredLaunched ==
  ASSUME SearchInv, web \in Webs, LaunchDeferred
  PROVE  SearchInv'
<1> DEFINE first == CHOOSE j \in Ready : \A k \in Ready : j <= k
           u == deferred[first]
           x == [url |-> u, origin |-> Origin(u)]
<1>0. /\ web' = web /\ given' = given /\ pending' = pending /\ visited' = visited /\ found' = found /\ rows' = rows
      /\ deferred' = RemoveAt(deferred, first) /\ inFlight' = inFlight \cup {x} /\ downloaded' = downloaded + 1
  BY DEF LaunchDeferred, Launch, cacheVars
<1>1. first \in DOMAIN deferred
  <2>1. Ready # {} /\ Ready \in SUBSET Nat
    BY DEF LaunchDeferred, Ready, SearchInv, SearchTypes
  <2>2. \E j \in Ready : \A k \in Ready : j <= k
    BY <2>1, FirstOf
  <2> QED
    BY <2>2 DEF Ready
<1> HIDE DEF first
<1>2. /\ deferred' \in Seq(DOMAIN web.docs) /\ Waiting' = Waiting \ {u}
      /\ \A i, j \in DOMAIN deferred' : deferred'[i] = deferred'[j] => i = j
  BY <1>0, <1>1, RemoveAtSays DEF SearchInv, SearchTypes, OnePlace, Waiting
<1>3. u \in Waiting /\ u \in DOMAIN web.docs
  BY <1>1 DEF SearchInv, SearchTypes, Waiting, ToSet
<1>4. Asked' = Asked \cup {u} /\ Noted' = Noted
  <2>1. inFlight' = inFlight \cup {x} /\ x.url = u
    BY <1>0
  <2> HIDE DEF x
  <2>2. Asked' = Asked \cup {u}
    BY <2>1 DEF Asked
  <2> QED
    BY <1>0, <2>2 DEF Noted
<1> HIDE DEF u
<1>5. SearchTypes'
  BY <1>0, <1>2, <1>3, OriginTypes DEF SearchInv, SearchTypes, RowsThereAre
<1>6. RulesKnown'
  BY <1>0, ReadsAlike DEF SearchInv, RulesKnown
<1>7. OnePlace'
  <2>1. Waiting' \cup Asked' \cup Noted' = Waiting \cup Asked \cup Noted
    BY <1>2, <1>3, <1>4
  <2>2. Waiting' \cap Asked' = {} /\ Waiting' \cap Noted' = {} /\ Asked' \cap Noted' = {}
    BY <1>2, <1>3, <1>4 DEF SearchInv, OnePlace
  <2>3. \A y \in inFlight' : y.origin = Origin(y.url)
    BY <1>0 DEF SearchInv, OnePlace
  <2> QED
    BY <1>0, <1>2, <2>1, <2>2, <2>3, ReadsAlike DEF SearchInv, OnePlace
<1>8. NothingElse'
  BY <1>0, ReadsAlike DEF SearchInv, NothingElse
<1>9. Followed'
  <2>1. Waiting' \cup Asked' = Waiting \cup Asked
    BY <1>2, <1>3, <1>4
  <2> QED
    BY <1>0, <2>1, ReadsAlike DEF SearchInv, Followed, Full, Tope
<1>10. AllTaken'
  BY <1>0, <1>4, TakenStays DEF SearchInv
<1>11. Counted'
  <2> DEFINE launched == {v \in visited : Fit(v)} \ Waiting
  <2>1. ({v \in visited : Fit(v)} \ Waiting)' = launched \cup {u} /\ u \notin launched
    BY <1>0, <1>2, <1>3, ReadsAlike DEF SearchInv, OnePlace
  <2>2. IsFiniteSet(launched)
    BY FinitelyMany DEF SearchInv
  <2>3. downloaded = Cardinality(launched)
    BY DEF SearchInv, Counted
  <2> HIDE DEF launched
  <2>4. Cardinality(launched \cup {u}) = downloaded + 1
    BY <2>1, <2>2, <2>3, FS_AddElement
  <2> QED
    BY <1>0, <2>1, <2>4 DEF Counted
<1> QED
  BY <1>5, <1>6, <1>7, <1>8, <1>9, <1>10, <1>11 DEF SearchInv

LEMMA NextTaken ==
  ASSUME SearchInv, web \in Webs, TakeNext
  PROVE  SearchInv'
<1> DEFINE u == Head(pending)
           x == [url |-> u, origin |-> Origin(u)]
           skipped == u \in visited \/ ~Crawled(u) \/ (AsksRobots(u) /\ ~Allowed(u))
<1>0. /\ web' = web /\ given' = given /\ found' = found /\ rows' = rows /\ stage = "sitemaps"
      /\ pending' = Tail(pending) /\ visited' = visited \cup {u} /\ Head1 /\ ~Awaiting
  BY DEF TakeNext, Head1, Filling, cacheVars
<1>1. /\ u \in DOMAIN web.docs /\ pending' \in Seq(DOMAIN web.docs)
      /\ ToSet(pending) = {u} \cup ToSet(pending')
  BY <1>0, HeadAndTail DEF Head1, SearchInv, SearchTypes
<1>2. visited' \cup ToSet(pending') = visited \cup ToSet(pending) /\ visited \subseteq visited'
  BY <1>0, <1>1
<1>3. Noted' = Noted
  BY <1>0 DEF Noted
<1>4. ASSUME skipped PROVE SearchTypes' /\ OnePlace' /\ Followed' /\ Counted'
  <2>1. deferred' = deferred /\ inFlight' = inFlight /\ downloaded' = downloaded
    BY <1>4 DEF TakeNext
  <2>2. Waiting' = Waiting /\ Asked' = Asked
    BY <2>1 DEF Waiting, Asked
  <2>3. u \in visited \/ ~Fit(u)
    BY <1>4 DEF Fit, AsksRobots
  <2>4. SearchTypes'
    BY <1>0, <1>1, <2>1 DEF SearchInv, SearchTypes, RowsThereAre
  <2>5. OnePlace'
    BY <1>0, <1>2, <1>3, <2>1, <2>2, <2>3, ReadsAlike DEF SearchInv, OnePlace
  <2>6. u \in visited \/ Children(u) = {}
    BY <2>3 DEF Children
  <2> HIDE DEF skipped
  <2>7. Followed'
    BY <1>0, <1>2, <2>2, <2>6, ReadsAlike DEF SearchInv, Followed, Full, Tope
  <2>8. Counted'
    <3>1. {v \in visited' : Fit(v)} = {v \in visited : Fit(v)}
      BY <1>0, <2>3
    <3> QED
      BY <1>0, <2>1, <2>2, <3>1, ReadsAlike DEF SearchInv, Counted
  <2> QED
    BY <2>4, <2>5, <2>7, <2>8
<1>5. ASSUME ~skipped PROVE SearchTypes' /\ OnePlace' /\ Followed' /\ Counted'
  <2>1. u \notin visited /\ Fit(u)
    BY <1>1, <1>5 DEF Fit, AsksRobots
  <2>2. u \notin Waiting /\ u \notin Asked /\ u \notin Noted
    BY <2>1 DEF SearchInv, OnePlace
  <2> DEFINE launched == {v \in visited : Fit(v)} \ Waiting
  <2>a. IsFiniteSet(launched) /\ u \notin launched /\ downloaded = Cardinality(launched)
    BY <2>1, FinitelyMany DEF SearchInv, Counted
  <2> HIDE DEF launched
  <2>b. Cardinality(launched) = downloaded /\ Cardinality(launched \cup {u}) = downloaded + 1
    BY <2>a, FS_AddElement
  <2>3. CASE Room(u)
    <3>1. deferred' = deferred /\ inFlight' = inFlight \cup {x} /\ downloaded' = downloaded + 1
      BY <1>5, <2>3 DEF TakeNext, Launch
    <3>2. Waiting' = Waiting /\ Asked' = Asked \cup {u}
      <4>1. inFlight' = inFlight \cup {x} /\ x.url = u
        BY <3>1
      <4> HIDE DEF x, u
      <4> QED
        BY <3>1, <4>1 DEF Asked, Waiting
    <3> HIDE DEF u, skipped
    <3>3. SearchTypes'
      BY <1>0, <1>1, <3>1, OriginTypes DEF SearchInv, SearchTypes, RowsThereAre
    <3>4. \A y \in inFlight' : y.origin = Origin(y.url)
      BY <3>1 DEF SearchInv, OnePlace
    <3>5. OnePlace'
      <4>1. Waiting' \cap Asked' = {} /\ Waiting' \cap Noted' = {} /\ Asked' \cap Noted' = {}
        BY <1>3, <2>2, <3>2 DEF SearchInv, OnePlace
      <4>2. Waiting' \cup Asked' \cup Noted' = (Waiting \cup Asked \cup Noted) \cup {u}
        BY <1>3, <3>2
      <4> QED
        BY <1>0, <2>1, <3>1, <3>4, <4>1, <4>2, ReadsAlike DEF SearchInv, OnePlace
    <3>6. Followed'
      BY <1>0, <1>2, <3>2, ReadsAlike DEF SearchInv, Followed, Full, Tope
    <3>7. Counted'
      <4>1. ({v \in visited : Fit(v)} \ Waiting)' = launched \cup {u}
        BY <1>0, <2>1, <2>2, <3>2, ReadsAlike DEF launched
      <4> QED
        BY <2>b, <3>1, <4>1 DEF Counted
    <3> QED
      BY <3>3, <3>5, <3>6, <3>7
  <2>4. CASE ~Room(u)
    <3>1. deferred' = Append(deferred, u) /\ inFlight' = inFlight /\ downloaded' = downloaded
      BY <1>5, <2>4 DEF TakeNext
    <3>2. deferred' \in Seq(DOMAIN web.docs) /\ Waiting' = Waiting \cup {u} /\ Asked' = Asked
      BY <1>1, <3>1, AppendSays DEF SearchInv, SearchTypes, Waiting, Asked
    <3> HIDE DEF u, skipped
    <3>3. SearchTypes'
      BY <1>0, <1>1, <3>1, <3>2 DEF SearchInv, SearchTypes, RowsThereAre
    <3>4. \A i, j \in DOMAIN deferred' : deferred'[i] = deferred'[j] => i = j
      <4>1. \A i \in DOMAIN deferred : deferred[i] # u
        BY <2>2 DEF Waiting, ToSet
      <4> QED
        BY <3>1, <4>1 DEF SearchInv, SearchTypes, OnePlace
    <3>5. OnePlace'
      <4>1. Waiting' \cap Asked' = {} /\ Waiting' \cap Noted' = {} /\ Asked' \cap Noted' = {}
        BY <1>3, <2>2, <3>2 DEF SearchInv, OnePlace
      <4>2. Waiting' \cup Asked' \cup Noted' = (Waiting \cup Asked \cup Noted) \cup {u}
        BY <1>3, <3>2
      <4> QED
        BY <1>0, <2>1, <3>1, <3>4, <4>1, <4>2, ReadsAlike DEF SearchInv, OnePlace
    <3>6. Followed'
      BY <1>0, <1>2, <3>2, ReadsAlike DEF SearchInv, Followed, Full, Tope
    <3>7. Counted'
      <4>1. ({v \in visited : Fit(v)} \ Waiting)' = launched
        BY <1>0, <2>1, <3>2, ReadsAlike DEF launched
      <4> QED
        BY <2>b, <3>1, <4>1 DEF Counted
    <3> QED
      BY <3>3, <3>5, <3>6, <3>7
  <2> QED
    BY <2>3, <2>4
<1>6. RulesKnown'
  <2>1. u \notin visited /\ AsksRobots(u) => RulesFor(Doc(u).host) # Nothing
    BY <1>0 DEF Awaiting, AwaitedHosts
  <2> QED
    BY <1>0, <2>1, ReadsAlike DEF SearchInv, RulesKnown
<1> HIDE DEF u
<1>7. NothingElse'
  BY <1>0, <1>2, ReadsAlike DEF SearchInv, NothingElse
<1>8. AllTaken'
  BY <1>0, <1>3, TakenStays DEF SearchInv
<1> QED
  BY <1>4, <1>5, <1>6, <1>7, <1>8 DEF SearchInv

LEMMA LenTypes == \A S : \A s \in Seq(S) : Len(s) \in Nat
  OBVIOUS

(* The first k of a sequence.                                              *)
LEMMA FirstPart ==
  ASSUME NEW S, NEW s \in Seq(S), NEW k \in Nat, k <= Len(s)
  PROVE  SubSeq(s, 1, k) \in Seq(S) /\ Len(SubSeq(s, 1, k)) = k /\ \A i \in 1..k : SubSeq(s, 1, k)[i] = s[i]
<1>1. \A i \in 1..k : s[i] \in S
  OBVIOUS
<1>2. SubSeq(s, 1, k) = [i \in 1..k |-> s[i]]
  OBVIOUS
<1>3. SubSeq(s, 1, k) \in Seq(S) /\ Len(SubSeq(s, 1, k)) = k
  BY <1>1, <1>2
<1> QED
  BY <1>2, <1>3

(* What an answer adds to the URLs: the first of those it declares, as many *)
(* as the budget has room for.                                             *)
LEMMA WhatIsTaken ==
  ASSUME SearchTypes, web \in Webs, NEW u \in DOMAIN web.docs, ~Full(Len(found))
  PROVE  \E k \in Nat :
           /\ k <= Len(Doc(u).urls) /\ Accumulated(Doc(u)) = found \o SubSeq(Doc(u).urls, 1, k)
           /\ ~Full(Len(found) + k) => k = Len(Doc(u).urls)
<1> DEFINE d == Doc(u)
           t == CHOOSE n \in Tope : TRUE
           room == t - Len(found)
           k == IF Len(d.urls) < room THEN Len(d.urls) ELSE room
<1>1. d.urls \in Seq(DOMAIN web.pages) /\ found \in Seq(DOMAIN web.pages)
  BY DiscoveryAssumption DEF Doc, SearchTypes
<1>2. CASE Tope = {}
  <2>1. Accumulated(d) = found \o d.urls
    BY <1>2 DEF Accumulated
  <2>2. \A s \in Seq(DOMAIN web.pages) : SubSeq(s, 1, Len(s)) = s /\ Len(s) \in Nat /\ Len(s) <= Len(s)
    OBVIOUS
  <2> HIDE DEF d
  <2>3. d.urls = SubSeq(d.urls, 1, Len(d.urls)) /\ Len(d.urls) \in Nat /\ Len(d.urls) <= Len(d.urls)
    BY <1>1, <2>2
  <2> QED
    BY <2>1, <2>3 DEF d
<1>3. CASE Tope # {}
  <2>1. t \in Tope /\ t \in Nat /\ Len(found) \in Nat /\ ~(Len(found) >= t)
    <3>1. Tope \subseteq Nat
      BY DiscoveryAssumption DEF Tope
    <3>2. t \in Tope
      BY <1>3
    <3> HIDE DEF t
    <3>3. ~(Len(found) >= t)
      BY <3>2 DEF Full
    <3> QED
      BY <1>1, <3>1, <3>2, <3>3
  <2>2. Accumulated(d) = found \o SubSeq(d.urls, 1, k)
    BY <1>3 DEF Accumulated
  <2> HIDE DEF t
  <2>3. room \in Nat /\ Len(d.urls) \in Nat /\ k \in Nat /\ k <= Len(d.urls) /\ k <= room
    BY <1>1, <2>1
  <2>4. ASSUME ~Full(Len(found) + k) PROVE k = Len(d.urls)
    <3>1. ~(Len(found) + k >= t)
      BY <2>1, <2>4 DEF Full
    <3> QED
      BY <1>1, <2>1, <2>3, <3>1
  <2> HIDE DEF k
  <2> QED
    BY <2>2, <2>3, <2>4
<1> QED
  BY <1>2, <1>3

(* The row of an answer says which sitemap it is and where it was found.   *)
LEMMA RowTypes ==
  ASSUME NEW x, x.url \in DOMAIN web.docs, x.origin \in {"robots", "well_known", "index"},
         NEW status \in Nat, NEW valid \in BOOLEAN, NEW n \in Nat, rows' = Append(rows, Row(x, status, valid, n))
  PROVE  \E row \in RowsThereAre : rows' = Append(rows, row) /\ row.url = x.url /\ row.origin = x.origin
<1> DEFINE row == Row(x, status, valid, n)
<1>1. row \in RowsThereAre /\ row.url = x.url /\ row.origin = x.origin
  BY DEF Row, RowsThereAre
<1> HIDE DEF row
<1>2. rows' = Append(rows, row)
  BY DEF row
<1> QED
  BY <1>1, <1>2

LEMMA RowOfAnswer ==
  ASSUME NEW x, x.url \in DOMAIN web.docs, x.origin = Origin(x.url), rows' = Read(x),
         NEW d, d = Doc(x.url), d.status \in Nat, d.wellFormed \in BOOLEAN,
         d.children \in Seq(DOMAIN web.docs), d.urls \in Seq(DOMAIN web.pages)
  PROVE  \E row \in RowsThereAre : rows' = Append(rows, row) /\ row.url = x.url /\ row.origin = x.origin
<1> DEFINE n == Len(d.urls) + Len(d.children)
<1>1. n \in Nat
  <2>1. Len(d.urls) \in Nat
    BY LenTypes
  <2>2. Len(d.children) \in Nat
    BY LenTypes
  <2>3. \A k, m \in Nat : k + m \in Nat
    OBVIOUS
  <2> QED
    BY <2>1, <2>2, <2>3, Zenon
<1>2. \/ rows' = Append(rows, Row(x, 0, FALSE, 0))
      \/ rows' = Append(rows, Row(x, d.status, FALSE, 0))
      \/ rows' = Append(rows, Row(x, 200, d.wellFormed, n))
  BY DEF Read
<1> HIDE DEF n
<1>3. x.origin \in {"robots", "well_known", "index"}
  BY OriginTypes
<1>4. 0 \in Nat /\ 200 \in Nat /\ FALSE \in BOOLEAN
  OBVIOUS
<1>5. CASE rows' = Append(rows, Row(x, 0, FALSE, 0))
  BY <1>3, <1>4, <1>5, RowTypes
<1>6. CASE rows' = Append(rows, Row(x, d.status, FALSE, 0))
  BY <1>3, <1>4, <1>6, RowTypes
<1>7. CASE rows' = Append(rows, Row(x, 200, d.wellFormed, n))
  BY <1>1, <1>3, <1>4, <1>7, RowTypes
<1> QED
  BY <1>2, <1>5, <1>6, <1>7

LEMMA Joined ==
  ASSUME SearchInv, web \in Webs, Join
  PROVE  SearchInv'
<1>0. PICK x \in inFlight : inFlight' = inFlight \ {x} /\ Collect(x)
  BY DEF Join
<1> DEFINE u == x.url
           d == Doc(u)
           taken == ~(d.answer = "failed" \/ d.status # 200 \/ Full(Len(found)))
<1>1. /\ web' = web /\ given' = given /\ deferred' = deferred /\ visited' = visited /\ downloaded' = downloaded
  BY DEF Join, cacheVars
<1>2. /\ u \in DOMAIN web.docs /\ u \in visited /\ Fit(u) /\ u \in Asked
      /\ u \notin Waiting /\ u \notin Noted /\ x.origin = Origin(u)
  BY DEF SearchInv, SearchTypes, OnePlace, Asked
<1>3. Waiting' = Waiting /\ Asked' = Asked \ {u}
  <2>1. \A y \in inFlight : y.url = u => y = x
    BY AskedOnce DEF SearchInv
  <2> QED
    BY <1>0, <1>1, <2>1 DEF Waiting, Asked
<1>4. /\ d.answer \in {"doc", "failed", "died"} /\ d.status \in Nat /\ d.wellFormed \in BOOLEAN
      /\ d.children \in Seq(DOMAIN web.docs) /\ d.urls \in Seq(DOMAIN web.pages)
  BY <1>2, DiscoveryAssumption DEF Doc
<1>5. Children(u) = IF ReadWell(u) THEN ToSet(d.children) ELSE {}
  BY <1>2 DEF Children, ReadWell
<1>6. RulesKnown'
  BY <1>1, ReadsAlike DEF SearchInv, RulesKnown
<1>9. Counted'
  BY <1>1, <1>3, ReadsAlike DEF SearchInv, Counted
<1>7. CASE d.answer = "died"
  <2>1. pending' = pending /\ found' = found /\ rows' = rows
    BY <1>0, <1>7 DEF Collect
  <2>2. Noted' = Noted
    BY <2>1 DEF Noted
  <2>3. SearchTypes'
    BY <1>0, <1>1, <2>1 DEF SearchInv, SearchTypes, RowsThereAre
  <2>4. OnePlace'
    BY <1>0, <1>1, <1>2, <1>3, <1>7, <2>1, <2>2, ReadsAlike DEF SearchInv, OnePlace
  <2>5. Children(u) = {}
    BY <1>5, <1>7 DEF ReadWell
  <2>6. NothingElse'
    BY <1>1, <2>1, ReadsAlike DEF SearchInv, NothingElse
  <2>7. Followed'
    BY <1>1, <1>3, <2>1, <2>5, ReadsAlike DEF SearchInv, Followed, Full, Tope
  <2>8. AllTaken'
    BY <1>1, <2>1, <2>2, TakenStays DEF SearchInv
  <2> QED
    BY <1>6, <1>9, <2>3, <2>4, <2>6, <2>7, <2>8 DEF SearchInv
<1>8. CASE d.answer # "died"
  <2>1. PICK row \in RowsThereAre :
          rows' = Append(rows, row) /\ row.url = u /\ row.origin = Origin(u)
    <3>1. rows' = Read(x)
      BY <1>0, <1>8 DEF Collect
    <3>2. /\ d = Doc(x.url) /\ d.status \in Nat /\ d.wellFormed \in BOOLEAN
          /\ d.children \in Seq(DOMAIN web.docs) /\ d.urls \in Seq(DOMAIN web.pages)
      BY <1>4
    <3> HIDE DEF d
    <3>3. \E row \in RowsThereAre : rows' = Append(rows, row) /\ row.url = x.url /\ row.origin = x.origin
      BY <1>2, <3>1, <3>2, RowOfAnswer
    <3> QED
      BY <1>2, <3>3
  <2>2. /\ rows' \in Seq(RowsThereAre)
        /\ DOMAIN rows' = DOMAIN rows \cup {Len(rows) + 1}
        /\ rows'[Len(rows) + 1] = row /\ \A i \in DOMAIN rows : rows'[i] = rows[i]
    BY <2>1 DEF SearchInv, SearchTypes
  <2>a. RowsThereAre' = RowsThereAre
    BY <1>1 DEF RowsThereAre
  <2>3. Noted' = Noted \cup {u}
    BY <2>1, <2>2 DEF Noted
  <2>4. OnePlace'
    <3>1. \A i \in DOMAIN rows : rows[i].url # u
      BY <1>2 DEF Noted
    <3>2. \A i, j \in DOMAIN rows' : rows'[i].url = rows'[j].url => i = j
      BY <2>1, <2>2, <3>1 DEF SearchInv, OnePlace
    <3>3. \A i \in DOMAIN rows' : rows'[i].origin = Origin(rows'[i].url) /\ Doc(rows'[i].url).answer # "died"
      BY <1>8, <2>1, <2>2 DEF SearchInv, OnePlace
    <3>4. Waiting' \cap Asked' = {} /\ Waiting' \cap Noted' = {} /\ Asked' \cap Noted' = {}
      BY <1>2, <1>3, <2>3 DEF SearchInv, OnePlace
    <3>5. Waiting' \cup Asked' \cup Noted' = Waiting \cup Asked \cup Noted
      BY <1>2, <1>3, <2>3
    <3>6. \A y \in inFlight' : y \in inFlight
      BY <1>0
    <3> HIDE DEF u, d
    <3> QED
      BY <1>1, <3>2, <3>3, <3>4, <3>5, <3>6, ReadsAlike DEF SearchInv, OnePlace
  <2>5. CASE ~taken
    <3>1. pending' = pending /\ found' = found
      BY <1>0, <1>8, <2>5 DEF Collect
    <3>2. ~Full(Len(found)) => ~ReadWell(u)
      BY <2>5 DEF ReadWell
    <3>3. ~Full(Len(found)) => Children(u) = {}
      BY <1>5, <3>2
    <3>4. SearchTypes'
      BY <1>0, <1>1, <2>2, <2>a, <3>1 DEF SearchInv, SearchTypes
    <3> HIDE DEF u, d
    <3>5. NothingElse'
      BY <1>1, <3>1, ReadsAlike DEF SearchInv, NothingElse
    <3>6. Followed'
      BY <1>1, <1>3, <3>1, <3>3, ReadsAlike DEF SearchInv, Followed, Full, Tope
    <3>7. AllTaken'
      <4>1. \A v : Doc(v)' = Doc(v) /\ (ReadWell(v)' <=> ReadWell(v))
        BY <1>1, ReadsAlike
      <4>2. Full(Len(found))' <=> Full(Len(found))
        BY <1>1, <3>1 DEF Full, Tope
      <4>3. WellRead \subseteq WellRead' /\ (~Full(Len(found)) => WellRead' = WellRead)
        BY <2>3, <3>2, <4>1 DEF WellRead
      <4>4. UrlsRead \subseteq UrlsRead' /\ (~Full(Len(found)) => UrlsRead' = UrlsRead)
        BY <4>1, <4>3 DEF UrlsRead
      <4>5. DeclareApart(WellRead)' => DeclareApart(WellRead)
        BY <1>1, <4>1, <4>3 DEF DeclareApart, Wanted
      <4>6. ToSet(found)' = ToSet(found)
        BY <3>1 DEF ToSet
      <4> QED
        BY <1>1, <3>1, <4>2, <4>4, <4>5, <4>6 DEF SearchInv, AllTaken
    <3> QED
      BY <1>6, <1>9, <2>4, <3>4, <3>5, <3>6, <3>7 DEF SearchInv
  <2>6. CASE taken
    <3>1. pending' = pending \o d.children /\ found' = Accumulated(d) /\ ~Full(Len(found)) /\ ReadWell(u)
      BY <1>0, <1>4, <1>8, <2>6 DEF Collect, ReadWell
    <3>2. pending' \in Seq(DOMAIN web.docs) /\ ToSet(pending') = ToSet(pending) \cup Children(u)
      <4>1. pending \in Seq(DOMAIN web.docs) /\ Children(u) = ToSet(d.children)
        BY <1>5, <3>1 DEF SearchInv, SearchTypes
      <4> QED
        <5> DEFINE c == d.children
        <5>1. c \in Seq(DOMAIN web.docs) /\ pending \in Seq(DOMAIN web.docs)
          BY <1>4, <4>1
        <5> HIDE DEF c
        <5>2. pending \o c \in Seq(DOMAIN web.docs) /\ ToSet(pending \o c) = ToSet(pending) \cup ToSet(c)
          BY <5>1, ConcatSays
        <5> QED
          BY <3>1, <4>1, <5>2 DEF c
    <3>a. PICK k \in Nat : /\ k <= Len(d.urls) /\ found' = found \o SubSeq(d.urls, 1, k)
                           /\ ~Full(Len(found) + k) => k = Len(d.urls)
      BY <1>2, <3>1, WhatIsTaken DEF SearchInv
    <3> DEFINE part == SubSeq(d.urls, 1, k)
    <3>b. /\ part \in Seq(DOMAIN web.pages) /\ Len(part) = k /\ \A i \in 1..k : part[i] = d.urls[i]
      <4> DEFINE all == d.urls
      <4>1. all \in Seq(DOMAIN web.pages) /\ k <= Len(all)
        BY <1>4, <3>a
      <4> HIDE DEF all
      <4>2. /\ SubSeq(all, 1, k) \in Seq(DOMAIN web.pages) /\ Len(SubSeq(all, 1, k)) = k
            /\ \A i \in 1..k : SubSeq(all, 1, k)[i] = all[i]
        BY <4>1, FirstPart
      <4> QED
        BY <4>2 DEF all
    <3> HIDE DEF part
    <3>3. found' \in Seq(DOMAIN web.pages) /\ found' = found \o part
      BY <3>a, <3>b, ConcatSays DEF SearchInv, SearchTypes, part
    <3>4. SearchTypes'
      BY <1>0, <1>1, <2>2, <2>a, <3>2, <3>3 DEF SearchInv, SearchTypes
    <3>5. NothingElse'
      <4> SUFFICES ASSUME NEW S \in SUBSET DOMAIN web.docs, Roots \subseteq S,
                          \A v \in S \cap visited : Children(v) \subseteq S
                   PROVE  visited \cup ToSet(pending') \subseteq S
        BY <1>1, ReadsAlike DEF NothingElse
      <4>1. visited \cup ToSet(pending) \subseteq S
        BY DEF SearchInv, NothingElse
      <4>2. u \in S /\ Children(u) \subseteq S
        BY <1>2, <4>1
      <4> QED
        BY <3>2, <4>1, <4>2
    <3>6. Followed'
      <4>1. /\ Roots \subseteq visited \cup ToSet(pending)
            /\ \A v \in visited \ (Waiting \cup Asked) : Children(v) \subseteq visited \cup ToSet(pending)
        BY <3>1 DEF SearchInv, Followed
      <4>2. \A v \in visited \ (Waiting' \cup Asked') : Children(v) \subseteq visited \cup ToSet(pending')
        BY <1>3, <3>2, <4>1
      <4> HIDE DEF u, d
      <4> QED
        BY <1>1, <3>2, <4>1, <4>2, ReadsAlike DEF Followed
    <3>7. AllTaken'
      <4>1. u \notin WellRead /\ WellRead' = WellRead \cup {u} /\ UrlsRead' = UrlsRead \cup ToSet(d.urls)
        BY <1>1, <1>2, <2>3, <3>1, ReadsAlike DEF WellRead, UrlsRead
      <4>2. /\ DOMAIN found = 1..Len(found) /\ DOMAIN d.urls = 1..Len(d.urls) /\ Len(found) \in Nat /\ Len(d.urls) \in Nat
            /\ ToSet(found) = UrlsRead
        BY <1>4, <3>1 DEF SearchInv, SearchTypes, AllTaken
      <4>a. web.pages' = web.pages
        BY <1>1
      <4>b. DeclareApart(WellRead)' => DeclareApart(WellRead \cup {u})
        BY <1>1, <4>1, ReadsAlike DEF DeclareApart, Wanted
      <4>c. /\ Full(Len(found))' <=> Full(Len(found'))
            /\ \A P : DeclareApart(WellRead \cup P) => DeclareApart(WellRead)
        BY <1>1 DEF Full, Tope, DeclareApart
      <4>d. d = Doc(u)
        OBVIOUS
      <4> HIDE DEF u, d
      <4> SUFFICES /\ ToSet(found') \subseteq UrlsRead'
                   /\ ~Full(Len(found')) => ToSet(found') = UrlsRead'
                   /\ DeclareApart(WellRead \cup {u}) =>
                        \A i, j \in DOMAIN found' : web.pages[found'[i]].same = web.pages[found'[j]].same => i = j
        BY <4>a, <4>b, <4>c DEF AllTaken, ToSet
      <4>3. /\ Len(found') = Len(found) + k /\ DOMAIN found' = 1..Len(found')
            /\ \A i \in 1..Len(found') : found'[i] = IF i <= Len(found) THEN found[i] ELSE part[i - Len(found)]
        <5>1. found \in Seq(DOMAIN web.pages)
          BY DEF SearchInv, SearchTypes
        <5>2. \A s, t \in Seq(DOMAIN web.pages) :
                /\ Len(s \o t) = Len(s) + Len(t) /\ DOMAIN (s \o t) = 1..Len(s \o t)
                /\ \A i \in 1..Len(s \o t) : (s \o t)[i] = IF i <= Len(s) THEN s[i] ELSE t[i - Len(s)]
          OBVIOUS
        <5> QED
          BY <3>3, <3>b, <5>1, <5>2
      <4>4. ToSet(found') = ToSet(found) \cup ToSet(part)
        BY <3>3, <3>b, ConcatSays DEF SearchInv, SearchTypes
      <4>5. ToSet(part) \subseteq ToSet(d.urls) /\ (k = Len(d.urls) => ToSet(part) = ToSet(d.urls))
        <5>1. DOMAIN part = 1..k /\ 1..k \subseteq 1..Len(d.urls)
          BY <3>a, <3>b, <4>2
        <5> QED
          BY <3>b, <4>2, <5>1 DEF ToSet
      <4>6. ~Full(Len(found')) => k = Len(d.urls)
        BY <3>a, <4>3
      <4>7. ASSUME DeclareApart(WellRead \cup {u}), NEW i \in DOMAIN found', NEW j \in DOMAIN found',
                   web.pages[found'[i]].same = web.pages[found'[j]].same
            PROVE  i = j
        <5>1. ASSUME NEW n \in DOMAIN found', ~(n <= Len(found))
              PROVE  n - Len(found) \in DOMAIN d.urls /\ found'[n] = d.urls[n - Len(found)]
          BY <3>a, <3>b, <4>2, <4>3, <5>1
        <5>2. ASSUME NEW n \in DOMAIN found', n <= Len(found)
              PROVE  /\ n \in DOMAIN found /\ found'[n] = found[n]
                     /\ \E v \in WellRead : \E m \in DOMAIN Doc(v).urls : found'[n] = Doc(v).urls[m]
          <6>1. n \in DOMAIN found /\ found'[n] = found[n]
            BY <4>2, <4>3, <5>2
          <6>2. found[n] \in UrlsRead
            BY <4>2, <6>1 DEF ToSet
          <6> QED
            BY <6>1, <6>2 DEF UrlsRead, ToSet
        <5>3. i \in Nat /\ j \in Nat
          BY <4>2, <4>3
        <5>4. CASE i <= Len(found) /\ j <= Len(found)
          BY <4>7, <4>c, <5>2, <5>4 DEF SearchInv, AllTaken
        <5>5. CASE ~(i <= Len(found)) /\ ~(j <= Len(found))
          <6>1. i - Len(found) = j - Len(found)
            BY <4>7, <4>d, <5>1, <5>5 DEF DeclareApart
          <6> QED
            BY <4>2, <5>3, <6>1
        <5>6. \A m \in DOMAIN found', n \in DOMAIN found' :
                m <= Len(found) /\ ~(n <= Len(found)) => web.pages[found'[m]].same # web.pages[found'[n]].same
          <6> SUFFICES ASSUME NEW m \in DOMAIN found', NEW n \in DOMAIN found', m <= Len(found), ~(n <= Len(found)),
                              web.pages[found'[m]].same = web.pages[found'[n]].same
                       PROVE  FALSE
            OBVIOUS
          <6>1. PICK v \in WellRead : \E q \in DOMAIN Doc(v).urls : found'[m] = Doc(v).urls[q]
            BY <5>2
          <6>2. PICK q \in DOMAIN Doc(v).urls : found'[m] = Doc(v).urls[q]
            BY <6>1
          <6>3. n - Len(found) \in DOMAIN Doc(u).urls /\ found'[n] = Doc(u).urls[n - Len(found)]
            BY <4>d, <5>1
          <6>4. v = u
            BY <4>7, <6>2, <6>3 DEF DeclareApart
          <6> QED
            BY <4>1, <6>4
        <5> QED
          BY <4>7, <5>4, <5>5, <5>6
      <4> QED
        BY <4>1, <4>2, <4>4, <4>5, <4>6, <4>7
    <3> QED
      BY <1>6, <1>9, <2>4, <3>4, <3>5, <3>6, <3>7 DEF SearchInv
  <2> QED
    BY <2>5, <2>6
<1> QED
  BY <1>7, <1>8

-----------------------------------------------------------------------------
(* The search over its stages.                                             *)

(* A limit is halved when it is more than one.                             *)
LEMMA LimitsKept ==
  ASSUME limit \in [Hosts -> Nat \ {0}], ceiling \in [Hosts -> Nat], NEW h \in Hosts,
         RecordOverload(h) \/ RecordGood(h) \/ RecordBad(h) \/ UNCHANGED throttleVars
  PROVE  limit' \in [Hosts -> Nat \ {0}] /\ ceiling' \in [Hosts -> Nat]
<1>1. CASE RecordOverload(h)
  <2>1. \/ limit' = limit
        \/ limit[h] > 1 /\ limit' = [limit EXCEPT ![h] = limit[h] \div 2]
    BY <1>1 DEF RecordOverload, MinConcurrency
  <2>2. \A n \in Nat : n > 1 => n \div 2 \in Nat \ {0}
    OBVIOUS
  <2>3. ceiling' = ceiling
    BY <1>1 DEF RecordOverload
  <2> QED
    BY <2>1, <2>2, <2>3
<1>2. CASE RecordGood(h)
  <2>1. \/ limit' = limit
        \/ limit' = [limit EXCEPT ![h] = limit[h] + 1]
    BY <1>2 DEF RecordGood
  <2>2. ceiling' = ceiling
    BY <1>2 DEF RecordGood
  <2> QED
    BY <2>1, <2>2
<1>3. CASE RecordBad(h) \/ UNCHANGED throttleVars
  BY <1>3 DEF RecordBad, throttleVars
<1> QED
  BY <1>1, <1>2, <1>3

LEMMA DiscoveryInitHolds == Init => DiscoveryInv
BY ThrottleAssumption DEF Init, ThrottleInit, DiscoveryInv

(* When nothing can be launched and nothing is in flight, what remains is   *)
(* nothing: a host with no request has room for one.                        *)
LEMMA NothingLeft ==
  ASSUME DiscoveryInv, EndDiscovery, ~Full(Len(found)), downloaded < MaxSitemaps
  PROVE  pending = <<>> /\ deferred = <<>>
<1>1. Cardinality(inFlight) = 0
  BY FS_EmptySet DEF EndDiscovery
<1>2. Filling
  BY <1>1, DiscoveryAssumption DEF EndDiscovery, Filling
<1>3. pending = <<>> /\ Ready = {}
  BY <1>2 DEF EndDiscovery, CanFill
<1>4. ASSUME NEW i \in DOMAIN deferred PROVE FALSE
  <2>1. deferred[i] \in DOMAIN web.docs /\ web \in Webs
    BY DEF EndDiscovery, DiscoveryInv, SearchInv, SearchTypes
  <2>2. Doc(deferred[i]).host \in Hosts
    BY <2>1, DiscoveryAssumption DEF Doc
  <2>3. limit[Doc(deferred[i]).host] \in Nat \ {0}
    BY <2>2 DEF DiscoveryInv
  <2>4. {x \in inFlight : Doc(x.url).host = Doc(deferred[i]).host} = {}
    BY DEF EndDiscovery
  <2>a. Cardinality({x \in inFlight : Doc(x.url).host = Doc(deferred[i]).host}) = 0
    BY <2>4, FS_EmptySet, Zenon
  <2>b. 0 < limit[Doc(deferred[i]).host]
    BY <2>3
  <2>5. Room(deferred[i])
    BY <2>a, <2>b, Zenon DEF Room, HasRoomForProbe
  <2> QED
    BY <1>3, <2>5 DEF Ready
<1>5. deferred \in Seq(DOMAIN web.docs)
  BY DEF EndDiscovery, DiscoveryInv, SearchInv, SearchTypes
<1>6. \A s \in Seq(DOMAIN web.docs) : s # <<>> => 1 \in DOMAIN s
  OBVIOUS
<1> QED
  BY <1>3, <1>4, <1>5, <1>6

LEMMA DiscoveryKeeps ==
  ASSUME CacheInv, DiscoveryInv, [Next]_vars
  PROVE  DiscoveryInv'
<1>0. web \in Webs /\ web' = web
  BY DEF DiscoveryInv, Next, Start, LaunchDeferred, TakeNext, Join, EndDiscovery, Interrupt, TakeFound, AskRobots, Ended,
         vars, sitemapVars
<1>1. CASE Start
  BY <1>0, <1>1, SearchStarts DEF Start, DiscoveryInv, throttleVars
<1>2. CASE LaunchDeferred
  <2>1. SearchInv'
    BY <1>0, <1>2, DeferredLaunched DEF LaunchDeferred, Filling, DiscoveryInv
  <2> QED
    BY <1>0, <1>2, <2>1 DEF LaunchDeferred, Filling, DiscoveryInv, throttleVars
<1>3. CASE TakeNext
  <2>1. SearchInv'
    BY <1>0, <1>3, NextTaken DEF TakeNext, Head1, Filling, DiscoveryInv
  <2> QED
    BY <1>0, <1>3, <2>1 DEF TakeNext, Head1, Filling, DiscoveryInv, throttleVars
<1>4. CASE Join
  <2>1. SearchInv /\ SearchInv'
    BY <1>0, <1>4, Joined DEF Join, DiscoveryInv
  <2>2. PICK x \in inFlight : Collect(x)
    BY <1>4 DEF Join
  <2>3. Doc(x.url).host \in Hosts
    BY <1>0, <2>1, <2>2, DiscoveryAssumption DEF SearchInv, SearchTypes, Doc
  <2>4. \/ RecordOverload(Doc(x.url).host) \/ RecordGood(Doc(x.url).host)
        \/ RecordBad(Doc(x.url).host) \/ UNCHANGED throttleVars
    BY <2>2 DEF Collect, Recorded, throttleVars
  <2>5. limit' \in [Hosts -> Nat \ {0}] /\ ceiling' \in [Hosts -> Nat]
    BY <2>3, <2>4, LimitsKept DEF DiscoveryInv
  <2> QED
    BY <1>0, <1>4, <2>1, <2>5 DEF Join, DiscoveryInv
<1>5. CASE EndDiscovery
  <2>1. /\ UNCHANGED <<web, pending, deferred, visited, inFlight, downloaded, found, rows>> /\ UNCHANGED throttleVars
        /\ given' = given /\ stage = "sitemaps" /\ stage' = "found"
    BY <1>5 DEF EndDiscovery, cacheVars
  <2>2. SearchInv'
    BY <2>1, SearchStays DEF DiscoveryInv, RulesFor
  <2>3. (~Full(Len(found)))' /\ (downloaded < MaxSitemaps)' => pending' = <<>> /\ deferred' = <<>>
    BY <1>5, <2>1, NothingLeft DEF Full, Tope
  <2> QED
    BY <1>5, <2>1, <2>2, <2>3 DEF EndDiscovery, DiscoveryInv, throttleVars
<1>6. CASE Interrupt
  BY <1>0, <1>6 DEF Interrupt, DiscoveryInv, throttleVars
<1>7. CASE TakeFound
  BY <1>0, <1>7 DEF TakeFound, DiscoveryInv, throttleVars
<1>8. CASE AskRobots
  <2>1. UNCHANGED <<throttleVars, sitemapVars>>
    BY <1>8 DEF AskRobots
  <2>2. stage # "found"
    BY <1>8 DEF AskRobots, AwaitedHosts, Head1, Filling
  <2>3. ASSUME stage = "sitemaps" PROVE SearchInv'
    <3>1. PICK h \in Hosts : Step(Loop[h])
      BY <1>8, <2>3 DEF AskRobots
    <3>2. \A g \in Hosts : RulesFor(g) # Nothing => RulesFor(g)' = RulesFor(g)
      BY <3>1, LoopTypes, GivenStays DEF RulesFor
    <3> QED
      BY <2>1, <2>3, <3>2, SearchStays DEF DiscoveryInv, sitemapVars
  <2> QED
    BY <2>1, <2>2, <2>3 DEF DiscoveryInv, throttleVars, sitemapVars
<1>9. CASE Ended \/ UNCHANGED vars
  <2>1. UNCHANGED <<throttleVars, sitemapVars>> /\ given' = given
    BY <1>9 DEF Ended, vars, cacheVars
  <2>2. SearchInv => SearchInv'
    BY <1>0, <2>1, SearchStays DEF sitemapVars, RulesFor
  <2> QED
    BY <2>1, <2>2 DEF DiscoveryInv, throttleVars, sitemapVars, Full, Tope
<1> QED
  BY <1>1, <1>2, <1>3, <1>4, <1>5, <1>6, <1>7, <1>8, <1>9 DEF Next

(* What the search keeps, whatever the sitemaps and the order of answers.  *)
LEMMA DiscoverySafe == Spec => [](CacheInv /\ DiscoveryInv)
<1>1. Init => CacheInv /\ DiscoveryInv
  BY CacheInitHolds, DiscoveryInitHolds DEF Init
<1>2. CacheInv /\ DiscoveryInv /\ [Next]_vars => (CacheInv /\ DiscoveryInv)'
  BY NextKeeps, DiscoveryKeeps
<1> QED
  BY <1>1, <1>2, PTL DEF Spec

(* The sitemaps met that may be read are those that can be reached: the     *)
(* set of those met and waiting is within every closed one; and it is one   *)
(* itself when the search ends by itself.                                   *)
LEMMA MetIsReachable ==
  ASSUME SearchInv
  PROVE  \A u \in visited : Fit(u) => u \in Reachable
<1>1. ToSet(pending) \subseteq DOMAIN web.docs
  <2>1. pending \in Seq(DOMAIN web.docs)
    BY DEF SearchInv, SearchTypes
  <2>2. \A D : \A s \in Seq(D) : \A i \in DOMAIN s : s[i] \in D
    OBVIOUS
  <2> QED
    BY <2>1, <2>2 DEF ToSet
<1>2. Roots \subseteq DOMAIN web.docs
  BY <1>1 DEF SearchInv, SearchTypes, Followed
<1> SUFFICES ASSUME NEW u \in visited, Fit(u), NEW T \in SUBSET (DOMAIN web.docs \ Roots),
                    \A v \in T \cup Roots : Children(v) \subseteq T \cup Roots
             PROVE  u \in T \cup Roots
  BY DEF Reachable, SearchInv, SearchTypes
<1>3. T \cup Roots \in SUBSET DOMAIN web.docs
  BY <1>2
<1> QED
  BY <1>3 DEF SearchInv, NothingElse

LEMMA AllIsReached ==
  ASSUME DiscoveryInv, stage = "found", ~Full(Len(found)), Cardinality(Reachable) <= MaxSitemaps
  PROVE  Noted = {u \in Reachable : Doc(u).answer # "died"}
<1>0. SearchInv /\ inFlight = {} /\ Asked = {} /\ web \in Webs
  BY DEF DiscoveryInv, Asked
<1> DEFINE launched == {u \in visited : Fit(u)} \ Waiting
<1>1. launched \subseteq Reachable
  BY <1>0, MetIsReachable
<1>2. CASE downloaded < MaxSitemaps
  <2>1. Waiting = {} /\ ToSet(pending) = {}
    BY <1>2 DEF DiscoveryInv, Waiting, ToSet
  <2>2. visited \in SUBSET DOMAIN web.docs /\ Roots \subseteq visited /\ \A u \in visited : Children(u) \subseteq visited
    BY <1>0, <2>1 DEF SearchInv, SearchTypes, Followed
  <2>3. visited \in {T \cup Roots : T \in SUBSET (DOMAIN web.docs \ Roots)}
    <3>1. visited = (visited \ Roots) \cup Roots /\ visited \ Roots \in SUBSET (DOMAIN web.docs \ Roots)
      BY <2>2
    <3> QED
      BY <3>1
  <2>4. Reachable \subseteq launched
    BY <2>1, <2>2, <2>3 DEF Reachable
  <2> QED
    BY <1>0, <1>1, <2>4 DEF SearchInv, OnePlace, Noted
<1>3. CASE ~(downloaded < MaxSitemaps)
  <2>1. IsFiniteSet(Reachable)
    <3>1. Reachable \subseteq DOMAIN web.docs /\ IsFiniteSet(DOMAIN web.docs)
      BY <1>0, DiscoveryAssumption DEF Reachable
    <3> QED
      BY <3>1, FS_Subset
  <2>2. downloaded = Cardinality(launched) /\ downloaded \in Nat /\ MaxSitemaps \in Nat
    BY <1>0, DiscoveryAssumption DEF SearchInv, SearchTypes, Counted
  <2> HIDE DEF launched
  <2>3. Cardinality(launched) <= Cardinality(Reachable) /\ Cardinality(Reachable) \in Nat
    BY <1>1, <2>1, FS_Subset, FS_CardinalityType
  <2>4. Cardinality(launched) = Cardinality(Reachable)
    BY <1>3, <2>2, <2>3
  <2>5. launched = Reachable
    BY <1>1, <2>1, <2>4, FS_Subset
  <2> QED
    BY <1>0, <2>5 DEF SearchInv, OnePlace, Noted, launched
<1> QED
  BY <1>2, <1>3

(* So those read well are those that declare something, or some of them.   *)
LEMMA ReadIsReachable ==
  ASSUME DiscoveryInv, stage = "found"
  PROVE  /\ \A u \in Noted : u \in Reachable /\ Doc(u).answer # "died"
         /\ WellRead \subseteq Declaring /\ ToSet(found) \subseteq Declared
         /\ ~Full(Len(found)) /\ Cardinality(Reachable) <= MaxSitemaps => WellRead = Declaring /\ ToSet(found) = Declared
<1>1. SearchInv
  BY DEF DiscoveryInv
<1>2. \A u \in Noted : u \in Reachable /\ Doc(u).answer # "died"
  BY <1>1, MetIsReachable DEF SearchInv, OnePlace, Noted
<1>3. WellRead \subseteq Declaring
  BY <1>2 DEF WellRead, ReadWell, Declaring
<1>4. UrlsRead \subseteq Declared
  BY <1>3 DEF UrlsRead, Declared
<1>5. ASSUME ~Full(Len(found)), Cardinality(Reachable) <= MaxSitemaps
      PROVE  WellRead = Declaring /\ ToSet(found) = Declared
  <2>1. Noted = {u \in Reachable : Doc(u).answer # "died"}
    BY <1>5, AllIsReached
  <2>2. WellRead = Declaring
    BY <2>1 DEF WellRead, ReadWell, Declaring
  <2> QED
    BY <1>1, <1>5, <2>2 DEF SearchInv, AllTaken, UrlsRead, Declared
<1> QED
  BY <1>1, <1>2, <1>3, <1>4, <1>5 DEF SearchInv, AllTaken

(* The invariant gives the property, at the end of the search.             *)
LEMMA InvGivesEachReadOnce == DiscoveryInv => EachReadOnce
<1> SUFFICES ASSUME DiscoveryInv, stage = "found"
             PROVE  EachReadOnce
  BY DEF EachReadOnce
<1>1. SearchInv
  BY DEF DiscoveryInv
<1> QED
  BY <1>1, ReadIsReachable, AllIsReached DEF SearchInv, OnePlace, Noted, EachReadOnce

-----------------------------------------------------------------------------
(* What the loop of the crawl takes of the URLs found.                     *)

(* The URLs of the site among the first n.                                 *)
Page(i) == web.pages[found[i]]
WantedOf(n) == {Page(i).same : i \in {j \in 1..n : Wanted(Page(j))}}

(* Those that the loop has kept after n of them.                           *)
LEMMA TakenIs ==
  ASSUME NEW n \in Nat
  PROVE  Taken(n) = WantedOf(n)
<1> DEFINE step(f, i) == IF i = 0 THEN {} ELSE IF Wanted(Page(i)) THEN f[i - 1] \cup {Page(i).same} ELSE f[i - 1]
           kept0 == CHOOSE f : f = [i \in 0..n |-> step(f, i)]
           h == [i \in 0..n |-> WantedOf(i)]
<1>1. Taken(n) = kept0[n]
  BY DEF Taken, Page
<1>2. WantedOf(0) = {}
  BY DEF WantedOf
<1>3. ASSUME NEW i \in 1..n
      PROVE  WantedOf(i) = IF Wanted(Page(i)) THEN WantedOf(i - 1) \cup {Page(i).same} ELSE WantedOf(i - 1)
  <2>1. 1..i = 1..(i - 1) \cup {i}
    OBVIOUS
  <2> QED
    BY <2>1 DEF WantedOf
<1>4. h = [i \in 0..n |-> step(h, i)]
  <2> SUFFICES ASSUME NEW i \in 0..n PROVE WantedOf(i) = step(h, i)
    OBVIOUS
  <2>1. CASE i = 0
    BY <1>2, <2>1
  <2>2. CASE i # 0
    <3>1. i \in 1..n /\ i - 1 \in 0..n
      BY <2>2
    <3>2. h[i - 1] = WantedOf(i - 1)
      BY <3>1
    <3> HIDE DEF h
    <3> QED
      BY <1>3, <2>2, <3>1, <3>2
  <2> QED
    BY <2>1, <2>2
<1>5. kept0 = [i \in 0..n |-> step(kept0, i)]
  <2> HIDE DEF h
  <2> QED
    BY <1>4
<1> HIDE DEF kept0
<1> DEFINE T == {i \in 0..n : kept0[i] # WantedOf(i)}
<1>6. ASSUME T # {} PROVE FALSE
  <2>0. T \in SUBSET Nat
    OBVIOUS
  <2>a. \E i \in T : \A j \in T : i <= j
    <3> HIDE DEF T
    <3> QED
      BY <1>6, <2>0, FirstOf
  <2>1. PICK i \in T : \A j \in T : i <= j
    BY <2>a
  <2>2. i \in 0..n /\ kept0[i] # WantedOf(i)
    BY <1>6
  <2>3. kept0[i] = step(kept0, i)
    BY <1>5, <2>2
  <2>4. i # 0
    BY <1>2, <2>2, <2>3
  <2>5. i \in 1..n /\ i - 1 \in 0..n /\ ~(i <= i - 1)
    BY <2>2, <2>4
  <2>6. kept0[i - 1] = WantedOf(i - 1)
    BY <1>6, <2>1, <2>5
  <2> QED
    BY <1>3, <2>2, <2>3, <2>4, <2>5, <2>6
<1>7. kept0[n] = WantedOf(n)
  <2>1. n \in 0..n
    OBVIOUS
  <2> QED
    BY <1>6, <2>1
<1> QED
  BY <1>1, <1>7

LEMMA WantedTypes ==
  /\ WantedOf(0) = {} /\ IsFiniteSet(WantedOf(0))
  /\ \A n \in Nat : WantedOf(n) \subseteq WantedOf(n + 1) /\ WantedOf(n + 1) \subseteq WantedOf(n) \cup {Page(n + 1).same}
  /\ \A n \in Nat : Wanted(Page(n + 1)) => WantedOf(n + 1) = WantedOf(n) \cup {Page(n + 1).same}
<1>1. WantedOf(0) = {}
  BY DEF WantedOf
<1>2. \A n \in Nat : 1..(n + 1) = 1..n \cup {n + 1}
  OBVIOUS
<1>3. ASSUME NEW n \in Nat
      PROVE  /\ WantedOf(n) \subseteq WantedOf(n + 1) /\ WantedOf(n + 1) \subseteq WantedOf(n) \cup {Page(n + 1).same}
             /\ Wanted(Page(n + 1)) => WantedOf(n + 1) = WantedOf(n) \cup {Page(n + 1).same}
  BY <1>2 DEF WantedOf
<1> QED
  BY <1>1, <1>3, FS_EmptySet

(* They are finitely many, and grow by one at most.                        *)
LEMMA WantedAreFinite == \A n \in Nat : IsFiniteSet(WantedOf(n))
<1> DEFINE T == {n \in Nat : ~IsFiniteSet(WantedOf(n))}
<1>1. ASSUME T # {} PROVE FALSE
  <2>1. PICK n \in T : \A m \in T : n <= m
    BY <1>1, FirstOf
  <2>2. n # 0
    BY <2>1, WantedTypes
  <2>3. n - 1 \in Nat /\ ~(n <= n - 1) /\ n = (n - 1) + 1
    BY <2>2
  <2>4. IsFiniteSet(WantedOf(n - 1))
    BY <2>1, <2>3
  <2>5. WantedOf(n) \subseteq WantedOf(n - 1) \cup {Page(n).same}
    BY <2>3, WantedTypes
  <2>6. IsFiniteSet(WantedOf(n - 1) \cup {Page(n).same})
    BY <2>4, FS_AddElement
  <2> QED
    BY <2>1, <2>5, <2>6, FS_Subset
<1> QED
  BY <1>1

LEMMA WantedGrowByOne ==
  ASSUME NEW n \in Nat
  PROVE  /\ Cardinality(WantedOf(n)) \in Nat /\ Cardinality(WantedOf(n + 1)) \in Nat
         /\ Cardinality(WantedOf(n + 1)) <= Cardinality(WantedOf(n)) + 1
<1> DEFINE more == WantedOf(n) \cup {Page(n + 1).same}
<1>1. IsFiniteSet(WantedOf(n)) /\ IsFiniteSet(WantedOf(n + 1))
  BY WantedAreFinite
<1>2. IsFiniteSet(more) /\ Cardinality(more) <= Cardinality(WantedOf(n)) + 1 /\ Cardinality(WantedOf(n)) \in Nat
  <2> DEFINE us == WantedOf(n)
             it == Page(n + 1).same
  <2>1. IsFiniteSet(us)
    BY <1>1
  <2> HIDE DEF us, it
  <2>2. Cardinality(us) \in Nat
    BY <2>1, FS_CardinalityType
  <2>3. IsFiniteSet(us \cup {it}) /\ Cardinality(us \cup {it}) = IF it \in us THEN Cardinality(us) ELSE Cardinality(us) + 1
    BY <2>1, FS_AddElement
  <2>4. Cardinality(us \cup {it}) <= Cardinality(us) + 1
    BY <2>2, <2>3
  <2> QED
    BY <2>2, <2>3, <2>4 DEF us, it
<1>3. WantedOf(n + 1) \subseteq more
  BY WantedTypes
<1> HIDE DEF more
<1>4. Cardinality(WantedOf(n + 1)) <= Cardinality(more) /\ Cardinality(WantedOf(n + 1)) \in Nat /\ Cardinality(more) \in Nat
  BY <1>1, <1>2, <1>3, FS_Subset, FS_CardinalityType
<1> QED
  BY <1>2, <1>4

(* When each is declared once, every one of them is one more.              *)
LEMMA WantedOnce ==
  ASSUME NEW L \in Nat, \A i \in 1..L : Wanted(Page(i)), \A i, j \in 1..L : Page(i).same = Page(j).same => i = j
  PROVE  /\ \A n \in 0..L : Cardinality(WantedOf(n)) = n
         /\ \A n \in 0..(L - 1) : Page(n + 1).same \notin WantedOf(n)
<1>1. ASSUME NEW n \in 0..(L - 1) PROVE Page(n + 1).same \notin WantedOf(n)
  <2>1. ASSUME NEW i \in 1..n PROVE Page(i).same # Page(n + 1).same
    <3>1. i \in 1..L /\ n + 1 \in 1..L /\ i # n + 1
      OBVIOUS
    <3> QED
      BY <3>1
  <2> QED
    BY <2>1 DEF WantedOf
<1> DEFINE T == {n \in 0..L : Cardinality(WantedOf(n)) # n}
<1>2. ASSUME T # {} PROVE FALSE
  <2>0. T \in SUBSET Nat
    OBVIOUS
  <2>a. \E n \in T : \A m \in T : n <= m
    <3> HIDE DEF T
    <3> QED
      BY <1>2, <2>0, FirstOf
  <2>1. PICK n \in T : \A m \in T : n <= m
    BY <2>a
  <2>2. n # 0
    BY <2>1, WantedTypes, FS_EmptySet
  <2>3. n - 1 \in 0..(L - 1) /\ n - 1 \in Nat /\ n - 1 \in 0..L /\ ~(n <= n - 1) /\ n = (n - 1) + 1 /\ n \in 1..L
    BY <2>2
  <2>4. Cardinality(WantedOf(n - 1)) = n - 1
    BY <2>1, <2>3
  <2>5. WantedOf(n) = WantedOf(n - 1) \cup {Page(n).same} /\ Page(n).same \notin WantedOf(n - 1)
    <3>1. Wanted(Page((n - 1) + 1))
      BY <2>3
    <3>2. WantedOf((n - 1) + 1) = WantedOf(n - 1) \cup {Page((n - 1) + 1).same}
      BY <2>3, <3>1, WantedTypes
    <3>3. Page((n - 1) + 1).same \notin WantedOf(n - 1)
      BY <1>1, <2>3
    <3> QED
      BY <2>3, <3>2, <3>3
  <2>6. Cardinality(WantedOf(n)) = n
    BY <2>3, <2>4, <2>5, WantedAreFinite, FS_AddElement
  <2> QED
    BY <2>1, <2>6
<1>3. \A n \in 0..L : Cardinality(WantedOf(n)) = n
  BY <1>2
<1> QED
  BY <1>1, <1>3

-----------------------------------------------------------------------------
(* The budget. *)

LEMMA FiniteImage ==
  ASSUME NEW S, IsFiniteSet(S), NEW f, f \in [S -> {f[x] : x \in S}]
  PROVE  IsFiniteSet({f[x] : x \in S})
<1>1. f \in Surjection(S, {f[x] : x \in S})
  BY DEF Surjection
<1> QED
  BY <1>1, FS_Surjection

(* A site declares finitely many URLs.                                     *)
LEMMA DeclaredAreFinite ==
  ASSUME web \in Webs
  PROVE  IsFiniteSet(OwnDeclared)
<1>1. \A S : \A s \in Seq(S) : IsFiniteSet(ToSet(s))
  <2> SUFFICES ASSUME NEW S, NEW s \in Seq(S) PROVE IsFiniteSet(ToSet(s))
    OBVIOUS
  <2>1. Len(s) \in Nat /\ s \in [1..Len(s) -> {s[i] : i \in 1..Len(s)}] /\ DOMAIN s = 1..Len(s)
    OBVIOUS
  <2>a. \A n \in Nat : IsFiniteSet(1..n)
    BY FS_Interval
  <2>2. IsFiniteSet(1..Len(s))
    BY <2>1, <2>a
  <2>3. IsFiniteSet({s[i] : i \in 1..Len(s)})
    BY <2>1, <2>2, FiniteImage
  <2> QED
    BY <2>1, <2>3 DEF ToSet
<1>2. IsFiniteSet(Declaring) /\ Declaring \subseteq DOMAIN web.docs
  <2>1. Declaring \subseteq DOMAIN web.docs /\ IsFiniteSet(DOMAIN web.docs)
    BY DiscoveryAssumption DEF Declaring, Reachable
  <2> QED
    BY <2>1, FS_Subset
<1>3. IsFiniteSet(Declared)
  <2> DEFINE f == [u \in Declaring |-> ToSet(Doc(u).urls)]
  <2>1. f \in [Declaring -> {f[u] : u \in Declaring}] /\ \A u \in Declaring : f[u] = ToSet(Doc(u).urls)
    OBVIOUS
  <2>2. \A u \in Declaring : IsFiniteSet(f[u])
    <3>1. \A u \in Declaring : Doc(u).urls \in Seq(DOMAIN web.pages)
      BY <1>2, DiscoveryAssumption DEF Doc
    <3> QED
      BY <1>1, <2>1, <3>1
  <2>3. Declared = UNION {f[u] : u \in Declaring}
    BY <2>1 DEF Declared
  <2> HIDE DEF f
  <2>4. IsFiniteSet({f[u] : u \in Declaring})
    BY <1>2, <2>1, FiniteImage
  <2> QED
    BY <2>2, <2>3, <2>4, FS_UNION
<1>4. QED
  <2> DEFINE S == {q \in Declared : Wanted(web.pages[q])}
             f == [p \in S |-> web.pages[p].same]
  <2>1. IsFiniteSet(S)
    BY <1>3, FS_Subset
  <2>2. OwnDeclared = {f[p] : p \in S}
    BY DEF OwnDeclared
  <2>3. f \in [S -> {f[p] : p \in S}]
    OBVIOUS
  <2> HIDE DEF S, f
  <2> QED
    BY <2>1, <2>2, <2>3, FiniteImage

(* What a site declares is the same as long as its rules are.              *)
LEMMA SiteStays ==
  ASSUME web \in Webs, web' = web, \A h \in Hosts : RulesFor(h)' = RulesFor(h)
  PROVE  /\ Reachable' = Reachable /\ Declaring' = Declaring /\ OwnDeclared' = OwnDeclared
         /\ DeclareApart(Declaring)' <=> DeclareApart(Declaring)
<1>1. web.home \in Hosts /\ \A u \in DOMAIN web.docs : Doc(u).host \in Hosts
  BY DiscoveryAssumption DEF Doc
<1>2. \A u : Doc(u)' = Doc(u) /\ (Crawled(u)' <=> Crawled(u))
  BY DEF Doc, Crawled
<1>3. \A u \in DOMAIN web.docs : Allowed(u)' <=> Allowed(u)
  BY <1>1, <1>2 DEF Allowed, RulesFor
<1>4. \A u : (Fit(u)' <=> Fit(u)) /\ Children(u)' = Children(u)
  BY <1>2, <1>3 DEF Fit, Children
<1>5. RulesFor(web.home)' = RulesFor(web.home)
  BY <1>1 DEF RulesFor
<1>6. Roots' = Roots
  BY <1>5 DEF Roots, Announced
<1>7. Reachable' = Reachable
  <2> DEFINE met == {T \cup Roots : T \in SUBSET (DOMAIN web.docs \ Roots)}
             closed == {S \in met : \A v \in S : Children(v) \subseteq S}
  <2>1. met' = met
    BY <1>6
  <2>2. closed' = closed
    BY <1>4, <2>1
  <2> HIDE DEF closed
  <2> DEFINE inAll == {u \in DOMAIN web.docs : Fit(u) /\ \A S \in closed : u \in S}
  <2>3. inAll' = inAll
    BY <1>4, <2>2
  <2> QED
    BY <2>3 DEF Reachable, closed
<1>8. Declaring' = Declaring
  BY <1>2, <1>7 DEF Declaring
<1>9. OwnDeclared' = OwnDeclared
  BY <1>2, <1>8 DEF OwnDeclared, Declared, Wanted
<1>10. DeclareApart(Declaring)' <=> DeclareApart(Declaring)
  BY <1>2, <1>8 DEF DeclareApart, Wanted
<1> QED
  BY <1>7, <1>8, <1>9, <1>10

(* The loop stops at the first of them that finds the budget spent.        *)
LEMMA LoopStops ==
  ASSUME TakeFound, NEW L \in Nat, L = Len(found)
  PROVE  \E last \in 0..L :
           /\ kept' = WantedOf(last)
           /\ \A n \in 0..(L - 1) : n < last => \A b \in web.budget : ~(Cardinality(WantedOf(n)) >= b)
           /\ told' => last \in 0..(L - 1) /\ \E b \in web.budget : Cardinality(WantedOf(last)) >= b
           /\ ~told' => last = L
<1> DEFINE stops == {n \in 0..(L - 1) : Spent(n)}
           last == IF stops = {} THEN L ELSE CHOOSE n \in stops : \A m \in stops : n <= m
<1>1. kept' = Taken(last) /\ told' = (stops # {})
  BY DEF TakeFound
<1>2. \A n \in Nat : Taken(n) = WantedOf(n) /\ (Spent(n) <=> \E b \in web.budget : Cardinality(WantedOf(n)) >= b)
  BY TakenIs DEF Spent
<1>3. stops \in SUBSET Nat /\ \A n \in 0..(L - 1) : n \in stops <=> Spent(n)
  OBVIOUS
<1>4. CASE stops = {}
  <2>1. last = L
    BY <1>4
  <2>2. kept' = WantedOf(L) /\ ~told'
    BY <1>1, <1>2, <1>4, <2>1
  <2>3. \A n \in 0..(L - 1) : \A b \in web.budget : ~(Cardinality(WantedOf(n)) >= b)
    BY <1>2, <1>3, <1>4
  <2>4. L \in 0..L
    OBVIOUS
  <2> QED
    BY <2>2, <2>3, <2>4
<1>5. CASE stops # {}
  <2>1. last \in stops /\ \A m \in stops : last <= m
    <3>1. \E n \in stops : \A m \in stops : n <= m
      <4> HIDE DEF stops
      <4> QED
        BY <1>3, <1>5, FirstOf
    <3>2. last = CHOOSE n \in stops : \A m \in stops : n <= m
      BY <1>5
    <3> HIDE DEF stops, last
    <3> QED
      BY <3>1, <3>2
  <2>a. stops \subseteq 0..(L - 1)
    OBVIOUS
  <2> HIDE DEF stops, last
  <2>2. last \in 0..(L - 1) /\ last \in 0..L /\ last \in Nat
    BY <2>1, <2>a
  <2>3. kept' = WantedOf(last) /\ told' /\ \E b \in web.budget : Cardinality(WantedOf(last)) >= b
    BY <1>1, <1>2, <1>3, <1>5, <2>1, <2>2
  <2>4. \A n \in 0..(L - 1) : n < last => \A b \in web.budget : ~(Cardinality(WantedOf(n)) >= b)
    <3>1. \A n \in 0..(L - 1) : n < last => n \notin stops
      BY <2>1, <2>2
    <3>2. \A n \in 0..(L - 1) : n \in Nat
      OBVIOUS
    <3> QED
      BY <1>2, <1>3, <3>1, <3>2
  <2> QED
    BY <2>2, <2>3, <2>4
<1> QED
  BY <1>4, <1>5

(* So what it keeps is within the budget, and what it says is true.        *)
LEMMA LoopTakes ==
  ASSUME DiscoveryInv, TakeFound
  PROVE  BudgetedAndTold'
<1>0. /\ stage = "found" /\ web \in Webs /\ SearchInv /\ web' = web /\ given' = given /\ found' = found
  BY DEF DiscoveryInv, TakeFound, cacheVars
<1>a. /\ Reachable' = Reachable /\ Declaring' = Declaring /\ OwnDeclared' = OwnDeclared
      /\ DeclareApart(Declaring)' <=> DeclareApart(Declaring)
      /\ Full(Len(found))' <=> Full(Len(found))
  <2>1. \A h \in Hosts : RulesFor(h)' = RulesFor(h)
    BY <1>0 DEF RulesFor
  <2> QED
    BY <1>0, <2>1, SiteStays DEF Full, Tope
<1> DEFINE L == Len(found)
<1>1. L \in Nat /\ DOMAIN found = 1..L
  BY <1>0 DEF SearchInv, SearchTypes
<1> HIDE DEF L
<1>2. PICK last \in 0..L :
        /\ kept' = WantedOf(last)
        /\ \A n \in 0..(L - 1) : n < last => \A b \in web.budget : ~(Cardinality(WantedOf(n)) >= b)
        /\ told' => last \in 0..(L - 1) /\ \E b \in web.budget : Cardinality(WantedOf(last)) >= b
        /\ ~told' => last = L
  BY <1>0, <1>1, LoopStops DEF L
<1>3. web.budget \subseteq Nat /\ \A a, b \in web.budget : a = b
  BY <1>0, DiscoveryAssumption
<1>4. \A n \in 0..L : WantedOf(n) \subseteq WantedOf(L)
  <2>1. \A n \in 0..L : 1..n \subseteq 1..L
    BY <1>1
  <2> QED
    BY <2>1 DEF WantedOf
<1>5. WantedOf(L) = {web.pages[p].same : p \in {q \in ToSet(found) : Wanted(web.pages[q])}}
  BY <1>1 DEF WantedOf, Page, ToSet
<1>6. WantedOf(L) \subseteq OwnDeclared
  BY <1>0, <1>5, ReadIsReachable DEF OwnDeclared
<1>7. kept' \subseteq OwnDeclared
  BY <1>2, <1>4, <1>6
<1>8. ASSUME NEW b \in web.budget PROVE Cardinality(WantedOf(last)) <= b
  <2>1. CASE last = 0
    BY <1>3, <2>1, WantedTypes, FS_EmptySet
  <2>2. CASE last # 0
    <3>1. last - 1 \in 0..(L - 1) /\ last - 1 \in Nat /\ last - 1 < last /\ (last - 1) + 1 = last
      BY <1>1, <2>2
    <3>2. ~(Cardinality(WantedOf(last - 1)) >= b)
      BY <1>2, <3>1
    <3>3. /\ Cardinality(WantedOf(last - 1)) \in Nat /\ Cardinality(WantedOf((last - 1) + 1)) \in Nat
          /\ Cardinality(WantedOf((last - 1) + 1)) <= Cardinality(WantedOf(last - 1)) + 1
      BY <3>1, WantedGrowByOne
    <3> QED
      BY <1>3, <3>1, <3>2, <3>3
  <2> QED
    BY <2>1, <2>2
<1>9. ASSUME ~Full(Len(found)), Cardinality(Reachable) <= MaxSitemaps
      PROVE  WantedOf(L) = OwnDeclared
  BY <1>0, <1>5, <1>9, ReadIsReachable DEF OwnDeclared
<1>10. ASSUME DeclareApart(Declaring)
       PROVE  /\ \A i \in 1..L : Wanted(Page(i))
              /\ \A i, j \in 1..L : Page(i).same = Page(j).same => i = j
  <2>1. WellRead \subseteq Declaring /\ ToSet(found) \subseteq UrlsRead
    BY <1>0, ReadIsReachable DEF SearchInv, AllTaken
  <2>2. ASSUME NEW i \in 1..L PROVE Wanted(Page(i))
    <3>1. found[i] \in UrlsRead
      BY <1>1, <2>1 DEF ToSet
    <3>2. PICK u \in WellRead : found[i] \in ToSet(Doc(u).urls)
      BY <3>1 DEF UrlsRead
    <3>3. PICK m \in DOMAIN Doc(u).urls : found[i] = Doc(u).urls[m]
      BY <3>2 DEF ToSet
    <3> QED
      BY <1>10, <2>1, <3>3 DEF DeclareApart, Page
  <2>3. DeclareApart(WellRead)
    BY <1>10, <2>1 DEF DeclareApart
  <2>4. \A i, j \in DOMAIN found : web.pages[found[i]].same = web.pages[found[j]].same => i = j
    BY <1>0, <2>3 DEF SearchInv, AllTaken
  <2> QED
    BY <1>1, <2>2, <2>4 DEF Page
<1>11. ASSUME Cardinality(Reachable) <= MaxSitemaps, DeclareApart(Declaring), told'
       PROVE  \E b \in web.budget : Cardinality(OwnDeclared) > b
  <2>1. PICK b \in web.budget : Cardinality(WantedOf(last)) >= b
    BY <1>2, <1>11
  <2>2. last \in 0..(L - 1) /\ last \in Nat /\ last + 1 \in 1..L /\ last + 1 \in 0..L
    BY <1>1, <1>2, <1>11
  <2>3. Cardinality(WantedOf(last)) = last /\ Cardinality(WantedOf(last + 1)) = last + 1
    BY <1>1, <1>10, <1>11, <2>2, WantedOnce
  <2>4. WantedOf(last + 1) \subseteq OwnDeclared /\ IsFiniteSet(OwnDeclared)
    BY <1>0, <1>4, <1>6, <2>2, DeclaredAreFinite
  <2>5. Cardinality(OwnDeclared) >= last + 1 /\ Cardinality(OwnDeclared) \in Nat
    BY <2>2, <2>3, <2>4, FS_Subset, FS_CardinalityType
  <2> QED
    BY <1>3, <2>1, <2>2, <2>3, <2>5
<1>12. ASSUME Cardinality(Reachable) <= MaxSitemaps, DeclareApart(Declaring), ~told', NEW b \in web.budget
       PROVE  ~(Cardinality(OwnDeclared) > b)
  <2>1. last = L /\ Cardinality(WantedOf(L)) <= b
    BY <1>2, <1>8, <1>12
  <2>2. Cardinality(WantedOf(L)) = L
    <3>1. L \in 0..L
      BY <1>1
    <3> QED
      BY <1>1, <1>10, <1>12, <3>1, WantedOnce
  <2>3. ~Full(Len(found))
    <3>1. \A t \in Tope : t = b + 1
      BY <1>3 DEF Tope
    <3>2. ~(L >= b + 1)
      BY <1>1, <1>3, <2>1, <2>2
    <3> QED
      BY <3>1, <3>2 DEF Full, L
  <2>4. Cardinality(OwnDeclared) = L
    BY <1>9, <1>12, <2>2, <2>3
  <2> QED
    BY <1>1, <1>3, <2>1, <2>2, <2>4
<1> QED
  <2>1. ASSUME Cardinality(Reachable) <= MaxSitemaps, ~Full(Len(found)), ~told' PROVE kept' = OwnDeclared
    BY <1>2, <1>9, <2>1
  <2>2. ASSUME Cardinality(Reachable) <= MaxSitemaps, DeclareApart(Declaring)
        PROVE  told' <=> \E b \in web.budget : Cardinality(OwnDeclared) > b
    BY <1>11, <1>12, <2>2
  <2>3. \A b \in web.budget : Cardinality(kept') <= b
    BY <1>2, <1>8
  <2> QED
    BY <1>0, <1>7, <1>a, <2>1, <2>2, <2>3 DEF BudgetedAndTold

(* And nothing of it changes while the pages are crawled.                  *)
LEMMA BudgetStays ==
  ASSUME CacheInv, DiscoveryInv, BudgetedAndTold, [Next]_vars
  PROVE  BudgetedAndTold'
<1>1. CASE Start \/ LaunchDeferred \/ TakeNext \/ Join \/ EndDiscovery \/ Interrupt
  <2>1. stage' # "pages"
    BY <1>1 DEF Start, LaunchDeferred, TakeNext, Head1, Join, EndDiscovery, Interrupt, Filling
  <2> QED
    BY <2>1 DEF BudgetedAndTold
<1>2. CASE TakeFound
  BY <1>2, LoopTakes
<1>3. CASE AskRobots \/ Ended \/ UNCHANGED vars
  <2>0. UNCHANGED sitemapVars
    BY <1>3 DEF AskRobots, Ended, vars
  <2>1. CASE stage # "pages"
    BY <2>0, <2>1 DEF BudgetedAndTold, sitemapVars
  <2>2. CASE stage = "pages"
    <3>1. \A h \in Hosts : RulesFor(h)' = RulesFor(h)
      <4>1. CASE AskRobots
        <5>1. PICK t \in PageTasks : Step(t) \/ Drop(t)
          BY <2>2, <4>1 DEF AskRobots, AwaitedHosts, Head1, Filling
        <5>2. t \in Tasks /\ \A h \in Hosts : Loop[h] # t /\ Loop[h] \in Tasks
          BY <5>1, LoopTypes DEF PageTasks
        <5>3. given \in [Tasks -> Answers \cup {Nothing}] /\ (given' = given \/ \E a : given' = [given EXCEPT ![t] = a])
          BY <5>1 DEF Step, Look, Enter, Take, Download, Answered, Drop, CacheInv, CacheTypeOK
        <5> QED
          BY <5>2, <5>3 DEF RulesFor
      <4>2. CASE Ended \/ UNCHANGED vars
        BY <4>2 DEF Ended, vars, cacheVars, RulesFor
      <4> QED
        BY <1>3, <4>1, <4>2
    <3>2. web \in Webs /\ web' = web /\ kept' = kept /\ told' = told /\ found' = found /\ stage' = stage
      BY <2>0 DEF DiscoveryInv, sitemapVars
    <3>3. /\ Reachable' = Reachable /\ Declaring' = Declaring /\ OwnDeclared' = OwnDeclared
          /\ DeclareApart(Declaring)' <=> DeclareApart(Declaring)
          /\ Full(Len(found))' <=> Full(Len(found))
      BY <3>1, <3>2, SiteStays DEF Full, Tope
    <3> QED
      BY <3>2, <3>3 DEF BudgetedAndTold
  <2> QED
    BY <2>1, <2>2
<1> QED
  BY <1>1, <1>2, <1>3 DEF Next

(* The promises of the cells are kept through the whole crawl.              *)
THEOREM PromisesKept == Spec => []CacheInv
<1>1. Init => CacheInv
  BY CacheInitHolds DEF Init
<1> QED
  BY <1>1, NextKeeps, PTL DEF Spec

(* A host is asked for its robots.txt by one task at a time, and never      *)
(* again once it has answered, whoever asks first and whoever is dropped.   *)
THEOREM RobotsDownloadedOnce == Spec => []OneDownload
BY PromisesKept, InvGivesOneDownload, PTL

(* The discovery and the pages of a host obey the same rules, those that    *)
(* the file will have.                                                      *)
THEOREM RobotsAgreed == Spec => []SameRulesForAll
BY PromisesKept, InvGivesSameRules, PTL

(* Every sitemap that can be reached is read once, in whichever order they  *)
(* answer and however they point to one another, and its row says where it  *)
(* was found; and unless a limit was met, those rows are all there are to   *)
(* have, and the URLs found all that they declare.                          *)
THEOREM EachIsReadOnce == Spec => []EachReadOnce
BY DiscoverySafe, InvGivesEachReadOnce, PTL

(* The URLs of the sitemaps that enter the crawl are URLs that the site     *)
(* declares of itself and no more than the budget, all of them if no limit  *)
(* was met; and if each is declared once the crawl says that it was cut     *)
(* when it was, and only then.                                              *)
THEOREM BudgetIsKeptAndTold == Spec => []BudgetedAndTold
<1>1. Init => BudgetedAndTold
  BY DEF Init, BudgetedAndTold
<1> QED
  BY <1>1, DiscoverySafe, BudgetStays, PTL DEF Spec

=============================================================================
