--------------------------- MODULE ExternalQueue ---------------------------
(***************************************************************************)
(* The queue of status probes of engine.rs (ExternalQueue): one queue per  *)
(* foreign host, a round of the hosts that have work, a budget per host    *)
(* and the closing of a host that does not answer or that complains.       *)
(***************************************************************************)
EXTENDS Naturals, Sequences, SequencesExt, FiniteSetsExt

CONSTANTS
    Foreign,          \* foreign hosts
    Probes,           \* URLs of foreign hosts
    ProbeHost(_),     \* the host of each
    MaxPerHost,       \* MAX_EXTERNAL_PER_HOST
    FailureStreak     \* EXTERNAL_HOST_FAILURE_STREAK

ASSUME QueueAssumption ==
    /\ \A u \in Probes : ProbeHost(u) \in Foreign
    /\ MaxPerHost \in Nat
    /\ FailureStreak \in Nat \ {0}

VARIABLES
    queue,      \* by_host[h].queue
    round,      \* hosts: those that have work, in turn
    pending,    \* how many probes wait in all
    accepted,   \* by_host[h].accepted
    failures,   \* by_host[h].failures
    closed      \* by_host[h].closed

queueVars == <<queue, round, pending, accepted, failures, closed>>

Closings == {"open", "rate_limited", "host_unreachable"}

QueueInit ==
    /\ queue = [h \in Foreign |-> <<>>]
    /\ round = <<>>
    /\ pending = 0
    /\ accepted = [h \in Foreign |-> 0]
    /\ failures = [h \in Foreign |-> 0]
    /\ closed = [h \in Foreign |-> "open"]

Accepts(h) == closed[h] = "open" /\ accepted[h] < MaxPerHost

PushOfNewHosts(u) ==
    LET h == ProbeHost(u) IN
      /\ Accepts(h)
      /\ queue' = [queue EXCEPT ![h] = Append(@, u)]
      /\ round' = IF accepted[h] = 0 THEN Append(round, h) ELSE round
      /\ pending' = pending + 1
      /\ accepted' = [accepted EXCEPT ![h] = @ + 1]
      /\ UNCHANGED <<failures, closed>>

(* What puts a host back in the round is its empty queue, not its being    *)
(* new.                                                                    *)
Push(u) ==
    LET h == ProbeHost(u) IN
      /\ Accepts(h)
      /\ queue' = [queue EXCEPT ![h] = Append(@, u)]
      /\ round' = IF queue[h] = <<>> THEN Append(round, h) ELSE round
      /\ pending' = pending + 1
      /\ accepted' = [accepted EXCEPT ![h] = @ + 1]
      /\ UNCHANGED <<failures, closed>>

(* The first host of the round with room gives its oldest probe and goes   *)
(* to the back; so do those that were passed over.                         *)
NextProbe(u, ready) ==
    \E i \in DOMAIN round :
      LET h == round[i] IN
        /\ h \in ready
        /\ \A j \in 1..(i-1) : round[j] \notin ready
        /\ queue[h] # <<>>  /\ u = Head(queue[h])
        /\ queue' = [queue EXCEPT ![h] = Tail(@)]
        /\ round' = SubSeq(round, i + 1, Len(round)) \o SubSeq(round, 1, i - 1)
                      \o (IF Tail(queue[h]) = <<>> THEN <<>> ELSE <<h>>)
        /\ pending' = pending - 1
        /\ UNCHANGED <<accepted, failures, closed>>

(* A host is in the round once: to keep all but it is to take its place    *)
(* out.                                                                    *)
RoundWithout(h) ==
    IF h \in Range(round)
    THEN RemoveAt(round, CHOOSE i \in DOMAIN round : round[i] = h)
    ELSE round

(* What it had queued is not sent. *)
Close(h, reason) ==
    /\ closed' = [closed EXCEPT ![h] = reason]
    /\ queue' = [queue EXCEPT ![h] = <<>>]
    /\ pending' = pending - Len(queue[h])
    /\ round' = RoundWithout(h)
    /\ UNCHANGED accepted

(* A 429 or a 503 closes the host at once. *)
ProbeOverloaded(h) ==
    /\ failures' = [failures EXCEPT ![h] = 0]
    /\ Close(h, "rate_limited")

(* Any other answer, a 404 too, starts the count again. *)
ProbeAnswered(h) ==
    /\ failures' = [failures EXCEPT ![h] = 0]
    /\ UNCHANGED <<queue, round, pending, accepted, closed>>

(* And the last of a streak of failures closes it. *)
ProbeFailed(h) ==
    /\ failures' = [failures EXCEPT ![h] = @ + 1]
    /\ IF failures[h] + 1 < FailureStreak
       THEN UNCHANGED <<queue, round, pending, accepted, closed>>
       ELSE Close(h, "host_unreachable")

=============================================================================
