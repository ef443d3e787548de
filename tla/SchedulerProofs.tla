--------------------------- MODULE SchedulerProofs ---------------------------
(***************************************************************************)
(* Proofs about the pool of requests, for any hosts, pages, probes and      *)
(* limits: who asks for one request at a time gets one at a time, and a     *)
(* Retry-After is obeyed by the whole host.                                 *)
(***************************************************************************)
EXTENDS Scheduler, FiniteSetTheorems, SequenceTheorems, TLAPS

Stages == {"none", "robots", "gate", "request", "backoff", "obey", "joined"} \cup Outcomes

(* In flight: dispatched and not joined.                                    *)
Flying(u) == stage[u] \notin {"none", "joined"}

(* The variables, without the counting of the tasks of a host.              *)
PoolTypes ==
    /\ ThrottleTypeOK
    /\ slow \subseteq Hosts \ Foreign
    /\ frontier \in Seq(Pages)
    /\ slots \in [Hosts -> Int]
    /\ stage \in [Urls -> Stages]
    /\ left \in [Urls -> Nat]
    /\ permit \in [Hosts -> Urls \cup {NoUrl}]
    /\ queue \in [Foreign -> Seq(Probes)]

(* A task past the gate of a slow host, whatever it waits for, has its      *)
(* permit.                                                                  *)
GateInv ==
    \A u \in Urls : Host(u) \in slow /\ stage[u] \in {"request", "backoff", "obey"} => permit[Host(u)] = u

(* A queue has probes of its host, which is already down to one.            *)
QueueInv ==
    \A h \in Foreign :
      /\ \A i \in 1..Len(queue[h]) : ProbeHost(queue[h][i]) = h
      /\ queue[h] # <<>> => ceiling[h] = 1

(* A foreign host has a slot taken or none, and so many tasks.              *)
SlotInv ==
    \A h \in Foreign :
      /\ slots[h] \in {0, 1}
      /\ slots[h] = 0 => \A u \in Urls : Host(u) = h => ~Flying(u)
      /\ \A u, t \in Urls : Flying(u) /\ Flying(t) /\ Host(u) = h /\ Host(t) = h => u = t

(* No task sleeps longer than the pause of its host.                        *)
PauseInv == \A t \in Pages : stage[t] = "obey" => left[t] <= pause[Host(t)]

PoolInv == PoolTypes /\ GateInv /\ QueueInv /\ SlotInv /\ PauseInv

(* A URL is a page, of a host of the sites, or a probe, of a foreign one.   *)
LEMMA Homes ==
  /\ \A u \in Urls : Host(u) \in Hosts
  /\ \A u \in Pages : Host(u) = PageHost(u) /\ PageHost(u) \in Hosts \ Foreign /\ u \in Urls
  /\ \A u \in Probes : Host(u) = ProbeHost(u) /\ ProbeHost(u) \in Foreign /\ ProbeHost(u) \in Hosts /\ u \in Urls
  /\ Foreign \subseteq Hosts
BY SchedulerAssumption, QueueAssumption DEF Host, Urls

(* Nothing is in flight when the loop starts.                               *)
LEMMA PoolInit == Init => PoolInv
<1> SUFFICES ASSUME Init
             PROVE  PoolInv
  OBVIOUS
<1>1. PoolTypes
  BY SchedulerAssumption, ThrottleAssumption
  DEF Init, ThrottleInit, QueueInit, PoolTypes, ThrottleTypeOK, Stages
<1>2. \A u \in Urls : stage[u] = "none"
  BY DEF Init
<1>3. \A h \in Foreign : queue[h] = <<>> /\ slots[h] = 0
  BY Homes DEF Init, QueueInit
<1> QED
  BY <1>1, <1>2, <1>3, Homes DEF PoolInv, GateInv, QueueInv, SlotInv, PauseInv, Flying

(* What the answers and the files of a host do to its brake.                *)
Brake(h) ==
    \/ RecordGood(h) \/ RecordBad(h) \/ RecordOverload(h) \/ ForceSerial(h)
    \/ \E ticks \in 1..MaxWait : Pause(h, ticks)

(* It stays within its bounds, a host that is down to one stays so, and no  *)
(* pause is cut short.                                                      *)
LEMMA BrakeKeeps ==
  ASSUME ThrottleTypeOK, (\E h \in Hosts : Brake(h)) \/ UNCHANGED throttleVars
  PROVE  /\ ThrottleTypeOK'
         /\ \A g \in Hosts : (ceiling[g] = 1 => ceiling'[g] = 1) /\ pause'[g] >= pause[g]
<1> USE ThrottleAssumption
<1>1. ASSUME NEW h \in Hosts, RecordGood(h)
      PROVE  /\ ThrottleTypeOK'
             /\ \A g \in Hosts : (ceiling[g] = 1 => ceiling'[g] = 1) /\ pause'[g] >= pause[g]
  BY <1>1 DEF RecordGood, ThrottleTypeOK, Capped
<1>2. ASSUME NEW h \in Hosts, RecordBad(h)
      PROVE  /\ ThrottleTypeOK'
             /\ \A g \in Hosts : (ceiling[g] = 1 => ceiling'[g] = 1) /\ pause'[g] >= pause[g]
  BY <1>2 DEF RecordBad, ThrottleTypeOK
<1>3. ASSUME NEW h \in Hosts, RecordOverload(h)
      PROVE  /\ ThrottleTypeOK'
             /\ \A g \in Hosts : (ceiling[g] = 1 => ceiling'[g] = 1) /\ pause'[g] >= pause[g]
  BY <1>3 DEF RecordOverload, ThrottleTypeOK, Capped, MinConcurrency
<1>4. ASSUME NEW h \in Hosts, ForceSerial(h)
      PROVE  /\ ThrottleTypeOK'
             /\ \A g \in Hosts : (ceiling[g] = 1 => ceiling'[g] = 1) /\ pause'[g] >= pause[g]
  BY <1>4 DEF ForceSerial, ThrottleTypeOK, MinConcurrency
<1>5. ASSUME NEW h \in Hosts, NEW ticks \in 1..MaxWait, Pause(h, ticks)
      PROVE  /\ ThrottleTypeOK'
             /\ \A g \in Hosts : (ceiling[g] = 1 => ceiling'[g] = 1) /\ pause'[g] >= pause[g]
  BY <1>5 DEF Pause, ThrottleTypeOK
<1>6. ASSUME UNCHANGED throttleVars
      PROVE  /\ ThrottleTypeOK'
             /\ \A g \in Hosts : (ceiling[g] = 1 => ceiling'[g] = 1) /\ pause'[g] >= pause[g]
  BY <1>6 DEF throttleVars, ThrottleTypeOK
<1> QED
  BY <1>1, <1>2, <1>3, <1>4, <1>5, <1>6 DEF Brake

(* A task that goes on keeps its slot.                                      *)
LEMMA SlotKept ==
  ASSUME PoolTypes, SlotInv, NEW u \in Urls, NEW s \in Stages, s \notin {"none", "joined"},
         Flying(u), stage' = [stage EXCEPT ![u] = s], UNCHANGED slots
  PROVE  SlotInv'
<1>1. \A w \in Urls : Flying(w)' <=> Flying(w)
  BY DEF Flying, PoolTypes
<1> QED
  BY <1>1 DEF SlotInv

(* A queue that is left alone, or emptied.                                  *)
LEMMA QueueKept ==
  ASSUME PoolTypes, QueueInv, \A h \in Foreign : ceiling[h] = 1 => ceiling'[h] = 1,
         UNCHANGED queue \/ \E h \in Foreign : queue' = [queue EXCEPT ![h] = <<>>]
  PROVE  QueueInv' /\ queue' \in [Foreign -> Seq(Probes)]
<1>1. CASE UNCHANGED queue
  BY <1>1 DEF QueueInv, PoolTypes
<1>2. ASSUME NEW h \in Foreign, queue' = [queue EXCEPT ![h] = <<>>]
      PROVE  QueueInv' /\ queue' \in [Foreign -> Seq(Probes)]
  <2>1. queue' \in [Foreign -> Seq(Probes)] /\ queue'[h] = <<>> /\ \A g \in Foreign \ {h} : queue'[g] = queue[g]
    BY <1>2 DEF PoolTypes
  <2> QED
    BY <2>1 DEF QueueInv
<1> QED
  BY <1>1, <1>2

(* Where a task may go from a request that has not ended.                   *)
LEMMA Waits ==
  ASSUME PoolInv, NEW u \in Urls, NEW s \in {"request", "backoff", "obey"}, NEW r \in {"request", "backoff", "obey"},
         stage[u] = r, stage' = [stage EXCEPT ![u] = s],
         UNCHANGED <<slow, loopVars, queueVars, gateVars>>,
         left' \in [Urls -> Nat], (\E h \in Hosts : Brake(h)) \/ UNCHANGED throttleVars,
         \A t \in Pages \ {u} : left'[t] = left[t],
         u \in Pages /\ s = "obey" => left'[u] <= pause'[Host(u)]
  PROVE  PoolInv'
<1>1. /\ PoolTypes /\ GateInv /\ QueueInv /\ SlotInv /\ PauseInv
      /\ UNCHANGED <<slow, frontier, slots, permit, queue>>
  BY DEF PoolInv, loopVars, gateVars, queueVars
<1>2. ThrottleTypeOK' /\ \A g \in Hosts : (ceiling[g] = 1 => ceiling'[g] = 1) /\ pause'[g] >= pause[g]
  BY <1>1, BrakeKeeps DEF PoolTypes
<1>3. PoolTypes'
  BY <1>1, <1>2 DEF PoolTypes, Stages
<1>4. GateInv'
  BY <1>1 DEF GateInv, PoolTypes
<1>5. QueueInv'
  BY <1>1, <1>2, QueueKept, Homes
<1>6. SlotInv'
  BY <1>1, SlotKept DEF Flying, Stages
<1>7. PauseInv'
  <2> SUFFICES ASSUME NEW t \in Pages, stage'[t] = "obey"
               PROVE  left'[t] <= pause'[Host(t)]
    BY DEF PauseInv
  <2>1. CASE t = u
    BY <1>1, <2>1, Homes DEF PoolTypes
  <2>2. CASE t # u
    <3>1. t \in Urls /\ Host(t) \in Hosts /\ stage[t] = "obey" /\ left'[t] = left[t] /\ left[t] \in Nat
      BY <1>1, <2>2, Homes DEF PoolTypes
    <3>2. left[t] <= pause[Host(t)] /\ pause[Host(t)] \in Nat /\ pause'[Host(t)] \in Nat
      BY <1>1, <1>2, <3>1, ThrottleAssumption DEF PauseInv, PoolTypes, ThrottleTypeOK
    <3> QED
      BY <1>2, <3>1, <3>2
  <2> QED
    BY <2>1, <2>2
<1> QED
  BY <1>3, <1>4, <1>5, <1>6, <1>7 DEF PoolInv

(* The steps of a task.                                                     *)
LEMMA TaskKeeps == \A u \in Urls : PoolInv /\ TaskStep(u) => PoolInv'
<1> SUFFICES ASSUME NEW u \in Urls, PoolInv, TaskStep(u)
             PROVE  PoolInv'
  OBVIOUS
<1>1. /\ PoolTypes /\ GateInv /\ QueueInv /\ SlotInv /\ PauseInv /\ Host(u) \in Hosts
      /\ stage \in [Urls -> Stages] /\ left \in [Urls -> Nat] /\ NoUrl \notin Urls
  BY Homes, SchedulerAssumption DEF PoolInv, PoolTypes
<1>2. ASSUME NEW s \in Stages, s \notin {"none", "joined", "obey"}, Flying(u),
             stage' = [stage EXCEPT ![u] = s], UNCHANGED <<slow, frontier, slots, left, queue>>,
             permit' \in [Hosts -> Urls \cup {NoUrl}], GateInv',
             UNCHANGED throttleVars \/ Brake(Host(u))
      PROVE  PoolInv'
  <2>1. ThrottleTypeOK' /\ \A g \in Hosts : (ceiling[g] = 1 => ceiling'[g] = 1) /\ pause'[g] >= pause[g]
    BY <1>1, <1>2, BrakeKeeps DEF PoolTypes
  <2>2. PoolTypes'
    BY <1>1, <1>2, <2>1 DEF PoolTypes
  <2>3. SlotInv' /\ QueueInv'
    BY <1>1, <1>2, <2>1, SlotKept, QueueKept, Homes
  <2>4. PauseInv'
    <3> SUFFICES ASSUME NEW t \in Pages, stage'[t] = "obey"
                 PROVE  left'[t] <= pause'[Host(t)]
      BY DEF PauseInv
    <3>1. t \in Urls /\ Host(t) \in Hosts /\ stage[t] = "obey" /\ left'[t] = left[t] /\ left[t] \in Nat
      BY <1>1, <1>2, Homes
    <3>2. left[t] <= pause[Host(t)] /\ pause[Host(t)] \in Nat /\ pause'[Host(t)] \in Nat
      BY <1>1, <2>1, <3>1, ThrottleAssumption DEF PauseInv, PoolTypes, ThrottleTypeOK
    <3> QED
      BY <2>1, <3>1, <3>2
  <2> QED
    BY <1>2, <2>2, <2>3, <2>4 DEF PoolInv
<1>3. CASE ReadRobots(u)
  <2>1. /\ stage[u] = "robots" /\ UNCHANGED <<slow, frontier, slots, left, queue, permit>>
        /\ UNCHANGED throttleVars \/ ForceSerial(Host(u))
        /\ \E s \in {"gate", "request", "failed", "panic"} :
             stage' = [stage EXCEPT ![u] = s] /\ (s = "request" => Host(u) \notin slow)
    BY <1>3 DEF ReadRobots, TaskGoes, loopVars, queueVars, gateVars
  <2>2. PICK s \in {"gate", "request", "failed", "panic"} :
          stage' = [stage EXCEPT ![u] = s] /\ (s = "request" => Host(u) \notin slow)
    BY <2>1
  <2>3. GateInv'
    BY <1>1, <2>1, <2>2 DEF GateInv
  <2> QED
    BY <1>1, <1>2, <2>1, <2>2, <2>3 DEF PoolTypes, Stages, Outcomes, Flying, Brake
<1>4. CASE PassGate(u)
  <2>1. /\ stage[u] = "gate" /\ stage' = [stage EXCEPT ![u] = "request"]
        /\ permit[Host(u)] = NoUrl /\ permit' = [permit EXCEPT ![Host(u)] = u]
        /\ UNCHANGED <<slow, frontier, slots, left, queue>> /\ UNCHANGED throttleVars
    BY <1>4 DEF PassGate, TaskGoes, loopVars, queueAndThrottle, queueVars
  <2>2. GateInv'
    BY <1>1, <2>1 DEF GateInv, PoolTypes
  <2>3. permit' \in [Hosts -> Urls \cup {NoUrl}]
    BY <1>1, <2>1 DEF PoolTypes
  <2> QED
    BY <1>1, <1>2, <2>1, <2>2, <2>3 DEF Stages, Flying
<1>5. CASE BackOff(u)
  BY <1>1, <1>5, Waits DEF BackOff, TaskGoes, queueAndThrottle
<1>6. CASE ObeyRetryAfter(u)
  <2>1. PICK ticks \in 1..MaxWait : left' = [left EXCEPT ![u] = ticks] /\ Pause(Host(u), ticks)
    BY <1>6 DEF ObeyRetryAfter
  <2>2. left' \in [Urls -> Nat] /\ left'[u] = ticks /\ \A t \in Pages \ {u} : left'[t] = left[t]
    BY <1>1, <2>1, ThrottleAssumption, Homes
  <2>3. ticks <= pause'[Host(u)]
    BY <1>1, <2>1, ThrottleAssumption DEF Pause, PoolTypes, ThrottleTypeOK
  <2> QED
    BY <1>1, <1>6, <2>1, <2>2, <2>3, Waits DEF ObeyRetryAfter, TaskGoes, Brake
<1>7. CASE Retry(u)
  <2>1. PICK r \in {"backoff", "obey"} : stage[u] = r /\ stage' = [stage EXCEPT ![u] = "request"]
    BY <1>7 DEF Retry, TaskGoes
  <2> QED
    BY <1>1, <1>7, <2>1, Waits DEF Retry, queueAndThrottle
<1>8. CASE EndTask(u)
  <2>1. /\ stage[u] = "request" /\ DropPermit(u)
        /\ UNCHANGED <<slow, frontier, slots, left, queue>> /\ UNCHANGED throttleVars
    BY <1>8 DEF EndTask, TaskGoes, loopVars, queueAndThrottle, queueVars
  <2>2. PICK s \in Outcomes : stage' = [stage EXCEPT ![u] = s]
    BY <1>8 DEF EndTask, TaskGoes
  <2>3. permit' \in [Hosts -> Urls \cup {NoUrl}]
    BY <1>1, <2>1 DEF DropPermit, PoolTypes
  <2>4. GateInv'
    BY <1>1, <2>1, <2>2, Homes DEF GateInv, DropPermit, Outcomes
  <2> QED
    BY <1>1, <1>2, <2>1, <2>2, <2>3, <2>4 DEF Stages, Outcomes, Flying
<1> QED
  BY <1>3, <1>4, <1>5, <1>6, <1>7, <1>8 DEF TaskStep

(* A page leaves the frontier.                                              *)
LEMMA DispatchKeeps == PoolInv /\ Dispatch => PoolInv'
<1> SUFFICES ASSUME PoolInv, Dispatch
             PROVE  PoolInv'
  OBVIOUS
<1>1. /\ PoolTypes /\ GateInv /\ QueueInv /\ SlotInv /\ PauseInv /\ frontier \in Seq(Pages)
      /\ stage \in [Urls -> Stages] /\ slots \in [Hosts -> Int]
  BY DEF PoolInv, PoolTypes
<1>2. PICK i \in 1..Len(frontier) : frontier' = RemoveAt(frontier, i) /\ Spawn(frontier[i], "robots")
  <2>1. Scanned \subseteq 1..Len(frontier)
    <3>1. Len(frontier) \in Nat /\ MaxScan \in Nat
      BY <1>1, SchedulerAssumption
    <3> QED
      BY <3>1 DEF Scanned
  <2> QED
    BY <2>1 DEF Dispatch
<1>3. /\ frontier[i] \in Pages /\ frontier[i] \in Urls /\ Host(frontier[i]) \in Hosts \ Foreign
  BY <1>1, <1>2, Homes
<1>4. /\ UNCHANGED <<slow, left, permit, queue>> /\ UNCHANGED throttleVars
      /\ stage' = [stage EXCEPT ![frontier[i]] = "robots"]
      /\ slots' = [slots EXCEPT ![Host(frontier[i])] = @ + 1]
  BY <1>2 DEF Dispatch, Spawn, queueVars, gateVars
<1>5. frontier' \in Seq(Pages)
  <2>1. /\ SubSeq(frontier, 1, i - 1) \in Seq(Pages)
        /\ SubSeq(frontier, i + 1, Len(frontier)) \in Seq(Pages)
    BY <1>1, <1>2
  <2> QED
    BY <1>2, <2>1 DEF RemoveAt
<1>6. ThrottleTypeOK' /\ pause' = pause
  BY <1>1, <1>4 DEF PoolTypes, ThrottleTypeOK, throttleVars
<1>7. PoolTypes'
  BY <1>1, <1>3, <1>4, <1>5, <1>6 DEF PoolTypes, Stages
<1>8. GateInv' /\ PauseInv'
  BY <1>1, <1>4, <1>6, Homes DEF GateInv, PauseInv
<1>9. QueueInv'
  BY <1>1, <1>4, QueueKept DEF throttleVars
<1>10. SlotInv'
  <2>1. \A h \in Foreign : slots'[h] = slots[h]
    BY <1>1, <1>3, <1>4, Homes
  <2>2. \A w \in Urls : Host(w) \in Foreign => (Flying(w)' <=> Flying(w))
    BY <1>1, <1>3, <1>4 DEF Flying
  <2> QED
    BY <1>1, <2>1, <2>2 DEF SlotInv
<1> QED
  BY <1>7, <1>8, <1>9, <1>10 DEF PoolInv

(* A probe leaves its queue: its host had no slot taken.                    *)
LEMMA DispatchProbeKeeps == \A u \in Probes : PoolInv /\ DispatchProbe(u) => PoolInv'
<1> SUFFICES ASSUME NEW u \in Probes, PoolInv, DispatchProbe(u)
             PROVE  PoolInv'
  OBVIOUS
<1>1. /\ PoolTypes /\ GateInv /\ QueueInv /\ SlotInv /\ PauseInv
      /\ stage \in [Urls -> Stages] /\ slots \in [Hosts -> Int] /\ queue \in [Foreign -> Seq(Probes)]
      /\ ThrottleTypeOK
  BY DEF PoolInv, PoolTypes
<1>2. PICK h \in ProbeReady : queue[h] # <<>> /\ u = Head(queue[h]) /\ queue' = [queue EXCEPT ![h] = Tail(@)]
  BY DEF DispatchProbe, NextProbe
<1>3. h \in Foreign /\ h \in Hosts /\ slots[h] < limit[h]
  BY <1>2, Homes DEF ProbeReady, HasRoomForProbe
<1>4. u \in Urls /\ Host(u) = h
  <2>1. u = queue[h][1] /\ 1 \in 1..Len(queue[h])
    BY <1>1, <1>2, <1>3
  <2> QED
    BY <1>1, <1>3, <2>1, Homes DEF QueueInv
<1>5. slots[h] = 0
  <2>1. limit[h] <= 1 /\ limit[h] \in Nat
    BY <1>1, <1>2, <1>3, ThrottleAssumption DEF QueueInv, ThrottleTypeOK
  <2> QED
    BY <1>1, <1>3, <2>1 DEF SlotInv
<1>6. /\ UNCHANGED <<slow, left, permit, frontier>> /\ UNCHANGED throttleVars
      /\ stage' = [stage EXCEPT ![u] = "request"] /\ slots' = [slots EXCEPT ![h] = @ + 1]
  BY <1>4 DEF DispatchProbe, Spawn, gateVars
<1>7. queue' \in [Foreign -> Seq(Probes)]
  BY <1>1, <1>2, <1>3
<1>8. ThrottleTypeOK' /\ pause' = pause /\ ceiling' = ceiling
  BY <1>1, <1>6 DEF ThrottleTypeOK, throttleVars
<1>9. PoolTypes'
  BY <1>1, <1>3, <1>4, <1>6, <1>7, <1>8 DEF PoolTypes, Stages
<1>10. GateInv' /\ PauseInv'
  <2>1. Host(u) \notin slow
    BY <1>1, <1>3, <1>4 DEF PoolTypes
  <2> QED
    BY <1>1, <1>4, <1>6, <1>8, <2>1, Homes DEF GateInv, PauseInv
<1>11. QueueInv'
  <2>1. \A g \in Foreign \ {h} : queue'[g] = queue[g]
    BY <1>1, <1>2
  <2>2. /\ queue'[h] = Tail(queue[h]) /\ Len(Tail(queue[h])) = Len(queue[h]) - 1
        /\ \A i \in 1..Len(Tail(queue[h])) : Tail(queue[h])[i] = queue[h][i + 1] /\ i + 1 \in 1..Len(queue[h])
    BY <1>1, <1>2, <1>3
  <2>3. \A i \in 1..Len(queue'[h]) : ProbeHost(queue'[h][i]) = h
    BY <1>1, <1>3, <2>2 DEF QueueInv
  <2> QED
    BY <1>1, <1>2, <1>3, <1>8, <2>1, <2>3 DEF QueueInv
<1>12. SlotInv'
  <2>1. slots'[h] = 1 /\ \A g \in Foreign \ {h} : slots'[g] = slots[g]
    BY <1>1, <1>3, <1>5, <1>6, Homes
  <2>2. \A w \in Urls : w # u => (Flying(w)' <=> Flying(w))
    BY <1>1, <1>6 DEF Flying
  <2>3. \A w \in Urls : Host(w) = h => ~Flying(w)
    BY <1>1, <1>3, <1>5 DEF SlotInv
  <2> QED
    BY <1>1, <1>4, <2>1, <2>2, <2>3 DEF SlotInv
<1> QED
  BY <1>9, <1>10, <1>11, <1>12 DEF PoolInv

(* The loop takes an answer, and the slot of its task is free.              *)
LEMMA TakeKeeps ==
  ASSUME PoolInv, NEW u \in Urls, NEW outcome \in Outcomes, Take(u, outcome),
         Brake(Host(u)) \/ UNCHANGED throttleVars,
         UNCHANGED queue \/ \E h \in Foreign : queue' = [queue EXCEPT ![h] = <<>>]
  PROVE  PoolInv'
<1>1. /\ PoolTypes /\ GateInv /\ QueueInv /\ SlotInv /\ PauseInv /\ Host(u) \in Hosts
      /\ stage \in [Urls -> Stages] /\ slots \in [Hosts -> Int] /\ left \in [Urls -> Nat]
  BY Homes DEF PoolInv, PoolTypes
<1>2. /\ stage[u] = outcome /\ stage' = [stage EXCEPT ![u] = "joined"]
      /\ slots' = [slots EXCEPT ![Host(u)] = @ - 1] /\ UNCHANGED <<slow, frontier, left, permit>>
  BY DEF Take, TaskGoes, FreeSlot, gateVars
<1>3. ThrottleTypeOK' /\ \A g \in Hosts : (ceiling[g] = 1 => ceiling'[g] = 1) /\ pause'[g] >= pause[g]
  BY <1>1, BrakeKeeps DEF PoolTypes
<1>4. QueueInv' /\ queue' \in [Foreign -> Seq(Probes)]
  BY <1>1, <1>3, QueueKept, Homes
<1>5. PoolTypes'
  BY <1>1, <1>2, <1>3, <1>4 DEF PoolTypes, Stages
<1>6. GateInv'
  BY <1>1, <1>2 DEF GateInv
<1>7. PauseInv'
  <2> SUFFICES ASSUME NEW t \in Pages, stage'[t] = "obey"
               PROVE  left'[t] <= pause'[Host(t)]
    BY DEF PauseInv
  <2>1. t \in Urls /\ Host(t) \in Hosts /\ stage[t] = "obey" /\ left'[t] = left[t] /\ left[t] \in Nat
    BY <1>1, <1>2, Homes
  <2>2. left[t] <= pause[Host(t)] /\ pause[Host(t)] \in Nat /\ pause'[Host(t)] \in Nat
    BY <1>1, <1>3, <2>1, ThrottleAssumption DEF PauseInv, PoolTypes, ThrottleTypeOK
  <2> QED
    BY <1>3, <2>1, <2>2
<1>8. SlotInv'
  <2>1. Flying(u) /\ ~Flying(u)' /\ \A w \in Urls : w # u => (Flying(w)' <=> Flying(w))
    BY <1>1, <1>2 DEF Flying, Outcomes
  <2> SUFFICES ASSUME NEW h \in Foreign
               PROVE  /\ slots'[h] \in {0, 1}
                      /\ slots'[h] = 0 => \A w \in Urls : Host(w) = h => ~Flying(w)'
                      /\ \A w, t \in Urls : Flying(w)' /\ Flying(t)' /\ Host(w) = h /\ Host(t) = h => w = t
    BY DEF SlotInv
  <2>2. CASE h = Host(u)
    <3>1. slots[h] = 1
      BY <1>1, <2>1, <2>2 DEF SlotInv
    <3>2. slots'[h] = 0
      BY <1>1, <1>2, <2>2, <3>1
    <3>3. \A w \in Urls : Host(w) = h => ~Flying(w)'
      BY <1>1, <2>1, <2>2 DEF SlotInv
    <3> QED
      BY <3>2, <3>3
  <2>3. CASE h # Host(u)
    <3>1. slots'[h] = slots[h]
      BY <1>1, <1>2, <2>3, Homes
    <3> QED
      BY <1>1, <2>1, <2>3, <3>1 DEF SlotInv
  <2> QED
    BY <2>2, <2>3
<1> QED
  BY <1>4, <1>5, <1>6, <1>7, <1>8 DEF PoolInv

(* What a page leads to goes in the frontier, or in the queue of its host.  *)
LEMMA RegisterKeeps == PoolInv /\ Register => PoolInv'
<1> SUFFICES ASSUME PoolInv, Register
             PROVE  PoolInv'
  OBVIOUS
<1>1. /\ PoolTypes /\ GateInv /\ QueueInv /\ SlotInv /\ PauseInv /\ frontier \in Seq(Pages)
      /\ stage \in [Urls -> Stages] /\ left \in [Urls -> Nat] /\ queue \in [Foreign -> Seq(Probes)]
      /\ ThrottleTypeOK
  BY DEF PoolInv, PoolTypes
<1>2. UNCHANGED <<slow, slots, stage, left, permit>>
  BY DEF Register, taskVars, gateVars
<1>3. frontier' \in Seq(Pages)
  <2>1. CASE UNCHANGED frontier
    BY <1>1, <2>1
  <2>2. ASSUME NEW u \in Pages, NEW i \in 1..(Len(frontier) + 1), frontier' = InsertAt(frontier, i, u)
        PROVE  frontier' \in Seq(Pages)
    <3>1. SubSeq(frontier, 1, i - 1) \in Seq(Pages) /\ SubSeq(frontier, i, Len(frontier)) \in Seq(Pages)
      BY <1>1, <2>2
    <3> QED
      BY <2>2, <3>1 DEF InsertAt
  <2> QED
    BY <2>1, <2>2 DEF Register
<1>4. CASE UNCHANGED queueAndThrottle
  <2>1. UNCHANGED throttleVars /\ UNCHANGED queue
    BY <1>4 DEF queueAndThrottle, queueVars
  <2>2. ThrottleTypeOK' /\ ceiling' = ceiling /\ pause' = pause
    BY <1>1, <2>1 DEF throttleVars, ThrottleTypeOK
  <2> QED
    BY <1>1, <1>2, <1>3, <2>1, <2>2
    DEF PoolInv, PoolTypes, GateInv, QueueInv, SlotInv, PauseInv, Flying
<1>5. ASSUME NEW u \in Probes, ForceSerial(ProbeHost(u)), Push(u) \/ UNCHANGED queueVars
      PROVE  PoolInv'
  <2> DEFINE h == ProbeHost(u)
  <2>1. h \in Foreign /\ h \in Hosts /\ Brake(h)
    BY <1>5, Homes DEF Brake
  <2>2. ThrottleTypeOK' /\ pause' = pause /\ ceiling'[h] = 1 /\ \A g \in Hosts : ceiling[g] = 1 => ceiling'[g] = 1
    BY <1>1, <1>5, <2>1, BrakeKeeps DEF ForceSerial, ThrottleTypeOK, MinConcurrency
  <2>3. QueueInv' /\ queue' \in [Foreign -> Seq(Probes)]
    <3>1. CASE UNCHANGED queueVars
      BY <1>1, <2>2, <3>1, QueueKept, Homes DEF queueVars
    <3>2. CASE Push(u)
      <4>1. queue' = [queue EXCEPT ![h] = Append(@, u)]
        BY <3>2 DEF Push
      <4>2. queue' \in [Foreign -> Seq(Probes)] /\ \A g \in Foreign \ {h} : queue'[g] = queue[g]
        BY <1>1, <2>1, <4>1
      <4>3. \A i \in 1..Len(queue'[h]) : ProbeHost(queue'[h][i]) = h
        <5>1. queue[h] \in Seq(Probes) /\ queue'[h] = Append(queue[h], u)
          BY <1>1, <2>1, <4>1
        <5>2. \A i \in 1..Len(queue[h]) : ProbeHost(queue[h][i]) = h
          BY <1>1, <2>1 DEF QueueInv
        <5> QED
          BY <5>1, <5>2
      <4> QED
        BY <1>1, <2>1, <2>2, <4>2, <4>3, Homes DEF QueueInv
    <3> QED
      BY <1>5, <3>1, <3>2
  <2> QED
    BY <1>1, <1>2, <1>3, <2>2, <2>3 DEF PoolInv, PoolTypes, GateInv, SlotInv, PauseInv, Flying
<1> QED
  BY <1>4, <1>5 DEF Register, queueAndThrottle

(* Time goes by for the pauses and for those who sleep through them.        *)
LEMMA TickKeeps == PoolInv /\ Tick => PoolInv'
<1> SUFFICES ASSUME PoolInv, Tick
             PROVE  PoolInv'
  OBVIOUS
<1>1. /\ PoolTypes /\ GateInv /\ QueueInv /\ SlotInv /\ PauseInv /\ ThrottleTypeOK /\ left \in [Urls -> Nat]
  BY DEF PoolInv, PoolTypes
<1>2. /\ UNCHANGED <<slow, frontier, slots, stage, permit, queue, ceiling, limit, overloaded, good>>
      /\ left' = [u \in Urls |-> IF left[u] > 0 THEN left[u] - 1 ELSE 0]
      /\ pause' = [h \in Hosts |-> IF pause[h] > 0 THEN pause[h] - 1 ELSE 0]
  BY DEF Tick, PauseTicks, loopVars, queueVars
<1>3. ThrottleTypeOK'
  BY <1>1, <1>2, ThrottleAssumption DEF ThrottleTypeOK
<1>4. PoolTypes'
  <2>1. left' \in [Urls -> Nat]
    BY <1>1, <1>2
  <2> QED
    BY <1>1, <1>2, <1>3, <2>1 DEF PoolTypes
<1>5. GateInv' /\ QueueInv' /\ SlotInv'
  BY <1>1, <1>2 DEF GateInv, QueueInv, SlotInv, Flying
<1>6. PauseInv'
  BY <1>1, <1>2, Homes, ThrottleAssumption DEF PauseInv, ThrottleTypeOK
<1> QED
  BY <1>4, <1>5, <1>6 DEF PoolInv

(* Every step of the loop, of a task or of the clock keeps the invariant.   *)
LEMMA PoolStep == PoolInv /\ [Next]_vars => PoolInv'
<1> SUFFICES ASSUME PoolInv, [Next]_vars
             PROVE  PoolInv'
  OBVIOUS
<1>1. ASSUME NEW u \in Pages, JoinPage(u)
      PROVE  PoolInv'
  <2>1. PICK outcome \in Outcomes : Take(u, outcome) /\ (Brake(Host(u)) \/ UNCHANGED throttleVars)
    BY <1>1, Homes DEF JoinPage, Outcomes, Brake
  <2> QED
    BY <1>1, <2>1, TakeKeeps, Homes DEF JoinPage, queueVars
<1>2. ASSUME NEW u \in Probes, JoinProbe(u)
      PROVE  PoolInv'
  <2>1. u \in Urls /\ Host(u) = ProbeHost(u) /\ ProbeHost(u) \in Foreign
    BY Homes
  <2>2. PICK outcome \in Outcomes : Take(u, outcome) /\ (Brake(ProbeHost(u)) \/ UNCHANGED throttleVars)
    BY <1>2 DEF JoinProbe, Outcomes, Brake
  <2>3. UNCHANGED queue \/ queue' = [queue EXCEPT ![ProbeHost(u)] = <<>>]
    BY <1>2 DEF JoinProbe, ProbeAnswered, ProbeOverloaded, ProbeFailed, Close, queueVars
  <2> QED
    BY <2>1, <2>2, <2>3, TakeKeeps
<1>3. CASE StopFilling \/ EndRegister \/ UNCHANGED vars
  <2>1. /\ UNCHANGED <<slow, frontier, slots, stage, left, permit, queue>>
        /\ UNCHANGED throttleVars
    BY <1>3 DEF StopFilling, EndRegister, vars, queueAndThrottle, queueVars, loopVars, taskVars, gateVars
  <2>2. ThrottleTypeOK' /\ ceiling' = ceiling /\ pause' = pause
    BY <2>1 DEF throttleVars, ThrottleTypeOK, PoolInv, PoolTypes
  <2> QED
    BY <2>1, <2>2 DEF PoolInv, PoolTypes, GateInv, QueueInv, SlotInv, PauseInv, Flying
<1> QED
  BY <1>1, <1>2, <1>3, DispatchKeeps, DispatchProbeKeeps, TaskKeeps, RegisterKeeps, TickKeeps
  DEF Next, LoopStep, Done

(* So it holds in every state of the pool.                                  *)
LEMMA PoolAlways == Spec => []PoolInv
BY PoolInit, PoolStep, PTL DEF Spec

(* A slow host has one request, that of the task with its permit; a foreign *)
(* host one task.                                                           *)
LEMMA AtMostOne == PoolInv => SerialHosts
<1> SUFFICES ASSUME PoolInv, NEW h \in slow \cup Foreign
             PROVE  Cardinality(Asking(h)) <= 1
  BY DEF SerialHosts
<1>1. \A u, t \in Asking(h) : u = t
  BY DEF PoolInv, GateInv, SlotInv, Asking, Flying
<1>2. CASE Asking(h) = {}
  BY <1>2, FS_EmptySet
<1>3. CASE Asking(h) # {}
  <2>1. PICK u : Asking(h) = {u}
    BY <1>1, <1>3
  <2> QED
    BY <2>1, FS_Singleton
<1> QED
  BY <1>2, <1>3

(* However many tasks of a host there are, whatever they are told and       *)
(* however they end, a host with a Crawl-delay and a foreign host get their *)
(* requests one at a time.                                                  *)
THEOREM AlwaysSerial == Spec => []SerialHosts
BY PoolAlways, AtMostOne, PTL

(* A page is only dispatched to a host without a pause, which no task of it *)
(* sleeps longer than: nobody is disturbed before its Retry-After is over.  *)
THEOREM RetryAfterAlwaysObeyed == Spec => RetryAfterObeyed
<1>1. PoolInv /\ [Next]_vars =>
        [\A u, t \in Pages :
           stage[u] = "none" /\ stage'[u] = "robots" /\ Host(t) = Host(u)
             => ~(stage[t] = "obey" /\ left[t] > 0)]_vars
  <2> SUFFICES ASSUME PoolInv, Next, NEW u \in Pages, NEW t \in Pages,
                      stage[u] = "none", stage'[u] = "robots", Host(t) = Host(u), stage[t] = "obey"
               PROVE  ~(left[t] > 0)
    OBVIOUS
  <2>1. /\ u \in Urls /\ stage \in [Urls -> Stages] /\ left \in [Urls -> Nat] /\ Host(u) = PageHost(u)
        /\ t \in Urls /\ pause \in [Hosts -> 0..MaxWait] /\ Host(u) \in Hosts
    BY Homes DEF PoolInv, PoolTypes, ThrottleTypeOK
  <2>2. ASSUME UNCHANGED stage \/ \E w \in Urls, s \in Stages \ {"robots"} : stage' = [stage EXCEPT ![w] = s]
        PROVE  FALSE
    BY <2>1, <2>2
  <2>3. ASSUME NEW w \in Urls, TaskStep(w)
        PROVE  \E s \in Stages \ {"robots"} : stage' = [stage EXCEPT ![w] = s]
    BY <2>3 DEF TaskStep, ReadRobots, PassGate, BackOff, ObeyRetryAfter, Retry, EndTask, TaskGoes, Stages, Outcomes
  <2>4. ASSUME NEW w \in Urls, JoinPage(w) \/ JoinProbe(w) \/ DispatchProbe(w)
        PROVE  \E s \in Stages \ {"robots"} : stage' = [stage EXCEPT ![w] = s]
    BY <2>4 DEF JoinPage, JoinProbe, Take, TaskGoes, DispatchProbe, Spawn, Stages
  <2>5. ASSUME StopFilling \/ Register \/ EndRegister \/ Tick \/ Done
        PROVE  UNCHANGED stage
    BY <2>5 DEF StopFilling, Register, EndRegister, Tick, Done, vars, taskVars
  <2>6. Dispatch
    BY <2>2, <2>3, <2>4, <2>5, Homes DEF Next, LoopStep
  <2>7. PICK i \in Scanned : PageReady(i) /\ Spawn(frontier[i], "robots")
    BY <2>6 DEF Dispatch
  <2>8. u = frontier[i]
    BY <2>1, <2>7 DEF Spawn
  <2>9. pause[Host(u)] = 0
    BY <2>1, <2>7, <2>8 DEF PageReady, HasRoom
  <2> QED
    BY <2>1, <2>9, ThrottleAssumption DEF PoolInv, PauseInv
<1> QED
  BY <1>1, PoolAlways, PTL DEF Spec, RetryAfterObeyed

-----------------------------------------------------------------------------
(* Sequences without repetitions. *)

(* What they are, index by index.                                           *)
LEMMA Places ==
  ASSUME NEW S, NEW s \in Seq(S)
  PROVE  Range(s) = {s[i] : i \in 1..Len(s)}
<1>1. DOMAIN s = 1..Len(s)
  OBVIOUS
<1> QED
  BY <1>1 DEF Range

LEMMA Injective ==
  ASSUME NEW S, NEW s \in Seq(S), NEW n, n = Len(s)
  PROVE  IsInjective(s) <=> \A i, j \in 1..n : s[i] = s[j] => i = j
<1>1. DOMAIN s = 1..n
  OBVIOUS
<1> QED
  BY <1>1 DEF IsInjective

LEMMA NoPlaces ==
  ASSUME NEW S, NEW s \in Seq(S)
  PROVE  s = <<>> <=> Range(s) = {}
<1>1. ASSUME s # <<>>
      PROVE  Range(s) # {}
  <2>1. 1 \in DOMAIN s
    BY <1>1
  <2> QED
    BY <2>1 DEF Range
<1> QED
  BY <1>1 DEF Range

(* Two of them, one after the other, with nothing in common.                *)
LEMMA Joined ==
  ASSUME NEW S, NEW a \in Seq(S), NEW b \in Seq(S), IsInjective(a), IsInjective(b),
         Range(a) \cap Range(b) = {}
  PROVE  a \o b \in Seq(S) /\ IsInjective(a \o b) /\ Range(a \o b) = Range(a) \cup Range(b)
<1>1. PICK p \in Nat, m \in Nat, q \in Nat : p = Len(a) /\ q = Len(b) /\ m = p + q
  OBVIOUS
<1>2. (\A i, j \in 1..p : a[i] = a[j] => i = j) /\ Range(a) = {a[i] : i \in 1..p}
  BY <1>1, Places, Injective
<1>3. (\A i, j \in 1..q : b[i] = b[j] => i = j) /\ Range(b) = {b[i] : i \in 1..q}
  BY <1>1, Places, Injective
<1> DEFINE c == a \o b
<1>4. c \in Seq(S) /\ m = Len(c)
  BY <1>1, ConcatProperties
<1>5. /\ \A k \in 1..p : c[k] = a[k] /\ k \in 1..m
      /\ \A k \in 1..q : c[k + p] = b[k] /\ k + p \in 1..m
  BY <1>1
<1> HIDE DEF c
<1>6. \A k \in 1..m : k \in 1..p \/ \E l \in 1..q : k = l + p
  <2> SUFFICES ASSUME NEW k \in 1..m, k \notin 1..p
               PROVE  \E l \in 1..q : k = l + p
    OBVIOUS
  <2>1. k - p \in 1..q /\ k = (k - p) + p
    BY <1>1
  <2> QED
    BY <2>1
<1>7. \A i, j \in 1..m : c[i] = c[j] => i = j
  <2> SUFFICES ASSUME NEW i \in 1..m, NEW j \in 1..m, c[i] = c[j]
               PROVE  i = j
    OBVIOUS
  <2>1. CASE i \in 1..p /\ j \in 1..p
    BY <1>2, <1>5, <2>1
  <2>2. CASE i \notin 1..p /\ j \notin 1..p
    <3>1. PICK k \in 1..q, l \in 1..q : i = k + p /\ j = l + p
      BY <1>6, <2>2
    <3>2. c[i] = b[k] /\ c[j] = b[l]
      BY <1>5, <3>1
    <3> QED
      BY <1>3, <3>1, <3>2
  <2>3. ASSUME NEW k \in 1..p, NEW l \in 1..m, l \notin 1..p
        PROVE  c[k] # c[l]
    <3>1. c[l] \in Range(b)
      <4>1. PICK h \in 1..q : l = h + p
        BY <1>6, <2>3
      <4>2. c[l] = b[h]
        BY <1>5, <4>1
      <4> QED
        BY <1>3, <4>2
    <3>2. c[k] \in Range(a)
      BY <1>2, <1>5
    <3> QED
      BY <3>1, <3>2
  <2> QED
    BY <2>1, <2>2, <2>3
<1>8. {c[k] : k \in 1..m} = Range(a) \cup Range(b)
  <2>1. ASSUME NEW k \in 1..m
        PROVE  c[k] \in Range(a) \cup Range(b)
    <3>1. CASE k \in 1..p
      BY <1>2, <1>5, <3>1
    <3>2. ASSUME NEW j \in 1..q, k = j + p
          PROVE  c[k] \in Range(b)
      <4>1. c[k] = b[j]
        BY <1>5, <3>2
      <4> QED
        BY <1>3, <4>1
    <3> QED
      BY <1>6, <3>1, <3>2
  <2>2. \A x \in Range(a) : \E k \in 1..m : x = c[k]
    BY <1>2, <1>5
  <2>3. \A x \in Range(b) : \E k \in 1..m : x = c[k]
    <3> SUFFICES ASSUME NEW x \in Range(b)
                 PROVE  \E k \in 1..m : x = c[k]
      OBVIOUS
    <3>1. PICK k \in 1..q : x = b[k]
      BY <1>3
    <3>2. c[k + p] = b[k] /\ k + p \in 1..m
      BY <1>5
    <3> QED
      BY <3>1, <3>2
  <2> QED
    BY <2>1, <2>2, <2>3
<1>9. IsInjective(c)
  BY <1>4, <1>7, Injective
<1>10. Range(c) = Range(a) \cup Range(b)
  BY <1>4, <1>8, Places
<1> QED
  BY <1>4, <1>9, <1>10 DEF c

(* A piece of one, from p to q.                                             *)
IsPiece(S, s, p, q, r) == r \in Seq(S) /\ IsInjective(r) /\ Range(r) = {s[i] : i \in p..q}

LEMMA Piece ==
  ASSUME NEW S, NEW s, s \in Seq(S), IsInjective(s), NEW n, n = Len(s),
         NEW p, NEW q, p \in 1..(n + 1), q \in 0..n, p <= q + 1, NEW r, r = SubSeq(s, p, q)
  PROVE  IsPiece(S, s, p, q, r)
<1>1. n \in Nat /\ p \in Nat /\ q \in Nat /\ p..q \subseteq 1..n
  OBVIOUS
<1>2. \A i, j \in 1..n : s[i] = s[j] => i = j
  BY Injective
<1>3. PICK m \in Nat : m = q + 1 - p
  BY <1>1
<1>4. PICK c : c = SubSeq(s, p, q)
  OBVIOUS
<1>5. c \in Seq(S) /\ m = Len(c) /\ \A k \in 1..m : c[k] = s[k + p - 1]
  BY <1>1, <1>3, <1>4
<1>6. \A k \in 1..m : k + p - 1 \in p..q
  BY <1>1, <1>3
<1>7. \A i \in p..q : i + 1 - p \in 1..m /\ (i + 1 - p) + p - 1 = i
  BY <1>1, <1>3
<1>8. \A i, j \in 1..m : c[i] = c[j] => i = j
  <2> SUFFICES ASSUME NEW i \in 1..m, NEW j \in 1..m, c[i] = c[j]
               PROVE  i = j
    OBVIOUS
  <2>1. c[i] = s[i + p - 1] /\ c[j] = s[j + p - 1]
    BY <1>5
  <2>2. i + p - 1 \in 1..n /\ j + p - 1 \in 1..n
    BY <1>1, <1>6
  <2>3. i + p - 1 = j + p - 1
    BY <1>2, <2>1, <2>2
  <2> QED
    BY <1>1, <2>3
<1>9. {c[k] : k \in 1..m} = {s[i] : i \in p..q}
  <2>1. \A k \in 1..m : c[k] \in {s[i] : i \in p..q}
    BY <1>5, <1>6
  <2>2. ASSUME NEW i \in p..q
        PROVE  s[i] \in {c[k] : k \in 1..m}
    <3>1. c[i + 1 - p] = s[i] /\ i + 1 - p \in 1..m
      BY <1>5, <1>7
    <3> QED
      BY <3>1
  <2> QED
    BY <2>1, <2>2
<1>10. IsInjective(c)
  BY <1>5, <1>8, Injective
<1>11. Range(c) = {s[i] : i \in p..q}
  <2>1. Range(c) = {c[k] : k \in 1..Len(c)}
    BY <1>5, Places
  <2> QED
    BY <1>5, <1>9, <2>1
<1> QED
  BY <1>4, <1>5, <1>10, <1>11 DEF IsPiece

(* A single element.                                                        *)
LEMMA Single ==
  ASSUME NEW S, NEW e \in S
  PROVE  <<e>> \in Seq(S) /\ IsInjective(<<e>>) /\ Range(<<e>>) = {e}
<1>1. <<e>> \in Seq(S) /\ Len(<<e>>) = 1 /\ DOMAIN <<e>> = 1..1 /\ <<e>>[1] = e
  OBVIOUS
<1> QED
  BY <1>1 DEF IsInjective, Range

(* Before and after one of its places.                                      *)
AreHalves(S, s, i, a, b) ==
    /\ a \in Seq(S) /\ IsInjective(a) /\ b \in Seq(S) /\ IsInjective(b)
    /\ Range(a) \cap Range(b) = {} /\ Range(a) \cup Range(b) = Range(s) \ {s[i]}

LEMMA Halves ==
  ASSUME NEW S, NEW s, s \in Seq(S), IsInjective(s), NEW n, n = Len(s), NEW i, i \in 1..n,
         NEW a, a = SubSeq(s, 1, i - 1), NEW b, b = SubSeq(s, i + 1, n)
  PROVE  AreHalves(S, s, i, a, b)
<1>1. n \in Nat /\ Range(s) = {s[j] : j \in 1..n} /\ \A j, k \in 1..n : s[j] = s[k] => j = k
  <2>1. n \in Nat /\ Range(s) = {s[j] : j \in 1..n}
    BY Places
  <2> QED
    BY <2>1, Injective
<1>2. a \in Seq(S) /\ IsInjective(a) /\ Range(a) = {s[j] : j \in 1..(i - 1)}
  <2>1. 1 \in 1..(n + 1) /\ i - 1 \in 0..n /\ 1 <= (i - 1) + 1
    BY <1>1
  <2>2. IsPiece(S, s, 1, i - 1, a)
    BY <2>1, Piece
  <2> QED
    BY <2>2 DEF IsPiece
<1>3. b \in Seq(S) /\ IsInjective(b) /\ Range(b) = {s[j] : j \in (i + 1)..n}
  <2>1. i + 1 \in 1..(n + 1) /\ n \in 0..n /\ i + 1 <= n + 1
    BY <1>1
  <2>2. IsPiece(S, s, i + 1, n, b)
    BY <2>1, Piece
  <2> QED
    BY <2>2 DEF IsPiece
<1>4. /\ 1..(i - 1) \subseteq 1..n /\ (i + 1)..n \subseteq 1..n
      /\ (1..(i - 1)) \cap ((i + 1)..n) = {}
      /\ i \notin 1..(i - 1) /\ i \notin (i + 1)..n
      /\ \A j \in 1..n : j = i \/ j \in 1..(i - 1) \/ j \in (i + 1)..n
  BY <1>1
<1>5. Range(a) \cap Range(b) = {}
  BY <1>1, <1>2, <1>3, <1>4
<1>6. Range(a) \cup Range(b) = Range(s) \ {s[i]}
  BY <1>1, <1>2, <1>3, <1>4
<1> QED
  BY <1>2, <1>3, <1>5, <1>6 DEF AreHalves

(* Without one of its places.                                               *)
LEMMA TakenOut ==
  ASSUME NEW S, NEW s \in Seq(S), IsInjective(s), NEW i \in 1..Len(s)
  PROVE  /\ RemoveAt(s, i) \in Seq(S) /\ IsInjective(RemoveAt(s, i))
         /\ Range(RemoveAt(s, i)) = Range(s) \ {s[i]}
<1>1. PICK a, b : a = SubSeq(s, 1, i - 1) /\ b = SubSeq(s, i + 1, Len(s))
  OBVIOUS
<1>2. AreHalves(S, s, i, a, b)
  BY <1>1, Halves
<1>3. a \o b \in Seq(S) /\ IsInjective(a \o b) /\ Range(a \o b) = Range(a) \cup Range(b)
  BY <1>2, Joined DEF AreHalves
<1> QED
  BY <1>1, <1>2, <1>3 DEF RemoveAt, AreHalves

(* Turned, so that what came before the place that is left out comes last.  *)
LEMMA Turned ==
  ASSUME NEW S, NEW s \in Seq(S), IsInjective(s), NEW i \in 1..Len(s),
         NEW r, r = SubSeq(s, i + 1, Len(s)) \o SubSeq(s, 1, i - 1)
  PROVE  r \in Seq(S) /\ IsInjective(r) /\ Range(r) = Range(s) \ {s[i]}
<1>1. PICK a, b : a = SubSeq(s, 1, i - 1) /\ b = SubSeq(s, i + 1, Len(s))
  OBVIOUS
<1>2. AreHalves(S, s, i, a, b)
  BY <1>1, Halves
<1>3. b \o a \in Seq(S) /\ IsInjective(b \o a) /\ Range(b \o a) = Range(b) \cup Range(a)
  BY <1>2, Joined DEF AreHalves
<1> QED
  BY <1>1, <1>2, <1>3 DEF AreHalves

(* Without its first.                                                       *)
LEMMA FirstGone ==
  ASSUME NEW S, NEW s \in Seq(S), IsInjective(s), s # <<>>
  PROVE  Tail(s) \in Seq(S) /\ IsInjective(Tail(s)) /\ Range(Tail(s)) = Range(s) \ {Head(s)}
<1>1. PICK n \in Nat : n = Len(s)
  OBVIOUS
<1>2. 1 \in 1..n /\ Head(s) = s[1] /\ Tail(s) = SubSeq(s, 2, n)
  <2>1. 1 \in 1..n /\ Head(s) = s[1]
    BY <1>1
  <2> QED
    BY <1>1, <2>1, TailIsSubSeq
<1>3. PICK b : b = SubSeq(s, 2, n)
  OBVIOUS
<1>4. PICK a : a = SubSeq(s, 1, 0)
  OBVIOUS
<1>5. 1 + 1 = 2 /\ 1 - 1 = 0
  OBVIOUS
<1>6. b \in Seq(S) /\ IsInjective(b) /\ Range(a) \cup Range(b) = Range(s) \ {s[1]}
  <2>1. AreHalves(S, s, 1, a, b)
    BY <1>1, <1>2, <1>3, <1>4, <1>5, Halves
  <2> QED
    BY <2>1 DEF AreHalves
<1>7. Range(a) = {}
  <2>1. a = <<>>
    BY <1>4, SubSeqEmpty
  <2> QED
    BY <2>1 DEF Range
<1> QED
  BY <1>2, <1>3, <1>6, <1>7

(* With one more at the end.                                                *)
LEMMA PutLast ==
  ASSUME NEW S, NEW s \in Seq(S), IsInjective(s), NEW e \in S, e \notin Range(s)
  PROVE  /\ s \o <<e>> \in Seq(S) /\ IsInjective(s \o <<e>>)
         /\ Range(s \o <<e>>) = Range(s) \cup {e}
<1>1. PICK b : b = <<e>>
  OBVIOUS
<1>2. b \in Seq(S) /\ IsInjective(b) /\ Range(b) = {e}
  BY <1>1, Single
<1>3. Range(s) \cap Range(b) = {}
  BY <1>2
<1>4. s \o b \in Seq(S) /\ IsInjective(s \o b) /\ Range(s \o b) = Range(s) \cup Range(b)
  BY <1>2, <1>3, Joined
<1> QED
  BY <1>1, <1>2, <1>4

(* With one more place, anywhere, for what it does not have.                *)
LEMMA PutIn ==
  ASSUME NEW S, NEW s \in Seq(S), IsInjective(s), NEW e \in S, e \notin Range(s), NEW i \in 1..(Len(s) + 1)
  PROVE  /\ InsertAt(s, i, e) \in Seq(S) /\ IsInjective(InsertAt(s, i, e))
         /\ Range(InsertAt(s, i, e)) = Range(s) \cup {e}
<1>1. PICK n \in Nat : n = Len(s)
  OBVIOUS
<1>2. Range(s) = {s[j] : j \in 1..n} /\ \A j, k \in 1..n : s[j] = s[k] => j = k
  BY <1>1, Places, Injective
<1>3. PICK a, b : a = SubSeq(s, 1, i - 1) /\ b = SubSeq(s, i, n)
  OBVIOUS
<1>4. a \in Seq(S) /\ IsInjective(a) /\ Range(a) = {s[j] : j \in 1..(i - 1)}
  <2>1. 1 \in 1..(n + 1) /\ i - 1 \in 0..n /\ 1 <= (i - 1) + 1
    BY <1>1
  <2>2. IsPiece(S, s, 1, i - 1, a)
    BY <1>1, <1>3, <2>1, Piece
  <2> QED
    BY <2>2 DEF IsPiece
<1>5. b \in Seq(S) /\ IsInjective(b) /\ Range(b) = {s[j] : j \in i..n}
  <2>1. i \in 1..(n + 1) /\ n \in 0..n /\ i <= n + 1
    BY <1>1
  <2>2. IsPiece(S, s, i, n, b)
    BY <1>1, <1>3, <2>1, Piece
  <2> QED
    BY <2>2 DEF IsPiece
<1>6. /\ 1..(i - 1) \subseteq 1..n /\ i..n \subseteq 1..n
      /\ (1..(i - 1)) \cap (i..n) = {}
      /\ \A j \in 1..n : j \in 1..(i - 1) \/ j \in i..n
  BY <1>1
<1>7. Range(a) \cap Range(b) = {} /\ Range(a) \cup Range(b) = Range(s)
  BY <1>2, <1>4, <1>5, <1>6
<1>8. PICK c : c = a \o <<e>>
  OBVIOUS
<1>9. c \in Seq(S) /\ IsInjective(c) /\ Range(c) = Range(a) \cup {e}
  <2>1. e \notin Range(a)
    BY <1>7
  <2> QED
    BY <1>4, <1>8, <2>1, PutLast
<1>10. c \o b \in Seq(S) /\ IsInjective(c \o b) /\ Range(c \o b) = Range(c) \cup Range(b)
  <2>1. Range(c) \cap Range(b) = {}
    BY <1>7, <1>9
  <2>2. b \in Seq(S) /\ IsInjective(b) /\ c \in Seq(S) /\ IsInjective(c)
    BY <1>5, <1>9
  <2> QED
    BY <2>1, <2>2, Joined
<1>11. InsertAt(s, i, e) = c \o b
  BY <1>1, <1>3, <1>8 DEF InsertAt
<1> QED
  BY <1>7, <1>9, <1>10, <1>11

-----------------------------------------------------------------------------
(* An empty pool means that there is nothing left. *)

(* What starts is what waited, and it starts for the first time.            *)
LEMMA StageSpawns ==
  ASSUME PoolInv, StrandedInv
  PROVE  /\ Dispatch => \E u \in Pages : Fresh(u) /\ Spawn(u, "robots")
         /\ \A u \in Probes : DispatchProbe(u) => Fresh(u) /\ Spawn(u, "request")
<1>1. ASSUME Dispatch
      PROVE  \E u \in Pages : Fresh(u) /\ Spawn(u, "robots")
  <2>1. frontier \in Seq(Pages) /\ Len(frontier) \in Nat /\ MaxScan \in Nat
    BY SchedulerAssumption DEF PoolInv, PoolTypes
  <2>2. PICK i \in Scanned : Spawn(frontier[i], "robots")
    BY <1>1 DEF Dispatch
  <2>3. i \in 1..Len(frontier)
    BY <2>1, <2>2 DEF Scanned
  <2>4. frontier[i] \in Pages /\ Fresh(frontier[i])
    BY <2>1, <2>3 DEF StrandedInv, WaitsOnce, Range
  <2> QED
    BY <2>2, <2>4
<1>2. ASSUME NEW u \in Probes, DispatchProbe(u)
      PROVE  Fresh(u) /\ Spawn(u, "request")
  <2>1. PICK h \in ProbeReady : queue[h] # <<>> /\ u = Head(queue[h])
    BY <1>2 DEF DispatchProbe, NextProbe
  <2>2. h \in Foreign /\ queue[h] \in Seq(Probes)
    BY <2>1 DEF ProbeReady, PoolInv, PoolTypes
  <2>3. u = queue[h][1] /\ 1 \in DOMAIN queue[h]
    BY <2>1, <2>2
  <2> QED
    BY <1>2, <2>2, <2>3 DEF DispatchProbe, StrandedInv, WaitsOnce, Range
<1> QED
  BY <1>1, <1>2

(* What a step does to the tasks and to their slots: nothing, a task goes   *)
(* on, one starts for what waited, or the loop takes its answer.            *)
LEMMA StageSteps ==
  ASSUME PoolInv, StrandedInv, [Next]_vars
  PROVE  \/ UNCHANGED <<stage, slots>>
         \/ \E u \in Urls, s \in Stages \ {"none", "joined"} :
              Flying(u) /\ stage' = [stage EXCEPT ![u] = s] /\ UNCHANGED slots
         \/ \E u \in Urls, s \in {"robots", "request"} : Fresh(u) /\ Spawn(u, s)
         \/ \E u \in Urls, outcome \in Outcomes : Take(u, outcome)
<1>1. ASSUME NEW u \in Urls, TaskStep(u)
      PROVE  /\ Flying(u) /\ UNCHANGED slots
             /\ \E s \in Stages \ {"none", "joined"} : stage' = [stage EXCEPT ![u] = s]
  BY <1>1 DEF TaskStep, ReadRobots, PassGate, BackOff, ObeyRetryAfter, Retry, EndTask, TaskGoes,
              Stages, Outcomes, Flying, loopVars
<1>2. ASSUME Dispatch \/ \E u \in Probes : DispatchProbe(u)
      PROVE  \E u \in Urls, s \in {"robots", "request"} : Fresh(u) /\ Spawn(u, s)
  BY <1>2, StageSpawns, Homes
<1>4. ASSUME NEW u \in Pages, JoinPage(u)
      PROVE  \E outcome \in Outcomes : Take(u, outcome)
  BY <1>4 DEF JoinPage, Outcomes
<1>5. ASSUME NEW u \in Probes, JoinProbe(u)
      PROVE  \E outcome \in Outcomes : Take(u, outcome)
  BY <1>5 DEF JoinProbe, Outcomes
<1>6. ASSUME StopFilling \/ Register \/ EndRegister \/ Tick \/ UNCHANGED vars
      PROVE  UNCHANGED <<stage, slots>>
  BY <1>6 DEF StopFilling, Register, EndRegister, Tick, loopVars, taskVars, vars
<1> QED
  BY <1>1, <1>2, <1>4, <1>5, <1>6, Homes DEF Next, LoopStep, Done

(* And to what waits for the foreign hosts.                                 *)
LEMMA QueueSteps ==
  ASSUME [Next]_vars
  PROVE  \/ UNCHANGED <<queue, round, pending>>
         \/ \E u \in Probes : Push(u) \/ NextProbe(u, ProbeReady)
         \/ \E h \in Foreign, reason \in Closings : Close(h, reason)
<1>1. ASSUME NEW u \in Urls, TaskStep(u)
      PROVE  UNCHANGED <<queue, round, pending>>
  BY <1>1 DEF TaskStep, ReadRobots, PassGate, BackOff, ObeyRetryAfter, Retry, EndTask,
              queueAndThrottle, queueVars
<1>2. ASSUME NEW u \in Pages, JoinPage(u)
      PROVE  UNCHANGED <<queue, round, pending>>
  BY <1>2 DEF JoinPage, queueVars
<1>3. ASSUME NEW u \in Probes, JoinProbe(u)
      PROVE  \/ UNCHANGED <<queue, round, pending>>
             \/ \E reason \in Closings : Close(ProbeHost(u), reason)
  BY <1>3 DEF JoinProbe, ProbeAnswered, ProbeOverloaded, ProbeFailed, Closings, queueVars
<1>4. ASSUME Register
      PROVE  \/ UNCHANGED <<queue, round, pending>>
             \/ \E u \in Probes : Push(u)
  BY <1>4 DEF Register, queueAndThrottle, queueVars
<1>5. ASSUME Dispatch \/ StopFilling \/ EndRegister \/ Tick \/ UNCHANGED vars
      PROVE  UNCHANGED <<queue, round, pending>>
  BY <1>5 DEF Dispatch, StopFilling, EndRegister, Tick, queueAndThrottle, queueVars, vars
<1>6. ASSUME NEW u \in Probes, DispatchProbe(u)
      PROVE  NextProbe(u, ProbeReady)
  BY <1>6 DEF DispatchProbe
<1> QED
  BY <1>1, <1>2, <1>3, <1>4, <1>5, <1>6, Homes DEF Next, LoopStep, Done

(* A slot is taken for a task that starts and freed with its answer.        *)
LEMMA SlotsCountedStep ==
  ASSUME PoolInv, StrandedInv, [Next]_vars
  PROVE  SlotsCounted'
<1>1. /\ stage \in [Urls -> Stages] /\ slots \in [Hosts -> Int] /\ SlotsCounted
      /\ \A u \in Urls : Host(u) \in Hosts
  BY Homes DEF PoolInv, PoolTypes, StrandedInv
<1>2. CASE UNCHANGED <<stage, slots>>
  BY <1>1, <1>2 DEF SlotsCounted, Tasks, InFlight
<1>3. ASSUME NEW u \in Urls, NEW s \in Stages \ {"none", "joined"}, Flying(u),
             stage' = [stage EXCEPT ![u] = s], UNCHANGED slots
      PROVE  SlotsCounted'
  <2>1. \A h \in Hosts : Tasks(h)' = Tasks(h)
    BY <1>1, <1>3 DEF Tasks, InFlight, Flying
  <2> QED
    BY <1>1, <1>3, <2>1 DEF SlotsCounted
<1>4. ASSUME NEW u \in Urls, NEW s \in {"robots", "request"}, Fresh(u), Spawn(u, s)
      PROVE  SlotsCounted'
  <2>1. stage' = [stage EXCEPT ![u] = s] /\ slots' = [slots EXCEPT ![Host(u)] = @ + 1] /\ stage[u] = "none"
    BY <1>4 DEF Spawn, Fresh
  <2>2. \A h \in Hosts \ {Host(u)} : Tasks(h)' = Tasks(h) /\ slots'[h] = slots[h]
    BY <1>1, <2>1 DEF Tasks, InFlight
  <2>3. /\ Tasks(Host(u))' = Tasks(Host(u)) \cup {u} /\ u \notin Tasks(Host(u))
        /\ slots'[Host(u)] = slots[Host(u)] + 1
    BY <1>1, <2>1 DEF Tasks, InFlight
  <2>4. /\ IsFiniteSet(Tasks(Host(u)) \cup {u})
        /\ Cardinality(Tasks(Host(u)) \cup {u}) = Cardinality(Tasks(Host(u))) + 1
    BY <1>1, <2>3, FS_AddElement DEF SlotsCounted
  <2> QED
    BY <1>1, <2>2, <2>3, <2>4 DEF SlotsCounted
<1>5. ASSUME NEW u \in Urls, NEW outcome \in Outcomes, Take(u, outcome)
      PROVE  SlotsCounted'
  <2>1. /\ stage' = [stage EXCEPT ![u] = "joined"] /\ slots' = [slots EXCEPT ![Host(u)] = @ - 1]
        /\ stage[u] \notin {"none", "joined"}
    BY <1>5 DEF Take, TaskGoes, FreeSlot, Outcomes
  <2>2. \A h \in Hosts \ {Host(u)} : Tasks(h)' = Tasks(h) /\ slots'[h] = slots[h]
    BY <1>1, <2>1 DEF Tasks, InFlight
  <2>3. /\ Tasks(Host(u))' = Tasks(Host(u)) \ {u} /\ u \in Tasks(Host(u))
        /\ slots'[Host(u)] = slots[Host(u)] - 1
    BY <1>1, <2>1 DEF Tasks, InFlight
  <2>4. /\ IsFiniteSet(Tasks(Host(u)) \ {u})
        /\ Cardinality(Tasks(Host(u)) \ {u}) = Cardinality(Tasks(Host(u))) - 1
    BY <1>1, <2>3, FS_RemoveElement DEF SlotsCounted
  <2> QED
    BY <1>1, <2>2, <2>3, <2>4 DEF SlotsCounted
<1> QED
  BY <1>2, <1>3, <1>4, <1>5, StageSteps

(* A pause ends with the sleep that holds it, or before it.                 *)
LEMMA PauseHeldStep ==
  ASSUME PoolInv, StrandedInv, [Next]_vars
  PROVE  PauseHeld'
<1>1. /\ stage \in [Urls -> Stages] /\ left \in [Urls -> Nat] /\ pause \in [Hosts -> Nat]
      /\ PauseHeld /\ \A u \in Urls : Host(u) \in Hosts
  BY Homes, ThrottleAssumption DEF PoolInv, PoolTypes, ThrottleTypeOK, StrandedInv
(* Who sleeps goes on sleeping. *)
<1>2. ASSUME UNCHANGED <<pause, left>>,
             \A t \in Pages : stage[t] = "obey" => stage'[t] = "obey" \/ left[t] = 0
      PROVE  PauseHeld'
  BY <1>1, <1>2, Homes DEF PauseHeld
<1>3. CASE Tick
  <2>1. /\ UNCHANGED stage
        /\ left' = [u \in Urls |-> IF left[u] > 0 THEN left[u] - 1 ELSE 0]
        /\ pause' = [h \in Hosts |-> IF pause[h] > 0 THEN pause[h] - 1 ELSE 0]
    BY <1>3 DEF Tick, PauseTicks
  <2> SUFFICES ASSUME NEW h \in Hosts, pause'[h] > 0
               PROVE  \E t \in Pages : Host(t) = h /\ stage'[t] = "obey" /\ left'[t] >= pause'[h]
    BY DEF PauseHeld
  <2>2. pause[h] > 0 /\ pause'[h] = pause[h] - 1 /\ pause[h] \in Nat
    BY <1>1, <2>1
  <2>3. PICK t \in Pages : Host(t) = h /\ stage[t] = "obey" /\ left[t] >= pause[h]
    BY <1>1, <2>2 DEF PauseHeld
  <2>4. t \in Urls /\ left[t] \in Nat
    BY <1>1, Homes
  <2> QED
    BY <2>1, <2>2, <2>3, <2>4
<1>4. ASSUME NEW u \in Urls, ObeyRetryAfter(u)
      PROVE  PauseHeld'
  <2>1. PICK ticks \in 1..MaxWait : left' = [left EXCEPT ![u] = ticks] /\ Pause(Host(u), ticks)
    BY <1>4 DEF ObeyRetryAfter
  <2>2. /\ u \in Pages /\ stage[u] = "request" /\ stage' = [stage EXCEPT ![u] = "obey"]
        /\ pause' = [pause EXCEPT ![Host(u)] = IF @ > ticks THEN @ ELSE ticks]
        /\ ticks \in Nat
    <3>1. u \in Pages /\ stage[u] = "request" /\ stage' = [stage EXCEPT ![u] = "obey"]
      BY <1>4 DEF ObeyRetryAfter, TaskGoes
    <3>2. pause' = [pause EXCEPT ![Host(u)] = IF @ > ticks THEN @ ELSE ticks]
      BY <2>1 DEF Pause
    <3>3. ticks \in Nat
      BY ThrottleAssumption
    <3> QED
      BY <3>1, <3>2, <3>3
  <2> SUFFICES ASSUME NEW h \in Hosts, pause'[h] > 0
               PROVE  \E t \in Pages : Host(t) = h /\ stage'[t] = "obey" /\ left'[t] >= pause'[h]
    BY DEF PauseHeld
  <2>3. CASE h = Host(u) /\ pause[h] <= ticks
    <3>1. stage'[u] = "obey" /\ left'[u] = ticks /\ pause'[h] = ticks
      BY <1>1, <2>1, <2>2, <2>3
    <3> QED
      BY <2>2, <2>3, <3>1
  <2>4. CASE h # Host(u) \/ pause[h] > ticks
    <3>1. pause'[h] = pause[h]
      BY <1>1, <2>2, <2>4
    <3>2. PICK t \in Pages : Host(t) = h /\ stage[t] = "obey" /\ left[t] >= pause[h]
      BY <1>1, <3>1 DEF PauseHeld
    <3>3. t # u /\ t \in Urls
      BY <2>2, <3>2, Homes
    <3>4. stage'[t] = "obey" /\ left'[t] = left[t]
      BY <1>1, <2>1, <2>2, <3>2, <3>3
    <3> QED
      BY <3>1, <3>2, <3>4
  <2> QED
    BY <1>1, <2>2, <2>3, <2>4
<1>5. ASSUME NEW u \in Urls, TaskStep(u), ~ObeyRetryAfter(u)
      PROVE  PauseHeld'
  <2>1. UNCHANGED <<pause, left>>
    BY <1>5 DEF TaskStep, ReadRobots, PassGate, BackOff, Retry, EndTask, ForceSerial, queueAndThrottle, throttleVars
  <2>2. \A t \in Pages : stage[t] = "obey" => stage'[t] = "obey" \/ left[t] = 0
    BY <1>1, <1>5, Homes DEF TaskStep, ReadRobots, PassGate, BackOff, Retry, EndTask, TaskGoes
  <2> QED
    BY <1>2, <2>1, <2>2
<1>6. ASSUME NEW u \in Urls, JoinPage(u) \/ JoinProbe(u)
      PROVE  PauseHeld'
  <2>1. PICK outcome \in Outcomes : Take(u, outcome)
    BY <1>6 DEF JoinPage, JoinProbe, Outcomes
  <2>2. UNCHANGED left /\ \A t \in Pages : stage[t] = "obey" => stage'[t] = "obey"
    BY <1>1, <2>1, Homes DEF Take, TaskGoes, Outcomes
  <2>3. UNCHANGED pause
    BY <1>6 DEF JoinPage, JoinProbe, RecordGood, RecordBad, RecordOverload, throttleVars
  <2> QED
    BY <1>2, <2>2, <2>3
<1>7. ASSUME NEW u \in Urls, NEW s \in {"robots", "request"}, Fresh(u), Spawn(u, s)
      PROVE  PauseHeld'
  <2>1. UNCHANGED <<pause, left>> /\ stage[u] = "none" /\ stage' = [stage EXCEPT ![u] = s]
    BY <1>7 DEF Spawn, Fresh, throttleVars
  <2>2. \A t \in Pages : stage[t] = "obey" => stage'[t] = "obey"
    BY <1>1, <2>1, Homes
  <2> QED
    BY <1>2, <2>1, <2>2
<1>8. CASE StopFilling \/ Register \/ EndRegister \/ UNCHANGED vars
  <2>1. UNCHANGED <<stage, left, pause>>
    BY <1>8 DEF StopFilling, Register, EndRegister, ForceSerial, vars, taskVars, queueAndThrottle, throttleVars
  <2> QED
    BY <1>2, <2>1
<1>9. CASE Dispatch \/ \E u \in Probes : DispatchProbe(u)
  <2>1. \E u \in Urls, s \in {"robots", "request"} : Fresh(u) /\ Spawn(u, s)
    BY <1>9, StageSpawns, Homes
  <2> QED
    BY <1>7, <2>1
<1> QED
  BY <1>3, <1>4, <1>5, <1>6, <1>8, <1>9, Homes DEF Next, LoopStep, Done

(* The round loses and gains a place with the work of its host.             *)
LEMMA RoundCompleteStep ==
  ASSUME PoolInv, StrandedInv, [Next]_vars
  PROVE  RoundComplete'
<1>1. /\ queue \in [Foreign -> Seq(Probes)] /\ round \in Seq(Foreign) /\ IsInjective(round)
      /\ Range(round) = {h \in Foreign : queue[h] # <<>>} /\ DOMAIN round = 1..Len(round)
  BY DEF PoolInv, PoolTypes, StrandedInv, RoundComplete
<1>2. CASE UNCHANGED <<queue, round, pending>>
  BY <1>1, <1>2 DEF RoundComplete
<1>3. ASSUME NEW u \in Probes, Push(u)
      PROVE  RoundComplete'
  <2>1. PICK h \in Foreign : h = ProbeHost(u)
    BY Homes
  <2>2. /\ queue' = [queue EXCEPT ![h] = Append(@, u)]
        /\ round' = IF queue[h] = <<>> THEN Append(round, h) ELSE round
    BY <1>3, <2>1 DEF Push
  <2>3. queue'[h] # <<>>
    <3>1. queue[h] \in Seq(Probes) /\ queue'[h] = Append(queue[h], u)
      BY <1>1, <2>2
    <3>2. Len(queue'[h]) = Len(queue[h]) + 1 /\ Len(queue[h]) \in Nat
      BY <3>1
    <3>3. Len(queue'[h]) # 0
      BY <3>2
    <3> QED
      BY <3>3
  <2>4. \A g \in Foreign \ {h} : queue'[g] = queue[g]
    BY <1>1, <2>2
  <2>5. CASE queue[h] = <<>>
    <3>1. round' = round \o <<h>>
      BY <1>1, <2>2, <2>5, AppendIsConcat
    <3>2. h \notin Range(round)
      BY <1>1, <2>5
    <3>3. round' \in Seq(Foreign) /\ IsInjective(round') /\ Range(round') = Range(round) \cup {h}
      BY <1>1, <3>1, <3>2, PutLast
    <3>4. Range(round') = {g \in Foreign : queue'[g] # <<>>}
      BY <1>1, <2>3, <2>4, <3>3
    <3> QED
      BY <3>3, <3>4 DEF RoundComplete
  <2>6. CASE queue[h] # <<>>
    <3>1. round' = round
      BY <2>2, <2>6
    <3>2. Range(round) = {g \in Foreign : queue'[g] # <<>>}
      BY <1>1, <2>3, <2>4, <2>6
    <3> QED
      BY <1>1, <3>1, <3>2 DEF RoundComplete
  <2> QED
    BY <2>5, <2>6
<1>4. ASSUME NEW u \in Probes, NextProbe(u, ProbeReady)
      PROVE  RoundComplete'
  <2>1. PICK i \in 1..Len(round) :
          /\ queue[round[i]] # <<>>
          /\ queue' = [queue EXCEPT ![round[i]] = Tail(@)]
          /\ round' = SubSeq(round, i + 1, Len(round)) \o SubSeq(round, 1, i - 1)
                        \o (IF Tail(queue[round[i]]) = <<>> THEN <<>> ELSE <<round[i]>>)
    BY <1>1, <1>4 DEF NextProbe
  <2>2. PICK h \in Foreign : h = round[i]
    BY <1>1, <2>1
  <2>3. PICK r : r = SubSeq(round, i + 1, Len(round)) \o SubSeq(round, 1, i - 1)
    OBVIOUS
  <2>4. r \in Seq(Foreign) /\ IsInjective(r) /\ Range(r) = Range(round) \ {h}
    <3>1. round \in Seq(Foreign) /\ IsInjective(round) /\ i \in 1..Len(round)
      BY <1>1
    <3>2. r \in Seq(Foreign) /\ IsInjective(r) /\ Range(r) = Range(round) \ {round[i]}
      BY <2>3, <3>1, Turned
    <3> QED
      BY <2>2, <3>2
  <2>5. queue'[h] = Tail(queue[h]) /\ \A g \in Foreign \ {h} : queue'[g] = queue[g]
    BY <1>1, <2>1, <2>2
  <2>6. CASE queue'[h] = <<>>
    <3>1. round' = r
      BY <2>1, <2>2, <2>3, <2>4, <2>5, <2>6, ConcatEmptySeq
    <3>2. Range(r) = {g \in Foreign : queue'[g] # <<>>}
      BY <1>1, <2>4, <2>5, <2>6
    <3> QED
      BY <2>4, <3>1, <3>2 DEF RoundComplete
  <2>7. CASE queue'[h] # <<>>
    <3>1. round' = r \o <<h>>
      BY <2>1, <2>2, <2>3, <2>5, <2>7
    <3>2. h \notin Range(r)
      BY <2>4
    <3>3. round' \in Seq(Foreign) /\ IsInjective(round') /\ Range(round') = Range(r) \cup {h}
      BY <2>4, <3>1, <3>2, PutLast
    <3>4. h \in Range(round)
      BY <1>1, <2>1, <2>2
    <3>5. Range(round') = {g \in Foreign : queue'[g] # <<>>}
      BY <1>1, <2>4, <2>5, <2>7, <3>3, <3>4
    <3> QED
      BY <3>3, <3>5 DEF RoundComplete
  <2> QED
    BY <2>6, <2>7
<1>5. ASSUME NEW h \in Foreign, NEW reason \in Closings, Close(h, reason)
      PROVE  RoundComplete'
  <2>1. queue' = [queue EXCEPT ![h] = <<>>] /\ round' = RoundWithout(h)
    BY <1>5 DEF Close
  <2>2. queue'[h] = <<>> /\ \A g \in Foreign \ {h} : queue'[g] = queue[g]
    BY <1>1, <2>1
  <2>3. round' \in Seq(Foreign) /\ IsInjective(round') /\ Range(round') = Range(round) \ {h}
    <3>1. CASE h \notin Range(round)
      BY <1>1, <2>1, <3>1 DEF RoundWithout
    <3>2. CASE h \in Range(round)
      <4>1. PICK i : i = CHOOSE j \in DOMAIN round : round[j] = h
        OBVIOUS
      <4>2. i \in 1..Len(round) /\ round[i] = h
        BY <1>1, <3>2, <4>1 DEF Range
      <4>3. round' = RemoveAt(round, i)
        BY <2>1, <3>2, <4>1 DEF RoundWithout
      <4> QED
        BY <1>1, <4>2, <4>3, TakenOut
    <3> QED
      BY <3>1, <3>2
  <2>4. Range(round') = {g \in Foreign : queue'[g] # <<>>}
    BY <1>1, <2>2, <2>3
  <2> QED
    BY <2>3, <2>4 DEF RoundComplete
<1> QED
  BY <1>2, <1>3, <1>4, <1>5, QueueSteps

(* What a host has waiting.                                                 *)
Row(h, n) == {h} \X (1..n)

LEMMA Rows ==
  ASSUME NEW h, NEW n \in Nat
  PROVE  IsFiniteSet(Row(h, n)) /\ Cardinality(Row(h, n)) = n
<1>1. IsFiniteSet({h}) /\ Cardinality({h}) = 1
  BY FS_Singleton
<1>2. IsFiniteSet(1..n) /\ Cardinality(1..n) = n
  BY FS_Interval
<1>3. IsFiniteSet({h} \X (1..n)) /\ Cardinality({h} \X (1..n)) = Cardinality({h}) * Cardinality(1..n)
  BY <1>1, <1>2, FS_Product
<1> QED
  BY <1>1, <1>2, <1>3 DEF Row

(* Every probe that is queued, sent or dropped is counted once.             *)
LEMMA PendingCountedStep ==
  ASSUME PoolInv, StrandedInv, [Next]_vars
  PROVE  PendingCounted'
<1>1. /\ queue \in [Foreign -> Seq(Probes)] /\ round \in Seq(Foreign)
      /\ IsFiniteSet(Waiting) /\ pending = Cardinality(Waiting) /\ DOMAIN round = 1..Len(round)
      /\ \A h \in Foreign : Len(queue[h]) \in Nat
  BY DEF PoolInv, PoolTypes, StrandedInv, RoundComplete, PendingCounted
<1>2. CASE UNCHANGED <<queue, round, pending>>
  BY <1>1, <1>2 DEF PendingCounted, Waiting
<1>3. \A w : w \in Waiting <=> \E g \in Foreign : w \in Row(g, Len(queue[g]))
  BY DEF Waiting, Row
<1>4. \A w : w \in Waiting' <=> \E g \in Foreign : w \in Row(g, Len(queue'[g]))
  BY DEF Waiting, Row
<1>5. Cardinality(Waiting) \in Nat
  BY <1>1, FS_CardinalityType
<1>6. \A g, h, w : \A m, n \in Nat : w \in Row(g, m) /\ w \in Row(h, n) => g = h
  BY DEF Row
<1>7. ASSUME NEW h \in Foreign, \A g \in Foreign \ {h} : queue'[g] = queue[g], NEW n \in Nat,
             Len(queue'[h]) = n
      PROVE  Waiting' = (Waiting \ Row(h, Len(queue[h]))) \cup Row(h, n)
  <2>1. ASSUME NEW w, w \in Waiting'
        PROVE  w \in (Waiting \ Row(h, Len(queue[h]))) \cup Row(h, n)
    <3>1. PICK g \in Foreign : w \in Row(g, Len(queue'[g]))
      BY <1>4, <2>1
    <3>2. CASE g = h
      BY <1>7, <3>1, <3>2
    <3>3. CASE g # h
      <4>1. w \in Row(g, Len(queue[g]))
        BY <1>7, <3>1, <3>3
      <4>2. w \in Waiting /\ w \notin Row(h, Len(queue[h]))
        BY <1>1, <1>3, <1>6, <3>3, <4>1
      <4> QED
        BY <4>2
    <3> QED
      BY <3>2, <3>3
  <2>2. ASSUME NEW w, w \in Waiting, w \notin Row(h, Len(queue[h]))
        PROVE  w \in Waiting'
    <3>1. PICK g \in Foreign : w \in Row(g, Len(queue[g]))
      BY <1>3, <2>2
    <3>2. g # h
      BY <2>2, <3>1
    <3>3. w \in Row(g, Len(queue'[g]))
      BY <1>7, <3>1, <3>2
    <3> QED
      BY <1>4, <3>3
  <2>3. ASSUME NEW w, w \in Row(h, n)
        PROVE  w \in Waiting'
    BY <1>4, <1>7, <2>3
  <2> QED
    BY <2>1, <2>2, <2>3
<1>8. ASSUME NEW u \in Probes, Push(u)
      PROVE  PendingCounted'
  <2>1. PICK h \in Foreign : h = ProbeHost(u)
    BY Homes
  <2>2. queue' = [queue EXCEPT ![h] = Append(@, u)] /\ pending' = pending + 1
    BY <1>8, <2>1 DEF Push
  <2>3. PICK n \in Nat : n = Len(queue[h])
    BY <1>1
  <2>4. Len(queue'[h]) = n + 1 /\ n + 1 \in Nat /\ \A g \in Foreign \ {h} : queue'[g] = queue[g]
    <3>1. queue[h] \in Seq(Probes) /\ queue'[h] = Append(queue[h], u)
      BY <1>1, <2>2
    <3> QED
      BY <1>1, <2>2, <2>3, <3>1
  <2>5. Waiting' = (Waiting \ Row(h, n)) \cup Row(h, n + 1)
    BY <1>7, <2>3, <2>4
  <2>6. Row(h, n + 1) = Row(h, n) \cup {<<h, n + 1>>} /\ <<h, n + 1>> \notin Row(h, n)
    <3>1. 1..(n + 1) = (1..n) \cup {n + 1} /\ n + 1 \notin 1..n
      OBVIOUS
    <3> QED
      BY <3>1 DEF Row
  <2>7. Row(h, n) \subseteq Waiting
    BY <1>3, <2>3
  <2>8. <<h, n + 1>> \notin Waiting
    <3> SUFFICES ASSUME NEW g \in Foreign, <<h, n + 1>> \in Row(g, Len(queue[g]))
                 PROVE  FALSE
      BY <1>3
    <3>1. g = h
      BY DEF Row
    <3> QED
      BY <2>3, <2>6, <3>1
  <2>9. Waiting' = Waiting \cup {<<h, n + 1>>}
    BY <2>5, <2>6, <2>7
  <2>10. /\ IsFiniteSet(Waiting \cup {<<h, n + 1>>})
         /\ Cardinality(Waiting \cup {<<h, n + 1>>}) = Cardinality(Waiting) + 1
    BY <1>1, <2>8, FS_AddElement
  <2> QED
    BY <1>1, <2>2, <2>9, <2>10 DEF PendingCounted
<1>9. ASSUME NEW u \in Probes, NextProbe(u, ProbeReady)
      PROVE  PendingCounted'
  <2>1. PICK h \in Foreign : /\ queue[h] # <<>> /\ queue' = [queue EXCEPT ![h] = Tail(@)]
                             /\ pending' = pending - 1
    <3>1. PICK i \in DOMAIN round : /\ queue[round[i]] # <<>> /\ queue' = [queue EXCEPT ![round[i]] = Tail(@)]
                                    /\ pending' = pending - 1
      BY <1>9 DEF NextProbe
    <3>2. round[i] \in Foreign
      BY <1>1
    <3> QED
      BY <3>1, <3>2
  <2>2. PICK n \in Nat : n + 1 = Len(queue[h])
    <3>1. queue[h] \in Seq(Probes) /\ Len(queue[h]) # 0
      BY <1>1, <2>1
    <3>2. Len(queue[h]) - 1 \in Nat /\ (Len(queue[h]) - 1) + 1 = Len(queue[h])
      BY <1>1, <3>1
    <3> QED
      BY <3>2
  <2>3. Len(queue'[h]) = n /\ \A g \in Foreign \ {h} : queue'[g] = queue[g]
    <3>1. queue[h] \in Seq(Probes) /\ queue'[h] = Tail(queue[h])
      BY <1>1, <2>1
    <3>2. Len(Tail(queue[h])) = Len(queue[h]) - 1
      BY <2>1, <3>1
    <3> QED
      BY <1>1, <2>1, <2>2, <3>1, <3>2
  <2>4. Waiting' = (Waiting \ Row(h, n + 1)) \cup Row(h, n)
    BY <1>7, <2>2, <2>3
  <2>5. Row(h, n + 1) = Row(h, n) \cup {<<h, n + 1>>} /\ <<h, n + 1>> \notin Row(h, n)
    <3>1. 1..(n + 1) = (1..n) \cup {n + 1} /\ n + 1 \notin 1..n
      OBVIOUS
    <3> QED
      BY <3>1 DEF Row
  <2>6. Row(h, n + 1) \subseteq Waiting
    BY <1>3, <2>2
  <2>7. Waiting' = Waiting \ {<<h, n + 1>>} /\ <<h, n + 1>> \in Waiting
    BY <2>4, <2>5, <2>6
  <2>8. /\ IsFiniteSet(Waiting \ {<<h, n + 1>>})
        /\ Cardinality(Waiting \ {<<h, n + 1>>}) = Cardinality(Waiting) - 1
    BY <1>1, <2>7, FS_RemoveElement
  <2> QED
    BY <1>1, <2>1, <2>7, <2>8 DEF PendingCounted
<1>10. ASSUME NEW h \in Foreign, NEW reason \in Closings, Close(h, reason)
       PROVE  PendingCounted'
  <2>1. queue' = [queue EXCEPT ![h] = <<>>] /\ pending' = pending - Len(queue[h])
    BY <1>10 DEF Close
  <2>2. PICK n \in Nat : n = Len(queue[h])
    BY <1>1
  <2>3. Len(queue'[h]) = 0 /\ \A g \in Foreign \ {h} : queue'[g] = queue[g]
    BY <1>1, <2>1
  <2>4. Waiting' = (Waiting \ Row(h, n)) \cup Row(h, 0)
    BY <1>7, <2>2, <2>3
  <2>5. Row(h, 0) = {} /\ Row(h, n) \subseteq Waiting
    <3>1. 1..0 = {}
      OBVIOUS
    <3> QED
      BY <1>3, <2>2, <3>1 DEF Row
  <2>6. Waiting' = Waiting \ Row(h, n) /\ Waiting \cap Row(h, n) = Row(h, n)
    BY <2>4, <2>5
  <2>7. /\ IsFiniteSet(Waiting \ Row(h, n))
        /\ Cardinality(Waiting \ Row(h, n)) = Cardinality(Waiting) - n
    <3>1. Cardinality(Row(h, n)) = n
      BY <2>2, Rows
    <3>2. /\ IsFiniteSet(Waiting \ Row(h, n))
          /\ Cardinality(Waiting \ Row(h, n)) = Cardinality(Waiting) - Cardinality(Waiting \cap Row(h, n))
      BY <1>1, FS_Difference
    <3> QED
      BY <2>6, <3>1, <3>2
  <2> QED
    BY <1>1, <2>1, <2>2, <2>6, <2>7 DEF PendingCounted
<1> QED
  BY <1>2, <1>8, <1>9, <1>10, QueueSteps

(* What waits is taken from its place when it leaves, and what is put in a  *)
(* place is new.                                                            *)
LEMMA WaitsOnceStep ==
  ASSUME PoolInv, StrandedInv, [Next]_vars
  PROVE  WaitsOnce'
<1>1. /\ stage \in [Urls -> Stages] /\ queue \in [Foreign -> Seq(Probes)] /\ frontier \in Seq(Pages)
      /\ \A h \in Foreign : \A i \in 1..Len(queue[h]) : ProbeHost(queue[h][i]) = h
      /\ IsInjective(frontier) /\ \A h \in Foreign : IsInjective(queue[h])
      /\ Pages \cap Probes = {}
  BY SchedulerAssumption DEF PoolInv, PoolTypes, QueueInv, StrandedInv, WaitsOnce
<1>2. /\ \A u \in Range(frontier) : u \in Pages /\ u \in Urls /\ u \in seen /\ stage[u] = "none"
      /\ \A u \in Urls : stage[u] # "none" => u \in seen
  <2>1. Range(frontier) \subseteq Pages
    BY <1>1 DEF Range
  <2> QED
    BY <2>1, Homes DEF StrandedInv, WaitsOnce, Fresh
<1>3. \A h \in Foreign : \A u \in Range(queue[h]) :
        u \in Probes /\ u \in Urls /\ u \in seen /\ stage[u] = "none" /\ ProbeHost(u) = h
  <2> SUFFICES ASSUME NEW h \in Foreign, NEW u \in Range(queue[h])
               PROVE  u \in Probes /\ u \in Urls /\ u \in seen /\ stage[u] = "none" /\ ProbeHost(u) = h
    OBVIOUS
  <2>1. queue[h] \in Seq(Probes) /\ DOMAIN queue[h] = 1..Len(queue[h])
    BY <1>1
  <2>2. u \in Probes /\ ProbeHost(u) = h
    BY <1>1, <2>1 DEF Range
  <2> QED
    BY <2>2, Homes DEF StrandedInv, WaitsOnce, Fresh
(* Nothing new waits, and what starts or goes on was not waiting. *)
<1>4. ASSUME seen' = seen, IsInjective(frontier'), Range(frontier') \subseteq Range(frontier),
             \A h \in Foreign : IsInjective(queue'[h]) /\ Range(queue'[h]) \subseteq Range(queue[h]),
             \/ stage' = stage
             \/ \E u \in Urls, s \in Stages :
                  /\ stage' = [stage EXCEPT ![u] = s]
                  /\ u \in seen /\ u \notin Range(frontier')
                  /\ \A h \in Foreign : u \notin Range(queue'[h])
      PROVE  WaitsOnce'
  <2>1. CASE stage' = stage
    BY <1>2, <1>3, <1>4, <2>1 DEF WaitsOnce, Fresh
  <2>2. ASSUME NEW u \in Urls, NEW s \in Stages, stage' = [stage EXCEPT ![u] = s], u \in seen,
               u \notin Range(frontier'), \A h \in Foreign : u \notin Range(queue'[h])
        PROVE  WaitsOnce'
    <3>1. \A w \in Urls \ {u} : stage'[w] = stage[w]
      BY <1>1, <2>2
    <3>2. \A w \in Range(frontier') : Fresh(w)'
      BY <1>2, <1>4, <2>2, <3>1 DEF Fresh
    <3>3. \A h \in Foreign : \A w \in Range(queue'[h]) : Fresh(w)'
      BY <1>3, <1>4, <2>2, <3>1 DEF Fresh
    <3>4. \A w \in Urls : stage'[w] # "none" => w \in seen'
      BY <1>2, <1>4, <2>2, <3>1
    <3> QED
      BY <1>4, <3>2, <3>3, <3>4 DEF WaitsOnce
  <2> QED
    BY <1>4, <2>1, <2>2
(* Some queue may have been emptied. *)
<1>5. ASSUME UNCHANGED queue \/ \E h \in Foreign : queue' = [queue EXCEPT ![h] = <<>>]
      PROVE  \A h \in Foreign : IsInjective(queue'[h]) /\ Range(queue'[h]) \subseteq Range(queue[h])
  <2>1. IsInjective(<<>>) /\ Range(<<>>) = {}
    BY DEF IsInjective, Range
  <2>2. \A h \in Foreign : queue'[h] = queue[h] \/ queue'[h] = <<>>
    BY <1>1, <1>5
  <2> QED
    BY <1>1, <2>1, <2>2
<1>6. ASSUME NEW u \in Urls, NEW s \in Stages, stage[u] # "none", stage' = [stage EXCEPT ![u] = s],
             UNCHANGED <<seen, frontier>>, UNCHANGED queue \/ \E h \in Foreign : queue' = [queue EXCEPT ![h] = <<>>]
      PROVE  WaitsOnce'
  <2>1. u \in seen /\ u \notin Range(frontier) /\ \A h \in Foreign : u \notin Range(queue[h])
    BY <1>2, <1>3, <1>6
  <2>2. \A h \in Foreign : IsInjective(queue'[h]) /\ Range(queue'[h]) \subseteq Range(queue[h])
    BY <1>5, <1>6
  <2>3. IsInjective(frontier') /\ Range(frontier') = Range(frontier) /\ seen' = seen
    BY <1>1, <1>6
  <2>4. \A h \in Foreign : u \notin Range(queue'[h])
    BY <2>1, <2>2
  <2> QED
    BY <1>4, <1>6, <2>1, <2>2, <2>3, <2>4
<1>7. ASSUME NEW u \in Urls, TaskStep(u)
      PROVE  WaitsOnce'
  <2>1. UNCHANGED <<seen, frontier, queue>>
    BY <1>7 DEF TaskStep, ReadRobots, PassGate, BackOff, ObeyRetryAfter, Retry, EndTask,
                loopVars, queueAndThrottle, queueVars
  <2>2. stage[u] # "none" /\ \E s \in Stages : stage' = [stage EXCEPT ![u] = s]
    BY <1>7 DEF TaskStep, ReadRobots, PassGate, BackOff, ObeyRetryAfter, Retry, EndTask, TaskGoes, Stages, Outcomes
  <2> QED
    BY <1>6, <2>1, <2>2
<1>8. ASSUME NEW u \in Urls, (u \in Pages /\ JoinPage(u)) \/ (u \in Probes /\ JoinProbe(u))
      PROVE  WaitsOnce'
  <2>1. PICK outcome \in Outcomes : Take(u, outcome)
    BY <1>8 DEF JoinPage, JoinProbe, Outcomes
  <2>2. stage[u] # "none" /\ stage' = [stage EXCEPT ![u] = "joined"] /\ UNCHANGED <<seen, frontier>>
    BY <2>1 DEF Take, TaskGoes, Outcomes
  <2>3. UNCHANGED queue \/ \E h \in Foreign : queue' = [queue EXCEPT ![h] = <<>>]
    <3>1. ASSUME u \in Pages, JoinPage(u)
          PROVE  UNCHANGED queue
      BY <3>1 DEF JoinPage, queueVars
    <3>2. ASSUME u \in Probes, JoinProbe(u)
          PROVE  UNCHANGED queue \/ queue' = [queue EXCEPT ![ProbeHost(u)] = <<>>]
      BY <3>2 DEF JoinProbe, ProbeAnswered, ProbeOverloaded, ProbeFailed, Close, queueVars
    <3> QED
      BY <1>8, <3>1, <3>2, Homes
  <2>4. "joined" \in Stages
    BY DEF Stages
  <2> QED
    BY <1>6, <2>2, <2>3, <2>4
<1>9. CASE Dispatch
  <2>1. PICK i \in Scanned : frontier' = RemoveAt(frontier, i) /\ Spawn(frontier[i], "robots")
    BY <1>9 DEF Dispatch
  <2>2. i \in 1..Len(frontier)
    <3>1. Len(frontier) \in Nat /\ MaxScan \in Nat
      BY <1>1, SchedulerAssumption
    <3> QED
      BY <3>1 DEF Scanned
  <2>3. PICK u : u = frontier[i]
    OBVIOUS
  <2>4. u \in Range(frontier)
    BY <1>1, <2>2, <2>3 DEF Range
  <2>5. IsInjective(frontier') /\ Range(frontier') = Range(frontier) \ {u}
    BY <1>1, <2>1, <2>2, <2>3, TakenOut
  <2>6. UNCHANGED <<seen, queue>> /\ stage' = [stage EXCEPT ![u] = "robots"]
    BY <1>9, <2>1, <2>3 DEF Dispatch, Spawn, queueVars
  <2>7. \A h \in Foreign : u \notin Range(queue'[h])
    BY <1>1, <1>2, <1>3, <2>4, <2>6
  <2>8. \A h \in Foreign : IsInjective(queue'[h]) /\ Range(queue'[h]) \subseteq Range(queue[h])
    BY <1>5, <2>6
  <2>9. "robots" \in Stages /\ u \in Urls /\ u \in seen /\ u \notin Range(frontier')
    BY <1>2, <2>4, <2>5 DEF Stages
  <2> QED
    BY <1>4, <2>5, <2>6, <2>7, <2>8, <2>9
<1>10. ASSUME NEW u \in Probes, DispatchProbe(u)
       PROVE  WaitsOnce'
  <2>1. PICK h \in Foreign : queue[h] # <<>> /\ u = Head(queue[h]) /\ queue' = [queue EXCEPT ![h] = Tail(@)]
    BY <1>10 DEF DispatchProbe, NextProbe, ProbeReady
  <2>2. queue[h] \in Seq(Probes) /\ IsInjective(queue[h])
    BY <1>1
  <2>3. u \in Range(queue[h])
    <3>1. u = queue[h][1] /\ 1 \in DOMAIN queue[h]
      BY <2>1, <2>2
    <3> QED
      BY <3>1 DEF Range
  <2>4. queue'[h] = Tail(queue[h]) /\ \A g \in Foreign \ {h} : queue'[g] = queue[g]
    BY <1>1, <2>1
  <2>5. IsInjective(Tail(queue[h])) /\ Range(Tail(queue[h])) = Range(queue[h]) \ {u}
    BY <2>1, <2>2, FirstGone
  <2>6. \A g \in Foreign : IsInjective(queue'[g]) /\ Range(queue'[g]) \subseteq Range(queue[g])
    BY <1>1, <2>4, <2>5
  <2>7. \A g \in Foreign : u \notin Range(queue'[g])
    BY <1>3, <2>3, <2>4, <2>5
  <2>8. UNCHANGED <<seen, frontier>> /\ stage' = [stage EXCEPT ![u] = "request"]
    BY <1>10 DEF DispatchProbe, Spawn
  <2>9. "request" \in Stages /\ u \in Urls /\ u \in seen /\ u \notin Range(frontier)
    BY <1>1, <1>2, <1>3, <2>3 DEF Stages
  <2>10. IsInjective(frontier') /\ Range(frontier') = Range(frontier) /\ seen' = seen
    BY <1>1, <2>8
  <2> QED
    BY <1>4, <2>6, <2>7, <2>8, <2>9, <2>10
<1>11. CASE Register
  <2>1. PICK u : /\ seen' = seen \cup {u}
                 /\ \/ frontier' = frontier
                    \/ /\ u \in Pages /\ u \notin seen
                       /\ \E i \in 1..(Len(frontier) + 1) : frontier' = InsertAt(frontier, i, u)
                 /\ \/ queue' = queue
                    \/ u \in Probes /\ u \notin seen /\ queue' = [queue EXCEPT ![ProbeHost(u)] = Append(@, u)]
    BY <1>11 DEF Register, Push, queueAndThrottle, queueVars
  <2>2. stage' = stage
    BY <1>11 DEF Register, taskVars
  <2>3. \A w \in Urls : stage'[w] # "none" => w \in seen'
    BY <1>2, <2>1, <2>2
  <2>4. IsInjective(frontier') /\ \A w \in Range(frontier') : Fresh(w)'
    <3>1. CASE frontier' = frontier
      BY <1>1, <1>2, <2>1, <2>2, <3>1 DEF Fresh
    <3>2. ASSUME u \in Pages, u \notin seen, NEW i \in 1..(Len(frontier) + 1), frontier' = InsertAt(frontier, i, u)
          PROVE  IsInjective(frontier') /\ \A w \in Range(frontier') : Fresh(w)'
      <4>1. u \notin Range(frontier) /\ u \in Urls
        BY <1>2, <3>2, Homes
      <4>2. IsInjective(frontier') /\ Range(frontier') = Range(frontier) \cup {u}
        BY <1>1, <3>2, <4>1, PutIn
      <4>3. stage[u] = "none"
        BY <1>2, <3>2, <4>1
      <4> QED
        BY <1>2, <2>1, <2>2, <4>2, <4>3 DEF Fresh
    <3> QED
      BY <2>1, <3>1, <3>2
  <2>5. \A h \in Foreign : IsInjective(queue'[h]) /\ \A w \in Range(queue'[h]) : Fresh(w)'
    <3> SUFFICES ASSUME NEW h \in Foreign
                 PROVE  IsInjective(queue'[h]) /\ \A w \in Range(queue'[h]) : Fresh(w)'
      OBVIOUS
    <3>1. CASE queue'[h] = queue[h]
      BY <1>1, <1>3, <2>1, <2>2, <3>1 DEF Fresh
    <3>2. CASE queue'[h] # queue[h]
      <4>1. u \in Probes /\ u \notin seen /\ u \in Urls /\ queue'[h] = Append(queue[h], u)
        BY <1>1, <2>1, <3>2, Homes
      <4>2. queue[h] \in Seq(Probes) /\ IsInjective(queue[h]) /\ u \notin Range(queue[h])
        BY <1>1, <1>3, <4>1
      <4>3. queue'[h] = queue[h] \o <<u>>
        BY <4>1, <4>2, AppendIsConcat
      <4>4. IsInjective(queue'[h]) /\ Range(queue'[h]) = Range(queue[h]) \cup {u}
        BY <4>1, <4>2, <4>3, PutLast
      <4>5. stage[u] = "none"
        BY <1>2, <4>1
      <4> QED
        BY <1>3, <2>1, <2>2, <4>4, <4>5 DEF Fresh
    <3> QED
      BY <3>1, <3>2
  <2> QED
    BY <2>3, <2>4, <2>5 DEF WaitsOnce
<1>12. CASE StopFilling \/ EndRegister \/ Tick \/ UNCHANGED vars
  <2>1. UNCHANGED <<stage, seen, frontier, queue>>
    BY <1>12 DEF StopFilling, EndRegister, Tick, loopVars, queueAndThrottle, queueVars, taskVars, vars
  <2> QED
    BY <1>1, <1>2, <1>3, <2>1 DEF WaitsOnce, Fresh
<1> QED
  BY <1>7, <1>8, <1>9, <1>10, <1>11, <1>12, Homes DEF Next, LoopStep, Done

(* Without a task in flight nothing is held back, so that what waits is     *)
(* ready to leave.                                                          *)
LEMMA EmptyPool ==
  ASSUME PoolInv, StrandedInv, \A u \in Urls : ~Flying(u)
  PROVE  /\ \A i \in 1..Len(frontier) : PageReady(i)
         /\ \A h \in Range(round) : h \in ProbeReady
<1>1. /\ limit \in [Hosts -> 1..DefaultLimit] /\ pause \in [Hosts -> 0..MaxWait] /\ slots \in [Hosts -> Int]
      /\ frontier \in Seq(Pages) /\ round \in Seq(Foreign)
  BY DEF PoolInv, PoolTypes, ThrottleTypeOK, StrandedInv, RoundComplete
<1>2. ASSUME NEW h \in Hosts
      PROVE  slots[h] = 0
  <2>1. Tasks(h) = {}
    BY DEF Tasks, InFlight, Flying
  <2>2. Cardinality({}) = 0
    BY FS_EmptySet
  <2> QED
    BY <2>1, <2>2 DEF StrandedInv, SlotsCounted
<1>3. ASSUME NEW h \in Hosts
      PROVE  pause[h] = 0
  <2>1. \A t \in Pages : stage[t] # "obey"
    BY Homes DEF Flying
  <2>2. ~(pause[h] > 0)
    BY <2>1 DEF StrandedInv, PauseHeld
  <2>3. pause[h] \in 0..MaxWait
    BY <1>1
  <2> QED
    BY <2>2, <2>3, ThrottleAssumption
<1>4. ASSUME NEW h \in Hosts
      PROVE  slots[h] < limit[h]
  <2>1. slots[h] = 0
    BY <1>2
  <2>2. limit[h] \in 1..DefaultLimit
    BY <1>1
  <2> QED
    BY <2>1, <2>2, ThrottleAssumption
<1>5. \A i \in 1..Len(frontier) : PageHost(frontier[i]) \in Hosts
  BY <1>1, Homes
<1>6. \A h \in Range(round) : h \in Foreign /\ h \in Hosts
  BY <1>1, Homes DEF Range
<1> QED
  BY <1>3, <1>4, <1>5, <1>6 DEF PageReady, HasRoom, ProbeReady, HasRoomForProbe

(* The loop only ends with an empty pool.                                   *)
LEMMA NothingStrandedStep ==
  ASSUME PoolInv, StrandedInv, [Next]_vars
  PROVE  NothingStranded'
<1>1. CASE StopFilling
  <2> SUFFICES ASSUME loop' = "done"
               PROVE  frontier' = <<>> /\ pending' = 0
    BY DEF NothingStranded
  <2>1. InFlight = {} /\ UNCHANGED <<frontier, pending>>
    BY <1>1 DEF StopFilling, queueAndThrottle, queueVars
  <2>2. /\ \A i \in 1..Len(frontier) : PageReady(i)
        /\ \A h \in Range(round) : h \in ProbeReady
    <3>1. \A u \in Urls : ~Flying(u)
      BY <2>1 DEF InFlight, Flying
    <3> QED
      BY <3>1, EmptyPool
  <2>3. NoPageReady /\ \A i \in DOMAIN round : round[i] \notin ProbeReady
    <3>1. Cardinality(InFlight) = 0 /\ MaxInFlight # 0
      BY <2>1, FS_EmptySet, SchedulerAssumption
    <3> QED
      BY <1>1, <3>1 DEF StopFilling
  <2>4. frontier = <<>>
    <3>1. frontier \in Seq(Pages) /\ Len(frontier) \in Nat /\ MaxScan \in Nat \ {0}
      BY SchedulerAssumption DEF PoolInv, PoolTypes
    <3>2. Scanned = {}
      BY <2>2, <2>3, <3>1 DEF NoPageReady, Scanned
    <3>3. Len(frontier) = 0
      BY <3>1, <3>2 DEF Scanned
    <3> QED
      BY <3>1, <3>3
  <2>5. Range(round) = {}
    BY <2>2, <2>3 DEF Range
  <2>6. \A h \in Foreign : queue[h] = <<>>
    BY <2>5 DEF StrandedInv, RoundComplete
  <2>7. Waiting = {}
    <3>1. \A h \in Foreign : Len(queue[h]) = 0
      BY <2>6
    <3>2. 1..0 = {}
      OBVIOUS
    <3>3. \A h \in Foreign : {h} \X (1..Len(queue[h])) = {}
      BY <3>1, <3>2
    <3> QED
      BY <3>3 DEF Waiting
  <2> QED
    BY <2>1, <2>4, <2>7, FS_EmptySet DEF StrandedInv, PendingCounted
<1>2. CASE loop' = loop /\ loop = "done"
  <2>1. UNCHANGED <<frontier, pending>>
    <3>1. ASSUME NEW u \in Urls, TaskStep(u)
          PROVE  UNCHANGED <<frontier, pending>>
      BY <3>1 DEF TaskStep, ReadRobots, PassGate, BackOff, ObeyRetryAfter, Retry, EndTask,
                  loopVars, queueAndThrottle, queueVars
    <3>2. ~Dispatch /\ ~StopFilling /\ ~Register /\ ~EndRegister /\ \A u \in Probes : ~DispatchProbe(u)
      BY <1>2 DEF Dispatch, StopFilling, Register, EndRegister, DispatchProbe, CanSpawn
    <3>3. (\A u \in Pages : ~JoinPage(u)) /\ \A u \in Probes : ~JoinProbe(u)
      BY <1>2 DEF JoinPage, JoinProbe, Take
    <3>4. ASSUME Tick \/ UNCHANGED vars
          PROVE  UNCHANGED <<frontier, pending>>
      BY <3>4 DEF Tick, loopVars, queueAndThrottle, queueVars, vars
    <3> QED
      BY <3>1, <3>2, <3>3, <3>4 DEF Next, LoopStep, Done
  <2> QED
    BY <1>2, <2>1 DEF StrandedInv, NothingStranded
<1>3. ASSUME ~StopFilling
      PROVE  loop' = loop \/ loop' \in {"fill", "register"}
  <2>1. ASSUME NEW u \in Urls, TaskStep(u)
        PROVE  loop' = loop
    BY <2>1 DEF TaskStep, ReadRobots, PassGate, BackOff, ObeyRetryAfter, Retry, EndTask, loopVars
  <2>2. ASSUME Dispatch \/ Register \/ Tick \/ UNCHANGED vars \/ \E u \in Probes : DispatchProbe(u)
        PROVE  loop' = loop
    BY <2>2 DEF Dispatch, DispatchProbe, Spawn, Register, Tick, loopVars, vars
  <2>3. ASSUME EndRegister \/ (\E u \in Pages : JoinPage(u)) \/ \E u \in Probes : JoinProbe(u)
        PROVE  loop' \in {"fill", "register"}
    BY <2>3 DEF EndRegister, JoinPage, JoinProbe, NothingFound
  <2> QED
    BY <1>3, <2>1, <2>2, <2>3 DEF Next, LoopStep, Done
<1> QED
  BY <1>1, <1>2, <1>3 DEF NothingStranded

(* Nothing is held, queued or counted when the loop starts.                 *)
LEMMA StrandedInit == Init => StrandedInv
<1> SUFFICES ASSUME Init
             PROVE  StrandedInv
  OBVIOUS
<1>1. /\ \A u \in Urls : stage[u] = "none"
      /\ \A h \in Foreign : queue[h] = <<>>
      /\ \A h \in Hosts : slots[h] = 0 /\ pause[h] = 0
      /\ frontier = Seeds /\ seen = {Seeds[i] : i \in DOMAIN Seeds} /\ loop = "fill"
      /\ round = <<>> /\ pending = 0
  BY DEF Init, QueueInit, ThrottleInit
<1>2. IsInjective(<<>>) /\ Range(<<>>) = {}
  BY DEF IsInjective, Range
<1>3. WaitsOnce
  <2>1. Range(Seeds) \subseteq Urls /\ Range(Seeds) = seen
    BY <1>1, SchedulerAssumption DEF Range, Urls
  <2> QED
    BY <1>1, <1>2, <2>1, SchedulerAssumption DEF WaitsOnce, Fresh
<1>4. SlotsCounted
  <2> SUFFICES ASSUME NEW h \in Hosts
               PROVE  IsFiniteSet(Tasks(h)) /\ slots[h] = Cardinality(Tasks(h))
    BY Zenon DEF SlotsCounted
  <2>1. Tasks(h) = {}
    BY <1>1 DEF Tasks, InFlight
  <2>2. IsFiniteSet({}) /\ Cardinality({}) = 0
    BY FS_EmptySet
  <2>3. slots[h] = 0
    BY <1>1
  <2> QED
    BY <2>1, <2>2, <2>3
<1>5. PauseHeld
  BY <1>1 DEF PauseHeld
<1>6. RoundComplete
  BY <1>1, <1>2 DEF RoundComplete
<1>7. PendingCounted
  <2>1. 1..0 = {}
    OBVIOUS
  <2>2. \A h \in Foreign : Len(queue[h]) = 0
    <3>1. \A h \in Foreign : queue[h] = <<>>
      BY <1>1, Zenon
    <3>2. Len(<<>>) = 0
      OBVIOUS
    <3> QED
      BY <3>1, <3>2
  <2>3. \A h \in Foreign : {h} \X (1..Len(queue[h])) = {}
    BY <2>1, <2>2
  <2>4. Waiting = {}
    BY <2>3 DEF Waiting
  <2> QED
    BY <1>1, <2>4, FS_EmptySet DEF PendingCounted
<1> QED
  BY <1>1, <1>3, <1>4, <1>5, <1>6, <1>7 DEF StrandedInv, NothingStranded

(* Why the end of the crawl leaves nothing behind holds in every state.     *)
THEOREM Stranded == Spec => []StrandedInv
<1>1. PoolInv /\ StrandedInv /\ [Next]_vars => StrandedInv'
  BY WaitsOnceStep, SlotsCountedStep, PauseHeldStep, RoundCompleteStep, PendingCountedStep,
     NothingStrandedStep DEF StrandedInv
<1> QED
  BY <1>1, StrandedInit, PoolAlways, PTL DEF Spec

(* The debug_assert of the loop: however many hosts there are, whatever     *)
(* they answer and whatever the limits, when the pool empties there is no   *)
(* page in the frontier and no probe in a queue.                            *)
THEOREM NothingIsStranded == Spec => []NothingStranded
<1>1. StrandedInv => NothingStranded
  BY DEF StrandedInv
<1> QED
  BY <1>1, Stranded, PTL

=============================================================================
