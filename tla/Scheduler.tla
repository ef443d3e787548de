----------------------------- MODULE Scheduler -----------------------------
(***************************************************************************)
(* The pool of requests of the crawl loop (engine.rs): pages leave the     *)
(* frontier and probes the external queue for as long as their hosts have  *)
(* room, every task reads robots.txt, waits for its turn on a slow host    *)
(* (CrawlDelayGate), asks, retries, and sleeps through a Retry-After; the  *)
(* loop takes the answers one by one and brakes the hosts by them.         *)
(*                                                                         *)
(* CrawlEngine models what becomes of each page in the crawl file; here a  *)
(* page is something to be asked for that may discover others.             *)
(***************************************************************************)
EXTENDS Throttle, ExternalQueue

CONSTANTS
    Pages,         \* URLs of the site or sites that are crawled
    PageHost(_),   \* the host of each
    NoUrl,         \* a value that is not a URL
    Seeds,         \* the pages in the frontier when the loop starts, in order
    Found(_),      \* the URLs a page leads to, in order
    MaybeSlow,     \* hosts whose robots.txt may declare a Crawl-delay
    MaxScan,       \* MAX_FRONTIER_SCAN
    MaxInFlight,   \* MAX_TOTAL_IN_FLIGHT
    MaxRetries,    \* retries of the fetcher
    Delay          \* the Crawl-delay of the hosts that ask for one, in ticks

Urls    == Pages \cup Probes
Host(u) == IF u \in Pages THEN PageHost(u) ELSE ProbeHost(u)

ASSUME SchedulerAssumption ==
    /\ Pages \cap Probes = {}  /\ NoUrl \notin Urls
    /\ Foreign \subseteq Hosts  /\ MaybeSlow \subseteq Hosts \ Foreign
    /\ \A u \in Pages : PageHost(u) \in Hosts \ Foreign
    /\ Seeds \in Seq(Pages) /\ IsInjective(Seeds)
    /\ MaxScan \in Nat \ {0} /\ MaxInFlight \in Nat \ {0}
    /\ MaxRetries \in Nat /\ Delay \in Nat \ {0}

VARIABLES
    slow,       \* hosts whose robots.txt declares a Crawl-delay
    loop,       \* the crawl loop: "fill", "wait", "register", "done"
    frontier,   \* pages to ask for, in breadth-first order
    seen,       \* URLs the frontier has seen
    found,      \* what the page in hand leads to and is not registered yet
    slots,      \* in_flight_by_host
    stage,      \* where the task of each URL is
    left,       \* ticks left of its sleep
    attempts,   \* retries it has made, if it is running
    permit,     \* the task that holds the gate of each host
    delay       \* ticks until that gate lets the next request start

queueAndThrottle == <<throttleVars, queueVars>>
loopVars == <<loop, frontier, seen, found, slots>>
taskVars == <<stage, left, attempts>>
gateVars == <<permit, delay>>
vars     == <<slow, queueAndThrottle, loopVars, taskVars, gateVars>>

(* How a task may end.  The timeout or the dropped connection of a page is *)
(* an overload, like a 429 or a 503, and that of a probe just a failure.   *)
Outcomes == {"good", "bad", "overload", "failed", "panic"}
InFlight == {u \in Urls : stage[u] \notin {"none", "joined"}}

Init ==
    /\ slow \in SUBSET MaybeSlow
    /\ loop = "fill"
    /\ frontier = Seeds
    /\ seen = {Seeds[i] : i \in DOMAIN Seeds}
    /\ found = <<>>
    /\ slots = [h \in Hosts |-> 0]
    /\ stage = [u \in Urls |-> "none"]
    /\ left = [u \in Urls |-> 0]
    /\ attempts = [u \in Urls |-> 0]
    /\ permit = [h \in Hosts |-> NoUrl]
    /\ delay = [h \in Hosts |-> 0]
    /\ ThrottleInit
    /\ QueueInit

-----------------------------------------------------------------------------
(* The crawl loop fills the pool. *)

Spawn(u, first) ==
    /\ slots' = [slots EXCEPT ![Host(u)] = @ + 1]
    /\ stage' = [stage EXCEPT ![u] = first]
    /\ UNCHANGED <<loop, seen, found, left, attempts, gateVars, slow, throttleVars>>

CanSpawn == loop = "fill" /\ Cardinality(InFlight) < MaxInFlight

Scanned == 1..(IF Len(frontier) < MaxScan THEN Len(frontier) ELSE MaxScan)
PageReady(i) == HasRoom(PageHost(frontier[i]), slots[PageHost(frontier[i])])

(* The first page, among those looked at, whose host has room. *)
Dispatch ==
    /\ CanSpawn
    /\ \E i \in Scanned :
         /\ PageReady(i)
         /\ \A j \in 1..(i-1) : ~PageReady(j)
         /\ frontier' = RemoveAt(frontier, i)
         /\ Spawn(frontier[i], "robots")
    /\ UNCHANGED queueVars

NoPageReady == \A i \in Scanned : ~PageReady(i)
ProbeReady == {h \in Foreign : HasRoomForProbe(h, slots[h])}

(* A probe only when there is no page to ask for. *)
DispatchProbe(u) ==
    /\ CanSpawn
    /\ NoPageReady
    /\ NextProbe(u, ProbeReady)
    /\ Spawn(u, "request")
    /\ UNCHANGED frontier

(* Nothing fits. Without a task in flight that means there is nothing      *)
(* left.                                                                   *)
StopFilling ==
    /\ loop = "fill"
    /\ \/ Cardinality(InFlight) = MaxInFlight
       \/ NoPageReady /\ \A i \in DOMAIN round : round[i] \notin ProbeReady
    /\ loop' = IF InFlight = {} THEN "done" ELSE "wait"
    /\ UNCHANGED <<slow, queueAndThrottle, frontier, seen, found, slots,
                   taskVars, gateVars>>

-----------------------------------------------------------------------------
(* A task. *)

TaskGoes(u, from, to) == stage[u] = from /\ stage' = [stage EXCEPT ![u] = to]

(* The robots.txt of its host: it may forbid the page, and a Crawl-delay   *)
(* brings the host to one request at a time.                               *)
ReadRobots(u) ==
    /\ \/ Host(u) \in slow /\ TaskGoes(u, "robots", "gate") /\ ForceSerial(Host(u))
       \/ Host(u) \notin slow /\ TaskGoes(u, "robots", "request") /\ UNCHANGED throttleVars
       \/ /\ TaskGoes(u, "robots", "failed") \/ TaskGoes(u, "robots", "panic")
          /\ UNCHANGED throttleVars
    /\ UNCHANGED <<slow, loopVars, queueVars, left, attempts, gateVars>>

PassGateAtOnce(u) ==
    /\ TaskGoes(u, "gate", "request")
    /\ UNCHANGED <<slow, loopVars, queueAndThrottle, left, attempts, gateVars>>

(* The permit of the host, once the delay since the last start is over. *)
PassGate(u) ==
    LET h == Host(u) IN
      /\ TaskGoes(u, "gate", "request")
      /\ permit[h] = NoUrl  /\ delay[h] = 0
      /\ permit' = [permit EXCEPT ![h] = u]
      /\ delay' = [delay EXCEPT ![h] = Delay]
      /\ UNCHANGED <<slow, loopVars, queueAndThrottle, left, attempts>>

(* A retry for want of an answer, or of a good one: after a while. *)
BackOff(u) ==
    /\ u \in Pages  /\ attempts[u] < MaxRetries
    /\ TaskGoes(u, "request", "backoff")
    /\ attempts' = [attempts EXCEPT ![u] = @ + 1]
    /\ UNCHANGED <<slow, loopVars, queueAndThrottle, left, gateVars>>

(* Or after a Retry-After, which pauses the whole host; this task sleeps   *)
(* in its slot as long as the pause lasts, and never less than a back-off. *)
ObeyRetryAfter(u) ==
    /\ u \in Pages  /\ attempts[u] < MaxRetries
    /\ TaskGoes(u, "request", "obey")
    /\ attempts' = [attempts EXCEPT ![u] = @ + 1]
    /\ \E ticks \in 1..MaxWait :
         /\ left' = [left EXCEPT ![u] = ticks]
         /\ Pause(Host(u), ticks)
    /\ UNCHANGED <<slow, loopVars, queueVars, gateVars>>

(* The sleep is over.  A back-off may take any time.                       *)
Retry(u) ==
    /\ \/ TaskGoes(u, "backoff", "request")
       \/ left[u] = 0 /\ TaskGoes(u, "obey", "request")
    /\ UNCHANGED <<slow, loopVars, queueAndThrottle, left, attempts, gateVars>>

DropPermit(u) ==
    permit' = [h \in Hosts |-> IF permit[h] = u THEN NoUrl ELSE permit[h]]

EndTaskKeepingPermit(u) ==
    /\ \E outcome \in Outcomes : TaskGoes(u, "request", outcome)
    /\ attempts' = [attempts EXCEPT ![u] = 0]
    /\ UNCHANGED <<slow, loopVars, queueAndThrottle, left, gateVars>>

(* The answer, the failure, or a panic: the permit goes with the task. *)
EndTask(u) ==
    /\ \E outcome \in Outcomes : TaskGoes(u, "request", outcome)
    /\ DropPermit(u)
    /\ attempts' = [attempts EXCEPT ![u] = 0]
    /\ UNCHANGED <<slow, loopVars, queueAndThrottle, left, delay>>

Tick ==
    /\ \/ \E h \in Hosts : pause[h] > 0 \/ delay[h] > 0
       \/ \E u \in Urls : left[u] > 0
    /\ left' = [u \in Urls |-> IF left[u] > 0 THEN left[u] - 1 ELSE 0]
    /\ delay' = [h \in Hosts |-> IF delay[h] > 0 THEN delay[h] - 1 ELSE 0]
    /\ PauseTicks
    /\ UNCHANGED <<slow, loopVars, queueVars, stage, attempts, permit>>

-----------------------------------------------------------------------------
(* The crawl loop takes an answer. *)

(* By the task and not by its answer: a task that panics has none. *)
FreeSlot(u) == slots' = [slots EXCEPT ![Host(u)] = @ - 1]

Take(u, outcome) ==
    /\ loop = "wait"
    /\ TaskGoes(u, outcome, "joined")
    /\ FreeSlot(u)
    /\ UNCHANGED <<slow, frontier, seen, left, attempts, gateVars>>

NothingFound == loop' = "fill" /\ UNCHANGED found

JoinPage(u) ==
    /\ \/ /\ Take(u, "good")  /\ RecordGood(PageHost(u))
          /\ found' = Found(u)  /\ loop' = "register"
       \/ Take(u, "bad") /\ RecordBad(PageHost(u)) /\ NothingFound
       \/ Take(u, "overload") /\ RecordOverload(PageHost(u)) /\ NothingFound
       \/ Take(u, "failed") /\ UNCHANGED throttleVars /\ NothingFound
       \/ Take(u, "panic") /\ UNCHANGED throttleVars /\ NothingFound
    /\ UNCHANGED queueVars

JoinProbe(u) ==
    LET h == ProbeHost(u) IN
      /\ \/ Take(u, "good") /\ RecordGood(h) /\ ProbeAnswered(h)
         \/ Take(u, "bad") /\ RecordBad(h) /\ ProbeAnswered(h)
         \/ Take(u, "overload") /\ RecordOverload(h) /\ ProbeOverloaded(h)
         \/ Take(u, "failed") /\ UNCHANGED throttleVars /\ ProbeFailed(h)
         \/ Take(u, "panic") /\ UNCHANGED <<throttleVars, queueVars>>
      /\ NothingFound

(* What the page leads to is registered one by one, before the pool is     *)
(* filled again; a page goes where its depth puts it.                      *)
Register ==
    /\ loop = "register"  /\ found # <<>>
    /\ LET u == Head(found)
           new == u \notin seen IN
         /\ seen' = seen \cup {u}
         /\ IF new /\ u \in Pages
            THEN \E i \in 1..(Len(frontier) + 1) : frontier' = InsertAt(frontier, i, u)
            ELSE UNCHANGED frontier
         /\ IF new /\ u \in Probes
            THEN /\ ForceSerial(ProbeHost(u))
                 /\ \/ Push(u)
                    \/ ~Accepts(ProbeHost(u)) /\ UNCHANGED queueVars
            ELSE UNCHANGED queueAndThrottle
    /\ found' = Tail(found)
    /\ UNCHANGED <<slow, loop, slots, taskVars, gateVars>>

EndRegister ==
    /\ loop = "register"  /\ found = <<>>
    /\ loop' = "fill"
    /\ UNCHANGED <<slow, queueAndThrottle, frontier, seen, found, slots,
                   taskVars, gateVars>>

Done == loop = "done" /\ UNCHANGED vars

TaskStep(u) ==
    \/ ReadRobots(u) \/ PassGate(u)
    \/ BackOff(u) \/ ObeyRetryAfter(u) \/ Retry(u)
    \/ EndTask(u)

LoopStep ==
    \/ Dispatch \/ \E u \in Probes : DispatchProbe(u)
    \/ StopFilling
    \/ \E u \in Pages : JoinPage(u)
    \/ \E u \in Probes : JoinProbe(u)
    \/ Register \/ EndRegister

Next ==
    \/ LoopStep
    \/ \E u \in Urls : TaskStep(u)
    \/ Tick
    \/ Done

Spec == Init /\ [][Next]_vars

(* Every request has a timeout, and nothing stops the loop, the tasks or   *)
(* the clock all at once: what can go on, goes on.  Nothing is said of     *)
(* which of them does.                                                     *)
FairSpec == Spec /\ WF_vars(Next)

-----------------------------------------------------------------------------
(* Properties. *)

(* The variables keep their types.                                         *)
TypeOK ==
    /\ ThrottleTypeOK
    /\ slow \subseteq Hosts
    /\ loop \in {"fill", "wait", "register", "done"}
    /\ frontier \in Seq(Pages)
    /\ seen \subseteq Urls
    /\ found \in Seq(Urls)
    /\ stage \in [Urls -> {"none", "robots", "gate", "request", "backoff", "obey",
                           "joined"} \cup Outcomes]
    /\ left \in [Urls -> 0..MaxWait]
    /\ attempts \in [Urls -> 0..MaxRetries]
    /\ permit \in [Hosts -> Urls \cup {NoUrl}]
    /\ delay \in [Hosts -> 0..Delay]
    /\ closed \in [Foreign -> Closings]

(* When the loop sees an empty pool there is nothing left to ask for: the  *)
(* debug_assert of the loop.  A paused host, a host with no room or a      *)
(* frontier longer than the scan never ends the crawl.                     *)
NothingStranded == loop = "done" => frontier = <<>> /\ pending = 0

(* A host that asked to be left alone with a Retry-After gets no new page  *)
(* while any of its tasks is still sleeping through it.                    *)
RetryAfterObeyed ==
    [][\A u, t \in Pages :
         stage[u] = "none" /\ stage'[u] = "robots" /\ Host(t) = Host(u)
           => ~(stage[t] = "obey" /\ left[t] > 0)]_vars

Fresh(u) == u \in seen /\ stage[u] = "none"

(* What waits has been seen, so that it does not wait twice, and has not   *)
(* been asked for: no URL leaves for a second time.                        *)
WaitsOnce ==
    /\ IsInjective(frontier) /\ \A u \in Range(frontier) : Fresh(u)
    /\ \A h \in Foreign : IsInjective(queue[h]) /\ \A u \in Range(queue[h]) : Fresh(u)
    /\ \A u \in Urls : stage[u] # "none" => u \in seen

Tasks(h) == {u \in InFlight : Host(u) = h}

(* in_flight_by_host counts the tasks of each host that have not been      *)
(* joined, however they ended.                                             *)
SlotsCounted == \A h \in Hosts : IsFiniteSet(Tasks(h)) /\ slots[h] = Cardinality(Tasks(h))

(* A pause lasts no longer than the sleep of one of those who asked for it.*)
PauseHeld ==
    \A h \in Hosts : pause[h] > 0 =>
      \E t \in Pages : Host(t) = h /\ stage[t] = "obey" /\ left[t] >= pause[h]

(* The hosts of the round are those that have work, each in one place.     *)
RoundComplete ==
    /\ round \in Seq(Foreign)  /\ IsInjective(round)
    /\ Range(round) = {h \in Foreign : queue[h] # <<>>}

Waiting == UNION {{h} \X (1..Len(queue[h])) : h \in Foreign}

(* pending counts what waits in all the queues.                            *)
PendingCounted == IsFiniteSet(Waiting) /\ pending = Cardinality(Waiting)

(* Why an empty pool means that there is nothing left: all that holds a    *)
(* page or a probe back, a slot or a pause, is held by a task in flight,   *)
(* and a probe that waits is counted and its host has its turn.            *)
StrandedInv ==
    /\ WaitsOnce  /\ SlotsCounted  /\ PauseHeld
    /\ RoundComplete  /\ PendingCounted
    /\ NothingStranded

Asking(h) == {u \in Urls : Host(u) = h /\ stage[u] = "request"}

(* A host with a Crawl-delay never has two requests at once, not even in   *)
(* the first wave, which leaves before its robots.txt is known; nor does a *)
(* foreign host, whatever it answers.                                      *)
SerialHosts == \A h \in slow \cup Foreign : Cardinality(Asking(h)) <= 1

(* The pool always empties and the loop ends. *)
LoopEnds == <>(loop = "done")

=============================================================================
