------------------------------ MODULE Throttle ------------------------------
(***************************************************************************)
(* The per-host brake of throttle.rs: how many requests of a host may be   *)
(* in flight, halved by a streak of overloaded answers and recovered one   *)
(* at a time, one for good when the site or politeness asks for it, and a  *)
(* pause while a Retry-After lasts.                                        *)
(*                                                                         *)
(* A host nobody has recorded is at its default, so the map that fills in  *)
(* as hosts appear is a total function.  Instants are counted down.        *)
(***************************************************************************)
EXTENDS Integers

CONSTANTS
    Hosts,
    DefaultLimit,     \* the concurrency the user asked for
    OverloadStreak,   \* OVERLOAD_STREAK
    RecoveryStreak,   \* RECOVERY_STREAK
    MaxWait           \* bound: the longest Retry-After, in ticks

ASSUME ThrottleAssumption ==
    /\ DefaultLimit \in Nat \ {0}
    /\ OverloadStreak \in Nat \ {0}
    /\ RecoveryStreak \in Nat \ {0}
    /\ MaxWait \in Nat \ {0}

VARIABLES
    limit,       \* requests of each host that may be in flight
    ceiling,     \* what its limit recovers up to
    overloaded,  \* overload_streak, counted up to the streak that matters
    good,        \* good_streak, likewise
    pause        \* ticks left of the pause of each host

throttleVars == <<limit, ceiling, overloaded, good, pause>>

MinConcurrency == 1

ThrottleInit ==
    /\ limit = [h \in Hosts |-> DefaultLimit]
    /\ ceiling = [h \in Hosts |-> DefaultLimit]
    /\ overloaded = [h \in Hosts |-> 0]
    /\ good = [h \in Hosts |-> 0]
    /\ pause = [h \in Hosts |-> 0]

(* has_room: what a page needs. *)
HasRoom(h, inFlight) == pause[h] = 0 /\ inFlight < limit[h]

(* A probe only minds the limit. *)
HasRoomForProbe(h, inFlight) == inFlight < limit[h]

Capped(n, streak) == IF n < streak THEN n ELSE streak

RecordOverload(h) ==
    LET streak == Capped(overloaded[h] + 1, OverloadStreak)
        halve  == streak = OverloadStreak /\ limit[h] > MinConcurrency
    IN  /\ good' = [good EXCEPT ![h] = 0]
        /\ limit' = IF halve THEN [limit EXCEPT ![h] = @ \div 2] ELSE limit
        /\ overloaded' = [overloaded EXCEPT ![h] = IF halve THEN 0 ELSE streak]
        /\ UNCHANGED <<ceiling, pause>>

RecordGood(h) ==
    LET streak  == Capped(good[h] + 1, RecoveryStreak)
        recover == streak = RecoveryStreak /\ limit[h] < ceiling[h]
    IN  /\ overloaded' = [overloaded EXCEPT ![h] = 0]
        /\ limit' = IF recover THEN [limit EXCEPT ![h] = @ + 1] ELSE limit
        /\ good' = [good EXCEPT ![h] = IF recover THEN 0 ELSE streak]
        /\ UNCHANGED <<ceiling, pause>>

(* A 404 breaks the streak of overload and is no sign of health. *)
RecordBad(h) ==
    /\ overloaded' = [overloaded EXCEPT ![h] = 0]
    /\ UNCHANGED <<limit, ceiling, good, pause>>

(* One request at a time, and no recovery. *)
ForceSerial(h) ==
    /\ limit' = [limit EXCEPT ![h] = MinConcurrency]
    /\ ceiling' = [ceiling EXCEPT ![h] = MinConcurrency]
    /\ UNCHANGED <<overloaded, good, pause>>

PauseReplacing(h, ticks) ==
    /\ pause' = [pause EXCEPT ![h] = ticks]
    /\ UNCHANGED <<limit, ceiling, overloaded, good>>

(* A longer pause stays. *)
Pause(h, ticks) ==
    /\ pause' = [pause EXCEPT ![h] = IF @ > ticks THEN @ ELSE ticks]
    /\ UNCHANGED <<limit, ceiling, overloaded, good>>

PauseTicks ==
    /\ pause' = [h \in Hosts |-> IF pause[h] > 0 THEN pause[h] - 1 ELSE 0]
    /\ UNCHANGED <<limit, ceiling, overloaded, good>>

(* The limit of a host is never zero, which would leave its pages in the   *)
(* queue for ever, nor above what the user asked for.                      *)
ThrottleTypeOK ==
    /\ ceiling \in [Hosts -> 1..DefaultLimit]
    /\ limit \in [Hosts -> 1..DefaultLimit]
    /\ \A h \in Hosts : limit[h] <= ceiling[h]
    /\ overloaded \in [Hosts -> 0..OverloadStreak]
    /\ good \in [Hosts -> 0..RecoveryStreak]
    /\ pause \in [Hosts -> 0..MaxWait]
=============================================================================
