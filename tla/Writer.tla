------------------------------- MODULE Writer -------------------------------
(***************************************************************************)
(* The writer thread of crawlforge-core (writer.rs): a bounded channel, a  *)
(* thread that gathers what comes through it in batches and saves each in  *)
(* one transaction, and a ticker task that wakes it up so that a slow      *)
(* crawl is saved too.  The ticker holds a sender of the same channel,     *)
(* which therefore closes only when the ticker is gone as well.            *)
(*                                                                         *)
(* A result is its number in the order the crawl loop sends it.            *)
(***************************************************************************)
EXTENDS Naturals, Sequences

CONSTANTS
    Capacity,     \* CHANNEL_CAPACITY
    BatchSize,    \* BATCH_SIZE
    MaxResults    \* bound: how many results the crawl loop sends

ASSUME SizesAssumption ==
    /\ Capacity \in Nat \ {0}
    /\ BatchSize \in Nat \ {0}
    /\ MaxResults \in Nat

VARIABLES
    sent,      \* results handed over
    handle,    \* where the owner of the WriterHandle is
    channel,   \* messages in the channel, oldest first
    ticker,    \* the ticker task: "alive", "aborted" and not yet dropped, "gone"
    thread,    \* the writer thread
    batch,     \* what it has gathered
    disk       \* what its transactions have committed, in order

vars == <<sent, handle, channel, ticker, thread, batch, disk>>

Tick     == [kind |-> "tick", n |-> 0]
Finish   == [kind |-> "finish", n |-> 0]
Write(n) == [kind |-> "write", n |-> n]

Message == {Tick, Finish} \cup {Write(n) : n \in 1..MaxResults}

Init ==
    /\ sent = 0
    /\ handle = "open"
    /\ channel = <<>>
    /\ ticker = "alive"
    /\ thread = "opening"
    /\ batch = <<>>
    /\ disk = <<>>

Receiving == thread \in {"opening", "running"}
HasRoom   == Receiving /\ Len(channel) < Capacity

(* The channel is closed once every sender is dropped: the handle's and    *)
(* the ticker's clone.                                                     *)
Closed == handle \in {"joining", "dropped"} /\ ticker = "gone"

-----------------------------------------------------------------------------
(* The owner of the handle. *)

(* Waiting for room in the channel is what slows the crawl down. *)
Send ==
    /\ handle = "open"  /\ HasRoom  /\ sent < MaxResults
    /\ sent' = sent + 1
    /\ channel' = Append(channel, Write(sent + 1))
    /\ UNCHANGED <<handle, ticker, thread, batch, disk>>

Abort == IF ticker = "alive" THEN "aborted" ELSE ticker

(* An error ends the crawl, that of a send to a dead writer among others:  *)
(* the handle is dropped, and TickerGuard aborts the ticker.               *)
Drop ==
    /\ handle = "open"
    /\ handle' = "dropped"
    /\ ticker' = Abort
    /\ UNCHANGED <<sent, channel, thread, batch, disk>>

(* finish: the ticker is aborted, Finish goes behind everything sent, the  *)
(* sender is dropped and the thread joined.                                *)
BeginFinish ==
    /\ handle = "open"
    /\ handle' = "closing"
    /\ ticker' = Abort
    /\ UNCHANGED <<sent, channel, thread, batch, disk>>

SendFinish ==
    /\ handle = "closing"
    /\ \/ HasRoom /\ channel' = Append(channel, Finish)
       \/ ~Receiving /\ UNCHANGED channel
    /\ handle' = "joining"
    /\ UNCHANGED <<sent, ticker, thread, batch, disk>>

Join ==
    /\ handle = "joining"  /\ ~Receiving
    /\ handle' = "joined"
    /\ UNCHANGED <<sent, channel, ticker, thread, batch, disk>>

-----------------------------------------------------------------------------
(* The ticker.  Once aborted it may still finish the send it was in. *)

Beat ==
    /\ ticker # "gone"  /\ HasRoom
    /\ channel' = Append(channel, Tick)
    /\ ticker' = IF ticker = "aborted" THEN "gone" ELSE ticker
    /\ UNCHANGED <<sent, handle, thread, batch, disk>>

TickerEnds ==
    /\ ticker = "aborted" \/ (ticker = "alive" /\ ~Receiving)
    /\ ticker' = "gone"
    /\ UNCHANGED <<sent, handle, channel, thread, batch, disk>>

-----------------------------------------------------------------------------
(* The writer thread. *)

OpenFile ==
    /\ thread = "opening"
    /\ \/ thread' = "running" /\ UNCHANGED channel
       \/ thread' = "failed" /\ channel' = <<>>
    /\ UNCHANGED <<sent, handle, ticker, batch, disk>>

FlushSwallowingErrors(b, rest, after) ==
    /\ disk' \in {disk \o b, disk}
    /\ thread' = after  /\ channel' = rest
    /\ batch' = <<>>

(* One transaction: all of the batch or an error, which ends the thread    *)
(* and drops what it had.  "after" is what the thread does next; one that  *)
(* ends drops the receiver, and the channel with it.                       *)
Flush(b, rest, after) ==
    /\ batch' = <<>>
    /\ \/ /\ disk' = disk \o b
          /\ thread' = after
          /\ channel' = IF after = "running" THEN rest ELSE <<>>
       \/ /\ b # <<>>
          /\ thread' = "failed"
          /\ channel' = <<>>
          /\ UNCHANGED disk

Receive(kind) ==
    /\ thread = "running"  /\ channel # <<>>  /\ Head(channel).kind = kind
    /\ UNCHANGED <<sent, handle, ticker>>

Gathered == Append(batch, Head(channel).n)

Gather ==
    /\ Receive("write")  /\ Len(Gathered) < BatchSize
    /\ batch' = Gathered
    /\ channel' = Tail(channel)
    /\ UNCHANGED <<thread, disk>>

FlushFull ==
    /\ Receive("write")  /\ Len(Gathered) >= BatchSize
    /\ Flush(Gathered, Tail(channel), "running")

FlushOnlyWhenFull ==
    /\ Receive("tick")
    /\ channel' = Tail(channel)
    /\ UNCHANGED <<thread, batch, disk>>

FlushOnTick ==
    /\ Receive("tick")
    /\ Flush(batch, Tail(channel), "running")

(* Finish, or a closed channel: what was gathered is saved all the same. *)
LastFlush ==
    /\ thread = "running"
    /\ \/ channel # <<>> /\ Head(channel).kind = "finish"
       \/ channel = <<>> /\ Closed
    /\ Flush(batch, <<>>, "ok")
    /\ UNCHANGED <<sent, handle, ticker>>

-----------------------------------------------------------------------------
(* The process dies with everything but the file. *)
Crash ==
    /\ handle \notin {"joined", "dead"}
    /\ handle' = "dead"
    /\ channel' = <<>>  /\ batch' = <<>>
    /\ thread' = "dead"  /\ ticker' = "gone"
    /\ UNCHANGED <<sent, disk>>

Over ==
    /\ handle \in {"joined", "dropped", "dead"}  /\ ~Receiving  /\ ticker = "gone"
    /\ UNCHANGED vars

Thread == OpenFile \/ Gather \/ FlushFull \/ FlushOnTick \/ LastFlush

Next ==
    \/ Send \/ Drop \/ BeginFinish \/ SendFinish \/ Join
    \/ Beat \/ TickerEnds
    \/ Thread
    \/ Crash \/ Over

(* The thread and the ticker are always scheduled, and whoever is          *)
(* finishing goes on; nothing obliges the crawl loop to send or to finish. *)
Spec ==
    /\ Init  /\ [][Next]_vars
    /\ WF_vars(Thread)  /\ WF_vars(Beat)  /\ WF_vars(TickerEnds)
    /\ WF_vars(SendFinish)  /\ WF_vars(Join)

-----------------------------------------------------------------------------
(* Properties. *)

(* The variables keep their types. *)
TypeOK ==
    /\ sent \in 0..MaxResults
    /\ handle \in {"open", "closing", "joining", "joined", "dropped", "dead"}
    /\ channel \in Seq(Message)  /\ Len(channel) <= Capacity
    /\ ticker \in {"alive", "aborted", "gone"}
    /\ thread \in {"opening", "running", "ok", "failed", "dead"}
    /\ batch \in Seq(1..MaxResults)  /\ Len(batch) < BatchSize
    /\ disk \in Seq(1..MaxResults)

(* What finish tells its caller. *)
Outcome ==
    CASE handle = "joined" /\ thread = "ok" -> "ok"
      [] handle \in {"open", "closing", "joining"} -> "open"
      [] OTHER -> "error"

Log == INSTANCE ResultLog WITH
    Result  <- 1..MaxResults,
    sent    <- [i \in 1..sent |-> i],
    saved   <- disk,
    outcome <- Outcome

(* Through channel, batches, ticks and failures, what the crawl loop sends *)
(* is saved in order and without gaps, and finish says so only if nothing  *)
(* is missing.                                                             *)
SavesAPrefix == Log!Spec

(* What was sent does not wait for the batch to fill: unless the writer    *)
(* fails, each result is in the file some time later, although the crawl   *)
(* loop sends nothing else.  And however the handle goes, finished or      *)
(* dropped by an error, the thread ends, and with it the connection that   *)
(* writes in the file, although its own ticker holds its channel open.     *)
SavedInTime ==
    /\ \A n \in 1..MaxResults :
         sent >= n ~> Len(disk) >= n \/ thread \in {"failed", "dead"}
    /\ handle # "open" ~> ~Receiving

=============================================================================
