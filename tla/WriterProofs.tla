----------------------------- MODULE WriterProofs -----------------------------
(***************************************************************************)
(* Proofs about the writer thread, for any capacity of the channel, any     *)
(* size of the batches and any number of results: it implements ResultLog.  *)
(***************************************************************************)
EXTENDS Writer, TLAPS

(* What is on its way: the results in the file, those gathered and those in *)
(* the channel are, in this order, all that was sent.                       *)
Gone == Len(disk) + Len(batch)

DiskInv  == \A i \in 1..Len(disk) : disk[i] = i
BatchInv == Gone <= sent /\ \A i \in 1..Len(batch) : batch[i] = Len(disk) + i
OrderInv ==
    /\ \A i, j \in 1..Len(channel) :
         i < j /\ channel[i].kind = "write" /\ channel[j].kind = "write" => channel[i].n < channel[j].n
    /\ \A i \in 1..Len(channel) :
         channel[i].kind = "write" => channel[i].n > Gone /\ channel[i].n <= sent
NoneLost ==
    Receiving => \A n \in 1..sent : n > Gone => \E i \in 1..Len(channel) : channel[i] = Write(n)

(* Nothing is sent behind Finish, and a thread that ends drops its channel. *)
FinishInv ==
    /\ \A i, j \in 1..Len(channel) : i < j /\ channel[i].kind = "finish" => channel[j].kind # "write"
    /\ \A i \in 1..Len(channel) : channel[i].kind = "finish" => handle = "joining"
    /\ ~Receiving => channel = <<>>

(* A thread that ended well has saved all that was sent.                    *)
EndInv ==
    /\ thread = "ok" => Len(disk) = sent /\ handle \in {"joining", "joined", "dropped"}
    /\ handle = "joined" => ~Receiving

WriterInv == TypeOK /\ DiskInv /\ BatchInv /\ OrderInv /\ NoneLost /\ FinishInv /\ EndInv

(* Messages are told apart by their kind.                                   *)
LEMMA MessageKinds ==
  /\ Tick \in Message /\ Finish \in Message /\ \A n \in 1..MaxResults : Write(n) \in Message
  /\ \A m \in Message : m.kind = "write" => m.n \in 1..MaxResults /\ m = Write(m.n)
  /\ Tick.kind = "tick" /\ Finish.kind = "finish" /\ \A n \in Nat : Write(n).kind = "write" /\ Write(n).n = n
<1>1. Tick \in Message /\ Finish \in Message /\ Tick.kind = "tick" /\ Finish.kind = "finish"
  BY DEF Message, Tick, Finish
<1>2. \A n \in 1..MaxResults : Write(n) \in Message
  BY DEF Message
<1>3. \A n \in Nat : Write(n).kind = "write" /\ Write(n).n = n
  BY DEF Write
<1>4. ASSUME NEW m \in Message, m.kind = "write" PROVE m.n \in 1..MaxResults /\ m = Write(m.n)
  <2>1. PICK n \in 1..MaxResults : m = Write(n)
    BY <1>1, <1>4 DEF Message
  <2>2. n \in Nat
    BY SizesAssumption
  <2>3. m.n = n
    BY <1>3, <2>1, <2>2
  <2> QED
    BY <2>1, <2>3
<1> QED
  BY <1>1, <1>2, <1>3, <1>4

(* Nothing was sent when the thread starts.                                 *)
LEMMA WriterInit == Init => WriterInv
BY SizesAssumption DEF Init, WriterInv, TypeOK, DiskInv, BatchInv, OrderInv, NoneLost, FinishInv, EndInv, Gone, Receiving

(* A message put behind the others leaves them where they were.             *)
LEMMA Behind ==
  ASSUME NEW s \in Seq(Message), NEW m \in Message
  PROVE  /\ Append(s, m) \in Seq(Message) /\ Len(Append(s, m)) = Len(s) + 1
         /\ \A i \in 1..Len(s) : Append(s, m)[i] = s[i]
         /\ Append(s, m)[Len(s) + 1] = m
OBVIOUS

(* One taken from the front moves the others.                               *)
LEMMA InFront ==
  ASSUME NEW s \in Seq(Message), s # <<>>
  PROVE  /\ Tail(s) \in Seq(Message) /\ Len(Tail(s)) = Len(s) - 1 /\ Len(s) > 0
         /\ \A i \in 1..Len(s) - 1 : Tail(s)[i] = s[i + 1]
         /\ Head(s) = s[1] /\ Head(s) \in Message
OBVIOUS

(* A result that is sent goes behind those before it.                       *)
LEMMA SendKeeps == WriterInv /\ Send => WriterInv'
<1> SUFFICES ASSUME WriterInv, Send
             PROVE  WriterInv'
  OBVIOUS
<1> USE SizesAssumption
<1>1. /\ channel \in Seq(Message) /\ sent + 1 \in 1..MaxResults /\ sent' = sent + 1 /\ handle = "open" /\ HasRoom
      /\ channel' = Append(channel, Write(sent + 1)) /\ Write(sent + 1) \in Message
      /\ UNCHANGED <<handle, ticker, thread, batch, disk>>
  BY MessageKinds DEF Send, WriterInv, TypeOK
<1>2. TypeOK'
  BY <1>1, Behind DEF WriterInv, TypeOK, HasRoom
<1>3. Gone' = Gone /\ Gone \in Nat /\ Gone <= sent /\ sent \in Nat
  BY <1>1 DEF Gone, WriterInv, BatchInv, TypeOK
<1>4. DiskInv' /\ BatchInv'
  BY <1>1, <1>3 DEF WriterInv, DiskInv, BatchInv
<1>5. Write(sent + 1).kind = "write" /\ Write(sent + 1).n = sent + 1
  BY DEF Write
<1>6. Len(channel') = Len(channel) + 1 /\ Len(channel) \in Nat /\ (\A i \in 1..Len(channel) : channel'[i] = channel[i]) /\ channel'[Len(channel) + 1] = Write(sent + 1)
  BY <1>1, Behind
<1>7. OrderInv'
  <2>1. ASSUME NEW i \in 1..Len(channel'), channel'[i].kind = "write" PROVE channel'[i].n > Gone /\ channel'[i].n <= sent + 1
    <3>1. CASE i = Len(channel) + 1
      BY <1>3, <1>5, <1>6, <3>1
    <3>2. CASE i # Len(channel) + 1
      <4>1. i \in 1..Len(channel) /\ channel[i] \in Message
        BY <1>1, <1>6, <3>2
      <4>2. channel[i].n \in 1..MaxResults
        BY <4>1, <1>6, <2>1, MessageKinds
      <4> QED
        BY <1>3, <1>6, <2>1, <4>1, <4>2 DEF WriterInv, OrderInv
    <3> QED
      BY <3>1, <3>2
  <2>2. ASSUME NEW i \in 1..Len(channel'), NEW j \in 1..Len(channel'), i < j, channel'[i].kind = "write", channel'[j].kind = "write"
        PROVE  channel'[i].n < channel'[j].n
    <3>1. i \in 1..Len(channel) /\ channel[i] \in Message
      BY <1>1, <1>6, <2>2
    <3>2. channel[i].n \in 1..MaxResults /\ channel[i].n <= sent
      BY <3>1, <1>6, <2>2, MessageKinds DEF WriterInv, OrderInv
    <3>3. CASE j = Len(channel) + 1
      BY <1>3, <1>5, <1>6, <3>1, <3>2, <3>3
    <3>4. CASE j # Len(channel) + 1
      BY <1>6, <2>2, <3>1, <3>4 DEF WriterInv, OrderInv
    <3> QED
      BY <3>3, <3>4
  <2> QED
    BY <1>1, <1>3, <2>1, <2>2 DEF OrderInv
<1>8. NoneLost'
  <2> SUFFICES ASSUME Receiving', NEW n \in 1..sent', n > Gone'
               PROVE  \E i \in 1..Len(channel') : channel'[i] = Write(n)
    BY DEF NoneLost
  <2>1. CASE n = sent + 1
    BY <1>6, <2>1
  <2>2. CASE n # sent + 1
    <3>1. PICK i \in 1..Len(channel) : channel[i] = Write(n)
      BY <1>1, <1>3, <2>2 DEF WriterInv, NoneLost, HasRoom
    <3> QED
      BY <1>6, <3>1
  <2> QED
    BY <2>1, <2>2
<1>9. FinishInv'
  BY <1>1, <1>5, <1>6 DEF WriterInv, FinishInv, HasRoom, Receiving
<1>10. EndInv'
  BY <1>1 DEF WriterInv, EndInv, HasRoom, Receiving
<1> QED
  BY <1>2, <1>4, <1>7, <1>8, <1>9, <1>10 DEF WriterInv

(* A message that is no result goes behind the others: a tick, or Finish.   *)
LEMMA OtherBehind ==
  ASSUME WriterInv, NEW m \in Message, m.kind # "write", HasRoom, channel' = Append(channel, m),
         UNCHANGED <<sent, thread, batch, disk>>,
         m.kind = "finish" => handle' = "joining", handle' = handle \/ handle # "joining"
  PROVE  /\ channel' \in Seq(Message) /\ Len(channel') <= Capacity
         /\ DiskInv' /\ BatchInv' /\ OrderInv' /\ NoneLost' /\ FinishInv'
<1> USE SizesAssumption
<1>1. /\ channel \in Seq(Message) /\ Len(channel) < Capacity /\ Receiving /\ Receiving'
      /\ DiskInv /\ BatchInv /\ OrderInv /\ NoneLost /\ FinishInv
  BY DEF WriterInv, TypeOK, HasRoom, Receiving
<1>2. /\ Len(channel') = Len(channel) + 1 /\ Len(channel) \in Nat /\ channel' \in Seq(Message)
      /\ (\A i \in 1..Len(channel) : channel'[i] = channel[i]) /\ channel'[Len(channel) + 1] = m
  BY <1>1, Behind
<1>3. Gone' = Gone
  BY DEF Gone
<1>4. \A i \in 1..Len(channel') : channel'[i].kind = "write" => i \in 1..Len(channel)
  BY <1>2
<1>5. DiskInv' /\ BatchInv'
  BY <1>1, <1>3 DEF DiskInv, BatchInv
<1>6. OrderInv'
  BY <1>1, <1>2, <1>3, <1>4 DEF OrderInv
<1>7. NoneLost'
  BY <1>1, <1>2, <1>3 DEF NoneLost
<1>8. FinishInv'
  <2>1. ASSUME NEW i \in 1..Len(channel'), NEW j \in 1..Len(channel'), i < j, channel'[i].kind = "finish"
        PROVE  channel'[j].kind # "write"
    <3>1. CASE j \in 1..Len(channel)
      <4>1. i \in 1..Len(channel)
        BY <1>2, <2>1, <3>1
      <4>2. channel'[i] = channel[i] /\ channel'[j] = channel[j]
        BY <1>2, <3>1, <4>1
      <4> QED
        BY <1>1, <2>1, <3>1, <4>1, <4>2 DEF FinishInv
    <3>2. CASE j \notin 1..Len(channel)
      BY <1>4, <3>2
    <3> QED
      BY <3>1, <3>2
  <2>2. ASSUME NEW i \in 1..Len(channel'), channel'[i].kind = "finish"
        PROVE  handle' = "joining"
    <3>1. CASE i = Len(channel) + 1
      BY <1>2, <2>2, <3>1
    <3>2. CASE i # Len(channel) + 1
      BY <1>1, <1>2, <2>2, <3>2 DEF FinishInv
    <3> QED
      BY <3>1, <3>2
  <2> QED
    BY <1>1, <2>1, <2>2 DEF FinishInv
<1> QED
  BY <1>1, <1>2, <1>5, <1>6, <1>7, <1>8

(* A channel that is dropped with its receiver needs no more care.          *)
LEMMA NoChannel ==
  ASSUME channel' = <<>>
  PROVE  OrderInv' /\ (~Receiving' => NoneLost') /\ FinishInv'
BY DEF OrderInv, NoneLost, FinishInv

(* The first result in the channel is the one behind those gathered.        *)
LEMMA NextResult ==
  ASSUME WriterInv, Receiving, channel # <<>>, Head(channel).kind = "write"
  PROVE  Head(channel).n = Gone + 1 /\ Gone + 1 \in 1..MaxResults /\ Gone + 1 <= sent
<1> USE SizesAssumption
<1>1. /\ channel \in Seq(Message) /\ Len(channel) \in Nat /\ Len(channel) > 0
      /\ Head(channel) = channel[1] /\ channel[1] \in Message
  BY InFront DEF WriterInv, TypeOK
<1>2. channel[1].n \in 1..MaxResults /\ sent \in 0..MaxResults /\ Gone \in Nat
  BY <1>1, MessageKinds DEF WriterInv, TypeOK, Gone
<1>3. channel[1].n > Gone /\ channel[1].n <= sent
  BY <1>1 DEF WriterInv, OrderInv
<1>4. Gone + 1 \in 1..sent
  BY <1>2, <1>3
<1>5. PICK i \in 1..Len(channel) : channel[i] = Write(Gone + 1)
  BY <1>2, <1>4 DEF WriterInv, NoneLost
<1>6. channel[i].kind = "write" /\ channel[i].n = Gone + 1
  BY <1>2, <1>5, MessageKinds
<1>7. CASE i = 1
  BY <1>1, <1>2, <1>4, <1>6, <1>7
<1>8. CASE i # 1
  BY <1>1, <1>2, <1>3, <1>6, <1>8 DEF WriterInv, OrderInv
<1> QED
  BY <1>7, <1>8

(* What is taken from the channel is either gathered or no result.          *)
LEMMA Taken ==
  ASSUME WriterInv, Receiving, channel # <<>>, channel' = Tail(channel), UNCHANGED <<sent, handle>>,
         Gone' = IF Head(channel).kind = "write" THEN Gone + 1 ELSE Gone, Receiving'
  PROVE  /\ channel' \in Seq(Message) /\ Len(channel') <= Capacity
         /\ OrderInv' /\ NoneLost' /\ FinishInv'
<1> USE SizesAssumption
<1>1. /\ channel \in Seq(Message) /\ Len(channel) \in Nat /\ Len(channel) > 0 /\ Len(channel) <= Capacity
      /\ channel' \in Seq(Message) /\ Len(channel') = Len(channel) - 1
      /\ (\A i \in 1..Len(channel') : channel'[i] = channel[i + 1] /\ i + 1 \in 1..Len(channel))
      /\ Head(channel) = channel[1]
  BY InFront DEF WriterInv, TypeOK
<1>2. OrderInv /\ NoneLost /\ FinishInv /\ Gone \in Nat /\ sent \in Nat
  BY DEF WriterInv, TypeOK, Gone
<1>3. Head(channel).kind = "write" => Head(channel).n = Gone + 1
  BY NextResult
<1>4. \A i \in 1..Len(channel) : channel[i].kind = "write" => channel[i].n \in Nat
  BY <1>1, MessageKinds
<1>5. OrderInv'
  <2>1. ASSUME NEW i \in 1..Len(channel'), NEW j \in 1..Len(channel'), i < j,
               channel'[i].kind = "write", channel'[j].kind = "write"
        PROVE  channel'[i].n < channel'[j].n
    BY <1>1, <1>2, <2>1 DEF OrderInv
  <2>2. ASSUME NEW i \in 1..Len(channel'), channel'[i].kind = "write"
        PROVE  channel'[i].n > Gone' /\ channel'[i].n <= sent'
    <3>1. channel[i + 1].kind = "write" /\ channel[i + 1].n > Gone /\ channel[i + 1].n <= sent /\ channel[i + 1].n \in Nat
      BY <1>1, <1>2, <1>4, <2>2 DEF OrderInv
    <3>2. Head(channel).kind = "write" => channel[i + 1].n > Gone + 1
      BY <1>1, <1>2, <1>3, <3>1 DEF OrderInv
    <3> QED
      BY <1>1, <3>1, <3>2
  <2> QED
    BY <2>1, <2>2 DEF OrderInv
<1>6. NoneLost'
  <2> SUFFICES ASSUME NEW n \in 1..sent', n > Gone'
               PROVE  \E i \in 1..Len(channel') : channel'[i] = Write(n)
    BY DEF NoneLost
  <2>1. n > Gone /\ n \in Nat /\ n \in 1..sent
    BY <1>2
  <2>2. PICK i \in 1..Len(channel) : channel[i] = Write(n)
    BY <1>2, <2>1 DEF NoneLost
  <2>3. i # 1
    BY <1>1, <1>2, <1>3, <2>1, <2>2, MessageKinds
  <2>4. i - 1 \in 1..Len(channel') /\ channel'[i - 1] = Write(n)
    BY <1>1, <2>2, <2>3
  <2> QED
    BY <2>4
<1>7. FinishInv'
  BY <1>1, <1>2 DEF FinishInv
<1> QED
  BY <1>1, <1>5, <1>6, <1>7

(* A transaction saves what was gathered, behind what the file has.         *)
LEMMA Saved ==
  ASSUME WriterInv, NEW b \in Seq(1..MaxResults), Len(disk) + Len(b) <= sent,
         \A i \in 1..Len(b) : b[i] = Len(disk) + i,
         disk' = disk \o b, batch' = <<>>, UNCHANGED sent
  PROVE  /\ disk' \in Seq(1..MaxResults) /\ batch' \in Seq(1..MaxResults) /\ Len(batch') < BatchSize
         /\ Len(disk') = Len(disk) + Len(b) /\ Gone' = Len(disk) + Len(b)
         /\ DiskInv' /\ BatchInv'
<1> USE SizesAssumption
<1>1. disk \in Seq(1..MaxResults) /\ Len(disk) \in Nat /\ Len(b) \in Nat /\ DiskInv
  BY DEF WriterInv, TypeOK
<1>2. disk' \in Seq(1..MaxResults) /\ Len(disk') = Len(disk) + Len(b) /\ Len(batch') = 0
  BY <1>1
<1>3. Gone' = Len(disk) + Len(b)
  BY <1>1, <1>2 DEF Gone
<1>4. DiskInv'
  <2>1. ASSUME NEW i \in 1..Len(disk')
        PROVE  disk'[i] = i
    <3>1. CASE i <= Len(disk)
      BY <1>1, <1>2, <3>1 DEF DiskInv
    <3>2. CASE i > Len(disk)
      <4>1. i - Len(disk) \in 1..Len(b) /\ disk'[i] = b[i - Len(disk)]
        BY <1>1, <1>2, <3>2
      <4> QED
        BY <1>1, <4>1
    <3> QED
      BY <1>1, <1>2, <3>1, <3>2
  <2> QED
    BY <2>1 DEF DiskInv
<1>5. BatchInv'
  BY <1>2, <1>3 DEF BatchInv
<1> QED
  BY <1>2, <1>3, <1>4, <1>5

(* What is gathered with the first result of the channel.                   *)
LEMMA GatheredIsNext ==
  ASSUME WriterInv, Receive("write")
  PROVE  /\ Gathered \in Seq(1..MaxResults) /\ Len(Gathered) = Len(batch) + 1
         /\ Len(disk) + Len(Gathered) = Gone + 1 /\ Gone + 1 <= sent
         /\ \A i \in 1..Len(Gathered) : Gathered[i] = Len(disk) + i
<1> USE SizesAssumption
<1>1. /\ Head(channel).n = Gone + 1 /\ Gone + 1 \in 1..MaxResults /\ Gone + 1 <= sent
  BY NextResult DEF Receive, Receiving
<1>2. /\ batch \in Seq(1..MaxResults) /\ Len(batch) \in Nat /\ Len(disk) \in Nat
      /\ \A i \in 1..Len(batch) : batch[i] = Len(disk) + i
  BY DEF WriterInv, TypeOK, BatchInv
<1>3. Gathered \in Seq(1..MaxResults) /\ Len(Gathered) = Len(batch) + 1
  BY <1>1, <1>2 DEF Gathered
<1>4. \A i \in 1..Len(Gathered) : Gathered[i] = IF i = Len(batch) + 1 THEN Gone + 1 ELSE batch[i]
  BY <1>1, <1>2, <1>3 DEF Gathered
<1>5. Gone = Len(disk) + Len(batch)
  BY DEF Gone
<1>6. ASSUME NEW i \in 1..Len(Gathered)
      PROVE  Gathered[i] = Len(disk) + i
  <2>1. CASE i = Len(batch) + 1
    BY <1>2, <1>4, <1>5, <2>1
  <2>2. CASE i # Len(batch) + 1
    <3>1. i \in 1..Len(batch) /\ Gathered[i] = batch[i]
      BY <1>2, <1>3, <1>4, <2>2
    <3> QED
      BY <1>2, <3>1
  <2> QED
    BY <2>1, <2>2
<1> QED
  BY <1>1, <1>2, <1>3, <1>5, <1>6

(* A step of the thread that keeps it running, or ends it.                  *)
LEMMA ThreadKeeps == WriterInv /\ Thread => WriterInv'
<1> SUFFICES ASSUME WriterInv, Thread
             PROVE  WriterInv'
  OBVIOUS
<1> USE SizesAssumption
<1>1. /\ sent \in 0..MaxResults /\ handle \in {"open", "closing", "joining", "joined", "dropped", "dead"}
      /\ channel \in Seq(Message) /\ Len(channel) <= Capacity /\ ticker \in {"alive", "aborted", "gone"}
      /\ batch \in Seq(1..MaxResults) /\ Len(batch) \in Nat /\ Len(batch) < BatchSize
      /\ disk \in Seq(1..MaxResults) /\ Len(disk) \in Nat
      /\ DiskInv /\ BatchInv /\ OrderInv /\ NoneLost /\ FinishInv /\ EndInv
  BY DEF WriterInv, TypeOK
<1>2. Gone = Len(disk) + Len(batch) /\ Gone <= sent /\ \A i \in 1..Len(batch) : batch[i] = Len(disk) + i
  BY <1>1 DEF Gone, BatchInv
<1>3. UNCHANGED <<sent, handle, ticker>>
  BY DEF Thread, OpenFile, Gather, FlushFull, FlushOnTick, LastFlush, Receive
<1>4. CASE OpenFile
  <2>1. CASE thread' = "running" /\ UNCHANGED channel
    BY <1>1, <1>3, <1>4, <2>1
    DEF OpenFile, WriterInv, TypeOK, DiskInv, BatchInv, OrderInv, NoneLost, FinishInv, EndInv, Gone, Receiving
  <2>2. CASE thread' = "failed" /\ channel' = <<>>
    <3>1. UNCHANGED <<batch, disk>> /\ ~Receiving'
      BY <1>4, <2>2 DEF OpenFile, Receiving
    <3>2. OrderInv' /\ NoneLost' /\ FinishInv'
      BY <2>2, <3>1, NoChannel
    <3>3. DiskInv' /\ BatchInv' /\ TypeOK'
      BY <1>1, <1>3, <2>2, <3>1 DEF DiskInv, BatchInv, Gone, TypeOK
    <3>4. EndInv'
      BY <2>2, <3>1 DEF EndInv
    <3> QED
      BY <3>2, <3>3, <3>4 DEF WriterInv
  <2> QED
    BY <1>4, <2>1, <2>2 DEF OpenFile
<1>5. ASSUME NEW b \in Seq(1..MaxResults), Len(disk) + Len(b) <= sent, \A i \in 1..Len(b) : b[i] = Len(disk) + i,
             thread = "running", channel # <<>>, Flush(b, Tail(channel), "running"),
             Len(disk) + Len(b) = IF Head(channel).kind = "write" THEN Gone + 1 ELSE Gone
      PROVE  WriterInv'
  <2>1. CASE disk' = disk \o b /\ thread' = "running" /\ channel' = Tail(channel)
    <3>1. batch' = <<>> /\ Receiving /\ Receiving'
      BY <1>5, <2>1 DEF Flush, Receiving
    <3>2. /\ disk' \in Seq(1..MaxResults) /\ batch' \in Seq(1..MaxResults) /\ Len(batch') < BatchSize
          /\ Gone' = Len(disk) + Len(b) /\ DiskInv' /\ BatchInv'
      BY <1>3, <1>5, <2>1, <3>1, Saved
    <3>3. channel' \in Seq(Message) /\ Len(channel') <= Capacity /\ OrderInv' /\ NoneLost' /\ FinishInv'
      BY <1>3, <1>5, <2>1, <3>1, <3>2, Taken
    <3>4. TypeOK' /\ EndInv'
      BY <1>1, <1>3, <1>5, <2>1, <3>1, <3>2, <3>3 DEF TypeOK, EndInv, Receiving
    <3> QED
      BY <3>2, <3>3, <3>4 DEF WriterInv
  <2>2. CASE thread' = "failed" /\ channel' = <<>> /\ UNCHANGED disk
    <3>1. batch' = <<>> /\ ~Receiving'
      BY <1>5, <2>2 DEF Flush, Receiving
    <3>2. OrderInv' /\ NoneLost' /\ FinishInv'
      BY <2>2, <3>1, NoChannel
    <3>3. DiskInv' /\ BatchInv' /\ TypeOK'
      BY <1>1, <1>2, <1>3, <2>2, <3>1 DEF DiskInv, BatchInv, Gone, TypeOK
    <3>4. EndInv'
      BY <2>2, <3>1 DEF EndInv
    <3> QED
      BY <3>2, <3>3, <3>4 DEF WriterInv
  <2> QED
    BY <1>5, <2>1, <2>2 DEF Flush
<1>6. CASE Gather
  <2>1. /\ Receive("write") /\ Len(Gathered) < BatchSize /\ batch' = Gathered
        /\ channel' = Tail(channel) /\ UNCHANGED <<thread, disk>>
        /\ thread = "running" /\ channel # <<>> /\ Head(channel).kind = "write" /\ Receiving /\ Receiving'
    BY <1>6 DEF Gather, Receive, Receiving
  <2>2. /\ Gathered \in Seq(1..MaxResults) /\ Len(disk) + Len(Gathered) = Gone + 1 /\ Gone + 1 <= sent
        /\ \A i \in 1..Len(Gathered) : Gathered[i] = Len(disk) + i
    BY <2>1, GatheredIsNext
  <2>3. Gone' = Gone + 1
    BY <2>1, <2>2 DEF Gone
  <2>4. channel' \in Seq(Message) /\ Len(channel') <= Capacity /\ OrderInv' /\ NoneLost' /\ FinishInv'
    BY <1>3, <2>1, <2>3, Taken
  <2>5. DiskInv' /\ BatchInv'
    BY <1>1, <1>3, <2>1, <2>2, <2>3 DEF DiskInv, BatchInv
  <2>6. TypeOK' /\ EndInv'
    BY <1>1, <1>3, <2>1, <2>2, <2>4 DEF TypeOK, EndInv, Receiving
  <2> QED
    BY <2>4, <2>5, <2>6 DEF WriterInv
<1>7. CASE FlushFull
  BY <1>5, <1>7, GatheredIsNext DEF FlushFull, Receive
<1>8. CASE FlushOnTick
  <2>1. thread = "running" /\ channel # <<>> /\ Head(channel).kind = "tick" /\ Flush(batch, Tail(channel), "running")
    BY <1>8 DEF FlushOnTick, Receive
  <2> QED
    BY <1>1, <1>2, <1>5, <2>1
<1>9. CASE LastFlush
  <2>1. thread = "running" /\ Receiving /\ Flush(batch, <<>>, "ok")
    BY <1>9 DEF LastFlush, Receiving
  <2>2. CASE disk' = disk \o batch /\ thread' = "ok" /\ channel' = <<>>
    <3>1. batch' = <<>> /\ ~Receiving'
      BY <2>1, <2>2 DEF Flush, Receiving
    <3>2. /\ disk' \in Seq(1..MaxResults) /\ batch' \in Seq(1..MaxResults) /\ Len(batch') < BatchSize
          /\ Len(disk') = Gone /\ DiskInv' /\ BatchInv'
      BY <1>1, <1>2, <1>3, <2>2, <3>1, Saved
    <3>3. OrderInv' /\ NoneLost' /\ FinishInv'
      BY <2>2, <3>1, NoChannel
    <3>4. handle \in {"joining", "dropped"} /\ Gone = sent
      <4>1. CASE channel = <<>> /\ Closed
        BY <1>1, <1>2, <2>1, <4>1 DEF Closed, NoneLost
      <4>2. CASE channel # <<>> /\ Head(channel).kind = "finish"
        <5>1. /\ Len(channel) \in Nat /\ Len(channel) > 0 /\ Head(channel) = channel[1]
          BY <1>1, <4>2, InFront
        <5>2. handle = "joining"
          BY <1>1, <4>2, <5>1 DEF FinishInv
        <5>3. \A i \in 1..Len(channel) : channel[i].kind # "write"
          BY <1>1, <4>2, <5>1 DEF FinishInv
        <5>4. ASSUME NEW n \in 1..sent, n > Gone
              PROVE  FALSE
          <6>1. PICK i \in 1..Len(channel) : channel[i] = Write(n)
            BY <1>1, <2>1, <5>4 DEF NoneLost
          <6>2. n \in Nat
            BY <1>1
          <6>3. channel[i].kind = "write"
            BY <6>1, <6>2, MessageKinds
          <6> QED
            BY <5>3, <6>3
        <5> QED
          BY <1>1, <1>2, <5>2, <5>4
      <4> QED
        BY <1>9, <4>1, <4>2 DEF LastFlush
    <3>5. TypeOK' /\ EndInv'
      BY <1>1, <1>3, <2>2, <3>1, <3>2, <3>4 DEF TypeOK, EndInv, Receiving
    <3> QED
      BY <3>2, <3>3, <3>5 DEF WriterInv
  <2>3. CASE thread' = "failed" /\ channel' = <<>> /\ UNCHANGED disk
    <3>1. batch' = <<>> /\ ~Receiving'
      BY <2>1, <2>3 DEF Flush, Receiving
    <3>2. OrderInv' /\ NoneLost' /\ FinishInv'
      BY <2>3, <3>1, NoChannel
    <3>3. DiskInv' /\ BatchInv' /\ TypeOK'
      BY <1>1, <1>2, <1>3, <2>3, <3>1 DEF DiskInv, BatchInv, Gone, TypeOK
    <3>4. EndInv'
      BY <2>3, <3>1 DEF EndInv
    <3> QED
      BY <3>2, <3>3, <3>4 DEF WriterInv
  <2> QED
    BY <2>1, <2>2, <2>3 DEF Flush
<1> QED
  BY <1>4, <1>6, <1>7, <1>8, <1>9 DEF Thread

(* The steps of the handle and the ticker keep the invariant, and so does a *)
(* process that dies.                                                       *)
LEMMA OthersKeep ==
  WriterInv /\ (Drop \/ BeginFinish \/ SendFinish \/ Join \/ Beat \/ TickerEnds \/ Crash \/ Over) => WriterInv'
<1> SUFFICES ASSUME WriterInv, Drop \/ BeginFinish \/ SendFinish \/ Join \/ Beat \/ TickerEnds \/ Crash \/ Over
             PROVE  WriterInv'
  OBVIOUS
<1> USE SizesAssumption
<1>1. /\ sent \in 0..MaxResults /\ handle \in {"open", "closing", "joining", "joined", "dropped", "dead"}
      /\ channel \in Seq(Message) /\ Len(channel) <= Capacity /\ ticker \in {"alive", "aborted", "gone"}
      /\ thread \in {"opening", "running", "ok", "failed", "dead"}
      /\ batch \in Seq(1..MaxResults) /\ Len(batch) \in Nat /\ Len(batch) < BatchSize
      /\ disk \in Seq(1..MaxResults) /\ Len(disk) \in Nat
      /\ DiskInv /\ BatchInv /\ OrderInv /\ NoneLost /\ FinishInv /\ EndInv
  BY DEF WriterInv, TypeOK
<1>2. Abort \in {"alive", "aborted", "gone"}
  BY <1>1 DEF Abort
<1>3. ASSUME UNCHANGED <<sent, channel, thread, batch, disk>>
      PROVE  DiskInv' /\ BatchInv' /\ OrderInv' /\ NoneLost'
  BY <1>1, <1>3 DEF DiskInv, BatchInv, OrderInv, NoneLost, Gone, Receiving
<1>4. CASE Drop
  <2>1. /\ UNCHANGED <<sent, channel, thread, batch, disk>> /\ handle = "open" /\ handle' = "dropped" /\ ticker' = Abort
    BY <1>4 DEF Drop
  <2> QED
    BY <1>1, <1>2, <1>3, <2>1 DEF WriterInv, TypeOK, FinishInv, EndInv, Receiving
<1>5. CASE BeginFinish
  <2>1. /\ UNCHANGED <<sent, channel, thread, batch, disk>> /\ handle = "open" /\ handle' = "closing" /\ ticker' = Abort
    BY <1>5 DEF BeginFinish
  <2> QED
    BY <1>1, <1>2, <1>3, <2>1 DEF WriterInv, TypeOK, FinishInv, EndInv, Receiving
<1>6. CASE SendFinish
  <2>1. handle = "closing" /\ handle' = "joining" /\ UNCHANGED <<sent, ticker, thread, batch, disk>>
    BY <1>6 DEF SendFinish
  <2>2. CASE HasRoom /\ channel' = Append(channel, Finish)
    <3>1. /\ channel' \in Seq(Message) /\ Len(channel') <= Capacity
          /\ DiskInv' /\ BatchInv' /\ OrderInv' /\ NoneLost' /\ FinishInv'
      BY <2>1, <2>2, MessageKinds, OtherBehind
    <3>2. TypeOK' /\ EndInv'
      BY <1>1, <2>1, <3>1 DEF TypeOK, EndInv, Receiving
    <3> QED
      BY <3>1, <3>2 DEF WriterInv
  <2>3. CASE ~Receiving /\ UNCHANGED channel
    BY <1>1, <1>3, <2>1, <2>3 DEF WriterInv, TypeOK, FinishInv, EndInv, Receiving
  <2> QED
    BY <1>6, <2>2, <2>3 DEF SendFinish
<1>7. CASE Join
  <2>1. /\ UNCHANGED <<sent, channel, ticker, thread, batch, disk>>
        /\ handle = "joining" /\ ~Receiving /\ handle' = "joined"
    BY <1>7 DEF Join
  <2>2. channel = <<>> /\ FinishInv'
    BY <1>1, <2>1 DEF FinishInv, Receiving
  <2> QED
    BY <1>1, <1>3, <2>1, <2>2 DEF WriterInv, TypeOK, EndInv, Receiving
<1>8. CASE Beat
  <2>1. /\ HasRoom /\ channel' = Append(channel, Tick) /\ UNCHANGED <<sent, handle, thread, batch, disk>>
        /\ ticker' \in {"alive", "aborted", "gone"}
    BY <1>1, <1>8 DEF Beat
  <2>2. /\ channel' \in Seq(Message) /\ Len(channel') <= Capacity
        /\ DiskInv' /\ BatchInv' /\ OrderInv' /\ NoneLost' /\ FinishInv'
    BY <2>1, MessageKinds, OtherBehind
  <2>3. TypeOK' /\ EndInv'
    BY <1>1, <2>1, <2>2 DEF TypeOK, EndInv, Receiving
  <2> QED
    BY <2>2, <2>3 DEF WriterInv
<1>9. CASE TickerEnds
  <2>1. UNCHANGED <<sent, handle, channel, thread, batch, disk>> /\ ticker' = "gone"
    BY <1>9 DEF TickerEnds
  <2> QED
    BY <1>1, <1>3, <2>1 DEF WriterInv, TypeOK, FinishInv, EndInv, Receiving
<1>10. CASE Crash
  <2>1. /\ UNCHANGED <<sent, disk>> /\ handle' = "dead" /\ channel' = <<>> /\ batch' = <<>>
        /\ thread' = "dead" /\ ticker' = "gone" /\ ~Receiving'
    BY <1>10 DEF Crash, Receiving
  <2>2. OrderInv' /\ NoneLost' /\ FinishInv'
    BY <2>1, NoChannel
  <2>3. DiskInv' /\ BatchInv' /\ TypeOK'
    BY <1>1, <2>1 DEF DiskInv, BatchInv, Gone, TypeOK
  <2>4. EndInv'
    BY <2>1 DEF EndInv
  <2> QED
    BY <2>2, <2>3, <2>4 DEF WriterInv
<1>11. CASE Over
  <2>1. UNCHANGED <<sent, channel, thread, batch, disk>> /\ UNCHANGED <<handle, ticker>>
    BY <1>11 DEF Over, vars
  <2> QED
    BY <1>1, <1>3, <2>1 DEF WriterInv, TypeOK, FinishInv, EndInv, Receiving
<1> QED
  BY <1>4, <1>5, <1>6, <1>7, <1>8, <1>9, <1>10, <1>11

(* Every state of the writer thread keeps its books.                        *)
THEOREM WriterKeepsItsBooks == Spec => []WriterInv
<1>1. Init => WriterInv
  BY WriterInit
<1>2. WriterInv /\ [Next]_vars => WriterInv'
  <2> SUFFICES ASSUME WriterInv, [Next]_vars
               PROVE  WriterInv'
    OBVIOUS
  <2>1. CASE Next
    BY <2>1, SendKeeps, ThreadKeeps, OthersKeep DEF Next
  <2>2. CASE UNCHANGED vars
    BY <2>2 DEF vars, WriterInv, TypeOK, DiskInv, BatchInv, OrderInv, NoneLost, FinishInv, EndInv, Gone, Receiving
  <2> QED
    BY <2>1, <2>2
<1> QED
  BY <1>1, <1>2, PTL DEF Spec

(* The caller hears nothing before the thread is joined.                    *)
LEMMA OutcomeIs ==
  /\ handle \in {"open", "closing", "joining"} => Outcome = "open"
  /\ handle \in {"dropped", "dead"} => Outcome = "error"
  /\ handle = "joined" /\ thread = "ok" => Outcome = "ok"
  /\ handle = "joined" /\ thread # "ok" => Outcome = "error"
BY DEF Outcome

(* What the handle has sent, as ResultLog sees it.                          *)
Handed == [i \in 1..sent |-> i]

(* A file that grows holds the first results sent.                          *)
LEMMA GrownIsSaved ==
  ASSUME WriterInv, WriterInv', UNCHANGED <<sent, handle>>, handle # "joined", Len(disk') >= Len(disk)
  PROVE  [Log!Next]_(Log!vars)
<1> USE SizesAssumption
<1>1. /\ sent \in Nat /\ disk \in Seq(1..MaxResults) /\ disk' \in Seq(1..MaxResults)
      /\ Len(disk) \in Nat /\ Len(disk') \in Nat
      /\ \A i \in 1..Len(disk) : disk[i] = i
      /\ \A i \in 1..Len(disk') : disk'[i] = i
  BY DEF WriterInv, TypeOK, DiskInv
<1>2. Len(disk') <= sent
  <2>1. Gone' <= sent' /\ Len(batch') \in Nat
    BY DEF WriterInv, TypeOK, BatchInv
  <2> QED
    BY <1>1, <2>1 DEF Gone
<1>3. Handed \in Seq(Nat) /\ Len(Handed) = sent /\ \A i \in 1..sent : Handed[i] = i
  BY <1>1 DEF Handed
<1>4. Outcome' = Outcome /\ Outcome # "ok"
  BY OutcomeIs DEF Outcome, WriterInv, TypeOK
<1>5. Handed' = Handed
  BY DEF Handed
<1>6. CASE Len(disk') > Len(disk)
  <2>1. SubSeq(Handed, 1, Len(disk')) = [i \in 1..Len(disk') |-> i]
    BY <1>1, <1>2, <1>3
  <2>2. disk' = [i \in 1..Len(disk') |-> i]
    BY <1>1
  <2>3. Len(disk') \in Len(disk) + 1 .. Len(Handed)
    BY <1>1, <1>2, <1>3, <1>6
  <2> QED
    BY <1>4, <1>5, <2>1, <2>2, <2>3 DEF Log!Next, Log!Save, Handed
<1>7. CASE Len(disk') = Len(disk)
  <2>1. disk' = disk
    <3>1. disk = [i \in 1..Len(disk) |-> i] /\ disk' = [i \in 1..Len(disk') |-> i]
      BY <1>1
    <3> QED
      BY <1>7, <3>1
  <2> QED
    BY <1>4, <1>5, <2>1 DEF Log!vars, Handed
<1> QED
  BY <1>1, <1>6, <1>7

(* Every step of the thread, the ticker and the handle is one of ResultLog, *)
(* or none.                                                                 *)
LEMMA StepRefines == WriterInv /\ WriterInv' /\ [Next]_vars => [Log!Next]_(Log!vars)
<1> SUFFICES ASSUME WriterInv, WriterInv', [Next]_vars
             PROVE  [Log!Next]_(Log!vars)
  OBVIOUS
<1> USE SizesAssumption
<1>1. /\ sent \in Nat /\ disk \in Seq(1..MaxResults) /\ disk' \in Seq(1..MaxResults)
      /\ Len(disk) \in Nat /\ batch \in Seq(1..MaxResults) /\ EndInv /\ EndInv'
      /\ \A i \in 1..Len(disk) : disk[i] = i
  BY DEF WriterInv, TypeOK, DiskInv
<1>2. CASE Send
  <2>1. /\ sent + 1 \in 1..MaxResults /\ sent' = sent + 1 /\ handle = "open" /\ UNCHANGED <<handle, thread, disk>>
    BY <1>1, <1>2 DEF Send, WriterInv, TypeOK
  <2>2. Outcome = "open" /\ Outcome' = "open"
    BY <2>1, OutcomeIs DEF Outcome
  <2>3. Handed' = Append(Handed, sent + 1)
    BY <1>1, <2>1 DEF Handed
  <2> QED
    BY <2>1, <2>2, <2>3 DEF Log!Next, Log!Put, Handed
<1>3. CASE Thread
  <2>1. UNCHANGED <<sent, handle>> /\ thread \in {"opening", "running"}
    BY <1>3 DEF Thread, OpenFile, Gather, FlushFull, FlushOnTick, LastFlush, Receive
  <2>2. handle # "joined"
    BY <1>1, <2>1 DEF EndInv, Receiving
  <2>3. Len(disk') >= Len(disk)
    <3>1. ASSUME NEW b \in Seq(1..MaxResults), disk' = disk \o b
          PROVE  Len(disk') >= Len(disk)
      BY <1>1, <3>1
    <3>2. UNCHANGED disk => Len(disk') >= Len(disk)
      BY <1>1
    <3>3. CASE FlushFull
      <4>1. Gathered \in Seq(1..MaxResults)
        BY <3>3, GatheredIsNext DEF FlushFull
      <4> QED
        BY <3>1, <3>2, <3>3, <4>1 DEF FlushFull, Flush
    <3> QED
      BY <1>1, <1>3, <3>1, <3>2, <3>3 DEF Thread, OpenFile, Gather, FlushOnTick, LastFlush, Flush
  <2> QED
    BY <2>1, <2>2, <2>3, GrownIsSaved
<1>4. CASE Join
  <2>1. /\ UNCHANGED <<sent, thread, disk>> /\ handle = "joining" /\ handle' = "joined"
    BY <1>4 DEF Join
  <2>2. Outcome = "open" /\ Handed' = Handed
    BY <2>1, OutcomeIs DEF Handed
  <2>3. CASE thread = "ok"
    <3>1. Len(disk) = sent /\ Outcome' = "ok"
      BY <1>1, <2>1, <2>3 DEF EndInv, Outcome
    <3>2. disk = Handed
      BY <1>1, <3>1 DEF Handed
    <3> QED
      BY <2>1, <2>2, <3>1, <3>2 DEF Log!Next, Log!Acknowledge, Handed
  <2>4. CASE thread # "ok"
    <3>1. Outcome' = "error"
      BY <2>1, <2>4 DEF Outcome
    <3> QED
      BY <2>1, <2>2, <3>1 DEF Log!Next, Log!GiveUp, Handed
  <2> QED
    BY <2>3, <2>4
<1>5. CASE Drop \/ Crash
  <2>1. UNCHANGED <<sent, disk>> /\ handle # "joined" /\ handle' \in {"dropped", "dead"}
    BY <1>5 DEF Drop, Crash
  <2>2. Outcome \in {"open", "error"} /\ Outcome' = "error" /\ Handed' = Handed
    BY <2>1, OutcomeIs DEF Outcome, Handed, WriterInv, TypeOK
  <2> QED
    BY <2>1, <2>2 DEF Log!Next, Log!GiveUp, Log!vars, Handed
<1>6. CASE BeginFinish \/ SendFinish \/ Beat \/ TickerEnds \/ Over \/ UNCHANGED vars
  <2>1. /\ UNCHANGED <<sent, disk, thread>>
        /\ handle' = handle \/ {handle, handle'} \subseteq {"open", "closing", "joining"}
    BY <1>6 DEF BeginFinish, SendFinish, Beat, TickerEnds, Over, vars
  <2>2. Outcome' = Outcome /\ Handed' = Handed
    BY <2>1 DEF Outcome, Handed
  <2> QED
    BY <2>1, <2>2 DEF Log!vars, Handed
<1> QED
  BY <1>2, <1>3, <1>4, <1>5, <1>6 DEF Next

(* The writer implements ResultLog: whatever the capacity, the batches, the *)
(* ticks, the failures and the crashes, the file holds the results in order *)
(* and without gaps, and finish says that all are saved only when they are. *)
THEOREM WriterSavesAPrefix == Spec => SavesAPrefix
<1>1. Init => Log!Init
  <2> SUFFICES ASSUME Init
               PROVE  Log!Init
    OBVIOUS
  <2>1. sent = 0 /\ disk = <<>> /\ handle = "open"
    BY DEF Init
  <2>2. [i \in 1..sent |-> i] = <<>>
    BY <2>1
  <2>3. Outcome = "open"
    BY <2>1, OutcomeIs
  <2> QED
    BY <2>1, <2>2, <2>3 DEF Log!Init
<1>2. WriterInv /\ WriterInv' /\ [Next]_vars => [Log!Next]_(Log!vars)
  BY StepRefines
<1>3. Spec => []WriterInv
  BY WriterKeepsItsBooks
<1> QED
  BY <1>1, <1>2, <1>3, PTL DEF Spec, SavesAPrefix, Log!Spec

(* The variables of the writer keep their types.                            *)
THEOREM WriterTypeCorrect == Spec => []TypeOK
<1>1. WriterInv => TypeOK
  BY DEF WriterInv
<1> QED
  BY <1>1, WriterKeepsItsBooks, PTL

=============================================================================
