-------------------------- MODULE PageReaderProofs --------------------------
(***************************************************************************)
(* A page is asked for with patience and read whole or not at all, for     *)
(* every answer of the network, every limit and any number of retries:     *)
(* what Fetcher promises to PageReader.                                    *)
(***************************************************************************)
EXTENDS PageReader, WellFoundedInduction, SequenceTheorems, TLAPS

-----------------------------------------------------------------------------
(* Induction over the naturals, as a fact about a set.                     *)
Below == {p \in Nat \X Nat : p[1] < p[2]}

LEMMA Induction ==
  ASSUME NEW S, 0 \in S, \A n \in Nat : n \in S => n + 1 \in S
  PROVE  Nat \subseteq S
<1> SUFFICES ASSUME Nat \ S # {} PROVE FALSE
  OBVIOUS
<1>1. IsWellFoundedOn(Below, Nat)
  <2>1. Below = OpToRel(<, Nat)
    BY DEF Below, OpToRel
  <2> QED
    BY <2>1, NatLessThanWellFounded
<1>2. PICK x \in Nat \ S : \A y \in Nat \ S : ~(<<y, x>> \in Below)
  <2>1. Nat \ S \subseteq Nat
    OBVIOUS
  <2> QED
    BY <1>1, <2>1, WFMin
<1>3. x # 0 /\ x - 1 \in Nat /\ x - 1 < x
  OBVIOUS
<1>4. x - 1 \in S
  BY <1>2, <1>3 DEF Below
<1>5. (x - 1) + 1 \in S
  BY <1>3, <1>4
<1> QED
  BY <1>3, <1>5

(* The sums of the first chunks exist.                                     *)
LEMMA SumsExist ==
  ASSUME NEW s \in Seq(Nat)
  PROVE  \E g : g = [k \in 0..Len(s) |-> IF k = 0 THEN 0 ELSE g[k - 1] + s[k]]
<1> DEFINE Sums(g, n) == /\ g \in [0..n -> Nat]
                         /\ g[0] = 0
                         /\ \A k \in 1..n : g[k] = g[k - 1] + s[k]
           Upto(n) == n <= Len(s) => \E g : Sums(g, n)
           S == {n \in Nat : Upto(n)}
<1>1. Upto(0)
  <2>1. Sums([k \in 0..0 |-> 0], 0)
    OBVIOUS
  <2> QED
    BY <2>1
<1>2. ASSUME NEW n \in Nat, Upto(n) PROVE Upto(n + 1)
  <2> SUFFICES ASSUME n + 1 <= Len(s) PROVE \E g : Sums(g, n + 1)
    OBVIOUS
  <2>1. PICK g : Sums(g, n)
    <3>1. n <= Len(s)
      OBVIOUS
    <3> HIDE DEF Sums
    <3> QED
      BY <1>2, <3>1
  <2> DEFINE h == [k \in 0..(n+1) |-> IF k = n + 1 THEN g[n] + s[k] ELSE g[k]]
  <2>2. g[n] \in Nat /\ s[n + 1] \in Nat
    BY <2>1
  <2>3. h \in [0..(n+1) -> Nat]
    BY <2>1, <2>2
  <2>4. h[0] = 0
    BY <2>1
  <2>5. ASSUME NEW k \in 1..(n+1) PROVE h[k] = h[k - 1] + s[k]
    BY <2>1
  <2> QED
    BY <2>3, <2>4, <2>5
<1>3. Len(s) \in S
  <2> HIDE DEF Upto
  <2>1. 0 \in S /\ \A n \in Nat : n \in S => n + 1 \in S
    BY <1>1, <1>2
  <2> HIDE DEF S
  <2>2. Nat \subseteq S
    BY <2>1, Induction
  <2> QED
    BY <2>2
<1>4. PICK g : Sums(g, Len(s))
  BY <1>3
<1>5. g = [k \in 0..Len(s) |-> IF k = 0 THEN 0 ELSE g[k - 1] + s[k]]
  BY <1>4
<1> QED
  BY <1>5

(* How many bytes the first chunks are.                                    *)
LEMMA BytesOfChunks ==
  ASSUME NEW s \in Seq(Nat)
  PROVE  /\ Bytes(s, 0) = 0
         /\ \A k \in 1..Len(s) : Bytes(s, k) = Bytes(s, k - 1) + s[k]
<1> DEFINE sum[k \in 0..Len(s)] == IF k = 0 THEN 0 ELSE sum[k - 1] + s[k]
<1>1. sum = [k \in 0..Len(s) |-> IF k = 0 THEN 0 ELSE sum[k - 1] + s[k]]
  BY SumsExist
<1>2. \A k : Bytes(s, k) = sum[k]
  BY DEF Bytes
<1> HIDE DEF sum
<1>3. Len(s) \in Nat
  OBVIOUS
<1>4. sum[0] = 0
  BY <1>1, <1>3
<1>5. ASSUME NEW k \in 1..Len(s) PROVE sum[k] = sum[k - 1] + s[k]
  <2>1. k \in 0..Len(s) /\ k # 0
    BY <1>3
  <2> QED
    BY <1>1, <2>1
<1> QED
  BY <1>2, <1>4, <1>5


LEMMA BytesAreCounts ==
  ASSUME NEW s \in Seq(Nat)
  PROVE  \A k \in 0..Len(s) : Bytes(s, k) \in Nat
<1> DEFINE Counted(n) == n <= Len(s) => Bytes(s, n) \in Nat
           S == {n \in Nat : Counted(n)}
<1>1. Counted(0)
  BY BytesOfChunks
<1>2. ASSUME NEW n \in Nat, Counted(n) PROVE Counted(n + 1)
  <2> SUFFICES ASSUME n + 1 <= Len(s) PROVE Bytes(s, n + 1) \in Nat
    OBVIOUS
  <2>1. Bytes(s, n) \in Nat /\ n + 1 \in 1..Len(s) /\ s[n + 1] \in Nat
    BY <1>2
  <2>2. (n + 1) - 1 = n
    OBVIOUS
  <2>3. Bytes(s, n + 1) = Bytes(s, n) + s[n + 1]
    BY <2>1, <2>2, BytesOfChunks
  <2> QED
    BY <2>1, <2>3
<1> HIDE DEF Counted
<1>3. 0 \in S /\ \A n \in Nat : n \in S => n + 1 \in S
  BY <1>1, <1>2
<1> HIDE DEF S
<1>4. Nat \subseteq S
  BY <1>3, Induction
<1> QED
  BY <1>4 DEF S, Counted

(* No part of a body is longer than the body.                              *)
LEMMA BytesGrow ==
  ASSUME NEW s \in Seq(Nat)
  PROVE  \A k \in 0..Len(s) : Bytes(s, k) <= Bytes(s, Len(s))
<1> DEFINE Smaller(d) == d <= Len(s) => Bytes(s, Len(s) - d) <= Bytes(s, Len(s))
           S == {d \in Nat : Smaller(d)}
<1>0. Len(s) \in Nat /\ \A k \in 0..Len(s) : Bytes(s, k) \in Nat
  BY BytesAreCounts
<1>1. Smaller(0)
  <2>1. Len(s) - 0 = Len(s) /\ Len(s) \in 0..Len(s)
    BY <1>0
  <2>2. Bytes(s, Len(s)) \in Nat
    BY <1>0, <2>1
  <2> QED
    BY <2>1, <2>2
<1>2. ASSUME NEW d \in Nat, Smaller(d) PROVE Smaller(d + 1)
  <2> SUFFICES ASSUME d + 1 <= Len(s) PROVE Bytes(s, Len(s) - (d + 1)) <= Bytes(s, Len(s))
    OBVIOUS
  <2>1. PICK k \in 1..Len(s) : k = Len(s) - d /\ k - 1 = Len(s) - (d + 1)
    <3>1. Len(s) - d \in 1..Len(s) /\ (Len(s) - d) - 1 = Len(s) - (d + 1)
      BY <1>0
    <3> QED
      BY <3>1
  <2>2. Bytes(s, k) = Bytes(s, k - 1) + s[k] /\ s[k] \in Nat
    BY BytesOfChunks
  <2>3. Bytes(s, k) <= Bytes(s, Len(s))
    BY <1>2, <2>1
  <2>4. k - 1 \in 0..Len(s) /\ k \in 0..Len(s) /\ Len(s) \in 0..Len(s)
    BY <1>0
  <2>5. Bytes(s, k - 1) \in Nat /\ Bytes(s, k) \in Nat /\ Bytes(s, Len(s)) \in Nat
    BY <1>0, <2>4
  <2>6. Bytes(s, k - 1) <= Bytes(s, Len(s))
    BY <2>2, <2>3, <2>5
  <2> QED
    BY <2>1, <2>6
<1> HIDE DEF Smaller
<1>3. 0 \in S /\ \A d \in Nat : d \in S => d + 1 \in S
  BY <1>1, <1>2
<1> HIDE DEF S
<1>4. Nat \subseteq S
  BY <1>3, Induction
<1>5. \A k \in 0..Len(s) : Len(s) - k \in Nat /\ Len(s) - k <= Len(s) /\ Len(s) - (Len(s) - k) = k
  BY <1>0
<1> QED
  BY <1>4, <1>5 DEF S, Smaller

(* The wait before an attempt is some time, and never less than its        *)
(* shortest.                                                               *)
LEMMA Waits == ASSUME NEW n \in Nat \ {0} PROVE Shortest(n) \in Nat \ {0} /\ \A w \in BackoffDelays(n) : w \in Nat /\ w >= Shortest(n)
<1>1. Shortest(n) \in Nat \ {0}
  <2> USE DEF Shortest
  <2>1. CASE n = 1
    BY <2>1
  <2>2. CASE n = 2
    BY <2>2
  <2>3. CASE n = 3
    BY <2>3
  <2>4. CASE n = 4
    BY <2>4
  <2>5. CASE n = 5
    BY <2>5
  <2>6. CASE n = 6
    BY <2>6
  <2>7. CASE n = 7
    BY <2>7
  <2>8. CASE n > 7
    BY <2>8
  <2> QED
    BY <2>1, <2>2, <2>3, <2>4, <2>5, <2>6, <2>7, <2>8
<1> QED
  BY <1>1 DEF BackoffDelays

-----------------------------------------------------------------------------
(* What a fetch keeps to. *)

(* A body that is being read is some of its chunks, within its limit.      *)
ReadSoFar ==
  /\ call \in {"idle", "sent", "reading", "waiting", "done"}
  /\ call \in {"reading", "done"} => answer \in Answers
  /\ call = "reading" => 
       /\ \E n \in 0..Len(Chunks) : got = BytesUpTo(n)
       /\ answer.fails = "nothing" => got <= BodyLimit(answer.type)

(* The log has one entry for each attempt that was not enough.             *)
LogKept ==
  /\ log \in Seq(Range(log))
  /\ attempt \in 0..MaxRetries /\ probe \in BOOLEAN
  /\ call = "idle" => log = <<>>
  /\ ~probe /\ call \in {"sent", "reading", "waiting"} => Len(log) = attempt
  /\ probe => call # "waiting"
  /\ probe /\ call \in {"sent", "reading"} =>
       \/ method = "HEAD" /\ log = <<>>
       \/ method = "GET" /\ Len(log) = 1 /\ log[1].outcome.ok /\ log[1].outcome.status \in NoHead

FetchInv == ReadSoFar /\ LogKept /\ WholeOrNothing /\ PatientRetries

-----------------------------------------------------------------------------
(* A log one entry longer. *)
LEMMA Longer ==
  ASSUME NEW q, q \in Seq(Range(q)), NEW e
  PROVE  /\ Append(q, e) \in Seq(Range(Append(q, e)))
         /\ Len(q) \in Nat /\ Len(Append(q, e)) = Len(q) + 1
         /\ \A n \in 1..Len(q) : Append(q, e)[n] = q[n]
         /\ Append(q, e)[Len(q) + 1] = e /\ Last(Append(q, e)) = e
<1> DEFINE S == Range(q) \cup {e}
<1>1. q \in Seq(S) /\ Append(q, e) \in Seq(S) /\ Len(q) \in Nat
  <2>1. q \in Seq(S)
    BY SeqDef
  <2> QED
    BY <2>1
<1>2. /\ Len(Append(q, e)) = Len(q) + 1
      /\ \A n \in 1..Len(q) : Append(q, e)[n] = q[n]
      /\ Append(q, e)[Len(q) + 1] = e
  BY <1>1
<1>3. Append(q, e) \in Seq(Range(Append(q, e)))
  <2> DEFINE r == Append(q, e)
  <2>0. r \in Seq(S)
    BY <1>1
  <2> HIDE DEF r, S
  <2>1. r = [n \in 1..Len(r) |-> r[n]] /\ Len(r) \in Nat /\ DOMAIN r = 1..Len(r)
    BY <2>0
  <2>2. r \in [1..Len(r) -> Range(r)]
    BY <2>1 DEF Range
  <2>3. r \in Seq(Range(r))
    BY <2>1, <2>2, SeqDef
  <2> QED
    BY <2>3 DEF r
<1> QED
  BY <1>1, <1>2, <1>3 DEF Last

(* The chunk that comes next is one, and what was read ends where it       *)
(* begins.                                                                 *)
LEMMA NextIsNext ==
  ASSUME \E n \in 0..Len(Chunks) : got = BytesUpTo(n)
  PROVE  NextChunk \in 0..Len(Chunks) /\ BytesUpTo(NextChunk) = got
BY DEF NextChunk

LEMMA BodyType ==
  ASSUME NEW a \in Answers
  PROVE  (IF a.fails = "nothing" THEN a.body ELSE <<>>) \in Seq(Nat)
<1>1. CASE a.fails = "nothing"
  BY <1>1, FetcherAssumption
<1>2. CASE a.fails # "nothing"
  BY <1>2, EmptySeq
<1> QED
  BY <1>1, <1>2

LEMMA TypeOfChunks ==
  /\ answer \in Answers => Chunks \in Seq(Nat) /\ Len(Chunks) \in Nat
  /\ answer' \in Answers => Chunks' \in Seq(Nat) /\ Len(Chunks') \in Nat
<1>1. answer \in Answers => Chunks \in Seq(Nat)
  BY BodyType DEF Chunks
<1>2. answer' \in Answers => Chunks' \in Seq(Nat)
  BY BodyType DEF Chunks
<1> QED
  BY <1>1, <1>2

LEMMA Limits == \A t : BodyLimit(t) \in Nat
BY FetcherAssumption DEF BodyLimit

(* The reader takes a result, or lets the fetcher work.                    *)
LEMMA ReaderSteps ==
  ASSUME [ReaderNext]_readerVars
  PROVE  FetchNext \/ Taken \/ UNCHANGED fetchVars
BY DEF ReaderNext, ReadDisk, Fetch, TakePage, ReadPage, Resolve, readerVars

LEMMA FetchInvInit == ReaderInit => FetchInv
<1> SUFFICES ASSUME ReaderInit PROVE FetchInv
  OBVIOUS
<1>1. call = "idle" /\ probe = FALSE /\ attempt = 0 /\ log = <<>>
  BY DEF ReaderInit, FetchInit
<1>2. log \in Seq(Range(log)) /\ Len(log) = 0
  BY <1>1
<1>3. ReadSoFar /\ WholeOrNothing
  BY <1>1 DEF ReadSoFar, WholeOrNothing
<1>4. LogKept
  <2>1. 0 \in 0..MaxRetries
    <3>1. MaxRetries \in Nat
      BY FetcherAssumption
    <3> QED
      BY <3>1
  <2> QED
    BY <1>1, <1>2, <2>1 DEF LogKept
<1>5. PatientRetries
  <2>1. 1..(0 - 0) = {}
    OBVIOUS
  <2> QED
    BY <1>1, <1>2, <2>1 DEF PatientRetries
<1> QED
  BY <1>3, <1>4, <1>5 DEF FetchInv

LEMMA ReadSoFarStep ==
  ASSUME FetchInv, FetchNext \/ Taken \/ UNCHANGED fetchVars
  PROVE  ReadSoFar'
<1>0. ReadSoFar
  BY DEF FetchInv
<1>1. CASE UNCHANGED fetchVars
  BY <1>0, <1>1 DEF fetchVars, ReadSoFar, Chunks, BytesUpTo
<1>2. ASSUME NEW p \in BOOLEAN, Ask(p) PROVE ReadSoFar'
  BY <1>2 DEF Ask, ReadSoFar
<1>3. CASE Answer
  <2>1. /\ answer' \in Answers /\ call' = "reading" /\ got' = 0
    BY <1>3 DEF Answer
  <2>2. Chunks' \in Seq(Nat) /\ Len(Chunks') \in Nat
    BY <2>1, TypeOfChunks
  <2>3. Bytes(Chunks', 0) = 0
    BY <2>2, BytesOfChunks
  <2>4. 0 \in 0..Len(Chunks')
    BY <2>2
  <2>5. got' = Bytes(Chunks', 0)
    BY <2>1, <2>3
  <2>6. 0 <= BodyLimit(answer'.type)
    <3>1. BodyLimit(answer'.type) \in Nat
      BY Limits, Zenon
    <3> QED
      BY <3>1
  <2> QED
    BY <2>1, <2>4, <2>5, <2>6 DEF BytesUpTo, ReadSoFar
<1>4. CASE ReadBody
  <2>1. answer \in Answers /\ answer' = answer /\ call = "reading"
    BY <1>0, <1>4 DEF ReadBody, ReadSoFar
  <2>2. Chunks' = Chunks /\ Len(Chunks) \in Nat
    BY <2>1, TypeOfChunks DEF Chunks
  <2>3. CASE call' # "reading"
    <3>1. call' \in {"waiting", "done"}
      BY <1>4, <2>3 DEF ReadBody, Failed, Complete, Give, Wait
    <3> QED
      BY <2>1, <3>1 DEF ReadSoFar
  <2>4. CASE call' = "reading"
    <3>1. /\ answer.fails = "nothing" /\ NextChunk < Len(Chunks) /\ ChunkFits(NextChunk + 1)
          /\ got' = BytesUpTo(NextChunk + 1)
      BY <1>4, <2>4 DEF ReadBody, Failed, Complete, Give, Wait
    <3>2. NextChunk \in 0..Len(Chunks)
      BY <1>0, <2>1, NextIsNext DEF ReadSoFar
    <3>3. NextChunk + 1 \in 0..Len(Chunks)
      <4>1. NextChunk < Len(Chunks)
        BY <3>1
      <4>2. PICK n \in 0..Len(Chunks) : n = NextChunk
        BY <3>2
      <4> QED
        <5>1. Len(Chunks) \in Nat
          BY <2>2
        <5> QED
          BY <4>1, <4>2, <5>1
    <3> QED
      BY <2>1, <2>2, <2>4, <3>1, <3>3 DEF BytesUpTo, ChunkFits, ReadSoFar
  <2> QED
    BY <2>3, <2>4
<1>5. CASE ReadStatus
  BY <1>0, <1>5 DEF ReadStatus, Give, ReadSoFar
<1>6. CASE Awake
  BY <1>0, <1>6 DEF Awake, ReadSoFar
<1>7. CASE Taken
  BY <1>0, <1>7 DEF Taken, ReadSoFar
<1> QED
  BY <1>1, <1>2, <1>3, <1>4, <1>5, <1>6, <1>7 DEF FetchNext

-----------------------------------------------------------------------------
(* What an attempt that was not enough leaves in the log. *)
Entry(outcome, waits) ==
  [method |-> method, outcome |-> outcome, asked |-> IF answer.fails = "nothing" THEN answer.asked ELSE Unknown, wait |-> waits]

(* It may be tried again, after a wait that is long enough.                *)
Deserves(e, n) ==
  /\ PassingFailure(e.outcome) /\ ~AskedLong(e)
  /\ e.wait >= Shortest(n)
  /\ e.outcome.ok /\ e.outcome.status \in Overload /\ e.asked # Unknown => e.wait >= 2 * e.asked

Retries(e) ==
  /\ call' = "waiting" /\ attempt < MaxRetries /\ attempt' = attempt + 1
  /\ log' = Append(log, e) /\ Deserves(e, attempt + 1)

Ends(e) ==
  /\ call' = "done" /\ attempt' = attempt
  /\ log' = Append(log, e)
  /\ PassingFailure(result') => attempt >= MaxRetries \/ AskedLong(e)

LEMMA Bounds == MaxRetries \in Nat /\ MaxRetryAfter \in Nat
BY FetcherAssumption

LEMMA AttemptIsCount ==
  ASSUME LogKept
  PROVE  attempt \in Nat /\ attempt + 1 \in Nat \ {0}
<1>1. attempt \in 0..MaxRetries
  BY DEF LogKept
<1> QED
  BY <1>1, Bounds

LEMMA LongestIsLonger ==
  ASSUME NEW a \in Nat, NEW w \in Nat
  PROVE  Longest(2 * a, w) \in Nat /\ Longest(2 * a, w) >= w /\ Longest(2 * a, w) >= 2 * a
BY DEF Longest

LEMMA FailedEnds ==
  ASSUME LogKept, NEW kind, Failed(kind), ~probe
  PROVE  \E e : Retries(e) \/ Ends(e)
<1>0. attempt \in Nat /\ MaxRetries \in Nat /\ attempt + 1 \in Nat \ {0}
  BY Bounds, AttemptIsCount
<1>1. CASE kind \in RetryableKinds /\ attempt < MaxRetries
  <2>1. PICK w \in BackoffDelays(attempt + 1) : Wait(Failure(kind), w)
    BY <1>1 DEF Failed
  <2>2. w \in Nat /\ w >= Shortest(attempt + 1)
    BY <1>0, Waits
  <2> DEFINE e == Entry(Failure(kind), w)
  <2>3. e.outcome = Failure(kind) /\ e.wait = w
    BY DEF Entry
  <2>4. e.outcome.ok = FALSE /\ PassingFailure(e.outcome)
    BY <1>1, <2>3 DEF Failure, PassingFailure
  <2>5. log' = Append(log, e) /\ call' = "waiting" /\ attempt' = attempt + 1
    BY <2>1 DEF Wait, Told, Entry
  <2> HIDE DEF e
  <2> QED
    BY <1>1, <2>2, <2>3, <2>4, <2>5 DEF Retries, Deserves, AskedLong
<1>2. CASE ~(kind \in RetryableKinds /\ attempt < MaxRetries)
  <2>1. Give(Failure(kind))
    BY <1>2 DEF Failed
  <2> DEFINE e == Entry(Failure(kind), 0)
  <2>2. log' = Append(log, e) /\ call' = "done" /\ attempt' = attempt /\ result' = Failure(kind)
    BY <2>1 DEF Give, Told, Entry
  <2>3. PassingFailure(result') => kind \in RetryableKinds
    BY <2>2 DEF Failure, PassingFailure
  <2> HIDE DEF e
  <2> QED
    BY <1>0, <1>2, <2>2, <2>3 DEF Ends
<1> QED
  BY <1>1, <1>2

(* A wait of x is long enough for what the server asked.                   *)
LongEnough(x) == Asked # Unknown => x >= 2 * Asked /\ Asked <= MaxRetryAfter

LEMMA DocumentWaits ==
  ASSUME LogKept, answer \in Answers, answer.fails = "nothing", answer.status \in RetryableStatus, ~(attempt >= MaxRetries),
         NEW w \in BackoffDelays(attempt + 1), NEW x \in Nat, x >= w, LongEnough(x), Wait(Document, x)
  PROVE  \E e : Retries(e)
<1> DEFINE e == Entry(Document, x)
<1>0. attempt \in Nat /\ MaxRetries \in Nat /\ MaxRetryAfter \in Nat /\ attempt + 1 \in Nat \ {0}
  BY Bounds, AttemptIsCount
<1>1. answer.asked \in Nat \cup {Unknown} /\ Unknown \notin Nat
  BY FetcherAssumption
<1>2. log' = Append(log, e) /\ call' = "waiting" /\ attempt' = attempt + 1
  BY DEF Wait, Told, Entry
<1>3. e.outcome = Document /\ e.wait = x /\ e.asked = answer.asked
  BY DEF Entry
<1>4. Document.ok = TRUE /\ Document.status = answer.status
  BY DEF Document
<1> HIDE DEF e
<1>5. PassingFailure(e.outcome)
  BY <1>3, <1>4 DEF PassingFailure
<1>6. e.wait >= Shortest(attempt + 1)
  <2>1. w \in Nat /\ w >= Shortest(attempt + 1) /\ Shortest(attempt + 1) \in Nat
    BY <1>0, Waits
  <2> QED
    BY <1>3, <2>1
<1>7. CASE answer.status \in Overload /\ answer.asked # Unknown
  <2>1. x >= 2 * answer.asked /\ answer.asked <= MaxRetryAfter /\ answer.asked \in Nat
    BY <1>1, <1>7 DEF LongEnough, Asked
  <2>2. ~(answer.asked > MaxRetryAfter)
    BY <1>0, <2>1
  <2>3. ~AskedLong(e) /\ e.wait >= 2 * e.asked
    BY <1>3, <2>1, <2>2 DEF AskedLong
  <2> QED
    BY <1>0, <1>2, <1>5, <1>6, <2>3 DEF Retries, Deserves
<1>8. CASE ~(answer.status \in Overload /\ answer.asked # Unknown)
  <2>1. ~AskedLong(e)
    BY <1>3, <1>4, <1>8 DEF AskedLong
  <2> QED
    BY <1>0, <1>2, <1>3, <1>4, <1>5, <1>6, <1>8, <2>1 DEF Retries, Deserves
<1> QED
  BY <1>7, <1>8

LEMMA DocumentGiven ==
  ASSUME Give(Document), answer.fails = "nothing",
         answer.status \notin RetryableStatus \/ attempt >= MaxRetries \/ (Asked # Unknown /\ Asked > MaxRetryAfter)
  PROVE  \E e : Ends(e)
<1> DEFINE e == Entry(Document, 0)
<1>1. Document.ok = TRUE /\ Document.status = answer.status
  BY DEF Document
<1>2. log' = Append(log, e) /\ call' = "done" /\ attempt' = attempt /\ result' = Document
  BY DEF Give, Told, Entry
<1>3. e.outcome = Document /\ e.asked = answer.asked
  BY DEF Entry
<1> HIDE DEF e
<1>4. PassingFailure(result') => answer.status \in RetryableStatus
  BY <1>1, <1>2 DEF PassingFailure
<1>5. Asked # Unknown /\ Asked > MaxRetryAfter => AskedLong(e)
  BY <1>1, <1>3 DEF AskedLong, Asked
<1> QED
  BY <1>2, <1>4, <1>5 DEF Ends

LEMMA CompleteEnds ==
  ASSUME LogKept, Complete, answer \in Answers, answer.fails = "nothing"
  PROVE  \E e : Retries(e) \/ Ends(e)
<1>1. CASE answer.status \notin RetryableStatus \/ attempt >= MaxRetries
  BY <1>1, DocumentGiven DEF Complete
<1>2. CASE answer.status \in RetryableStatus /\ ~(attempt >= MaxRetries) /\ Asked = Unknown
  <2>1. PICK w \in BackoffDelays(attempt + 1) : Wait(Document, w)
    BY <1>2 DEF Complete
  <2>2. w \in Nat /\ w >= w
    BY AttemptIsCount, Waits
  <2>3. LongEnough(w)
    BY <1>2 DEF LongEnough
  <2> QED
    BY <1>2, <2>1, <2>2, <2>3, DocumentWaits
<1>3. CASE answer.status \in RetryableStatus /\ ~(attempt >= MaxRetries) /\ Asked # Unknown /\ Asked > MaxRetryAfter
  BY <1>3, DocumentGiven DEF Complete
<1>4. CASE answer.status \in RetryableStatus /\ ~(attempt >= MaxRetries) /\ Asked # Unknown /\ ~(Asked > MaxRetryAfter)
  <2>1. PICK w \in BackoffDelays(attempt + 1) : Wait(Document, Longest(2 * Asked, w))
    BY <1>4 DEF Complete
  <2>2. w \in Nat
    BY AttemptIsCount, Waits
  <2>3. Asked \in Nat
    BY <1>4, FetcherAssumption DEF Asked
  <2>4. /\ Longest(2 * Asked, w) \in Nat /\ Longest(2 * Asked, w) >= w
        /\ Longest(2 * Asked, w) >= 2 * Asked
    BY <2>2, <2>3, LongestIsLonger
  <2>5. Asked <= MaxRetryAfter
    BY <1>4, <2>3, Bounds
  <2>6. LongEnough(Longest(2 * Asked, w))
    BY <2>4, <2>5 DEF LongEnough
  <2> QED
    BY <1>4, <2>1, <2>4, <2>6, DocumentWaits
<1> QED
  BY <1>1, <1>2, <1>3, <1>4

(* What becomes of an attempt when its answer is read.                     *)
LEMMA BodyEnds ==
  ASSUME ReadSoFar, LogKept, ReadBody
  PROVE  \/ call' = call /\ UNCHANGED <<attempt, result, log>>
         \/ \E e : Retries(e) \/ Ends(e)
<1>0. ~probe /\ answer \in Answers
  BY DEF ReadBody, ReadSoFar
<1>1. ASSUME NEW kind, Failed(kind) PROVE \E e : Retries(e) \/ Ends(e)
  BY <1>0, <1>1, FailedEnds
<1>2. CASE answer.fails = "nothing" /\ Complete
  BY <1>0, <1>2, CompleteEnds
<1> QED
  BY <1>1, <1>2 DEF ReadBody

(* The reading of a probe's status: another method, or the end.            *)
LEMMA StatusEnds ==
  ASSUME ReadStatus
  PROVE  /\ probe /\ probe' = probe /\ call = "reading" /\ attempt' = attempt
         /\ \E e : log' = Append(log, e) /\ e.method = method
              /\ \/ call' = "sent" /\ method = "HEAD" /\ method' = "GET" /\ e.outcome.ok /\ e.outcome.status \in NoHead
                 \/ call' = "done" /\ method' = method
<1>1. CASE answer.fails = "nothing" /\ answer.status \in NoHead /\ method = "HEAD"
  <2>1. log' = Append(log, Entry(Document, 0)) /\ call' = "sent" /\ method' = "GET"
    BY <1>1 DEF ReadStatus, Told, Entry
  <2>2. Entry(Document, 0).method = method /\ Entry(Document, 0).outcome = Document
    BY DEF Entry
  <2>3. Document.ok /\ Document.status = answer.status
    BY DEF Document
  <2> QED
    BY <1>1, <2>1, <2>2, <2>3 DEF ReadStatus
<1>2. CASE ~(answer.fails = "nothing" /\ answer.status \in NoHead /\ method = "HEAD")
  <2>1. PICK r : Give(r)
    BY <1>2 DEF ReadStatus
  <2>2. log' = Append(log, Entry(r, 0)) /\ call' = "done" /\ method' = method /\ attempt' = attempt
    BY <2>1 DEF Give, Told, Entry
  <2>3. Entry(r, 0).method = method
    BY DEF Entry
  <2> QED
    BY <2>2, <2>3 DEF ReadStatus
<1> QED
  BY <1>1, <1>2

LEMMA LogKeptStep ==
  ASSUME FetchInv, FetchNext \/ Taken \/ UNCHANGED fetchVars
  PROVE  LogKept'
<1>0. LogKept /\ ReadSoFar
  BY DEF FetchInv
<1>a. log \in Seq(Range(log)) /\ Len(log) \in Nat /\ attempt \in Nat /\ attempt \in 0..MaxRetries /\ MaxRetries \in Nat
  BY <1>0, Bounds DEF LogKept
<1>1. CASE UNCHANGED fetchVars
  BY <1>0, <1>1 DEF fetchVars, LogKept
<1>e. <<>> \in Seq(Range(<<>>)) /\ Len(<<>>) = 0 /\ 0 \in 0..MaxRetries
  BY <1>a
<1>2. ASSUME NEW p \in BOOLEAN, Ask(p) PROVE LogKept'
  BY <1>2, <1>e DEF Ask, LogKept
<1>3. CASE Answer
  BY <1>0, <1>3 DEF Answer, LogKept
<1>4. CASE ReadBody
  <2>1. ~probe /\ probe' = probe /\ call = "reading"
    BY <1>4 DEF ReadBody
  <2>2. Len(log) = attempt
    BY <1>0, <2>1 DEF LogKept
  <2>3. CASE call' = call /\ UNCHANGED <<attempt, result, log>>
    BY <1>0, <2>1, <2>3 DEF LogKept
  <2>4. ASSUME NEW e, Retries(e) PROVE LogKept'
    <3>1. log' = Append(log, e) /\ call' = "waiting" /\ attempt < MaxRetries /\ attempt' = attempt + 1
      BY <2>4 DEF Retries
    <3>2. log' \in Seq(Range(log')) /\ Len(log') = attempt' /\ attempt' \in 0..MaxRetries
      BY <1>a, <2>2, <3>1, Longer
    <3> QED
      BY <1>0, <2>1, <3>1, <3>2 DEF LogKept
  <2>5. ASSUME NEW e, Ends(e) PROVE LogKept'
    <3>1. log' = Append(log, e) /\ call' = "done" /\ attempt' = attempt
      BY <2>5 DEF Ends
    <3>2. log' \in Seq(Range(log'))
      BY <1>a, <3>1, Longer
    <3> QED
      BY <1>0, <2>1, <3>1, <3>2 DEF LogKept
  <2> QED
    BY <1>0, <1>4, <2>3, <2>4, <2>5, BodyEnds
<1>5. CASE ReadStatus
  <2>1. PICK e : log' = Append(log, e) /\ e.method = method
              /\ \/ call' = "sent" /\ method = "HEAD" /\ method' = "GET" /\ e.outcome.ok /\ e.outcome.status \in NoHead
                 \/ call' = "done" /\ method' = method
    BY <1>5, StatusEnds
  <2>2. probe /\ probe' = probe /\ call = "reading" /\ attempt' = attempt
    BY <1>5, StatusEnds
  <2>3. log' \in Seq(Range(log')) /\ Len(log') = Len(log) + 1 /\ log'[Len(log) + 1] = e
    BY <1>a, <2>1, Longer
  <2>4. CASE call' = "done"
    BY <1>0, <2>2, <2>3, <2>4 DEF LogKept
  <2>5. CASE call' = "sent"
    <3>1. method = "HEAD" /\ method' = "GET" /\ e.outcome.ok /\ e.outcome.status \in NoHead
      BY <2>1, <2>5
    <3>2. log = <<>>
      BY <1>0, <2>2, <3>1 DEF LogKept
    <3>3. Len(log') = 1 /\ log'[1] = e
      BY <2>3, <3>2
    <3> QED
      BY <1>0, <2>2, <2>3, <2>5, <3>1, <3>3 DEF LogKept
  <2> QED
    BY <2>1, <2>4, <2>5
<1>6. CASE Awake
  BY <1>0, <1>6 DEF Awake, LogKept
<1>7. CASE Taken
  BY <1>0, <1>7, <1>e DEF Taken, LogKept
<1> QED
  BY <1>1, <1>2, <1>3, <1>4, <1>5, <1>6, <1>7 DEF FetchNext

LEMMA PatientStep ==
  ASSUME FetchInv, FetchNext \/ Taken \/ UNCHANGED fetchVars
  PROVE  PatientRetries'
<1>0. LogKept /\ ReadSoFar /\ PatientRetries
  BY DEF FetchInv
<1>a. log \in Seq(Range(log)) /\ Len(log) \in Nat /\ attempt \in Nat /\ attempt \in 0..MaxRetries /\ MaxRetries \in Nat
  BY <1>0, Bounds DEF LogKept
<1>1. CASE UNCHANGED fetchVars
  BY <1>0, <1>1 DEF fetchVars, PatientRetries
<1>2. ASSUME log' = <<>>, call' # "done" PROVE PatientRetries'
  <2>1. Len(<<>>) = 0 /\ 1..(0 - 0) = {} /\ 0 <= 2
    OBVIOUS
  <2> QED
    BY <1>2, <2>1 DEF PatientRetries
<1>3. CASE (\E p \in BOOLEAN : Ask(p)) \/ Taken
  BY <1>2, <1>3 DEF Ask, Taken
<1>4. ASSUME call # "done", call' # "done", UNCHANGED <<probe, log>> PROVE PatientRetries'
  BY <1>0, <1>4 DEF PatientRetries
<1>5. CASE Answer \/ Awake
  BY <1>4, <1>5 DEF Answer, Awake
<1>6. CASE ReadBody
  <2>1. ~probe /\ probe' = probe /\ call = "reading"
    BY <1>6 DEF ReadBody
  <2>2. Len(log) = attempt
    BY <1>0, <2>1 DEF LogKept
  <2>3. CASE call' = call /\ UNCHANGED <<attempt, result, log>>
    BY <1>4, <2>1, <2>3
  <2>4. \A n \in 1..Len(log) : Deserves(log[n], n)
    BY <1>0, <1>a, <2>1 DEF PatientRetries, Deserves
  <2>5. ASSUME NEW e, Retries(e) PROVE PatientRetries'
    <3>1. log' = Append(log, e) /\ call' = "waiting" /\ attempt' = attempt + 1 /\ Deserves(e, attempt + 1)
      BY <2>5 DEF Retries
    <3>2. Len(log') = attempt + 1 /\ \A n \in 1..attempt : log'[n] = log[n]
      BY <1>a, <2>2, <3>1, Longer
    <3>3. log'[attempt + 1] = e
      BY <1>a, <2>2, <3>1, Longer
    <3>4. \A n \in 1..Len(log') : Deserves(log'[n], n)
      BY <1>a, <2>2, <2>4, <3>1, <3>2, <3>3
    <3>5. Len(log') - 0 = Len(log')
      BY <1>a, <3>2
    <3> QED
      BY <2>1, <3>1, <3>4, <3>5 DEF PatientRetries, Deserves
  <2>6. ASSUME NEW e, Ends(e) PROVE PatientRetries'
    <3>1. log' = Append(log, e) /\ call' = "done" /\ (PassingFailure(result') => attempt >= MaxRetries \/ AskedLong(e))
      BY <2>6 DEF Ends
    <3>2. Len(log') = attempt + 1 /\ (\A n \in 1..attempt : log'[n] = log[n]) /\ Last(log') = e
      BY <1>a, <2>2, <3>1, Longer
    <3>3. Len(log') - 1 = attempt
      BY <1>a, <3>2
    <3>4. \A n \in 1..(Len(log') - 1) : Deserves(log'[n], n)
      BY <2>2, <2>4, <3>2, <3>3
    <3>5. attempt >= MaxRetries => Len(log') = MaxRetries + 1
      BY <1>a, <3>2
    <3> QED
      BY <2>1, <3>1, <3>2, <3>4, <3>5 DEF PatientRetries, Deserves
  <2> QED
    BY <1>0, <1>6, <2>3, <2>5, <2>6, BodyEnds
<1>7. CASE ReadStatus
  <2>1. PICK e : log' = Append(log, e) /\ e.method = method
              /\ \/ call' = "sent" /\ method = "HEAD" /\ method' = "GET" /\ e.outcome.ok /\ e.outcome.status \in NoHead
                 \/ call' = "done" /\ method' = method
    BY <1>7, StatusEnds
  <2>2. probe /\ probe' = probe /\ call = "reading"
    BY <1>7, StatusEnds
  <2>3. Len(log') = Len(log) + 1 /\ log'[Len(log) + 1] = e /\ \A n \in 1..Len(log) : log'[n] = log[n]
    BY <1>a, <2>1, Longer
  <2>4. CASE log = <<>>
    <3>1. Len(log') = 1
      BY <2>3, <2>4
    <3> QED
      BY <2>2, <3>1 DEF PatientRetries
  <2>5. CASE method = "GET" /\ Len(log) = 1 /\ log[1].outcome.ok /\ log[1].outcome.status \in NoHead
    <3>1. Len(log') = 2 /\ log'[2] = e /\ log'[1] = log[1]
      BY <2>3, <2>5
    <3> QED
      BY <2>1, <2>2, <2>5, <3>1 DEF PatientRetries
  <2> QED
    BY <1>0, <2>2, <2>4, <2>5 DEF LogKept
<1> QED
  BY <1>1, <1>3, <1>5, <1>6, <1>7 DEF FetchNext

(* What is given of a body that was read to its end, or is too long.       *)
LEMMA WholeStep ==
  ASSUME FetchInv, FetchNext \/ Taken \/ UNCHANGED fetchVars
  PROVE  WholeOrNothing'
<1>0. ReadSoFar /\ WholeOrNothing
  BY DEF FetchInv
<1>1. CASE UNCHANGED fetchVars
  BY <1>0, <1>1 DEF fetchVars, WholeOrNothing, BytesUpTo, Chunks
<1>2. CASE (\E p \in BOOLEAN : Ask(p)) \/ Taken \/ Answer \/ Awake \/ ReadStatus
  BY <1>2 DEF Ask, Taken, Answer, Awake, ReadStatus, WholeOrNothing
<1>3. CASE ReadBody
  <2> SUFFICES ASSUME call' = "done"
               PROVE  WholeOrNothing'
    BY DEF WholeOrNothing
  <2>1. answer \in Answers /\ answer' = answer /\ call = "reading"
    BY <1>0, <1>3 DEF ReadBody, ReadSoFar
  <2>2. Chunks' = Chunks /\ Chunks \in Seq(Nat) /\ Len(Chunks) \in Nat
    BY <2>1, TypeOfChunks DEF Chunks
  <2>3. PICK total : total = BytesUpTo(Len(Chunks)) /\ total = BytesUpTo(Len(Chunks))'
    BY <2>2 DEF BytesUpTo
  <2>4. PICK limit \in Nat : limit = BodyLimit(answer.type)
    BY Limits
  <2>5. NextChunk \in 0..Len(Chunks) /\ BytesUpTo(NextChunk) = got
    BY <1>0, <2>1, NextIsNext DEF ReadSoFar
  <2>6. \A n \in 0..Len(Chunks) : BytesUpTo(n) \in Nat /\ BytesUpTo(n) <= total
    BY <2>2, <2>3, BytesAreCounts, BytesGrow DEF BytesUpTo
  <2>7. total \in Nat
    <3>1. Len(Chunks) \in 0..Len(Chunks)
      BY <2>2
    <3>2. BytesUpTo(Len(Chunks)) \in Nat
      BY <2>6, <3>1
    <3> QED
      BY <2>3, <3>2
  <2>8. ASSUME NEW kind, Failed(kind) PROVE result' = Failure(kind) /\ ~result'.ok /\ result'.kind = kind
    BY <2>8 DEF Failed, Wait, Give, Failure
  <2>9. CASE answer.fails # "nothing"
    <3>1. ~result'.ok /\ result'.kind # "toolarge"
      BY <1>3, <2>1, <2>8, <2>9, FetcherAssumption DEF ReadBody
    <3> QED
      BY <2>1, <2>9, <3>1 DEF WholeOrNothing
  <2>10. CASE answer.fails = "nothing" /\ DeclaredTooLarge
    <3>1. ~result'.ok /\ result'.kind = "toolarge"
      BY <1>3, <2>8, <2>10 DEF ReadBody, DeclaredTooLarge
    <3>2. (answer.declared # Unknown /\ answer.declared > BodyLimit(answer.type))'
      BY <2>1, <2>10 DEF DeclaredTooLarge
    <3> QED
      BY <2>9, <2>10, <3>1, <3>2, <2>1 DEF WholeOrNothing
  <2>11. CASE answer.fails = "nothing" /\ ~DeclaredTooLarge /\ NextChunk < Len(Chunks)
    <3>1. ~ChunkFits(NextChunk + 1) /\ ~result'.ok /\ result'.kind = "toolarge"
      BY <1>3, <2>1, <2>8, <2>11 DEF ReadBody
    <3>2. PICK n \in 0..Len(Chunks) : n = NextChunk + 1
      <4>1. PICK m \in 0..Len(Chunks) : m = NextChunk
        BY <2>5
      <4> QED
        BY <2>2, <2>11, <4>1
    <3>3. ~(BytesUpTo(n) <= limit)
      BY <2>4, <3>1, <3>2 DEF ChunkFits
    <3>4. total > limit
      BY <2>6, <2>7, <3>3
    <3> QED
      BY <2>1, <2>3, <2>4, <3>1, <3>4 DEF WholeOrNothing
  <2>12. CASE answer.fails = "nothing" /\ ~DeclaredTooLarge /\ ~(NextChunk < Len(Chunks))
    <3>1. NextChunk = Len(Chunks)
      <4>1. PICK m \in 0..Len(Chunks) : m = NextChunk
        BY <2>5
      <4> QED
        BY <2>2, <2>12, <4>1
    <3>2. got = total /\ got <= limit
      BY <1>0, <2>1, <2>3, <2>4, <2>5, <2>12, <3>1 DEF ReadSoFar
    <3>3. ~(total > limit)
      BY <2>7, <3>2
    <3>4. CASE answer.broken
      <4>1. ~result'.ok /\ result'.kind = "connection"
        BY <1>3, <2>8, <2>12, <3>4 DEF ReadBody
      <4> QED
        BY <2>1, <2>3, <2>4, <3>3, <4>1 DEF WholeOrNothing
    <3>5. CASE ~answer.broken
      <4>1. Complete
        BY <1>3, <2>12, <3>5 DEF ReadBody
      <4>2. result' = Document
        BY <4>1 DEF Complete, Give, Wait
      <4>3. result'.bytes = got /\ result'.ok /\ result'.kind = "none"
        BY <4>2 DEF Document
      <4> QED
        BY <2>1, <2>3, <2>4, <3>2, <3>3, <3>5, <4>3 DEF WholeOrNothing
    <3> QED
      BY <3>4, <3>5
  <2> QED
    BY <2>9, <2>10, <2>11, <2>12
<1> QED
  BY <1>1, <1>2, <1>3 DEF FetchNext

THEOREM FetcherInvariant == ReaderSpec => []FetchInv
<1>1. FetchInv /\ [ReaderNext]_readerVars => FetchInv'
  BY ReaderSteps, ReadSoFarStep, LogKeptStep, PatientStep, WholeStep DEF FetchInv
<1> QED
  BY <1>1, FetchInvInit, PTL DEF ReaderSpec

(* A page is asked for again only when it may help, after long enough, and *)
(* given up only when its attempts are spent or the server wants too long  *)
(* a wait (fetch.rs, HttpFetcher::fetch): whatever it answers, whatever    *)
(* the limits and the number of retries.                                   *)
THEOREM AlwaysPatient == ReaderSpec => []PatientRetries
<1>1. FetchInv => PatientRetries
  BY DEF FetchInv
<1> QED
  BY <1>1, FetcherInvariant, PTL

(* The parser never gets half a body, nor one over its limit (fetch.rs,    *)
(* read_body), whatever chunks it comes in.                                *)
THEOREM AlwaysWholeOrNothing == ReaderSpec => []WholeOrNothing
<1>1. FetchInv => WholeOrNothing
  BY DEF FetchInv
<1> QED
  BY <1>1, FetcherInvariant, PTL

=============================================================================
