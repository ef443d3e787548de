------------------------------ MODULE Fetcher -------------------------------
(***************************************************************************)
(* HttpFetcher (fetch.rs): one URL is asked for, again if the answer says   *)
(* that it may be worth it, and its body is read up to a limit; or its      *)
(* status is probed, with HEAD and then GET if the server has no HEAD.      *)
(* What the network answers is one of Answers:                              *)
(*   [fails |-> "timeout" ...]                        no answer             *)
(*   [fails |-> "nothing", status, type, declared, body, broken, asked]     *)
(* body being the sizes of its chunks, declared its Content-Length or       *)
(* Unknown, broken whether the stream fails after them, and asked the       *)
(* seconds of Retry-After, or Unknown.  In Scheduler a page that waits for  *)
(* a retry keeps its place; here the answers are looked at one by one.      *)
(***************************************************************************)
EXTENDS Naturals, Sequences, SequencesExt

CONSTANTS Answers, Unknown,
          MaxBodyBytes, MaxXmlBytes,   \* of a page, and of what may be a sitemap
          MaxRetries, MaxRetryAfter

VARIABLES call,   \* "idle", "sent", "reading", "waiting" or "done"
          method, \* "GET", or "HEAD" of a probe
          probe,  \* whether it is check_status
          attempt, answer, got, \* of the current request: its number, what came, and the bytes read
          result, \* what fetch gives back
          log     \* for the properties: the attempts, with what each was told and how long was waited

fetchVars == <<call, method, probe, attempt, answer, got, result, log>>

ASSUME FetcherAssumption ==
  /\ {MaxBodyBytes, MaxXmlBytes, MaxRetries, MaxRetryAfter} \subseteq Nat /\ Unknown \notin Nat
  /\ \A a \in Answers :
       /\ a.fails # "toolarge"
       /\ a.fails = "nothing" => a.body \in Seq(Nat) /\ a.asked \in Nat \cup {Unknown} /\ a.declared \in Nat \cup {Unknown}

-----------------------------------------------------------------------------

NoAnswer == [fails |-> "none"]
NoResult == [ok |-> FALSE, kind |-> "none"]

(* is_retryable, should_retry_status: too many requests, and the passing    *)
(* errors of a server.                                                      *)
RetryableKinds == {"timeout", "connection"}
RetryableStatus == {429, 500, 502, 503, 504}
Overload == {429, 503}

(* An XML, or what may be a compressed one, may be larger than a page.      *)
BodyLimit(type) == IF type = "xml" /\ MaxXmlBytes > MaxBodyBytes THEN MaxXmlBytes ELSE MaxBodyBytes

(* The wait before attempt n, in half seconds: 2^(n-1) seconds, more or     *)
(* less a half.                                                             *)
Shortest(n) == 2^(IF n > 7 THEN 6 ELSE n - 1)
BackoffDelays(n) == {Shortest(n), 3 * Shortest(n)}

(* The URL is of another network: no request is made (refused_by_perimeter, *)
(* or the resolver's).                                                      *)
Failure(kind) == [ok |-> FALSE, kind |-> kind]
Document == [ok |-> TRUE, kind |-> "none", status |-> answer.status, type |-> answer.type, bytes |-> got]

-----------------------------------------------------------------------------

FetchInit ==
  /\ call = "idle" /\ method = "GET" /\ probe = FALSE /\ attempt = 0 /\ answer = NoAnswer /\ got = 0
  /\ result = NoResult /\ log = <<>>

Ask(asProbe) ==
  /\ call = "idle"
  /\ call' = "sent" /\ probe' = asProbe /\ method' = IF asProbe THEN "HEAD" ELSE "GET"
  /\ attempt' = 0 /\ result' = NoResult /\ log' = <<>>
  /\ UNCHANGED <<answer, got>>

(* send().await.                                                            *)
Answer ==
  /\ call = "sent"
  /\ \E a \in Answers : answer' = a
  /\ call' = "reading" /\ got' = 0
  /\ UNCHANGED <<method, probe, attempt, result, log>>

Told(outcome, waits) == Append(log, [method |-> method, outcome |-> outcome, asked |-> IF answer.fails = "nothing" THEN answer.asked ELSE Unknown, wait |-> waits])
Give(r) == call' = "done" /\ result' = r /\ log' = Told(r, 0) /\ UNCHANGED <<attempt, method>>
Wait(outcome, waits) ==
  /\ call' = "waiting" /\ attempt' = attempt + 1 /\ log' = Told(outcome, waits)
  /\ UNCHANGED <<result, method>>

(* A failure ends it, unless another attempt may do better.                 *)
Failed(kind) ==
  IF ~probe /\ kind \in RetryableKinds /\ attempt < MaxRetries
  THEN \E w \in BackoffDelays(attempt + 1) : Wait(Failure(kind), w)
  ELSE Give(Failure(kind))

(* A document: what a busy server asked for is waited for, and told to the  *)
(* other requests of the host; one that asks for too long is left with its  *)
(* answer.                                                                  *)
Asked == IF answer.status \in Overload THEN answer.asked ELSE Unknown
Longest(a, b) == IF a > b THEN a ELSE b
CompleteAnyway ==
  IF answer.status \notin RetryableStatus \/ attempt >= MaxRetries THEN Give(Document)
  ELSE \E w \in BackoffDelays(attempt + 1) : Wait(Document, w)
Complete ==
  IF answer.status \notin RetryableStatus \/ attempt >= MaxRetries THEN Give(Document)
  ELSE IF Asked = Unknown THEN \E w \in BackoffDelays(attempt + 1) : Wait(Document, w)
  ELSE IF Asked > MaxRetryAfter THEN Give(Document)
  ELSE \E w \in BackoffDelays(attempt + 1) : Wait(Document, Longest(2 * Asked, w))

(* The body, one chunk more: not past its limit, by what was declared nor   *)
(* by what comes.                                                           *)
Chunks == IF answer.fails = "nothing" THEN answer.body ELSE <<>>
Bytes(chunks, n) ==
  LET sum[k \in 0..Len(chunks)] == IF k = 0 THEN 0 ELSE sum[k - 1] + chunks[k] IN sum[n]
BytesUpTo(n) == Bytes(Chunks, n)
NextChunk == CHOOSE n \in 0..Len(Chunks) : BytesUpTo(n) = got
DeclaredTooLarge == answer.declared # Unknown /\ answer.declared > BodyLimit(answer.type)
ChunkFitsOneLate(n) == BytesUpTo(n - 1) <= BodyLimit(answer.type)
ChunkFits(n) == BytesUpTo(n) <= BodyLimit(answer.type)
ReadBody ==
  /\ call = "reading" /\ ~probe
  /\ IF answer.fails # "nothing" THEN got' = got /\ Failed(answer.fails)
     ELSE IF DeclaredTooLarge THEN got' = got /\ Failed("toolarge")
     ELSE IF NextChunk < Len(Chunks) THEN
       IF ChunkFits(NextChunk + 1)
       THEN got' = BytesUpTo(NextChunk + 1) /\ UNCHANGED <<call, attempt, result, log, method>>
       ELSE got' = got /\ Failed("toolarge")
     ELSE got' = got /\ IF answer.broken THEN Failed("connection") ELSE Complete
  /\ UNCHANGED <<probe, answer>>

(* check_status: the body is not read, and nothing is tried again but a     *)
(* method that is not served.                                               *)
NoHead == {405, 501}
ReadStatus ==
  /\ call = "reading" /\ probe
  /\ IF answer.fails = "nothing" /\ answer.status \in NoHead /\ method = "HEAD"
     THEN call' = "sent" /\ method' = "GET" /\ log' = Told(Document, 0) /\ UNCHANGED <<attempt, result>>
     ELSE Give(IF answer.fails # "nothing" THEN Failure(answer.fails) ELSE Document)
  /\ UNCHANGED <<probe, answer, got>>

Awake == call = "waiting" /\ call' = "sent" /\ UNCHANGED <<method, probe, attempt, answer, got, result, log>>

(* The caller takes the result.                                             *)
Taken == call' = "idle" /\ answer' = NoAnswer /\ got' = 0 /\ attempt' = 0 /\ log' = <<>> /\ result' = NoResult /\ UNCHANGED <<method, probe>>

FetchNext == (\E asProbe \in BOOLEAN : Ask(asProbe)) \/ Answer \/ ReadBody \/ ReadStatus \/ Awake
-----------------------------------------------------------------------------
(* Properties. *)

(* A page is read whole or not at all: what the parser is given is all the  *)
(* body the server sent, within the limit of its type, and a body is called *)
(* too large only if it is over the limit, or was declared to be.           *)
WholeOrNothing ==
  call = "done" /\ ~probe =>
    LET total == BytesUpTo(Len(Chunks)) IN
    /\ result.ok => result.bytes = total /\ ~answer.broken /\ total <= BodyLimit(answer.type)
    /\ result.kind = "toolarge" =>
         total > BodyLimit(answer.type) \/ (answer.declared # Unknown /\ answer.declared > BodyLimit(answer.type))
    /\ answer.fails = "nothing" /\ total > BodyLimit(answer.type) => result.kind = "toolarge"

(* A page is asked for again only after a passing failure, after at least   *)
(* what the server asked for and the back-off of that attempt; and it is    *)
(* given up with such a failure only when all the attempts are spent, or    *)
(* the server asks for more than the crawl can wait.  A probe is asked      *)
(* once, and by GET only if HEAD is not served.                             *)
PassingFailure(r) == IF r.ok THEN r.status \in RetryableStatus ELSE r.kind \in RetryableKinds
AskedLong(entry) == entry.outcome.ok /\ entry.outcome.status \in Overload /\ entry.asked # Unknown /\ entry.asked > MaxRetryAfter
PatientRetries ==
  /\ ~probe => \A n \in 1..(Len(log) - (IF call = "done" THEN 1 ELSE 0)) :
       /\ PassingFailure(log[n].outcome) /\ ~AskedLong(log[n])
       /\ log[n].wait >= Shortest(n)
       /\ log[n].outcome.ok /\ log[n].outcome.status \in Overload /\ log[n].asked # Unknown => log[n].wait >= 2 * log[n].asked
  /\ call = "done" /\ ~probe /\ PassingFailure(result) => Len(log) = MaxRetries + 1 \/ AskedLong(Last(log))
  /\ probe => Len(log) <= 2 /\ (Len(log) = 2 => log[1].outcome.ok /\ log[1].outcome.status \in NoHead /\ log[2].method = "GET")
=============================================================================
