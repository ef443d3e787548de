---------------------- MODULE CrawlEngineClaimsProofs -----------------------
(***************************************************************************)
(* What a crawl keeps to and what its file claims, for every site, every   *)
(* limit and any number of sessions and crashes: how many pages it asks    *)
(* for, which, that no external URL is probed twice; and that a file that  *)
(* says it is finished is.                                                 *)
(***************************************************************************)
EXTENDS CrawlEngineProofs

-----------------------------------------------------------------------------
(* Limits. *)

(* The budget is looked at after each task, and a session begins with none. *)
BudgetInv ==
    /\ phase \in {"idle", "setup"} => fetched = 0
    /\ phase \in {"top", "fill"} => fetched = 0 \/ already + fetched < MaxUrls
    /\ BudgetPerSession

(* Before the first session nothing is spent.                               *)
LEMMA BudgetInit == Init => BudgetInv
BY LimitsAssumption DEF Init, Idle, BudgetInv, BudgetPerSession

(* A step that fetches nothing, and only goes back to the top of the loop   *)
(* with budget left.                                                        *)
LEMMA NothingFetched ==
    ASSUME TypeOK, TypeOK', BudgetInv, UNCHANGED <<fetched, already>>,
           \/ phase' \in {phase, "drain", "final"}
           \/ phase = "top" /\ phase' = "fill"
           \/ phase = "setup" /\ phase' = "top"
           \/ phase = "fill" /\ phase' = "top"
           \/ phase' = "top" /\ already + fetched < MaxUrls
    PROVE  BudgetInv'
BY LimitsAssumption DEF TypeOK, CountersTypeOK, BudgetInv, BudgetPerSession

(* A task joined, or a page read: the loop goes on below the budget.        *)
LEMMA BudgetCloseJoin ==
    ASSUME TypeOK, TypeOK', BudgetInv, UNCHANGED <<fetched, already>>,
           NEW u, NEW reason, CloseJoin(u, reason)
    PROVE  BudgetInv'
<1>1. already + fetched \in Nat /\ MaxUrls \in Nat
  BY LimitsAssumption DEF TypeOK, CountersTypeOK
<1>2. CASE BudgetSpent
  BY <1>2, NothingFetched DEF CloseJoin, LeaveLoop
<1>3. CASE ~BudgetSpent
  <2>1. already + fetched < MaxUrls
    BY <1>1, <1>3 DEF BudgetSpent
  <2> QED
    BY <1>3, <2>1, NothingFetched DEF CloseJoin
<1> QED
  BY <1>2, <1>3

(* Every step keeps within the budget.                                      *)
LEMMA BudgetStep == TypeOK /\ TypeOK' /\ BudgetInv /\ [Next]_vars => BudgetInv'
<1> SUFFICES ASSUME TypeOK, TypeOK', BudgetInv, [Next]_vars
             PROVE  BudgetInv'
  OBVIOUS
<1>1. CASE Start \/ Resume
  <2>1. phase = "idle" /\ phase' = "setup" /\ UNCHANGED fetched
    BY <1>1 DEF Start, Resume, poolVars
  <2> QED
    BY <2>1 DEF BudgetInv, BudgetPerSession
<1>2. CASE Setup
  <2>1. CASE SetupSeed \/ SetupSitemap
    BY <2>1, NothingFetched DEF SetupSeed, SetupSitemap, SetupStep, poolVars
  <2>2. CASE SitemapsOverBudget \/ SitemapsCut
    BY <2>2, NothingFetched DEF SitemapsOverBudget, SitemapsCut, SkipSitemaps, poolVars
  <2>3. CASE RejectProbe
    BY <2>3, NothingFetched DEF RejectProbe, memVars, poolVars, flagVars
  <2>4. CASE EndSetup
    <3>1. phase = "setup" /\ phase' = "top" /\ UNCHANGED <<fetched, already>>
      BY <2>4 DEF EndSetup, poolVars, flagVars
    <3> QED
      BY <3>1, NothingFetched
  <2> QED
    BY <1>2, <2>1, <2>2, <2>3, <2>4 DEF Setup
<1>3. CASE Loop
  <2>1. CASE Refill
    BY <2>1, NothingFetched DEF Refill, poolVars, flagVars
  <2>2. CASE Dispatch \/ DispatchProbe
    BY <2>2, NothingFetched DEF Dispatch, DispatchProbe, poolVars, flagVars
  <2>3. CASE Exhausted
    BY <2>3, NothingFetched DEF Exhausted, LeaveLoop, flagVars
  <2>4. CASE StopOnCancel
    BY <2>4, NothingFetched DEF StopOnCancel, LeaveLoop
  <2>5. CASE StopOnDeadline
    BY <2>5, NothingFetched DEF StopOnDeadline, LeaveLoop, flagVars
  <2> QED
    BY <1>3, <2>1, <2>2, <2>3, <2>4, <2>5 DEF Loop
<1>4. CASE Joins
  <2>1. CASE JoinExcluded
    BY <2>1, BudgetCloseJoin DEF JoinExcluded, Join, flagVars
  <2>2. CASE JoinFailed
    BY <2>2, BudgetCloseJoin DEF JoinFailed, Join, flagVars
  <2>3. CASE JoinRateLimited
    BY <2>3, BudgetCloseJoin DEF JoinRateLimited, Join, flagVars
  <2>4. CASE JoinFetched
    <3>1. phase = "fill" /\ phase' = "page" /\ fetched' = fetched + 1 /\ UNCHANGED already
      BY <2>4 DEF JoinFetched, Waiting, flagVars
    <3> QED
      BY <3>1, LimitsAssumption DEF BudgetInv, BudgetPerSession, TypeOK, CountersTypeOK
  <2>5. CASE JoinPanic
    <3>1. phase = "fill" /\ phase' = "top" /\ UNCHANGED <<fetched, already>>
      BY <2>5 DEF JoinPanic, Waiting, flagVars
    <3> QED
      BY <3>1, NothingFetched
  <2>6. CASE JoinProbe
    BY <2>6, BudgetCloseJoin DEF JoinProbe, flagVars
  <2> QED
    BY <1>4, <2>1, <2>2, <2>3, <2>4, <2>5, <2>6 DEF Joins
<1>5. CASE Page
  <2>1. CASE PageDone
    BY <2>1, BudgetCloseJoin DEF PageDone, flagVars
  <2>2. CASE PageStep
    <3>1. UNCHANGED <<phase, fetched, already>>
      BY <2>2 DEF PageStep, poolVars, flagVars
    <3> QED
      BY <3>1, NothingFetched
  <2> QED
    BY <1>5, <2>1, <2>2
    DEF Page, TargetKnown, TargetExternal, TargetUnregistered, TargetListed, TargetFiltered,
        TargetNotFollowed, TargetTooDeep, TargetQueued, NewTarget
<1>6. CASE Pause \/ FinalizeCancelled \/ FinalizeDone \/ Crash
  <2>1. phase' = "idle" /\ fetched' = 0
    BY <1>6 DEF Pause, FinalizeCancelled, FinalizeDone, Crash, EndSession
  <2> QED
    BY <2>1 DEF BudgetInv, BudgetPerSession
<1>7. CASE Finalize \/ EvaluateRule \/ Commit \/ RequestCancel \/ DeadlinePasses \/ Over \/ UNCHANGED vars
  <2>1. UNCHANGED <<fetched, already>> /\ phase' \in {phase, "final"}
    BY <1>7 DEF Finalize, EvaluateRule, Commit, RequestCancel, DeadlinePasses, Over, vars, memVars, poolVars, flagVars
  <2> QED
    BY <2>1, NothingFetched
<1> QED
  BY <1>1, <1>2, <1>3, <1>4, <1>5, <1>6, <1>7 DEF Next, Progress, Ending

(* Whatever was crawled before it, a session spends what is left of the     *)
(* budget, or fetches one page over it.                                     *)
THEOREM BudgetKept == Spec => []BudgetPerSession
<1>1. BudgetInv => BudgetPerSession
  BY DEF BudgetInv
<1> QED
  BY <1>1, BudgetInit, BudgetStep, TypeCorrect, PTL DEF Spec

-----------------------------------------------------------------------------
(* A URL the crawl may ask for.                                             *)
Asked(u) ==
    /\ u \in Internal
    /\ ListMode => u \in SeedSet
    /\ u \in Filtered => Mode = "http" /\ u \in SeedSet

(* Only such URLs are worked on, sent to the file as work or as pages, or   *)
(* in it as such; and a page that is read was not forbidden by robots.txt.  *)
AskedInv ==
    /\ \A u \in queued \cup inFlight \cup Pending \cup Done : Asked(u)
    /\ phase = "page" => Asked(cur) /\ cur \notin RobotsBlocked
    /\ \A i \in DOMAIN unsaved :
         /\ unsaved[i].row.state \in {"pending", "done"} => Asked(unsaved[i].url)
         /\ unsaved[i].row.state = "done" => unsaved[i].url \notin RobotsBlocked
    /\ Done \cap RobotsBlocked = {}

(* The crawl works on nothing before the first session.                     *)
LEMMA AskedInit == Init => AskedInv
BY DEF Init, Idle, AskedInv, Pending, Done, NoRow

(* A step of a session that leaves the file to the writer, and sends        *)
(* nothing, or a row that is no work, or work it may do.                    *)
LEMMA AskedWithin ==
    ASSUME TypeOK, AskedInv, UNCHANGED rows,
           \/ UNCHANGED unsaved
           \/ \E m \in Message :
                /\ Send(m)
                /\ m.row.state \in {"pending", "done"} => Asked(m.url)
                /\ m.row.state = "done" => m.url \notin RobotsBlocked,
           \A u \in queued' \cup inFlight' : u \in queued \cup inFlight \/ Asked(u),
           phase' = "page" => Asked(cur') /\ cur' \notin RobotsBlocked
    PROVE  AskedInv'
<1>1. Pending' = Pending /\ Done' = Done
  BY DEF Pending, Done
<1>2. \A i \in DOMAIN unsaved' :
        /\ unsaved'[i].row.state \in {"pending", "done"} => Asked(unsaved'[i].url)
        /\ unsaved'[i].row.state = "done" => unsaved'[i].url \notin RobotsBlocked
  <2>1. CASE UNCHANGED unsaved
    BY <2>1 DEF AskedInv
  <2>2. ASSUME NEW m \in Message, Send(m),
               m.row.state \in {"pending", "done"} => Asked(m.url),
               m.row.state = "done" => m.url \notin RobotsBlocked
        PROVE  \A i \in DOMAIN unsaved' :
                 /\ unsaved'[i].row.state \in {"pending", "done"} => Asked(unsaved'[i].url)
                 /\ unsaved'[i].row.state = "done" => unsaved'[i].url \notin RobotsBlocked
    <3>1. unsaved \in Seq(Message) /\ unsaved' = Append(unsaved, m)
      BY <2>2 DEF Send, TypeOK, WriterTypeOK
    <3>2. /\ DOMAIN unsaved' = 1..(Len(unsaved) + 1) /\ DOMAIN unsaved = 1..Len(unsaved) /\ Len(unsaved) \in Nat
          /\ \A i \in 1..Len(unsaved) : unsaved'[i] = unsaved[i]
          /\ unsaved'[Len(unsaved) + 1] = m
      BY <3>1, AppendFacts
    <3> QED
      BY <2>2, <3>2 DEF AskedInv
  <2> QED
    BY <2>1, <2>2
<1>3. \A u : Asked(u)' <=> Asked(u)
  BY DEF Asked
<1> QED
  BY <1>1, <1>2, <1>3 DEF AskedInv

(* The row of a URL that is no work for the crawl.                          *)
LEMMA AskedRow ==
    ASSUME TypeOK, AskedInv, UNCHANGED rows, NEW v \in Urls, NEW r \in Row,
           r.state \notin {"pending", "done"}, Send(RowMsg(v, r)),
           queued' \subseteq queued, inFlight' \subseteq inFlight,
           phase' = "page" => phase = "page" /\ cur' = cur
    PROVE  AskedInv'
<1>1. RowMsg(v, r) \in Message /\ RowMsg(v, r).row = r
  BY MessageTypes DEF RowMsg
<1> QED
  BY <1>1, AskedWithin DEF AskedInv

(* A URL that goes to the frontier.                                         *)
LEMMA AskedEnqueue ==
    ASSUME TypeOK, AskedInv, UNCHANGED rows, NEW v \in Urls, NEW d \in Nat, NEW sm,
           UrlRow("pending", "none", d, sm) \in Row, Enqueue(v, d, sm), Asked(v),
           UNCHANGED <<inFlight, phase, cur>>
    PROVE  AskedInv'
<1>1. UrlRow("pending", "none", d, sm).state = "pending"
  BY DEF UrlRow
<1>2. /\ RowMsg(v, UrlRow("pending", "none", d, sm)) \in Message
      /\ RowMsg(v, UrlRow("pending", "none", d, sm)).url = v
      /\ RowMsg(v, UrlRow("pending", "none", d, sm)).row.state = "pending"
  BY <1>1, MessageTypes DEF RowMsg
<1>3. queued' = queued \cup {v} /\ Send(RowMsg(v, UrlRow("pending", "none", d, sm)))
  BY DEF Enqueue
<1> QED
  BY <1>2, <1>3, AskedWithin DEF AskedInv

(* Nothing is sent, and the session works on what it worked on.             *)
LEMMA AskedQuiet ==
    ASSUME TypeOK, AskedInv, UNCHANGED <<rows, unsaved>>,
           queued' \cup inFlight' \subseteq queued \cup inFlight,
           phase' = "page" => phase = "page" /\ cur' = cur
    PROVE  AskedInv'
BY AskedWithin DEF AskedInv

(* The seeds and what the sitemaps declare.                                 *)
LEMMA AskedSetup == TypeOK /\ AskedInv /\ Setup => AskedInv'
<1> SUFFICES ASSUME TypeOK, AskedInv, Setup
             PROVE  AskedInv'
  OBVIOUS
<1>1. CASE SetupSeed
  <2>1. UNCHANGED <<rows, inFlight, phase, cur>> /\ phase = "setup" /\ next \in 1..Len(Seeds)
    BY <1>1 DEF SetupSeed, SetupStep, fileVars, poolVars, TypeOK, PhaseTypeOK
  <2>2. Seeds[next] \in Internal /\ Seeds[next] \in SeedSet /\ Seeds[next] \in Urls
    BY <2>1, GraphAssumption DEF SeedSet
  <2>3. CASE UNCHANGED <<frontVars, unsaved>>
    BY <2>1, <2>3, AskedQuiet DEF frontVars
  <2>4. CASE Register(Seeds[next], UrlRow("excluded", "pattern", 0, FALSE))
    <3>1. LET r == UrlRow("excluded", "pattern", 0, FALSE) IN r \in Row /\ r.state = "excluded"
      BY RowTypes DEF States, Reasons, UrlRow
    <3> QED
      BY <2>1, <2>2, <2>4, <3>1, AskedRow DEF Register
  <2>5. CASE (Mode = "http" \/ Seeds[next] \notin Filtered) /\ Enqueue(Seeds[next], 0, FALSE)
    <3>1. UrlRow("pending", "none", 0, FALSE) \in Row
      BY RowTypes DEF States, Reasons
    <3>2. Asked(Seeds[next])
      BY <2>2, <2>5 DEF Asked
    <3> QED
      BY <2>1, <2>2, <2>5, <3>1, <3>2, AskedEnqueue
  <2> QED
    BY <1>1, <2>3, <2>4, <2>5 DEF SetupSeed
<1>2. CASE SetupSitemap
  <2> DEFINE u == SitemapUrls[next - Len(Seeds)]
  <2>1. UNCHANGED <<rows, inFlight, phase, cur>> /\ phase = "setup"
    BY <1>2 DEF SetupSitemap, SetupStep, fileVars, poolVars
  <2>2. u \in Internal /\ u \in Urls
    <3>1. next \in Nat /\ next <= Len(Seeds) + Len(SitemapUrls) /\ next > Len(Seeds)
      BY <1>2 DEF SetupSitemap, SetupStep, SetupLength, TypeOK, PhaseTypeOK
    <3>2. next - Len(Seeds) \in 1..Len(SitemapUrls)
      BY <3>1, GraphAssumption
    <3> QED
      BY <3>2, GraphAssumption
  <2>3. \/ UNCHANGED <<frontVars, unsaved>>
        \/ Register(u, UrlRow("skipped", "none", 0, TRUE))
        \/ Register(u, UrlRow("excluded", "pattern", 0, TRUE))
        \/ ~ListMode /\ u \notin Filtered /\ Enqueue(u, 0, TRUE)
    BY <1>2 DEF SetupSitemap
  <2> HIDE DEF u
  <2>4. CASE UNCHANGED <<frontVars, unsaved>>
    BY <2>1, <2>4, AskedQuiet DEF frontVars
  <2>5. LET r == UrlRow("excluded", "pattern", 0, TRUE) IN r \in Row /\ r.state = "excluded"
    BY RowTypes DEF States, Reasons, UrlRow
  <2>6. LET r == UrlRow("skipped", "none", 0, TRUE) IN r \in Row /\ r.state = "skipped"
    BY RowTypes DEF States, Reasons, UrlRow
  <2>7. ASSUME NEW r \in Row, r.state \in {"excluded", "skipped"}, Register(u, r)
        PROVE  AskedInv'
    BY <2>1, <2>2, <2>7, AskedRow DEF Register
  <2>8. CASE ~ListMode /\ u \notin Filtered /\ Enqueue(u, 0, TRUE)
    <3>1. UrlRow("pending", "none", 0, TRUE) \in Row
      BY RowTypes DEF States, Reasons
    <3>2. Asked(u)
      BY <2>2, <2>8 DEF Asked
    <3> QED
      BY <2>1, <2>2, <2>8, <3>1, <3>2, AskedEnqueue
  <2> QED
    BY <2>3, <2>4, <2>5, <2>6, <2>7, <2>8
<1>3. CASE SitemapsOverBudget \/ SitemapsCut
  BY <1>3, AskedQuiet DEF SitemapsOverBudget, SitemapsCut, SkipSitemaps, fileVars, writerVars, frontVars, poolVars
<1>4. CASE RejectProbe
  <2>1. UNCHANGED <<rows, queued, inFlight, phase, cur>>
    BY <1>4 DEF RejectProbe, fileVars, memVars, frontVars, poolVars, pageVars
  <2>2. PICK u \in RejectedProbes : Send(RowMsg(u, ExternalRow("local_network", FALSE)))
    BY <1>4 DEF RejectProbe
  <2>3. u \in Urls
    BY <2>2 DEF RejectedProbes, PendingProbes
  <2>4. LET r == ExternalRow("local_network", FALSE) IN r \in Row /\ r.state = "skipped"
    BY RowTypes DEF Reasons, ExternalRow
  <2> QED
    BY <2>1, <2>2, <2>3, <2>4, AskedRow
<1>5. CASE EndSetup
  <2>1. UNCHANGED <<rows, unsaved, queued, inFlight, cur>> /\ phase' = "top"
    BY <1>5 DEF EndSetup, fileVars, writerVars, frontVars, poolVars
  <2> QED
    BY <2>1, AskedQuiet
<1> QED
  BY <1>1, <1>2, <1>3, <1>4, <1>5 DEF Setup

(* The pool: what was in flight was queued.                                 *)
LEMMA AskedLoop == TypeOK /\ AskedInv /\ Loop => AskedInv'
<1> SUFFICES ASSUME TypeOK, AskedInv, Loop
             PROVE  AskedInv'
  OBVIOUS
<1>1. CASE Refill
  BY <1>1, AskedQuiet DEF Refill, fileVars, writerVars, frontVars, poolVars
<1>2. CASE Dispatch
  BY <1>2, AskedQuiet DEF Dispatch, fileVars, writerVars, pageVars
<1>3. CASE DispatchProbe
  BY <1>3, AskedQuiet DEF DispatchProbe, fileVars, writerVars, frontVars, poolVars, pageVars
<1>4. CASE Exhausted
  BY <1>4, AskedQuiet DEF Exhausted, LeaveLoop, fileVars, writerVars, frontVars
<1>5. CASE StopOnCancel
  BY <1>5, AskedQuiet DEF StopOnCancel, LeaveLoop, fileVars, writerVars, frontVars
<1>6. CASE StopOnDeadline
  BY <1>6, AskedQuiet DEF StopOnDeadline, LeaveLoop, fileVars, writerVars, frontVars
<1> QED
  BY <1>1, <1>2, <1>3, <1>4, <1>5, <1>6 DEF Loop

(* A task that ends: a page is read only if robots.txt allowed it.          *)
LEMMA AskedJoins == TypeOK /\ AskedInv /\ Joins => AskedInv'
<1> SUFFICES ASSUME TypeOK, AskedInv, Joins
             PROVE  AskedInv'
  OBVIOUS
<1>1. /\ inFlight \subseteq Urls /\ depth \in [Urls -> Nat]
      /\ \A u \in inFlight : \A st \in {"excluded", "error"}, why \in {"robots", "local_network", "none"} :
           LET r == UrlRow(st, why, depth[u], u \in inSitemap) IN r \in Row /\ r.state = st
  <2>1. inFlight \subseteq Urls /\ depth \in [Urls -> Nat] /\ inSitemap \subseteq Urls
    BY DEF TypeOK, FrontierTypeOK
  <2>2. ASSUME NEW u \in inFlight, NEW st \in {"excluded", "error"},
               NEW why \in {"robots", "local_network", "none"}
        PROVE  UrlRow(st, why, depth[u], u \in inSitemap) \in Row
    <3>1. depth[u] \in Nat /\ st \in States /\ why \in Reasons /\ (u \in inSitemap) \in BOOLEAN
      BY <2>1 DEF States, Reasons
    <3> QED
      BY <3>1, RowTypes
  <2> QED
    BY <2>1, <2>2 DEF UrlRow
<1>2. ASSUME NEW u \in inFlight, NEW reason, CloseJoin(u, reason), Join(u), UNCHANGED unsaved
      PROVE  AskedInv'
  <2>1. UNCHANGED <<rows, queued>> /\ inFlight' \subseteq inFlight /\ phase' # "page"
    BY <1>2, CloseJoinEffect DEF Join, fileVars, frontVars
  <2> QED
    BY <1>2, <2>1, AskedQuiet
<1>3. ASSUME NEW u \in inFlight, NEW reason, CloseJoin(u, reason), Join(u),
             NEW r \in Row, r.state \notin {"pending", "done"}, Send(RowMsg(u, r))
      PROVE  AskedInv'
  <2>1. UNCHANGED <<rows, queued>> /\ inFlight' \subseteq inFlight /\ phase' # "page" /\ u \in Urls
    BY <1>1, <1>3, CloseJoinEffect DEF Join, fileVars, frontVars
  <2> QED
    BY <1>3, <2>1, AskedRow
<1>4. CASE JoinExcluded
  <2>1. PICK u \in inFlight :
          /\ Join(u) /\ CloseJoin(u, truncated)
          /\ \E why \in {"robots", "local_network"} :
               Send(RowMsg(u, UrlRow("excluded", why, depth[u], u \in inSitemap)))
    BY <1>4 DEF JoinExcluded
  <2> QED
    BY <1>1, <1>3, <2>1
<1>5. CASE JoinFailed
  BY <1>1, <1>3, <1>5 DEF JoinFailed
<1>6. CASE JoinRateLimited
  BY <1>2, <1>6 DEF JoinRateLimited
<1>7. CASE JoinFetched
  <2>1. PICK u \in inFlight : u \notin RobotsBlocked /\ cur' = u /\ inFlight' = inFlight \ {u}
    BY <1>7 DEF JoinFetched, Reachable
  <2>2. UNCHANGED <<rows, unsaved, queued>> /\ Asked(u)
    BY <1>7, <2>1 DEF JoinFetched, fileVars, writerVars, frontVars, AskedInv
  <2> QED
    BY <2>1, <2>2, AskedWithin DEF Asked
<1>8. CASE JoinPanic
  <2>1. UNCHANGED <<rows, unsaved, queued>> /\ inFlight' \subseteq inFlight /\ phase' # "page"
    BY <1>8 DEF JoinPanic, fileVars, writerVars, frontVars
  <2> QED
    BY <2>1, AskedQuiet
<1>9. CASE JoinProbe
  <2>1. PICK v \in probing :
          /\ CloseJoin(v, truncated)
          /\ \/ Send(RowMsg(v, ExternalRow("local_network", FALSE)))
             \/ Send(RowMsg(v, ExternalRow("none", TRUE)))
    BY <1>9 DEF JoinProbe
  <2>2. UNCHANGED <<rows, queued>> /\ inFlight' \subseteq inFlight /\ phase' # "page" /\ v \in Urls
    BY <1>9, <2>1, CloseJoinEffect DEF JoinProbe, fileVars, frontVars, TypeOK, FrontierTypeOK
  <2>3. /\ ExternalRow("local_network", FALSE) \in Row /\ ExternalRow("none", TRUE) \in Row
        /\ ExternalRow("local_network", FALSE).state = "skipped" /\ ExternalRow("none", TRUE).state = "skipped"
    BY RowTypes DEF Reasons, ExternalRow
  <2> QED
    BY <2>1, <2>2, <2>3, AskedRow
<1> QED
  BY <1>4, <1>5, <1>6, <1>7, <1>8, <1>9 DEF Joins

(* The links of a page: only TargetQueued gives work, and the page itself   *)
(* goes to the file as one that was asked for.                              *)
LEMMA AskedPage == TypeOK /\ AskedInv /\ Page => AskedInv'
<1> SUFFICES ASSUME TypeOK, AskedInv, Page
             PROVE  AskedInv'
  OBVIOUS
<1>1. CASE PageDone
  <2>1. /\ UNCHANGED <<rows, queued>> /\ inFlight' \subseteq inFlight /\ phase' # "page" /\ phase = "page"
        /\ Send(PageMsg(cur, UrlRow("done", "none", depth[cur], cur \in inSitemap)))
    BY <1>1, CloseJoinEffect DEF PageDone, fileVars, frontVars
  <2>2. cur \in Urls /\ depth[cur] \in Nat
    BY <2>1 DEF TypeOK, PhaseTypeOK, FrontierTypeOK
  <2>3. LET r == UrlRow("done", "none", depth[cur], cur \in inSitemap) IN r \in Row
    BY <2>2, RowTypes DEF States, Reasons
  <2>4. PICK m \in Message : Send(m) /\ m.url = cur
    BY <2>1, <2>2, <2>3, MessageTypes DEF PageMsg
  <2> QED
    BY <2>1, <2>4, AskedWithin DEF AskedInv
<1>2. ASSUME PageStep
      PROVE  /\ UNCHANGED <<rows, inFlight, phase, cur>>
             /\ TargetDepth \in Nat /\ Target \in Urls \cup {NoUrl}
  BY <1>2, TargetTypes DEF PageStep, fileVars, poolVars
<1>3. CASE TargetKnown \/ TargetUnregistered
  <2>1. PageStep /\ UNCHANGED <<unsaved, queued>>
    BY <1>3 DEF TargetKnown, TargetUnregistered, NewTarget, frontVars
  <2> QED
    BY <1>2, <2>1, AskedQuiet
<1>4. ASSUME PageStep, NEW v \in Urls, NEW r \in Row, r.state \in {"excluded", "skipped"}, Register(v, r)
      PROVE  AskedInv'
  BY <1>2, <1>4, AskedRow DEF Register
<1>5. CASE TargetExternal
  <2>1. PICK v \in Urls \ Internal : PageStep /\ Register(v, ExternalRow(WhyNotProbe(v), FALSE))
    BY <1>5 DEF TargetExternal, NewTarget
  <2>2. WhyNotProbe(v) \in Reasons
    BY DEF WhyNotProbe, Reasons
  <2>3. /\ ExternalRow(WhyNotProbe(v), FALSE) \in Row
        /\ ExternalRow(WhyNotProbe(v), FALSE).state = "skipped"
    BY <2>2, RowTypes DEF ExternalRow
  <2> QED
    BY <1>4, <2>1, <2>3
<1>6. CASE TargetListed \/ TargetFiltered \/ TargetNotFollowed \/ TargetTooDeep
  <2>1. PICK v \in Internal :
          /\ PageStep
          /\ \/ Register(v, UrlRow("skipped", "none", TargetDepth, v \in inSitemap))
             \/ Register(v, UrlRow("excluded", "pattern", TargetDepth, v \in inSitemap))
             \/ Register(v, UrlRow("excluded", "nofollow", TargetDepth, FALSE))
             \/ Register(v, UrlRow("excluded", "depth", TargetDepth, FALSE))
    BY <1>6 DEF TargetListed, TargetFiltered, TargetNotFollowed, TargetTooDeep, NewTarget
  <2>2. v \in Urls /\ TargetDepth \in Nat
    BY <1>2, <2>1, GraphAssumption
  <2>3. LET r == UrlRow("skipped", "none", TargetDepth, v \in inSitemap) IN r \in Row /\ r.state = "skipped"
    BY <2>2, RowTypes DEF States, Reasons, UrlRow
  <2>4. LET r == UrlRow("excluded", "pattern", TargetDepth, v \in inSitemap) IN r \in Row /\ r.state = "excluded"
    BY <2>2, RowTypes DEF States, Reasons, UrlRow
  <2>5. LET r == UrlRow("excluded", "nofollow", TargetDepth, FALSE) IN r \in Row /\ r.state = "excluded"
    BY <2>2, RowTypes DEF States, Reasons, UrlRow
  <2>6. LET r == UrlRow("excluded", "depth", TargetDepth, FALSE) IN r \in Row /\ r.state = "excluded"
    BY <2>2, RowTypes DEF States, Reasons, UrlRow
  <2> QED
    BY <1>4, <2>1, <2>2, <2>3, <2>4, <2>5, <2>6
<1>7. CASE TargetQueued
  <2>1. PICK v \in Internal :
          /\ PageStep /\ ~ListMode /\ v \notin Filtered
          /\ Enqueue(v, TargetDepth, v \in inSitemap)
    BY <1>7 DEF TargetQueued, NewTarget
  <2>2. v \in Urls /\ Asked(v)
    BY <2>1, GraphAssumption DEF Asked
  <2>3. UrlRow("pending", "none", TargetDepth, v \in inSitemap) \in Row
    BY <1>2, <2>1, RowTypes DEF States, Reasons
  <2> QED
    BY <1>2, <2>1, <2>2, <2>3, AskedEnqueue
<1> QED
  BY <1>1, <1>3, <1>5, <1>6, <1>7 DEF Page

(* The writer's commit gives a row the state of its message.                *)
LEMMA AskedCommit == TypeOK /\ AskedInv /\ Commit => AskedInv'
<1> SUFFICES ASSUME TypeOK, AskedInv, Commit
             PROVE  AskedInv'
  OBVIOUS
<1> DEFINE m == Head(unsaved)
<1>1. /\ unsaved \in Seq(Message) /\ unsaved # <<>> /\ unsaved' = Tail(unsaved)
      /\ UNCHANGED <<queued, inFlight, phase, cur>> /\ rows \in [Urls -> Row]
  BY DEF Commit, TypeOK, WriterTypeOK, FileTypeOK, memVars, frontVars, poolVars, pageVars
<1>2. /\ 1 \in DOMAIN unsaved /\ m = unsaved[1] /\ m \in Message
      /\ DOMAIN unsaved' = 1..(Len(unsaved) - 1)
      /\ \A i \in 1..(Len(unsaved) - 1) : unsaved'[i] = unsaved[i + 1] /\ i + 1 \in DOMAIN unsaved
  BY <1>1, TailFacts
<1>3. \A u : Asked(u)' <=> Asked(u)
  BY DEF Asked
<1>4. \A u \in Urls : rows'[u].state = rows[u].state \/ (m.url = u /\ rows'[u].state = m.row.state)
  <2>1. CASE UNCHANGED rows
    BY <2>1
  <2>2. CASE rows' = [rows EXCEPT ![m.url] = Upsert(rows[m.url], m.row)]
    BY <1>1, <2>2 DEF Upsert
  <2> QED
    BY <2>1, <2>2 DEF Commit
<1>5. \A u \in Pending' \cup Done' : Asked(u)
  BY <1>2, <1>4 DEF AskedInv, Pending, Done
<1>6. Done' \cap RobotsBlocked = {}
  BY <1>2, <1>4 DEF AskedInv, Done
<1>7. \A i \in DOMAIN unsaved' :
        /\ unsaved'[i].row.state \in {"pending", "done"} => Asked(unsaved'[i].url)
        /\ unsaved'[i].row.state = "done" => unsaved'[i].url \notin RobotsBlocked
  BY <1>2 DEF AskedInv
<1> QED
  BY <1>1, <1>3, <1>5, <1>6, <1>7 DEF AskedInv

(* No step of the crawl asks for what it was not told to.                   *)
LEMMA AskedStep == TypeOK /\ AskedInv /\ [Next]_vars => AskedInv'
<1> SUFFICES ASSUME TypeOK, AskedInv, [Next]_vars
             PROVE  AskedInv'
  OBVIOUS
<1>1. CASE Start
  BY <1>1, AskedQuiet DEF Start, writerVars, frontVars, poolVars, pageVars
<1>2. CASE Resume
  <2>1. /\ UNCHANGED <<rows, inFlight>> /\ phase' # "page" /\ queued' = Pending
        /\ unsaved' = <<ResendMsg>>
    BY <1>2 DEF Resume, ResendExistingRows, poolVars
  <2>2. ResendMsg.row.state = "absent"
    BY DEF ResendMsg, NoRow
  <2>3. \A i \in DOMAIN unsaved' : unsaved'[i] = ResendMsg
    BY <2>1
  <2>4. Pending' = Pending /\ Done' = Done
    BY <2>1 DEF Pending, Done
  <2> QED
    BY <2>1, <2>2, <2>3, <2>4 DEF AskedInv, Asked
<1>3. CASE Pause \/ FinalizeCancelled \/ FinalizeDone \/ Crash
  <2>1. EndSession /\ UNCHANGED rows
    BY <1>3 DEF Pause, FinalizeCancelled, FinalizeDone, Crash, fileVars
  <2>2. queued' = {} /\ inFlight' = {} /\ unsaved' = <<>> /\ phase' = "idle" /\ Pending' = Pending /\ Done' = Done
    BY <2>1 DEF EndSession, Pending, Done
  <2> QED
    BY <2>2 DEF AskedInv, Asked
<1>4. CASE Finalize \/ EvaluateRule
  BY <1>4, AskedQuiet DEF Finalize, EvaluateRule, writerVars, frontVars, poolVars, pageVars
<1>5. CASE RequestCancel \/ DeadlinePasses \/ Over \/ UNCHANGED vars
  <2>1. UNCHANGED <<rows, unsaved, queued, inFlight, phase, cur>>
    BY <1>5 DEF RequestCancel, DeadlinePasses, Over, vars, fileVars, writerVars, memVars, frontVars, poolVars, pageVars
  <2> QED
    BY <2>1, AskedQuiet
<1> QED
  BY <1>1, <1>2, <1>3, <1>4, <1>5, AskedSetup, AskedLoop, AskedJoins, AskedPage, AskedCommit
  DEF Next, Progress, Ending

(* Over any number of sessions, a crawl asks only for pages of the site,    *)
(* in list mode for those of the list, and never for what the patterns      *)
(* reject or, as a crawled page, robots.txt disallows.                      *)
THEOREM OnlyAskedForAlways == Spec => []OnlyWhatWasAsked
<1>1. AskedInv => OnlyWhatWasAsked
  BY DEF AskedInv, OnlyWhatWasAsked, Asked
<1> QED
  BY <1>1, AskedInit, AskedStep, TypeCorrect, PTL DEF Spec

-----------------------------------------------------------------------------
(* Probes.  A row that is not written has no answer; before the loop there  *)
(* is no probe, and what a resume sends of external URLs is of those it     *)
(* does not probe.                                                          *)
Blank(row) == ~row.answered /\ row.reason = "none"
ProbeInv ==
    /\ \A u \in probes \cup probing :
         Blank(rows[u]) /\ \A i \in DOMAIN unsaved : unsaved[i].url = u => Blank(unsaved[i].row)
    /\ probes \cap probing = {}
    /\ phase \in {"idle", "setup"} => probes = {} /\ probing = {}
    /\ phase = "setup" => \A i \in DOMAIN unsaved : unsaved[i].url \in Urls \ Internal => unsaved[i].url \in ResumeBarred
    /\ \A u \in Urls : ~Present(u) => Blank(rows[u])

(* Nothing is probed before the first session.                              *)
LEMMA ProbeInit == Init => ProbeInv
BY DEF Init, Idle, ProbeInv, NoRow, Blank

(* A step that sends nothing, and has no other probes.                      *)
LEMMA ProbeQuiet ==
    ASSUME ProbeInv, UNCHANGED <<rows, unsaved>>,
           probes' \cup probing' \subseteq probes \cup probing, probes' \cap probing' = {},
           phase' = phase \/ phase' \notin {"idle", "setup"}
    PROVE  ProbeInv'
BY DEF ProbeInv, Blank, Present

(* A step that sends the row of a URL that is probed no more, or that is to *)
(* be.                                                                      *)
LEMMA ProbeSend ==
    ASSUME TypeOK, ProbeInv, UNCHANGED rows, NEW m \in Message, Send(m),
           probes' \cap probing' = {},
           \A u \in probes' \cup probing' :
             \/ u \in probes \cup probing
             \/ Blank(rows[u]) /\ \A i \in DOMAIN unsaved : unsaved[i].url # u,
           m.url \in probes' \cup probing' => Blank(m.row),
           \/ phase' \notin {"idle", "setup"}
           \/ /\ phase' = phase /\ UNCHANGED <<probes, probing>>
              /\ m.url \in Internal \cup ResumeBarred
    PROVE  ProbeInv'
<1>1. unsaved \in Seq(Message) /\ unsaved' = Append(unsaved, m)
  BY DEF Send, TypeOK, WriterTypeOK
<1>2. /\ DOMAIN unsaved' = 1..(Len(unsaved) + 1) /\ DOMAIN unsaved = 1..Len(unsaved) /\ Len(unsaved) \in Nat
      /\ \A i \in 1..Len(unsaved) : unsaved'[i] = unsaved[i]
      /\ unsaved'[Len(unsaved) + 1] = m
  BY <1>1, AppendFacts
<1>3. \A i \in DOMAIN unsaved' : (i \in DOMAIN unsaved /\ unsaved'[i] = unsaved[i]) \/ unsaved'[i] = m
  BY <1>2
<1>4. \A u \in probes' \cup probing' :
        Blank(rows'[u]) /\ \A i \in DOMAIN unsaved' : unsaved'[i].url = u => Blank(unsaved'[i].row)
  BY <1>3 DEF ProbeInv
<1>5. phase' \in {"idle", "setup"} => probes' = {} /\ probing' = {}
  BY DEF ProbeInv
<1>6. phase' = "setup" => \A i \in DOMAIN unsaved' : unsaved'[i].url \in Urls \ Internal => unsaved'[i].url \in ResumeBarred
  BY <1>3 DEF ProbeInv
<1> QED
  BY <1>4, <1>5, <1>6 DEF ProbeInv, Present, Blank

(* The row of a page of the site, which is nobody's probe.                  *)
LEMMA ProbeOfPage ==
    ASSUME IInv, ProbeInv, UNCHANGED <<rows, probes>>, NEW v \in Internal, NEW m \in Message, m.url = v, Send(m),
           probing' \subseteq probing,
           (phase' = phase /\ UNCHANGED probing) \/ phase' \notin {"idle", "setup"}
    PROVE  ProbeInv'
<1>1. v \notin probes' \cup probing' /\ probes' \cup probing' \subseteq probes \cup probing
  BY DEF IInv, InvSeen
<1>2. probes' \cap probing' = {}
  BY DEF ProbeInv
<1> QED
  BY <1>1, <1>2, ProbeSend DEF IInv

(* The seeds, the sitemaps, and the probes a resume takes up.               *)
LEMMA ProbeSetup == IInv /\ ProbeInv /\ Setup => ProbeInv'
<1> SUFFICES ASSUME IInv, ProbeInv, Setup
             PROVE  ProbeInv'
  OBVIOUS
<1>1. ASSUME NEW v \in Internal, NEW r \in Row, Send(RowMsg(v, r)), UNCHANGED <<rows, probes, probing, phase>>
      PROVE  ProbeInv'
  <2>1. RowMsg(v, r) \in Message /\ RowMsg(v, r).url = v
    BY <1>1, MessageTypes, GraphAssumption DEF RowMsg
  <2> QED
    BY <1>1, <2>1, ProbeOfPage
<1>2. CASE SetupSeed
  <2> DEFINE u == Seeds[next]
  <2>1. UNCHANGED <<rows, probes, probing, phase>> /\ u \in Internal
    BY <1>2, GraphAssumption DEF SetupSeed, SetupStep, fileVars, probeVars, IInv, TypeOK, PhaseTypeOK
  <2>2. UNCHANGED unsaved \/ \E r \in Row : Send(RowMsg(u, r))
    <3>1. UrlRow("excluded", "pattern", 0, FALSE) \in Row /\ UrlRow("pending", "none", 0, FALSE) \in Row
      BY RowTypes DEF States, Reasons
    <3> QED
      BY <1>2, <3>1 DEF SetupSeed, Register, Enqueue
  <2> QED
    BY <1>1, <2>1, <2>2, ProbeQuiet DEF ProbeInv
<1>3. CASE SetupSitemap
  <2> DEFINE u == SitemapUrls[next - Len(Seeds)]
  <2>1. UNCHANGED <<rows, probes, probing, phase>> /\ next \in Nat /\ next <= Len(Seeds) + Len(SitemapUrls) /\ next > Len(Seeds)
    BY <1>3 DEF SetupSitemap, SetupStep, SetupLength, fileVars, probeVars, IInv, TypeOK, PhaseTypeOK
  <2>2. next - Len(Seeds) \in 1..Len(SitemapUrls)
    BY <2>1, GraphAssumption
  <2>3. u \in Internal
    BY <2>2, GraphAssumption
  <2>4. UNCHANGED unsaved \/ \E r \in Row : Send(RowMsg(u, r))
    <3>1. /\ UrlRow("skipped", "none", 0, TRUE) \in Row /\ UrlRow("excluded", "pattern", 0, TRUE) \in Row
          /\ UrlRow("pending", "none", 0, TRUE) \in Row
      BY RowTypes DEF States, Reasons
    <3> QED
      BY <1>3, <3>1 DEF SetupSitemap, Register, Enqueue
  <2> HIDE DEF u
  <2> QED
    BY <1>1, <2>1, <2>3, <2>4, ProbeQuiet DEF ProbeInv
<1>4. CASE SitemapsOverBudget \/ SitemapsCut
  BY <1>4, ProbeQuiet DEF SitemapsOverBudget, SitemapsCut, SkipSitemaps, fileVars, writerVars, probeVars, ProbeInv
<1>5. CASE RejectProbe
  <2>1. UNCHANGED <<rows, probes, probing, phase>> /\ phase = "setup"
    BY <1>5 DEF RejectProbe, fileVars, memVars, probeVars
  <2>2. PICK u \in RejectedProbes : Send(RowMsg(u, ExternalRow("local_network", FALSE)))
    BY <1>5 DEF RejectProbe
  <2>3. u \in Urls /\ u \in ResumeBarred
    BY <2>2 DEF RejectedProbes, PendingProbes
  <2>4. ExternalRow("local_network", FALSE) \in Row
    BY RowTypes DEF Reasons, ExternalRow
  <2>5. PICK m \in Message : Send(m) /\ m.url = u
    BY <2>2, <2>3, <2>4, MessageTypes DEF RowMsg
  <2>6. probes' = {} /\ probing' = {}
    BY <2>1 DEF ProbeInv
  <2> QED
    BY <2>1, <2>3, <2>5, <2>6, ProbeSend DEF IInv
<1>6. CASE EndSetup
  <2>1. /\ UNCHANGED <<rows, unsaved, probing>> /\ phase = "setup" /\ phase' = "top"
        /\ probes' \subseteq probes \cup (PendingProbes \ ResumeBarred)
    BY <1>6 DEF EndSetup, fileVars, writerVars
  <2>2. probing' = {} /\ probes' \subseteq PendingProbes \ ResumeBarred
    BY <2>1 DEF ProbeInv
  <2>3. \A u \in probes' : Blank(rows[u]) /\ \A i \in DOMAIN unsaved : unsaved[i].url # u
    BY <2>1, <2>2 DEF PendingProbes, ProbeInv, Blank
  <2> QED
    BY <2>1, <2>2, <2>3 DEF ProbeInv, Present, Blank
<1> QED
  BY <1>2, <1>3, <1>4, <1>5, <1>6 DEF Setup

(* The pool, and the tasks that end: the row of a probe that was answered   *)
(* is sent when it is no probe any more.                                    *)
LEMMA ProbePool == IInv /\ ProbeInv /\ (Loop \/ Joins) => ProbeInv'
<1> SUFFICES ASSUME IInv, ProbeInv, Loop \/ Joins
             PROVE  ProbeInv'
  OBVIOUS
<1>1. CASE Refill \/ Exhausted \/ StopOnCancel \/ StopOnDeadline
  BY <1>1, ProbeQuiet DEF Refill, Exhausted, StopOnCancel, StopOnDeadline, LeaveLoop, fileVars, writerVars, probeVars, ProbeInv
<1>2. CASE Dispatch \/ JoinFetched \/ JoinPanic
  BY <1>2, ProbeQuiet DEF Dispatch, JoinFetched, JoinPanic, fileVars, writerVars, probeVars, ProbeInv
<1>3. CASE DispatchProbe
  BY <1>3, ProbeQuiet DEF DispatchProbe, fileVars, writerVars, ProbeInv
<1>4. ASSUME NEW u \in inFlight, Join(u), NEW reason, CloseJoin(u, reason)
      PROVE  /\ UNCHANGED <<rows, probes>> /\ probing' \subseteq probing /\ phase' \notin {"idle", "setup"}
             /\ u \in Urls /\ u \in Internal
  <2>1. u \in Internal
    BY <1>4 DEF IInv, InvSeen, Live
  <2> QED
    BY <1>4, <2>1, CloseJoinEffect, GraphAssumption DEF Join, fileVars
<1>5. ASSUME NEW u \in inFlight, Join(u), NEW reason, CloseJoin(u, reason), NEW r \in Row, Send(RowMsg(u, r))
      PROVE  ProbeInv'
  <2>1. RowMsg(u, r) \in Message /\ RowMsg(u, r).url = u
    BY <1>4, <1>5, MessageTypes DEF RowMsg
  <2> QED
    BY <1>4, <1>5, <2>1, ProbeOfPage
<1>6. CASE JoinExcluded
  <2>1. PICK u \in inFlight :
          /\ Join(u) /\ CloseJoin(u, truncated)
          /\ \E why \in {"robots", "local_network"} :
               Send(RowMsg(u, UrlRow("excluded", why, depth[u], u \in inSitemap)))
    BY <1>6 DEF JoinExcluded
  <2>2. \A why \in {"robots", "local_network"} : UrlRow("excluded", why, depth[u], u \in inSitemap) \in Row
    BY <2>1, <1>4, RowTypes DEF States, Reasons, IInv, TypeOK, FrontierTypeOK
  <2> QED
    BY <1>5, <2>1, <2>2
<1>7. CASE JoinFailed
  <2>1. PICK u \in inFlight :
          Join(u) /\ CloseJoin(u, truncated) /\ Send(RowMsg(u, UrlRow("error", "none", depth[u], u \in inSitemap)))
    BY <1>7 DEF JoinFailed
  <2>2. UrlRow("error", "none", depth[u], u \in inSitemap) \in Row
    BY <2>1, <1>4, RowTypes DEF States, Reasons, IInv, TypeOK, FrontierTypeOK
  <2> QED
    BY <1>5, <2>1, <2>2
<1>8. CASE JoinRateLimited
  <2>1. PICK u \in inFlight : Join(u) /\ CloseJoin(u, OrElse("rate_limited")) /\ UNCHANGED unsaved
    BY <1>8 DEF JoinRateLimited
  <2> QED
    BY <1>4, <2>1, ProbeQuiet DEF ProbeInv
<1>9. CASE JoinProbe
  <2>1. PICK v \in probing :
          /\ CloseJoin(v, truncated) /\ probes' \subseteq probes
          /\ \/ Send(RowMsg(v, ExternalRow("local_network", FALSE)))
             \/ Send(RowMsg(v, ExternalRow("none", TRUE)))
    BY <1>9 DEF JoinProbe
  <2>2. UNCHANGED rows /\ probing' \subseteq probing \ {v} /\ phase' \notin {"idle", "setup"} /\ v \in Urls
    BY <1>9, <2>1, CloseJoinEffect DEF JoinProbe, fileVars, IInv, TypeOK, FrontierTypeOK
  <2>3. ExternalRow("local_network", FALSE) \in Row /\ ExternalRow("none", TRUE) \in Row
    BY RowTypes DEF Reasons, ExternalRow
  <2>4. PICK m \in Message : Send(m) /\ m.url = v
    BY <2>1, <2>2, <2>3, MessageTypes DEF RowMsg
  <2>5. v \notin probes' \cup probing' /\ probes' \cap probing' = {} /\ probes' \cup probing' \subseteq probes \cup probing
    BY <2>1, <2>2 DEF ProbeInv
  <2> QED
    BY <2>2, <2>4, <2>5, ProbeSend DEF IInv
<1> QED
  BY <1>1, <1>2, <1>3, <1>6, <1>7, <1>8, <1>9 DEF Loop, Joins

(* The links of a page: an external URL is probed when it is met, and only  *)
(* if there is no reason not to.                                            *)
LEMMA ProbePage == IInv /\ ProbeInv /\ Page => ProbeInv'
<1> SUFFICES ASSUME IInv, ProbeInv, Page
             PROVE  ProbeInv'
  OBVIOUS
<1>1. CASE PageDone
  <2>1. /\ UNCHANGED <<rows, probes>> /\ probing' \subseteq probing /\ phase' \notin {"idle", "setup"}
        /\ Send(PageMsg(cur, UrlRow("done", "none", depth[cur], cur \in inSitemap)))
        /\ phase = "page" /\ cur # NoUrl
    BY <1>1, CloseJoinEffect DEF PageDone, fileVars, IInv, TypeOK, PhaseTypeOK
  <2>2. cur \in Internal /\ cur \in Urls /\ depth[cur] \in Nat
    BY <2>1, GraphAssumption DEF IInv, InvSeen, Live, TypeOK, FrontierTypeOK
  <2>3. UrlRow("done", "none", depth[cur], cur \in inSitemap) \in Row
    BY <2>2, RowTypes DEF States, Reasons
  <2>4. PICK m \in Message : Send(m) /\ m.url = cur
    BY <2>1, <2>2, <2>3, MessageTypes DEF PageMsg
  <2> QED
    BY <2>1, <2>2, <2>4, ProbeOfPage
<1>2. ASSUME PageStep
      PROVE  /\ UNCHANGED <<rows, probing, phase>> /\ phase = "page" /\ TargetDepth \in Nat
  BY <1>2, TargetTypes DEF PageStep, fileVars, IInv
<1>3. CASE TargetKnown \/ TargetUnregistered
  <2>1. PageStep /\ UNCHANGED <<unsaved, probes>>
    BY <1>3 DEF TargetKnown, TargetUnregistered, NewTarget
  <2> QED
    BY <1>2, <2>1, ProbeQuiet DEF ProbeInv
<1>4. ASSUME PageStep, UNCHANGED probes, NEW v \in Internal, NEW r \in Row, Send(RowMsg(v, r))
      PROVE  ProbeInv'
  <2>1. RowMsg(v, r) \in Message /\ RowMsg(v, r).url = v
    BY <1>4, MessageTypes, GraphAssumption DEF RowMsg
  <2> QED
    BY <1>2, <1>4, <2>1, ProbeOfPage
<1>5. CASE TargetExternal
  <2>1. PICK v \in Urls \ Internal :
          /\ NewTarget(v) /\ Send(RowMsg(v, ExternalRow(WhyNotProbe(v), FALSE)))
          /\ (WhyNotProbe(v) = "none" /\ probes' = probes \cup {v}) \/ UNCHANGED probes
    BY <1>5 DEF TargetExternal, Register
  <2>2. PageStep /\ v \notin seen
    BY <2>1 DEF NewTarget
  <2>3. /\ UNCHANGED <<rows, probing, phase>> /\ phase = "page"
        /\ Blank(rows[v]) /\ \A i \in DOMAIN unsaved : unsaved[i].url # v
    BY <1>2, <2>2, UnseenIsFresh DEF IInv, ProbeInv, Present
  <2>4. v \notin probes \cup probing
    BY <2>2 DEF IInv, InvSeen
  <2>5. WhyNotProbe(v) \in Reasons
    BY DEF WhyNotProbe, Reasons
  <2>6. /\ ExternalRow(WhyNotProbe(v), FALSE) \in Row
        /\ WhyNotProbe(v) = "none" => Blank(ExternalRow(WhyNotProbe(v), FALSE))
    BY <2>5, RowTypes DEF ExternalRow, Blank
  <2>7. PICK m \in Message : Send(m) /\ m.url = v /\ (WhyNotProbe(v) = "none" => Blank(m.row))
    BY <2>1, <2>6, MessageTypes DEF RowMsg
  <2>8. /\ probes' \cap probing' = {} /\ probes' \cup probing' \subseteq probes \cup probing \cup {v}
        /\ v \in probes' \cup probing' => WhyNotProbe(v) = "none"
    BY <2>1, <2>3, <2>4 DEF ProbeInv
  <2> QED
    BY <2>3, <2>7, <2>8, ProbeSend DEF IInv
<1>6. CASE TargetListed \/ TargetFiltered \/ TargetNotFollowed \/ TargetTooDeep \/ TargetQueued
  <2>1. PICK v \in Internal :
          /\ PageStep /\ UNCHANGED probes
          /\ \/ Send(RowMsg(v, UrlRow("skipped", "none", TargetDepth, v \in inSitemap)))
             \/ Send(RowMsg(v, UrlRow("excluded", "pattern", TargetDepth, v \in inSitemap)))
             \/ Send(RowMsg(v, UrlRow("excluded", "nofollow", TargetDepth, FALSE)))
             \/ Send(RowMsg(v, UrlRow("excluded", "depth", TargetDepth, FALSE)))
             \/ Send(RowMsg(v, UrlRow("pending", "none", TargetDepth, v \in inSitemap)))
    BY <1>6 DEF TargetListed, TargetFiltered, TargetNotFollowed, TargetTooDeep, TargetQueued, NewTarget, Register, Enqueue
  <2>2. TargetDepth \in Nat
    BY <1>2, <2>1
  <2>3. /\ UrlRow("skipped", "none", TargetDepth, v \in inSitemap) \in Row
        /\ UrlRow("excluded", "pattern", TargetDepth, v \in inSitemap) \in Row
        /\ UrlRow("excluded", "nofollow", TargetDepth, FALSE) \in Row
        /\ UrlRow("excluded", "depth", TargetDepth, FALSE) \in Row
        /\ UrlRow("pending", "none", TargetDepth, v \in inSitemap) \in Row
    BY <2>2, RowTypes DEF States, Reasons
  <2> QED
    BY <1>4, <2>1, <2>3
<1> QED
  BY <1>1, <1>3, <1>5, <1>6 DEF Page

(* The upsert of a row: it is in a state, and blank if both rows were.      *)
LEMMA UpsertBlank ==
    ASSUME NEW old \in Row, NEW new \in Row
    PROVE  /\ Upsert(old, new).state = new.state
           /\ Blank(old) /\ Blank(new) => Blank(Upsert(old, new))
<1>1. /\ Upsert(old, new).state = new.state
      /\ Upsert(old, new).reason = IF new.reason = "none" THEN old.reason ELSE new.reason
      /\ Upsert(old, new).answered = (old.answered \/ new.answered)
  BY DEF Upsert, Row
<1> QED
  BY <1>1 DEF Blank

(* The writer's commit: an answer is in a row only if it was in it, or in   *)
(* its message.                                                             *)
LEMMA ProbeCommit == IInv /\ ProbeInv /\ Commit => ProbeInv'
<1> SUFFICES ASSUME IInv, ProbeInv, Commit
             PROVE  ProbeInv'
  OBVIOUS
<1> DEFINE m == Head(unsaved)
<1>1. /\ unsaved \in Seq(Message) /\ unsaved # <<>> /\ unsaved' = Tail(unsaved)
      /\ UNCHANGED <<probes, probing, phase>> /\ rows \in [Urls -> Row]
      /\ probes \cup probing \subseteq Urls
  BY DEF Commit, IInv, TypeOK, WriterTypeOK, FileTypeOK, FrontierTypeOK, memVars, probeVars
<1>2. /\ 1 \in DOMAIN unsaved /\ m = unsaved[1] /\ m \in Message
      /\ DOMAIN unsaved' = 1..(Len(unsaved) - 1)
      /\ \A i \in 1..(Len(unsaved) - 1) : unsaved'[i] = unsaved[i + 1] /\ i + 1 \in DOMAIN unsaved
  BY <1>1, TailFacts
<1>3. \/ UNCHANGED rows
      \/ m.kind # "resend" /\ rows' = [rows EXCEPT ![m.url] = Upsert(rows[m.url], m.row)]
  BY DEF Commit
<1>4. \A u \in Urls :
        \/ rows'[u] = rows[u]
        \/ m.kind # "resend" /\ m.url = u /\ rows'[u] = Upsert(rows[u], m.row)
  BY <1>1, <1>3
<1>5. m.kind # "resend" => m.row.state # "absent"
  BY <1>2 DEF IInv, InvMessages, Message, ResendMsg
<1>6. m.kind # "resend" => \A u \in Urls :
        /\ Upsert(rows[u], m.row).state = m.row.state
        /\ Blank(rows[u]) /\ Blank(m.row) => Blank(Upsert(rows[u], m.row))
  <2>1. m.kind # "resend" => m.row \in Row
    BY <1>2 DEF Message, ResendMsg
  <2> HIDE DEF m
  <2> QED
    BY <1>1, <2>1, UpsertBlank
<1> HIDE DEF m
<1>7. \A u \in probes \cup probing : Blank(rows'[u])
  BY <1>1, <1>2, <1>4, <1>6 DEF ProbeInv
<1>8. \A u \in Urls : rows'[u].state = "absent" => rows'[u] = rows[u]
  BY <1>4, <1>5, <1>6
<1>9. \A u \in Urls : (~Present(u))' => Blank(rows'[u])
  BY <1>8 DEF ProbeInv, Present
<1>10. \A u \in probes' \cup probing' : \A i \in DOMAIN unsaved' : unsaved'[i].url = u => Blank(unsaved'[i].row)
  BY <1>1, <1>2 DEF ProbeInv
<1>11. phase' = "setup" => \A i \in DOMAIN unsaved' : unsaved'[i].url \in Urls \ Internal => unsaved'[i].url \in ResumeBarred
  BY <1>1, <1>2 DEF ProbeInv
<1> QED
  BY <1>1, <1>7, <1>9, <1>10, <1>11 DEF ProbeInv, Blank

(* No step probes again what was answered.                                  *)
LEMMA ProbeStep == IInv /\ ProbeInv /\ [Next]_vars => ProbeInv'
<1> SUFFICES ASSUME IInv, ProbeInv, [Next]_vars
             PROVE  ProbeInv'
  OBVIOUS
<1>1. CASE Start \/ Resume
  <2>1. /\ phase = "idle" /\ phase' = "setup" /\ UNCHANGED <<rows, probes, probing>>
        /\ unsaved' = unsaved \/ unsaved' = <<ResendMsg>>
    BY <1>1 DEF Start, Resume, ResendExistingRows, writerVars, probeVars
  <2>2. unsaved = <<>> /\ probes' = {} /\ probing' = {}
    BY <2>1 DEF IInv, InvIdle
  <2>3. \A i \in DOMAIN unsaved' : unsaved'[i] = ResendMsg
    BY <2>1, <2>2
  <2>4. ResendMsg.url \notin Urls
    BY GraphAssumption DEF ResendMsg
  <2> QED
    BY <2>1, <2>2, <2>3, <2>4 DEF ProbeInv, Present, Blank
<1>2. CASE Pause \/ FinalizeCancelled \/ FinalizeDone \/ Crash
  <2>1. EndSession /\ UNCHANGED rows
    BY <1>2 DEF Pause, FinalizeCancelled, FinalizeDone, Crash, fileVars
  <2>2. probes' = {} /\ probing' = {} /\ phase' = "idle"
    BY <2>1 DEF EndSession
  <2> QED
    BY <2>1, <2>2 DEF ProbeInv, Present, Blank
<1>3. CASE Finalize \/ EvaluateRule
  BY <1>3, ProbeQuiet DEF Finalize, EvaluateRule, writerVars, probeVars, ProbeInv
<1>4. CASE RequestCancel \/ DeadlinePasses \/ Over \/ UNCHANGED vars
  <2>1. UNCHANGED <<rows, unsaved, probes, probing, phase>>
    BY <1>4 DEF RequestCancel, DeadlinePasses, Over, vars, fileVars, writerVars, memVars, probeVars
  <2> QED
    BY <2>1, ProbeQuiet DEF ProbeInv
<1> QED
  BY <1>1, <1>2, <1>3, <1>4, ProbeSetup, ProbePool, ProbePage, ProbeCommit DEF Next, Progress, Ending

(* An external URL that has answered, or that is not to be probed, is asked *)
(* for no more, in this session or in a later one.                          *)
THEOREM NeverReprobed == Spec => []NoReprobe
<1>1. ProbeInv => NoReprobe
  BY DEF ProbeInv, NoReprobe, Blank
<1> QED
  BY <1>1, ProbeInit, ProbeStep, Inductive, PTL DEF Spec

-----------------------------------------------------------------------------
(* The end of a crawl, in whatever sessions and after whatever crashes it  *)
(* was crawled: CompletionInv (CrawlEngineInv) is inductive with IInv.     *)

-----------------------------------------------------------------------------
(* What a step of the loop can do to the plan.  It leaves the tables of    *)
(* the file alone, forgets neither what was seen nor why the session was   *)
(* cut, and either sends nothing or sends one message, about a URL it has  *)
(* just taken up or done with.                                             *)
Steady ==
    /\ UNCHANGED <<status, truncReason, rows, siteIssues, resuming, rule, already, expired>>
    /\ phase \notin {"idle", "final"}  /\ phase' \notin {"idle", "final"}
    /\ seen \subseteq seen'  /\ inSitemap \subseteq inSitemap'
    /\ interrupted => interrupted'
    /\ Cut => Cut'
    /\ truncated # "none" => truncated' # "none"
    /\ phase' = "drain" /\ ~Cut' => Live' = {}

(* The pages worked on afterwards, and their depth: those of before, or    *)
(* one just met, at most a click below the page that leads to it.          *)
DepthKept(u) == u \in Live /\ depth'[u] = depth[u]
DepthNew(u) ==
    /\ u \notin seen  /\ u \in seen' \cap Internal
    /\ depth'[u] = 0 \/ (phase = "page" /\ depth'[u] \in {depth[cur], depth[cur] + 1})

Worked == \A u \in Live' : DepthKept(u) \/ DepthNew(u)

(* The pages counted: one more when a page arrives, which is then read.    *)
Counted ==
    \/ UNCHANGED <<fetched, cur>>
    \/ /\ UNCHANGED unsaved
       /\ fetched' = fetched + 1  /\ cur = NoUrl  /\ cur' \in inFlight

Silent ==
    /\ UNCHANGED unsaved
    /\ Cut' \/ MayPanic \/ Live \subseteq Live'
    /\ Counted

Sends(m) ==
    /\ Send(m)
    /\ m.url \in Urls
    /\ Cut' \/ Live \subseteq Live' \cup {m.url}
    /\ m.row.state = "pending" =>
         m.url \in Live' /\ m.url \notin seen /\ m.row.depth = depth'[m.url]
    /\ m.row.sitemap => m.url \in inSitemap'
    /\ m.row.state \in {"done", "error"} =>
         phase \in {"fill", "page"} /\ (m.row.sitemap <=> m.url \in inSitemap)
    /\ \/ m.kind = "row" /\ UNCHANGED <<fetched, cur>>
       \/ m.kind = "page" /\ m.url = cur /\ cur' = NoUrl /\ UNCHANGED fetched

Shape == Steady /\ Worked /\ (Silent \/ \E m \in Message : Sends(m))

(* The fields of the rows and messages the loop sends.                     *)
LEMMA RowFields ==
    /\ \A st, why, d, sm : UrlRow(st, why, d, sm).state = st /\ UrlRow(st, why, d, sm).depth = d
    /\ \A st, why, d : UrlRow(st, why, d, TRUE).sitemap /\ ~UrlRow(st, why, d, FALSE).sitemap
    /\ \A st, why, d, w, S : UrlRow(st, why, d, w \in S).sitemap <=> w \in S
BY DEF UrlRow

LEMMA ExternalFields ==
    \A why : /\ ExternalRow(why, TRUE).state = "skipped"  /\ ~ExternalRow(why, TRUE).sitemap
             /\ ExternalRow(why, FALSE).state = "skipped" /\ ~ExternalRow(why, FALSE).sitemap
BY DEF ExternalRow

LEMMA MessageBuilt ==
    ASSUME NEW u \in Urls, NEW r \in Row
    PROVE  /\ \E m \in Message : m = RowMsg(u, r) /\ m.url = u /\ m.row = r /\ m.kind = "row"
           /\ \E m \in Message : m = PageMsg(u, r) /\ m.url = u /\ m.row = r /\ m.kind = "page"
BY MessageTypes DEF RowMsg, PageMsg

(* Meeting a URL for the first time: queued, or only registered.           *)
LEMMA RegisterShape ==
    ASSUME NEW v \in Urls, NEW r \in Row, Register(v, r), Steady,
           UNCHANGED <<inFlight, cur, fetched>>,
           r.state \in {"excluded", "skipped"}, r.sitemap => v \in inSitemap'
    PROVE  Shape
<1>1. PICK m \in Message : Send(m) /\ m.url = v /\ m.row = r /\ m.kind = "row"
  BY MessageBuilt DEF Register
<1>2. Live' = Live /\ depth' = depth
  BY DEF Register, Live
<1>3. Worked
  BY <1>2 DEF Worked, DepthKept
<1>4. Sends(m)
  BY <1>1, <1>2 DEF Sends
<1> QED
  BY <1>3, <1>4 DEF Shape

LEMMA EnqueueShape ==
    ASSUME TypeOK, NEW v \in Internal, v \notin seen, NEW d \in Nat, NEW sm, Enqueue(v, d, sm), Steady,
           UNCHANGED <<inFlight, cur, fetched>>,
           UrlRow("pending", "none", d, sm) \in Row,
           UrlRow("pending", "none", d, sm).sitemap => v \in inSitemap',
           d = 0 \/ (phase = "page" /\ d \in {depth[cur], depth[cur] + 1})
    PROVE  Shape
<1> DEFINE r == UrlRow("pending", "none", d, sm)
<1>1. v \in Urls
  BY GraphAssumption
<1>2. r \in Row /\ r.state = "pending" /\ r.depth = d /\ (r.sitemap => v \in inSitemap')
  BY RowFields
<1>3. Send(RowMsg(v, r))
  BY DEF Enqueue
<1>4. /\ Live' = Live \cup {v}
      /\ depth'[v] = d /\ \A u \in Live : u # v => depth'[u] = depth[u]
      /\ v \in seen'
  BY <1>1 DEF Enqueue, Live, TypeOK, FrontierTypeOK, PhaseTypeOK
<1> HIDE DEF r
<1>5. PICK m \in Message : Send(m) /\ m.url = v /\ m.row = r /\ m.kind = "row"
  BY <1>1, <1>2, <1>3, MessageBuilt
<1>6. Worked
  BY <1>4 DEF Worked, DepthKept, DepthNew
<1>7. Sends(m)
  BY <1>1, <1>2, <1>4, <1>5 DEF Sends
<1> QED
  BY <1>6, <1>7 DEF Shape

(* Seeds and sitemaps: nothing is in the pool yet, and no page is read.    *)
LEMMA SetupShape == IInv /\ Setup => Shape
<1> SUFFICES ASSUME IInv, Setup PROVE Shape
  OBVIOUS
<1> USE DEF IInv
<1>1. ASSUME SetupStep, seen \subseteq seen', inSitemap \subseteq inSitemap', UNCHANGED truncated
      PROVE  Steady /\ UNCHANGED <<inFlight, cur, fetched>>
  BY <1>1 DEF Steady, SetupStep, fileVars, poolVars, envVars, Cut
<1>2. ASSUME Steady, UNCHANGED <<queued, inFlight, cur, fetched, depth, unsaved>>
      PROVE  Shape
  <2>1. Live' = Live
    BY <1>2 DEF Live
  <2> QED
    BY <1>2, <2>1 DEF Shape, Worked, DepthKept, Silent, Counted
<1>3. CASE SetupSeed
  <2> DEFINE u == Seeds[next]
  <2>1. u \in Internal
    BY <1>3, GraphAssumption DEF SetupSeed, SetupStep, TypeOK, PhaseTypeOK
  <2>3. Steady /\ UNCHANGED <<inFlight, cur, fetched>>
    BY <1>1, <1>3 DEF SetupSeed, Register, Enqueue, frontVars
  <2>4. \/ u \in seen /\ UNCHANGED <<frontVars, unsaved>>
        \/ u \notin seen /\ Register(u, UrlRow("excluded", "pattern", 0, FALSE))
        \/ u \notin seen /\ Enqueue(u, 0, FALSE)
    BY <1>3 DEF SetupSeed
  <2> HIDE DEF u
  <2>5. CASE u \in seen /\ UNCHANGED <<frontVars, unsaved>>
    BY <1>2, <2>3, <2>5 DEF frontVars
  <2>6. CASE Register(u, UrlRow("excluded", "pattern", 0, FALSE))
    <3> DEFINE r == UrlRow("excluded", "pattern", 0, FALSE)
    <3>1. r \in Row
      BY RowTypes DEF States, Reasons
    <3>0. r.state = "excluded" /\ ~r.sitemap
      BY DEF UrlRow
    <3>2. u \in Urls /\ Register(u, r)
      BY <2>1, <2>6, GraphAssumption
    <3> HIDE DEF r
    <3> QED
      BY <2>3, <3>0, <3>1, <3>2, RegisterShape
  <2>7. CASE u \notin seen /\ Enqueue(u, 0, FALSE)
    <3>1. UrlRow("pending", "none", 0, FALSE) \in Row
      BY RowTypes DEF States, Reasons
    <3> QED
      BY <2>1, <2>3, <2>7, <3>1, RowFields, EnqueueShape
  <2> QED
    BY <2>4, <2>5, <2>6, <2>7
<1>4. CASE SetupSitemap
  <2> DEFINE u == SitemapUrls[next - Len(Seeds)]
  <2>1. /\ next \in Nat /\ next <= Len(Seeds) + Len(SitemapUrls) /\ next > Len(Seeds)
        /\ SetupStep /\ inSitemap' = inSitemap \cup {u} /\ UNCHANGED truncated
    BY <1>4 DEF SetupSitemap, SetupStep, SetupLength, TypeOK, PhaseTypeOK
  <2>2. next - Len(Seeds) \in 1..Len(SitemapUrls)
    BY <2>1, GraphAssumption
  <2>3. u \in Internal
    BY <2>2, GraphAssumption
  <2>4. \/ u \in seen /\ UNCHANGED <<frontVars, unsaved>>
        \/ u \notin seen /\ Register(u, UrlRow("skipped", "none", 0, TRUE))
        \/ u \notin seen /\ Register(u, UrlRow("excluded", "pattern", 0, TRUE))
        \/ u \notin seen /\ Enqueue(u, 0, TRUE)
    BY <1>4 DEF SetupSitemap
  <2> HIDE DEF u
  <2>5. Steady /\ UNCHANGED <<inFlight, cur, fetched>>
    BY <1>1, <2>1, <2>4 DEF Register, Enqueue, frontVars
  <2>6. CASE u \in seen /\ UNCHANGED <<frontVars, unsaved>>
    BY <1>2, <2>5, <2>6 DEF frontVars
  <2>7. ASSUME NEW st \in {"skipped", "excluded"}, NEW why \in {"none", "pattern"}, Register(u, UrlRow(st, why, 0, TRUE))
        PROVE  Shape
    <3> DEFINE r == UrlRow(st, why, 0, TRUE)
    <3>1. r \in Row
      BY RowTypes DEF States, Reasons
    <3>0. r.state = st
      BY DEF UrlRow
    <3>2. u \in Urls /\ Register(u, r) /\ u \in inSitemap'
      BY <2>1, <2>3, <2>7, GraphAssumption
    <3> HIDE DEF r
    <3> QED
      BY <2>5, <3>0, <3>1, <3>2, RegisterShape
  <2>8. CASE u \notin seen /\ Enqueue(u, 0, TRUE)
    <3>1. UrlRow("pending", "none", 0, TRUE) \in Row
      BY RowTypes DEF States, Reasons
    <3> QED
      BY <2>1, <2>3, <2>5, <2>8, <3>1, EnqueueShape
  <2> QED
    BY <2>4, <2>6, <2>7, <2>8
<1>5. CASE SitemapsOverBudget \/ SitemapsCut
  <2>1. Steady /\ UNCHANGED <<queued, inFlight, cur, fetched, depth, unsaved>>
    BY <1>5 DEF SitemapsOverBudget, SitemapsCut, SkipSitemaps, Steady, OrElse, Cut, fileVars, writerVars, frontVars, poolVars, envVars
  <2> QED
    BY <1>2, <2>1
<1>6. CASE RejectProbe
  <2> DEFINE r == ExternalRow("local_network", FALSE)
  <2>1. PICK u \in RejectedProbes : Send(RowMsg(u, r))
    BY <1>6 DEF RejectProbe
  <2>2. r \in Row /\ r.state = "skipped" /\ ~r.sitemap
    BY RowTypes, ExternalFields DEF Reasons
  <2> HIDE DEF r
  <2>5. u \in Urls
    BY DEF RejectedProbes, PendingProbes
  <2>6. PICK m \in Message : Send(m) /\ m.url = u /\ m.row = r /\ m.kind = "row"
    BY <2>1, <2>2, <2>5, MessageBuilt
  <2>3. Steady /\ UNCHANGED <<queued, inFlight, cur, fetched, depth>>
    BY <1>6 DEF RejectProbe, Steady, Cut, fileVars, memVars, frontVars, poolVars, pageVars, flagVars, envVars
  <2>4. Live' = Live
    BY <2>3 DEF Live
  <2>7. Sends(m)
    BY <2>2, <2>3, <2>4, <2>5, <2>6 DEF Sends
  <2> QED
    BY <2>3, <2>4, <2>7 DEF Shape, Worked, DepthKept
<1>7. CASE EndSetup
  <2>1. Steady /\ UNCHANGED <<queued, inFlight, cur, fetched, depth, unsaved>>
    BY <1>7 DEF EndSetup, Steady, Cut, fileVars, writerVars, frontVars, poolVars, flagVars, envVars
  <2> QED
    BY <1>2, <2>1
<1> QED
  BY <1>3, <1>4, <1>5, <1>6, <1>7 DEF Setup

(* The pool is filled, or left for good: only a cut leaves pages behind.   *)
LEMMA LoopShape == IInv /\ Loop => Shape
<1> SUFFICES ASSUME IInv, Loop PROVE Shape
  OBVIOUS
<1> USE DEF IInv
<1>0. phase \in {"top", "fill"} /\ cur = NoUrl
  BY DEF Loop, Refill, Dispatch, DispatchProbe, Exhausted, StopOnCancel, StopOnDeadline, Waiting, TypeOK, PhaseTypeOK
<1>1. ASSUME Steady, UNCHANGED <<cur, fetched, depth, unsaved>>, Live' \subseteq Live, Cut' \/ Live \subseteq Live'
      PROVE  Shape
  BY <1>1 DEF Shape, Worked, DepthKept, Silent, Counted
<1>2. CASE Refill \/ DispatchProbe
  <2>1. Steady /\ UNCHANGED <<cur, fetched, depth, unsaved, queued, inFlight>>
    BY <1>0, <1>2 DEF Refill, DispatchProbe, Steady, Cut, fileVars, writerVars, pageVars, frontVars, poolVars, flagVars, envVars
  <2> QED
    BY <1>1, <2>1 DEF Live
<1>3. CASE Dispatch
  <2>1. Steady /\ UNCHANGED <<cur, fetched, depth, unsaved>>
    BY <1>0, <1>3 DEF Dispatch, Steady, Cut, fileVars, writerVars, pageVars, flagVars, envVars
  <2>2. Live' = Live
    BY <1>3, <2>1 DEF Dispatch, Live
  <2> QED
    BY <1>1, <2>1, <2>2
<1>4. CASE StopOnCancel \/ StopOnDeadline
  <2>1. /\ Steady /\ UNCHANGED <<cur, fetched, depth, unsaved, queued>> /\ Cut' /\ inFlight' = {}
    BY <1>0, <1>4 DEF StopOnCancel, StopOnDeadline, LeaveLoop, Steady, Cut, fileVars, writerVars, pageVars, frontVars, flagVars, envVars
  <2>2. Live' \subseteq Live
    BY <2>1 DEF Live
  <2> QED
    BY <1>1, <2>1, <2>2
<1>5. CASE Exhausted
  <2>1. Pool = {} /\ Filled
    BY <1>5 DEF Exhausted
  <2>2. inFlight = {} /\ queued = {}
    BY <2>1, FS_EmptySet, LimitsAssumption DEF Filled, Busy, Pool
  <2>3. UNCHANGED <<cur, fetched, depth, unsaved, queued>> /\ inFlight' = {}
    BY <1>5 DEF Exhausted, LeaveLoop, fileVars, writerVars, pageVars, frontVars
  <2>4. Live = {} /\ Live' = {}
    BY <1>0, <2>2, <2>3 DEF Live
  <2>5. Steady
    BY <1>0, <1>5, <2>4 DEF Exhausted, LeaveLoop, Steady, Cut, fileVars, writerVars, pageVars, frontVars, flagVars, envVars
  <2> QED
    BY <1>1, <2>3, <2>4, <2>5
<1> QED
  BY <1>2, <1>3, <1>4, <1>5 DEF Loop

(* Closing a task, or a page: it stops being worked on, and no other does  *)
(* unless the budget is spent.                                             *)
LEMMA CloseShape ==
    ASSUME TypeOK, NEW u, NEW reason, CloseJoin(u, reason), reason = truncated \/ reason # "none",
           phase \in {"fill", "page"},
           UNCHANGED <<status, truncReason, rows, siteIssues, resuming, rule, already, expired,
                       queued, seen, inSitemap, interrupted, depth>>,
           cur' = NoUrl, cur \in {NoUrl, u}
    PROVE  Steady /\ Worked /\ Live' \subseteq Live /\ (Cut' \/ Live \subseteq Live' \cup {u})
<1>1. CASE BudgetSpent
  <2>1. truncated' = "max_urls" /\ phase' = "drain" /\ inFlight' = {}
    BY <1>1 DEF CloseJoin, LeaveLoop
  <2>2. Cut' /\ Live' \subseteq Live
    BY <2>1 DEF Cut, Live
  <2> QED
    BY <2>1, <2>2 DEF Steady, Worked, DepthKept
<1>2. CASE ~BudgetSpent
  <2>1. truncated' = reason /\ phase' = "top" /\ inFlight' = inFlight \ {u}
    BY <1>2 DEF CloseJoin
  <2>2. Live' \subseteq Live /\ Live \subseteq Live' \cup {u}
    BY <2>1 DEF Live
  <2> QED
    BY <2>1, <2>2 DEF Steady, Worked, DepthKept, Cut
<1> QED
  BY <1>1, <1>2

(* A task ends: its page is settled, or stays as it was and the session    *)
(* says it was cut; an answer opens the page.                              *)
LEMMA JoinsShape == IInv /\ Joins => Shape
<1> SUFFICES ASSUME IInv, Joins PROVE Shape
  OBVIOUS
<1> USE DEF IInv
<1>0. phase = "fill" /\ cur = NoUrl
  BY DEF Joins, JoinExcluded, JoinFailed, JoinRateLimited, JoinFetched, JoinPanic, JoinProbe, Join, Waiting, TypeOK, PhaseTypeOK
<1>1. ASSUME NEW u \in inFlight, Join(u), UNCHANGED fetched, NEW reason, CloseJoin(u, reason), reason = truncated \/ reason # "none"
      PROVE  /\ u \in Urls
             /\ Steady /\ Worked /\ Live' \subseteq Live /\ (Cut' \/ Live \subseteq Live' \cup {u})
             /\ UNCHANGED <<fetched, cur, inSitemap>>
  <2>1. /\ UNCHANGED <<status, truncReason, rows, siteIssues, resuming, rule, already, expired,
                       queued, seen, inSitemap, interrupted, depth, cur>>
    BY <1>1 DEF Join, fileVars, pageVars, frontVars, flagVars, envVars
  <2>2. u \in Urls
    BY DEF TypeOK, FrontierTypeOK
  <2> QED
    BY <1>0, <1>1, <2>1, <2>2, CloseShape
<1>2. ASSUME NEW u \in inFlight, Join(u), UNCHANGED fetched, CloseJoin(u, truncated),
             NEW r \in Row, Send(RowMsg(u, r)), r.state \in {"excluded", "error"},
             r.sitemap <=> u \in inSitemap
      PROVE  Shape
  <2>1. PICK m \in Message : Send(m) /\ m.url = u /\ m.row = r /\ m.kind = "row"
    BY <1>1, <1>2, MessageBuilt
  <2>2. Sends(m)
    BY <1>0, <1>1, <1>2, <2>1 DEF Sends
  <2> QED
    BY <1>1, <1>2, <2>2 DEF Shape
<1>3. CASE JoinExcluded
  <2>1. PICK u \in inFlight, why \in {"robots", "local_network"} :
          /\ Join(u) /\ UNCHANGED fetched /\ CloseJoin(u, truncated)
          /\ Send(RowMsg(u, UrlRow("excluded", why, depth[u], u \in inSitemap)))
    BY <1>3 DEF JoinExcluded
  <2> DEFINE r == UrlRow("excluded", why, depth[u], u \in inSitemap)
  <2>2. depth[u] \in Nat
    BY DEF TypeOK, FrontierTypeOK
  <2>3. r \in Row
    BY <2>2, RowTypes DEF States, Reasons
  <2>4. r.state = "excluded" /\ (r.sitemap <=> u \in inSitemap)
    BY DEF UrlRow
  <2>5. Send(RowMsg(u, r))
    BY <2>1
  <2> HIDE DEF r
  <2> QED
    BY <1>2, <2>1, <2>3, <2>4, <2>5
<1>4. CASE JoinFailed
  <2>1. PICK u \in inFlight :
          /\ Join(u) /\ UNCHANGED fetched /\ CloseJoin(u, truncated)
          /\ Send(RowMsg(u, UrlRow("error", "none", depth[u], u \in inSitemap)))
    BY <1>4 DEF JoinFailed
  <2> DEFINE r == UrlRow("error", "none", depth[u], u \in inSitemap)
  <2>2. depth[u] \in Nat
    BY DEF TypeOK, FrontierTypeOK
  <2>3. r \in Row
    BY <2>2, RowTypes DEF States, Reasons
  <2>4. r.state = "error" /\ (r.sitemap <=> u \in inSitemap)
    BY DEF UrlRow
  <2>5. Send(RowMsg(u, r))
    BY <2>1
  <2> HIDE DEF r
  <2> QED
    BY <1>2, <2>1, <2>3, <2>4, <2>5
<1>5. CASE JoinRateLimited
  <2>1. PICK u \in inFlight :
          Join(u) /\ UNCHANGED <<unsaved, fetched>> /\ CloseJoin(u, OrElse("rate_limited"))
    BY <1>5 DEF JoinRateLimited
  <2>2. OrElse("rate_limited") # "none"
    BY DEF OrElse
  <2>3. Cut'
    BY <2>1, <2>2, CloseJoinEffect DEF Cut
  <2> QED
    BY <1>1, <2>1, <2>2, <2>3 DEF Shape, Silent, Counted
<1>6. CASE JoinFetched
  <2>1. PICK u \in inFlight :
          /\ phase' = "page" /\ cur' = u /\ inFlight' = inFlight \ {u} /\ fetched' = fetched + 1
          /\ UNCHANGED <<unsaved, queued, depth>>
    BY <1>6 DEF JoinFetched, writerVars, frontVars
  <2>2. u # NoUrl
    BY GraphAssumption DEF TypeOK, FrontierTypeOK
  <2>3. Live' = Live
    BY <1>0, <2>1, <2>2 DEF Live
  <2>4. Steady
    BY <1>0, <1>6, <2>1 DEF JoinFetched, Steady, Cut, fileVars, frontVars, flagVars, envVars
  <2> QED
    BY <1>0, <2>1, <2>3, <2>4 DEF Shape, Worked, DepthKept, Silent, Counted
<1>7. CASE JoinPanic
  <2>1. MayPanic /\ phase' = "top" /\ inFlight' \subseteq inFlight /\ UNCHANGED <<unsaved, queued, depth, cur, fetched>>
    BY <1>7 DEF JoinPanic, writerVars, frontVars, pageVars
  <2>2. Live' \subseteq Live
    BY <2>1 DEF Live
  <2>3. Steady
    BY <1>0, <1>7, <2>1 DEF JoinPanic, Steady, Cut, fileVars, frontVars, flagVars, envVars
  <2> QED
    BY <2>1, <2>2, <2>3 DEF Shape, Worked, DepthKept, Silent, Counted
<1>8. CASE JoinProbe
  <2>1. PICK v \in probing, why \in {"none", "local_network"} :
          /\ CloseJoin(v, truncated)
          /\ \/ Send(RowMsg(v, ExternalRow(why, FALSE)))
             \/ Send(RowMsg(v, ExternalRow(why, TRUE)))
    BY <1>8 DEF JoinProbe
  <2>2. /\ UNCHANGED <<status, truncReason, rows, siteIssues, resuming, rule, already, expired,
                       queued, seen, inSitemap, interrupted, depth, cur, fetched>>
    BY <1>8 DEF JoinProbe, fileVars, pageVars, frontVars, flagVars, envVars
  <2>3. v \in Urls /\ v \notin Live
    BY <1>0 DEF TypeOK, FrontierTypeOK, InvSeen
  <2>4. /\ Steady /\ Worked /\ Live' \subseteq Live /\ (Cut' \/ Live \subseteq Live' \cup {v})
    BY <1>0, <2>1, <2>2, CloseShape
  <2>5. PICK r \in {ExternalRow(why, FALSE), ExternalRow(why, TRUE)} : Send(RowMsg(v, r))
    BY <2>1
  <2>6. r \in Row
    BY RowTypes DEF Reasons
  <2>7. r.state = "skipped" /\ ~r.sitemap
    BY DEF ExternalRow
  <2>8. PICK m \in Message : Send(m) /\ m.url = v /\ m.row = r /\ m.kind = "row"
    BY <2>3, <2>5, <2>6, MessageBuilt
  <2>9. Sends(m)
    BY <2>2, <2>3, <2>4, <2>7, <2>8 DEF Sends
  <2> QED
    BY <2>4, <2>9 DEF Shape
<1> QED
  BY <1>3, <1>4, <1>5, <1>6, <1>7, <1>8 DEF Joins

(* The links of a page: what is new is queued or registered, and the page  *)
(* itself is settled last.                                                 *)
LEMMA PageShape == IInv /\ Page => Shape
<1> SUFFICES ASSUME IInv, Page PROVE Shape
  OBVIOUS
<1> USE DEF IInv
<1>1. CASE PageDone
  <2> DEFINE r == UrlRow("done", "none", depth[cur], cur \in inSitemap)
  <2>1. /\ phase = "page" /\ cur # NoUrl /\ cur' = NoUrl /\ CloseJoin(cur, truncated)
        /\ UNCHANGED <<status, truncReason, rows, siteIssues, resuming, rule, already, expired,
                       queued, seen, inSitemap, interrupted, depth, fetched>>
        /\ Send(PageMsg(cur, r))
    BY <1>1 DEF PageDone, fileVars, frontVars, flagVars, envVars, TypeOK, PhaseTypeOK
  <2>2. cur \in Urls /\ depth[cur] \in Nat
    BY <2>1 DEF TypeOK, PhaseTypeOK, FrontierTypeOK
  <2>3. r \in Row
    BY <2>2, RowTypes DEF States, Reasons
  <2>4. r.state = "done" /\ (r.sitemap <=> cur \in inSitemap)
    BY DEF UrlRow
  <2>5. Steady /\ Worked /\ Live' \subseteq Live /\ (Cut' \/ Live \subseteq Live' \cup {cur})
    BY <2>1, CloseShape
  <2> HIDE DEF r
  <2>6. PICK m \in Message : Send(m) /\ m.url = cur /\ m.row = r /\ m.kind = "page"
    BY <2>1, <2>2, <2>3, MessageBuilt
  <2>7. Sends(m)
    BY <2>1, <2>2, <2>4, <2>5, <2>6 DEF Sends
  <2> QED
    BY <2>5, <2>7 DEF Shape
<1>2. ASSUME PageStep, seen \subseteq seen', truncated' = truncated \/ truncated' # "none"
      PROVE  /\ Steady /\ phase = "page" /\ TargetDepth \in Nat /\ TargetDepth \in {depth[cur], depth[cur] + 1}
             /\ UNCHANGED <<cur, inFlight, fetched, inSitemap>>
  <2>1. TargetDepth \in {depth[cur], depth[cur] + 1}
    BY DEF TargetDepth
  <2> QED
    BY <1>2, <2>1, TargetTypes DEF PageStep, Steady, Cut, fileVars, flagVars, poolVars, envVars
<1>3. CASE TargetKnown \/ TargetUnregistered
  <2>1. PageStep /\ UNCHANGED <<unsaved, queued, depth, truncated>> /\ seen \subseteq seen'
    BY <1>3 DEF TargetKnown, TargetUnregistered, NewTarget, frontVars
  <2>2. Live' = Live
    BY <1>2, <2>1 DEF Live
  <2> QED
    BY <1>2, <2>1, <2>2 DEF Shape, Worked, DepthKept, Silent, Counted
<1>4. CASE TargetExternal
  <2>1. PICK v \in Urls \ Internal :
          PageStep /\ Register(v, ExternalRow(WhyNotProbe(v), FALSE)) /\ UNCHANGED truncated
    BY <1>4 DEF TargetExternal, NewTarget
  <2> DEFINE r == ExternalRow(WhyNotProbe(v), FALSE)
  <2>2. r \in Row
    BY RowTypes DEF WhyNotProbe, Reasons
  <2>3. r.state = "skipped" /\ ~r.sitemap
    BY DEF ExternalRow
  <2>4. Register(v, r)
    BY <2>1
  <2> HIDE DEF r
  <2>5. Steady /\ UNCHANGED <<inFlight, cur, fetched>>
    BY <1>2, <2>1, <2>4 DEF Register
  <2> QED
    BY <2>2, <2>3, <2>4, <2>5, RegisterShape
<1>5. ASSUME NEW v \in Internal, PageStep, NEW r \in Row, Register(v, r), truncated' = truncated \/ truncated' # "none",
             r.state \in {"excluded", "skipped"}, r.sitemap => v \in inSitemap
      PROVE  Shape
  <2>1. Steady /\ UNCHANGED <<inFlight, cur, fetched, inSitemap>> /\ v \in Urls
    BY <1>2, <1>5, GraphAssumption DEF Register
  <2> QED
    BY <1>5, <2>1, RegisterShape
<1>6. CASE TargetListed \/ TargetFiltered
  <2>1. PICK v \in Internal, st \in {"skipped", "excluded"}, why \in {"none", "pattern"} :
          PageStep /\ Register(v, UrlRow(st, why, TargetDepth, v \in inSitemap)) /\ UNCHANGED truncated
    BY <1>6 DEF TargetListed, TargetFiltered, NewTarget
  <2> DEFINE r == UrlRow(st, why, TargetDepth, v \in inSitemap)
  <2>2. TargetDepth \in Nat
    BY <1>2, <2>1 DEF Register
  <2>3. r \in Row
    BY <2>2, RowTypes DEF States, Reasons
  <2>4. r.state = st /\ (r.sitemap <=> v \in inSitemap)
    BY DEF UrlRow
  <2>5. Register(v, r)
    BY <2>1
  <2> HIDE DEF r
  <2> QED
    BY <1>5, <2>1, <2>3, <2>4, <2>5
<1>7. CASE TargetNotFollowed \/ TargetTooDeep
  <2>1. PICK v \in Internal, why \in {"nofollow", "depth"} :
          /\ PageStep /\ Register(v, UrlRow("excluded", why, TargetDepth, FALSE))
          /\ truncated' = truncated \/ truncated' # "none"
    BY <1>7 DEF TargetNotFollowed, TargetTooDeep, NewTarget, OrElse
  <2> DEFINE r == UrlRow("excluded", why, TargetDepth, FALSE)
  <2>2. TargetDepth \in Nat
    BY <1>2, <2>1 DEF Register
  <2>3. r \in Row
    BY <2>2, RowTypes DEF States, Reasons
  <2>4. r.state = "excluded" /\ ~r.sitemap
    BY DEF UrlRow
  <2>5. Register(v, r)
    BY <2>1
  <2> HIDE DEF r
  <2> QED
    BY <1>5, <2>1, <2>3, <2>4, <2>5
<1>8. CASE TargetQueued
  <2>1. PICK v \in Internal :
          PageStep /\ v \notin seen /\ Enqueue(v, TargetDepth, v \in inSitemap) /\ UNCHANGED truncated
    BY <1>8 DEF TargetQueued, NewTarget
  <2> DEFINE r == UrlRow("pending", "none", TargetDepth, v \in inSitemap)
  <2>2. Steady /\ phase = "page" /\ TargetDepth \in Nat /\ TargetDepth \in {depth[cur], depth[cur] + 1}
        /\ UNCHANGED <<cur, inFlight, fetched, inSitemap>>
    BY <1>2, <2>1 DEF Enqueue
  <2>3. r \in Row
    BY <2>2, RowTypes DEF States, Reasons
  <2>4. r.sitemap => v \in inSitemap'
    BY <2>2 DEF UrlRow
  <2> QED
    BY <2>1, <2>2, <2>3, <2>4, EnqueueShape
<1> QED
  BY <1>1, <1>3, <1>4, <1>6, <1>7, <1>8 DEF Page

LEMMA StepShape == IInv /\ (Setup \/ Loop \/ Joins \/ Page) => Shape
BY SetupShape, LoopShape, JoinsShape, PageShape

-----------------------------------------------------------------------------
(* What the writer's commit does to the rows and to the queue of messages. *)
LEMMA CommitShape ==
    ASSUME TypeOK, Commit
    PROVE  /\ UNCHANGED <<status, truncReason, siteIssues, memVars, envVars>>
           /\ 1 \in DOMAIN unsaved  /\ DOMAIN unsaved = 1..Len(unsaved)  /\ Len(unsaved) \in Nat \ {0}
           /\ DOMAIN unsaved' = 1..(Len(unsaved) - 1)
           /\ \A i \in DOMAIN unsaved' : i + 1 \in DOMAIN unsaved /\ unsaved'[i] = unsaved[i + 1]
           /\ \A j \in DOMAIN unsaved : j # 1 => j - 1 \in DOMAIN unsaved' /\ unsaved'[j - 1] = unsaved[j]
           /\ \A u \in Urls :
                \/ rows'[u] = rows[u] /\ (unsaved[1].url # u \/ unsaved[1].kind = "resend")
                \/ /\ unsaved[1].url = u  /\ unsaved[1].kind # "resend"
                   /\ rows'[u].state = unsaved[1].row.state
                   /\ rows'[u].depth = unsaved[1].row.depth
                   /\ rows'[u].sitemap <=> (rows[u].sitemap \/ unsaved[1].row.sitemap)
<1>1. /\ unsaved \in Seq(Message) /\ unsaved # <<>> /\ unsaved' = Tail(unsaved)
      /\ UNCHANGED <<status, truncReason, siteIssues, memVars, envVars>>
  BY DEF Commit, TypeOK, WriterTypeOK
<1>2. /\ 1 \in DOMAIN unsaved /\ Head(unsaved) = unsaved[1] /\ unsaved[1] \in Message
      /\ DOMAIN unsaved = 1..Len(unsaved) /\ Len(unsaved) \in Nat \ {0}
      /\ DOMAIN unsaved' = 1..(Len(unsaved) - 1)
      /\ \A i \in 1..(Len(unsaved) - 1) : unsaved'[i] = unsaved[i + 1] /\ i + 1 \in DOMAIN unsaved
  BY <1>1, TailFacts
<1>3. \A j \in DOMAIN unsaved : j # 1 => j - 1 \in DOMAIN unsaved' /\ unsaved'[j - 1] = unsaved[j]
  <2> SUFFICES ASSUME NEW j \in DOMAIN unsaved, j # 1
               PROVE  j - 1 \in DOMAIN unsaved' /\ unsaved'[j - 1] = unsaved[j]
    OBVIOUS
  <2>1. j - 1 \in 1..(Len(unsaved) - 1) /\ (j - 1) + 1 = j
    BY <1>2
  <2> QED
    BY <1>2, <2>1
<1> DEFINE m == Head(unsaved)
<1>4. \/ m.kind = "resend" /\ rows' = rows
      \/ m.kind # "resend" /\ rows' = [rows EXCEPT ![m.url] = Upsert(rows[m.url], m.row)]
  BY DEF Commit
<1>5. m.kind # "resend" => m.url \in Urls /\ m.row \in Row
  BY <1>2, MessageTypes
<1>6. rows \in [Urls -> Row]
  BY DEF TypeOK, FileTypeOK
<1>7. \A u \in Urls :
        \/ rows'[u] = rows[u] /\ (m.url # u \/ m.kind = "resend")
        \/ m.url = u /\ m.kind # "resend" /\ rows'[u] = Upsert(rows[u], m.row)
  <2> HIDE DEF m
  <2> QED
    BY <1>4, <1>5, <1>6
<1>8. ASSUME NEW old \in Row, NEW new \in Row
      PROVE  /\ Upsert(old, new).state = new.state  /\ Upsert(old, new).depth = new.depth
             /\ Upsert(old, new).sitemap <=> (old.sitemap \/ new.sitemap)
  BY DEF Upsert, Row
<1>9. \A u \in Urls :
        \/ rows'[u] = rows[u] /\ (m.url # u \/ m.kind = "resend")
        \/ /\ m.url = u  /\ m.kind # "resend"
           /\ rows'[u].state = m.row.state  /\ rows'[u].depth = m.row.depth
           /\ rows'[u].sitemap <=> (rows[u].sitemap \/ m.row.sitemap)
  <2> HIDE DEF m
  <2> QED
    BY <1>5, <1>6, <1>7, <1>8
<1> QED
  BY <1>1, <1>2, <1>3, <1>9

(* What a message sent does to the queue: it is the last one.              *)
LEMMA SendShape ==
    ASSUME TypeOK, NEW m \in Message, Send(m)
    PROVE  /\ Len(unsaved) \in Nat  /\ DOMAIN unsaved = 1..Len(unsaved)
           /\ DOMAIN unsaved' = 1..(Len(unsaved) + 1)
           /\ \A i \in DOMAIN unsaved : i \in DOMAIN unsaved' /\ unsaved'[i] = unsaved[i]
           /\ unsaved'[Len(unsaved) + 1] = m
           /\ \A i \in DOMAIN unsaved' : i \in DOMAIN unsaved \/ i = Len(unsaved) + 1
<1>1. unsaved \in Seq(Message) /\ unsaved' = Append(unsaved, m)
  BY DEF Send, TypeOK, WriterTypeOK
<1> QED
  BY <1>1, AppendFacts

(* The steps that are not of the loop.  A session that ends forgets        *)
(* everything but the file.                                                *)
LEMMA EndShape ==
    ASSUME Pause \/ FinalizeCancelled \/ FinalizeDone \/ Crash
    PROVE  /\ EndSession /\ UNCHANGED <<rows, siteIssues>>
           /\ status' # "none" \/ status' = status
           /\ \/ FinalizeDone
              \/ status' \in {"paused", status} /\ UNCHANGED truncReason
BY DEF Pause, FinalizeCancelled, FinalizeDone, Crash, fileVars

(* Those that touch neither the file nor what is on its way to it.         *)
LEMMA QuietShape ==
    ASSUME RequestCancel \/ DeadlinePasses \/ Over \/ UNCHANGED vars
    PROVE  UNCHANGED <<fileVars, writerVars, memVars>>
BY DEF RequestCancel, DeadlinePasses, Over, vars

-----------------------------------------------------------------------------
(* The findings of the site rules.                                         *)
LEMMA IssuesInit == Init => InvIssues
BY DEF Init, Idle, InvIssues

LEMMA IssuesStep == IInv /\ IInv' /\ InvIssues /\ [Next]_vars => InvIssues'
<1> SUFFICES ASSUME IInv, IInv', InvIssues, [Next]_vars PROVE InvIssues'
  OBVIOUS
<1> USE DEF InvIssues
<1>1. CASE Start
  BY <1>1 DEF Start, flagVars
<1>2. CASE Resume
  BY <1>2 DEF Resume
<1>3. CASE Setup \/ Loop \/ Joins \/ Page
  <2>1. Steady
    BY <1>3, StepShape DEF Shape
  <2>2. status = "running"
    BY <2>1 DEF Steady
  <2> QED
    BY <2>1, <2>2 DEF Steady
<1>4. CASE Commit
  <2>1. /\ UNCHANGED <<status, truncReason, siteIssues, phase, rule, resuming, interrupted, truncated>>
        /\ unsaved # <<>>
    BY <1>4 DEF Commit, memVars, flagVars
  <2> QED
    BY <2>1
<1>5. CASE Pause \/ FinalizeCancelled \/ Crash
  <2>1. /\ phase # "idle" /\ phase' = "idle" /\ rule' = 1 /\ ~resuming' /\ UNCHANGED siteIssues
        /\ status' \in {"paused", status}
    BY <1>5 DEF Pause, FinalizeCancelled, Crash, EndSession, fileVars
  <2> QED
    BY <2>1
<1>6. CASE FinalizeDone
  <2>1. /\ phase = "final" /\ rule > NRules /\ phase' = "idle" /\ rule' = 1 /\ ~resuming' /\ UNCHANGED siteIssues
        /\ status' = "done" /\ truncReason' = truncated
    BY <1>6 DEF FinalizeDone, EndSession
  <2>2. \A r \in 1..NRules : siteIssues[r] = Told(r, truncated)
    BY <2>1, LimitsAssumption DEF IInv, TypeOK, PhaseTypeOK
  <2> QED
    BY <2>1, <2>2 DEF Told
<1>7. CASE Finalize
  <2>1. /\ phase = "drain" /\ phase' = "final" /\ ~interrupted /\ unsaved = <<>>
        /\ siteIssues' = IF resuming THEN [r \in 1..NRules |-> 0] ELSE siteIssues
        /\ UNCHANGED <<status, truncReason, unsaved, rule, resuming, interrupted, truncated>>
    BY <1>7 DEF Finalize, writerVars, flagVars
  <2>2. rule' = 1 /\ status' = "running" /\ \A r \in 1..NRules : siteIssues'[r] = 0
    BY <2>1
  <2> QED
    BY <2>1, <2>2
<1>8. CASE EvaluateRule
  <2>1. /\ phase = "final" /\ rule <= NRules /\ rule' = rule + 1
        /\ siteIssues' = IF truncated # "none" /\ rule \in FullGraphRules
                         THEN siteIssues ELSE [siteIssues EXCEPT ![rule] = @ + 1]
        /\ UNCHANGED <<status, truncReason, unsaved, phase, interrupted, truncated, resuming>>
    BY <1>8 DEF EvaluateRule, writerVars
  <2>2. siteIssues \in [1..NRules -> Nat] /\ rule \in Nat \ {0} /\ NRules \in Nat
    BY LimitsAssumption DEF IInv, TypeOK, FileTypeOK, PhaseTypeOK
  <2>3. status = "running" /\ siteIssues[rule] = 0
    BY <2>1, <2>2
  <2>4. ASSUME NEW r \in 1..NRules
        PROVE  siteIssues'[r] = IF r < rule' THEN Told(r, truncated') ELSE 0
    <3>1. siteIssues[r] = IF r < rule THEN Told(r, truncated) ELSE 0
      BY <2>1
    <3>2. CASE r = rule
      BY <2>1, <2>2, <2>3, <3>2 DEF Told
    <3>3. CASE r # rule
      <4>1. siteIssues'[r] = siteIssues[r] /\ (r < rule' <=> r < rule)
        BY <2>1, <2>2, <3>3
      <4> QED
        BY <2>1, <3>1, <4>1
    <3> QED
      BY <3>2, <3>3
  <2> QED
    BY <2>1, <2>3, <2>4
<1>9. CASE RequestCancel \/ DeadlinePasses \/ Over \/ UNCHANGED vars
  <2>1. UNCHANGED <<status, truncReason, siteIssues, unsaved, phase, rule, resuming, interrupted, truncated>>
    BY <1>9, QuietShape DEF fileVars, writerVars, memVars, flagVars
  <2> QED
    BY <2>1
<1> QED
  BY <1>1, <1>2, <1>3, <1>4, <1>5, <1>6, <1>7, <1>8, <1>9 DEF Next, Progress, Ending

-----------------------------------------------------------------------------
(* The plan.                                                               *)
LEMMA PlanInit == Init => InvPlan
BY DEF Init, Idle, InvPlan

(* A message keeps its URL settled unless it is the one that plans it; of  *)
(* every other URL the last word stays the same.                           *)
LEMMA PlanSend ==
    ASSUME TypeOK, InvPlan, ~MayPanic, phase # "idle", ~Cut, UNCHANGED rows,
           NEW m \in Message, Sends(m), ~Cut'
    PROVE  \A u \in Urls : Planned(u)' => u \in Live' \/ Settling(u)'
<1> SUFFICES ASSUME NEW u \in Urls, Planned(u)' PROVE u \in Live' \/ Settling(u)'
  OBVIOUS
<1>1. /\ Len(unsaved) \in Nat  /\ DOMAIN unsaved = 1..Len(unsaved)
      /\ DOMAIN unsaved' = 1..(Len(unsaved) + 1)
      /\ \A i \in DOMAIN unsaved : i \in DOMAIN unsaved' /\ unsaved'[i] = unsaved[i]
      /\ unsaved'[Len(unsaved) + 1] = m
      /\ \A i \in DOMAIN unsaved' : i \in DOMAIN unsaved \/ i = Len(unsaved) + 1
  BY SendShape DEF Sends
<1>2. CASE m.url = u
  <2>1. CASE m.row.state = "pending"
    BY <1>2, <2>1 DEF Sends
  <2>2. CASE m.row.state # "pending"
    <3>1. Len(unsaved) + 1 \in DOMAIN unsaved'
      BY <1>1
    <3>2. \A j \in DOMAIN unsaved' :
            j >= Len(unsaved) + 1 /\ unsaved'[j].url = u => unsaved'[j].row.state # "pending"
      BY <1>1, <2>2
    <3> QED
      BY <1>1, <1>2, <3>1, <3>2 DEF Settling
  <2> QED
    BY <2>1, <2>2
<1>3. CASE m.url # u
  <2>1. Planned(u)
    BY <1>1, <1>3 DEF Planned
  <2>2. u \in Live \/ Settling(u)
    BY <2>1 DEF InvPlan
  <2>3. CASE u \in Live
    BY <1>3, <2>3 DEF Sends
  <2>4. CASE Settling(u)
    <3>1. PICK i \in DOMAIN unsaved :
            /\ unsaved[i].url = u
            /\ \A j \in DOMAIN unsaved : j >= i /\ unsaved[j].url = u => unsaved[j].row.state # "pending"
      BY <2>4 DEF Settling
    <3>2. i \in DOMAIN unsaved' /\ unsaved'[i].url = u
      BY <1>1, <3>1
    <3>3. \A j \in DOMAIN unsaved' : j >= i /\ unsaved'[j].url = u => unsaved'[j].row.state # "pending"
      BY <1>1, <1>3, <3>1
    <3> QED
      BY <3>2, <3>3 DEF Settling
  <2> QED
    BY <2>2, <2>3, <2>4
<1> QED
  BY <1>2, <1>3

(* The writer commits the oldest message: if it was the last word on its   *)
(* URL, the row is settled for good.                                       *)
LEMMA PlanCommit ==
    ASSUME TypeOK, InvPlan, ~MayPanic, phase # "idle", ~Cut, Commit
    PROVE  \A u \in Urls : Planned(u)' => u \in Live' \/ Settling(u)'
<1> SUFFICES ASSUME NEW u \in Urls, Planned(u)' PROVE u \in Live' \/ Settling(u)'
  OBVIOUS
<1>1. /\ Live' = Live
      /\ 1 \in DOMAIN unsaved  /\ DOMAIN unsaved = 1..Len(unsaved)  /\ Len(unsaved) \in Nat \ {0}
      /\ DOMAIN unsaved' = 1..(Len(unsaved) - 1)
      /\ \A i \in DOMAIN unsaved' : i + 1 \in DOMAIN unsaved /\ unsaved'[i] = unsaved[i + 1]
      /\ \A j \in DOMAIN unsaved : j # 1 => j - 1 \in DOMAIN unsaved' /\ unsaved'[j - 1] = unsaved[j]
      /\ \/ rows'[u] = rows[u] /\ (unsaved[1].url # u \/ unsaved[1].kind = "resend")
         \/ /\ unsaved[1].url = u
            /\ rows'[u].state = unsaved[1].row.state
  BY CommitShape DEF Live, memVars, pageVars, frontVars, poolVars
<1>2. Planned(u)
  BY <1>1 DEF Planned
<1>3. u \in Live \/ Settling(u)
  BY <1>2 DEF InvPlan
<1>4. ASSUME Settling(u) PROVE Settling(u)'
  <2>1. PICK i \in DOMAIN unsaved :
          /\ unsaved[i].url = u
          /\ \A j \in DOMAIN unsaved : j >= i /\ unsaved[j].url = u => unsaved[j].row.state # "pending"
    BY <1>4 DEF Settling
  <2>2. CASE i = 1
    <3>1. \A j \in DOMAIN unsaved : unsaved[j].url = u => unsaved[j].row.state # "pending"
      BY <1>1, <2>1, <2>2
    <3>2. \A j \in DOMAIN unsaved' : unsaved'[j].url = u => unsaved'[j].row.state # "pending"
      BY <1>1, <3>1
    <3>3. unsaved[1].url = u /\ unsaved[1] \in Message
      BY <2>1, <2>2, <1>1 DEF TypeOK, WriterTypeOK
    <3>4. unsaved[1].kind # "resend"
      BY <3>3, ResendUrl
    <3>5. rows'[u].state = unsaved[1].row.state
      BY <1>1, <3>3, <3>4
    <3>6. ~Planned(u)'
      BY <1>1, <3>1, <3>2, <3>3, <3>5 DEF Planned
    <3> QED
      BY <3>6
  <2>3. CASE i # 1
    <3>1. i - 1 \in DOMAIN unsaved' /\ unsaved'[i - 1].url = u
      BY <1>1, <2>1, <2>3
    <3>2. \A j \in DOMAIN unsaved' : j >= i - 1 /\ unsaved'[j].url = u => unsaved'[j].row.state # "pending"
      BY <1>1, <2>1
    <3> QED
      BY <3>1, <3>2 DEF Settling
  <2> QED
    BY <2>2, <2>3
<1> QED
  BY <1>1, <1>3, <1>4

LEMMA PlanStep == IInv /\ InvIssues /\ InvPlan /\ [Next]_vars => InvPlan'
<1> SUFFICES ASSUME IInv, InvIssues, InvPlan, [Next]_vars PROVE InvPlan'
  OBVIOUS
<1>1. CASE Start
  <2>1. /\ status = "none" /\ phase' = "setup" /\ truncated' = InitialTruncation /\ UNCHANGED <<rows, unsaved>>
        /\ phase = "idle"
    BY <1>1 DEF Start, writerVars
  <2>2. unsaved' = <<>> /\ \A u \in Urls : rows'[u].state = "absent"
    BY <2>1 DEF IInv, InvIdle, Present
  <2>3. \A u \in Urls : ~Planned(u)'
    BY <2>2 DEF Planned
  <2>4. ListMode => truncated' # "none"
    BY <2>1 DEF InitialTruncation
  <2> QED
    BY <2>1, <2>3, <2>4 DEF InvPlan
<1>2. CASE Resume
  <2>1. phase' = "setup" /\ truncated' = InitialTruncation /\ UNCHANGED rows /\ queued' = Pending /\ unsaved' = <<ResendMsg>>
    BY <1>2 DEF Resume, ResendExistingRows
  <2>2. \A i \in DOMAIN unsaved' : unsaved'[i].url \notin Urls
    BY <2>1, GraphAssumption DEF ResendMsg
  <2>3. \A u \in Urls : Planned(u)' => u \in Live'
    BY <2>1, <2>2 DEF Planned, Pending, Live
  <2>4. ListMode => truncated' # "none"
    BY <2>1 DEF InitialTruncation
  <2> QED
    BY <2>1, <2>3, <2>4 DEF InvPlan
<1>3. CASE Setup \/ Loop \/ Joins \/ Page
  <2>1. Steady /\ (Silent \/ \E m \in Message : Sends(m))
    BY <1>3, StepShape DEF Shape
  <2>2. phase' \in {"drain", "final"} /\ ~Cut' => Live' = {}
    BY <2>1 DEF Steady
  <2>4. ListMode => truncated' # "none"
    BY <2>1 DEF Steady, InvPlan
  <2>3. ASSUME ~MayPanic, ~Cut'
        PROVE  \A u \in Urls : Planned(u)' => u \in Live' \/ Settling(u)'
    <3>1. phase # "idle" /\ ~Cut /\ UNCHANGED rows
      BY <2>1, <2>3 DEF Steady
    <3>2. CASE Silent
      <4>1. UNCHANGED <<rows, unsaved>> /\ Live \subseteq Live'
        BY <2>3, <3>1, <3>2 DEF Silent
      <4> QED
        BY <2>3, <3>1, <4>1 DEF InvPlan, Planned, Settling
    <3>3. CASE \E m \in Message : Sends(m)
      <4>1. PICK m \in Message : Sends(m)
        BY <3>3
      <4>2. TypeOK
        BY DEF IInv
      <4> QED
        BY <2>3, <3>1, <4>1, <4>2, PlanSend
    <3> QED
      BY <2>1, <3>2, <3>3
  <2> QED
    BY <2>2, <2>3, <2>4 DEF InvPlan
<1>4. CASE Commit
  <2>1. UNCHANGED <<phase, truncated, interrupted>> /\ Cut' = Cut /\ Live' = Live
    BY <1>4 DEF Commit, memVars, flagVars, Cut, Live, pageVars, frontVars, poolVars
  <2>2. ~MayPanic /\ phase # "idle" /\ ~Cut => \A u \in Urls : Planned(u)' => u \in Live' \/ Settling(u)'
    BY <1>4, PlanCommit DEF IInv
  <2> QED
    BY <2>1, <2>2 DEF InvPlan
<1>5. CASE Pause \/ FinalizeCancelled \/ FinalizeDone \/ Crash
  <2>1. phase' = "idle"
    BY <1>5, EndShape DEF EndSession
  <2> QED
    BY <2>1 DEF InvPlan
<1>6. CASE \/ Finalize \/ EvaluateRule
           \/ RequestCancel \/ DeadlinePasses \/ Over \/ UNCHANGED vars
  <2>1. /\ UNCHANGED <<rows, unsaved, truncated, interrupted, queued, inFlight, cur>>
        /\ phase' = phase \/ (phase = "drain" /\ phase' = "final")
    BY <1>6, QuietShape DEF Finalize, EvaluateRule, fileVars, writerVars, memVars, pageVars, frontVars, poolVars, flagVars
  <2>2. Live' = Live /\ Cut' = Cut
    BY <2>1 DEF Live, Cut
  <2>3. \A u \in Urls : (Planned(u)' => Planned(u)) /\ (Settling(u) => Settling(u)')
    BY <2>1 DEF Planned, Settling
  <2> QED
    BY <2>1, <2>2, <2>3 DEF InvPlan
<1> QED
  BY <1>1, <1>2, <1>3, <1>4, <1>5, <1>6 DEF Next, Progress, Ending

-----------------------------------------------------------------------------
(* The seeds and the sitemaps.                                             *)
LEMMA SitemapShape == (Setup \/ Loop \/ Joins \/ Page) => SetupSitemap \/ UNCHANGED inSitemap
<1>1. Setup => SetupSitemap \/ UNCHANGED inSitemap
  BY DEF Setup, SetupSeed, SitemapsOverBudget, SitemapsCut, SkipSitemaps, RejectProbe, EndSetup, memVars, flagVars
<1>2. Loop => UNCHANGED inSitemap
  BY DEF Loop, Refill, Dispatch, DispatchProbe, Exhausted, StopOnCancel, StopOnDeadline, flagVars
<1>3. Joins => UNCHANGED inSitemap
  BY DEF Joins, JoinExcluded, JoinFailed, JoinRateLimited, JoinFetched, JoinPanic, JoinProbe, Join, flagVars
<1>4. Page => UNCHANGED inSitemap
  BY DEF Page, TargetKnown, TargetExternal, TargetUnregistered, TargetListed, TargetFiltered,
         TargetNotFollowed, TargetTooDeep, TargetQueued, PageDone, NewTarget, PageStep, flagVars
<1> QED
  BY <1>1, <1>2, <1>3, <1>4

(* After the setup, a step of the loop never goes back to it, and pages    *)
(* are only asked for by a session that was not cut by then.               *)
LEMMA PhaseShape ==
    ASSUME Loop \/ Joins \/ Page
    PROVE  /\ phase \notin {"idle", "setup"} /\ phase' \notin {"idle", "setup"}
           /\ phase' \in {"fill", "page"} => phase \in {"fill", "page"} \/ (~interrupted /\ ~expired /\ phase = "top")
<1>1. CASE Loop
  BY <1>1 DEF Loop, Refill, Dispatch, DispatchProbe, Exhausted, StopOnCancel, StopOnDeadline, Waiting, LeaveLoop
<1>2. ASSUME NEW u, NEW reason, CloseJoin(u, reason)
      PROVE  phase' \in {"drain", "top"}
  BY <1>2, CloseJoinEffect
<1>3. CASE Joins
  BY <1>2, <1>3 DEF Joins, JoinExcluded, JoinFailed, JoinRateLimited, JoinFetched, JoinPanic, JoinProbe, Join, Waiting
<1>4. CASE Page
  BY <1>2, <1>4 DEF Page, TargetKnown, TargetExternal, TargetUnregistered, TargetListed, TargetFiltered,
         TargetNotFollowed, TargetTooDeep, TargetQueued, PageDone, NewTarget, PageStep
<1> QED
  BY <1>1, <1>3, <1>4

(* The position in the setup: one URL more, or all of them.                *)
LEMMA SetupPosition ==
    ASSUME IInv, Setup
    PROVE  /\ phase = "setup"  /\ next \in Nat \ {0}  /\ Len(Seeds) \in Nat  /\ Len(SitemapUrls) \in Nat
           /\ DOMAIN Seeds = 1..Len(Seeds)  /\ DOMAIN SitemapUrls = 1..Len(SitemapUrls)
           /\ \/ /\ SetupSeed  /\ phase' = "setup"  /\ next' = next + 1  /\ next <= Len(Seeds)
                 /\ Seeds[next] \in seen'
              \/ /\ SetupSitemap  /\ phase' = "setup"  /\ next' = next + 1
                 /\ next > Len(Seeds)  /\ next - Len(Seeds) \in DOMAIN SitemapUrls
                 /\ SitemapUrls[next - Len(Seeds)] \in seen' \cap inSitemap'
              \/ /\ SitemapsOverBudget \/ SitemapsCut
                 /\ phase' = "setup"  /\ next' = SetupLength + 1  /\ next > Len(Seeds)  /\ Cut'
              \/ RejectProbe /\ phase' = "setup" /\ next' = next
              \/ EndSetup /\ phase' = "top" /\ next > SetupLength
<1>1. /\ next \in Nat \ {0}  /\ Len(Seeds) \in Nat  /\ Len(SitemapUrls) \in Nat
      /\ DOMAIN Seeds = 1..Len(Seeds)  /\ DOMAIN SitemapUrls = 1..Len(SitemapUrls)
  BY GraphAssumption DEF IInv, TypeOK, PhaseTypeOK
<1>2. CASE SetupSeed
  <2>1. /\ phase = "setup" /\ phase' = "setup" /\ next' = next + 1 /\ next <= Len(Seeds)
        /\ Seeds[next] \in seen'
    BY <1>2 DEF SetupSeed, SetupStep, Register, Enqueue, frontVars
  <2> QED
    BY <1>1, <1>2, <2>1
<1>3. CASE SetupSitemap
  <2>1. /\ phase = "setup" /\ phase' = "setup" /\ next' = next + 1 /\ next > Len(Seeds) /\ next <= Len(Seeds) + Len(SitemapUrls)
        /\ SitemapUrls[next - Len(Seeds)] \in seen' \cap inSitemap'
    BY <1>3 DEF SetupSitemap, SetupStep, SetupLength, Register, Enqueue, frontVars
  <2> QED
    BY <1>1, <1>3, <2>1
<1>4. CASE SitemapsOverBudget \/ SitemapsCut
  <2>1. phase = "setup" /\ phase' = "setup" /\ next' = SetupLength + 1 /\ next > Len(Seeds) /\ Cut'
    BY <1>4 DEF SitemapsOverBudget, SitemapsCut, SkipSitemaps, Cut, OrElse
  <2> QED
    BY <1>1, <1>4, <2>1
<1>5. CASE RejectProbe
  BY <1>1, <1>5 DEF RejectProbe, memVars, pageVars
<1>6. CASE EndSetup
  BY <1>1, <1>6 DEF EndSetup
<1> QED
  BY <1>2, <1>3, <1>4, <1>5, <1>6 DEF Setup

LEMMA SourcesInit == Init => InvSources
BY DEF Init, Idle, InvSources

LEMMA SourcesStep == IInv /\ InvSources /\ [Next]_vars => InvSources'
<1> SUFFICES ASSUME IInv, InvSources, [Next]_vars PROVE InvSources'
  OBVIOUS
<1>0. /\ Len(Seeds) \in Nat  /\ Len(SitemapUrls) \in Nat
      /\ DOMAIN Seeds = 1..Len(Seeds)  /\ DOMAIN SitemapUrls = 1..Len(SitemapUrls)
  BY GraphAssumption
<1>1. CASE Start \/ Resume
  <2>1. phase = "idle" /\ phase' = "setup" /\ next' = next
    BY <1>1 DEF Start, Resume, pageVars
  <2>2. next' = 1
    BY <2>1 DEF InvSources
  <2>3. /\ \A i \in DOMAIN Seeds : ~(i < next')
        /\ \A i \in DOMAIN SitemapUrls : ~(i + Len(Seeds) < next')
    BY <1>0, <2>2
  <2> QED
    BY <2>1, <2>3 DEF InvSources
<1>2. CASE Setup
  <2>1. Steady
    BY <1>2, StepShape DEF Shape
  <2>2. /\ phase = "setup" /\ next \in Nat \ {0}
        /\ seen \subseteq seen' /\ inSitemap \subseteq inSitemap' /\ (Cut => Cut')
    BY <1>2, <2>1, SetupPosition DEF Steady
  <2>3. /\ \A i \in DOMAIN Seeds : i < next => Seeds[i] \in seen'
        /\ Cut' \/ \A i \in DOMAIN SitemapUrls : i + Len(Seeds) < next => SitemapUrls[i] \in seen' \cap inSitemap'
    BY <2>2 DEF InvSources
  <2>4. CASE phase' = "setup" /\ next' = next + 1 /\ next <= Len(Seeds) /\ Seeds[next] \in seen'
    <3>1. \A i \in DOMAIN Seeds : i < next' => Seeds[i] \in seen'
      BY <1>0, <2>2, <2>3, <2>4
    <3>2. \A i \in DOMAIN SitemapUrls : ~(i + Len(Seeds) < next')
      BY <1>0, <2>2, <2>4
    <3> QED
      BY <2>4, <3>1, <3>2 DEF InvSources
  <2>5. CASE /\ phase' = "setup"  /\ next' = next + 1
             /\ next > Len(Seeds)  /\ next - Len(Seeds) \in DOMAIN SitemapUrls
             /\ SitemapUrls[next - Len(Seeds)] \in seen' \cap inSitemap'
    <3>1. \A i \in DOMAIN Seeds : Seeds[i] \in seen'
      BY <1>0, <2>2, <2>3, <2>5
    <3>2. \A i \in DOMAIN SitemapUrls : i + Len(Seeds) < next' =>
            i + Len(Seeds) < next \/ i = next - Len(Seeds)
      BY <1>0, <2>2, <2>5
    <3>3. Cut' \/ \A i \in DOMAIN SitemapUrls : i + Len(Seeds) < next' => SitemapUrls[i] \in seen' \cap inSitemap'
      BY <2>3, <2>5, <3>2
    <3> QED
      BY <2>5, <3>1, <3>3 DEF InvSources
  <2>6. CASE phase' = "setup" /\ next' = SetupLength + 1 /\ next > Len(Seeds) /\ Cut'
    <3>1. \A i \in DOMAIN Seeds : Seeds[i] \in seen'
      BY <1>0, <2>2, <2>3, <2>6
    <3> QED
      BY <2>6, <3>1 DEF InvSources
  <2>7. CASE phase' = "setup" /\ next' = next
    BY <2>3, <2>7 DEF InvSources
  <2>8. CASE phase' = "top" /\ next > SetupLength
    <3>1. \A i \in DOMAIN Seeds : Seeds[i] \in seen'
      BY <1>0, <2>2, <2>3, <2>8 DEF SetupLength
    <3>2. Cut' \/ \A i \in DOMAIN SitemapUrls : SitemapUrls[i] \in seen' \cap inSitemap'
      BY <1>0, <2>2, <2>3, <2>8 DEF SetupLength
    <3> QED
      BY <2>8, <3>1, <3>2 DEF InvSources, SeedSet, SitemapSet
  <2> QED
    BY <1>2, <2>4, <2>5, <2>6, <2>7, <2>8, SetupPosition
<1>3. CASE Loop \/ Joins \/ Page
  <2>1. Steady
    BY <1>3, StepShape DEF Shape
  <2>2. phase \notin {"idle", "setup"} /\ phase' \notin {"idle", "setup"}
    BY <1>3, PhaseShape
  <2>3. seen \subseteq seen' /\ inSitemap \subseteq inSitemap' /\ (Cut => Cut')
    BY <2>1 DEF Steady
  <2> QED
    BY <2>2, <2>3 DEF InvSources
<1>4. CASE Pause \/ FinalizeCancelled \/ FinalizeDone \/ Crash
  <2>1. phase' = "idle" /\ next' = 1
    BY <1>4, EndShape DEF EndSession
  <2> QED
    BY <2>1 DEF InvSources
<1>5. CASE Commit \/ Finalize \/ EvaluateRule \/ RequestCancel \/ DeadlinePasses \/ Over \/ UNCHANGED vars
  <2>1. /\ UNCHANGED <<next, seen, inSitemap, truncated, interrupted>>
        /\ phase' = phase \/ (phase \notin {"idle", "setup"} /\ phase' = "final")
    BY <1>5, QuietShape DEF Commit, Finalize, EvaluateRule, fileVars, writerVars, memVars, pageVars, frontVars, flagVars
  <2>2. Cut' = Cut
    BY <2>1 DEF Cut
  <2> QED
    BY <2>1, <2>2 DEF InvSources
<1> QED
  BY <1>1, <1>2, <1>3, <1>4, <1>5 DEF Next, Progress, Ending

-----------------------------------------------------------------------------
(* What the sitemaps declare.                                              *)
LEMMA SitemapSetFacts ==
    /\ SitemapSet \subseteq Internal  /\ IsFiniteSet(SitemapSet)  /\ Cardinality(SitemapSet) \in Nat
    /\ \A S \in SUBSET SitemapSet :
         /\ IsFiniteSet(S)  /\ Cardinality(S) \in Nat
         /\ \A T \in SUBSET S : Cardinality(T) <= Cardinality(S)
         /\ Cardinality(S) >= Cardinality(SitemapSet) => S = SitemapSet
<1>1. SitemapSet \subseteq Internal
  BY GraphAssumption DEF SitemapSet
<1>2. IsFiniteSet(SitemapSet)
  BY <1>1, GraphAssumption, FS_Subset
<1>3. ASSUME NEW S \in SUBSET SitemapSet
      PROVE  /\ IsFiniteSet(S)  /\ Cardinality(S) \in Nat
             /\ \A T \in SUBSET S : Cardinality(T) <= Cardinality(S)
             /\ Cardinality(S) >= Cardinality(SitemapSet) => S = SitemapSet
  <2>1. IsFiniteSet(S) /\ Cardinality(S) \in Nat /\ Cardinality(SitemapSet) \in Nat
    BY <1>2, FS_Subset, FS_CardinalityType
  <2>2. \A T \in SUBSET S : Cardinality(T) <= Cardinality(S)
    BY <2>1, FS_Subset
  <2>3. /\ Cardinality(S) <= Cardinality(SitemapSet)
        /\ Cardinality(S) = Cardinality(SitemapSet) => S = SitemapSet
    BY <1>2, FS_Subset
  <2> QED
    BY <2>1, <2>2, <2>3
<1> QED
  BY <1>1, <1>2, <1>3, FS_CardinalityType

LEMMA DeclaredInit == Init => InvDeclared
<1> SUFFICES ASSUME Init PROVE InvDeclared
  OBVIOUS
<1>1. inSitemap = {} /\ unsaved = <<>> /\ phase = "idle"
  BY DEF Init, Idle
<1>2. \A u \in Urls : ~rows[u].sitemap
  BY DEF Init, NoRow
<1>3. {u \in Urls : rows[u].sitemap} = {}
  BY <1>2
<1>4. Cardinality({}) <= MaxUrls
  BY FS_EmptySet, LimitsAssumption
<1>5. {} \subseteq SitemapSet
  OBVIOUS
<1> QED
  BY <1>1, <1>2, <1>3, <1>4, <1>5 DEF InvDeclared

LEMMA DeclaredStep == IInv /\ InvDeclared /\ [Next]_vars => InvDeclared'
<1> SUFFICES ASSUME IInv, InvDeclared, [Next]_vars PROVE InvDeclared'
  OBVIOUS
<1>0. TypeOK /\ MaxUrls \in Nat
  BY LimitsAssumption DEF IInv
<1>1. CASE Start
  <2>1. UNCHANGED <<rows, unsaved, inSitemap>> /\ status = "none" /\ phase = "idle"
    BY <1>1 DEF Start, writerVars, flagVars
  <2>2. unsaved' = <<>> /\ \A u \in Urls : ~Present(u)
    BY <2>1 DEF IInv, InvIdle
  <2> QED
    BY <2>1, <2>2 DEF InvDeclared, Present
<1>2. CASE Resume
  <2>1. UNCHANGED rows /\ inSitemap' = {u \in Urls : rows[u].sitemap} /\ unsaved' = <<ResendMsg>>
    BY <1>2 DEF Resume, ResendExistingRows
  <2>2. \A i \in DOMAIN unsaved' : ~unsaved'[i].row.sitemap
    BY <2>1 DEF ResendMsg, NoRow
  <2>3. {u \in Urls : rows'[u].sitemap} = inSitemap'
    BY <2>1
  <2>4. inSitemap' \subseteq SitemapSet /\ Cardinality(inSitemap') <= MaxUrls
    BY <2>1 DEF InvDeclared
  <2>5. \A u \in Urls : rows'[u].sitemap => u \in inSitemap' /\ Present(u)'
    BY <2>1 DEF InvDeclared, Present
  <2> QED
    BY <2>2, <2>3, <2>4, <2>5 DEF InvDeclared
<1>3. CASE Setup \/ Loop \/ Joins \/ Page
  <2>1. Steady /\ (Silent \/ \E m \in Message : Sends(m))
    BY <1>3, StepShape DEF Shape
  <2>2. UNCHANGED rows /\ phase # "idle" /\ inSitemap \subseteq inSitemap'
    BY <2>1 DEF Steady
  <2>3. /\ inSitemap' \subseteq SitemapSet
        /\ Cardinality(inSitemap') <= MaxUrls
    <3>1. CASE UNCHANGED inSitemap
      BY <3>1 DEF InvDeclared
    <3>2. CASE SetupSitemap
      <4>1. PICK u \in SitemapSet : inSitemap' = inSitemap \cup {u}
        <5>1. /\ next \in Nat  /\ next > Len(Seeds)  /\ next <= Len(Seeds) + Len(SitemapUrls)
              /\ inSitemap' = inSitemap \cup {SitemapUrls[next - Len(Seeds)]}
          BY <1>0, <3>2 DEF SetupSitemap, SetupStep, SetupLength, TypeOK, PhaseTypeOK
        <5>2. next - Len(Seeds) \in DOMAIN SitemapUrls
          BY <5>1, GraphAssumption
        <5> QED
          BY <5>1, <5>2 DEF SitemapSet
      <4>2. Cardinality(inSitemap) < MaxUrls /\ inSitemap \subseteq SitemapSet
        BY <3>2 DEF SetupSitemap, InvDeclared
      <4>3. IsFiniteSet(inSitemap) /\ Cardinality(inSitemap) \in Nat
        BY <4>2, SitemapSetFacts
      <4>4. Cardinality(inSitemap \cup {u}) \in {Cardinality(inSitemap), Cardinality(inSitemap) + 1}
        <5>1. CASE u \in inSitemap
          <6>1. inSitemap \cup {u} = inSitemap
            BY <5>1
          <6> QED
            BY <6>1
        <5>2. CASE u \notin inSitemap
          BY <4>3, <5>2, FS_AddElement
        <5> QED
          BY <5>1, <5>2
      <4> QED
        BY <1>0, <4>1, <4>2, <4>3, <4>4
    <3> QED
      BY <1>3, <3>1, <3>2, SitemapShape
  <2>4. \A i \in DOMAIN unsaved' : unsaved'[i].row.sitemap => unsaved'[i].url \in inSitemap'
    <3>1. CASE UNCHANGED unsaved
      BY <2>2, <3>1 DEF InvDeclared
    <3>2. CASE \E m \in Message : Sends(m)
      <4>1. PICK m \in Message : Sends(m)
        BY <3>2
      <4>2. /\ \A i \in DOMAIN unsaved : unsaved'[i] = unsaved[i]
            /\ unsaved'[Len(unsaved) + 1] = m
            /\ \A i \in DOMAIN unsaved' : i \in DOMAIN unsaved \/ i = Len(unsaved) + 1
        BY <1>0, <4>1, SendShape DEF Sends
      <4>3. m.row.sitemap => m.url \in inSitemap'
        BY <4>1 DEF Sends
      <4> QED
        BY <2>2, <4>2, <4>3 DEF InvDeclared
    <3> QED
      BY <2>1, <3>1, <3>2 DEF Silent
  <2>5. \A u \in Urls : rows'[u].sitemap => u \in inSitemap' /\ Present(u)'
    BY <2>2 DEF InvDeclared, Present
  <2> QED
    BY <2>2, <2>3, <2>4, <2>5 DEF InvDeclared
<1>4. CASE Commit
  <2>1. /\ UNCHANGED <<inSitemap, phase>> /\ 1 \in DOMAIN unsaved
        /\ \A i \in DOMAIN unsaved' : i + 1 \in DOMAIN unsaved /\ unsaved'[i] = unsaved[i + 1]
        /\ \A u \in Urls :
             \/ rows'[u] = rows[u]
             \/ /\ unsaved[1].url = u  /\ unsaved[1].kind # "resend"
                /\ rows'[u].state = unsaved[1].row.state
                /\ rows'[u].sitemap <=> (rows[u].sitemap \/ unsaved[1].row.sitemap)
    BY <1>0, <1>4, CommitShape DEF memVars, flagVars
  <2>2. phase # "idle"
    BY <1>4 DEF Commit, IInv, InvIdle
  <2>3. unsaved[1].kind # "resend" => unsaved[1].row.state # "absent"
    BY <2>1 DEF IInv, InvMessages, TypeOK, WriterTypeOK, Message, ResendMsg
  <2>4. \A u \in Urls : rows'[u].sitemap => u \in inSitemap /\ Present(u)'
    BY <2>1, <2>2, <2>3 DEF InvDeclared, Present
  <2>5. \A i \in DOMAIN unsaved' : unsaved'[i].row.sitemap => unsaved'[i].url \in inSitemap
    BY <2>1, <2>2 DEF InvDeclared
  <2>6. {u \in Urls : rows'[u].sitemap} \subseteq inSitemap /\ inSitemap \subseteq SitemapSet
    BY <2>4 DEF InvDeclared
  <2>7. Cardinality({u \in Urls : rows'[u].sitemap}) <= Cardinality(inSitemap)
    BY <2>6, SitemapSetFacts
  <2>8. Cardinality(inSitemap) <= MaxUrls /\ Cardinality(inSitemap) \in Nat /\ Cardinality({u \in Urls : rows'[u].sitemap}) \in Nat
    BY <2>6, SitemapSetFacts DEF InvDeclared
  <2>9. Cardinality({u \in Urls : rows'[u].sitemap}) <= MaxUrls
    BY <1>0, <2>7, <2>8
  <2> QED
    BY <2>1, <2>4, <2>5, <2>6, <2>8, <2>9 DEF InvDeclared
<1>5. CASE Pause \/ FinalizeCancelled \/ FinalizeDone \/ Crash
  <2>1. UNCHANGED rows /\ phase' = "idle" /\ inSitemap' = {}
    BY <1>5, EndShape DEF EndSession
  <2>2. Cardinality(inSitemap') <= MaxUrls
    BY <1>0, <2>1, FS_EmptySet
  <2> QED
    BY <2>1, <2>2 DEF InvDeclared, Present
<1>6. CASE Finalize \/ EvaluateRule \/ RequestCancel \/ DeadlinePasses \/ Over \/ UNCHANGED vars
  <2>1. UNCHANGED <<rows, unsaved, inSitemap>> /\ (phase' # "idle" => phase # "idle")
    BY <1>6, QuietShape DEF Finalize, EvaluateRule, fileVars, writerVars, memVars, flagVars
  <2> QED
    BY <2>1 DEF InvDeclared, Present
<1> QED
  BY <1>1, <1>2, <1>3, <1>4, <1>5, <1>6 DEF Next, Progress, Ending

-----------------------------------------------------------------------------
(* What was fetched says that a sitemap declares it.                       *)
LEMMA FlagsInit == Init => InvFlags
<1> SUFFICES ASSUME Init PROVE InvFlags
  OBVIOUS
<1>1. phase = "idle" /\ unsaved = <<>> /\ DOMAIN unsaved = {}
  BY DEF Init, Idle
<1>2. \A u \in Urls : rows[u].state = "absent"
  BY DEF Init, NoRow
<1>3. SitemapSet \subseteq Urls
  BY SitemapSetFacts, GraphAssumption
<1> QED
  BY <1>1, <1>2, <1>3 DEF InvFlags

(* The part of it about the session: which URLs the sitemaps gave it.      *)
Supplied ==
    /\ phase = "setup" =>
         \/ interrupted \/ expired
         \/ \A i \in DOMAIN SitemapUrls : i + Len(Seeds) < next => SitemapUrls[i] \in inSitemap
    /\ phase \notin {"idle", "setup"} => interrupted \/ expired \/ inSitemap = SitemapSet
    /\ phase \in {"fill", "page"} => inSitemap = SitemapSet

LEMMA SuppliedStep ==
    ASSUME IInv, InvSources, InvDeclared, InvDeclared', SitemapsFit, Supplied, [Next]_vars
    PROVE  Supplied'
<1>0. /\ Len(Seeds) \in Nat  /\ Len(SitemapUrls) \in Nat
      /\ DOMAIN Seeds = 1..Len(Seeds)  /\ DOMAIN SitemapUrls = 1..Len(SitemapUrls)
  BY GraphAssumption
<1>1. CASE Start \/ Resume
  <2>1. phase = "idle" /\ phase' = "setup" /\ next' = next
    BY <1>1 DEF Start, Resume, pageVars
  <2>2. next' = 1
    BY <2>1 DEF InvSources
  <2>3. \A i \in DOMAIN SitemapUrls : ~(i + Len(Seeds) < next')
    BY <1>0, <2>2
  <2> QED
    BY <2>1, <2>3 DEF Supplied
<1>2. CASE Setup
  <2>1. Steady
    BY <1>2, StepShape DEF Shape
  <2>2. /\ phase = "setup" /\ next \in Nat \ {0}
        /\ inSitemap \subseteq inSitemap' /\ (interrupted => interrupted') /\ expired' = expired
    BY <1>2, <2>1, SetupPosition DEF Steady
  <2>3. CASE interrupted' \/ expired'
    <3>1. phase' \in {"setup", "top"}
      BY <1>2, SetupPosition
    <3> QED
      BY <2>3, <3>1 DEF Supplied
  <2>4. CASE ~interrupted' /\ ~expired'
    <3>1. \A i \in DOMAIN SitemapUrls : i + Len(Seeds) < next => SitemapUrls[i] \in inSitemap'
      BY <2>2, <2>4 DEF Supplied
    <3>2. CASE phase' = "setup" /\ next' = next + 1 /\ next <= Len(Seeds)
      <4>1. \A i \in DOMAIN SitemapUrls : ~(i + Len(Seeds) < next')
        BY <1>0, <2>2, <3>2
      <4> QED
        BY <3>2, <4>1 DEF Supplied
    <3>3. CASE /\ phase' = "setup"  /\ next' = next + 1
               /\ SitemapUrls[next - Len(Seeds)] \in seen' \cap inSitemap'
      <4>1. \A i \in DOMAIN SitemapUrls : i + Len(Seeds) < next' =>
              i + Len(Seeds) < next \/ i = next - Len(Seeds)
        BY <1>0, <2>2, <3>3
      <4>2. \A i \in DOMAIN SitemapUrls : i + Len(Seeds) < next' => SitemapUrls[i] \in inSitemap'
        BY <3>1, <3>3, <4>1
      <4> QED
        BY <3>3, <4>2 DEF Supplied
    <3>4. CASE (SitemapsOverBudget \/ SitemapsCut) /\ phase' = "setup"
      <4>1. SitemapsOverBudget
        BY <2>2, <2>4, <3>4 DEF SitemapsCut
      <4>2. Cardinality(inSitemap) >= MaxUrls /\ UNCHANGED inSitemap
        BY <4>1 DEF SitemapsOverBudget, SkipSitemaps
      <4>3. inSitemap \subseteq SitemapSet
        BY DEF InvDeclared
      <4>4. Cardinality(inSitemap) \in Nat /\ Cardinality(SitemapSet) \in Nat /\ MaxUrls \in Nat
        BY <4>3, SitemapSetFacts, LimitsAssumption
      <4>5. Cardinality(inSitemap) >= Cardinality(SitemapSet)
        BY <4>2, <4>4 DEF SitemapsFit
      <4>6. inSitemap' = SitemapSet
        BY <4>2, <4>3, <4>5, SitemapSetFacts
      <4>7. \A i \in DOMAIN SitemapUrls : SitemapUrls[i] \in inSitemap'
        BY <4>6 DEF SitemapSet
      <4> QED
        BY <3>4, <4>7 DEF Supplied
    <3>5. CASE phase' = "setup" /\ next' = next
      BY <3>1, <3>5 DEF Supplied
    <3>6. CASE phase' = "top" /\ next > SetupLength
      <4>1. \A i \in DOMAIN SitemapUrls : SitemapUrls[i] \in inSitemap'
        BY <1>0, <2>2, <3>1, <3>6 DEF SetupLength
      <4>2. inSitemap' = SitemapSet
        BY <4>1 DEF SitemapSet, InvDeclared
      <4> QED
        BY <3>6, <4>2 DEF Supplied
    <3> QED
      BY <1>2, <3>2, <3>3, <3>4, <3>5, <3>6, SetupPosition
  <2> QED
    BY <2>3, <2>4
<1>3. CASE Loop \/ Joins \/ Page
  <2>1. Steady
    BY <1>3, StepShape DEF Shape
  <2>2. /\ phase \notin {"idle", "setup"} /\ phase' \notin {"idle", "setup"}
        /\ phase' \in {"fill", "page"} => phase \in {"fill", "page"} \/ (~interrupted /\ ~expired)
    BY <1>3, PhaseShape
  <2>3. inSitemap \subseteq inSitemap' /\ (interrupted => interrupted') /\ expired' = expired
    BY <2>1 DEF Steady
  <2>4. inSitemap = SitemapSet => inSitemap' = SitemapSet
    BY <2>3 DEF InvDeclared
  <2> QED
    BY <2>2, <2>3, <2>4 DEF Supplied
<1>4. CASE Pause \/ FinalizeCancelled \/ FinalizeDone \/ Crash
  <2>1. phase' = "idle"
    BY <1>4, EndShape DEF EndSession
  <2> QED
    BY <2>1 DEF Supplied
<1>5. CASE Commit \/ Finalize \/ EvaluateRule \/ RequestCancel \/ DeadlinePasses \/ Over \/ UNCHANGED vars
  <2>1. /\ UNCHANGED <<next, inSitemap, interrupted>>
        /\ phase' = phase \/ (phase \notin {"idle", "setup"} /\ phase' = "final")
    BY <1>5, QuietShape DEF Commit, Finalize, EvaluateRule, fileVars, writerVars, memVars, pageVars, frontVars, flagVars
  <2>2. expired => expired'
    BY <1>5 DEF Commit, Finalize, EvaluateRule, RequestCancel, DeadlinePasses, Over, vars, envVars
  <2> QED
    BY <2>1, <2>2 DEF Supplied
<1> QED
  BY <1>1, <1>2, <1>3, <1>4, <1>5 DEF Next, Progress, Ending

LEMMA FlagsStep2 == IInv /\ InvSources /\ InvDeclared /\ InvDeclared' /\ InvFlags /\ [Next]_vars => InvFlags'
<1> SUFFICES ASSUME IInv, InvSources, InvDeclared, InvDeclared', InvFlags, [Next]_vars, SitemapsFit PROVE InvFlags'
  BY DEF InvFlags
<1>0. TypeOK /\ Supplied
  BY DEF IInv, InvFlags, Supplied
<1>1. Supplied'
  BY <1>0, SuppliedStep
<1>2. /\ \A u \in SitemapSet : rows[u].state \in {"done", "error"} => rows[u].sitemap
      /\ \A i \in DOMAIN unsaved :
           unsaved[i].url \in SitemapSet /\ unsaved[i].row.state \in {"done", "error"} => unsaved[i].row.sitemap
  BY DEF InvFlags
<1>3. SitemapSet \subseteq Urls
  BY SitemapSetFacts, GraphAssumption
<1>4. /\ \A u \in SitemapSet : rows'[u].state \in {"done", "error"} => rows'[u].sitemap
      /\ \A i \in DOMAIN unsaved' :
           unsaved'[i].url \in SitemapSet /\ unsaved'[i].row.state \in {"done", "error"} => unsaved'[i].row.sitemap
  <2>1. CASE Setup \/ Loop \/ Joins \/ Page
    <3>1. Steady /\ (Silent \/ \E m \in Message : Sends(m))
      BY <2>1, StepShape DEF Shape
    <3>2. UNCHANGED rows
      BY <3>1 DEF Steady
    <3>3. CASE UNCHANGED unsaved
      BY <1>2, <3>2, <3>3
    <3>4. ASSUME NEW m \in Message, Sends(m)
          PROVE  \A i \in DOMAIN unsaved' :
                   unsaved'[i].url \in SitemapSet /\ unsaved'[i].row.state \in {"done", "error"} => unsaved'[i].row.sitemap
      <4>1. /\ \A i \in DOMAIN unsaved : unsaved'[i] = unsaved[i]
            /\ unsaved'[Len(unsaved) + 1] = m
            /\ \A i \in DOMAIN unsaved' : i \in DOMAIN unsaved \/ i = Len(unsaved) + 1
        BY <1>0, <3>4, SendShape DEF Sends
      <4>2. m.row.state \in {"done", "error"} => phase \in {"fill", "page"} /\ (m.row.sitemap <=> m.url \in inSitemap)
        BY <3>4 DEF Sends
      <4>3. m.url \in SitemapSet /\ m.row.state \in {"done", "error"} => m.row.sitemap
        BY <1>0, <4>2 DEF Supplied
      <4> QED
        BY <1>2, <4>1, <4>3
    <3> QED
      BY <1>2, <3>1, <3>2, <3>3, <3>4 DEF Silent
  <2>2. CASE Commit
    <3>1. /\ 1 \in DOMAIN unsaved
          /\ \A i \in DOMAIN unsaved' : i + 1 \in DOMAIN unsaved /\ unsaved'[i] = unsaved[i + 1]
          /\ \A u \in Urls :
               \/ rows'[u] = rows[u]
               \/ /\ unsaved[1].url = u
                  /\ rows'[u].state = unsaved[1].row.state
                  /\ rows'[u].sitemap <=> (rows[u].sitemap \/ unsaved[1].row.sitemap)
      BY <1>0, <2>2, CommitShape
    <3>2. ASSUME NEW u \in SitemapSet, rows'[u].state \in {"done", "error"} PROVE rows'[u].sitemap
      BY <1>2, <1>3, <3>1, <3>2
    <3> QED
      BY <1>2, <3>1, <3>2
  <2>3. CASE Start \/ Finalize \/ EvaluateRule \/ RequestCancel \/ DeadlinePasses \/ Over \/ UNCHANGED vars
    <3>1. UNCHANGED <<rows, unsaved>>
      BY <2>3, QuietShape DEF Start, Finalize, EvaluateRule, fileVars, writerVars
    <3> QED
      BY <1>2, <3>1
  <2>4. CASE Resume
    <3>1. UNCHANGED rows /\ unsaved' = <<ResendMsg>>
      BY <2>4 DEF Resume, ResendExistingRows
    <3>2. \A i \in DOMAIN unsaved' : unsaved'[i].url \notin Urls
      BY <3>1, GraphAssumption DEF ResendMsg
    <3> QED
      BY <1>2, <1>3, <3>1, <3>2
  <2>5. CASE Pause \/ FinalizeCancelled \/ FinalizeDone \/ Crash
    <3>1. UNCHANGED rows /\ unsaved' = <<>>
      BY <2>5, EndShape DEF EndSession
    <3> QED
      BY <1>2, <3>1
  <2> QED
    BY <2>1, <2>2, <2>3, <2>4, <2>5 DEF Next, Progress, Ending
<1> QED
  BY <1>1, <1>4 DEF InvFlags, Supplied

-----------------------------------------------------------------------------
(* The file that says it is finished.                                      *)
LEMMA WholeInit == Init => InvWhole
BY DEF Init, InvWhole

LEMMA WholeStep ==
    IInv /\ InvIssues /\ InvPlan /\ InvSources /\ InvDeclared /\ InvWhole /\ [Next]_vars => InvWhole'
<1> SUFFICES ASSUME IInv, InvIssues, InvPlan, InvSources, InvDeclared, InvWhole, [Next]_vars PROVE InvWhole'
  OBVIOUS
<1>1. CASE FinalizeDone
  <2>1. phase = "final" /\ truncReason' = truncated /\ UNCHANGED rows
    BY <1>1 DEF FinalizeDone
  <2>2. ~interrupted /\ unsaved = <<>>
    BY <2>1 DEF InvIssues
  <2>3. SUFFICES ASSUME truncated = "none" PROVE InvWhole'
    BY <2>1, <2>3 DEF InvWhole
  <2>4. ~Cut
    BY <2>2, <2>3 DEF Cut
  <2>5. ASSUME ~MayPanic PROVE Pending' = {}
    <3>1. ASSUME NEW u \in Urls, rows[u].state = "pending" PROVE FALSE
      <4>1. u \in Live \/ Settling(u)
        BY <2>1, <2>4, <2>5, <3>1 DEF InvPlan, Planned
      <4>2. Live = {}
        BY <2>1, <2>4 DEF InvPlan
      <4>3. ~Settling(u)
        BY <2>2 DEF Settling
      <4> QED
        BY <4>1, <4>2, <4>3
    <3> QED
      BY <2>1, <3>1 DEF Pending
  <2>6. SeedSet \subseteq seen /\ SitemapSet \subseteq seen \cap inSitemap
    BY <2>1, <2>4 DEF InvSources
  <2>7. SeedSet \cup SitemapSet \subseteq Internal
    BY SitemapSetFacts, GraphAssumption DEF SeedSet
  <2>8. \A u \in SeedSet \cup SitemapSet : Known(u)
    BY <2>6, <2>7 DEF IInv, InvSeen
  <2>9. \A u \in SeedSet \cup SitemapSet : Present(u)'
    BY <2>1, <2>2, <2>8 DEF Known, Present
  <2>10. SitemapsFit
    <3>1. SitemapSet \subseteq inSitemap /\ inSitemap \subseteq SitemapSet /\ Cardinality(inSitemap) <= MaxUrls
      BY <2>6 DEF InvDeclared
    <3>2. inSitemap = SitemapSet
      BY <3>1
    <3> QED
      BY <3>1, <3>2 DEF SitemapsFit
  <2> QED
    BY <2>5, <2>9, <2>10 DEF InvWhole
<1>2. CASE Setup \/ Loop \/ Joins \/ Page
  <2>1. phase # "idle" /\ status' = status
    BY <1>2, StepShape DEF Shape, Steady
  <2> QED
    BY <2>1 DEF InvIssues, InvWhole
<1>3. CASE Start \/ Resume \/ Pause \/ FinalizeCancelled \/ Finalize \/ EvaluateRule \/ Commit \/ RequestCancel \/ DeadlinePasses \/ Crash
  <2>1. status' # "done"
    BY <1>3 DEF InvIssues, Start, Resume, Pause, FinalizeCancelled, Finalize, EvaluateRule, Commit,
       RequestCancel, DeadlinePasses, Crash, fileVars, IInv, InvIdle
  <2> QED
    BY <2>1 DEF InvWhole
<1>4. CASE Over \/ UNCHANGED vars
  <2>1. UNCHANGED <<status, truncReason, rows>>
    BY <1>4, QuietShape DEF fileVars
  <2> QED
    BY <2>1 DEF InvWhole, Pending, Present
<1> QED
  BY <1>1, <1>2, <1>3, <1>4 DEF Next, Progress, Ending

(* The invariant of a crawl that ends, however many times it was resumed.  *)
LEMMA Completion == Spec => []CompletionInv
<1>1. Init => CompletionInv
  BY IssuesInit, PlanInit, SourcesInit, DeclaredInit, FlagsInit, WholeInit DEF CompletionInv
<1>2. IInv /\ IInv' /\ CompletionInv /\ [Next]_vars => CompletionInv'
  BY IssuesStep, PlanStep, SourcesStep, DeclaredStep, FlagsStep2, WholeStep DEF CompletionInv
<1> QED
  BY <1>1, <1>2, Inductive, PTL DEF Spec

(* A finished file has each rule's findings once and, if it tells of no    *)
(* cut, the whole site, for any site, limits, crashes, cancels and number  *)
(* of sessions (engine.rs, finalize), as long as no task panics: a task    *)
(* that dies leaves its page pending and the loop records no cut for it.   *)
THEOREM FinishedIsComplete == ASSUME ~MayPanic PROVE Spec => []DoneIsComplete
<1>1. CompletionInv => DoneIsComplete
  <2> SUFFICES ASSUME CompletionInv, status = "done" PROVE DoneIsComplete
    BY DEF DoneIsComplete
  <2> USE DEF CompletionInv
  <2>1. \A r \in 1..NRules : siteIssues[r] = IF truncReason # "none" /\ r \in FullGraphRules THEN 0 ELSE 1
    BY DEF InvIssues, Told
  <2>2. ASSUME truncReason = "none"
        PROVE  /\ Pending = {}
               /\ \A i \in DOMAIN Seeds : Present(Seeds[i])
               /\ \A i \in DOMAIN SitemapUrls :
                    /\ Present(SitemapUrls[i])
                    /\ rows[SitemapUrls[i]].state \in {"done", "error"} => rows[SitemapUrls[i]].sitemap
    <3>1. Pending = {} /\ SitemapsFit /\ \A u \in SeedSet \cup SitemapSet : Present(u)
      BY <2>2 DEF InvWhole
    <3>2. \A u \in SitemapSet : rows[u].state \in {"done", "error"} => rows[u].sitemap
      BY <3>1 DEF InvFlags
    <3> QED
      BY <3>1, <3>2 DEF SeedSet, SitemapSet
  <2> QED
    BY <2>1, <2>2 DEF DoneIsComplete
<1> QED
  BY <1>1, Completion, PTL

-----------------------------------------------------------------------------
(* Counting.  The pages crawled and the pages known are subsets of a       *)
(* finite set.                                                             *)
LEMMA UrlCounts ==
    /\ Cardinality(Urls) \in Nat  /\ Internal \subseteq Urls
    /\ \A S \in SUBSET Urls :
         /\ IsFiniteSet(S)  /\ Cardinality(S) \in Nat  /\ Cardinality(S) <= Cardinality(Urls)
         /\ \A T \in SUBSET S : Cardinality(T) <= Cardinality(S)
         /\ \A u \in Urls \ S : Cardinality(S \cup {u}) = Cardinality(S) + 1
<1>1. Cardinality(Urls) \in Nat
  BY GraphAssumption, FS_CardinalityType
<1>2. ASSUME NEW S \in SUBSET Urls
      PROVE  /\ IsFiniteSet(S)  /\ Cardinality(S) \in Nat  /\ Cardinality(S) <= Cardinality(Urls)
             /\ \A T \in SUBSET S : Cardinality(T) <= Cardinality(S)
             /\ \A u \in Urls \ S : Cardinality(S \cup {u}) = Cardinality(S) + 1
  <2>1. IsFiniteSet(S) /\ Cardinality(S) <= Cardinality(Urls)
    BY <1>2, GraphAssumption, FS_Subset
  <2>2. Cardinality(S) \in Nat
    BY <2>1, FS_CardinalityType
  <2>3. \A T \in SUBSET S : Cardinality(T) <= Cardinality(S)
    BY <2>1, FS_Subset
  <2>4. \A u \in Urls \ S : Cardinality(S \cup {u}) = Cardinality(S) + 1
    BY <2>1, FS_AddElement
  <2> QED
    BY <2>1, <2>2, <2>3, <2>4
<1> QED
  BY <1>1, <1>2, GraphAssumption

(* The pages crawled, when nothing or little changes.                      *)
LEMMA CrawledSame ==
    ASSUME UNCHANGED <<rows, unsaved, cur>>
    PROVE  Crawled' = Crawled
BY DEF Crawled, IsCrawled

(* A step of the loop counts each page it takes up, and loses none.        *)
LEMMA CrawledStep ==
    ASSUME IInv, Shape, InvCounts
    PROVE  already' + fetched' = Cardinality(Crawled')
<1> USE DEF IInv
<1>1. /\ phase # "idle" /\ UNCHANGED <<rows, already>>
      /\ already + fetched = Cardinality(Crawled)
      /\ already \in Nat /\ fetched \in Nat
  BY DEF Shape, Steady, InvCounts, TypeOK, CountersTypeOK
<1>2. CASE UNCHANGED <<unsaved, fetched, cur>>
  BY <1>1, <1>2, CrawledSame
<1>3. CASE /\ UNCHANGED unsaved
           /\ fetched' = fetched + 1 /\ cur = NoUrl /\ cur' \in inFlight
  <2>1. cur' \in Urls /\ Unsettled(cur')
    BY <1>3 DEF TypeOK, FrontierTypeOK, NoRefetch, Live
  <2>2. \A i \in DOMAIN unsaved : unsaved[i].kind = "page" => unsaved[i].row.state = "done"
    BY DEF InvMessages
  <2>3. cur' \notin Crawled
    BY <1>3, <2>1, <2>2, GraphAssumption DEF Crawled, IsCrawled, Unsettled
  <2>4. Crawled' = Crawled \cup {cur'}
    BY <1>1, <1>3, <2>1, GraphAssumption DEF Crawled, IsCrawled
  <2>5. Cardinality(Crawled \cup {cur'}) = Cardinality(Crawled) + 1
    BY <2>1, <2>3, UrlCounts DEF Crawled
  <2> QED
    BY <1>1, <1>3, <2>4, <2>5
<1>4. ASSUME NEW m \in Message, Sends(m) PROVE already' + fetched' = Cardinality(Crawled')
  <2>1. fetched' = fetched
    BY <1>4 DEF Sends
  <2>2. /\ \A i \in DOMAIN unsaved : i \in DOMAIN unsaved' /\ unsaved'[i] = unsaved[i]
        /\ Len(unsaved) + 1 \in DOMAIN unsaved' /\ unsaved'[Len(unsaved) + 1] = m
        /\ \A i \in DOMAIN unsaved' : i \in DOMAIN unsaved \/ i = Len(unsaved) + 1
    BY <1>4, SendShape DEF Sends
  <2>3. \A u \in Urls : IsCrawled(u)' <=> IsCrawled(u)
    <3>1. CASE m.kind = "row" /\ cur' = cur
      BY <1>1, <2>2, <3>1 DEF IsCrawled
    <3>2. CASE m.kind = "page" /\ m.url = cur /\ cur' = NoUrl
      BY <1>1, <2>2, <3>2, GraphAssumption DEF IsCrawled
    <3> QED
      BY <1>4, <3>1, <3>2 DEF Sends
  <2>4. Crawled' = Crawled
    BY <2>3 DEF Crawled
  <2> QED
    BY <1>1, <2>1, <2>4
<1> QED
  BY <1>2, <1>3, <1>4 DEF Shape, Silent, Counted

(* Saving a page does not change how many were crawled.                    *)
LEMMA CrawledCommit ==
    ASSUME IInv, Commit
    PROVE  Crawled' = Crawled
<1> USE DEF IInv
<1>1. /\ UNCHANGED <<cur>>
      /\ 1 \in DOMAIN unsaved
      /\ \A i \in DOMAIN unsaved' : i + 1 \in DOMAIN unsaved /\ unsaved'[i] = unsaved[i + 1]
      /\ \A j \in DOMAIN unsaved : j # 1 => j - 1 \in DOMAIN unsaved' /\ unsaved'[j - 1] = unsaved[j]
      /\ \A u \in Urls :
           \/ rows'[u] = rows[u] /\ (unsaved[1].url # u \/ unsaved[1].kind = "resend")
           \/ /\ unsaved[1].url = u  /\ unsaved[1].kind # "resend"
              /\ rows'[u].state = unsaved[1].row.state
  BY CommitShape DEF memVars, pageVars
<1>2. /\ unsaved[1].kind = "page" => unsaved[1].row.state = "done"
      /\ unsaved[1].kind = "row" => unsaved[1].row.state # "done"
      /\ unsaved[1].kind # "resend" => rows[unsaved[1].url].state # "done"
  BY <1>1 DEF InvMessages
<1>3. unsaved[1].kind \in {"row", "page", "resend"}
  BY <1>1, MessageTypes DEF TypeOK, WriterTypeOK
<1>4. ASSUME NEW u \in Urls PROVE IsCrawled(u)' <=> IsCrawled(u)
  <2>1. CASE unsaved[1].kind = "page" /\ unsaved[1].url = u
    BY <1>1, <1>2, <2>1 DEF IsCrawled
  <2>2. CASE ~(unsaved[1].kind = "page" /\ unsaved[1].url = u)
    <3>1. rows'[u].state = "done" <=> rows[u].state = "done"
      BY <1>1, <1>2, <1>3, <2>2
    <3>2. (\E i \in DOMAIN unsaved' : unsaved'[i].kind = "page" /\ unsaved'[i].url = u)
            <=> (\E i \in DOMAIN unsaved : unsaved[i].kind = "page" /\ unsaved[i].url = u)
      BY <1>1, <2>2
    <3> QED
      BY <1>1, <3>1, <3>2 DEF IsCrawled
  <2> QED
    BY <2>1, <2>2
<1> QED
  BY <1>4 DEF Crawled

(* Depths.  A step of the loop finds a page at most a click below one that *)
(* is known, and knows one page more.                                      *)
LEMMA DepthLive ==
    ASSUME IInv, Shape, InvCounts
    PROVE  \A u \in Live' : depth'[u] < Cardinality(seen' \cap Internal)
<1> USE DEF IInv
<1> DEFINE K == seen \cap Internal
           L == seen' \cap Internal
<1>1. K \subseteq L /\ L \subseteq Urls
  BY UrlCounts DEF Shape, Steady
<1>2. Cardinality(K) \in Nat /\ Cardinality(L) \in Nat /\ Cardinality(K) <= Cardinality(L)
  BY <1>1, UrlCounts
<1>3. \A u \in Live : u \in Urls /\ depth[u] \in Nat /\ depth[u] < Cardinality(K)
  BY DEF InvCounts, Shape, Steady, Live, TypeOK, FrontierTypeOK, PhaseTypeOK
<1> SUFFICES ASSUME NEW u \in Live' PROVE depth'[u] < Cardinality(L)
  OBVIOUS
<1> HIDE DEF K, L
<1>4. CASE DepthKept(u)
  BY <1>2, <1>3, <1>4 DEF DepthKept
<1>5. CASE DepthNew(u)
  <2>1. u \in L /\ u \notin K /\ u \in Urls
    BY <1>1, <1>5 DEF DepthNew, K, L
  <2>2. K \cup {u} \in SUBSET L /\ K \in SUBSET Urls /\ L \in SUBSET Urls
    BY <1>1, <2>1
  <2>3. Cardinality(K \cup {u}) = Cardinality(K) + 1 /\ Cardinality(K \cup {u}) <= Cardinality(L)
    BY <2>1, <2>2, UrlCounts
  <2>4. Cardinality(K) + 1 <= Cardinality(L)
    BY <2>3
  <2>5. CASE depth'[u] = 0
    BY <1>2, <2>4, <2>5
  <2>6. CASE phase = "page" /\ depth'[u] \in {depth[cur], depth[cur] + 1}
    <3>1. cur \in Live
      BY <2>6 DEF Live, TypeOK, PhaseTypeOK
    <3>2. depth[cur] \in Nat /\ depth[cur] < Cardinality(K)
      BY <1>3, <3>1
    <3> QED
      BY <1>2, <2>4, <2>6, <3>2
  <2> QED
    BY <1>5, <2>5, <2>6 DEF DepthNew
<1> QED
  BY <1>4, <1>5 DEF Shape, Worked

(* The same of the messages: what is known after a message is known when   *)
(* the next one is sent.                                                   *)
LEMMA DepthSent ==
    ASSUME IInv, IInv', Shape, InvCounts
    PROVE  \A i \in DOMAIN unsaved' :
             unsaved'[i].row.state = "pending" => unsaved'[i].row.depth < Cardinality(PagesAfter(i)')
<1> USE DEF IInv
<1>1. UNCHANGED rows
  BY DEF Shape, Steady
<1>2. CASE UNCHANGED unsaved
  <2>1. \A i \in DOMAIN unsaved : PagesAfter(i)' = PagesAfter(i)
    BY <1>1, <1>2 DEF PagesAfter, Present
  <2> QED
    BY <1>2, <2>1 DEF InvCounts
<1>3. ASSUME NEW m \in Message, Sends(m)
      PROVE  \A i \in DOMAIN unsaved' :
               unsaved'[i].row.state = "pending" => unsaved'[i].row.depth < Cardinality(PagesAfter(i)')
  <2>1. /\ Len(unsaved) \in Nat /\ DOMAIN unsaved = 1..Len(unsaved) /\ DOMAIN unsaved' = 1..(Len(unsaved) + 1)
        /\ \A i \in DOMAIN unsaved : i \in DOMAIN unsaved' /\ unsaved'[i] = unsaved[i]
        /\ unsaved'[Len(unsaved) + 1] = m
    BY <1>3, SendShape DEF Sends
  <2>2. ASSUME NEW i \in DOMAIN unsaved PROVE PagesAfter(i)' = PagesAfter(i)
    <3>1. \A j \in 1..i : unsaved'[j] = unsaved[j]
      BY <2>1
    <3> QED
      BY <1>1, <3>1 DEF PagesAfter, Present
  <2>3. ASSUME NEW n \in DOMAIN unsaved', n = Len(unsaved) + 1, m.row.state = "pending"
        PROVE  m.row.depth < Cardinality(PagesAfter(n)')
    <3>1. m.url \in Live' /\ m.row.depth = depth'[m.url]
      BY <1>3, <2>3 DEF Sends
    <3>2. m.row.depth < Cardinality(seen' \cap Internal) /\ m.row.depth \in Nat
      BY <3>1, DepthLive DEF Live, TypeOK, FrontierTypeOK, PhaseTypeOK
    <3>3. \A v \in seen' \cap Internal : Known(v)'
      BY DEF InvSeen
    <3>4. seen' \cap Internal \subseteq PagesAfter(n)'
      BY <2>1, <2>3, <3>3 DEF Known, PagesAfter
    <3>5. PagesAfter(n)' \in SUBSET Urls
      BY UrlCounts DEF PagesAfter
    <3>6. /\ Cardinality(seen' \cap Internal) <= Cardinality(PagesAfter(n)')
          /\ Cardinality(seen' \cap Internal) \in Nat /\ Cardinality(PagesAfter(n)') \in Nat
      BY <3>4, <3>5, UrlCounts
    <3> QED
      BY <3>2, <3>6
  <2>4. \A i \in DOMAIN unsaved : unsaved'[i].row.state = "pending" => unsaved'[i].row.depth < Cardinality(PagesAfter(i)')
    BY <2>1, <2>2 DEF InvCounts
  <2>5. \A i \in DOMAIN unsaved' : i \in DOMAIN unsaved \/ i = Len(unsaved) + 1
    BY <2>1
  <2> QED
    BY <2>1, <2>3, <2>4, <2>5
<1> QED
  BY <1>2, <1>3 DEF Shape, Silent

(* And of the writer: what it commits was known before the messages that   *)
(* follow, and stays so.                                                   *)
LEMMA DepthCommit ==
    ASSUME IInv, Commit, InvCounts
    PROVE  /\ \A i \in DOMAIN unsaved' :
                unsaved'[i].row.state = "pending" => unsaved'[i].row.depth < Cardinality(PagesAfter(i)')
           /\ \A u \in Pending' : rows'[u].depth < Cardinality(PagesOnDisk')
<1> USE DEF IInv
<1>1. /\ 1 \in DOMAIN unsaved /\ DOMAIN unsaved = 1..Len(unsaved) /\ Len(unsaved) \in Nat \ {0}
      /\ DOMAIN unsaved' = 1..(Len(unsaved) - 1)
      /\ \A i \in DOMAIN unsaved' : i + 1 \in DOMAIN unsaved /\ unsaved'[i] = unsaved[i + 1]
      /\ \A j \in DOMAIN unsaved : j # 1 => j - 1 \in DOMAIN unsaved' /\ unsaved'[j - 1] = unsaved[j]
      /\ \A u \in Urls :
           \/ rows'[u] = rows[u] /\ (unsaved[1].url # u \/ unsaved[1].kind = "resend")
           \/ /\ unsaved[1].url = u  /\ unsaved[1].kind # "resend"
              /\ rows'[u].state = unsaved[1].row.state
              /\ rows'[u].depth = unsaved[1].row.depth
  BY CommitShape
<1>2. /\ unsaved[1].kind = "page" => unsaved[1].row.state = "done"
      /\ unsaved[1].kind = "row" => unsaved[1].row.state \notin {"absent", "done"}
  BY <1>1 DEF InvMessages
<1>3. /\ unsaved[1].kind \in {"row", "page", "resend"}
      /\ unsaved[1].kind = "resend" => unsaved[1].url \notin Urls
  BY <1>1, MessageTypes, GraphAssumption DEF TypeOK, WriterTypeOK, Message, ResendMsg
<1>4. \A v \in Urls : /\ Present(v) => Present(v)'
                      /\ v = unsaved[1].url => Present(v)'
  BY <1>1, <1>2, <1>3 DEF Present
<1>5. ASSUME NEW S, NEW T, S \subseteq T, T \subseteq Urls, NEW n \in Nat, n < Cardinality(S)
      PROVE  n < Cardinality(T)
  <2>1. Cardinality(S) \in Nat /\ Cardinality(T) \in Nat /\ Cardinality(S) <= Cardinality(T)
    BY <1>5, UrlCounts
  <2> QED
    BY <1>5, <2>1
<1>6. ASSUME NEW i \in DOMAIN unsaved', unsaved'[i].row.state = "pending"
      PROVE  unsaved'[i].row.depth < Cardinality(PagesAfter(i)')
  <2>1. i + 1 \in DOMAIN unsaved /\ unsaved'[i] = unsaved[i + 1]
    BY <1>1
  <2>2. unsaved[i + 1].row.depth < Cardinality(PagesAfter(i + 1)) /\ unsaved[i + 1].row.depth \in Nat
    BY <1>6, <2>1, MessageTypes, GraphAssumption DEF InvCounts, TypeOK, WriterTypeOK, Message, ResendMsg, Row, NoRow
  <2>3. PagesAfter(i + 1) \subseteq PagesAfter(i)'
    <3>1. SUFFICES ASSUME NEW v \in Internal, NEW j \in 1..(i + 1), unsaved[j].url = v, ~Present(v)'
                   PROVE  \E k \in 1..i : unsaved'[k].url = v
      BY <1>4, UrlCounts DEF PagesAfter
    <3>2. j # 1
      BY <1>4, <3>1, UrlCounts
    <3>3. j - 1 \in 1..i /\ unsaved'[j - 1] = unsaved[j]
      BY <1>1, <2>1, <3>2
    <3> QED
      BY <3>1, <3>3
  <2>4. PagesAfter(i)' \subseteq Urls
    BY UrlCounts DEF PagesAfter
  <2> QED
    BY <1>5, <2>1, <2>2, <2>3, <2>4
<1>7. ASSUME NEW u \in Pending' PROVE rows'[u].depth < Cardinality(PagesOnDisk')
  <2>1. u \in Urls /\ rows'[u].state = "pending" /\ PagesOnDisk' \subseteq Urls
    BY UrlCounts DEF Pending, PagesOnDisk
  <2>2. CASE rows'[u] = rows[u]
    <3>1. u \in Pending /\ rows[u].depth < Cardinality(PagesOnDisk) /\ rows[u].depth \in Nat
      BY <2>1, <2>2 DEF Pending, InvCounts, TypeOK, FileTypeOK, Row
    <3>2. PagesOnDisk \subseteq PagesOnDisk'
      BY <1>4, UrlCounts DEF PagesOnDisk
    <3> QED
      BY <1>5, <2>1, <2>2, <3>1, <3>2
  <2>3. CASE unsaved[1].row.state = "pending" /\ rows'[u].depth = unsaved[1].row.depth
    <3>1. unsaved[1].row.depth < Cardinality(PagesAfter(1)) /\ unsaved[1].row.depth \in Nat
      BY <1>1, <2>3, MessageTypes DEF InvCounts, TypeOK, WriterTypeOK, Message, ResendMsg, Row, NoRow
    <3>2. PagesAfter(1) \subseteq PagesOnDisk'
      BY <1>4, UrlCounts DEF PagesAfter, PagesOnDisk
    <3> QED
      BY <1>5, <2>1, <2>3, <3>1, <3>2
  <2> QED
    BY <1>1, <2>1, <2>2, <2>3
<1> QED
  BY <1>6, <1>7

LEMMA CountsInit == Init => InvCounts
<1> SUFFICES ASSUME Init PROVE InvCounts
  OBVIOUS
<1>1. phase = "idle" /\ already = 0 /\ fetched = 0 /\ unsaved = <<>>
  BY DEF Init, Idle
<1>2. \A u \in Urls : rows[u].state = "absent"
  BY DEF Init, NoRow
<1>3. Pending = {}
  BY <1>2 DEF Pending
<1> QED
  BY <1>1, <1>3 DEF InvCounts

LEMMA CountsStep == IInv /\ IInv' /\ InvCounts /\ [Next]_vars => InvCounts'
<1> SUFFICES ASSUME IInv, IInv', InvCounts, [Next]_vars PROVE InvCounts'
  OBVIOUS
<1>0. already \in Nat /\ fetched \in Nat
  BY DEF IInv, TypeOK, CountersTypeOK
<1>1. CASE Setup \/ Loop \/ Joins \/ Page
  <2>1. Shape
    BY <1>1, StepShape
  <2>2. phase # "idle" /\ phase' # "idle" /\ UNCHANGED rows
    BY <2>1 DEF Shape, Steady
  <2>3. \A u \in Pending' : rows'[u].depth < Cardinality(PagesOnDisk')
    BY <2>2 DEF InvCounts, Pending, PagesOnDisk, Present
  <2> QED
    BY <2>1, <2>2, <2>3, CrawledStep, DepthLive, DepthSent DEF InvCounts
<1>2. CASE Commit
  <2>1. UNCHANGED <<phase, already, fetched, queued, inFlight, cur, depth, seen>>
    BY <1>2 DEF Commit, memVars, pageVars, frontVars, poolVars, flagVars
  <2>2. Live' = Live
    BY <2>1 DEF Live
  <2> QED
    BY <1>2, <2>1, <2>2, CrawledCommit, DepthCommit DEF InvCounts
<1>3. CASE Start
  <2>1. /\ phase = "idle" /\ status = "none"
        /\ UNCHANGED <<rows, unsaved, cur, already, fetched, queued, inFlight>>
    BY <1>3 DEF Start, writerVars, pageVars, frontVars, poolVars, flagVars
  <2>2. /\ unsaved = <<>> /\ cur = NoUrl /\ queued = {} /\ inFlight = {}
        /\ \A u \in Urls : rows[u].state = "absent"
    BY <2>1 DEF IInv, InvIdle, Present
  <2>3. Crawled' = {}
    BY <2>1, <2>2, GraphAssumption DEF Crawled, IsCrawled
  <2>4. Live' = {} /\ Pending' = {} /\ DOMAIN unsaved' = {}
    BY <2>1, <2>2 DEF Live, Pending
  <2>5. already' + fetched' = Cardinality(Crawled') /\ phase' = "setup"
    BY <1>0, <1>3, <2>1, <2>3, FS_EmptySet DEF InvCounts, Start
  <2> QED
    BY <2>4, <2>5 DEF InvCounts
<1>4. CASE Resume
  <2>1. /\ phase = "idle" /\ phase' = "setup" /\ UNCHANGED <<rows, cur, fetched, inFlight>>
        /\ unsaved' = <<ResendMsg>> /\ already' = Cardinality(Done)
        /\ queued' = Pending /\ seen' = {u \in Urls : Present(u)}
        /\ depth' = [u \in Urls |-> IF u \in Pending THEN rows[u].depth ELSE 0]
    BY <1>4 DEF Resume, ResendExistingRows, SeenOnDisk, pageVars, poolVars
  <2>2. cur = NoUrl /\ inFlight = {} /\ fetched = 0
    BY <2>1 DEF IInv, InvIdle, InvCounts
  <2>3. \A i \in DOMAIN unsaved' : unsaved'[i].kind = "resend" /\ unsaved'[i].row.state = "absent"
    BY <2>1 DEF ResendMsg, NoRow
  <2>4. Crawled' = Done
    BY <2>1, <2>2, <2>3, GraphAssumption DEF Crawled, IsCrawled, Done
  <2>5. already' + fetched' = Cardinality(Crawled')
    BY <2>1, <2>2, <2>4, UrlCounts DEF Done
  <2>6. seen' \cap Internal = PagesOnDisk /\ PagesOnDisk' = PagesOnDisk /\ Pending' = Pending
    BY <2>1, UrlCounts DEF PagesOnDisk, Pending, Present
  <2>7. \A u \in Live' : depth'[u] < Cardinality(seen' \cap Internal)
    BY <2>1, <2>2, <2>6 DEF Live, InvCounts, Pending
  <2>8. \A u \in Pending' : rows'[u].depth < Cardinality(PagesOnDisk')
    BY <2>1, <2>6 DEF InvCounts
  <2> QED
    BY <2>1, <2>3, <2>5, <2>7, <2>8 DEF InvCounts
<1>5. CASE Pause \/ FinalizeCancelled \/ FinalizeDone \/ Crash
  <2>1. phase' = "idle" /\ already' = 0 /\ fetched' = 0 /\ unsaved' = <<>> /\ UNCHANGED rows
    BY <1>5, EndShape DEF EndSession
  <2>2. \A u \in Pending' : rows'[u].depth < Cardinality(PagesOnDisk')
    BY <2>1 DEF InvCounts, Pending, PagesOnDisk, Present
  <2> QED
    BY <2>1, <2>2 DEF InvCounts
<1>6. CASE Finalize \/ EvaluateRule \/ RequestCancel \/ DeadlinePasses \/ Over \/ UNCHANGED vars
  <2>1. /\ UNCHANGED <<rows, unsaved, cur, fetched, already, queued, inFlight, depth, seen>>
        /\ phase' = phase \/ (phase # "idle" /\ phase' # "idle")
    BY <1>6, QuietShape DEF Finalize, EvaluateRule, fileVars, writerVars, memVars, pageVars, frontVars, poolVars, flagVars
  <2>2. Live' = Live /\ Pending' = Pending /\ PagesOnDisk' = PagesOnDisk /\ Crawled' = Crawled
    BY <2>1, CrawledSame DEF Live, Pending, PagesOnDisk, Present
  <2>3. \A i \in DOMAIN unsaved : PagesAfter(i)' = PagesAfter(i)
    BY <2>1 DEF PagesAfter, Present
  <2> QED
    BY <2>1, <2>2, <2>3 DEF InvCounts
<1> QED
  BY <1>1, <1>2, <1>3, <1>4, <1>5, <1>6 DEF Next, Progress, Ending

-----------------------------------------------------------------------------
(* Without limits nothing cuts the crawl but what the site refuses: the    *)
(* budget is never spent, no page is too deep, no deadline passes.         *)
LEMMA NeverOver ==
    ASSUME IInv, IInv', InvCounts', phase' # "idle", MaxUrls > Cardinality(Urls)
    PROVE  already' + fetched' < MaxUrls
<1>1. Cardinality(Crawled') \in Nat /\ Cardinality(Crawled') <= Cardinality(Urls)
  BY UrlCounts DEF Crawled
<1> QED
  BY <1>1, UrlCounts, LimitsAssumption DEF InvCounts

LEMMA UnlimitedStep ==
    IInv /\ IInv' /\ InvCounts /\ InvCounts' /\ InvUnlimited /\ [Next]_vars => InvUnlimited'
<1> SUFFICES ASSUME IInv, IInv', InvCounts, InvCounts', InvUnlimited, [Next]_vars, Unlimited
             PROVE  /\ ~expired'
                    /\ truncated' \in {"none", "rate_limited"}
                    /\ truncReason' \in {"none", "rate_limited"}
  BY DEF InvUnlimited, Unlimited
<1>0. /\ MaxUrls > Cardinality(Urls) /\ MaxDepth >= Cardinality(Urls) /\ ~HasDeadline /\ ~ListMode
      /\ ~expired /\ truncated \in {"none", "rate_limited"} /\ truncReason \in {"none", "rate_limited"}
  BY DEF InvUnlimited, Unlimited
<1>1. CASE Setup \/ Loop \/ Joins \/ Page
  <2>1. UNCHANGED <<truncReason, expired, already>> /\ phase # "idle" /\ phase' # "idle"
    BY <1>1, StepShape DEF Shape, Steady
  <2>2. ASSUME NEW u, NEW reason \in {"none", "rate_limited"}, CloseJoin(u, reason)
        PROVE  truncated' = reason
    <3>1. ~BudgetSpent
      <4>1. already' + fetched' < MaxUrls
        BY <1>0, <2>1, NeverOver
      <4>2. already \in Nat /\ fetched' \in Nat /\ MaxUrls \in Nat
        BY LimitsAssumption DEF IInv, TypeOK, CountersTypeOK
      <4>3. already + fetched' < MaxUrls
        BY <2>1, <4>1
      <4>4. \A i, j, k \in Nat : i + j < k => ~(i + j >= k)
        OBVIOUS
      <4> QED
        BY <4>2, <4>3, <4>4 DEF BudgetSpent
    <3> QED
      BY <2>2, <3>1 DEF CloseJoin
  <2>3. CASE Setup
    <3>1. ~SitemapsOverBudget
      <4>1. inSitemap \subseteq Urls
        BY DEF IInv, TypeOK, FrontierTypeOK
      <4>2. Cardinality(inSitemap) <= Cardinality(Urls) /\ Cardinality(inSitemap) \in Nat
        BY <4>1, UrlCounts
      <4> QED
        BY <1>0, <4>2, UrlCounts, LimitsAssumption DEF SitemapsOverBudget
    <3>2. UNCHANGED truncated
      BY <1>0, <2>3, <3>1 DEF Setup, SetupSeed, SetupSitemap, SitemapsCut, RejectProbe, EndSetup, memVars
    <3> QED
      BY <1>0, <2>1, <3>2
  <2>4. CASE Loop
    <3>1. UNCHANGED truncated
      BY <1>0, <2>4 DEF Loop, Refill, Dispatch, DispatchProbe, Exhausted, StopOnCancel, StopOnDeadline
    <3> QED
      BY <1>0, <2>1, <3>1
  <2>5. CASE Joins
    <3>1. OrElse("rate_limited") \in {"none", "rate_limited"}
      BY <1>0 DEF OrElse
    <3>2. truncated' \in {"none", "rate_limited"}
      BY <1>0, <2>2, <2>5, <3>1 DEF Joins, JoinExcluded, JoinFailed, JoinRateLimited, JoinFetched, JoinPanic, JoinProbe
    <3> QED
      BY <1>0, <2>1, <3>2
  <2>6. CASE Page
    <3>1. ~TargetTooDeep
      <4>1. SUFFICES ASSUME PageStep, TooDeep PROVE FALSE
        BY DEF TargetTooDeep, NewTarget
      <4>2. cur \in Live /\ cur \in Urls
        BY <4>1 DEF PageStep, Live, IInv, TypeOK, PhaseTypeOK
      <4>3. depth[cur] < Cardinality(seen \cap Internal) /\ depth[cur] \in Nat
        BY <2>1, <4>2 DEF InvCounts, IInv, TypeOK, FrontierTypeOK
      <4>4. Cardinality(seen \cap Internal) <= Cardinality(Urls) /\ Cardinality(seen \cap Internal) \in Nat
        BY UrlCounts
      <4>5. TargetDepth = depth[cur] + 1 /\ TargetDepth > MaxDepth
        BY <4>1 DEF TooDeep, TargetDepth
      <4> QED
        BY <1>0, <4>3, <4>4, <4>5, UrlCounts, LimitsAssumption
    <3>2. UNCHANGED truncated \/ PageDone
      BY <2>6, <3>1 DEF Page, TargetKnown, TargetExternal, TargetUnregistered, TargetListed, TargetFiltered,
         TargetNotFollowed, TargetQueued
    <3>3. PageDone => truncated' = truncated
      BY <1>0, <2>2 DEF PageDone
    <3> QED
      BY <1>0, <2>1, <3>2, <3>3
  <2> QED
    BY <1>1, <2>3, <2>4, <2>5, <2>6
<1>2. CASE Start \/ Resume
  BY <1>0, <1>2 DEF Start, Resume, InitialTruncation
<1>3. CASE Pause \/ FinalizeCancelled \/ FinalizeDone \/ Crash
  BY <1>0, <1>3, EndShape DEF EndSession, FinalizeDone
<1>4. CASE Commit \/ Finalize \/ EvaluateRule
  BY <1>0, <1>4 DEF Commit, Finalize, EvaluateRule, memVars, envVars
<1>5. CASE RequestCancel \/ DeadlinePasses \/ Over \/ UNCHANGED vars
  BY <1>0, <1>5, QuietShape DEF RequestCancel, DeadlinePasses, Over, vars, memVars, fileVars, envVars
<1> QED
  BY <1>1, <1>2, <1>3, <1>4, <1>5 DEF Next, Progress, Ending

(* The counts, and with them the absence of limits, hold in every state.   *)
LEMMA Counting == Spec => []CountingInv
<1>1. Init => CountingInv
  BY CountsInit DEF Init, Idle, InvUnlimited, CountingInv
<1>2. IInv /\ IInv' /\ CountingInv /\ [Next]_vars => CountingInv'
  BY CountsStep, UnlimitedStep DEF CountingInv
<1> QED
  BY <1>1, <1>2, Inductive, PTL DEF Spec

(* What makes true what a finished file says of itself: what each session  *)
(* still knows of its plan, its seeds, its sitemaps and the rules of its   *)
(* final pass, and that no page is deeper than there are pages (engine.rs, *)
(* run_with, resume and finalize), over any number of sessions.            *)
THEOREM Endings == Spec => []EndingInv
<1>1. CompletionInv /\ CountingInv => EndingInv
  BY DEF EndingInv
<1> QED
  BY <1>1, Completion, Counting, PTL

(* A crawl without a page budget, a depth limit, a deadline or a list that *)
(* ends with pages pending says so in a way that a resume accepts, however *)
(* it was interrupted before: only a 429 leaves a page behind (engine.rs,  *)
(* finalize and resume).  Again as long as no task panics.                 *)
THEOREM UnlimitedIsResumable == ASSUME ~MayPanic, Unlimited PROVE Spec => []PendingIsResumable
<1>1. CompletionInv /\ CountingInv => PendingIsResumable
  BY DEF CompletionInv, CountingInv, InvWhole, InvUnlimited, PendingIsResumable, Resumable
<1> QED
  BY <1>1, Completion, Counting, PTL

=============================================================================
