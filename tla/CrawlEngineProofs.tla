------------------------- MODULE CrawlEngineProofs -------------------------
(* Proofs about the crawl loop, for every site, every limit and any number *)
(* of sessions: types first, then the inductive invariant and what follows *)
(* from it.                                                                *)
EXTENDS CrawlEngineInv, FiniteSetTheorems, TLAPS

-----------------------------------------------------------------------------
(* Types. *)

(* The rows the engine builds, and what the upsert makes of two rows, are  *)
(* rows of table urls.                                                     *)
LEMMA RowTypes ==
    /\ \A st \in States, why \in Reasons, d \in Nat : \A v, S :
         UrlRow(st, why, d, v \in S) \in Row
    /\ \A st \in States, why \in Reasons, d \in Nat :
         UrlRow(st, why, d, TRUE) \in Row /\ UrlRow(st, why, d, FALSE) \in Row
    /\ \A why \in Reasons : ExternalRow(why, TRUE) \in Row /\ ExternalRow(why, FALSE) \in Row
    /\ \A old, new \in Row : Upsert(old, new) \in Row
    /\ NoRow \in Row
<1>1. ASSUME NEW st \in States, NEW why \in Reasons, NEW d \in Nat, NEW v, NEW S
      PROVE  UrlRow(st, why, d, v \in S) \in Row
  BY DEF UrlRow, Row
<1>2. ASSUME NEW st \in States, NEW why \in Reasons, NEW d \in Nat
      PROVE  UrlRow(st, why, d, TRUE) \in Row /\ UrlRow(st, why, d, FALSE) \in Row
  BY DEF UrlRow, Row
<1>3. ASSUME NEW why \in Reasons
      PROVE  ExternalRow(why, TRUE) \in Row /\ ExternalRow(why, FALSE) \in Row
  BY DEF ExternalRow, Row, States
<1>4. ASSUME NEW old \in Row, NEW new \in Row
      PROVE  Upsert(old, new) \in Row
  BY DEF Upsert, Row
<1>5. NoRow \in Row
  BY DEF NoRow, Row, States, Reasons
<1> QED
  BY <1>1, <1>2, <1>3, <1>4, <1>5

(* A message is about a URL and carries a row, unless it is the resend.    *)
LEMMA MessageTypes ==
    /\ \A u \in Urls, r \in Row : RowMsg(u, r) \in Message /\ PageMsg(u, r) \in Message
    /\ ResendMsg \in Message
    /\ \A m \in Message : m.kind # "resend" =>
         m.url \in Urls /\ m.row \in Row /\ m.kind \in {"row", "page"}
<1>1. ASSUME NEW u \in Urls, NEW r \in Row
      PROVE  RowMsg(u, r) \in Message /\ PageMsg(u, r) \in Message
  BY DEF RowMsg, PageMsg, Message
<1>2. ResendMsg \in Message
  BY DEF Message
<1>3. ASSUME NEW m \in Message, m.kind # "resend"
      PROVE  m.url \in Urls /\ m.row \in Row /\ m.kind \in {"row", "page"}
  BY <1>3 DEF Message, ResendMsg
<1> QED
  BY <1>1, <1>2, <1>3

(* Sending a row or a page keeps the queue of the writer well formed. *)
LEMMA SendTypes ==
    ASSUME WriterTypeOK, UNCHANGED index, NEW u \in Urls, NEW r \in Row,
           Send(RowMsg(u, r)) \/ Send(PageMsg(u, r))
    PROVE  WriterTypeOK'
<1>1. PICK m \in Message : Send(m)
  BY MessageTypes
<1> QED
  BY <1>1 DEF Send, WriterTypeOK

(* What Register does to the frontier and to the writer's queue.           *)
LEMMA RegisterTypes ==
    ASSUME WriterTypeOK, FrontierTypeOK, NEW u \in Urls, NEW r \in Row, Register(u, r),
           UNCHANGED <<index, inFlight, probing>>,
           probes' \subseteq Urls, inSitemap' \subseteq Urls
    PROVE  WriterTypeOK' /\ FrontierTypeOK'
<1>1. WriterTypeOK'
  BY SendTypes DEF Register
<1>2. FrontierTypeOK'
  BY DEF Register, FrontierTypeOK
<1> QED
  BY <1>1, <1>2

(* And Enqueue.                                                            *)
LEMMA EnqueueTypes ==
    ASSUME WriterTypeOK, FrontierTypeOK, NEW u \in Urls, NEW d \in Nat, NEW sm,
           UrlRow("pending", "none", d, sm) \in Row, Enqueue(u, d, sm),
           UNCHANGED <<index, inFlight, probing, probes>>, inSitemap' \subseteq Urls
    PROVE  WriterTypeOK' /\ FrontierTypeOK'
<1>1. WriterTypeOK'
  BY SendTypes DEF Enqueue
<1>2. FrontierTypeOK'
  BY DEF Enqueue, FrontierTypeOK
<1> QED
  BY <1>1, <1>2

(* A task that ends leaves the pool; the loop goes on, or drains. *)
LEMMA CloseJoinEffect ==
    ASSUME NEW u, NEW reason, CloseJoin(u, reason)
    PROVE  /\ truncated' \in {reason, "max_urls"}
           /\ phase' \in {"drain", "top"}
           /\ inFlight' \subseteq inFlight \ {u}
           /\ probing' \subseteq probing \ {u}
BY DEF CloseJoin, LeaveLoop

(* Subsets of the URLs are finite. *)
LEMMA UrlsFinite == \A S \in SUBSET Urls : Cardinality(S) \in Nat
BY GraphAssumption, FS_Subset, FS_CardinalityType

(* The target under the cursor of the page being read, and its depth. *)
LEMMA TargetTypes ==
    ASSUME TypeOK, PageStep
    PROVE  /\ cur \in Urls  /\ Links[cur] \in Seq(Urls)  /\ TargetDepth \in Nat
           /\ Target \in Urls \cup {NoUrl}
<1> USE DEF TypeOK
<1>1. cur \in Urls
  BY DEF PageStep, PhaseTypeOK
<1>2. Links[cur] \in Seq(Urls)
  BY <1>1, GraphAssumption
<1>3. TargetDepth \in Nat
  BY <1>1 DEF TargetDepth, FrontierTypeOK
<1>4. Target \in Urls \cup {NoUrl}
  BY <1>1, <1>2, GraphAssumption DEF Target, AtRedirect, PageStep, PhaseTypeOK
<1> QED
  BY <1>1, <1>2, <1>3, <1>4

(* The types hold before the first session.                                *)
LEMMA TypeInit == Init => TypeOK
<1> SUFFICES ASSUME Init PROVE TypeOK
  OBVIOUS
<1>1. FileTypeOK
  BY RowTypes DEF Init, FileTypeOK, Truncations
<1>2. WriterTypeOK
  BY DEF Init, WriterTypeOK
<1>3. FrontierTypeOK
  BY DEF Init, Idle, FrontierTypeOK
<1>4. PhaseTypeOK
  BY DEF Init, Idle, PhaseTypeOK
<1>5. CountersTypeOK
  BY DEF Init, Idle, CountersTypeOK, Truncations
<1>6. FlagsTypeOK
  BY DEF Init, Idle, FlagsTypeOK
<1> QED
  BY <1>1, <1>2, <1>3, <1>4, <1>5, <1>6 DEF TypeOK

(* What every action on a link does to the types.                          *)
LEMMA PageStepTypes ==
    ASSUME TypeOK, PageStep
    PROVE  /\ FileTypeOK' /\ PhaseTypeOK'
           /\ /\ registered' \in Nat  /\ enqueued' \in Nat
              /\ truncated' \in Truncations
              => CountersTypeOK'
           /\ UNCHANGED <<registered, enqueued>> /\ truncated' \in Truncations => CountersTypeOK'
<1>1. FileTypeOK'
  BY DEF TypeOK, PageStep, FileTypeOK, fileVars
<1>2. PhaseTypeOK'
  BY DEF TypeOK, PageStep, PhaseTypeOK, flagVars
<1>3. /\ registered' \in Nat  /\ enqueued' \in Nat  /\ truncated' \in Truncations
      => CountersTypeOK'
  BY DEF TypeOK, PageStep, CountersTypeOK, poolVars, flagVars, envVars
<1> QED
  BY <1>1, <1>2, <1>3 DEF TypeOK, CountersTypeOK

(* And a task that ends.                                                   *)
LEMMA JoinTypes ==
    ASSUME TypeOK, NEW u, NEW reason, Join(u), CloseJoin(u, reason), UNCHANGED fetched,
           reason \in Truncations
    PROVE  FileTypeOK' /\ FrontierTypeOK' /\ PhaseTypeOK' /\ CountersTypeOK'
<1>1. FrontierTypeOK'
  BY CloseJoinEffect DEF TypeOK, Join, FrontierTypeOK, frontVars, flagVars
<1>2. FileTypeOK' /\ PhaseTypeOK'
  BY CloseJoinEffect DEF TypeOK, Join, Waiting, FileTypeOK, PhaseTypeOK, Running, fileVars,
       pageVars, flagVars
<1>3. CountersTypeOK'
  BY CloseJoinEffect DEF TypeOK, Join, CountersTypeOK, Truncations, flagVars, envVars
<1> QED
  BY <1>1, <1>2, <1>3

(* Every step keeps the types, the flags of the session apart.             *)
LEMMA TypeStep ==
    TypeOK /\ [Next]_vars =>
      FileTypeOK' /\ WriterTypeOK' /\ FrontierTypeOK' /\ PhaseTypeOK' /\ CountersTypeOK'
<1> SUFFICES ASSUME TypeOK, [Next]_vars
             PROVE  /\ FileTypeOK'  /\ WriterTypeOK'  /\ FrontierTypeOK'
                    /\ PhaseTypeOK'  /\ CountersTypeOK'
  OBVIOUS
<1> USE DEF TypeOK
<1>1. CASE Start
  BY <1>1 DEF Start, InitialTruncation, FileTypeOK, WriterTypeOK, FrontierTypeOK,
         PhaseTypeOK, CountersTypeOK, Truncations, Running, fileVars, writerVars, frontVars,
         probeVars, poolVars, pageVars, flagVars, envVars, memVars
<1>2. CASE Resume
  <2>1. WriterTypeOK'
    BY <1>2, MessageTypes DEF Resume, WriterTypeOK, ResendExistingRows
  <2>2. FrontierTypeOK'
    BY <1>2 DEF Resume, FrontierTypeOK, FileTypeOK, Row, Pending, SeenOnDisk, poolVars, probeVars
  <2>3. FileTypeOK' /\ PhaseTypeOK'
    BY <1>2 DEF Resume, FileTypeOK, PhaseTypeOK, pageVars, Running
  <2>4. CountersTypeOK'
    <3>1. Cardinality(Done) \in Nat
      BY UrlsFinite DEF Done
    <3> QED
      BY <1>2, <3>1 DEF Resume, CountersTypeOK, poolVars, probeVars, InitialTruncation, Truncations
  <2> QED
    BY <2>1, <2>2, <2>3, <2>4
<1>3. CASE SetupSeed
  <2> DEFINE u == Seeds[next]
  <2>1. u \in Urls
    BY <1>3, GraphAssumption DEF SetupSeed, SetupStep, PhaseTypeOK
  <2>2. FileTypeOK' /\ PhaseTypeOK' /\ CountersTypeOK'
    BY <1>3 DEF SetupSeed, SetupStep, FileTypeOK, PhaseTypeOK, CountersTypeOK, fileVars,
                poolVars, probeVars, envVars
  <2>3. UNCHANGED <<index, inFlight, probing, probes, inSitemap>>
    BY <1>3 DEF SetupSeed, SetupStep, poolVars, probeVars
  <2> HIDE DEF u
  <2>4. \/ UNCHANGED <<frontVars, unsaved>>
        \/ Register(u, UrlRow("excluded", "pattern", 0, FALSE))
        \/ Enqueue(u, 0, FALSE)
    BY <1>3 DEF SetupSeed, u
  <2>5. /\ UrlRow("excluded", "pattern", 0, FALSE) \in Row
        /\ UrlRow("pending", "none", 0, FALSE) \in Row
    BY RowTypes DEF States, Reasons
  <2>6. probes' \subseteq Urls /\ inSitemap' \subseteq Urls
    BY <2>3 DEF FrontierTypeOK
  <2>7. CASE UNCHANGED <<frontVars, unsaved>>
    BY <2>2, <2>3, <2>7 DEF WriterTypeOK, FrontierTypeOK, frontVars
  <2> QED
    BY <2>1, <2>2, <2>3, <2>4, <2>5, <2>6, <2>7, RegisterTypes, EnqueueTypes
<1>4. CASE SetupSitemap
  <2> DEFINE u == SitemapUrls[next - Len(Seeds)]
  <2>1. u \in Urls
    <3>1. next - Len(Seeds) \in 1..Len(SitemapUrls)
      BY <1>4, GraphAssumption DEF SetupSitemap, SetupStep, PhaseTypeOK, SetupLength
    <3> QED
      BY <3>1, GraphAssumption
  <2>2. FileTypeOK' /\ PhaseTypeOK' /\ CountersTypeOK'
    BY <1>4 DEF SetupSitemap, SetupStep, FileTypeOK, PhaseTypeOK, CountersTypeOK, fileVars,
                poolVars, probeVars, envVars
  <2>3. UNCHANGED <<index, inFlight, probing, probes>> /\ inSitemap' \subseteq Urls
    BY <1>4, <2>1 DEF SetupSitemap, SetupStep, poolVars, probeVars, FrontierTypeOK
  <2> HIDE DEF u
  <2>4. \/ UNCHANGED <<frontVars, unsaved>>
        \/ Register(u, UrlRow("skipped", "none", 0, TRUE))
        \/ Register(u, UrlRow("excluded", "pattern", 0, TRUE))
        \/ Enqueue(u, 0, TRUE)
    BY <1>4 DEF SetupSitemap, u
  <2>5. /\ UrlRow("excluded", "pattern", 0, TRUE) \in Row
        /\ UrlRow("skipped", "none", 0, TRUE) \in Row
        /\ UrlRow("pending", "none", 0, TRUE) \in Row
    BY RowTypes DEF States, Reasons
  <2>6. probes' \subseteq Urls
    BY <2>3 DEF FrontierTypeOK
  <2>7. CASE UNCHANGED <<frontVars, unsaved>>
    BY <2>2, <2>3, <2>7 DEF WriterTypeOK, FrontierTypeOK, frontVars
  <2> QED
    BY <2>1, <2>2, <2>3, <2>4, <2>5, <2>6, <2>7, RegisterTypes, EnqueueTypes
<1>5. CASE SitemapsOverBudget
  BY <1>5, GraphAssumption DEF SitemapsOverBudget, SkipSitemaps, SetupLength, OrElse,
         FileTypeOK, WriterTypeOK, FrontierTypeOK, PhaseTypeOK, CountersTypeOK, Truncations,
         Running, fileVars, writerVars, frontVars, probeVars, poolVars, pageVars, flagVars,
         envVars, memVars
<1>6. CASE SitemapsCut
  BY <1>6, GraphAssumption DEF SitemapsCut, SkipSitemaps, SetupLength, OrElse, FileTypeOK,
         WriterTypeOK, FrontierTypeOK, PhaseTypeOK, CountersTypeOK, Truncations, Running,
         fileVars, writerVars, frontVars, probeVars, poolVars, pageVars, flagVars, envVars,
         memVars
<1>7. CASE RejectProbe
  <2>1. PICK u \in Urls : Send(RowMsg(u, ExternalRow("local_network", FALSE)))
    BY <1>7 DEF RejectProbe, RejectedProbes, PendingProbes
  <2>2. ExternalRow("local_network", FALSE) \in Row
    BY RowTypes DEF Reasons
  <2>3. WriterTypeOK'
    BY <1>7, <2>1, <2>2, SendTypes DEF RejectProbe
  <2> QED
    BY <1>7, <2>3 DEF RejectProbe, fileVars, memVars, pageVars,
               frontVars, poolVars, probeVars, flagVars, envVars, FileTypeOK, FrontierTypeOK,
               PhaseTypeOK, CountersTypeOK
<1>8. CASE EndSetup
  BY <1>8, UrlsFinite DEF EndSetup, PendingProbes, FileTypeOK, WriterTypeOK, FrontierTypeOK,
         PhaseTypeOK, CountersTypeOK, Truncations, Running, fileVars, writerVars, frontVars,
         probeVars, poolVars, pageVars, flagVars, envVars, memVars
<1>9. CASE Refill
  BY <1>9 DEF Refill, FileTypeOK, WriterTypeOK, FrontierTypeOK, PhaseTypeOK, CountersTypeOK,
         Truncations, Running, fileVars, writerVars, frontVars, probeVars, poolVars,
         pageVars, flagVars, envVars, memVars
<1>10. CASE Dispatch
  BY <1>10 DEF Dispatch, FileTypeOK, WriterTypeOK, FrontierTypeOK, PhaseTypeOK,
         CountersTypeOK, Truncations, Running, fileVars, writerVars, frontVars, probeVars,
         poolVars, pageVars, flagVars, envVars, memVars
<1>11. CASE DispatchProbe
  BY <1>11 DEF DispatchProbe, FileTypeOK, WriterTypeOK, FrontierTypeOK, PhaseTypeOK,
         CountersTypeOK, Truncations, Running, fileVars, writerVars, frontVars, probeVars,
         poolVars, pageVars, flagVars, envVars, memVars
<1>12. CASE Exhausted
  BY <1>12 DEF Exhausted, LeaveLoop, FileTypeOK, WriterTypeOK, FrontierTypeOK, PhaseTypeOK,
         CountersTypeOK, Truncations, Running, fileVars, writerVars, frontVars, probeVars,
         poolVars, pageVars, flagVars, envVars, memVars
<1>13. CASE StopOnCancel
  BY <1>13 DEF StopOnCancel, LeaveLoop, Waiting, FileTypeOK, WriterTypeOK, FrontierTypeOK,
         PhaseTypeOK, CountersTypeOK, Truncations, Running, fileVars, writerVars, frontVars,
         probeVars, poolVars, pageVars, flagVars, envVars, memVars
<1>14. CASE StopOnDeadline
  BY <1>14 DEF StopOnDeadline, LeaveLoop, Waiting, FileTypeOK, WriterTypeOK, FrontierTypeOK,
         PhaseTypeOK, CountersTypeOK, Truncations, Running, fileVars, writerVars, frontVars,
         probeVars, poolVars, pageVars, flagVars, envVars, memVars
<1>15. CASE JoinExcluded
  <2>1. PICK u \in inFlight :
          /\ Join(u)  /\ UNCHANGED fetched  /\ CloseJoin(u, truncated)
          /\ \/ Send(RowMsg(u, UrlRow("excluded", "robots", depth[u], u \in inSitemap)))
             \/ Send(RowMsg(u, UrlRow("excluded", "local_network", depth[u], u \in inSitemap)))
    BY <1>15 DEF JoinExcluded
  <2>2. u \in Urls /\ depth[u] \in Nat
    BY DEF FrontierTypeOK
  <2>3. /\ UrlRow("excluded", "robots", depth[u], u \in inSitemap) \in Row
        /\ UrlRow("excluded", "local_network", depth[u], u \in inSitemap) \in Row
    BY <2>2, RowTypes DEF States, Reasons
  <2>4. WriterTypeOK'
    BY <2>1, <2>2, <2>3, SendTypes DEF Join
  <2>5. truncated \in Truncations
    BY DEF CountersTypeOK
  <2> QED
    BY <2>1, <2>4, <2>5, JoinTypes
<1>16. CASE JoinFailed
  <2>1. PICK u \in inFlight :
          /\ Join(u)  /\ UNCHANGED fetched  /\ CloseJoin(u, truncated)
          /\ Send(RowMsg(u, UrlRow("error", "none", depth[u], u \in inSitemap)))
    BY <1>16 DEF JoinFailed
  <2>2. u \in Urls /\ depth[u] \in Nat
    BY DEF FrontierTypeOK
  <2>3. UrlRow("error", "none", depth[u], u \in inSitemap) \in Row
    BY <2>2, RowTypes DEF States, Reasons
  <2>4. WriterTypeOK'
    BY <2>1, <2>2, <2>3, SendTypes DEF Join
  <2>5. truncated \in Truncations
    BY DEF CountersTypeOK
  <2> QED
    BY <2>1, <2>4, <2>5, JoinTypes
<1>17. CASE JoinRateLimited
  <2>1. PICK u \in inFlight :
          Join(u) /\ UNCHANGED <<unsaved, fetched>> /\ CloseJoin(u, OrElse("rate_limited"))
    BY <1>17 DEF JoinRateLimited
  <2>2. WriterTypeOK'
    BY <2>1 DEF Join, WriterTypeOK
  <2>3. OrElse("rate_limited") \in Truncations
    BY DEF OrElse, CountersTypeOK, Truncations
  <2>4. FileTypeOK' /\ FrontierTypeOK' /\ PhaseTypeOK' /\ CountersTypeOK'
    BY <2>1, <2>3, JoinTypes
  <2> QED
    BY <2>2, <2>4
<1>18. CASE JoinFetched
  <2>1. PhaseTypeOK'
    BY <1>18, GraphAssumption DEF JoinFetched, FrontierTypeOK, PhaseTypeOK, Running, flagVars
  <2> QED
    BY <1>18, <2>1 DEF JoinFetched, FileTypeOK, WriterTypeOK, FrontierTypeOK, CountersTypeOK,
         fileVars, writerVars, frontVars, probeVars, flagVars, envVars
<1>19. CASE JoinPanic
  BY <1>19 DEF JoinPanic, Waiting, FileTypeOK, WriterTypeOK, FrontierTypeOK, PhaseTypeOK,
         CountersTypeOK, Truncations, Running, fileVars, writerVars, frontVars, probeVars,
         poolVars, pageVars, flagVars, envVars, memVars
<1>20. CASE JoinProbe
  <2>1. PICK v \in probing :
          /\ Waiting  /\ UNCHANGED fetched  /\ CloseJoin(v, truncated)
          /\ \/ Send(RowMsg(v, ExternalRow("local_network", FALSE)))
             \/ Send(RowMsg(v, ExternalRow("none", TRUE)))
          /\ probes' \subseteq probes
          /\ UNCHANGED <<fileVars, index, pageVars, frontVars, registered, enqueued,
                         flagVars, envVars>>
    BY <1>20 DEF JoinProbe
  <2>2. /\ ExternalRow("local_network", FALSE) \in Row
        /\ ExternalRow("none", TRUE) \in Row
    BY RowTypes DEF Reasons
  <2>3. v \in Urls
    BY DEF FrontierTypeOK
  <2>4. WriterTypeOK'
    BY <2>1, <2>2, <2>3, SendTypes
  <2>5. FrontierTypeOK'
    BY <2>1, CloseJoinEffect DEF FrontierTypeOK, frontVars, flagVars
  <2>6. FileTypeOK' /\ PhaseTypeOK' /\ CountersTypeOK'
    BY <2>1, CloseJoinEffect DEF FileTypeOK, PhaseTypeOK, CountersTypeOK, Waiting, Running,
         Truncations, fileVars, pageVars, flagVars, envVars
  <2> QED
    BY <2>4, <2>5, <2>6
<1>21. CASE TargetKnown
  BY <1>21 DEF TargetKnown, PageStep, FileTypeOK, WriterTypeOK, FrontierTypeOK, PhaseTypeOK,
         CountersTypeOK, Truncations, Running, fileVars, writerVars, frontVars, probeVars,
         poolVars, pageVars, flagVars, envVars, memVars
<1>22. CASE TargetExternal
  <2>1. PICK v \in Urls :
          /\ PageStep  /\ v = Target  /\ UNCHANGED truncated
          /\ registered' = registered + 1
          /\ Register(v, ExternalRow(WhyNotProbe(v), FALSE))
          /\ \/ probes' = probes \cup {v} /\ enqueued' = enqueued + 1
             \/ UNCHANGED <<probes, enqueued>>
    BY <1>22 DEF TargetExternal, NewTarget
  <2>2. WhyNotProbe(v) \in Reasons
    BY DEF WhyNotProbe, Reasons
  <2>3. ExternalRow(WhyNotProbe(v), FALSE) \in Row
    BY <2>2, RowTypes
  <2>4. UNCHANGED <<index, inFlight, probing, inSitemap>>
    BY <2>1 DEF PageStep, poolVars, flagVars
  <2>5. probes' \subseteq Urls /\ inSitemap' \subseteq Urls
    BY <2>1, <2>4 DEF FrontierTypeOK
  <2>6. WriterTypeOK' /\ FrontierTypeOK'
    BY <2>1, <2>3, <2>4, <2>5, RegisterTypes
  <2>7. registered' \in Nat /\ enqueued' \in Nat /\ truncated' \in Truncations
    BY <2>1 DEF CountersTypeOK
  <2> QED
    BY <2>1, <2>6, <2>7, PageStepTypes
<1>23. CASE TargetUnregistered
  BY <1>23 DEF TargetUnregistered, NewTarget, PageStep, FileTypeOK, WriterTypeOK,
         FrontierTypeOK, PhaseTypeOK, CountersTypeOK, Truncations, Running, fileVars,
         writerVars, frontVars, probeVars, poolVars, pageVars, flagVars, envVars, memVars
<1>24. CASE TargetListed
  <2>1. PICK v \in Internal :
          /\ PageStep  /\ v = Target
          /\ Register(v, UrlRow("skipped", "none", TargetDepth, v \in inSitemap))
          /\ UNCHANGED <<probes, registered, enqueued>>  /\ UNCHANGED truncated
    BY <1>24 DEF TargetListed, NewTarget
  <2>2. v \in Urls /\ TargetDepth \in Nat
    BY <2>1, TargetTypes, GraphAssumption
  <2>3. UrlRow("skipped", "none", TargetDepth, v \in inSitemap) \in Row
    BY <2>2, RowTypes DEF States, Reasons
  <2>4. UNCHANGED <<index, inFlight, probing, probes, inSitemap>>
    BY <2>1 DEF PageStep, poolVars, flagVars
  <2>5. probes' \subseteq Urls /\ inSitemap' \subseteq Urls
    BY <2>4 DEF FrontierTypeOK
  <2>6. WriterTypeOK' /\ FrontierTypeOK'
    BY <2>1, <2>2, <2>3, <2>4, <2>5, RegisterTypes
  <2>7. truncated' \in Truncations
    BY <2>1 DEF OrElse, CountersTypeOK, Truncations
  <2> QED
    BY <2>1, <2>6, <2>7, PageStepTypes DEF CountersTypeOK
<1>25. CASE TargetFiltered
  <2>1. PICK v \in Internal :
          /\ PageStep  /\ v = Target
          /\ Register(v, UrlRow("excluded", "pattern", TargetDepth, v \in inSitemap))
          /\ UNCHANGED <<probes, registered, enqueued>>  /\ UNCHANGED truncated
    BY <1>25 DEF TargetFiltered, NewTarget
  <2>2. v \in Urls /\ TargetDepth \in Nat
    BY <2>1, TargetTypes, GraphAssumption
  <2>3. UrlRow("excluded", "pattern", TargetDepth, v \in inSitemap) \in Row
    BY <2>2, RowTypes DEF States, Reasons
  <2>4. UNCHANGED <<index, inFlight, probing, probes, inSitemap>>
    BY <2>1 DEF PageStep, poolVars, flagVars
  <2>5. probes' \subseteq Urls /\ inSitemap' \subseteq Urls
    BY <2>4 DEF FrontierTypeOK
  <2>6. WriterTypeOK' /\ FrontierTypeOK'
    BY <2>1, <2>2, <2>3, <2>4, <2>5, RegisterTypes
  <2>7. truncated' \in Truncations
    BY <2>1 DEF OrElse, CountersTypeOK, Truncations
  <2> QED
    BY <2>1, <2>6, <2>7, PageStepTypes DEF CountersTypeOK
<1>26. CASE TargetNotFollowed
  <2>1. PICK v \in Internal :
          /\ PageStep  /\ v = Target
          /\ Register(v, UrlRow("excluded", "nofollow", TargetDepth, FALSE))
          /\ UNCHANGED <<probes, registered, enqueued>>  /\ UNCHANGED truncated
    BY <1>26 DEF TargetNotFollowed, NewTarget
  <2>2. v \in Urls /\ TargetDepth \in Nat
    BY <2>1, TargetTypes, GraphAssumption
  <2>3. UrlRow("excluded", "nofollow", TargetDepth, FALSE) \in Row
    BY <2>2, RowTypes DEF States, Reasons
  <2>4. UNCHANGED <<index, inFlight, probing, probes, inSitemap>>
    BY <2>1 DEF PageStep, poolVars, flagVars
  <2>5. probes' \subseteq Urls /\ inSitemap' \subseteq Urls
    BY <2>4 DEF FrontierTypeOK
  <2>6. WriterTypeOK' /\ FrontierTypeOK'
    BY <2>1, <2>2, <2>3, <2>4, <2>5, RegisterTypes
  <2>7. truncated' \in Truncations
    BY <2>1 DEF OrElse, CountersTypeOK, Truncations
  <2> QED
    BY <2>1, <2>6, <2>7, PageStepTypes DEF CountersTypeOK
<1>27. CASE TargetTooDeep
  <2>1. PICK v \in Internal :
          /\ PageStep  /\ v = Target
          /\ Register(v, UrlRow("excluded", "depth", TargetDepth, FALSE))
          /\ UNCHANGED <<probes, registered, enqueued>>  /\ truncated' = OrElse("max_depth")
    BY <1>27 DEF TargetTooDeep, NewTarget
  <2>2. v \in Urls /\ TargetDepth \in Nat
    BY <2>1, TargetTypes, GraphAssumption
  <2>3. UrlRow("excluded", "depth", TargetDepth, FALSE) \in Row
    BY <2>2, RowTypes DEF States, Reasons
  <2>4. UNCHANGED <<index, inFlight, probing, probes, inSitemap>>
    BY <2>1 DEF PageStep, poolVars, flagVars
  <2>5. probes' \subseteq Urls /\ inSitemap' \subseteq Urls
    BY <2>4 DEF FrontierTypeOK
  <2>6. WriterTypeOK' /\ FrontierTypeOK'
    BY <2>1, <2>2, <2>3, <2>4, <2>5, RegisterTypes
  <2>7. truncated' \in Truncations
    BY <2>1 DEF OrElse, CountersTypeOK, Truncations
  <2> QED
    BY <2>1, <2>6, <2>7, PageStepTypes DEF CountersTypeOK
<1>28. CASE TargetQueued
  <2>1. PICK v \in Internal :
          /\ PageStep  /\ v = Target
          /\ Enqueue(v, TargetDepth, v \in inSitemap)
          /\ UNCHANGED <<probes, registered, enqueued>>  /\ UNCHANGED truncated
    BY <1>28 DEF TargetQueued, NewTarget
  <2>2. v \in Urls /\ TargetDepth \in Nat
    BY <2>1, TargetTypes, GraphAssumption
  <2>3. UrlRow("pending", "none", TargetDepth, v \in inSitemap) \in Row
    BY <2>2, RowTypes DEF States, Reasons
  <2>4. UNCHANGED <<index, inFlight, probing, probes, inSitemap>>
    BY <2>1 DEF PageStep, poolVars, flagVars
  <2>5. probes' \subseteq Urls /\ inSitemap' \subseteq Urls
    BY <2>4 DEF FrontierTypeOK
  <2>6. WriterTypeOK' /\ FrontierTypeOK'
    BY <2>1, <2>2, <2>3, <2>4, <2>5, EnqueueTypes
  <2>7. truncated' \in Truncations
    BY <2>1 DEF OrElse, CountersTypeOK, Truncations
  <2> QED
    BY <2>1, <2>6, <2>7, PageStepTypes DEF CountersTypeOK
<1>29. CASE PageDone
  <2> DEFINE r == UrlRow("done", "none", depth[cur], cur \in inSitemap)
  <2>1. cur \in Urls /\ r \in Row
    BY <1>29, RowTypes DEF PageDone, PhaseTypeOK, FrontierTypeOK, States, Reasons
  <2> HIDE DEF r
  <2>2. Send(PageMsg(cur, r)) /\ UNCHANGED index /\ CloseJoin(cur, truncated)
    BY <1>29 DEF PageDone, r
  <2>3. WriterTypeOK'
    BY <2>1, <2>2, SendTypes
  <2>4. FrontierTypeOK'
    BY <1>29, <2>2, CloseJoinEffect DEF PageDone, FrontierTypeOK, frontVars, flagVars
  <2>5. FileTypeOK' /\ PhaseTypeOK'
    BY <1>29, <2>2, CloseJoinEffect DEF PageDone, FileTypeOK, PhaseTypeOK, Running, fileVars,
         flagVars
  <2>6. CountersTypeOK'
    BY <1>29, <2>2, CloseJoinEffect DEF PageDone, CountersTypeOK, Truncations, flagVars, envVars
  <2> QED
    BY <2>3, <2>4, <2>5, <2>6
<1>30. CASE Commit
  <2> DEFINE m == Head(unsaved)
  <2>1. m \in Message /\ Tail(unsaved) \in Seq(Message)
    BY <1>30 DEF Commit, WriterTypeOK
  <2> HIDE DEF m
  <2>2. m.kind # "resend" => m.url \in Urls /\ m.row \in Row
    BY <2>1, MessageTypes
  <2>3. WriterTypeOK'
    BY <1>30, <2>1, <2>2 DEF Commit, WriterTypeOK, SeenOnDisk, m
  <2>4. rows' \in [Urls -> Row]
    <3>1. m.kind # "resend" => Upsert(rows[m.url], m.row) \in Row
      BY <2>2, RowTypes DEF FileTypeOK
    <3> QED
      BY <1>30, <2>2, <3>1 DEF Commit, FileTypeOK, m
  <2>5. linkRows' \in [Urls \X Urls -> Nat]
    BY <1>30 DEF Commit, FileTypeOK
  <2>6. FileTypeOK'
    BY <1>30, <2>4, <2>5 DEF Commit, FileTypeOK
  <2> QED
    BY <1>30, <2>3, <2>6 DEF Commit, FrontierTypeOK, PhaseTypeOK, CountersTypeOK, memVars, pageVars,
               frontVars, poolVars, probeVars, flagVars, envVars
<1>31. CASE Pause
  BY <1>31 DEF Pause, EndSession, FileTypeOK, WriterTypeOK, FrontierTypeOK, PhaseTypeOK,
         CountersTypeOK, Truncations, Running, fileVars, writerVars, frontVars, probeVars,
         poolVars, pageVars, flagVars, envVars, memVars
<1>32. CASE Finalize
  <2>1. siteIssues' \in [1..NRules -> Nat]
    BY <1>32 DEF Finalize, FileTypeOK
  <2> QED
    BY <1>32, <2>1 DEF Finalize, FileTypeOK, WriterTypeOK, FrontierTypeOK, PhaseTypeOK,
         CountersTypeOK, Running, writerVars, frontVars, probeVars, poolVars, pageVars,
         flagVars, envVars
<1>33. CASE EvaluateRule
  <2>1. siteIssues' \in [1..NRules -> Nat]
    <3>1. \/ siteIssues' = siteIssues
          \/ siteIssues' = [siteIssues EXCEPT ![rule] = @ + 1]
      BY <1>33 DEF EvaluateRule
    <3> QED
      BY <3>1 DEF FileTypeOK
  <2>2. PhaseTypeOK'
    BY <1>33 DEF EvaluateRule, PhaseTypeOK, pageVars
  <2> QED
    BY <1>33, <2>1, <2>2 DEF EvaluateRule, FileTypeOK, WriterTypeOK, FrontierTypeOK,
         CountersTypeOK, writerVars, frontVars, probeVars, poolVars, envVars
<1>34. CASE FinalizeCancelled
  BY <1>34 DEF FinalizeCancelled, EndSession, FileTypeOK, WriterTypeOK, FrontierTypeOK,
         PhaseTypeOK, CountersTypeOK, Truncations, Running, fileVars, writerVars, frontVars,
         probeVars, poolVars, pageVars, flagVars, envVars, memVars
<1>35. CASE FinalizeDone
  BY <1>35 DEF FinalizeDone, EndSession, FileTypeOK, WriterTypeOK, FrontierTypeOK,
         PhaseTypeOK, CountersTypeOK, Truncations, Running, fileVars, writerVars, frontVars,
         probeVars, poolVars, pageVars, flagVars, envVars, memVars
<1>36. CASE RequestCancel
  BY <1>36 DEF RequestCancel, FileTypeOK, WriterTypeOK, FrontierTypeOK, PhaseTypeOK,
         CountersTypeOK, Truncations, Running, fileVars, writerVars, frontVars, probeVars,
         poolVars, pageVars, flagVars, envVars, memVars
<1>37. CASE DeadlinePasses
  BY <1>37 DEF DeadlinePasses, FileTypeOK, WriterTypeOK, FrontierTypeOK, PhaseTypeOK,
         CountersTypeOK, Truncations, Running, fileVars, writerVars, frontVars, probeVars,
         poolVars, pageVars, flagVars, envVars, memVars
<1>38. CASE Crash
  BY <1>38 DEF Crash, EndSession, FileTypeOK, WriterTypeOK, FrontierTypeOK, PhaseTypeOK,
         CountersTypeOK, Truncations, Running, fileVars, writerVars, frontVars, probeVars,
         poolVars, pageVars, flagVars, envVars, memVars
<1>39. CASE Over
  BY <1>39 DEF Over, vars, FileTypeOK, WriterTypeOK, FrontierTypeOK, PhaseTypeOK,
         CountersTypeOK, Truncations, Running, fileVars, writerVars, frontVars, probeVars,
         poolVars, pageVars, flagVars, envVars, memVars
<1>40. CASE UNCHANGED vars
  BY <1>40 DEF vars, FileTypeOK, WriterTypeOK, FrontierTypeOK, PhaseTypeOK, CountersTypeOK,
         fileVars, writerVars, frontVars, probeVars, poolVars, pageVars, flagVars, envVars,
         memVars
<1> QED
  BY <1>1, <1>2, <1>3, <1>4, <1>5, <1>6, <1>7, <1>8, <1>9, <1>10, <1>11, <1>12, <1>13,
         <1>14, <1>15, <1>16, <1>17, <1>18, <1>19, <1>20, <1>21, <1>22, <1>23, <1>24, <1>25,
         <1>26, <1>27, <1>28, <1>29, <1>30, <1>31, <1>32, <1>33, <1>34, <1>35, <1>36, <1>37,
         <1>38, <1>39, <1>40 DEF Next, Progress, Setup, Loop, Joins, Page, Ending

(* Which are Booleans by themselves.                                       *)
LEMMA FlagsStep == FlagsTypeOK /\ [Next]_vars => FlagsTypeOK'
<1> SUFFICES ASSUME FlagsTypeOK, [Next]_vars PROVE FlagsTypeOK'
  OBVIOUS
<1> USE DEF FlagsTypeOK, flagVars, envVars, memVars
<1>1. CASE Start
  BY <1>1, Zenon DEF Start
<1>2. CASE Resume
  BY <1>2, Zenon DEF Resume
<1>3. CASE SetupSeed
  BY <1>3, Zenon DEF SetupSeed, SetupStep
<1>4. CASE SetupSitemap
  BY <1>4, Zenon DEF SetupSitemap, SetupStep
<1>5. CASE SitemapsOverBudget
  BY <1>5, Zenon DEF SitemapsOverBudget, SkipSitemaps
<1>6. CASE SitemapsCut
  BY <1>6, Zenon DEF SitemapsCut, SkipSitemaps
<1>7. CASE RejectProbe
  BY <1>7, Zenon DEF RejectProbe
<1>8. CASE EndSetup
  BY <1>8, Zenon DEF EndSetup
<1>9. CASE Refill
  BY <1>9, Zenon DEF Refill
<1>10. CASE Dispatch
  BY <1>10, Zenon DEF Dispatch
<1>11. CASE DispatchProbe
  BY <1>11, Zenon DEF DispatchProbe
<1>12. CASE Exhausted
  BY <1>12, Zenon DEF Exhausted
<1>13. CASE StopOnCancel
  BY <1>13, Zenon DEF StopOnCancel
<1>14. CASE StopOnDeadline
  BY <1>14, Zenon DEF StopOnDeadline
<1>15. CASE JoinExcluded
  BY <1>15, Zenon DEF JoinExcluded, Join
<1>16. CASE JoinFailed
  BY <1>16, Zenon DEF JoinFailed, Join
<1>17. CASE JoinRateLimited
  BY <1>17, Zenon DEF JoinRateLimited, Join
<1>18. CASE JoinFetched
  BY <1>18, Zenon DEF JoinFetched
<1>19. CASE JoinPanic
  BY <1>19, Zenon DEF JoinPanic
<1>20. CASE JoinProbe
  BY <1>20, Zenon DEF JoinProbe
<1>21. CASE TargetKnown
  BY <1>21, Zenon DEF TargetKnown, PageStep
<1>22. CASE TargetExternal
  BY <1>22, Zenon DEF TargetExternal, NewTarget, PageStep
<1>23. CASE TargetUnregistered
  BY <1>23, Zenon DEF TargetUnregistered, NewTarget, PageStep
<1>24. CASE TargetListed
  BY <1>24, Zenon DEF TargetListed, NewTarget, PageStep
<1>25. CASE TargetFiltered
  BY <1>25, Zenon DEF TargetFiltered, NewTarget, PageStep
<1>26. CASE TargetNotFollowed
  BY <1>26, Zenon DEF TargetNotFollowed, NewTarget, PageStep
<1>27. CASE TargetTooDeep
  BY <1>27, Zenon DEF TargetTooDeep, NewTarget, PageStep
<1>28. CASE TargetQueued
  BY <1>28, Zenon DEF TargetQueued, NewTarget, PageStep
<1>29. CASE PageDone
  BY <1>29, Zenon DEF PageDone
<1>30. CASE Commit
  BY <1>30, Zenon DEF Commit
<1>31. CASE Pause
  BY <1>31, Zenon DEF Pause, EndSession
<1>32. CASE Finalize
  BY <1>32, Zenon DEF Finalize
<1>33. CASE EvaluateRule
  BY <1>33, Zenon DEF EvaluateRule
<1>34. CASE FinalizeCancelled
  BY <1>34, Zenon DEF FinalizeCancelled, EndSession
<1>35. CASE FinalizeDone
  BY <1>35, Zenon DEF FinalizeDone, EndSession
<1>36. CASE RequestCancel
  BY <1>36, Zenon DEF RequestCancel
<1>37. CASE DeadlinePasses
  BY <1>37, Zenon DEF DeadlinePasses
<1>38. CASE Crash
  BY <1>38, Zenon DEF Crash, EndSession
<1>39. CASE Over
  BY <1>39, Zenon DEF Over, vars
<1>40. CASE UNCHANGED vars
  BY <1>40 DEF vars
<1> QED
  BY <1>1, <1>2, <1>3, <1>4, <1>5, <1>6, <1>7, <1>8, <1>9, <1>10, <1>11, <1>12, <1>13,
         <1>14, <1>15, <1>16, <1>17, <1>18, <1>19, <1>20, <1>21, <1>22, <1>23, <1>24, <1>25,
         <1>26, <1>27, <1>28, <1>29, <1>30, <1>31, <1>32, <1>33, <1>34, <1>35, <1>36, <1>37,
         <1>38, <1>39, <1>40 DEF Next, Progress, Setup, Loop, Joins, Page, Ending

(* TypeOK, in every reachable state, whatever the site and the limits. *)
THEOREM TypeCorrect == Spec => []TypeOK
<1>1. Init => TypeOK
  BY TypeInit
<1>2. TypeOK /\ [Next]_vars => TypeOK'
  BY TypeStep, FlagsStep DEF TypeOK
<1> QED
  BY <1>1, <1>2, PTL DEF Spec

-----------------------------------------------------------------------------
(* The inductive invariant holds over any number of sessions and crashes.  *)
(* Each action is one of a few kinds: it sends the row of one URL, it      *)
(* sends the page it has read, it sends nothing, it begins or ends a       *)
(* session, or it is the writer's commit.  One lemma per kind, and each    *)
(* action is shown to be of it.                                            *)

(* A queue of messages, one longer. *)
LEMMA AppendFacts ==
    ASSUME NEW q \in Seq(Message), NEW m \in Message
    PROVE  /\ DOMAIN Append(q, m) = 1..(Len(q) + 1)
           /\ DOMAIN q = 1..Len(q)
           /\ Len(q) \in Nat
           /\ \A i \in 1..Len(q) : Append(q, m)[i] = q[i]
           /\ Append(q, m)[Len(q) + 1] = m
           /\ Append(q, m) # <<>>
OBVIOUS

(* And one shorter. *)
LEMMA TailFacts ==
    ASSUME NEW q \in Seq(Message), q # <<>>
    PROVE  /\ 1 \in DOMAIN q /\ Head(q) = q[1] /\ q[1] \in Message
           /\ DOMAIN q = 1..Len(q) /\ Len(q) \in Nat \ {0}
           /\ DOMAIN Tail(q) = 1..(Len(q) - 1)
           /\ \A i \in 1..(Len(q) - 1) : Tail(q)[i] = q[i + 1] /\ i + 1 \in DOMAIN q
OBVIOUS

(* The resend is about no URL. *)
LEMMA ResendUrl == \A m \in Message : (m.url \in Urls => m.kind # "resend")
BY GraphAssumption DEF Message, ResendMsg

(* Nothing that is not seen is in the file or on its way to it. *)
LEMMA UnseenIsFresh ==
    ASSUME TypeOK, InvRecorded, phase # "idle", NEW v \in Urls, v \notin seen
    PROVE  /\ rows[v].state = "absent"
           /\ \A i \in DOMAIN unsaved : unsaved[i].url # v
<1>1. rows[v].state = "absent"
  BY DEF InvRecorded, Present
<1>2. ASSUME NEW i \in DOMAIN unsaved, unsaved[i].url = v PROVE FALSE
  <2>1. unsaved[i] \in Message
    BY DEF TypeOK, WriterTypeOK
  <2>2. unsaved[i].kind # "resend"
    BY <1>2, <2>1, ResendUrl
  <2> QED
    BY <1>2, <2>2 DEF InvRecorded
<1> QED
  BY <1>1, <1>2

(* The file is left alone. *)
LEMMA FileSame ==
    ASSUME InvSite, TargetsOnDisk, LinkRowsExact, UNCHANGED <<rows, linkRows>>
    PROVE  InvSite' /\ TargetsOnDisk' /\ LinkRowsExact'
BY DEF InvSite, TargetsOnDisk, LinkRowsExact, Done, Pending, Present

(* The session goes on and sends nothing: what it works on may only be a   *)
(* part of what it worked on.                                              *)
LEMMA SilentStep ==
    ASSUME IInv, TypeOK', UNCHANGED <<status, rows, linkRows, index, unsaved>>,
           phase # "idle", phase' # "idle",
           seen \subseteq seen', seen' \cap Internal \subseteq seen,
           Live' \subseteq Live, cur' \notin queued' \cup inFlight', queued' \cap inFlight' = {},
           probes' \cup probing' \subseteq seen \ Internal,
           InvPage'
    PROVE  IInv'
<1> USE DEF IInv
<1>1. InvMessages'
  BY DEF InvMessages, KnownBefore, Present, Targets
<1>2. InvRecorded'
  BY DEF InvRecorded, Present
<1>3. InvSeen'
  BY DEF InvSeen, Known, Present
<1>4. InvIndex'
  BY DEF InvIndex, Present
<1>5. InvIdle'
  BY DEF InvIdle
<1>6. NoRefetch'
  BY DEF NoRefetch, Unsettled
<1> QED
  BY <1>1, <1>2, <1>3, <1>4, <1>5, <1>6, FileSame

(* Sending keeps what was known, and makes the URL sent known. *)
LEMMA SendKnown ==
    ASSUME TypeOK, NEW m \in Message, Send(m), UNCHANGED rows
    PROVE  /\ \A v : Known(v) => Known(v)'
           /\ Known(m.url)'
           /\ \A v, n : n \in 1..Len(unsaved) => (KnownBefore(v, n) <=> KnownBefore(v, n)')
           /\ \A v, n : n = Len(unsaved) + 1 /\ Known(v) => KnownBefore(v, n)'
<1>1. /\ unsaved \in Seq(Message)  /\ unsaved' = Append(unsaved, m)
  BY DEF TypeOK, WriterTypeOK, Send
<1>2. /\ DOMAIN unsaved' = 1..(Len(unsaved) + 1)  /\ DOMAIN unsaved = 1..Len(unsaved)
      /\ Len(unsaved) \in Nat
      /\ \A i \in 1..Len(unsaved) : unsaved'[i] = unsaved[i]
      /\ unsaved'[Len(unsaved) + 1] = m
  BY <1>1, AppendFacts
<1> QED
  BY <1>2 DEF Known, KnownBefore, Present

(* The session goes on and sends the row of a URL nobody has settled. *)
LEMMA SendStep ==
    ASSUME IInv, TypeOK', UNCHANGED <<status, rows, linkRows, index>>,
           phase # "idle", phase' # "idle",
           NEW v \in Urls, NEW r \in Row, Send(RowMsg(v, r)),
           r.state \notin {"absent", "done"}, r.state = "pending" => v \in Internal,
           rows[v].state # "done",
           \A i \in DOMAIN unsaved : unsaved[i].url = v => unsaved[i].kind # "page",
           seen' = seen \cup {v},
           Live' \subseteq Live \cup {v},
           v \in Live' => v \notin seen /\ r.state = "pending",
           cur' \notin queued' \cup inFlight', queued' \cap inFlight' = {},
           probes' \cup probing' \subseteq seen' \ Internal,
           InvPage'
    PROVE  IInv'
<1> USE DEF IInv
<1> DEFINE m == RowMsg(v, r)
           L == Len(unsaved)
<1>1. /\ m \in Message  /\ m.kind = "row"  /\ m.url = v  /\ m.row = r
  BY MessageTypes DEF RowMsg
<1> HIDE DEF m
<1>2. /\ unsaved \in Seq(Message)  /\ unsaved' = Append(unsaved, m)
  BY DEF TypeOK, WriterTypeOK, Send, m
<1>3. /\ DOMAIN unsaved' = 1..(L + 1)  /\ DOMAIN unsaved = 1..L  /\ L \in Nat
      /\ \A i \in 1..L : unsaved'[i] = unsaved[i]
      /\ unsaved'[L + 1] = m
      /\ unsaved' # <<>>
  BY <1>1, <1>2, AppendFacts
<1>4. /\ \A w : Known(w) => Known(w)'
      /\ Known(v)'
      /\ \A w, n : n \in 1..L => (KnownBefore(w, n) <=> KnownBefore(w, n)')
  BY <1>1, SendKnown DEF m
<1> HIDE DEF L
<1>5. InvMessages'
  <2> SUFFICES ASSUME NEW i \in DOMAIN unsaved'
               PROVE  /\ unsaved'[i].kind = "resend" => i = 1
                      /\ unsaved'[i].kind = "row" =>
                           /\ unsaved'[i].row.state \notin {"absent", "done"}
                           /\ unsaved'[i].row.state = "pending" => unsaved'[i].url \in Internal
                      /\ unsaved'[i].kind = "page" =>
                           /\ unsaved'[i].row.state = "done"
                           /\ unsaved'[i].url \in Internal
                           /\ \A j \in DOMAIN unsaved' : j > i => unsaved'[j].url # unsaved'[i].url
                           /\ \A w \in Targets(unsaved'[i].url) : KnownBefore(w, i)'
                      /\ unsaved'[i].kind # "resend" => rows'[unsaved'[i].url].state # "done"
    BY DEF InvMessages, Targets
  <2>1. CASE i = L + 1
    BY <1>1, <1>3, <2>1
  <2>2. CASE i \in 1..L
    BY <1>1, <1>3, <1>4, <2>2 DEF InvMessages
  <2> QED
    BY <1>3, <2>1, <2>2
<1>6. InvRecorded'
  BY <1>1, <1>3 DEF InvRecorded, Present
<1>7. InvSeen'
  BY <1>4 DEF InvSeen
<1>8. InvIndex'
  BY <1>3 DEF InvIndex, Present
<1>9. InvIdle'
  BY DEF InvIdle
<1>10. NoRefetch'
  <2> SUFFICES ASSUME NEW u \in Live' PROVE Unsettled(u)'
    BY DEF NoRefetch
  <2>1. CASE u = v
    <3>1. rows[v].state = "absent" /\ \A i \in DOMAIN unsaved : unsaved[i].url # v
      BY <2>1, UnseenIsFresh
    <3> QED
      BY <1>1, <1>3, <2>1, <3>1 DEF Unsettled
  <2>2. CASE u # v
    BY <1>1, <1>3, <2>2 DEF NoRefetch, Unsettled
  <2> QED
    BY <2>1, <2>2
<1> QED
  BY <1>5, <1>6, <1>7, <1>8, <1>9, <1>10, FileSame

(* The links of the page are all read: where they lead is known. *)
LEMMA PageTargetsKnown ==
    ASSUME IInv, phase = "page", next > Len(Links[cur]) + 1
    PROVE  cur \in Internal /\ \A v \in Targets(cur) : Known(v)
<1> USE DEF IInv
<1>1. cur \in Urls /\ cur \in Live
  BY DEF TypeOK, PhaseTypeOK, Live
<1>2. Links[cur] \in Seq(Urls) /\ Len(Links[cur]) \in Nat /\ next \in Nat
  BY <1>1, GraphAssumption DEF TypeOK, PhaseTypeOK
<1>3. ASSUME NEW v \in Targets(cur) PROVE Known(v)
  <2>1. PICK n \in 1..(Len(Links[cur]) + 1) : v = Lead(cur, n)
    <3>1. CASE v \in LinksOf(cur)
      <4>1. PICK n \in 1..Len(Links[cur]) : v = Links[cur][n]
        BY <1>2, <3>1 DEF LinksOf
      <4>2. n # Len(Links[cur]) + 1 /\ n \in 1..(Len(Links[cur]) + 1)
        BY <1>2
      <4> QED
        BY <4>1, <4>2 DEF Lead
    <3>2. CASE v = Location[cur]
      BY <1>2, <3>2 DEF Lead
    <3> QED
      BY <3>1, <3>2 DEF Targets
  <2>2. n \in 1..(next - 1)
    BY <1>2
  <2>3. v \in seen \cup {NoUrl}
    BY <2>1, <2>2 DEF InvPage
  <2>4. v \in Internal /\ v # NoUrl
    BY GraphAssumption DEF Targets
  <2> QED
    BY <2>3, <2>4 DEF InvSeen
<1> QED
  BY <1>1, <1>3 DEF InvSeen

(* The page that is handled is sent, behind all it leads to. *)
LEMMA PageDoneStep ==
    ASSUME IInv, TypeOK', PageDone
    PROVE  IInv'
<1> USE DEF IInv
<1> DEFINE r == UrlRow("done", "none", depth[cur], cur \in inSitemap)
           m == PageMsg(cur, r)
           L == Len(unsaved)
<1>1. /\ phase = "page"  /\ next > Len(Links[cur]) + 1
      /\ UNCHANGED <<status, rows, linkRows, index, seen, queued, probes>>
      /\ Send(m)  /\ cur' = NoUrl  /\ CloseJoin(cur, truncated)
  BY DEF PageDone, fileVars, frontVars
<1>2. /\ phase' \in {"drain", "top"}  /\ inFlight' \subseteq inFlight \ {cur}
      /\ probing' \subseteq probing
  BY <1>1, CloseJoinEffect
<1>3. /\ cur \in Urls  /\ cur # NoUrl  /\ cur \in Live  /\ r.state = "done"  /\ r \in Row
  <2>1. cur \in Urls /\ cur # NoUrl /\ depth[cur] \in Nat
    BY <1>1, GraphAssumption DEF TypeOK, PhaseTypeOK, FrontierTypeOK
  <2> QED
    BY <2>1, RowTypes DEF Live, States, Reasons, UrlRow
<1> HIDE DEF r
<1>4. /\ m \in Message  /\ m.kind = "page"  /\ m.url = cur  /\ m.row = r
  BY <1>3, MessageTypes DEF PageMsg
<1> HIDE DEF m
<1>5. /\ unsaved \in Seq(Message)  /\ unsaved' = Append(unsaved, m)
  BY <1>1 DEF TypeOK, WriterTypeOK, Send
<1>6. /\ DOMAIN unsaved' = 1..(L + 1)  /\ DOMAIN unsaved = 1..L  /\ L \in Nat
      /\ \A i \in 1..L : unsaved'[i] = unsaved[i]
      /\ unsaved'[L + 1] = m
      /\ unsaved' # <<>>
  BY <1>4, <1>5, AppendFacts
<1>7. /\ \A w : Known(w) => Known(w)'
      /\ \A w, n : n \in 1..L => (KnownBefore(w, n) <=> KnownBefore(w, n)')
      /\ \A w, n : n = L + 1 /\ Known(w) => KnownBefore(w, n)'
  BY <1>1, <1>4, SendKnown
<1> HIDE DEF L
<1>8. Unsettled(cur) /\ cur \in seen \cap Internal
  BY <1>3 DEF NoRefetch, InvSeen
<1>9. InvMessages'
  <2> SUFFICES ASSUME NEW i \in DOMAIN unsaved'
               PROVE  /\ unsaved'[i].kind = "resend" => i = 1
                      /\ unsaved'[i].kind = "row" =>
                           /\ unsaved'[i].row.state \notin {"absent", "done"}
                           /\ unsaved'[i].row.state = "pending" => unsaved'[i].url \in Internal
                      /\ unsaved'[i].kind = "page" =>
                           /\ unsaved'[i].row.state = "done"
                           /\ unsaved'[i].url \in Internal
                           /\ \A j \in DOMAIN unsaved' : j > i => unsaved'[j].url # unsaved'[i].url
                           /\ \A w \in Targets(unsaved'[i].url) : KnownBefore(w, i)'
                      /\ unsaved'[i].kind # "resend" => rows'[unsaved'[i].url].state # "done"
    BY DEF InvMessages, Targets
  <2>1. CASE i = L + 1
    <3>1. \A w \in Targets(cur) : KnownBefore(w, i)'
      BY <1>1, <1>7, <2>1, PageTargetsKnown
    <3>2. \A j \in DOMAIN unsaved' : ~(j > i)
      BY <1>6, <2>1
    <3>3. unsaved'[i] = m /\ rows'[cur].state # "done"
      BY <1>1, <1>6, <1>8, <2>1 DEF Unsettled
    <3> QED
      BY <1>3, <1>4, <1>8, <3>1, <3>2, <3>3
  <2>2. CASE i \in 1..L
    <3>1. unsaved[i].kind = "page" => unsaved[i].url # cur
      BY <1>6, <1>8, <2>2 DEF Unsettled, InvMessages
    <3> QED
      BY <1>1, <1>4, <1>6, <1>7, <2>2, <3>1 DEF InvMessages
  <2> QED
    BY <1>6, <2>1, <2>2
<1>10. InvRecorded'
  BY <1>1, <1>4, <1>6, <1>8 DEF InvRecorded, Present
<1>11. Live' \subseteq Live \ {cur}
  BY <1>1, <1>2, <1>3 DEF Live, NoRefetch
<1>12. InvSeen'
  BY <1>1, <1>2, <1>7, <1>11 DEF InvSeen
<1>13. InvIndex'
  BY <1>1, <1>6 DEF InvIndex, Present
<1>14. InvIdle' /\ InvPage'
  BY <1>1, <1>2 DEF InvIdle, InvPage
<1>15. NoRefetch'
  <2>1. ASSUME NEW u \in Live' PROVE Unsettled(u)'
    BY <1>1, <1>4, <1>6, <1>11 DEF NoRefetch, Unsettled
  <2>2. NoUrl \notin queued \cup inFlight
    BY GraphAssumption DEF TypeOK, FrontierTypeOK
  <2> QED
    BY <1>1, <1>2, <2>1, <2>2 DEF NoRefetch
<1> QED
  BY <1>1, <1>9, <1>10, <1>12, <1>13, <1>14, <1>15, FileSame

(* The writer commits the oldest message: what the others need is still    *)
(* before them, or in the file.                                            *)
LEMMA CommitStep ==
    ASSUME IInv, TypeOK', Commit
    PROVE  IInv'
<1> USE DEF IInv
<1>1. unsaved \in Seq(Message) /\ unsaved # <<>> /\ unsaved' = Tail(unsaved)
  BY DEF TypeOK, WriterTypeOK, Commit
<1>h. PICK m \in Message : m = Head(unsaved)
  BY <1>1, TailFacts
<1>l. PICK L \in Nat : L = Len(unsaved)
  BY <1>1
<1>2. /\ m = unsaved[1]  /\ m \in Message  /\ 1 \in DOMAIN unsaved
      /\ DOMAIN unsaved = 1..L  /\ L \in Nat \ {0}
      /\ DOMAIN unsaved' = 1..(L - 1)
      /\ \A i \in 1..(L - 1) : unsaved'[i] = unsaved[i + 1] /\ i + 1 \in DOMAIN unsaved
  BY <1>1, <1>h, <1>l, TailFacts
<1>3. UNCHANGED <<status, phase, cur, next, queued, seen, inFlight, probes, probing>>
  BY DEF Commit, memVars, pageVars, frontVars, poolVars, probeVars
<1>4. phase # "idle" /\ status # "none"
  BY <1>1 DEF InvIdle
<1>5. /\ m.kind = "resend" => UNCHANGED <<rows, linkRows>> /\ index' = index \cup SeenOnDisk
      /\ m.kind # "resend" =>
           /\ rows' = [rows EXCEPT ![m.url] = Upsert(rows[m.url], m.row)]
           /\ index' = index \cup {m.url}
           /\ linkRows' = [p \in Urls \X Urls |->
                IF m.kind = "page" /\ p[1] = m.url /\ p[2] \in LinksOf(m.url) \cap index'
                THEN linkRows[p] + 1 ELSE linkRows[p]]
  BY <1>h DEF Commit
<1>6. m.kind # "resend" =>
        /\ m.url \in Urls  /\ m.row \in Row  /\ m.kind \in {"row", "page"}
        /\ m.row.state # "absent"
        /\ m.row.state \in {"pending", "done"} => m.url \in Internal
        /\ m.row.state = "done" => m.kind = "page"
        /\ m.kind = "page" => m.row.state = "done"
        /\ rows[m.url].state # "done"
  BY <1>2, MessageTypes DEF InvMessages
<1>7. m.kind # "resend" =>
        /\ rows'[m.url].state = m.row.state
        /\ \A u \in Urls : u # m.url => rows'[u] = rows[u]
  <2>1. rows \in [Urls -> Row]
    BY DEF TypeOK, FileTypeOK
  <2>2. m.kind # "resend" => \A old : Upsert(old, m.row).state = m.row.state
    BY <1>6 DEF Upsert, Row
  <2> QED
    BY <1>5, <1>6, <2>1, <2>2
<1>8. \A u \in Urls : Present(u) => Present(u)'
  BY <1>5, <1>6, <1>7 DEF Present
<1>9. m.kind # "resend" => Present(m.url)'
  BY <1>6, <1>7 DEF Present
<1>10. \A v \in Urls : \A n, k :
         n \in 1..(L - 1) /\ k = n + 1 /\ KnownBefore(v, k) => KnownBefore(v, n)'
  <2> SUFFICES ASSUME NEW v \in Urls, NEW n \in 1..(L - 1), KnownBefore(v, n + 1)
               PROVE  KnownBefore(v, n)'
    OBVIOUS
  <2>1. CASE Present(v)
    BY <1>8, <2>1 DEF KnownBefore
  <2>2. CASE \E i \in 1..n : unsaved[i].url = v
    <3>1. PICK i \in 1..n : unsaved[i].url = v
      BY <2>2
    <3>2. CASE i = 1
      <4>1. m.kind # "resend" /\ m.url = v
        BY <1>2, <3>1, <3>2, ResendUrl
      <4> QED
        BY <1>9, <4>1 DEF KnownBefore
    <3>3. CASE i # 1
      <4>1. i - 1 \in 1..(n - 1) /\ i - 1 \in 1..(L - 1) /\ (i - 1) + 1 = i
        BY <1>2, <3>3
      <4>2. unsaved'[i - 1].url = v
        BY <1>2, <3>1, <4>1
      <4> QED
        BY <4>1, <4>2 DEF KnownBefore
    <3> QED
      BY <3>2, <3>3
  <2>3. (n + 1) - 1 = n
    BY <1>2
  <2> QED
    BY <2>1, <2>2, <2>3 DEF KnownBefore
<1>11. \A v \in Urls : Known(v) => Known(v)'
  <2> SUFFICES ASSUME NEW v \in Urls, Known(v) PROVE Known(v)'
    OBVIOUS
  <2>1. CASE Present(v)
    BY <1>8, <2>1 DEF Known
  <2>2. CASE \E i \in DOMAIN unsaved : unsaved[i].url = v
    <3>1. PICK i \in DOMAIN unsaved : unsaved[i].url = v
      BY <2>2
    <3>2. CASE i = 1
      <4>1. m.kind # "resend" /\ m.url = v
        BY <1>2, <3>1, <3>2, ResendUrl
      <4> QED
        BY <1>9, <4>1 DEF Known
    <3>3. CASE i # 1
      <4>1. i - 1 \in 1..(L - 1) /\ (i - 1) + 1 = i
        BY <1>2, <3>3
      <4> QED
        BY <1>2, <3>1, <4>1 DEF Known
    <3> QED
      BY <3>2, <3>3
  <2> QED
    BY <2>1, <2>2 DEF Known
<1>12. InvMessages'
  <2> SUFFICES ASSUME NEW i \in DOMAIN unsaved'
               PROVE  /\ unsaved'[i].kind = "resend" => i = 1
                      /\ unsaved'[i].kind = "row" =>
                           /\ unsaved'[i].row.state \notin {"absent", "done"}
                           /\ unsaved'[i].row.state = "pending" => unsaved'[i].url \in Internal
                      /\ unsaved'[i].kind = "page" =>
                           /\ unsaved'[i].row.state = "done"
                           /\ unsaved'[i].url \in Internal
                           /\ \A j \in DOMAIN unsaved' : j > i => unsaved'[j].url # unsaved'[i].url
                           /\ \A w \in Targets(unsaved'[i].url) : KnownBefore(w, i)'
                      /\ unsaved'[i].kind # "resend" => rows'[unsaved'[i].url].state # "done"
    BY DEF InvMessages, Targets
  <2> DEFINE k == i + 1
  <2>1. /\ k \in DOMAIN unsaved  /\ unsaved'[i] = unsaved[k]  /\ k > 1  /\ k # 1
        /\ i \in 1..(L - 1)
    BY <1>2
  <2> HIDE DEF k
  <2>2. unsaved[k].kind # "resend"
    BY <2>1 DEF InvMessages
  <2>3. unsaved[k].kind = "page" =>
          /\ \A j \in DOMAIN unsaved' : j > i => unsaved'[j].url # unsaved[k].url
          /\ \A w \in Targets(unsaved[k].url) : KnownBefore(w, i)'
    <3> SUFFICES ASSUME unsaved[k].kind = "page"
                 PROVE  /\ \A j \in DOMAIN unsaved' : j > i => unsaved'[j].url # unsaved[k].url
                        /\ \A w \in Targets(unsaved[k].url) : KnownBefore(w, i)'
      OBVIOUS
    <3>1. ASSUME NEW j \in DOMAIN unsaved', j > i PROVE unsaved'[j].url # unsaved[k].url
      <4>1. j + 1 \in DOMAIN unsaved /\ j + 1 > k /\ unsaved'[j] = unsaved[j + 1]
        BY <1>2, <2>1, <3>1 DEF k
      <4> QED
        BY <2>1, <4>1 DEF InvMessages
    <3>2. ASSUME NEW w \in Targets(unsaved[k].url) PROVE KnownBefore(w, i)'
      <4>1. w \in Urls
        BY GraphAssumption DEF Targets
      <4>2. KnownBefore(w, k)
        BY <2>1 DEF InvMessages
      <4> QED
        BY <1>10, <2>1, <4>1, <4>2 DEF k
    <3> QED
      BY <3>1, <3>2
  <2>4. rows'[unsaved[k].url].state # "done"
    <3>1. unsaved[k].url \in Urls /\ rows[unsaved[k].url].state # "done"
      <4>1. unsaved[k] \in Message
        BY <1>1, <2>1
      <4> QED
        BY <2>1, <2>2, <4>1, MessageTypes DEF InvMessages
    <3>2. CASE m.kind # "resend" /\ unsaved[k].url = m.url
      <4>1. m.kind # "page"
        BY <1>2, <2>1, <3>2 DEF InvMessages
      <4> QED
        BY <1>6, <1>7, <3>2, <4>1
    <3>3. CASE m.kind = "resend" \/ unsaved[k].url # m.url
      BY <1>5, <1>7, <3>1, <3>3
    <3> QED
      BY <3>2, <3>3
  <2> QED
    BY <2>1, <2>2, <2>3, <2>4 DEF InvMessages
<1>13. InvRecorded'
  <2>1. ASSUME NEW u \in Urls, Present(u)' PROVE u \in seen'
    <3>1. m.kind # "resend" => m.url \in seen
      BY <1>2, <1>4 DEF InvRecorded
    <3> QED
      BY <1>3, <1>4, <1>5, <1>7, <2>1, <3>1 DEF InvRecorded, Present
  <2>2. ASSUME NEW i \in DOMAIN unsaved', unsaved'[i].kind # "resend"
        PROVE  unsaved'[i].url \in seen'
    BY <1>2, <1>3, <1>4, <2>2 DEF InvRecorded
  <2> QED
    BY <2>1, <2>2 DEF InvRecorded
<1>14. InvSeen'
  BY <1>3, <1>11, GraphAssumption DEF InvSeen, Live
<1>15. InvPage' /\ InvIdle'
  BY <1>3, <1>4 DEF InvPage, InvIdle, Lead
<1>16. \A u \in index' : Present(u)'
  <2>1. \A u \in index : u \in Urls /\ Present(u)
    BY DEF InvIndex, TypeOK, WriterTypeOK
  <2> QED
    BY <1>5, <1>8, <1>9, <2>1 DEF SeenOnDisk
<1>17. \A u \in Urls : Present(u)' => u \in index'
  <2>1. CASE m.kind = "resend"
    BY <1>5, <2>1 DEF SeenOnDisk, Present
  <2>2. CASE m.kind # "resend"
    BY <1>2, <1>4, <1>5, <1>7, <2>2 DEF InvIndex, Present
  <2> QED
    BY <2>1, <2>2
<1>18. InvSite'
  BY <1>5, <1>6, <1>7 DEF InvSite, Pending, Done
<1>19. NoRefetch'
  <2>1. ASSUME NEW u \in Live PROVE Unsettled(u)'
    <3>1. u \in Urls /\ Unsettled(u)
      BY GraphAssumption DEF InvSeen, NoRefetch
    <3>2. CASE m.kind # "resend" /\ u = m.url
      BY <1>2, <1>7, <3>1, <3>2 DEF Unsettled
    <3>3. CASE m.kind = "resend" \/ u # m.url
      <4>1. rows'[u] = rows[u]
        BY <1>5, <1>7, <3>1, <3>3
      <4>2. \A i \in DOMAIN unsaved' : \E k \in DOMAIN unsaved : unsaved'[i] = unsaved[k]
        BY <1>2
      <4> QED
        BY <3>1, <4>1, <4>2 DEF Unsettled
    <3> QED
      BY <3>2, <3>3
  <2> QED
    BY <1>3, <2>1 DEF NoRefetch, Live
<1>20. TargetsOnDisk'
  <2> SUFFICES ASSUME NEW u \in Done', NEW v \in Targets(u) PROVE Present(v)'
    BY DEF TargetsOnDisk, Targets
  <2>1. u \in Urls /\ v \in Urls
    BY GraphAssumption DEF Done, Targets
  <2>2. CASE u \in Done
    BY <1>8, <2>1, <2>2 DEF TargetsOnDisk
  <2>3. CASE u \notin Done
    <3>1. m.kind = "page" /\ u = m.url
      BY <1>5, <1>6, <1>7, <2>1, <2>3 DEF Done
    <3>2. KnownBefore(v, 1)
      BY <1>2, <3>1 DEF InvMessages
    <3> QED
      BY <1>8, <2>1, <3>2 DEF KnownBefore
  <2> QED
    BY <2>2, <2>3
<1>21. LinkRowsExact'
  <2> SUFFICES ASSUME NEW u \in Urls, NEW v \in Urls
               PROVE  /\ linkRows'[<<u, v>>] <= 1
                      /\ linkRows'[<<u, v>>] = 1 => u \in Done' /\ v \in LinksOf(u) /\ Present(v)'
                      /\ u \in Done' /\ v \in LinksOf(u) \cap Internal => linkRows'[<<u, v>>] = 1
    BY DEF LinkRowsExact, LinksOf
  <2>1. /\ linkRows[<<u, v>>] \in Nat  /\ linkRows[<<u, v>>] <= 1
        /\ linkRows[<<u, v>>] = 1 => u \in Done /\ v \in LinksOf(u) /\ Present(v)
        /\ u \in Done /\ v \in LinksOf(u) \cap Internal => linkRows[<<u, v>>] = 1
    BY DEF LinkRowsExact, TypeOK, FileTypeOK
  <2>2. u \in Done => u \in Done'
    BY <1>5, <1>6, <1>7 DEF Done
  <2>3. u \in Done' /\ u \notin Done => m.kind = "page" /\ u = m.url
    BY <1>5, <1>6, <1>7 DEF Done
  <2>4. CASE m.kind = "page" /\ u = m.url /\ v \in LinksOf(u) \cap index'
    <3>1. u \notin Done /\ u \in Done'
      BY <1>6, <1>7, <2>4 DEF Done
    <3>2. linkRows'[<<u, v>>] = linkRows[<<u, v>>] + 1
      BY <1>5, <2>4
    <3> QED
      BY <1>16, <2>1, <2>4, <3>1, <3>2
  <2>5. CASE ~(m.kind = "page" /\ u = m.url /\ v \in LinksOf(u) \cap index')
    <3>1. linkRows'[<<u, v>>] = linkRows[<<u, v>>]
      BY <1>5, <2>5
    <3>2. u \in Done' /\ v \in LinksOf(u) \cap Internal => u \in Done
      <4> SUFFICES ASSUME u \in Done', v \in LinksOf(u) \cap Internal, u \notin Done PROVE FALSE
        OBVIOUS
      <4>1. m.kind = "page" /\ u = m.url
        BY <2>3
      <4>2. KnownBefore(v, 1)
        BY <1>2, <4>1 DEF InvMessages, Targets
      <4>3. Present(v)'
        BY <1>8, <4>2 DEF KnownBefore
      <4> QED
        BY <1>17, <2>5, <4>1, <4>3
    <3> QED
      BY <1>8, <2>1, <2>2, <3>1, <3>2
  <2> QED
    BY <2>4, <2>5
<1> QED
  BY <1>3, <1>12, <1>13, <1>14, <1>15, <1>16, <1>17, <1>18, <1>19, <1>20, <1>21 DEF InvIndex

(* The session is over: what was not committed is gone, and the file is    *)
(* what it was.                                                            *)
LEMMA EndStep ==
    ASSUME IInv, TypeOK', EndSession, UNCHANGED <<rows, linkRows>>, status' # "none"
    PROVE  IInv'
<1> USE DEF IInv
<1>1. /\ phase' = "idle"  /\ unsaved' = <<>>  /\ index' = {}  /\ seen' = {}  /\ cur' = NoUrl
      /\ queued' = {}  /\ inFlight' = {}  /\ probes' = {}  /\ probing' = {}
  BY DEF EndSession
<1>2. InvMessages' /\ InvRecorded' /\ InvPage' /\ InvIndex' /\ InvIdle'
  BY <1>1 DEF InvMessages, InvRecorded, InvPage, InvIndex, InvIdle
<1>3. Live' = {}
  BY <1>1 DEF Live
<1>4. InvSeen' /\ NoRefetch'
  BY <1>1, <1>3 DEF InvSeen, NoRefetch
<1> QED
  BY <1>2, <1>4, FileSame

(* A new file is empty, and so is the session.                             *)
LEMMA StartStep ==
    ASSUME IInv, TypeOK', Start
    PROVE  IInv'
<1> USE DEF IInv
<1>1. /\ unsaved = <<>>  /\ index = {}  /\ seen = {}  /\ cur = NoUrl
      /\ queued = {}  /\ inFlight = {}  /\ probes = {}  /\ probing = {}
      /\ \A u \in Urls : ~Present(u)
  BY DEF Start, InvIdle
<1>2. /\ status' = "running"  /\ phase' = "setup"
      /\ UNCHANGED <<rows, linkRows, unsaved, index, seen, cur, queued, inFlight, probes, probing>>
  BY DEF Start, writerVars, pageVars, frontVars, poolVars, probeVars
<1>3. Live' = {}
  BY <1>1, <1>2 DEF Live
<1>4. InvMessages' /\ InvRecorded' /\ InvPage' /\ InvIndex' /\ InvIdle'
  BY <1>1, <1>2 DEF InvMessages, InvRecorded, InvPage, InvIndex, InvIdle, Present
<1>5. InvSeen' /\ NoRefetch'
  BY <1>1, <1>2, <1>3 DEF InvSeen, NoRefetch
<1> QED
  BY <1>2, <1>4, <1>5, FileSame

(* A resume takes up exactly what the file has pending. *)
LEMMA ResumeStep ==
    ASSUME IInv, TypeOK', Resume
    PROVE  IInv'
<1> USE DEF IInv
<1>1. /\ index = {}  /\ cur = NoUrl  /\ inFlight = {}  /\ probes = {}  /\ probing = {}
  BY DEF Resume, InvIdle
<1>2. /\ status' = "running"  /\ phase' = "setup"
      /\ UNCHANGED <<rows, linkRows, index, cur, inFlight, probes, probing>>
      /\ queued' = Pending  /\ seen' = SeenOnDisk  /\ unsaved' = <<ResendMsg>>
  BY DEF Resume, pageVars, poolVars, probeVars, ResendExistingRows
<1>3. /\ DOMAIN unsaved' = {1}  /\ unsaved'[1] = ResendMsg  /\ unsaved' # <<>>
      /\ ResendMsg.kind = "resend"  /\ ResendMsg.url = NoUrl
  BY <1>2 DEF ResendMsg
<1>4. Live' = Pending
  BY <1>1, <1>2 DEF Live
<1>5. Pending \subseteq SeenOnDisk /\ Pending \subseteq Internal
  BY DEF Pending, SeenOnDisk, Present, InvSite
<1>6. InvMessages'
  BY <1>3 DEF InvMessages
<1>7. InvRecorded' /\ InvPage' /\ InvIndex' /\ InvIdle'
  BY <1>1, <1>2, <1>3 DEF InvRecorded, InvPage, InvIndex, InvIdle, SeenOnDisk, Present
<1>8. InvSeen'
  BY <1>1, <1>2, <1>4, <1>5 DEF InvSeen, Known, SeenOnDisk, Present
<1>9. NoRefetch'
  <2>1. ASSUME NEW u \in Pending PROVE Unsettled(u)'
    <3>1. u \in Urls /\ u # NoUrl /\ rows[u].state = "pending"
      BY GraphAssumption DEF Pending
    <3> QED
      BY <1>2, <1>3, <3>1 DEF Unsettled
  <2>2. NoUrl \notin Pending
    BY GraphAssumption DEF Pending
  <2> QED
    BY <1>1, <1>2, <1>4, <2>1, <2>2 DEF NoRefetch
<1> QED
  BY <1>2, <1>6, <1>7, <1>8, <1>9, FileSame

-----------------------------------------------------------------------------
(* The steps of a session that leave the page and the pool to others. *)

(* Not reading a page after the step, or reading the same one no further. *)
LEMMA PageStays ==
    ASSUME InvPage, seen \subseteq seen',
           phase' # "page" \/ UNCHANGED <<phase, cur, next>>
    PROVE  InvPage'
BY DEF InvPage, Lead

(* One link further, which is seen. *)
LEMMA PageAdvances ==
    ASSUME TypeOK, InvPage, PageStep, seen \subseteq seen', Target \in seen' \cup {NoUrl}
    PROVE  InvPage'
<1>1. /\ phase = "page"  /\ next \in Nat \ {0}  /\ next' = next + 1  /\ cur' = cur
  BY DEF PageStep, TypeOK, PhaseTypeOK
<1>2. Lead(cur, next) = Target
  BY DEF Lead, Target, AtRedirect
<1>3. ASSUME NEW n \in 1..(next' - 1) PROVE Lead(cur, n) \in seen' \cup {NoUrl}
  <2>1. n = next \/ n \in 1..(next - 1)
    BY <1>1
  <2> QED
    BY <1>1, <1>2, <2>1 DEF InvPage
<1> QED
  BY <1>1, <1>3 DEF InvPage, Lead

(* What a step of a page needs of SilentStep and SendStep. *)
LEMMA PageStepFrame ==
    ASSUME IInv, PageStep
    PROVE  /\ UNCHANGED <<status, rows, linkRows, index, cur, inFlight, probing, phase>>
           /\ phase = "page"
BY DEF PageStep, fileVars, poolVars

(* A URL that is new to the session, registered and not queued. *)
LEMMA RegisterStep ==
    ASSUME IInv, TypeOK', UNCHANGED <<status, rows, linkRows, index, cur, inFlight>>,
           phase # "idle", phase' # "idle",
           NEW v \in Urls, v \notin seen, NEW r \in Row, Register(v, r),
           r.state \in {"excluded", "skipped"},
           probes' \cup probing' \subseteq seen' \ Internal,
           InvPage'
    PROVE  IInv'
<1>1. /\ rows[v].state = "absent"
      /\ \A i \in DOMAIN unsaved : unsaved[i].url # v
  BY UnseenIsFresh DEF IInv
<1>2. seen' = seen \cup {v} /\ UNCHANGED queued /\ Send(RowMsg(v, r))
  BY DEF Register
<1>3. Live' = Live /\ Live \subseteq seen
  BY <1>2 DEF Live, IInv, InvSeen
<1>4. cur' \notin queued' \cup inFlight' /\ queued' \cap inFlight' = {}
  BY <1>2 DEF IInv, NoRefetch
<1> QED
  BY <1>1, <1>2, <1>3, <1>4, SendStep

(* A new page of the site, queued. *)
LEMMA EnqueueStep ==
    ASSUME IInv, TypeOK', UNCHANGED <<status, rows, linkRows, index, cur, inFlight>>,
           phase # "idle", phase' # "idle",
           NEW v \in Internal, v \notin seen, NEW d, NEW sm, Enqueue(v, d, sm),
           UrlRow("pending", "none", d, sm) \in Row,
           probes' \cup probing' \subseteq seen' \ Internal,
           InvPage'
    PROVE  IInv'
<1> DEFINE r == UrlRow("pending", "none", d, sm)
<1>1. v \in Urls /\ r.state = "pending"
  BY GraphAssumption DEF UrlRow
<1> HIDE DEF r
<1>2. /\ rows[v].state = "absent"
      /\ \A i \in DOMAIN unsaved : unsaved[i].url # v
  BY <1>1, UnseenIsFresh DEF IInv
<1>3. /\ seen' = seen \cup {v}  /\ queued' = queued \cup {v}  /\ Send(RowMsg(v, r))
      /\ r \in Row
  BY DEF Enqueue, r
<1>4. Live' \subseteq Live \cup {v} /\ Live \subseteq seen
  BY <1>3 DEF Live, IInv, InvSeen
<1>5. v # cur /\ v \notin inFlight
  BY <1>1, <1>4, GraphAssumption DEF Live
<1>6. cur' \notin queued' \cup inFlight' /\ queued' \cap inFlight' = {}
  BY <1>3, <1>5 DEF IInv, NoRefetch
<1> QED
  BY <1>1, <1>2, <1>3, <1>4, <1>6, SendStep

(* A seed that is new is queued, or registered if it is filtered out.      *)
LEMMA SetupSeedStep ==
    ASSUME IInv, TypeOK', SetupSeed
    PROVE  IInv'
<1> DEFINE u == Seeds[next]
<1>1. /\ UNCHANGED <<status, rows, linkRows, index, phase, cur, inFlight, probes, probing>>
      /\ phase = "setup"
  BY DEF SetupSeed, SetupStep, fileVars, poolVars, probeVars
<1>2. u \in Internal
  BY GraphAssumption DEF SetupSeed, SetupStep, IInv, TypeOK, PhaseTypeOK
<1> HIDE DEF u
<1>3. seen \subseteq seen'
  BY DEF SetupSeed, u, Register, Enqueue, frontVars
<1>4. InvPage'
  BY <1>1, <1>3, PageStays DEF IInv
<1>5. probes' \cup probing' \subseteq seen' \ Internal
  BY <1>1, <1>3 DEF IInv, InvSeen
<1>6. CASE UNCHANGED <<frontVars, unsaved>>
  <2>1. UNCHANGED <<queued, seen, unsaved>>
    BY <1>6 DEF frontVars
  <2>2. Live' = Live /\ cur' \notin queued' \cup inFlight' /\ queued' \cap inFlight' = {}
    BY <1>1, <2>1 DEF Live, IInv, NoRefetch
  <2> QED
    BY <1>1, <1>4, <1>5, <2>1, <2>2, SilentStep
<1>7. ASSUME u \notin seen, NEW r \in Row, r.state \in {"excluded", "skipped"}, Register(u, r)
      PROVE  IInv'
  <2>1. u \in Urls
    BY <1>2, GraphAssumption
  <2> QED
    BY <1>1, <1>4, <1>5, <1>7, <2>1, RegisterStep
<1>8. CASE u \notin seen /\ Enqueue(u, 0, FALSE)
  <2>1. UrlRow("pending", "none", 0, FALSE) \in Row
    BY RowTypes DEF States, Reasons
  <2> QED
    BY <1>1, <1>2, <1>4, <1>5, <1>8, <2>1, EnqueueStep
<1>9. LET r == UrlRow("excluded", "pattern", 0, FALSE) IN r \in Row /\ r.state = "excluded"
  BY RowTypes DEF States, Reasons, UrlRow
<1>10. \/ UNCHANGED <<frontVars, unsaved>>
       \/ u \notin seen /\ Register(u, UrlRow("excluded", "pattern", 0, FALSE))
       \/ u \notin seen /\ Enqueue(u, 0, FALSE)
  BY DEF SetupSeed, u
<1> QED
  BY <1>6, <1>7, <1>8, <1>9, <1>10

(* The same for the sitemaps.                                              *)
LEMMA SetupSitemapStep ==
    ASSUME IInv, TypeOK', SetupSitemap
    PROVE  IInv'
<1> DEFINE u == SitemapUrls[next - Len(Seeds)]
<1>1. /\ UNCHANGED <<status, rows, linkRows, index, phase, cur, inFlight, probes, probing>>
      /\ phase = "setup"
  BY DEF SetupSitemap, SetupStep, fileVars, poolVars, probeVars
<1>2. u \in Internal
  <2>1. next - Len(Seeds) \in 1..Len(SitemapUrls)
    BY GraphAssumption DEF SetupSitemap, SetupStep, SetupLength, IInv, TypeOK, PhaseTypeOK
  <2> QED
    BY <2>1, GraphAssumption
<1> HIDE DEF u
<1>3. seen \subseteq seen'
  BY DEF SetupSitemap, u, Register, Enqueue, frontVars
<1>4. InvPage'
  BY <1>1, <1>3, PageStays DEF IInv
<1>5. probes' \cup probing' \subseteq seen' \ Internal
  BY <1>1, <1>3 DEF IInv, InvSeen
<1>6. CASE UNCHANGED <<frontVars, unsaved>>
  <2>1. UNCHANGED <<queued, seen, unsaved>>
    BY <1>6 DEF frontVars
  <2>2. Live' = Live /\ cur' \notin queued' \cup inFlight' /\ queued' \cap inFlight' = {}
    BY <1>1, <2>1 DEF Live, IInv, NoRefetch
  <2> QED
    BY <1>1, <1>4, <1>5, <2>1, <2>2, SilentStep
<1>7. ASSUME u \notin seen, NEW r \in Row, r.state \in {"excluded", "skipped"}, Register(u, r)
      PROVE  IInv'
  <2>1. u \in Urls
    BY <1>2, GraphAssumption
  <2> QED
    BY <1>1, <1>4, <1>5, <1>7, <2>1, RegisterStep
<1>8. CASE u \notin seen /\ Enqueue(u, 0, TRUE)
  <2>1. UrlRow("pending", "none", 0, TRUE) \in Row
    BY RowTypes DEF States, Reasons
  <2> QED
    BY <1>1, <1>2, <1>4, <1>5, <1>8, <2>1, EnqueueStep
<1>9. /\ LET r == UrlRow("excluded", "pattern", 0, TRUE) IN r \in Row /\ r.state = "excluded"
      /\ LET r == UrlRow("skipped", "none", 0, TRUE) IN r \in Row /\ r.state = "skipped"
  BY RowTypes DEF States, Reasons, UrlRow
<1>10. \/ UNCHANGED <<frontVars, unsaved>>
       \/ u \notin seen /\ Register(u, UrlRow("skipped", "none", 0, TRUE))
       \/ u \notin seen /\ Register(u, UrlRow("excluded", "pattern", 0, TRUE))
       \/ u \notin seen /\ Enqueue(u, 0, TRUE)
  BY DEF SetupSitemap, u
<1> QED
  BY <1>6, <1>7, <1>8, <1>9, <1>10

(* A probe the resume refuses: the row was there, and is of no page. *)
LEMMA RejectProbeStep ==
    ASSUME IInv, TypeOK', RejectProbe
    PROVE  IInv'
<1> USE DEF IInv
<1> DEFINE r == ExternalRow("local_network", FALSE)
<1>1. PICK u \in RejectedProbes : Send(RowMsg(u, r))
  BY DEF RejectProbe
<1>2. /\ u \in Urls \ Internal  /\ rows[u].state = "skipped"
      /\ \A i \in DOMAIN unsaved : unsaved[i].url # u
  BY DEF RejectedProbes, PendingProbes
<1>3. r \in Row /\ r.state = "skipped"
  BY RowTypes DEF Reasons, ExternalRow
<1> HIDE DEF r
<1>4. /\ UNCHANGED <<status, rows, linkRows, index, phase, cur, next, seen, queued, inFlight,
                     probes, probing>>
      /\ phase = "setup"
  BY DEF RejectProbe, fileVars, memVars, pageVars, frontVars, poolVars, probeVars
<1>5. u \in seen
  BY <1>2, <1>4 DEF InvRecorded, Present
<1>6. /\ Live' = Live  /\ u \notin Live
      /\ cur' \notin queued' \cup inFlight'  /\ queued' \cap inFlight' = {}
      /\ probes' \cup probing' \subseteq seen' \ Internal
      /\ seen' = seen \cup {u}
  BY <1>2, <1>4, <1>5 DEF Live, InvSeen, NoRefetch
<1>7. InvPage'
  BY <1>4, PageStays
<1> QED
  BY <1>1, <1>2, <1>3, <1>4, <1>6, <1>7, SendStep

(* A task that ends with a row and no page. *)
LEMMA JoinStep ==
    ASSUME IInv, TypeOK', NEW u \in inFlight, NEW reason, Join(u), CloseJoin(u, reason),
           NEW r \in Row, r.state \in {"excluded", "error"},
           UNCHANGED unsaved \/ Send(RowMsg(u, r))
    PROVE  IInv'
<1> USE DEF IInv
<1>1. /\ UNCHANGED <<status, rows, linkRows, index, cur, seen, queued, probes>>
      /\ phase = "fill"
  BY DEF Join, Waiting, fileVars, pageVars, frontVars
<1>2. /\ phase' \in {"drain", "top"}  /\ inFlight' \subseteq inFlight \ {u}
      /\ probing' \subseteq probing
  BY CloseJoinEffect
<1>3. u \in Live /\ u \in seen /\ u \in Urls /\ Unsettled(u)
  BY GraphAssumption DEF Live, InvSeen, NoRefetch
<1>4. Live' \subseteq Live \ {u}
  BY <1>1, <1>2, <1>3, GraphAssumption DEF Live, NoRefetch
<1>5. /\ cur' \notin queued' \cup inFlight'  /\ queued' \cap inFlight' = {}
      /\ probes' \cup probing' \subseteq seen' \ Internal
      /\ seen' = seen \cup {u}
  BY <1>1, <1>2, <1>3 DEF InvSeen, NoRefetch
<1>6. InvPage'
  BY <1>1, <1>2, PageStays
<1>7. CASE UNCHANGED unsaved
  BY <1>1, <1>2, <1>4, <1>5, <1>6, <1>7, SilentStep
<1>8. CASE Send(RowMsg(u, r))
  <2>1. \A i \in DOMAIN unsaved : unsaved[i].url = u => unsaved[i].kind # "page"
    BY <1>3 DEF Unsettled, InvMessages
  <2>2. rows[u].state # "done"
    BY <1>3 DEF Unsettled
  <2> QED
    BY <1>1, <1>2, <1>3, <1>4, <1>5, <1>6, <1>8, <2>1, <2>2, SendStep
<1> QED
  BY <1>7, <1>8

(* The answer to a probe. *)
LEMMA JoinProbeStep ==
    ASSUME IInv, TypeOK', JoinProbe
    PROVE  IInv'
<1> USE DEF IInv
<1>1. PICK v \in probing :
        /\ Waiting  /\ CloseJoin(v, truncated)  /\ probes' \subseteq probes
        /\ \/ Send(RowMsg(v, ExternalRow("local_network", FALSE)))
           \/ Send(RowMsg(v, ExternalRow("none", TRUE)))
        /\ UNCHANGED <<fileVars, index, pageVars, frontVars>>
  BY DEF JoinProbe
<1>2. PICK r \in Row : r.state = "skipped" /\ Send(RowMsg(v, r))
  <2>1. /\ ExternalRow("local_network", FALSE) \in Row  /\ ExternalRow("none", TRUE) \in Row
        /\ ExternalRow("local_network", FALSE).state = "skipped"
        /\ ExternalRow("none", TRUE).state = "skipped"
    BY RowTypes DEF Reasons, ExternalRow
  <2> QED
    BY <1>1, <2>1
<1>3. /\ UNCHANGED <<status, rows, linkRows, index, cur, seen, queued>>
      /\ phase = "fill"
  BY <1>1 DEF Waiting, fileVars, pageVars, frontVars
<1>4. /\ phase' \in {"drain", "top"}  /\ inFlight' \subseteq inFlight
      /\ probing' \subseteq probing
  BY <1>1, CloseJoinEffect
<1>5. v \in seen \ Internal /\ v \in Urls
  BY DEF InvSeen, TypeOK, FrontierTypeOK
<1>6. rows[v].state # "done"
  BY <1>5 DEF InvSite, Done
<1>7. \A i \in DOMAIN unsaved : unsaved[i].url = v => unsaved[i].kind # "page"
  BY <1>5 DEF InvMessages
<1>8. /\ Live' \subseteq Live  /\ v \notin Live'
      /\ cur' \notin queued' \cup inFlight'  /\ queued' \cap inFlight' = {}
      /\ probes' \cup probing' \subseteq seen' \ Internal
      /\ seen' = seen \cup {v}
  BY <1>1, <1>3, <1>4, <1>5 DEF Live, InvSeen, NoRefetch
<1>9. InvPage'
  BY <1>3, <1>4, PageStays
<1> QED
  BY <1>2, <1>3, <1>4, <1>5, <1>6, <1>7, <1>8, <1>9, SendStep

(* A link to another site. *)
LEMMA TargetExternalStep ==
    ASSUME IInv, TypeOK', TargetExternal
    PROVE  IInv'
<1>1. PICK v \in Urls \ Internal :
        /\ PageStep  /\ v = Target  /\ v \notin seen
        /\ Register(v, ExternalRow(WhyNotProbe(v), FALSE))
        /\ probes' \subseteq probes \cup {v}
  BY DEF TargetExternal, NewTarget
<1>2. PICK r \in Row : r.state = "skipped" /\ Register(v, r)
  <2>1. WhyNotProbe(v) \in Reasons
    BY DEF WhyNotProbe, Reasons
  <2>2. /\ ExternalRow(WhyNotProbe(v), FALSE) \in Row
        /\ ExternalRow(WhyNotProbe(v), FALSE).state = "skipped"
    BY <2>1, RowTypes DEF ExternalRow
  <2> QED
    BY <1>1, <2>2
<1>3. /\ UNCHANGED <<status, rows, linkRows, index, cur, inFlight, probing, phase>>
      /\ phase = "page"
  BY <1>1, PageStepFrame
<1>4. seen' = seen \cup {v}
  BY <1>2 DEF Register
<1>5. probes' \cup probing' \subseteq seen' \ Internal
  BY <1>1, <1>3, <1>4 DEF IInv, InvSeen
<1>6. InvPage'
  BY <1>1, <1>4, PageAdvances DEF IInv
<1> QED
  BY <1>1, <1>2, <1>3, <1>5, <1>6, RegisterStep

(* A link to a page of the site that is registered and not queued. *)
LEMMA TargetRegisteredStep ==
    ASSUME IInv, TypeOK', NEW v \in Internal, NewTarget(v), UNCHANGED probes,
           NEW r \in Row, r.state \in {"excluded", "skipped"}, Register(v, r)
    PROVE  IInv'
<1>1. /\ UNCHANGED <<status, rows, linkRows, index, cur, inFlight, probing, phase>>
      /\ phase = "page"  /\ v \in Urls  /\ v \notin seen
  BY PageStepFrame DEF NewTarget
<1>2. seen' = seen \cup {v}
  BY DEF Register
<1>3. probes' \cup probing' \subseteq seen' \ Internal
  BY <1>1, <1>2 DEF IInv, InvSeen
<1>4. InvPage'
  BY <1>2, PageAdvances DEF IInv, NewTarget
<1> QED
  BY <1>1, <1>3, <1>4, RegisterStep

(* A link to a page of the site that goes to the frontier.                 *)
LEMMA TargetQueuedStep ==
    ASSUME IInv, TypeOK', TargetQueued
    PROVE  IInv'
<1>1. PICK v \in Internal :
        /\ NewTarget(v)  /\ UNCHANGED probes
        /\ Enqueue(v, TargetDepth, v \in inSitemap)
  BY DEF TargetQueued
<1>2. /\ UNCHANGED <<status, rows, linkRows, index, cur, inFlight, probing, phase>>
      /\ phase = "page"  /\ v \notin seen  /\ TargetDepth \in Nat
  BY <1>1, PageStepFrame, TargetTypes DEF NewTarget, IInv
<1>3. seen' = seen \cup {v}
  BY <1>1 DEF Enqueue
<1>4. probes' \cup probing' \subseteq seen' \ Internal
  BY <1>1, <1>2, <1>3 DEF IInv, InvSeen
<1>5. InvPage'
  BY <1>1, <1>3, PageAdvances DEF IInv, NewTarget
<1>6. UrlRow("pending", "none", TargetDepth, v \in inSitemap) \in Row
  BY <1>2, RowTypes DEF States, Reasons
<1> QED
  BY <1>1, <1>2, <1>4, <1>5, <1>6, EnqueueStep

(* A link that changes nothing: its target is seen already, or is an       *)
(* external URL over the cap.                                              *)
LEMMA TargetPassedStep ==
    ASSUME IInv, TypeOK', TargetKnown \/ TargetUnregistered
    PROVE  IInv'
<1>1. /\ PageStep  /\ UNCHANGED <<unsaved, queued, probes>>
      /\ Target \in seen' \cup {NoUrl}
      /\ seen \subseteq seen'  /\ seen' \cap Internal \subseteq seen
  BY DEF TargetKnown, TargetUnregistered, NewTarget, frontVars
<1>2. /\ UNCHANGED <<status, rows, linkRows, index, cur, inFlight, probing, phase>>
      /\ phase = "page"
  BY <1>1, PageStepFrame
<1>3. InvPage'
  BY <1>1, PageAdvances DEF IInv
<1>4. /\ Live' = Live  /\ cur' \notin queued' \cup inFlight'  /\ queued' \cap inFlight' = {}
      /\ probes' \cup probing' \subseteq seen \ Internal
  BY <1>1, <1>2 DEF Live, IInv, InvSeen, NoRefetch
<1> QED
  BY <1>1, <1>2, <1>3, <1>4, SilentStep

(* Steps that neither send anything nor meet a URL.                        *)
LEMMA QuietStep ==
    ASSUME IInv, TypeOK',
           \/ SitemapsOverBudget \/ SitemapsCut \/ EndSetup
           \/ Refill \/ Dispatch \/ DispatchProbe \/ Exhausted \/ StopOnCancel \/ StopOnDeadline
           \/ JoinFetched \/ JoinPanic
           \/ Finalize \/ EvaluateRule \/ RequestCancel \/ DeadlinePasses
    PROVE  IInv'
<1> USE DEF IInv
<1> DEFINE Same == UNCHANGED <<status, rows, linkRows, index, unsaved, seen>>
           Moves == phase' # "page" \/ UNCHANGED <<phase, cur, next>>
           Works == /\ Live' \subseteq Live
                    /\ cur' \notin queued' \cup inFlight'  /\ queued' \cap inFlight' = {}
                    /\ probes' \cup probing' \subseteq seen \ Internal
<1>1. ASSUME Same, phase # "idle", phase' # "idle", Moves, Works
      PROVE  IInv'
  <2>1. InvPage'
    BY <1>1, PageStays
  <2> QED
    BY <1>1, <2>1, SilentStep
<1>2. ASSUME Same, phase # "idle", phase' # "idle", Moves,
             UNCHANGED <<queued, cur>>, inFlight' \subseteq inFlight,
             probes' \cup probing' \subseteq probes \cup probing
      PROVE  IInv'
  <2>1. Works
    BY <1>2 DEF Live, NoRefetch, InvSeen
  <2> QED
    BY <1>1, <1>2, <2>1
<1> HIDE DEF Works
<1> USE DEF fileVars, writerVars, memVars, pageVars, frontVars, poolVars, probeVars
<1>3. CASE SitemapsOverBudget \/ SitemapsCut
  BY <1>2, <1>3 DEF SitemapsOverBudget, SitemapsCut, SkipSitemaps
<1>4. CASE EndSetup
  <2>1. probes' \subseteq probes \cup PendingProbes
    BY <1>4 DEF EndSetup
  <2>2. PendingProbes \subseteq seen \ Internal
    BY <1>4 DEF EndSetup, PendingProbes, InvRecorded, Present
  <2>3. /\ Same  /\ phase = "setup"  /\ phase' = "top"
        /\ UNCHANGED <<queued, inFlight, cur, probing>>
    BY <1>4 DEF EndSetup
  <2>4. Works
    BY <2>1, <2>2, <2>3 DEF Works, Live, NoRefetch, InvSeen
  <2> QED
    BY <1>1, <2>3, <2>4
<1>5. CASE Refill \/ DispatchProbe
  BY <1>2, <1>5 DEF Refill, DispatchProbe
<1>6. CASE Dispatch
  <2>1. PICK u \in queued : queued' = queued \ {u} /\ inFlight' = inFlight \cup {u}
    BY <1>6 DEF Dispatch
  <2>2. /\ Same  /\ phase = "fill"  /\ UNCHANGED <<phase, cur, next, probes, probing>>
    BY <1>6 DEF Dispatch
  <2>3. Works
    BY <2>1, <2>2 DEF Works, Live, NoRefetch, InvSeen
  <2> QED
    BY <1>1, <2>2, <2>3
<1>7. CASE Exhausted \/ StopOnCancel \/ StopOnDeadline
  BY <1>2, <1>7 DEF Exhausted, StopOnCancel, StopOnDeadline, LeaveLoop, Waiting
<1>8. CASE JoinFetched
  <2>1. PICK u \in inFlight : cur' = u /\ next' = 1 /\ inFlight' = inFlight \ {u}
    BY <1>8 DEF JoinFetched
  <2>2. /\ Same  /\ phase = "fill"  /\ phase' = "page"  /\ UNCHANGED <<queued, probes, probing>>
    BY <1>8 DEF JoinFetched, Waiting
  <2>3. Live' = Live
    <3>1. cur = NoUrl
      BY <2>2 DEF TypeOK, PhaseTypeOK
    <3>2. u \in Live /\ u # NoUrl
      BY GraphAssumption DEF Live, TypeOK, FrontierTypeOK
    <3> QED
      BY <2>1, <2>2, <3>1, <3>2 DEF Live
  <2>4. cur' \notin queued' \cup inFlight' /\ queued' \cap inFlight' = {}
    BY <2>1, <2>2 DEF NoRefetch
  <2>5. InvPage'
    BY <2>1 DEF InvPage
  <2> QED
    BY <2>2, <2>3, <2>4, <2>5, SilentStep DEF InvSeen
<1>9. CASE JoinPanic
  BY <1>2, <1>9 DEF JoinPanic, Waiting
<1>10. CASE Finalize \/ EvaluateRule
  BY <1>2, <1>10 DEF Finalize, EvaluateRule
<1>11. CASE RequestCancel \/ DeadlinePasses
  BY <1>2, <1>11 DEF RequestCancel, DeadlinePasses
<1> QED
  BY <1>3, <1>4, <1>5, <1>6, <1>7, <1>8, <1>9, <1>10, <1>11

-----------------------------------------------------------------------------
(* The inductive invariant. *)

(* It holds before the first session.                                      *)
LEMMA IInvInit == Init => IInv
<1> SUFFICES ASSUME Init PROVE IInv
  OBVIOUS
<1>1. TypeOK
  BY TypeInit
<1>2. /\ unsaved = <<>>  /\ index = {}  /\ seen = {}  /\ cur = NoUrl  /\ phase = "idle"
      /\ queued = {}  /\ inFlight = {}  /\ probes = {}  /\ probing = {}
      /\ \A u \in Urls : rows[u].state = "absent"
      /\ \A p \in Urls \X Urls : linkRows[p] = 0
  BY DEF Init, Idle, NoRow
<1>3. Done = {} /\ Pending = {} /\ Live = {}
  BY <1>2 DEF Done, Pending, Live
<1>4. InvMessages /\ InvRecorded /\ InvPage /\ InvIndex /\ InvIdle
  BY <1>2 DEF InvMessages, InvRecorded, InvPage, InvIndex, InvIdle, Present
<1>5. InvSeen /\ NoRefetch /\ InvSite /\ TargetsOnDisk
  BY <1>2, <1>3 DEF InvSeen, NoRefetch, InvSite, TargetsOnDisk
<1>6. LinkRowsExact
  BY <1>2, <1>3 DEF LinkRowsExact
<1> QED
  BY <1>1, <1>4, <1>5, <1>6 DEF IInv

(* And every step keeps it.                                                *)
LEMMA IInvStep == IInv /\ [Next]_vars => IInv'
<1> SUFFICES ASSUME IInv, [Next]_vars PROVE IInv'
  OBVIOUS
<1>1. TypeOK'
  BY TypeStep, FlagsStep DEF IInv, TypeOK
<1>2. CASE Start
  BY <1>1, <1>2, StartStep
<1>3. CASE Resume
  BY <1>1, <1>3, ResumeStep
<1>4. CASE Setup
  BY <1>1, <1>4, SetupSeedStep, SetupSitemapStep, RejectProbeStep, QuietStep DEF Setup
<1>5. CASE Loop
  BY <1>1, <1>5, QuietStep DEF Loop
<1>6. CASE Joins
  <2>1. CASE JoinExcluded
    <3>1. PICK u \in inFlight :
            /\ Join(u)  /\ CloseJoin(u, truncated)
            /\ \/ Send(RowMsg(u, UrlRow("excluded", "robots", depth[u], u \in inSitemap)))
               \/ Send(RowMsg(u, UrlRow("excluded", "local_network", depth[u], u \in inSitemap)))
      BY <2>1 DEF JoinExcluded
    <3>2. depth[u] \in Nat
      BY DEF IInv, TypeOK, FrontierTypeOK
    <3>3. \A why \in Reasons :
            LET r == UrlRow("excluded", why, depth[u], u \in inSitemap) IN
              r \in Row /\ r.state = "excluded"
      BY <3>2, RowTypes DEF States, UrlRow
    <3> QED
      BY <1>1, <3>1, <3>3, JoinStep DEF Reasons
  <2>2. CASE JoinFailed
    <3>1. PICK u \in inFlight :
            /\ Join(u)  /\ CloseJoin(u, truncated)
            /\ Send(RowMsg(u, UrlRow("error", "none", depth[u], u \in inSitemap)))
      BY <2>2 DEF JoinFailed
    <3>2. depth[u] \in Nat
      BY DEF IInv, TypeOK, FrontierTypeOK
    <3>3. LET r == UrlRow("error", "none", depth[u], u \in inSitemap) IN
            r \in Row /\ r.state = "error"
      BY <3>2, RowTypes DEF States, Reasons, UrlRow
    <3> QED
      BY <1>1, <3>1, <3>3, JoinStep
  <2>3. CASE JoinRateLimited
    <3>1. PICK u \in inFlight :
            Join(u) /\ UNCHANGED unsaved /\ CloseJoin(u, OrElse("rate_limited"))
      BY <2>3 DEF JoinRateLimited
    <3>2. PICK r \in Row : r.state = "error"
      <4>1. /\ UrlRow("error", "none", 0, FALSE) \in Row
            /\ UrlRow("error", "none", 0, FALSE).state = "error"
        BY RowTypes DEF States, Reasons, UrlRow
      <4> QED
        BY <4>1
    <3> QED
      BY <1>1, <3>1, <3>2, JoinStep
  <2> QED
    BY <1>1, <1>6, <2>1, <2>2, <2>3, QuietStep, JoinProbeStep DEF Joins
<1>7. CASE Page
  <2>1. ASSUME NEW v \in Internal, NewTarget(v), NEW why \in Reasons,
               NEW st \in {"excluded", "skipped"}, NEW w, NEW S, UNCHANGED probes,
               \/ Register(v, UrlRow(st, why, TargetDepth, w \in S))
               \/ Register(v, UrlRow(st, why, TargetDepth, FALSE))
        PROVE  IInv'
    <3>1. TargetDepth \in Nat
      BY <2>1, TargetTypes DEF IInv, NewTarget
    <3>2. /\ UrlRow(st, why, TargetDepth, w \in S) \in Row
          /\ UrlRow(st, why, TargetDepth, FALSE) \in Row
          /\ UrlRow(st, why, TargetDepth, w \in S).state = st
          /\ UrlRow(st, why, TargetDepth, FALSE).state = st
      BY <3>1, RowTypes DEF States, UrlRow
    <3> QED
      BY <1>1, <2>1, <3>2, TargetRegisteredStep
  <2>2. CASE TargetListed
    BY <2>1, <2>2 DEF TargetListed, Reasons
  <2>3. CASE TargetFiltered
    BY <2>1, <2>3 DEF TargetFiltered, Reasons
  <2>4. CASE TargetNotFollowed
    BY <2>1, <2>4 DEF TargetNotFollowed, Reasons
  <2>5. CASE TargetTooDeep
    BY <2>1, <2>5 DEF TargetTooDeep, Reasons
  <2> QED
    BY <1>1, <1>7, <2>2, <2>3, <2>4, <2>5, TargetPassedStep, TargetExternalStep, TargetQueuedStep,
       PageDoneStep DEF Page
<1>8. CASE Commit
  BY <1>1, <1>8, CommitStep
<1>9. CASE Ending
  BY <1>1, <1>9, EndStep, QuietStep DEF Ending, Pause, FinalizeCancelled, FinalizeDone
<1>10. CASE RequestCancel \/ DeadlinePasses
  BY <1>1, <1>10, QuietStep
<1>11. CASE Crash
  <2>1. status' # "none"
    BY <1>11 DEF Crash, fileVars, IInv, InvIdle
  <2> QED
    BY <1>1, <1>11, <2>1, EndStep DEF Crash, fileVars
<1>12. CASE Over \/ UNCHANGED vars
  <2>1. UNCHANGED <<status, rows, linkRows, unsaved, index, phase, cur, next, queued, seen,
                    inFlight, probes, probing>>
    BY <1>12 DEF Over, vars, fileVars, writerVars, memVars, pageVars, frontVars, poolVars, probeVars
  <2> USE DEF IInv
  <2>2. InvMessages' /\ InvRecorded' /\ InvPage' /\ InvIndex' /\ InvIdle'
    BY <2>1 DEF InvMessages, InvRecorded, InvPage, InvIndex, InvIdle, Present, KnownBefore, Lead,
         Targets
  <2>3. InvSeen' /\ NoRefetch'
    BY <2>1 DEF InvSeen, NoRefetch, Live, Known, Unsettled, Present
  <2> QED
    BY <1>1, <2>1, <2>2, <2>3, FileSame
<1> QED
  BY <1>2, <1>3, <1>4, <1>5, <1>6, <1>7, <1>8, <1>9, <1>10, <1>11, <1>12 DEF Next, Progress

(* So every state the crawl can reach, in any session, satisfies it.       *)
THEOREM Inductive == Spec => []IInv
<1>1. Init => IInv
  BY IInvInit
<1>2. IInv /\ [Next]_vars => IInv'
  BY IInvStep
<1> QED
  BY <1>1, <1>2, PTL DEF Spec

(* A crash at any point leaves no crawled page without the rows it leads   *)
(* to: run_with sends a row before the page that needs it, and the writer  *)
(* commits in order.                                                       *)
THEOREM TargetsAlwaysOnDisk == Spec => []TargetsOnDisk
<1>1. IInv => TargetsOnDisk
  BY DEF IInv
<1> QED
  BY <1>1, Inductive, PTL

(* Over any number of sessions, each link of a crawled page is in table    *)
(* links once: a page is saved once, when its targets have ids, because    *)
(* resend_existing_rows teaches them to the writer again.                  *)
THEOREM LinkRowsAlwaysExact == Spec => []LinkRowsExact
<1>1. IInv => LinkRowsExact
  BY DEF IInv
<1> QED
  BY <1>1, Inductive, PTL

(* What is settled in the file, or on its way to it, is not worked on      *)
(* again: read_resume_plan takes up the pending rows and no other.         *)
THEOREM NeverRefetched == Spec => []NoRefetch
<1>1. IInv => NoRefetch
  BY DEF IInv
<1> QED
  BY <1>1, Inductive, PTL

=============================================================================
