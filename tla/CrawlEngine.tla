---------------------------- MODULE CrawlEngine ----------------------------
(***************************************************************************)
(* The crawl loop of crawlforge-core (engine.rs, run_with) together with   *)
(* what survives it: the crawl file, read back by a resume.                *)
(*                                                                         *)
(* One session at a time owns the file (StoreAccess models how).  Inside   *)
(* a session a single task runs the loop and is the only one that changes  *)
(* the frontier, the counters and the truncation reason; every result it   *)
(* produces goes, in order, through the writer's channel.  The writer is   *)
(* seen here as a queue of unsaved messages that become durable one by one *)
(* from the front: committing a batch is committing a prefix, and a crash  *)
(* loses the suffix.                                                       *)
(***************************************************************************)
EXTENDS Naturals, Sequences, FiniteSets

CONSTANTS
    Urls,            \* every URL the crawl can meet
    NoUrl,           \* a value that is not a URL
    Internal,        \* URLs of the audited site (SiteScope::contains)
    Seeds,           \* the seeds, in order
    SitemapUrls,     \* what the sitemaps declare, in the order it is found
    Links,           \* the links of each page, in document order
    Location,        \* the target of a redirect, NoUrl for the other URLs
    NofollowLinks,   \* pairs <<page, target>> whose rel=nofollow is respected
    Filtered,        \* URLs the user's patterns reject
    RobotsBlocked,   \* URLs robots.txt disallows
    Unprobeable,     \* URLs whose host, as written, is outside the perimeter
    BlockedAddress,  \* URLs whose host resolves to an address outside it
    ResumeBarred,    \* external URLs a resume does not probe: local addresses
    Flaky,           \* URLs whose server may fail or answer 429
    HostOf           \* the host of each URL

CONSTANTS
    Mode,            \* "http", "filesystem" or "list"
    MaxUrls,         \* page budget; more than Cardinality(Urls) is no budget
    MaxDepth,        \* depth limit; more than Cardinality(Urls) is no limit
    MaxExternal,     \* probes of external URLs per session
    MaxExternalUrls, \* external URLs registered per session
    CheckExternal,   \* are external URLs probed at all
    HasDeadline,     \* is there a max_duration
    MayPanic,        \* can a crawl task die in a panic
    PoolSize,        \* MAX_TOTAL_IN_FLIGHT
    NRules,          \* site rules of the final pass, 1 .. NRules
    FullGraphRules,  \* those that need the complete link graph
    MaxSessions      \* bound: how many times the file is opened

ASSUME GraphAssumption ==
    /\ IsFiniteSet(Urls)  /\ NoUrl \notin Urls
    /\ Internal \subseteq Urls
    /\ Seeds \in Seq(Internal)
    /\ SitemapUrls \in Seq(Internal)
    /\ Links \in [Urls -> Seq(Urls)]
    /\ Location \in [Urls -> Urls \cup {NoUrl}]

ASSUME LimitsAssumption ==
    /\ Mode \in {"http", "filesystem", "list"}
    /\ MaxUrls \in Nat \ {0}
    /\ MaxDepth \in Nat
    /\ MaxExternal \in Nat
    /\ MaxExternalUrls \in Nat
    /\ PoolSize \in Nat \ {0}
    /\ NRules \in Nat
    /\ MaxSessions \in Nat \ {0}
    /\ CheckExternal \in BOOLEAN
    /\ HasDeadline \in BOOLEAN
    /\ MayPanic \in BOOLEAN

VARIABLES
    (* The crawl file. *)
    status,       \* crawl_meta.status; "none" before the file exists
    truncReason,  \* crawl_meta.truncated_reason, "none" when truncated = 0
    rows,         \* table urls
    linkRows,     \* table links: rows per pair of page and target
    siteIssues,   \* table issues: times each site rule's findings are in it
    (* The writer thread. *)
    unsaved,      \* messages sent and not yet committed, oldest first
    index,        \* URLs whose id the writer knows (IdIndex)
    (* The memory of the session. *)
    phase,        \* where the session is; "idle" when none is alive
    cur, next,    \* the page being handled and the position in its links
    queued,       \* the frontier
    depth,        \* depth of each queued or dispatched URL
    seen,         \* the frontier's index of seen URLs
    inFlight,     \* page tasks in the pool
    probes,       \* external URLs waiting for a status probe
    probing,      \* probe tasks in the pool
    inSitemap,    \* URLs a sitemap declares
    fetched,      \* metrics.urls_fetched, of this session
    already,      \* pages done before this session
    registered,   \* externals_registered
    enqueued,     \* externals_enqueued
    truncated,    \* why the set will not be the whole site, so far
    interrupted,
    resuming,
    rule,         \* next site rule of the final pass
    (* The environment. *)
    cancel,       \* the CancelSignal of the session
    expired,      \* its max_duration is over
    sessions      \* sessions started so far

fileVars   == <<status, truncReason, rows, linkRows, siteIssues>>
writerVars == <<unsaved, index>>
frontVars  == <<queued, depth, seen>>
probeVars  == <<probes, probing, registered, enqueued>>
poolVars   == <<inFlight, fetched>>
pageVars   == <<cur, next>>
flagVars   == <<interrupted, resuming, rule, already, inSitemap>>
envVars    == <<cancel, expired, sessions>>
memVars    == <<phase, pageVars, frontVars, poolVars, probeVars, flagVars, truncated>>
vars       == <<fileVars, writerVars, memVars, envVars>>

-----------------------------------------------------------------------------
(* Rows of table urls and messages to the writer. *)

States  == {"absent", "pending", "done", "error", "excluded", "skipped"}
Reasons == {"none", "robots", "nofollow", "depth", "pattern", "local_network",
            "external_check_off", "no_network"}
Row == [state : States, reason : Reasons, depth : Nat, sitemap : BOOLEAN,
            answered : BOOLEAN]

Truncations == {"none", "max_urls", "max_depth", "max_duration", "list_mode",
                "rate_limited"}

NoRow == [state |-> "absent", reason |-> "none", depth |-> 0,
          sitemap |-> FALSE, answered |-> FALSE]

UrlRow(st, why, d, sm) == [state |-> st, reason |-> why, depth |-> d,
                           sitemap |-> sm, answered |-> FALSE]

(* An external URL: skipped, without depth; answered once a probe has left *)
(* a status code or an error in it.                                        *)
ExternalRow(why, ans) == [state |-> "skipped", reason |-> why, depth |-> 0,
                          sitemap |-> FALSE, answered |-> ans]

RowMsg(u, r)  == [kind |-> "row", url |-> u, row |-> r]
PageMsg(u, r) == [kind |-> "page", url |-> u, row |-> r]

(* All the rows of the file, sent back at the start of a resume so that    *)
(* the writer learns their ids again.                                      *)
ResendMsg == [kind |-> "resend", url |-> NoUrl, row |-> NoRow]

Message == [kind : {"row", "page"}, url : Urls, row : Row] \cup {ResendMsg}

(* The upsert of insert_urls: the state is always the new one, the reason  *)
(* and the probe's answer survive a row that does not carry them.          *)
Upsert(old, new) ==
    [new EXCEPT !.reason   = IF new.reason = "none" THEN old.reason ELSE new.reason,
                !.sitemap  = old.sitemap \/ new.sitemap,
                !.answered = old.answered \/ new.answered]

Present(u) == rows[u].state # "absent"
Pending    == {u \in Urls : rows[u].state = "pending"}
Done       == {u \in Urls : rows[u].state = "done"}
LinksOf(u) == {Links[u][i] : i \in DOMAIN Links[u]}
ListMode   == Mode = "list"

Running == {"setup", "top", "fill", "page", "drain", "final"}

-----------------------------------------------------------------------------
(* Starting a session. *)

Idle ==
    /\ phase = "idle"  /\ cur = NoUrl  /\ next = 1
    /\ queued = {}  /\ depth = [u \in Urls |-> 0]  /\ seen = {}
    /\ inFlight = {}  /\ fetched = 0
    /\ probes = {}  /\ probing = {}  /\ registered = 0  /\ enqueued = 0
    /\ interrupted = FALSE  /\ resuming = FALSE  /\ rule = 1
    /\ already = 0  /\ inSitemap = {}  /\ truncated = "none"

(* The process is gone: nothing of its memory remains. *)
EndSession ==
    /\ phase' = "idle"  /\ cur' = NoUrl  /\ next' = 1
    /\ queued' = {}  /\ depth' = [u \in Urls |-> 0]  /\ seen' = {}
    /\ inFlight' = {}  /\ fetched' = 0
    /\ probes' = {}  /\ probing' = {}  /\ registered' = 0  /\ enqueued' = 0
    /\ interrupted' = FALSE  /\ resuming' = FALSE  /\ rule' = 1
    /\ already' = 0  /\ inSitemap' = {}  /\ truncated' = "none"
    /\ unsaved' = <<>>  /\ index' = {}
    /\ cancel' = FALSE  /\ expired' = FALSE  /\ UNCHANGED sessions

Init ==
    /\ Idle
    /\ status = "none"  /\ truncReason = "none"
    /\ rows = [u \in Urls |-> NoRow]
    /\ linkRows = [p \in Urls \X Urls |-> 0]
    /\ siteIssues = [r \in 1..NRules |-> 0]
    /\ unsaved = <<>>  /\ index = {}
    /\ cancel = FALSE  /\ expired = FALSE  /\ sessions = 0

InitialTruncation == IF ListMode THEN "list_mode" ELSE "none"

OrElseForgets(reason) == truncated

(* get_or_insert on the truncation reason: the first one stays. *)
OrElse(reason) == IF truncated = "none" THEN reason ELSE truncated

(* A new crawl: the file is created with its metadata, status 'running'. *)
Start ==
    /\ phase = "idle"  /\ status = "none"  /\ sessions < MaxSessions
    /\ status' = "running"
    /\ phase' = "setup"
    /\ truncated' = InitialTruncation
    /\ sessions' = sessions + 1
    /\ UNCHANGED <<truncReason, rows, linkRows, siteIssues, writerVars,
                   pageVars, frontVars, poolVars, probeVars, flagVars, cancel, expired>>

(* Which files a resume accepts. *)
Resumable ==
    \/ status \in {"running", "paused"}
    \/ status = "done" /\ truncReason = "rate_limited"

(* Probes need a client: a filesystem crawl has none. *)
CanProbe == CheckExternal /\ Mode # "filesystem"

(* Every URL with a row counts as seen. *)
SeenOnDiskOnlyPending == Pending
SeenOnDisk == {u \in Urls : Present(u)}

ResendNothing == <<>>
ResendExistingRows == <<ResendMsg>>

(* Reading the plan back: pending rows to the frontier with their depth,   *)
(* the others marked as seen, and every row sent again to the writer.      *)
Resume ==
    /\ phase = "idle"  /\ Resumable  /\ sessions < MaxSessions
    /\ status' = "running"
    /\ phase' = "setup"
    /\ queued' = Pending
    /\ depth' = [u \in Urls |-> IF u \in Pending THEN rows[u].depth ELSE 0]
    /\ seen' = SeenOnDisk
    /\ already' = Cardinality(Done)
    /\ inSitemap' = {u \in Urls : rows[u].sitemap}
    /\ unsaved' = ResendExistingRows
    /\ truncated' = InitialTruncation
    /\ resuming' = TRUE
    /\ sessions' = sessions + 1
    /\ UNCHANGED <<truncReason, rows, linkRows, siteIssues, index, pageVars,
                   poolVars, probeVars, interrupted, rule, cancel, expired>>

-----------------------------------------------------------------------------
(* What the loop does with a URL it has just met: it is seen from now on,  *)
(* and its row is sent before the page that led to it.                     *)

Send(m) == unsaved' = Append(unsaved, m)

RegisterCrawledOnly(u, row) ==
    /\ seen' = seen \cup {u}
    /\ IF row.state \in {"excluded", "skipped"} THEN UNCHANGED unsaved
       ELSE Send(RowMsg(u, row))
    /\ UNCHANGED <<queued, depth>>

Register(u, row) ==
    /\ seen' = seen \cup {u}
    /\ Send(RowMsg(u, row))
    /\ UNCHANGED <<queued, depth>>

Enqueue(u, d, sm) ==
    /\ queued' = queued \cup {u}
    /\ depth' = [depth EXCEPT ![u] = d]
    /\ seen' = seen \cup {u}
    /\ Send(RowMsg(u, UrlRow("pending", "none", d, sm)))

(* Seeds first, then what the sitemaps declare; position next in both. *)
SetupLength == Len(Seeds) + Len(SitemapUrls)

SetupStep ==
    /\ phase = "setup"  /\ next <= SetupLength
    /\ next' = next + 1
    /\ UNCHANGED <<fileVars, index, phase, cur, poolVars, probeVars, interrupted,
                   resuming, rule, already, envVars>>

(* The patterns spare the one seed the user typed, not a directory or list. *)
SetupSeed ==
    /\ SetupStep  /\ next <= Len(Seeds)
    /\ LET u == Seeds[next] IN
         \/ u \in seen /\ UNCHANGED <<frontVars, unsaved>>
         \/ /\ u \notin seen  /\ Mode # "http"  /\ u \in Filtered
            /\ Register(u, UrlRow("excluded", "pattern", 0, FALSE))
         \/ /\ u \notin seen  /\ (Mode = "http" \/ u \notin Filtered)
            /\ Enqueue(u, 0, FALSE)
    /\ UNCHANGED <<truncated, inSitemap>>

SetupSitemap ==
    /\ SetupStep  /\ next > Len(Seeds)
    /\ Cardinality(inSitemap) < MaxUrls
    /\ LET u == SitemapUrls[next - Len(Seeds)] IN
         /\ inSitemap' = inSitemap \cup {u}
         /\ \/ u \in seen /\ UNCHANGED <<frontVars, unsaved>>
            \/ /\ u \notin seen  /\ ListMode
               /\ Register(u, UrlRow("skipped", "none", 0, TRUE))
            \/ /\ u \notin seen  /\ ~ListMode  /\ u \in Filtered
               /\ Register(u, UrlRow("excluded", "pattern", 0, TRUE))
            \/ /\ u \notin seen  /\ ~ListMode  /\ u \notin Filtered
               /\ Enqueue(u, 0, TRUE)
    /\ UNCHANGED truncated

SkipSitemaps ==
    /\ phase = "setup"  /\ next <= SetupLength  /\ next > Len(Seeds)
    /\ next' = SetupLength + 1
    /\ UNCHANGED <<fileVars, writerVars, phase, cur, frontVars, poolVars, probeVars,
                   resuming, rule, already, inSitemap, envVars>>

(* The page budget also bounds what is taken from the sitemaps. *)
SitemapsOverBudget ==
    /\ SkipSitemaps  /\ Cardinality(inSitemap) >= MaxUrls
    /\ truncated' = OrElse("max_urls")
    /\ UNCHANGED interrupted

(* The deadline or a cancel falls while the sitemaps are being fetched:    *)
(* none of them is used.                                                   *)
SitemapsCut ==
    /\ SkipSitemaps  /\ next = Len(Seeds) + 1
    /\ \/ expired /\ truncated' = OrElse("max_duration") /\ UNCHANGED interrupted
       \/ cancel /\ interrupted' = TRUE /\ UNCHANGED truncated

PendingProbesAnswered ==
    {u \in Urls \ Internal : rows[u].state = "skipped" /\ rows[u].reason = "none"}

(* External rows a cut left without an answer. *)
PendingProbes ==
    {u \in Urls \ Internal : /\ rows[u].state = "skipped"
                             /\ rows[u].reason = "none"
                             /\ ~rows[u].answered}

RejectedProbes ==
    {u \in PendingProbes \cap ResumeBarred :
        \A i \in DOMAIN unsaved : unsaved[i].url # u}

(* The probes the resume refuses get their reason written. *)
RejectProbe ==
    /\ phase = "setup"  /\ next > SetupLength
    /\ resuming  /\ CheckExternal
    /\ \E u \in RejectedProbes : Send(RowMsg(u, ExternalRow("local_network", FALSE)))
    /\ UNCHANGED <<fileVars, index, memVars, envVars>>

(* The others are queued, as many as the session's cap and the quota of    *)
(* each host (ExternalQueue) let in.                                       *)
EndSetup ==
    /\ phase = "setup"  /\ next > SetupLength
    /\ resuming /\ CheckExternal => RejectedProbes = {}
    /\ phase' = "top"  /\ next' = 1
    /\ IF resuming /\ CanProbe
       THEN \E P \in SUBSET (PendingProbes \ ResumeBarred) :
              /\ Cardinality(P) <= MaxExternal
              /\ probes' = P  /\ enqueued' = Cardinality(P)
       ELSE UNCHANGED <<probes, enqueued>>
    /\ UNCHANGED <<fileVars, writerVars, cur, frontVars, poolVars, probing,
                   registered, flagVars, truncated, envVars>>

-----------------------------------------------------------------------------
(* The pool.  Cancel and deadline are looked at before refilling it and    *)
(* while waiting for a task, never between two tasks of a refill.          *)

Pool == inFlight \cup probing

Busy(u) == \E w \in Pool : HostOf[w] = HostOf[u]

FilledWheneverAsked == TRUE

(* Nothing more to dispatch: the pool is full, or no queued URL has a host *)
(* with room.  A host without tasks always has room (module Throttle).     *)
Filled ==
    \/ Cardinality(Pool) >= PoolSize
    \/ \A u \in queued \cup probes : Busy(u)

Waiting == phase = "fill" /\ Filled /\ Pool # {}

(* Leaving the loop shuts the pool down: what was in flight stays pending. *)
LeaveLoop ==
    /\ phase' = "drain"
    /\ inFlight' = {}  /\ probing' = {}

StopOnCancel ==
    /\ phase = "top" \/ Waiting
    /\ cancel \/ (phase = "top" /\ interrupted)
    /\ interrupted' = TRUE
    /\ LeaveLoop
    /\ UNCHANGED <<fileVars, writerVars, pageVars, frontVars, probes, registered,
                   enqueued, fetched, resuming, rule, already, inSitemap,
                   truncated, envVars>>

StopOnDeadline ==
    /\ expired
    /\ \/ phase = "top" /\ ~interrupted /\ ~cancel
       \/ Waiting
    /\ truncated' = "max_duration"
    /\ LeaveLoop
    /\ UNCHANGED <<fileVars, writerVars, pageVars, frontVars, probes, registered,
                   enqueued, fetched, flagVars, envVars>>

Refill ==
    /\ phase = "top"  /\ ~interrupted  /\ ~cancel  /\ ~expired
    /\ phase' = "fill"
    /\ UNCHANGED <<fileVars, writerVars, pageVars, frontVars, poolVars, probeVars,
                   flagVars, truncated, envVars>>

(* Breadth first within a host; a busy host may be passed over. *)
Dispatch ==
    /\ phase = "fill"  /\ Cardinality(Pool) < PoolSize
    /\ \E u \in queued :
         /\ \A v \in queued : depth[v] < depth[u] => Busy(v)
         /\ queued' = queued \ {u}
         /\ inFlight' = inFlight \cup {u}
    /\ UNCHANGED <<fileVars, writerVars, phase, pageVars, depth, seen, probeVars,
                   fetched, flagVars, truncated, envVars>>

DispatchProbeLost == phase = "gone" /\ UNCHANGED vars

(* Probes go behind every page that can leave, one at a time per host. *)
DispatchProbe ==
    /\ phase = "fill"  /\ Cardinality(Pool) < PoolSize
    /\ \A u \in queued : Busy(u)
    /\ \E v \in probes :
         /\ ~Busy(v)
         /\ probes' = probes \ {v}
         /\ probing' = probing \cup {v}
    /\ UNCHANGED <<fileVars, writerVars, phase, pageVars, frontVars, poolVars,
                   registered, enqueued, flagVars, truncated, envVars>>

Exhausted ==
    /\ phase = "fill"  /\ Filled  /\ Pool = {}
    /\ LeaveLoop
    /\ UNCHANGED <<fileVars, writerVars, pageVars, frontVars, probes, registered,
                   enqueued, fetched, flagVars, truncated, envVars>>

-----------------------------------------------------------------------------
(* A task ends.  The page budget is looked at after each of them.          *)

BudgetSpentByOne == already + fetched' > MaxUrls

BudgetSpent == already + fetched' >= MaxUrls

CloseJoin(u, reason) ==
    IF BudgetSpent
    THEN /\ truncated' = "max_urls"
         /\ LeaveLoop
    ELSE /\ truncated' = reason
         /\ phase' = "top"
         /\ inFlight' = inFlight \ {u}
         /\ probing' = probing \ {u}

Join(u) ==
    /\ Waiting  /\ u \in inFlight
    /\ UNCHANGED <<fileVars, index, pageVars, frontVars, probes, registered,
                   enqueued, flagVars, envVars>>

(* robots.txt says no, or the address resolved is outside the perimeter. *)
JoinExcluded ==
    \E u \in inFlight :
      /\ Join(u)
      /\ \/ u \in RobotsBlocked
            /\ Send(RowMsg(u, UrlRow("excluded", "robots", depth[u], u \in inSitemap)))
         \/ u \in BlockedAddress \ RobotsBlocked
            /\ Send(RowMsg(u, UrlRow("excluded", "local_network", depth[u], u \in inSitemap)))
      /\ UNCHANGED fetched
      /\ CloseJoin(u, truncated)

Reachable(u) == u \notin RobotsBlocked \cup BlockedAddress

JoinFailed ==
    \E u \in inFlight :
      /\ Join(u)  /\ Reachable(u)  /\ u \in Flaky
      /\ Send(RowMsg(u, UrlRow("error", "none", depth[u], u \in inSitemap)))
      /\ UNCHANGED fetched
      /\ CloseJoin(u, truncated)

(* Still a 429 after the retries: nothing is written, the row stays as it  *)
(* is for a later resume.                                                  *)
JoinRateLimited ==
    \E u \in inFlight :
      /\ Join(u)  /\ Reachable(u)  /\ u \in Flaky
      /\ UNCHANGED <<unsaved, fetched>>
      /\ CloseJoin(u, OrElse("rate_limited"))

JoinFetchedPageFirst ==
    \E u \in inFlight :
      /\ Waiting  /\ Reachable(u)
      /\ phase' = "page"
      /\ cur' = u  /\ next' = 1
      /\ inFlight' = inFlight \ {u}
      /\ fetched' = fetched + 1
      /\ Send(PageMsg(u, UrlRow("done", "none", depth[u], u \in inSitemap)))
      /\ UNCHANGED <<fileVars, index, frontVars, probeVars, flagVars, truncated, envVars>>

JoinFetched ==
    \E u \in inFlight :
      /\ Waiting  /\ Reachable(u)
      /\ phase' = "page"
      /\ cur' = u  /\ next' = 1
      /\ inFlight' = inFlight \ {u}
      /\ fetched' = fetched + 1
      /\ UNCHANGED <<fileVars, writerVars, frontVars, probeVars, flagVars,
                     truncated, envVars>>

(* The task dies: its slot is released, its row is left as it was. *)
JoinPanic ==
    /\ MayPanic  /\ Waiting
    /\ \E u \in Pool :
         /\ inFlight' = inFlight \ {u}
         /\ probing' = probing \ {u}
    /\ phase' = "top"
    /\ UNCHANGED <<fileVars, writerVars, pageVars, frontVars, probes, registered,
                   enqueued, fetched, flagVars, truncated, envVars>>

(* An answer, or the lack of one, settles the row.  A host that asks to    *)
(* stop, or keeps failing, loses the rest of its probes (ExternalQueue).   *)
JoinProbe ==
    \E v \in probing :
      /\ Waiting
      /\ IF v \in BlockedAddress
         THEN /\ Send(RowMsg(v, ExternalRow("local_network", FALSE)))
              /\ UNCHANGED probes
         ELSE /\ Send(RowMsg(v, ExternalRow("none", TRUE)))
              /\ \/ UNCHANGED probes
                 \/ probes' = {w \in probes : HostOf[w] # HostOf[v]}
      /\ UNCHANGED fetched
      /\ CloseJoin(v, truncated)
      /\ UNCHANGED <<fileVars, index, pageVars, frontVars, registered, enqueued,
                     flagVars, envVars>>

-----------------------------------------------------------------------------
(* The links of the page, in order, and then its redirect: what is new     *)
(* gets a row before the page does.                                        *)

AtRedirect == next = Len(Links[cur]) + 1
Target     == IF AtRedirect THEN Location[cur] ELSE Links[cur][next]

(* A redirect is the same click: its target is no deeper than the page. *)
TargetDepth    == IF AtRedirect THEN depth[cur] ELSE depth[cur] + 1
TargetNofollow == ~AtRedirect /\ <<cur, Target>> \in NofollowLinks

PageStep ==
    /\ phase = "page"  /\ next <= Len(Links[cur]) + 1
    /\ next' = next + 1
    /\ UNCHANGED <<fileVars, index, phase, cur, poolVars, probing, flagVars, envVars>>

TargetKnown ==
    /\ PageStep  /\ Target \in seen \cup {NoUrl}
    /\ UNCHANGED <<unsaved, frontVars, probes, registered, enqueued, truncated>>

NewTarget(v) == PageStep /\ v = Target /\ v \in Urls \ seen

(* Why an external URL is not probed, when that is a property of the URL.  *)
WhyNotProbe(v) ==
    IF ~CheckExternal THEN "external_check_off"
    ELSE IF ~CanProbe THEN "no_network"
    ELSE IF v \in Filtered THEN "pattern"
    ELSE IF TargetNofollow THEN "nofollow"
    ELSE IF v \in Unprobeable THEN "local_network"
    ELSE "none"

(* Registered, and probed unless there is a reason, the cap is reached or  *)
(* its host has had enough (left open: ExternalQueue decides).             *)
TargetExternal ==
    \E v \in Urls \ Internal :
      /\ NewTarget(v)  /\ registered < MaxExternalUrls
      /\ registered' = registered + 1
      /\ Register(v, ExternalRow(WhyNotProbe(v), FALSE))
      /\ \/ /\ WhyNotProbe(v) = "none"  /\ enqueued < MaxExternal
            /\ probes' = probes \cup {v}
            /\ enqueued' = enqueued + 1
         \/ UNCHANGED <<probes, enqueued>>
      /\ UNCHANGED truncated

(* Over the cap of registered externals: seen, and without a row. *)
TargetUnregistered ==
    \E v \in Urls \ Internal :
      /\ NewTarget(v)  /\ registered >= MaxExternalUrls
      /\ seen' = seen \cup {v}
      /\ UNCHANGED <<unsaved, queued, depth, probes, registered, enqueued, truncated>>

TargetListedAndQueued ==
    \E v \in Internal :
      /\ NewTarget(v)  /\ ListMode
      /\ Enqueue(v, TargetDepth, v \in inSitemap)
      /\ UNCHANGED <<probes, registered, enqueued, truncated>>

(* List mode audits the list: the target is registered, not crawled. *)
TargetListed ==
    \E v \in Internal :
      /\ NewTarget(v)  /\ ListMode
      /\ Register(v, UrlRow("skipped", "none", TargetDepth, v \in inSitemap))
      /\ UNCHANGED <<probes, registered, enqueued, truncated>>

TargetFiltered ==
    \E v \in Internal :
      /\ NewTarget(v)  /\ ~ListMode  /\ v \in Filtered
      /\ Register(v, UrlRow("excluded", "pattern", TargetDepth, v \in inSitemap))
      /\ UNCHANGED <<probes, registered, enqueued, truncated>>

TargetNotFollowed ==
    \E v \in Internal :
      /\ NewTarget(v)  /\ ~ListMode  /\ v \notin Filtered  /\ TargetNofollow
      /\ Register(v, UrlRow("excluded", "nofollow", TargetDepth, FALSE))
      /\ UNCHANGED <<probes, registered, enqueued, truncated>>

TooDeep == ~AtRedirect /\ TargetDepth > MaxDepth

TargetTooDeep ==
    \E v \in Internal :
      /\ NewTarget(v)  /\ ~ListMode  /\ v \notin Filtered  /\ ~TargetNofollow
      /\ TooDeep
      /\ truncated' = OrElse("max_depth")
      /\ Register(v, UrlRow("excluded", "depth", TargetDepth, FALSE))
      /\ UNCHANGED <<probes, registered, enqueued>>

TargetQueued ==
    \E v \in Internal :
      /\ NewTarget(v)  /\ ~ListMode  /\ v \notin Filtered  /\ ~TargetNofollow
      /\ ~TooDeep
      /\ Enqueue(v, TargetDepth, v \in inSitemap)
      /\ UNCHANGED <<probes, registered, enqueued, truncated>>

(* The page goes last, with its links: build_result. *)
PageDone ==
    /\ phase = "page"  /\ next > Len(Links[cur]) + 1
    /\ Send(PageMsg(cur, UrlRow("done", "none", depth[cur], cur \in inSitemap)))
    /\ cur' = NoUrl  /\ next' = 1
    /\ UNCHANGED fetched
    /\ CloseJoin(cur, truncated)
    /\ UNCHANGED <<fileVars, index, frontVars, probes, registered, enqueued,
                   flagVars, envVars>>

-----------------------------------------------------------------------------
(* The writer commits the oldest message.  A link whose target has no id   *)
(* yet is left out.                                                        *)

Commit ==
    /\ unsaved # <<>>
    /\ unsaved' = Tail(unsaved)
    /\ LET m == Head(unsaved) IN
         \/ /\ m.kind = "resend"
            /\ index' = index \cup SeenOnDisk
            /\ UNCHANGED <<rows, linkRows>>
         \/ /\ m.kind # "resend"
            /\ rows' = [rows EXCEPT ![m.url] = Upsert(rows[m.url], m.row)]
            /\ index' = index \cup {m.url}
            /\ linkRows' = [p \in Urls \X Urls |->
                 IF m.kind = "page" /\ p[1] = m.url /\ p[2] \in LinksOf(m.url) \cap index'
                 THEN linkRows[p] + 1 ELSE linkRows[p]]
    /\ UNCHANGED <<status, truncReason, siteIssues, memVars, envVars>>

-----------------------------------------------------------------------------
(* The end of a session: the writer is drained and closed, and then the    *)
(* file is paused or goes through the final pass.                          *)

Pause ==
    /\ phase = "drain"  /\ unsaved = <<>>  /\ interrupted
    /\ status' = "paused"
    /\ EndSession
    /\ UNCHANGED <<truncReason, rows, linkRows, siteIssues>>

(* A resume first deletes what an interrupted final pass left behind. *)
Finalize ==
    /\ phase = "drain"  /\ unsaved = <<>>  /\ ~interrupted
    /\ phase' = "final"
    /\ siteIssues' = IF resuming THEN [r \in 1..NRules |-> 0] ELSE siteIssues
    /\ UNCHANGED <<status, truncReason, rows, linkRows, writerVars, pageVars,
                   frontVars, poolVars, probeVars, flagVars, truncated, envVars>>

EvaluateRule ==
    /\ phase = "final"  /\ rule <= NRules  /\ ~cancel
    /\ rule' = rule + 1
    /\ siteIssues' = IF truncated # "none" /\ rule \in FullGraphRules
                     THEN siteIssues
                     ELSE [siteIssues EXCEPT ![rule] = @ + 1]
    /\ UNCHANGED <<status, truncReason, rows, linkRows, writerVars, phase, pageVars,
                   frontVars, poolVars, probeVars, interrupted, resuming, already,
                   inSitemap, truncated, envVars>>

FinalizeCancelled ==
    /\ phase = "final"  /\ rule <= NRules  /\ cancel
    /\ status' = "paused"
    /\ EndSession
    /\ UNCHANGED <<truncReason, rows, linkRows, siteIssues>>

FinalizeDone ==
    /\ phase = "final"  /\ rule > NRules
    /\ status' = "done"
    /\ truncReason' = truncated
    /\ EndSession
    /\ UNCHANGED <<rows, linkRows, siteIssues>>

-----------------------------------------------------------------------------
(* The environment. *)

(* The user's first Ctrl-C. *)
RequestCancel ==
    /\ phase # "idle"  /\ ~cancel
    /\ cancel' = TRUE
    /\ UNCHANGED <<fileVars, writerVars, memVars, expired, sessions>>

DeadlinePasses ==
    /\ HasDeadline  /\ phase # "idle"  /\ ~expired
    /\ expired' = TRUE
    /\ UNCHANGED <<fileVars, writerVars, memVars, cancel, sessions>>

(* The process dies, or an error ends the session: what the writer has not *)
(* committed is lost, and the file keeps the status it had.                *)
Crash ==
    /\ phase # "idle"
    /\ EndSession
    /\ UNCHANGED fileVars

(* Nothing left to do within the bound on sessions. *)
Over ==
    /\ phase = "idle"
    /\ sessions = MaxSessions \/ ~(Resumable \/ status = "none")
    /\ UNCHANGED vars

Setup  == SetupSeed \/ SetupSitemap \/ SitemapsOverBudget \/ SitemapsCut
          \/ RejectProbe \/ EndSetup
Loop   == Refill \/ Dispatch \/ DispatchProbe \/ Exhausted
          \/ StopOnCancel \/ StopOnDeadline
Joins  == JoinExcluded \/ JoinFailed \/ JoinRateLimited \/ JoinFetched
          \/ JoinPanic \/ JoinProbe
Page   == TargetKnown \/ TargetExternal \/ TargetUnregistered \/ TargetListed
          \/ TargetFiltered \/ TargetNotFollowed \/ TargetTooDeep \/ TargetQueued
          \/ PageDone
Ending == Pause \/ Finalize \/ EvaluateRule \/ FinalizeCancelled \/ FinalizeDone

(* What the process does by itself. *)
Progress == Setup \/ Loop \/ Joins \/ Page \/ Commit \/ Ending

Next == Start \/ Resume \/ Progress \/ RequestCancel \/ DeadlinePasses \/ Crash \/ Over

Spec     == Init /\ [][Next]_vars
FairSpec == Spec /\ WF_vars(Progress)

-----------------------------------------------------------------------------
(* Properties. *)

(* The variables keep their types: those of the file, of the writer and of *)
(* the session.                                                            *)
FileTypeOK ==
    /\ status \in {"none", "running", "paused", "done"}
    /\ truncReason \in Truncations
    /\ rows \in [Urls -> Row]
    /\ linkRows \in [Urls \X Urls -> Nat]
    /\ siteIssues \in [1..NRules -> Nat]

WriterTypeOK ==
    /\ unsaved \in Seq(Message)
    /\ index \subseteq Urls

FrontierTypeOK ==
    /\ queued \subseteq Urls
    /\ depth \in [Urls -> Nat]
    /\ seen \subseteq Urls
    /\ inFlight \subseteq Urls
    /\ probes \subseteq Urls
    /\ probing \subseteq Urls
    /\ inSitemap \subseteq Urls

PhaseTypeOK ==
    /\ phase \in Running \cup {"idle"}
    /\ cur \in Urls \cup {NoUrl}
    /\ phase = "page" <=> cur # NoUrl
    /\ next \in Nat \ {0}
    /\ rule \in Nat \ {0}

CountersTypeOK ==
    /\ fetched \in Nat
    /\ registered \in Nat
    /\ enqueued \in Nat
    /\ already \in Nat
    /\ sessions \in Nat
    /\ truncated \in Truncations

FlagsTypeOK ==
    /\ interrupted \in BOOLEAN
    /\ resuming \in BOOLEAN
    /\ cancel \in BOOLEAN
    /\ expired \in BOOLEAN

TypeOK ==
    /\ FileTypeOK  /\ WriterTypeOK  /\ FrontierTypeOK
    /\ PhaseTypeOK  /\ CountersTypeOK  /\ FlagsTypeOK

(* The internal URLs a page leads to. *)
Targets(u) == (LinksOf(u) \cup {Location[u]}) \cap Internal

(* A crawled page is never in the file without the rows its links and its  *)
(* redirect lead to, whatever was lost in a crash: the graph a resume and  *)
(* the site rules read has no dangling edge.                               *)
TargetsOnDisk == \A u \in Done : \A v \in Targets(u) : Present(v)

(* Each link of a crawled page is in table links once, over any number of  *)
(* sessions: the table has no uniqueness constraint, so a page saved twice *)
(* would double its links, and a target the writer has no id for would     *)
(* lose them.  Externals may be left out by their cap.                     *)
LinkRowsExact ==
    \A u, v \in Urls :
      /\ linkRows[<<u, v>>] <= 1
      /\ linkRows[<<u, v>>] = 1 => u \in Done /\ v \in LinksOf(u) /\ Present(v)
      /\ u \in Done /\ v \in LinksOf(u) \cap Internal => linkRows[<<u, v>>] = 1

(* Being worked on: queued, in flight, or the page whose links are read. *)
Live == queued \cup inFlight \cup ({cur} \ {NoUrl})

(* Neither in the file nor in what is on its way to it is the URL settled. *)
Unsettled(u) ==
    /\ rows[u].state \in {"absent", "pending"}
    /\ \A i \in DOMAIN unsaved : unsaved[i].url = u => unsaved[i].row.state = "pending"

(* Nothing a session works on is settled, and nothing is worked on twice:  *)
(* a resume continues, it does not repeat.                                 *)
NoRefetch ==
    /\ \A u \in Live : Unsettled(u)
    /\ cur \notin queued \cup inFlight
    /\ queued \cap inFlight = {}

(* No external URL is probed again once it answered, or once the reason    *)
(* for not probing it is written or on its way.                            *)
NoReprobe ==
    /\ \A u \in probes \cup probing :
         /\ ~rows[u].answered /\ rows[u].reason = "none"
         /\ \A i \in DOMAIN unsaved :
              unsaved[i].url = u => /\ ~unsaved[i].row.answered
                                    /\ unsaved[i].row.reason = "none"
    /\ probes \cap probing = {}

(* A row that is no longer pending never goes back, nor loses the reason   *)
(* or the answer it got, however late or repeated the writes that follow.  *)
TerminalRowsStick ==
    [][\A u \in Urls :
         rows[u].state \notin {"absent", "pending"} =>
           /\ rows'[u].state = rows[u].state
           /\ rows[u].reason # "none" => rows'[u].reason = rows[u].reason
           /\ rows[u].answered => rows'[u].answered]_vars

(* A file that says it is finished has the findings of each site rule      *)
(* exactly once, and those of a rule that needs the whole graph only if    *)
(* nothing was cut.  If it is not truncated it holds the whole site: the   *)
(* seeds and the sitemaps' URLs are in it, nothing is left pending, and    *)
(* every page the sitemaps declare says so, in whatever session each was   *)
(* found or fetched.                                                       *)
DoneIsComplete ==
    status = "done" =>
      /\ \A r \in 1..NRules :
           siteIssues[r] = IF truncReason # "none" /\ r \in FullGraphRules THEN 0 ELSE 1
      /\ truncReason = "none" =>
           /\ Pending = {}
           /\ \A i \in DOMAIN Seeds : Present(Seeds[i])
           /\ \A i \in DOMAIN SitemapUrls :
                LET u == SitemapUrls[i] IN
                  /\ Present(u)
                  /\ rows[u].state \in {"done", "error"} => rows[u].sitemap

(* A finished file that still has pending pages says so in a way resume    *)
(* accepts: what the site refused with a 429 can be fetched later.         *)
PendingIsResumable == status = "done" /\ Pending # {} => Resumable

(* The page budget is the crawl's, and pages fetched before a resume       *)
(* count: a session goes over it by one page at most, and only if it       *)
(* started with none left, for the loop looks at it after each page.       *)
BudgetPerSession == already + fetched <= MaxUrls \/ fetched <= 1

(* A crawl asks only for what it was told to: pages of the site, in list   *)
(* mode those of the list, nothing the patterns reject but the seed typed  *)
(* by hand, and nothing robots.txt disallows ends up as a crawled page.    *)
SeedSet == {Seeds[i] : i \in DOMAIN Seeds}

OnlyWhatWasAsked ==
    /\ Done \cap RobotsBlocked = {}
    /\ \A u \in Done \cup inFlight \cup queued :
         /\ u \in Internal
         /\ ListMode => u \in SeedSet
         /\ u \in Filtered => Mode = "http" /\ u \in SeedSet

(* A session ends by itself, whatever it meets. *)
SessionEnds == phase # "idle" ~> phase = "idle"

=============================================================================
