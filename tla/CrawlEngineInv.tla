--------------------------- MODULE CrawlEngineInv ---------------------------
(* The inductive invariant of the crawl loop: why a crash at any point     *)
(* leaves a file that a resume can continue without repeating anything.    *)
EXTENDS CrawlEngine

(* Written, or on its way to the writer. *)
Known(v) == Present(v) \/ \E i \in DOMAIN unsaved : unsaved[i].url = v

(* The same, before the n-th message. *)
KnownBefore(v, n) == Present(v) \/ \E i \in 1..(n-1) : unsaved[i].url = v

(* The n-th URL the page leads to: a link, and last its redirect. *)
Lead(u, n) == IF n = Len(Links[u]) + 1 THEN Location[u] ELSE Links[u][n]

(* What is on its way to the file does not disturb what is in it: the      *)
(* old rows go first, a page's row is the last of its URL and goes behind  *)
(* the rows its links need, and no message is about a page already         *)
(* crawled.                                                                *)
InvMessages ==
    \A i \in DOMAIN unsaved :
      /\ unsaved[i].kind = "resend" => i = 1
      /\ unsaved[i].kind = "row" =>
           /\ unsaved[i].row.state \notin {"absent", "done"}
           /\ unsaved[i].row.state = "pending" => unsaved[i].url \in Internal
      /\ unsaved[i].kind = "page" =>
           /\ unsaved[i].row.state = "done"
           /\ unsaved[i].url \in Internal
           /\ \A j \in DOMAIN unsaved : j > i => unsaved[j].url # unsaved[i].url
           /\ \A v \in Targets(unsaved[i].url) : KnownBefore(v, i)
      /\ unsaved[i].kind # "resend" => rows[unsaved[i].url].state # "done"

(* While a session lives, what is in the file or on its way to it is in    *)
(* the index of seen URLs.                                                 *)
InvRecorded ==
    phase # "idle" =>
      /\ \A u \in Urls : Present(u) => u \in seen
      /\ \A i \in DOMAIN unsaved : unsaved[i].kind # "resend" => unsaved[i].url \in seen

(* And a page of the site is seen only once its row is written or sent.    *)
InvSeen ==
    /\ \A v \in seen \cap Internal : Known(v)
    /\ Live \subseteq seen \cap Internal
    /\ probes \cup probing \subseteq seen \ Internal

(* The links already read are seen. *)
InvPage ==
    phase = "page" => \A n \in 1..(next - 1) : Lead(cur, n) \in seen \cup {NoUrl}

(* The writer knows the id of every row, or is about to be told. *)
InvIndex ==
    /\ \A u \in index : Present(u)
    /\ phase # "idle" => \/ \A u \in Urls : Present(u) => u \in index
                         \/ unsaved # <<>> /\ unsaved[1].kind = "resend"

(* Nothing in memory without a session, nothing in a file not created. *)
InvIdle ==
    /\ phase = "idle" =>
         /\ unsaved = <<>>  /\ index = {}  /\ seen = {}  /\ cur = NoUrl
         /\ queued = {}  /\ inFlight = {}  /\ probes = {}  /\ probing = {}
    /\ status = "none" => phase = "idle" /\ \A u \in Urls : ~Present(u)

(* Only pages of the site are crawled or left to crawl. *)
InvSite == Pending \cup Done \subseteq Internal

(* The inductive invariant.  TargetsOnDisk alone is not: it survives a     *)
(* crash because a page's row is sent behind the rows it needs, and those  *)
(* were sent because seen URLs are known ones.                             *)
IInv ==
    /\ TypeOK
    /\ InvMessages
    /\ InvRecorded
    /\ InvSeen
    /\ InvPage
    /\ InvIndex
    /\ InvIdle
    /\ InvSite
    /\ NoRefetch
    /\ TargetsOnDisk
    /\ LinkRowsExact

-----------------------------------------------------------------------------
(* Why a file that says it is finished is: what each session still knows   *)
(* of the plan, of the seeds and sitemaps, and of the rules it has run.    *)

(* Something was cut in this session, and its end says so. *)
Cut == truncated # "none" \/ interrupted

(* The site rules are told once.  Before the final pass a first session    *)
(* has told none; during it, the rules already evaluated are told once,    *)
(* those skipped are not, and nothing is on its way to the file any more.  *)
Told(r, reason) == IF reason # "none" /\ r \in FullGraphRules THEN 0 ELSE 1

InvIssues ==
    /\ phase = "idle" => ~resuming
    /\ phase # "idle" => status = "running"
    /\ phase # "final" => rule = 1
    /\ status = "none" \/ (phase \notin {"idle", "final"} /\ ~resuming) =>
         \A r \in 1..NRules : siteIssues[r] = 0
    /\ phase = "final" =>
         /\ ~interrupted  /\ unsaved = <<>>
         /\ \A r \in 1..NRules : siteIssues[r] = IF r < rule THEN Told(r, truncated) ELSE 0
    /\ status = "done" => \A r \in 1..NRules : siteIssues[r] = Told(r, truncReason)

(* A URL the file holds, or will hold, as pending, and the last word on    *)
(* its way to the file, which is not that it is pending.                   *)
Planned(u) ==
    \/ rows[u].state = "pending"
    \/ \E i \in DOMAIN unsaved : unsaved[i].url = u /\ unsaved[i].row.state = "pending"

Settling(u) ==
    \E i \in DOMAIN unsaved :
      /\ unsaved[i].url = u
      /\ \A j \in DOMAIN unsaved :
           j >= i /\ unsaved[j].url = u => unsaved[j].row.state # "pending"

(* No plan is forgotten: unless the session was cut, or a task died, what  *)
(* is pending is being worked on, or is settled by a message on its way.   *)
InvPlan ==
    /\ ~MayPanic /\ phase # "idle" /\ ~Cut =>
         \A u \in Urls : Planned(u) => u \in Live \/ Settling(u)
    /\ phase \in {"drain", "final"} /\ ~Cut => Live = {}
    /\ phase # "idle" /\ ListMode => truncated # "none"

(* What the sitemaps declare, and whether the page budget leaves it whole. *)
SitemapSet == {SitemapUrls[i] : i \in DOMAIN SitemapUrls}

SitemapsFit == Cardinality(SitemapSet) <= MaxUrls

(* The seeds and sitemap entries already read are seen, and the latter     *)
(* noted as declared; from the end of the setup, all of them.              *)
InvSources ==
    /\ phase = "idle" => next = 1
    /\ phase = "setup" =>
         /\ \A i \in DOMAIN Seeds : i < next => Seeds[i] \in seen
         /\ Cut \/ \A i \in DOMAIN SitemapUrls :
                     i + Len(Seeds) < next => SitemapUrls[i] \in seen \cap inSitemap
    /\ phase \notin {"idle", "setup"} => SeedSet \subseteq seen /\ (Cut \/ SitemapSet \subseteq seen \cap inSitemap)

(* The rows that say a sitemap declares them are of URLs it declares, as   *)
(* many as the budget at most, in every session.                           *)
InvDeclared ==
    /\ {u \in Urls : rows[u].sitemap} \cup inSitemap \subseteq SitemapSet
    /\ Cardinality({u \in Urls : rows[u].sitemap}) <= MaxUrls
    /\ Cardinality(inSitemap) <= MaxUrls
    /\ \A u \in Urls : rows[u].sitemap => Present(u)
    /\ phase # "idle" =>
         /\ \A u \in Urls : rows[u].sitemap => u \in inSitemap
         /\ \A i \in DOMAIN unsaved : unsaved[i].row.sitemap => unsaved[i].url \in inSitemap

(* If the sitemaps fit in the budget, a session that asks for pages has    *)
(* all their URLs, so what it fetched says it was declared.                *)
InvFlags ==
    SitemapsFit =>
      /\ phase = "setup" =>
           \/ interrupted \/ expired
           \/ \A i \in DOMAIN SitemapUrls : i + Len(Seeds) < next => SitemapUrls[i] \in inSitemap
      /\ phase \notin {"idle", "setup"} => interrupted \/ expired \/ inSitemap = SitemapSet
      /\ phase \in {"fill", "page"} => inSitemap = SitemapSet
      /\ \A u \in SitemapSet : rows[u].state \in {"done", "error"} => rows[u].sitemap
      /\ \A i \in DOMAIN unsaved :
           unsaved[i].url \in SitemapSet /\ unsaved[i].row.state \in {"done", "error"}
             => unsaved[i].row.sitemap

(* A finished file that tells of no cut has it all. *)
InvWhole ==
    status = "done" /\ truncReason = "none" =>
      /\ ~MayPanic => Pending = {}
      /\ \A u \in SeedSet \cup SitemapSet : Present(u)
      /\ SitemapsFit

CompletionInv ==
    InvIssues /\ InvPlan /\ InvSources /\ InvDeclared /\ InvFlags /\ InvWhole

(* No limit can cut the crawl: what remains is the site's own refusals.    *)
Unlimited ==
    /\ MaxUrls > Cardinality(Urls)  /\ MaxDepth >= Cardinality(Urls)
    /\ ~HasDeadline  /\ ~ListMode

(* Crawled, in the file, on its way to it or still being read.            *)
IsCrawled(u) ==
    \/ rows[u].state = "done"  \/ u = cur
    \/ \E i \in DOMAIN unsaved : unsaved[i].kind = "page" /\ unsaved[i].url = u

Crawled == {u \in Urls : IsCrawled(u)}

(* The pages of the site the file knows of, and those it will know of      *)
(* after the n-th message.                                                 *)
PagesOnDisk   == {v \in Internal : Present(v)}
PagesAfter(n) == {v \in Internal : Present(v) \/ \E i \in 1..n : unsaved[i].url = v}

(* Pages are counted one by one, and a page is found at a depth smaller    *)
(* than the number of pages known by then, in memory, in the messages and  *)
(* in the file: a limit beyond the number of URLs is none.                 *)
InvCounts ==
    /\ phase = "idle" => already = 0 /\ fetched = 0
    /\ phase # "idle" => already + fetched = Cardinality(Crawled)
    /\ phase # "idle" => \A u \in Live : depth[u] < Cardinality(seen \cap Internal)
    /\ \A i \in DOMAIN unsaved :
         unsaved[i].row.state = "pending" => unsaved[i].row.depth < Cardinality(PagesAfter(i))
    /\ \A u \in Pending : rows[u].depth < Cardinality(PagesOnDisk)

InvUnlimited ==
    Unlimited =>
      /\ ~expired
      /\ truncated \in {"none", "rate_limited"}
      /\ truncReason \in {"none", "rate_limited"}

CountingInv == InvCounts /\ InvUnlimited

(* Why what a finished file says of itself is true.                        *)
EndingInv == CompletionInv /\ CountingInv

=============================================================================
