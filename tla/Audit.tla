-------------------------------- MODULE Audit --------------------------------
(***************************************************************************)
(* From a site to its findings: pages are saved in any order with what the  *)
(* page rules say of each, the crawl stops when it likes, and the final     *)
(* pass runs the rules of the site one by one over the file, cancelled or   *)
(* cut between any two, and begun again by a resume.  How the pages are     *)
(* fetched and counted is in CrawlEngine; here the file has its contents.   *)
(***************************************************************************)
EXTENDS PageResult, IndexRules, HttpRules, CanonRules, MetaRules, ContentRules, AssetRules, LinkRules, Bags

CONSTANTS Sites,           \* the sites the crawl may meet
          MaxSessions(_)   \* bound: sessions of the crawl of a site

VARIABLES site,            \* the site that was met
          file,            \* the crawl file
          issues,          \* table issues, a bag of findings
          phase,           \* "crawl", "final", "idle": what the session is doing
          status,          \* crawl_meta.status
          truncated,       \* crawl_meta.truncated_reason: "", "limit", "rate_limited" or "list_mode"
          cut,             \* what cut the session: what it will write there
          rule,            \* the next rule of the final pass
          sessions

(* Whatever can be asked for has an answer, a site is declared and linked   *)
(* in finitely many URLs, and of a page the parser gives all that the rules *)
(* read, finitely many links, images and alternates among it.               *)
ParsedFields ==
  {"metaRobots", "title", "titles", "desc", "viewport", "refresh", "outsideHead", "headings", "words", "lang", "og",
   "images", "canonical", "canonicals", "canonicalForm", "alternates", "hash", "signature", "ids"}
ASSUME AuditAssumption ==
  \A s \in Sites :
    /\ No \notin DOMAIN s.docs
    /\ s.seeds \cup s.inSitemap \subseteq DOMAIN s.docs /\ IsFiniteSet(s.seeds \cup s.inSitemap)
    /\ IsFiniteSet(DOMAIN s.robots) /\ IsFiniteSet(s.sitemaps)
    /\ \A u \in DOMAIN s.docs :
         /\ "location" \in DOMAIN s.docs[u]
         /\ \A v \in Discovered(s, u) : InScope(s, v) /\ s.mode # "list" => v \in DOMAIN s.docs
         /\ IsFiniteSet(Discovered(s, u))
         /\ HasPage(s.docs[u]) =>
              LET p == s.docs[u].parsed IN
              ParsedFields \subseteq DOMAIN p /\ \A items \in {p.links, p.images, p.alternates} : IsFiniteSet(items)

vars == <<site, file, issues, phase, status, truncated, cut, rule, sessions>>

-----------------------------------------------------------------------------
(* The rules. *)

PageRules(f, u) ==
  IndexPageRules(f, u) \cup HttpPageRules(f, u) \cup MetaPageRules(f, u) \cup CanonPageRules(f, u)
  \cup ContentPageRules(f, u) \cup AssetPageRules(f, u) \cup HreflangPageRules(f, u)
  \cup SocialOgMissing(f, u) \cup LinkPageRules(f, u)

(* The robots.txt of which host the query returns, when there are several.  *)
SomeHost(f) == IF DOMAIN f.robots = {} THEN "none" ELSE CHOOSE h \in DOMAIN f.robots : TRUE

(* The site rules in the order of the registry, by category: cancelling is  *)
(* looked at before each.                                                   *)
SiteRule(f, n) ==
  CASE n = 1 -> DeepPage(f)            [] n = 2 -> SectionDisconnected(f)  [] n = 3 -> NoInternalLinksIn(f)
    [] n = 4 -> BlockedInSitemap(f)    [] n = 5 -> NoindexInSitemap(f)     [] n = 6 -> SitemapMissing(f)
    [] n = 7 -> OrphanPage(f)          [] n = 8 -> RobotsTxtMissing(f, SomeHost(f))
    [] n = 9 -> RobotsTxtBlocksAll(f)  [] n = 10 -> SitemapError(f)        [] n = 11 -> RobotsBlocked(f)
    [] n = 12 -> HttpSiteRules(f)      [] n = 13 -> MetaSiteRules(f)       [] n = 14 -> CanonSiteRules(f)
    [] n = 15 -> AssetSiteRules(f)     [] n = 16 -> HreflangSiteRules(f)
    [] n = 17 -> SocialOgImageBroken(f) [] n = 18 -> LinkFragmentBroken(f)
NRules == 18
SiteRuleIds ==
  {"INDEX-BLOCKED-IN-SITEMAP", "INDEX-NOINDEX-IN-SITEMAP", "INDEX-SITEMAP-MISSING", "INDEX-ROBOTS-TXT-MISSING",
   "INDEX-ROBOTS-TXT-BLOCKS-ALL", "INDEX-SITEMAP-ERROR", "INDEX-ROBOTS-BLOCKED", "HTTP-404-INTERNAL",
   "HTTP-404-EXTERNAL", "HTTP-EXTERNAL-UNVERIFIABLE", "HTTP-REDIRECT-CHAIN", "HTTP-REDIRECT-LOOP",
   "HTTP-REDIRECT-TO-404", "HTTP-NO-HTTPS", "META-TITLE-DUPLICATE", "META-DESC-DUPLICATE", "CANON-TO-4XX",
   "CANON-TO-NOINDEX", "CANON-CHAIN", "CANON-TO-REDIRECT", "DUP-CONTENT-EXACT", "DUP-CONTENT-NEAR",
   "ASSET-IMG-BROKEN", "ASSET-IMG-HEAVY", "ASSET-BROKEN", "ASSET-JS-HEAVY", "ASSET-CSS-HEAVY",
   "ASSET-IFRAME-BROKEN", "ASSET-FORM-BROKEN", "HREFLANG-NOT-RECIPROCAL", "HREFLANG-TO-4XX",
   "SOCIAL-OG-IMAGE-BROKEN", "LINK-FRAGMENT-BROKEN"} \cup NeedsWholeGraph

(* A crawl that was cut does not judge the graph.                           *)
KeptAll(findings, partial) == findings
Kept(findings, partial) == {i \in findings : ~(partial /\ i.rule \in NeedsWholeGraph)}

-----------------------------------------------------------------------------
(* The crawl. *)

NewIds(n, us) == [u \in us |-> n + Cardinality({v \in us : v <= u})]
EmptyFile(s) ==
  [ids |-> Upsert(NewIds(0, s.seeds), NewIds(Cardinality(s.seeds), s.inSitemap \ s.seeds)),
   mode |-> s.mode, asksSitemaps |-> s.asksSitemaps, base |-> s.base, seeds |-> s.seeds, text |-> s.text,
   urls |-> [u \in s.seeds \cup s.inSitemap |-> PendingRow(s, u)],
   pages |-> <<>>, links |-> {}, images |-> {}, resources |-> <<>>,
   robots |-> <<>>, sitemaps |-> {}]

(* The rows that u adds: its own over the one it had, and one for each URL  *)
(* it discovers: an external one, or one that is not on the list to crawl,  *)
(* is written and not fetched.  The rows of a page come in the order of its *)
(* links, here that of their numbers; which page is saved first decides the *)
(* rest.                                                                    *)
Saved(s, f, u) ==
  LET r == BuildResult(s, u)
      new == Discovered(s, u) \ Rows(f)
      rows == [v \in new |-> IF InScope(s, v) /\ s.mode # "list" THEN PendingRow(s, v) ELSE SkippedRow(s, v)]
  IN [f EXCEPT !.ids = Upsert(@, NewIds(Cardinality(Rows(f)), new)),
               !.urls = Upsert([v \in {u} |-> r.url], Upsert(@, rows)),
               !.pages = Upsert(r.pages, @), !.resources = Upsert(r.resources, @),
               !.links = @ \cup r.links, !.images = @ \cup r.images]

Pending(f) == {u \in Rows(f) : f.urls[u].state = "pending"}
Unprobed(s, f) ==
  {u \in (Rows(f) \ Internal(f)) \cap DOMAIN s.docs :
     f.urls[u].state = "skipped" /\ f.urls[u].status = 0 /\ f.urls[u].error = NoText /\ f.urls[u].reason = NoText}

Init ==
  /\ site \in Sites
  /\ file = EmptyFile(site)
  /\ issues = EmptyBag /\ phase = "crawl" /\ status = "running" /\ truncated = NoText /\ cut = NoText
  /\ rule = 1 /\ sessions = 1

Save ==
  /\ phase = "crawl"
  /\ \E u \in Pending(file) :
       /\ file' = Saved(site, file, u)
       /\ issues' = issues (+) SetToBag(IF u \in Pages(file') THEN PageRules(file', u) ELSE {})
  /\ UNCHANGED <<site, phase, status, truncated, cut, rule, sessions>>

(* An external URL is only asked for its status.                            *)
Probe ==
  /\ phase = "crawl"
  /\ \E u \in Unprobed(site, file) :
       LET d == site.docs[u] IN
       file' = [file EXCEPT !.urls[u] = UrlRow(site, u, "skipped", [d EXCEPT !.location = No]),
                            !.resources = Upsert(ResourceRows(site, u, d), @)]
  /\ UNCHANGED <<site, issues, phase, status, truncated, cut, rule, sessions>>

-----------------------------------------------------------------------------
(* The final pass. *)

(* What an interrupted final pass left behind goes first, in a resume.      *)
NothingDeleted == issues
StaleDeleted == IF sessions > 1 THEN [i \in {j \in DOMAIN issues : j.rule \notin SiteRuleIds} |-> issues[i]] ELSE issues

(* The robots.txt and the sitemaps met are written, and then the pages that *)
(* link to each page, itself among them, whatever the element.              *)
Recorded(s, f) == [f EXCEPT !.robots = s.robots, !.sitemaps = s.sitemaps]
Counted(f) == [f EXCEPT !.pages = [u \in Pages(f) |->
                 [f.pages[u] EXCEPT !.linksIn = Cardinality({l.from : l \in {k \in f.links : k.to = u}})]]]

(* With nothing left to fetch, cut by some limit, or with pages that the    *)
(* server refuses for now.  A list is never the whole of its sites.         *)
Finalize ==
  /\ phase = "crawl"
  /\ \/ Pending(file) = {} /\ Unprobed(site, file) = {} /\ cut' = IF site.mode = "list" THEN "list_mode" ELSE NoText
     \/ Pending(file) # {} /\ Pages(file) # {}
        /\ cut' \in IF site.mode = "list" THEN {"list_mode", "limit"} ELSE {"limit", "rate_limited"}
  /\ phase' = "final" /\ rule' = 1
  /\ file' = Counted(Recorded(site, file))
  /\ issues' = StaleDeleted
  /\ UNCHANGED <<site, status, truncated, sessions>>

EvaluateRule ==
  /\ phase = "final" /\ rule <= NRules
  /\ issues' = issues (+) SetToBag(Kept(SiteRule(file, rule), cut # NoText))
  /\ rule' = rule + 1
  /\ UNCHANGED <<site, file, phase, status, truncated, cut, sessions>>

Done ==
  /\ phase = "final" /\ rule > NRules
  /\ phase' = "idle" /\ status' = "done" /\ truncated' = cut /\ rule' = 1
  /\ UNCHANGED <<site, file, issues, cut, sessions>>

(* The user's Ctrl-C, in the crawl or between two rules: what was met so    *)
(* far is written, and nothing is counted.                                  *)
Pause ==
  /\ phase # "idle" /\ sessions < MaxSessions(site)
  /\ phase' = "idle" /\ status' = "paused" /\ rule' = 1
  /\ file' = Recorded(site, file)
  /\ UNCHANGED <<site, issues, truncated, cut, sessions>>

(* The process dies: the file stays as it was.                              *)
Crash ==
  /\ phase # "idle" /\ sessions < MaxSessions(site)
  /\ phase' = "idle" /\ rule' = 1
  /\ UNCHANGED <<site, file, issues, status, truncated, cut, sessions>>

(* A paused crawl goes on, one that died too, and one whose server refused  *)
(* pages with a 429.                                                        *)
CanResume == sessions < MaxSessions(site) /\ (status # "done" \/ truncated = "rate_limited")
Resume ==
  /\ phase = "idle" /\ CanResume
  /\ phase' = "crawl" /\ status' = "running" /\ cut' = NoText /\ sessions' = sessions + 1
  /\ UNCHANGED <<site, file, issues, truncated, rule>>

Over == /\ phase = "idle" /\ ~CanResume
        /\ UNCHANGED vars

Next == Save \/ Probe \/ Finalize \/ EvaluateRule \/ Done \/ Pause \/ Crash \/ Resume \/ Over

Spec == Init /\ [][Next]_vars

-----------------------------------------------------------------------------
(* Properties. *)

(* The state of a crawl and of its file.                                    *)
TypeOK ==
  /\ phase \in {"crawl", "final", "idle"} /\ status \in {"running", "paused", "done"}
  /\ {truncated, cut} \subseteq {NoText, "limit", "rate_limited", "list_mode"}
  /\ rule \in 1..NRules + 1 /\ sessions \in 1..MaxSessions(site)
  /\ Pages(file) \subseteq Rows(file) /\ IsABag(issues)
  /\ DOMAIN file.ids = Rows(file) /\ {file.ids[u] : u \in Rows(file)} = 1..Cardinality(Rows(file))
  /\ \A l \in file.links : {l.from, l.to} \subseteq Rows(file)

(* What a crawl that finishes has in its table of findings, after whatever  *)
(* interrupted final passes and resumes, is what one pass over its file     *)
(* finds: each once, and none of a file that has changed since.             *)
FindingsOf(f, partial) ==
  (UNION {PageRules(f, u) : u \in Pages(f)}) \cup Kept(UNION {SiteRule(f, n) : n \in 1..NRules}, partial)
IssuesAreTheFiles == status = "done" => issues = SetToBag(FindingsOf(file, truncated # NoText))

(* A site that is ever crawled whole has finitely many URLs.                *)
ASSUME WholeAssumption == \A s \in Sites : IsFiniteSet(DOMAIN s.docs)

(* The file of a crawl of the whole site, in some order.                    *)
Whole(s) ==
  LET saved[n \in 0..Cardinality(DOMAIN s.docs)] ==
        IF n = 0 THEN EmptyFile(s)
        ELSE LET f == saved[n - 1] IN
             IF Pending(f) = {} THEN f ELSE Saved(s, f, CHOOSE u \in Pending(f) : TRUE)
      f == saved[Cardinality(DOMAIN s.docs)]
      probed == Unprobed(s, f)
      answers == [u \in probed |-> UrlRow(s, u, "skipped", [s.docs[u] EXCEPT !.location = No])]
  IN Counted(Recorded(s, [f EXCEPT !.urls = Upsert(answers, @)]))

(* The pages alike, through one another, of all that share a band; and      *)
(* where NearDupWindow leaves some of a bucket without being compared.      *)
AlikePart(f, u) ==
  LET N == Cardinality(Signed(f))
      near(us) == {w \in Signed(f) : \E x \in us : Resemble(f, w, x) \/ Resemble(f, x, w)}
      part[n \in 0..N] == IF n = 0 THEN {u} ELSE LET us == part[n - 1] IN us \cup near(us)
  IN part[N]
Crowded(f, u) == \E b \in Bands : Cardinality(Bucket(f, u, b)) > NearDupWindow + 1

(* A crawl that was cut says nothing false of the site: whatever it finds   *)
(* at a URL, a crawl of the whole site finds there too.  Of a chain of      *)
(* redirects it may know neither the start nor the end: it is part of a     *)
(* longer one, or of a loop; and a loop is told at the URL met first.       *)
(* Three things it may say that a whole crawl does not: that a page is not  *)
(* declared back, when it has not met the page that answers for it, which   *)
(* is another with its canonical; something of redirects, where there are   *)
(* more than are followed; and that pages are alike, where there are so     *)
(* many in a bucket that the whole crawl does not compare them all.         *)
RedirectRules == {"HTTP-REDIRECT-CHAIN", "HTTP-REDIRECT-TO-404", "HTTP-REDIRECT-LOOP"}
Through(f, u) == {v \in Redirects(f) : u \in ToSet(Walk(f, v).path)}
FoundToo(i, whole, findings) ==
  \E j \in findings :
    \/ j.rule = i.rule /\ j.url = i.url
    \/ j.rule = i.rule /\ i.rule \in RedirectRules /\ j.url \in Through(whole, i.url)
    \/ i.rule = "HTTP-REDIRECT-CHAIN" /\ j.rule = "HTTP-REDIRECT-LOOP" /\ i.url \in Through(whole, j.url)
SameOwner(f, whole, key) ==
  OwnersOf(f, key) = OwnersOf(whole, key) /\ Cardinality(OwnersOf(whole, key)) <= 1
TruncatedSaysNoLies ==
  status = "done" /\ truncated # NoText =>
    LET whole == Whole(site)  findings == FindingsOf(whole, FALSE)
    IN \A i \in BagToSet(issues) :
         \/ FoundToo(i, whole, findings)
         \/ i.rule = "HREFLANG-NOT-RECIPROCAL"
            /\ \E key \in i.group[2] \ OwnKeys(file, i.url) : ~SameOwner(file, whole, key)
         \/ i.rule \in RedirectRules /\ Cardinality(Redirects(whole)) >= MaxRedirectHops
         \/ i.rule = "DUP-CONTENT-NEAR" /\ \E v \in AlikePart(whole, i.url) : Crowded(whole, v)

(* Of every page that search engines may index, a finished crawl that has   *)
(* the home page says exactly one of these: near enough to a door of the    *)
(* site, too deep, in a section without a way in, or without any link to    *)
(* it.  Without a home page there is nowhere to count from.                 *)
Within(f, n) ==
  LET near[k \in 0..n] ==
        IF k = 0 THEN Seeds(f)
        ELSE LET us == near[k - 1] IN us \cup {l.to : l \in {m \in f.links : m.element = "a" /\ m.from \in us}}
  IN near[n]
Told(r, u) == \E i \in DOMAIN issues : i.rule = r /\ i.url = u
EveryPageHasItsPlace ==
  status = "done" /\ truncated = NoText /\ Seeds(file) # {} =>
    \A u \in Internal(file) \cap Indexable(file) :
      LET ever == Within(file, Cardinality(Rows(file))) IN
      Cardinality({c \in {"near", "deep", "section", "lonely"} :
        CASE c = "near" -> u \in Within(file, MaxClickDepth)
          [] c = "deep" -> Told("INDEX-DEEP-PAGE", u)
          [] c = "section" -> /\ u \notin ever /\ ~Told("INDEX-NO-INTERNAL-LINKS-IN", u)
                              /\ Told("INDEX-SECTION-DISCONNECTED", No)
          [] c = "lonely" -> u \notin ever /\ Told("INDEX-NO-INTERNAL-LINKS-IN", u)}) = 1

(* A URL that nobody redirects to and that takes more than one redirect to  *)
(* resolve is told as a chain or leads to a loop that is told, never both;  *)
(* and each loop is told at one URL of it, whichever URLs lead to it.       *)
LoopOf(f, u) ==
  LET N == Cardinality(Rows(f))
      orbit[n \in 0..2 * N] ==
        IF n = 0 THEN u ELSE LET v == orbit[n - 1] IN IF v \in Redirects(f) THEN f.urls[v].next ELSE No
  IN {orbit[n] : n \in N..2 * N} \ {No}
RedirectsToldOnce ==
  status = "done" /\ Cardinality(Redirects(file)) <= MaxRedirectHops =>
    /\ \A u \in ChainHeads(file) :
         Told("HTTP-REDIRECT-CHAIN", u) <=> (LoopOf(file, u) = {} /\ file.urls[u].next \in Redirects(file))
    /\ \A u \in Redirects(file) :
         LoopOf(file, u) # {} =>
           Cardinality({i \in DOMAIN issues : i.rule = "HTTP-REDIRECT-LOOP" /\ i.url \in LoopOf(file, u)}) = 1

(* A page is told as a near-duplicate, and of how many, when its part of    *)
(* the graph of the pages alike has other bytes than its own, whatever the  *)
(* order the pairs are met in; versions of one page in another language are *)
(* not alike.  Where a bucket of that part has more pages than are compared *)
(* with one another the part may be told in pieces, or not at all, but      *)
(* never as more than it is: a pair may be missed, none is invented.        *)
NearGroupsAreComponents ==
  status = "done" =>
    \A u \in Signed(file) :
      LET told == {i.detail : i \in {j \in DOMAIN issues : j.rule = "DUP-CONTENT-NEAR" /\ j.url = u}}
          part == AlikePart(file, u)
          mixed == \E v \in part : file.pages[v].hash # file.pages[u].hash
      IN IF \E v \in part : Crowded(file, v)
         THEN told # {} => mixed /\ \A d \in told : d \in 2..Cardinality(part)
         ELSE told = IF mixed THEN {Cardinality(part)} ELSE {}

=============================================================================
