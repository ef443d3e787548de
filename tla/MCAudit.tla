------------------------------- MODULE MCAudit -------------------------------
EXTENDS Portfolio

(* A page without faults, and what a site changes in it.                    *)
PlainText(u) ==
  [bare |-> u, key |-> u, host |-> "a", domain |-> "a", authority |-> "a", https |-> TRUE, infra |-> FALSE,
   root |-> u = 1, series |-> u, numbered |-> FALSE, slug |-> NoText, crawlable |-> TRUE, extension |-> NoText]

Words(n) == [text |-> n, narrow |-> 80, wide |-> 0]
PlainParsed(u) ==
  [metaRobots |-> {}, canonical |-> u, canonicals |-> 1, canonicalForm |-> "absolute", links |-> {},
   hash |-> u, signature |-> <<u, u, u, u>>, alternates |-> {}, lang |-> [underscore |-> FALSE, tags |-> <<"es">>],
   title |-> Words(u), titles |-> 1, desc |-> Words(u), viewport |-> TRUE, refresh |-> FALSE, outsideHead |-> {},
   headings |-> <<[level |-> 1, text |-> u]>>, words |-> 500, og |-> RequiredOg, images |-> {}, ids |-> {"unknown"}]

PlainLink(v) ==
  [to |-> v, element |-> "a", nofollow |-> FALSE, plainHttp |-> FALSE, here |-> FALSE, anchor |-> "texto",
   named |-> FALSE, fragment |-> NoFragment]

Doc(parsed) ==
  [status |-> 200, error |-> NoText, kind |-> "html", location |-> No, bytes |-> 1000, ms |-> 10, blocked |-> FALSE,
   header |-> {}, parsed |-> parsed]
Answer(code) == [Doc(PlainParsed(0)) EXCEPT !.status = code, !.kind = "none", !.bytes = 0]
RedirectTo(v) == [Answer(301) EXCEPT !.location = v]
LinkingTo(u, vs) == Doc([PlainParsed(u) EXCEPT !.links = {PlainLink(v) : v \in vs}])

SiteOf(docs, declared) ==
  [was |-> {}, beside |-> {}, rules |-> NoRules, mode |-> "http", asksSitemaps |-> declared # {}, ignoresRobots |-> FALSE, base |-> 1, seeds |-> {1}, external |-> "checked", scope |-> {"a"}, inSitemap |-> declared, sitemaps |-> {},
   robots |-> ("a" :> [status |-> 200, blocksAll |-> FALSE, content |-> "plain"]), text |-> [u \in DOMAIN docs |-> PlainText(u)], docs |-> docs]

(* Four pages and some of the links between them.                           *)
Edges == {<<1, 2>>, <<2, 3>>, <<3, 4>>, <<4, 3>>, <<3, 3>>, <<1, 4>>}
GraphSites ==
  {SiteOf([u \in 1..4 |-> LinkingTo(u, {e[2] : e \in {d \in es : d[1] = u}})], declared) :
     es \in SUBSET Edges, declared \in {{}, {3, 4}}}

(* A home page with links to three URLs that redirect to one another, to a  *)
(* page or to a URL that is not there.                                      *)
RedirectSites ==
  {SiteOf([u \in 1..6 |-> CASE u = 1 -> LinkingTo(1, {2, 3, 4}) [] u = 5 -> LinkingTo(5, {}) [] u = 6 -> Answer(404)
                            [] OTHER -> RedirectTo(next[u])], {}) :
     next \in {n \in [2..4 -> 2..6] : n[2] # 2 /\ n[4] # 4}}

(* Three pages: what they say of each other as canonical, and how alike.    *)
Chain == [u \in 2..4 |-> CASE u = 2 -> <<8, 9, 9, 9>> [] u = 3 -> <<7, 9, 9, 6>> [] u = 4 -> <<7, 9, 9, 9>>]
Alike ==
  {[u \in 2..4 |-> [hash |-> h[u], signature |-> s[u]]] :
     h \in {[u \in 2..4 |-> 9], [u \in 2..4 |-> u], [u \in 2..4 |-> IF u = 4 THEN 8 ELSE 9]},
     s \in {[u \in 2..4 |-> <<9, 9, 8, u>>], [u \in 2..4 |-> IF u = 4 THEN <<>> ELSE <<9, 9, 9, 9>>], Chain}}
CanonSites ==
  {SiteOf([u \in 1..4 |-> IF u = 1 THEN LinkingTo(1, {2, 3, 4})
                          ELSE [Doc([PlainParsed(u) EXCEPT !.canonical = c[u], !.hash = a[u].hash, !.signature = a[u].signature])
                                EXCEPT !.header = IF u = 4 THEN robots ELSE {}]], {}) :
     c \in {<<1, 2, 3, 4>>, <<1, 2, 2, 4>>, <<1, 3, 4, 4>>}, a \in Alike, robots \in {{}, {"noindex"}}}

(* Four pages in one bucket, more than are compared with the first of them: *)
(* the first and the last are alike, and those between are like none of the *)
(* two, or like one of them.                                                *)
CrowdSites ==
  {SiteOf([u \in 1..5 |-> IF u = 1 THEN LinkingTo(1, {2, 3, 4, 5}) ELSE Doc([PlainParsed(u) EXCEPT !.signature = s[u - 1]])], {}) :
     s \in {<<<<9, 9, 1, 1>>, <<9, 9, 2, 2>>, <<9, 9, 3, 3>>, <<9, 9, 4, 1>>>>,
            <<<<9, 9, 1, 1>>, <<9, 9, 1, 2>>, <<9, 9, 4, 0>>, <<9, 9, 4, 1>>>>,
            <<<<9, 9, 1, 1>>, <<9, 9, 1, 2>>, <<9, 9, 1, 3>>, <<9, 9, 4, 1>>>>}}

(* Versions of a page in languages, each naming some of the others.         *)
Alternate(tag, v) == [code |-> [underscore |-> FALSE, tags |-> <<tag>>], form |-> "absolute", to |-> v]
Tag(u) == CASE u = 2 -> "es" [] u = 3 -> "en" [] OTHER -> "xx"
HreflangSites ==
  {SiteOf([u \in 1..4 |-> CASE u = 1 -> LinkingTo(1, {2, 3, 4})
                            [] u = 4 -> IF gone THEN Answer(404) ELSE LinkingTo(4, {})
                            [] OTHER -> Doc([PlainParsed(u) EXCEPT !.alternates = {Alternate(Tag(v), v) : v \in named[u]},
                                             !.signature = <<9, 9, 9, 9>>, !.lang.tags = lang])], {}) :
     named \in [2..3 -> {{}, {2}, {3}, {2, 3}, {2, 4}, {2, 3, 4}}], <<gone, lang>> \in {<<FALSE, <<>>>>, <<FALSE, <<"es">>>>, <<TRUE, <<>>>>}}

(* Two versions of a page, the second without alternates, and a copy of the *)
(* second that has them and names it as its canonical.                      *)
TwinSites ==
  LET versions == {Alternate("es", 2), Alternate("en", 3)} IN
  {SiteOf([u \in 1..4 |-> CASE u = 1 -> LinkingTo(1, {2, 3, 4})
                            [] u = 2 -> Doc([PlainParsed(2) EXCEPT !.alternates = versions])
                            [] u = 3 -> LinkingTo(3, {})
                            [] u = 4 -> Doc([PlainParsed(4) EXCEPT !.canonical = 3, !.alternates = declared])], {}) :
     declared \in {{Alternate("en", 3)}, versions}}

(* A home page that shows and uses others: an image, a style sheet, a page  *)
(* with some fault, and an external URL that is not the site's.             *)
With(u, element) == [PlainLink(u) EXCEPT !.element = element]
Faulty ==
  LET plain == LinkingTo(2, {1}) IN
  {[plain EXCEPT !.header = {"noindex"}], [plain EXCEPT !.blocked = TRUE], [plain EXCEPT !.status = 500], [Answer(0) EXCEPT !.error = "timeout"],
   [plain EXCEPT !.parsed.title = Words(1), !.parsed.words = 10, !.parsed.headings = <<>>, !.ms = 3000]}
FaultSites ==
  {[SiteOf([u \in 1..5 |->
      CASE u = 1 -> Doc([PlainParsed(1) EXCEPT !.links = {PlainLink(2), PlainLink(3), With(3, "meta"), With(4, "img"), With(5, "link")},
                                              !.images = {[n |-> 1, src |-> 4, alt |-> "none", anchor |-> "none"]}])
        [] u = 2 -> page
        [] u = 3 -> away
        [] u = 4 -> [Answer(200) EXCEPT !.kind = "img", !.bytes = 300 * 1024]
        [] u = 5 -> Answer(404)], {2})
    EXCEPT !.ignoresRobots = ignores, !.text[3].domain = "b", !.text[3].authority = "b", !.text[3].host = "b", !.text[2].series = 1,
           !.text[2].numbered = TRUE, !.robots["a"].status = robots,
           !.sitemaps = {[id |-> 1, urls |-> 1, bytes |-> 10, status |-> 200, valid |-> robots = 200, origin |-> "robots"]}] :
     page \in Faulty, <<robots, ignores>> \in {<<200, FALSE>>, <<404, TRUE>>},
     away \in {Answer(410), Answer(403), [Answer(0) EXCEPT !.error = "dns"]}}

(* Sites that were crawled before: as they are, with another configuration, *)
(* or with something else in a page.  One has a loop of redirects with two  *)
(* ways in, one three pages alike, one a page that changes.                 *)
Strict == [disable |-> {"META-TITLE-DUPLICATE"}, severity |-> ("HTTP-SLOW-RESPONSE" :> "critical")]
LoopSite ==
  SiteOf([u \in 1..5 |-> CASE u = 1 -> LinkingTo(1, {2, 3}) [] u = 2 -> LinkingTo(2, {5}) [] u = 3 -> LinkingTo(3, {4})
                           [] u = 4 -> RedirectTo(5) [] u = 5 -> RedirectTo(4)], {})
AlikeSite ==
  CHOOSE s \in CanonSites :
    /\ s.docs[2].parsed.canonical = 2 /\ s.docs[3].parsed.canonical = 2 /\ s.docs[4].header = {}
    /\ \A u \in 2..4 : s.docs[u].parsed.hash = u /\ s.docs[u].parsed.signature = Chain[u]
PageSite(page, robots) ==
  [SiteOf([u \in 1..3 |-> CASE u = 1 -> LinkingTo(1, {2, 3}) [] u = 2 -> page [] u = 3 -> LinkingTo(3, {1})], {2})
   EXCEPT !.robots["a"] = robots, !.text[2].series = 1, !.text[2].numbered = TRUE,
          !.sitemaps = {[id |-> 1, urls |-> 1, bytes |-> 10, status |-> 200, valid |-> TRUE, origin |-> "robots"]}]
Open == [status |-> 200, blocksAll |-> FALSE, content |-> "plain"]
Slow == [LinkingTo(2, {1}) EXCEPT !.parsed.title = Words(1), !.parsed.headings = <<>>, !.ms = 3000]
Blocked == [LinkingTo(2, {1}) EXCEPT !.blocked = TRUE]

DeepSite == SiteOf([u \in 1..4 |-> IF u = 4 THEN Answer(404) ELSE LinkingTo(u, {u + 1})], {})
ListSite ==
  [SiteOf([u \in 1..3 |-> CASE u = 3 -> Answer(404) [] OTHER -> LinkingTo(u, {3})], {})
   EXCEPT !.mode = "list", !.seeds = {1, 2}, !.scope = {"a", "b"},
          !.text[2].domain = "b", !.text[2].authority = "b", !.text[2].host = "b"]
TwinSite == CHOOSE s \in TwinSites : Cardinality(s.docs[4].parsed.alternates) = 2
PastSites ==
  "twin" :> TwinSite @@ "loop" :> LoopSite @@ "alike" :> AlikeSite @@ "plain" :> PageSite(LinkingTo(2, {1}), Open)
  @@ "slow" :> [PageSite(Slow, Open) EXCEPT !.rules = Strict] @@ "moved" :> PageSite(RedirectTo(3), Open)
  @@ "deep" :> DeepSite @@ "list" :> ListSite
Past ==
  [n \in DOMAIN PastSites |->
     LET whole == Finished(PastSites[n]) IN
     IF n = "list" THEN [whole EXCEPT !.truncated = "list_mode", !.issues = Kept(@, TRUE)] ELSE whole]
Having(s, names) == [s EXCEPT !.was = names]
ComparedSites ==
  {Having(TwinSite, {"twin"}), Having(LoopSite, {"loop"}), Having(AlikeSite, {"alike"}),
   Having(PageSite(Slow, Open), {"slow", "plain", "moved"}),
   Having(PageSite(Blocked, [Open EXCEPT !.blocksAll = TRUE]), {"plain", "slow"})}
Given == {{}, {Strict}}
Tokens == {"high", "HTTP-SLOW-RESPONSE"}
Limits == {1, 2}

(* A site whose findings are of templates and not: four pages skip a level  *)
(* of heading, three of them in the same way; and external URLs are not     *)
(* asked for.                                                               *)
Heading(n) == [level |-> n, text |-> n]
TemplateSite ==
  [SiteOf([u \in 1..5 |->
      CASE u = 1 -> LinkingTo(1, {2, 3, 4, 5, 6})
        [] u = 5 -> Doc([PlainParsed(5) EXCEPT !.headings = <<Heading(1), Heading(4)>>])
        [] OTHER -> Doc([PlainParsed(u) EXCEPT !.headings = <<Heading(1), Heading(3)>>])], {})
   EXCEPT !.text = @ @@ (6 :> [PlainText(6) EXCEPT !.domain = "b", !.authority = "b", !.host = "b"]), !.external = "external_check_off"]

(* A folder of files that has no index: its base is none of its pages.      *)
HomelessSite ==
  [SiteOf([u \in 1..2 |-> LinkingTo(u, {3 - u})], {})
   EXCEPT !.mode = "filesystem", !.base = 3, !.seeds = {1, 2}, !.text = @ @@ (3 :> PlainText(3))]

(* A folder: the crawl of a site with deep pages that goes on, one of such  *)
(* a site that is whole, one of a list of two sites, the previous of one    *)
(* and one of a later version; and the same two are given apart.            *)
Beside(name, fault, inFolder, crawl, prev, day) ==
  [name |-> name, fault |-> fault, inFolder |-> inFolder, crawl |-> crawl, prev |-> prev, version |-> 1, day |-> day]
Neighbours(past) ==
  LET deep(rules) == [past["deep"] EXCEPT !.rules = rules] IN
  {Beside("deep", NoText, TRUE, deep(Strict), {past["plain"]}, <<2026, 2, 28>>),
   Beside("list", NoText, TRUE, past["list"], {}, <<2026, 2, 20>>),
   Beside("deep.prev", "previous", TRUE, deep(NoRules), {}, Today), Beside("old.prev", "previous", FALSE, deep(NoRules), {}, Today),
   Beside("newer", "newer_schema", TRUE, deep(NoRules), {}, Today)}
FolderSites == {Having(DeepSite, {"deep"}), Having(LoopSite, {"loop"}), Having(ListSite, {"list"})}
WithPast(past) ==
  {[s EXCEPT !.was = {past[n] : n \in @}] : s \in ComparedSites \cup {[f EXCEPT !.beside = Neighbours(past)] : f \in FolderSites}}

RevisitedSites == UNION {WithPast(past) : past \in {Past}}
AllSites ==
  RevisitedSites \cup FaultSites \cup GraphSites \cup RedirectSites \cup CanonSites \cup CrowdSites \cup HreflangSites \cup TwinSites
  \cup {TemplateSite, HomelessSite}

(* A third session where the crawl is compared with another: the second,    *)
(* which follows an interrupted final pass, may be interrupted too.         *)
SessionsOf(s) == IF s.was = {} THEN 2 ELSE 3
=============================================================================
