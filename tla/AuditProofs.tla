---------------------------- MODULE AuditProofs -----------------------------
(***************************************************************************)
(* The findings of a finished crawl are those of its file, for every site, *)
(* any order of its pages and any interruptions.                           *)
(***************************************************************************)
EXTENDS Compare, WellFoundedInduction, FiniteSetTheorems, TLAPS

-----------------------------------------------------------------------------
(* What a page rule says of a page depends on that page alone.             *)

(* What the page rules read of a page: all but who links to it.            *)
PageFields == ParsedFields \cup {"html", "indexable", "headerRobots", "out", "ms"}

(* f and g agree on page u as far as the page rules look.                  *)
SamePage(f, g, u) ==
  /\ f.text = g.text
  /\ f.urls[u].status = g.urls[u].status /\ f.urls[u].bytes = g.urls[u].bytes
  /\ \A x \in PageFields : f.pages[u][x] = g.pages[u][x]

LEMMA PageRulesAreLocal ==
  ASSUME NEW f, NEW g, NEW u, SamePage(f, g, u)
  PROVE  PageRules(f, u) = PageRules(g, u)
<1> DEFINE p == f.pages[u]
           q == g.pages[u]
<1>1. f.text = g.text /\ f.urls[u].status = g.urls[u].status /\ f.urls[u].bytes = g.urls[u].bytes
  BY DEF SamePage
<1>2. p.html = q.html /\ p.indexable = q.indexable /\ p.headerRobots = q.headerRobots /\ p.out = q.out /\ p.ms = q.ms
  BY DEF SamePage, PageFields
<1>3. /\ p.metaRobots = q.metaRobots /\ p.title = q.title /\ p.titles = q.titles /\ p.desc = q.desc
      /\ p.viewport = q.viewport /\ p.refresh = q.refresh /\ p.outsideHead = q.outsideHead
      /\ p.headings = q.headings /\ p.words = q.words
  BY DEF SamePage, PageFields, ParsedFields
<1>4. /\ p.lang = q.lang /\ p.og = q.og /\ p.images = q.images /\ p.alternates = q.alternates
      /\ p.canonical = q.canonical /\ p.canonicals = q.canonicals /\ p.canonicalForm = q.canonicalForm
  BY DEF SamePage, PageFields, ParsedFields
<1>5. IndexPageRules(f, u) = IndexPageRules(g, u)
  BY <1>1, <1>2, <1>3 DEF IndexPageRules, Noindex, NofollowInternal, Infrastructure
<1>6. MetaPageRules(f, u) = MetaPageRules(g, u)
  <2>1. Judged(f, u) <=> Judged(g, u)
    BY <1>2 DEF Judged
  <2>2. /\ MetaTitleMissing(f, u) = MetaTitleMissing(g, u)
        /\ MetaTitleTooLong(f, u) = MetaTitleTooLong(g, u)
        /\ MetaTitleTooShort(f, u) = MetaTitleTooShort(g, u)
        /\ MetaTitleMultiple(f, u) = MetaTitleMultiple(g, u)
    BY <1>3, <2>1 DEF When, MetaTitleMissing, MetaTitleTooLong, MetaTitleTooShort, MetaTitleMultiple
  <2>3. /\ MetaDescMissing(f, u) = MetaDescMissing(g, u)
        /\ MetaDescTooLong(f, u) = MetaDescTooLong(g, u)
        /\ MetaDescTooShort(f, u) = MetaDescTooShort(g, u)
    BY <1>3, <2>1 DEF When, MetaDescMissing, MetaDescTooLong, MetaDescTooShort
  <2>4. /\ MetaViewportMissing(f, u) = MetaViewportMissing(g, u)
        /\ MetaRefresh(f, u) = MetaRefresh(g, u)
    BY <1>3, <2>1 DEF When, MetaViewportMissing, MetaRefresh
  <2>5. MetaOutsideHead(f, u) = MetaOutsideHead(g, u)
    BY <1>1, <1>2, <1>3 DEF MetaOutsideHead
  <2> QED
    BY <2>2, <2>3, <2>4, <2>5 DEF MetaPageRules
<1>7. HttpPageRules(f, u) = HttpPageRules(g, u)
  BY <1>1, <1>2 DEF HttpPageRules, Http5xx, HttpMixedContent, HttpSlowResponse, HttpLargePage
<1>8. CanonPageRules(f, u) = CanonPageRules(g, u)
  BY <1>1, <1>2, <1>4
  DEF CanonPageRules, CanonMissing, HtmlFound, CanonMultiple, CanonRelative, CanonCrossDomain, HostsKnown, SameHost
<1>9. ContentPageRules(f, u) = ContentPageRules(g, u)
  <2>1. H1s(f, u) = H1s(g, u)
    BY <1>3 DEF H1s
  <2> QED
    BY <1>2, <1>3, <1>4, <2>1
    DEF ContentPageRules, ContentH1Missing, ContentH1Multiple, ContentH1Empty, ContentHeadingSkip, ContentThin,
        ContentLangMissing, OnIndexable, FirstH1HasText
<1>10. SocialOgMissing(f, u) = SocialOgMissing(g, u)
  BY <1>2, <1>4 DEF SocialOgMissing
<1>11. AssetPageRules(f, u) = AssetPageRules(g, u)
  <2>1. ImagesShown(f, u) = ImagesShown(g, u)
    BY <1>1, <1>2, <1>4 DEF ImagesShown
  <2> QED
    BY <2>1 DEF AssetPageRules, AssetImgNoAlt, AssetImgEmptyAltLink
<1>12. HreflangPageRules(f, u) = HreflangPageRules(g, u)
  <2>1. OwnKeys(f, u) = OwnKeys(g, u)
    BY <1>1, <1>4 DEF OwnKeys
  <2>2. ToSelf(f, u) = ToSelf(g, u)
    BY <1>1, <1>4, <2>1 DEF ToSelf, PointsAt
  <2>3. HreflangNoSelf(f, u) = HreflangNoSelf(g, u)
    BY <1>2, <1>4, <2>2 DEF HreflangNoSelf
  <2>4. HreflangInvalidCode(f, u) = HreflangInvalidCode(g, u)
    BY <1>1, <1>2, <1>4 DEF HreflangInvalidCode
  <2>5. HreflangLangMismatch(f, u) = HreflangLangMismatch(g, u)
    BY <1>1, <1>2, <1>4, <2>2 DEF HreflangLangMismatch
  <2>6. HreflangSelfOnly(f, u) = HreflangSelfOnly(g, u)
    BY <1>1, <1>2, <1>4, <2>2 DEF HreflangSelfOnly
  <2> QED
    BY <2>3, <2>4, <2>5, <2>6 DEF HreflangPageRules
<1>13. LinkPageRules(f, u) = LinkPageRules(g, u)
  <2>1. NavigationLinks(f, u) = NavigationLinks(g, u)
    BY <1>1, <1>2 DEF NavigationLinks, Infrastructure
  <2> QED
    BY <1>1, <1>4, <2>1 DEF LinkPageRules, LinkAnchorEmpty, LinkAnchorGeneric, NamesItsSlug
<1> QED
  BY <1>5, <1>6, <1>7, <1>8, <1>9, <1>10, <1>11, <1>12, <1>13 DEF PageRules

-----------------------------------------------------------------------------
(* Each finding is of one rule, and each rule has one place: beside its    *)
(* page, or at its turn in the final pass.                                 *)

HttpIds ==
  {"HTTP-404-INTERNAL", "HTTP-404-EXTERNAL", "HTTP-EXTERNAL-UNVERIFIABLE", "HTTP-REDIRECT-CHAIN", "HTTP-REDIRECT-LOOP",
   "HTTP-REDIRECT-TO-404", "HTTP-NO-HTTPS"}
CanonIds ==
  {"CANON-TO-4XX", "CANON-TO-NOINDEX", "CANON-CHAIN", "CANON-TO-REDIRECT", "DUP-CONTENT-EXACT", "DUP-CONTENT-NEAR"}
AssetIds ==
  {"ASSET-IMG-BROKEN", "ASSET-IMG-HEAVY", "ASSET-BROKEN", "ASSET-JS-HEAVY", "ASSET-CSS-HEAVY", "ASSET-IFRAME-BROKEN",
   "ASSET-FORM-BROKEN"}

(* The turn of a rule in the final pass.                                   *)
Turn(r) ==
  IF r = "INDEX-DEEP-PAGE" THEN 1
  ELSE IF r = "INDEX-SECTION-DISCONNECTED" THEN 2
  ELSE IF r = "INDEX-NO-INTERNAL-LINKS-IN" THEN 3
  ELSE IF r = "INDEX-BLOCKED-IN-SITEMAP" THEN 4
  ELSE IF r = "INDEX-NOINDEX-IN-SITEMAP" THEN 5
  ELSE IF r = "INDEX-SITEMAP-MISSING" THEN 6
  ELSE IF r = "INDEX-ORPHAN-PAGE" THEN 7
  ELSE IF r = "INDEX-ROBOTS-TXT-MISSING" THEN 8
  ELSE IF r = "INDEX-ROBOTS-TXT-BLOCKS-ALL" THEN 9
  ELSE IF r = "INDEX-SITEMAP-ERROR" THEN 10
  ELSE IF r = "INDEX-ROBOTS-BLOCKED" THEN 11
  ELSE IF r \in HttpIds THEN 12
  ELSE IF r \in {"META-TITLE-DUPLICATE", "META-DESC-DUPLICATE"} THEN 13
  ELSE IF r \in CanonIds THEN 14
  ELSE IF r \in AssetIds THEN 15
  ELSE IF r \in {"HREFLANG-NOT-RECIPROCAL", "HREFLANG-TO-4XX"} THEN 16
  ELSE IF r = "SOCIAL-OG-IMAGE-BROKEN" THEN 17
  ELSE 18

SeverityNames == {"critical", "high", "medium", "low", "info"}

(* No rule has the name of a severity.                                     *)
LEMMA PageRulesSay ==
  ASSUME NEW f, NEW u, NEW i \in PageRules(f, u)
  PROVE  "rule" \in DOMAIN i /\ i.url = u /\ i.rule \notin SiteRuleIds \cup SeverityNames
<1>1. CASE i \in IndexPageRules(f, u)
  BY <1>1 DEF IndexPageRules, Noindex, NofollowInternal, Finding, SiteRuleIds, NeedsWholeGraph, SeverityNames
<1>2. CASE i \in HttpPageRules(f, u)
  BY <1>2 DEF HttpPageRules, Http5xx, HttpMixedContent, HttpSlowResponse, HttpLargePage, HttpFinding, Finding,
              SiteRuleIds, NeedsWholeGraph, SeverityNames
<1>3. CASE i \in MetaPageRules(f, u)
  BY <1>3 DEF MetaPageRules, MetaTitleMissing, MetaTitleTooLong, MetaTitleTooShort, MetaTitleMultiple, MetaDescMissing,
              MetaDescTooLong, MetaDescTooShort, MetaViewportMissing, MetaRefresh, MetaOutsideHead, When, MetaFinding,
              Finding, SiteRuleIds, NeedsWholeGraph, SeverityNames
<1>4. CASE i \in CanonPageRules(f, u)
  BY <1>4 DEF CanonPageRules, CanonMissing, CanonMultiple, CanonRelative, CanonCrossDomain, CanonFinding, Finding,
              SiteRuleIds, NeedsWholeGraph, SeverityNames
<1>5. CASE i \in ContentPageRules(f, u)
  <2>1. ASSUME NEW r, NEW holds, NEW d, NEW g, i \in OnIndexable(f, u, r, holds, d, g)
        PROVE  "rule" \in DOMAIN i /\ i.url = u /\ i.rule = r
    BY <2>1 DEF OnIndexable, Finding
  <2>2. "rule" \in DOMAIN i /\ i.url = u /\ i.rule \in {"CONTENT-H1-MISSING", "CONTENT-H1-MULTIPLE", "CONTENT-H1-EMPTY",
                                 "CONTENT-HEADING-SKIP", "CONTENT-THIN", "CONTENT-LANG-MISSING"}
    BY <1>5, <2>1 DEF ContentPageRules, ContentH1Missing, ContentH1Multiple, ContentH1Empty, ContentHeadingSkip,
                      ContentThin, ContentLangMissing
  <2> QED
    BY <2>2 DEF SiteRuleIds, NeedsWholeGraph, SeverityNames
<1>6. CASE i \in AssetPageRules(f, u) \cup SocialOgMissing(f, u)
  <2>1. "rule" \in DOMAIN i /\ i.url = u /\ i.rule \in {"ASSET-IMG-NO-ALT", "ASSET-IMG-EMPTY-ALT-LINK", "SOCIAL-OG-MISSING"}
    <3>1. CASE i \in AssetImgNoAlt(f, u)
      BY <3>1 DEF AssetImgNoAlt, AssetFinding, Finding
    <3>2. CASE i \in AssetImgEmptyAltLink(f, u)
      <4>1. \E d, g : i = Finding("ASSET-IMG-EMPTY-ALT-LINK", "high", u, d, g)
        BY <3>2, Zenon DEF AssetImgEmptyAltLink
      <4> QED
        BY <4>1 DEF Finding
    <3>3. CASE i \in SocialOgMissing(f, u)
      BY <3>3 DEF SocialOgMissing, Finding
    <3> QED
      BY <1>6, <3>1, <3>2, <3>3 DEF AssetPageRules
  <2> QED
    BY <2>1 DEF SiteRuleIds, NeedsWholeGraph, SeverityNames
<1>7. CASE i \in HreflangPageRules(f, u)
  BY <1>7 DEF HreflangPageRules, HreflangNoSelf, HreflangInvalidCode, HreflangLangMismatch, HreflangSelfOnly,
              HreflangFinding, Finding, SiteRuleIds, NeedsWholeGraph, SeverityNames
<1>8. CASE i \in LinkPageRules(f, u)
  BY <1>8 DEF LinkPageRules, LinkAnchorEmpty, LinkAnchorGeneric, Finding, SiteRuleIds, NeedsWholeGraph, SeverityNames
<1> QED
  BY <1>1, <1>2, <1>3, <1>4, <1>5, <1>6, <1>7, <1>8 DEF PageRules

(* A site rule has findings of its own ids alone.                          *)
LEMMA SiteRulesSay ==
  ASSUME NEW f, NEW n \in 1..NRules, NEW i \in SiteRule(f, n)
  PROVE  "rule" \in DOMAIN i /\ i.rule \in SiteRuleIds /\ Turn(i.rule) = n
<1>1. CASE n = 1
  <2>1. "rule" \in DOMAIN i /\ i.rule = "INDEX-DEEP-PAGE"
    BY <1>1 DEF SiteRule, DeepPage, Finding
  <2> QED
    BY <1>1, <2>1 DEF Turn, SiteRuleIds, NeedsWholeGraph, HttpIds, CanonIds, AssetIds
<1>2. CASE n = 2
  <2>1. "rule" \in DOMAIN i /\ i.rule = "INDEX-SECTION-DISCONNECTED"
    BY <1>2 DEF SiteRule, SectionDisconnected, OnSite, Finding
  <2> QED
    BY <1>2, <2>1 DEF Turn, SiteRuleIds, NeedsWholeGraph, HttpIds, CanonIds, AssetIds
<1>3. CASE n = 3
  <2>1. "rule" \in DOMAIN i /\ i.rule = "INDEX-NO-INTERNAL-LINKS-IN"
    BY <1>3 DEF SiteRule, NoInternalLinksIn, OnUrls, Finding
  <2> QED
    BY <1>3, <2>1 DEF Turn, SiteRuleIds, NeedsWholeGraph, HttpIds, CanonIds, AssetIds
<1>4. CASE n = 4
  <2>1. "rule" \in DOMAIN i /\ i.rule = "INDEX-BLOCKED-IN-SITEMAP"
    BY <1>4 DEF SiteRule, BlockedInSitemap, OnUrls, Finding
  <2> QED
    BY <1>4, <2>1 DEF Turn, SiteRuleIds, NeedsWholeGraph, HttpIds, CanonIds, AssetIds
<1>5. CASE n = 5
  <2>1. "rule" \in DOMAIN i /\ i.rule = "INDEX-NOINDEX-IN-SITEMAP"
    BY <1>5 DEF SiteRule, NoindexInSitemap, OnUrls, Finding
  <2> QED
    BY <1>5, <2>1 DEF Turn, SiteRuleIds, NeedsWholeGraph, HttpIds, CanonIds, AssetIds
<1>6. CASE n = 6
  <2>1. "rule" \in DOMAIN i /\ i.rule = "INDEX-SITEMAP-MISSING"
    BY <1>6 DEF SiteRule, SitemapMissing, OnSite, Finding
  <2> QED
    BY <1>6, <2>1 DEF Turn, SiteRuleIds, NeedsWholeGraph, HttpIds, CanonIds, AssetIds
<1>7. CASE n = 7
  <2>1. "rule" \in DOMAIN i /\ i.rule = "INDEX-ORPHAN-PAGE"
    BY <1>7 DEF SiteRule, OrphanPage, OnUrls, Finding
  <2> QED
    BY <1>7, <2>1 DEF Turn, SiteRuleIds, NeedsWholeGraph, HttpIds, CanonIds, AssetIds
<1>8. CASE n = 8
  <2>1. "rule" \in DOMAIN i /\ i.rule = "INDEX-ROBOTS-TXT-MISSING"
    BY <1>8 DEF SiteRule, RobotsTxtMissing, OnSite, Finding
  <2> QED
    BY <1>8, <2>1 DEF Turn, SiteRuleIds, NeedsWholeGraph, HttpIds, CanonIds, AssetIds
<1>9. CASE n = 9
  <2>1. "rule" \in DOMAIN i /\ i.rule = "INDEX-ROBOTS-TXT-BLOCKS-ALL"
    BY <1>9 DEF SiteRule, RobotsTxtBlocksAll, OnSite, Finding
  <2> QED
    BY <1>9, <2>1 DEF Turn, SiteRuleIds, NeedsWholeGraph, HttpIds, CanonIds, AssetIds
<1>10. CASE n = 10
  <2>1. "rule" \in DOMAIN i /\ i.rule = "INDEX-SITEMAP-ERROR"
    BY <1>10 DEF SiteRule, SitemapError, OnSite, Finding
  <2> QED
    BY <1>10, <2>1 DEF Turn, SiteRuleIds, NeedsWholeGraph, HttpIds, CanonIds, AssetIds
<1>11. CASE n = 11
  <2>1. "rule" \in DOMAIN i /\ i.rule = "INDEX-ROBOTS-BLOCKED"
    <3>1. i \in RobotsBlocked(f)
      BY <1>11 DEF SiteRule
    <3> QED
      <4>1. \E v, d, g : i = Finding("INDEX-ROBOTS-BLOCKED", "critical", v, d, g)
        BY <3>1, Zenon DEF RobotsBlocked
      <4> QED
        BY <4>1 DEF Finding
  <2> QED
    BY <1>11, <2>1 DEF Turn, SiteRuleIds, NeedsWholeGraph, HttpIds, CanonIds, AssetIds
<1>12. CASE n = 12
  <2>1. "rule" \in DOMAIN i /\ i.rule \in HttpIds
    BY <1>12
    DEF SiteRule, HttpSiteRules, Http404Internal, Http404External, HttpExternalUnverifiable, ByLinks, HttpRedirectChain,
           HttpRedirectLoop, HttpRedirectTo404, HttpNoHttps, HttpFinding, Finding, HttpIds
  <2> QED
    BY <1>12, <2>1 DEF Turn, SiteRuleIds, NeedsWholeGraph, HttpIds, CanonIds, AssetIds
<1>13. CASE n = 13
  <2>1. "rule" \in DOMAIN i /\ i.rule \in {"META-TITLE-DUPLICATE", "META-DESC-DUPLICATE"}
    <3>0. i \in MetaSiteRules(f)
      BY <1>13 DEF SiteRule
    <3>1. CASE i \in MetaTitleDuplicate(f)
      BY <3>1 DEF MetaTitleDuplicate, Finding
    <3>2. CASE i \in MetaDescDuplicate(f)
      <4>1. \E v, d, g : i = Finding("META-DESC-DUPLICATE", "medium", v, d, g)
        BY <3>2, Zenon DEF MetaDescDuplicate
      <4> QED
        BY <4>1 DEF Finding
    <3> QED
      BY <3>0, <3>1, <3>2 DEF MetaSiteRules
  <2> QED
    BY <1>13, <2>1 DEF Turn, SiteRuleIds, NeedsWholeGraph, HttpIds, CanonIds, AssetIds
<1>14. CASE n = 14
  <2>1. "rule" \in DOMAIN i /\ i.rule \in CanonIds
    <3>0. i \in CanonSiteRules(f)
      BY <1>14 DEF SiteRule
    <3>1. CASE i \in CanonToError(f) \cup CanonToNoindex(f)
      BY <3>1 DEF CanonToError, CanonToNoindex, OfTargets, CanonFinding, CanonIds, Finding
    <3>2. CASE i \in CanonChain(f) \cup CanonToRedirect(f)
      BY <3>2 DEF CanonChain, CanonToRedirect, OfTargets, CanonFinding, CanonIds, Finding
    <3>3. CASE i \in DupContentExact(f)
      <4>1. \E v, d, g : i = Finding("DUP-CONTENT-EXACT", "high", v, d, g)
        BY <3>3, Zenon DEF DupContentExact
      <4> QED
        BY <4>1 DEF Finding, CanonIds
    <3>4. CASE i \in DupContentNear(f)
      <4>1. \E v, d, g : i = Finding("DUP-CONTENT-NEAR", "medium", v, d, g)
        BY <3>4, Zenon DEF DupContentNear
      <4> QED
        BY <4>1 DEF Finding, CanonIds
    <3> QED
      BY <3>0, <3>1, <3>2, <3>3, <3>4 DEF CanonSiteRules
  <2> QED
    BY <1>14, <2>1 DEF Turn, SiteRuleIds, NeedsWholeGraph, HttpIds, CanonIds, AssetIds
<1>15. CASE n = 15
  <2>1. "rule" \in DOMAIN i /\ i.rule \in AssetIds
    BY <1>15
    DEF SiteRule, AssetSiteRules, AssetImgBroken, AssetImgHeavy, AssetBroken, HeavyResource, BrokenEmbed, AssetFinding, Finding, AssetIds
  <2> QED
    BY <1>15, <2>1 DEF Turn, SiteRuleIds, NeedsWholeGraph, HttpIds, CanonIds, AssetIds
<1>16. CASE n = 16
  <2>1. "rule" \in DOMAIN i /\ i.rule \in {"HREFLANG-NOT-RECIPROCAL", "HREFLANG-TO-4XX"}
    BY <1>16
    DEF SiteRule, HreflangSiteRules, HreflangNotReciprocal, HreflangTo4xx, HreflangFinding, Finding
  <2> QED
    BY <1>16, <2>1 DEF Turn, SiteRuleIds, NeedsWholeGraph, HttpIds, CanonIds, AssetIds
<1>17. CASE n = 17
  <2>1. "rule" \in DOMAIN i /\ i.rule = "SOCIAL-OG-IMAGE-BROKEN"
    <3>1. i \in SocialOgImageBroken(f)
      BY <1>17 DEF SiteRule
    <3> QED
      <4>1. \E v, d, g : i = Finding("SOCIAL-OG-IMAGE-BROKEN", "medium", v, d, g)
        BY <3>1, Zenon DEF SocialOgImageBroken
      <4> QED
        BY <4>1 DEF Finding
  <2> QED
    BY <1>17, <2>1 DEF Turn, SiteRuleIds, NeedsWholeGraph, HttpIds, CanonIds, AssetIds
<1>18. CASE n = 18
  <2>1. "rule" \in DOMAIN i /\ i.rule = "LINK-FRAGMENT-BROKEN"
    <3>1. i \in LinkFragmentBroken(f)
      BY <1>18 DEF SiteRule
    <3> QED
      <4>1. \E v, d, g : i = Finding("LINK-FRAGMENT-BROKEN", "low", v, d, g)
        BY <3>1, Zenon DEF LinkFragmentBroken
      <4> QED
        BY <4>1 DEF Finding
  <2> QED
    BY <1>18, <2>1 DEF Turn, SiteRuleIds, NeedsWholeGraph, HttpIds, CanonIds, AssetIds
<1> QED
  BY <1>1, <1>2, <1>3, <1>4, <1>5, <1>6, <1>7, <1>8, <1>9, <1>10, <1>11, <1>12, <1>13, <1>14, <1>15, <1>16, <1>17, <1>18 DEF NRules

-----------------------------------------------------------------------------
(* The invariant. *)

(* What the page rules say of a file, and the first n rules of the site.   *)
OfPages(f) == UNION {PageRules(f, u) : u \in Pages(f)}
OfRules(f, n, partial) == Kept(UNION {SiteRule(f, m) : m \in 1..n}, partial)

(* What waits can be asked for, and what has a page is done and has all    *)
(* that the page rules read.                                               *)
FileFields == {"ids", "text", "urls", "pages", "links", "images", "resources", "robots", "sitemaps"}
FileKept ==
  /\ site \in Sites  /\ FileFields \subseteq DOMAIN file
  /\ Pending(file) \subseteq DOMAIN site.docs
  /\ \A u \in Pages(file) :
       /\ u \in Rows(file)  /\ file.urls[u].state = "done"
       /\ PageFields \subseteq DOMAIN file.pages[u]

(* The findings of the pages are there at any moment, each once; those of  *)
(* the site may be of an earlier pass until the final one begins, which    *)
(* has all of them up to its next rule.                                    *)
IssuesKept ==
  /\ IsABag(issues)
  /\ {i \in DOMAIN issues : i.rule \notin SiteRuleIds} = OfPages(file)
  /\ \A i \in OfPages(file) : issues[i] = 1
  /\ sessions \in Nat \ {0}  /\ rule \in 1..NRules + 1
  /\ phase \in {"crawl", "final", "idle"}
  /\ phase = "crawl" /\ sessions = 1 => DOMAIN issues = OfPages(file)
  /\ phase = "final" => issues = SetToBag(OfPages(file) \cup OfRules(file, rule - 1, cut # NoText))
  /\ status = "done" => phase = "idle" /\ IssuesAreTheFiles

AuditInv == FileKept /\ IssuesKept

-----------------------------------------------------------------------------
(* Bags of findings. *)

LEMMA BagOfBoth ==
  ASSUME NEW A, NEW B, A \cap B = {}
  PROVE  SetToBag(A) (+) SetToBag(B) = SetToBag(A \cup B)
<1>1. DOMAIN SetToBag(A) = A /\ DOMAIN SetToBag(B) = B
  BY DEF SetToBag
<1>2. \A x \in A : SetToBag(A)[x] = 1
  BY DEF SetToBag
<1>3. \A x \in B : SetToBag(B)[x] = 1
  BY DEF SetToBag
<1>4. SetToBag(A) (+) SetToBag(B) = [x \in A \cup B |-> (IF x \in A THEN SetToBag(A)[x] ELSE 0) + (IF x \in B THEN SetToBag(B)[x] ELSE 0)]
  BY <1>1 DEF (+)
<1>5. \A x \in A \cup B : (IF x \in A THEN SetToBag(A)[x] ELSE 0) + (IF x \in B THEN SetToBag(B)[x] ELSE 0) = 1
  BY <1>2, <1>3
<1> QED
  BY <1>4, <1>5 DEF SetToBag

(* Findings that were not there, added.                                    *)
LEMMA BagAndMore ==
  ASSUME NEW b, IsABag(b), NEW B, DOMAIN b \cap B = {}
  PROVE  /\ IsABag(b (+) SetToBag(B))
         /\ DOMAIN (b (+) SetToBag(B)) = DOMAIN b \cup B
         /\ \A x \in DOMAIN b : (b (+) SetToBag(B))[x] = b[x]
         /\ \A x \in B : (b (+) SetToBag(B))[x] = 1
<1> DEFINE c == b (+) SetToBag(B)
<1>1. DOMAIN SetToBag(B) = B /\ \A x \in B : SetToBag(B)[x] = 1
  BY DEF SetToBag
<1>2. c = [x \in DOMAIN b \cup B |-> (IF x \in DOMAIN b THEN b[x] ELSE 0) + (IF x \in B THEN SetToBag(B)[x] ELSE 0)]
  BY <1>1 DEF (+)
<1>3. \A x \in DOMAIN b : b[x] \in Nat /\ b[x] > 0
  BY DEF IsABag
<1>4. DOMAIN c = DOMAIN b \cup B /\ (\A x \in DOMAIN b : c[x] = b[x]) /\ (\A x \in B : c[x] = 1)
  BY <1>1, <1>2, <1>3
<1>5. c \in [DOMAIN c -> {n \in Nat : n > 0}]
  BY <1>2, <1>3, <1>4
<1> QED
  BY <1>4, <1>5 DEF IsABag

(* A bag of one of each is that of its set.                                *)
LEMMA BagOfOnes ==
  ASSUME NEW b, IsABag(b), \A x \in DOMAIN b : b[x] = 1
  PROVE  b = SetToBag(DOMAIN b)
  BY DEF IsABag, SetToBag

LEMMA BagOfSet ==
  ASSUME NEW S
  PROVE  IsABag(SetToBag(S)) /\ DOMAIN SetToBag(S) = S /\ \A x \in S : SetToBag(S)[x] = 1
  BY DEF IsABag, SetToBag

-----------------------------------------------------------------------------
(* What the site rules say, and when. *)

LEMMA RulesSay ==
  ASSUME NEW f, NEW n \in 0..NRules, NEW partial, NEW i \in OfRules(f, n, partial)
  PROVE  i.rule \in SiteRuleIds /\ Turn(i.rule) \in 1..n
<1>1. PICK m \in 1..n : i \in SiteRule(f, m)
  BY DEF OfRules, Kept
<1>2. m \in 1..NRules
  BY <1>1 DEF NRules
<1> QED
  BY <1>1, <1>2, SiteRulesSay

LEMMA NextRule ==
  ASSUME NEW f, NEW n \in 1..NRules, NEW partial
  PROVE  /\ OfRules(f, n, partial) = OfRules(f, n - 1, partial) \cup Kept(SiteRule(f, n), partial)
         /\ (OfPages(f) \cup OfRules(f, n - 1, partial)) \cap Kept(SiteRule(f, n), partial) = {}
<1>1. 1..n = (1..(n - 1)) \cup {n}
  BY DEF NRules
<1>2. UNION {SiteRule(f, m) : m \in 1..n} = (UNION {SiteRule(f, m) : m \in 1..(n - 1)}) \cup SiteRule(f, n)
  <2>1. {SiteRule(f, m) : m \in 1..n} = {SiteRule(f, m) : m \in 1..(n - 1)} \cup {SiteRule(f, n)}
    BY <1>1
  <2>2. PICK before, upTo : /\ before = {SiteRule(f, m) : m \in 1..(n - 1)}
                            /\ upTo = {SiteRule(f, m) : m \in 1..n}
    OBVIOUS
  <2>3. upTo = before \cup {SiteRule(f, n)}
    BY <2>1, <2>2
  <2>4. UNION upTo = (UNION before) \cup SiteRule(f, n)
    BY <2>3
  <2> QED
    BY <2>2, <2>4, Zenon
<1>3. OfRules(f, n, partial) = OfRules(f, n - 1, partial) \cup Kept(SiteRule(f, n), partial)
  BY <1>2 DEF OfRules, Kept
<1>4. \A i \in Kept(SiteRule(f, n), partial) : i.rule \in SiteRuleIds /\ Turn(i.rule) = n
  BY SiteRulesSay DEF Kept
<1>5. \A i \in OfPages(f) : i.rule \notin SiteRuleIds
  BY PageRulesSay DEF OfPages
<1>6. n - 1 \in 0..NRules /\ n \notin 1..(n - 1)
  BY DEF NRules
<1>7. \A i \in OfRules(f, n - 1, partial) : Turn(i.rule) \in 1..(n - 1)
  BY <1>6, RulesSay
<1> QED
  BY <1>3, <1>4, <1>5, <1>6, <1>7

(* Without its site rules, a bag that has them all is that of its pages.   *)
LEMMA PagesOfBoth ==
  ASSUME NEW f, NEW n \in 0..NRules, NEW partial
  PROVE  {i \in OfPages(f) \cup OfRules(f, n, partial) : i.rule \notin SiteRuleIds} = OfPages(f)
<1>1. \A i \in OfPages(f) : i.rule \notin SiteRuleIds
  BY PageRulesSay DEF OfPages
<1>2. \A i \in OfRules(f, n, partial) : i.rule \in SiteRuleIds
  BY RulesSay
<1> QED
  BY <1>1, <1>2

-----------------------------------------------------------------------------
(* The file: each step leaves the pages it has as they were.               *)

(* g has the pages of f, as far as the page rules look.                    *)
SamePages(f, g) == Pages(g) = Pages(f) /\ \A u \in Pages(f) : SamePage(f, g, u)

LEMMA SamePagesSay ==
  ASSUME NEW f, NEW g, SamePages(f, g)
  PROVE  OfPages(g) = OfPages(f)
  BY PageRulesAreLocal DEF SamePages, OfPages

LEMMA RecordedKeeps ==
  ASSUME FileKept
  PROVE  LET g == Recorded(site, file) IN
         /\ SamePages(file, g)  /\ FileFields \subseteq DOMAIN g
         /\ g.urls = file.urls  /\ g.pages = file.pages /\ g.text = file.text
<1> DEFINE g == Recorded(site, file)
<1>1. FileFields \subseteq DOMAIN g /\ g.urls = file.urls /\ g.pages = file.pages /\ g.text = file.text
  BY DEF FileKept, FileFields, Recorded
<1> QED
  BY <1>1 DEF SamePages, SamePage, Pages

LEMMA CountedKeeps ==
  ASSUME NEW f, FileFields \subseteq DOMAIN f, \A u \in Pages(f) : PageFields \subseteq DOMAIN f.pages[u]
  PROVE  LET g == Counted(f) IN
         /\ SamePages(f, g)  /\ FileFields \subseteq DOMAIN g  /\ g.urls = f.urls
         /\ \A u \in Pages(g) : PageFields \subseteq DOMAIN g.pages[u]
<1> DEFINE g == Counted(f)
           links(u) == Cardinality({l.from : l \in {k \in f.links : k.to = u}})
<1>1. FileFields \subseteq DOMAIN g /\ g.urls = f.urls /\ g.text = f.text
  BY DEF FileFields, Counted
<1>2. g.pages = [u \in Pages(f) |-> [f.pages[u] EXCEPT !.linksIn = links(u)]]
  BY DEF FileFields, Counted
<1>3. Pages(g) = Pages(f)
  BY <1>2 DEF Pages
<1>4. ASSUME NEW u \in Pages(f)
      PROVE  PageFields \subseteq DOMAIN g.pages[u] /\ \A x \in PageFields : f.pages[u][x] = g.pages[u][x]
  <2>1. g.pages[u] = [f.pages[u] EXCEPT !.linksIn = links(u)]
    BY <1>2
  <2>2. "linksIn" \notin PageFields
    BY DEF PageFields, ParsedFields
  <2>3. PageFields \subseteq DOMAIN f.pages[u]
    OBVIOUS
  <2> QED
    BY <2>1, <2>2, <2>3
<1>5. \A u \in Pages(f) : SamePage(f, g, u)
  BY <1>1, <1>4 DEF SamePage
<1> QED
  BY <1>1, <1>3, <1>4, <1>5 DEF SamePages

(* A page that is saved, and those that were.                              *)
LEMMA SavedKeeps ==
  ASSUME FileKept, NEW u \in Pending(file)
  PROVE  LET g == Saved(site, file, u) IN
         /\ u \in DOMAIN site.docs  /\ u \in Rows(file)  /\ u \notin Pages(file)
         /\ FileFields \subseteq DOMAIN g
         /\ g.urls = Upsert([v \in {u} |-> BuildResult(site, u).url],
                            Upsert(file.urls, [v \in Discovered(site, u) \ Rows(file) |->
                              IF InScope(site, v) /\ site.mode # "list" THEN PendingRow(site, v) ELSE SkippedRow(site, v)]))
         /\ g.pages = Upsert(BuildResult(site, u).pages, file.pages)
         /\ g.text = file.text
<1>1. u \in DOMAIN site.docs /\ u \in Rows(file) /\ u \notin Pages(file)
  BY DEF FileKept, Pending
<1>2. FileFields \subseteq DOMAIN file
  BY DEF FileKept
<1> QED
  BY <1>1, <1>2 DEF Saved, FileFields

LEMMA BuildResultGives ==
  ASSUME FileKept, NEW u \in DOMAIN site.docs
  PROVE  LET r == BuildResult(site, u) IN
         /\ r.url.state # "pending"
         /\ DOMAIN r.pages \subseteq {u}
         /\ \A v \in DOMAIN r.pages : r.url.state = "done" /\ PageFields \subseteq DOMAIN r.pages[v]
<1> DEFINE d == site.docs[u]
<1>0. site \in Sites
  BY DEF FileKept
<1>1. ASSUME NEW row, NEW r, r = OnlyRow(row) PROVE r.url = row /\ DOMAIN r.pages = {}
  BY <1>1 DEF OnlyRow
<1>2. ASSUME NEW s, NEW e PROVE UrlRow(site, u, s, e).state = s
  BY DEF UrlRow
<1>3. CASE Excluded(site, u)
  <2>1. BuildResult(site, u) = OnlyRow([UrlRow(site, u, "excluded", Unfetched) EXCEPT !.reason = "robots"])
    BY <1>3 DEF BuildResult
  <2>2. [UrlRow(site, u, "excluded", Unfetched) EXCEPT !.reason = "robots"].state = "excluded"
    BY DEF UrlRow
  <2> QED
    BY <2>1, <2>2, <1>1
<1>4. CASE ~Excluded(site, u) /\ d.error # NoText
  <2>1. BuildResult(site, u) = OnlyRow(UrlRow(site, u, "error", [Unfetched EXCEPT !.error = d.error]))
    BY <1>4 DEF BuildResult
  <2> QED
    BY <2>1, <1>1, <1>2
<1>5. CASE ~Excluded(site, u) /\ d.error = NoText
  <2>1. /\ BuildResult(site, u).url = UrlRow(site, u, "done", d)
        /\ BuildResult(site, u).pages = IF HasPage(d) THEN [v \in {u} |-> PageRow(site, u, d)] ELSE <<>>
    BY <1>5 DEF BuildResult
  <2>2. HasPage(d) => ParsedFields \subseteq DOMAIN d.parsed
    BY <1>0, AuditAssumption
  <2>3. HasPage(d) => PageFields \subseteq DOMAIN PageRow(site, u, d)
    BY <2>2 DEF PageRow, PageFields
  <2>4. CASE HasPage(d)
    BY <2>1, <2>3, <2>4, <1>2
  <2>5. CASE ~HasPage(d)
    BY <2>1, <2>5, <1>2
  <2> QED
    BY <2>4, <2>5
<1> QED
  BY <1>3, <1>4, <1>5

-----------------------------------------------------------------------------
(* Each step keeps the file. *)

LEMMA FileInit == Init => FileKept
<1> SUFFICES ASSUME Init PROVE FileKept
  OBVIOUS
<1>1. file = EmptyFile(site) /\ site \in Sites
  BY DEF Init
<1>2. FileFields \subseteq DOMAIN file /\ Pages(file) = {}
  BY <1>1 DEF EmptyFile, FileFields, Pages
<1>3. Rows(file) = site.seeds \cup site.inSitemap
  BY <1>1 DEF EmptyFile, Rows
<1>4. Pending(file) \subseteq DOMAIN site.docs
  BY <1>1, <1>3, AuditAssumption DEF Pending
<1> QED
  BY <1>1, <1>2, <1>4 DEF FileKept

LEMMA FileSave ==
  ASSUME FileKept, NEW u \in Pending(file), file' = Saved(site, file, u), site' = site
  PROVE  /\ FileKept'
         /\ u \notin Pages(file)
         /\ Pages(file') \subseteq Pages(file) \cup {u}  /\ Pages(file) \subseteq Pages(file')
         /\ \A v \in Pages(file) : SamePage(file, file', v)
<1> DEFINE r == BuildResult(site, u)
           new == Discovered(site, u) \ Rows(file)
           row(v) == IF InScope(site, v) /\ site.mode # "list" THEN PendingRow(site, v) ELSE SkippedRow(site, v)
           rows == [v \in new |-> row(v)]
<1>1. u \in DOMAIN site.docs /\ u \in Rows(file) /\ u \notin Pages(file)
  BY SavedKeeps
<1>2. FileFields \subseteq DOMAIN file' /\ file'.text = file.text
  BY SavedKeeps
<1>3. file'.urls = Upsert([v \in {u} |-> r.url], Upsert(file.urls, rows))
  BY SavedKeeps
<1>4. file'.pages = Upsert(r.pages, file.pages)
  BY SavedKeeps
<1>5. /\ r.url.state # "pending"  /\ DOMAIN r.pages \subseteq {u}
      /\ \A v \in DOMAIN r.pages : r.url.state = "done" /\ PageFields \subseteq DOMAIN r.pages[v]
  BY <1>1, BuildResultGives
<1>6. Rows(file') = Rows(file) \cup new
  BY <1>1, <1>3 DEF Upsert, Rows
<1>7. file'.urls[u] = r.url
  BY <1>3 DEF Upsert
<1>8. \A v \in Rows(file) \ {u} : file'.urls[v] = file.urls[v]
  BY <1>3 DEF Upsert, Rows
<1>9. \A v \in new : file'.urls[v] = row(v)
  BY <1>1, <1>3 DEF Upsert, Rows
<1>10. Pages(file') = DOMAIN r.pages \cup Pages(file)
  BY <1>4 DEF Upsert, Pages
<1>11. \A v \in Pages(file) : file'.pages[v] = file.pages[v]
  BY <1>1, <1>4, <1>5 DEF Upsert, Pages
<1>12. \A v \in DOMAIN r.pages : file'.pages[v] = r.pages[v]
  BY <1>4 DEF Upsert
<1>13. \A v \in Pages(file) : v \in Rows(file) \ {u} /\ file.urls[v].state = "done" /\ PageFields \subseteq DOMAIN file.pages[v]
  BY <1>1 DEF FileKept
<1>14. \A v \in Pages(file) : SamePage(file, file', v)
  BY <1>2, <1>8, <1>11, <1>13 DEF SamePage
<1>15. ASSUME NEW v \in new PROVE row(v).state = "pending" => v \in DOMAIN site.docs
  <2>1. SkippedRow(site, v).state = "skipped"
    BY DEF SkippedRow, UrlRow
  <2>2. site \in Sites
    BY DEF FileKept
  <2> QED
    BY <2>1, <2>2, <1>1, AuditAssumption
<1>16. Pending(file') \subseteq DOMAIN site.docs
  <2> SUFFICES ASSUME NEW v \in Rows(file'), file'.urls[v].state = "pending" PROVE v \in DOMAIN site.docs
    BY DEF Pending
  <2>1. CASE v \in new
    BY <2>1, <1>9, <1>15
  <2>2. CASE v \in Rows(file) \ {u}
    BY <2>2, <1>8 DEF FileKept, Pending
  <2> QED
    BY <2>1, <2>2, <1>1, <1>6
<1>17. \A v \in Pages(file') : v \in Rows(file') /\ file'.urls[v].state = "done" /\ PageFields \subseteq DOMAIN file'.pages[v]
  BY <1>1, <1>5, <1>6, <1>7, <1>8, <1>10, <1>11, <1>12, <1>13
<1>18. site' \in Sites
  BY DEF FileKept
<1> QED
  BY <1>1, <1>2, <1>5, <1>10, <1>14, <1>16, <1>17, <1>18 DEF FileKept

LEMMA FileProbe ==
  ASSUME FileKept, Probe
  PROVE  FileKept' /\ SamePages(file, file')
<1>1. PICK u \in Unprobed(site, file) :
        LET d == site.docs[u] IN
        file' = [file EXCEPT !.urls[u] = UrlRow(site, u, "skipped", [d EXCEPT !.location = No]),
                             !.resources = Upsert(ResourceRows(site, u, d), @)]
  BY DEF Probe
<1>2. u \in Rows(file) /\ file.urls[u].state = "skipped"
  BY DEF Unprobed
<1>3. site' = site
  BY DEF Probe
<1>4. /\ FileFields \subseteq DOMAIN file'  /\ file'.pages = file.pages /\ file'.text = file.text
      /\ file'.urls = [file.urls EXCEPT ![u] = UrlRow(site, u, "skipped", [site.docs[u] EXCEPT !.location = No])]
  BY <1>1 DEF FileKept, FileFields
<1>5. Rows(file') = Rows(file) /\ Pages(file') = Pages(file)
  BY <1>4 DEF Rows, Pages
<1>6. file'.urls[u].state = "skipped" /\ \A v \in Rows(file) \ {u} : file'.urls[v] = file.urls[v]
  BY <1>2, <1>4 DEF Rows, UrlRow
<1>7. u \notin Pages(file)
  BY <1>2 DEF FileKept
<1>8. \A v \in Pages(file) : v \in Rows(file) \ {u} /\ file.urls[v].state = "done" /\ PageFields \subseteq DOMAIN file.pages[v]
  BY <1>7 DEF FileKept
<1>9. SamePages(file, file')
  BY <1>4, <1>5, <1>6, <1>8 DEF SamePages, SamePage
<1>10. Pending(file') \subseteq Pending(file)
  BY <1>5, <1>6 DEF Pending
<1> QED
  BY <1>3, <1>4, <1>5, <1>6, <1>8, <1>9, <1>10 DEF FileKept

LEMMA FileRecorded ==
  ASSUME FileKept, site' = site, file' = Recorded(site, file) \/ file' = Counted(Recorded(site, file))
  PROVE  FileKept' /\ SamePages(file, file')
<1> DEFINE g == Recorded(site, file)
<1>1. /\ SamePages(file, g)  /\ FileFields \subseteq DOMAIN g
      /\ g.urls = file.urls /\ g.pages = file.pages /\ g.text = file.text
  BY RecordedKeeps
<1>2. \A u \in Pages(file) : u \in Rows(file) /\ file.urls[u].state = "done" /\ PageFields \subseteq DOMAIN file.pages[u]
  BY DEF FileKept
<1>3. Rows(g) = Rows(file) /\ Pages(g) = Pages(file) /\ Pending(g) = Pending(file)
  BY <1>1 DEF Rows, Pages, Pending
<1>4. CASE file' = g
  BY <1>1, <1>2, <1>3, <1>4 DEF FileKept
<1>5. CASE file' = Counted(g)
  <2>1. \A u \in Pages(g) : PageFields \subseteq DOMAIN g.pages[u]
    BY <1>1, <1>2, <1>3
  <2>2. /\ SamePages(g, file')  /\ FileFields \subseteq DOMAIN file'  /\ file'.urls = g.urls
        /\ \A u \in Pages(file') : PageFields \subseteq DOMAIN file'.pages[u]
    BY <1>1, <1>5, <2>1, CountedKeeps
  <2>3. Rows(file') = Rows(g) /\ Pending(file') = Pending(g) /\ Pages(file') = Pages(g)
    BY <2>2 DEF Rows, Pending, SamePages
  <2>4. SamePages(file, file')
    BY <1>1, <1>3, <2>2, <2>3 DEF SamePages, SamePage
  <2> QED
    BY <1>1, <1>2, <1>3, <2>2, <2>3, <2>4 DEF FileKept
<1> QED
  BY <1>4, <1>5

-----------------------------------------------------------------------------
(* Each step keeps the findings. *)

LEMMA IssuesInit == Init => IssuesKept
<1> SUFFICES ASSUME Init PROVE IssuesKept
  OBVIOUS
<1>1. file = EmptyFile(site) /\ issues = SetToBag({})
  BY DEF Init, EmptyBag
<1>2. Pages(file) = {}
  BY <1>1 DEF EmptyFile, Pages
<1>3. OfPages(file) = {}
  BY <1>2 DEF OfPages
<1>4. IsABag(issues) /\ DOMAIN issues = {}
  BY <1>1, BagOfSet
<1> QED
  BY <1>3, <1>4 DEF Init, IssuesKept, NRules

LEMMA IssuesSave ==
  ASSUME FileKept, IssuesKept, Save
  PROVE  FileKept' /\ IssuesKept'
<1>1. PICK u \in Pending(file) :
        /\ file' = Saved(site, file, u)
        /\ issues' = issues (+) SetToBag(IF u \in Pages(file') THEN PageRules(file', u) ELSE {})
  BY DEF Save
<1>2. site' = site /\ phase = "crawl" /\ phase' = "crawl" /\ rule' = rule /\ sessions' = sessions /\ status' = status
  BY DEF Save
<1>3. /\ FileKept'
      /\ u \notin Pages(file)
      /\ Pages(file') \subseteq Pages(file) \cup {u}  /\ Pages(file) \subseteq Pages(file')
      /\ \A v \in Pages(file) : SamePage(file, file', v)
  BY <1>1, <1>2, FileSave
<1> DEFINE more == IF u \in Pages(file') THEN PageRules(file', u) ELSE {}
<1>4. \A v \in Pages(file) : PageRules(file', v) = PageRules(file, v)
  BY <1>3, PageRulesAreLocal
<1>5. OfPages(file') = OfPages(file) \cup more
  BY <1>3, <1>4 DEF OfPages
<1>6. \A i \in more : i.url = u /\ i.rule \notin SiteRuleIds
  BY PageRulesSay
<1>7. \A i \in OfPages(file) : i.url \in Pages(file)
  BY PageRulesSay DEF OfPages
<1>8. DOMAIN issues \cap more = {}
  BY <1>3, <1>6, <1>7 DEF IssuesKept
<1>9. /\ IsABag(issues') /\ DOMAIN issues' = DOMAIN issues \cup more
      /\ \A x \in DOMAIN issues : issues'[x] = issues[x]
      /\ \A x \in more : issues'[x] = 1
  <2> HIDE DEF more
  <2>1. IsABag(issues)
    BY DEF IssuesKept
  <2>2. issues' = issues (+) SetToBag(more)
    BY <1>1 DEF more
  <2> QED
    BY <1>8, <2>1, <2>2, BagAndMore
<1>10. status # "done"
  BY <1>2 DEF IssuesKept
<1>11. {i \in DOMAIN issues' : i.rule \notin SiteRuleIds} = OfPages(file')
  <2> HIDE DEF more
  <2> QED
    BY <1>5, <1>6, <1>9 DEF IssuesKept
<1>12. \A i \in OfPages(file') : issues'[i] = 1
  <2> HIDE DEF more
  <2> QED
    BY <1>5, <1>9 DEF IssuesKept
<1>13. sessions = 1 => DOMAIN issues' = OfPages(file')
  <2> HIDE DEF more
  <2> QED
    BY <1>2, <1>5, <1>9 DEF IssuesKept
<1> QED
  BY <1>2, <1>3, <1>9, <1>10, <1>11, <1>12, <1>13 DEF IssuesKept

(* A step that writes no finding, and is not of a final pass.              *)
LEMMA IssuesRest ==
  ASSUME IssuesKept, SamePages(file, file'), issues' = issues,
         sessions' \in Nat \ {0}, rule' \in 1..NRules + 1, phase' \in {"crawl", "idle"},
         phase' = "crawl" /\ sessions' = 1 => phase = "crawl" /\ sessions = 1,
         status' # "done"
  PROVE  IssuesKept'
<1>1. OfPages(file') = OfPages(file)
  BY SamePagesSay
<1> QED
  BY <1>1 DEF IssuesKept

LEMMA IssuesFinalize ==
  ASSUME FileKept, IssuesKept, Finalize
  PROVE  FileKept' /\ IssuesKept'
<1>1. /\ file' = Counted(Recorded(site, file)) /\ site' = site /\ issues' = StaleDeleted /\ rule' = 1
      /\ phase = "crawl" /\ phase' = "final" /\ sessions' = sessions /\ status' = status
  BY DEF Finalize
<1>2. FileKept' /\ SamePages(file, file')
  BY <1>1, FileRecorded
<1>3. OfPages(file') = OfPages(file)
  BY <1>2, SamePagesSay
<1>4. issues' = SetToBag(OfPages(file))
  <2>1. CASE sessions > 1
    <3>1. issues' = [i \in OfPages(file) |-> issues[i]]
      BY <1>1, <2>1 DEF StaleDeleted, IssuesKept
    <3> QED
      BY <3>1 DEF SetToBag, IssuesKept
  <2>2. CASE sessions = 1
    <3>1. issues' = issues /\ DOMAIN issues = OfPages(file)
      BY <1>1, <2>2 DEF StaleDeleted, IssuesKept
    <3> QED
      BY <3>1, BagOfOnes DEF IssuesKept
  <2> QED
    BY <2>1, <2>2 DEF IssuesKept
<1>5. OfRules(file', 0, cut' # NoText) = {}
  BY DEF OfRules, Kept
<1>6. \A i \in OfPages(file') : i.rule \notin SiteRuleIds
  BY PageRulesSay DEF OfPages
<1>7. IsABag(issues') /\ DOMAIN issues' = OfPages(file') /\ \A x \in OfPages(file') : issues'[x] = 1
  BY <1>3, <1>4, BagOfSet
<1>8. issues' = SetToBag(OfPages(file') \cup OfRules(file', rule' - 1, cut' # NoText))
  <2>1. rule' - 1 = 0
    BY <1>1
  <2>2. OfPages(file') \cup OfRules(file', rule' - 1, cut' # NoText) = OfPages(file)
    BY <1>3, <1>5, <2>1
  <2> QED
    BY <1>4, <2>2
<1>9. status' # "done" /\ sessions' \in Nat \ {0} /\ rule' \in 1..NRules + 1
  BY <1>1 DEF IssuesKept, NRules
<1>10. {i \in DOMAIN issues' : i.rule \notin SiteRuleIds} = OfPages(file')
  BY <1>6, <1>7
<1> QED
  BY <1>1, <1>2, <1>7, <1>8, <1>9, <1>10 DEF IssuesKept

LEMMA IssuesRule ==
  ASSUME IssuesKept, EvaluateRule
  PROVE  IssuesKept'
<1> DEFINE partial == cut # NoText
           were == OfPages(file) \cup OfRules(file, rule - 1, partial)
           more == Kept(SiteRule(file, rule), partial)
<1>1. /\ phase = "final" /\ phase' = "final" /\ rule \in 1..NRules /\ rule' = rule + 1
      /\ file' = file /\ cut' = cut /\ sessions' = sessions /\ status' = status
  BY DEF EvaluateRule, IssuesKept, NRules
<1>2. issues = SetToBag(were) /\ issues' = issues (+) SetToBag(more)
  BY <1>1 DEF EvaluateRule, IssuesKept
<1>3. were \cap more = {} /\ OfRules(file, rule, partial) = OfRules(file, rule - 1, partial) \cup more
  BY <1>1, NextRule
<1>4. issues' = SetToBag(were \cup more)
  <2> HIDE DEF were, more
  <2> QED
    BY <1>2, <1>3, BagOfBoth
<1>5. issues' = SetToBag(OfPages(file) \cup OfRules(file, rule, partial))
  BY <1>3, <1>4
<1>6. rule' - 1 = rule /\ rule \in 0..NRules /\ rule' \in 1..NRules + 1
  BY <1>1 DEF NRules
<1>7. /\ IsABag(issues') /\ DOMAIN issues' = OfPages(file) \cup OfRules(file, rule, partial)
      /\ \A x \in OfPages(file) : issues'[x] = 1
  BY <1>5, BagOfSet
<1>8. {i \in DOMAIN issues' : i.rule \notin SiteRuleIds} = OfPages(file)
  BY <1>6, <1>7, PagesOfBoth
<1> QED
  BY <1>1, <1>5, <1>6, <1>7, <1>8 DEF IssuesKept

LEMMA IssuesDone ==
  ASSUME IssuesKept, Done
  PROVE  IssuesKept'
<1>1. /\ phase = "final" /\ phase' = "idle" /\ rule = NRules + 1 /\ rule' = 1 /\ truncated' = cut
      /\ file' = file /\ cut' = cut /\ sessions' = sessions /\ issues' = issues
  BY DEF Done, IssuesKept, NRules
<1>2. issues = SetToBag(OfPages(file) \cup OfRules(file, NRules, cut # NoText))
  BY <1>1 DEF IssuesKept, NRules
<1>3. FindingsOf(file, cut # NoText) = OfPages(file) \cup OfRules(file, NRules, cut # NoText)
  BY Zenon DEF FindingsOf, OfPages, OfRules
<1>4. IssuesAreTheFiles'
  BY <1>1, <1>2, <1>3 DEF IssuesAreTheFiles
<1>5. OfPages(file') = OfPages(file) /\ rule' \in 1..NRules + 1
  BY <1>1 DEF NRules
<1> QED
  BY <1>1, <1>4, <1>5 DEF IssuesKept

-----------------------------------------------------------------------------
(* Each step keeps the file and its findings. *)

LEMMA AuditInit == Init => AuditInv
  BY FileInit, IssuesInit DEF AuditInv

LEMMA AuditStepKeeps ==
  ASSUME AuditInv, [Next]_vars
  PROVE  AuditInv'
<1>0. FileKept /\ IssuesKept
  BY DEF AuditInv
<1>a. \A f : SamePages(f, f)
  BY DEF SamePages, SamePage
<1>1. CASE Save
  BY <1>0, <1>1, IssuesSave DEF AuditInv
<1>2. CASE Probe
  <2>1. FileKept' /\ SamePages(file, file')
    BY <1>0, <1>2, FileProbe
  <2>2. IssuesKept'
    BY <1>0, <1>2, <2>1, IssuesRest DEF Probe, IssuesKept
  <2> QED
    BY <2>1, <2>2 DEF AuditInv
<1>3. CASE Finalize
  BY <1>0, <1>3, IssuesFinalize DEF AuditInv
<1>4. CASE EvaluateRule
  <2>1. FileKept'
    BY <1>0, <1>4 DEF EvaluateRule, FileKept
  <2> QED
    BY <1>0, <1>4, <2>1, IssuesRule DEF AuditInv
<1>5. CASE Done
  <2>1. FileKept'
    BY <1>0, <1>5 DEF Done, FileKept
  <2> QED
    BY <1>0, <1>5, <2>1, IssuesDone DEF AuditInv
<1>6. CASE Pause
  <2>1. FileKept' /\ SamePages(file, file')
    BY <1>0, <1>6, FileRecorded DEF Pause
  <2>2. IssuesKept'
    BY <1>0, <1>6, <2>1, IssuesRest DEF Pause, IssuesKept, NRules
  <2> QED
    BY <2>1, <2>2 DEF AuditInv
<1>7. CASE Crash
  <2>1. FileKept' /\ SamePages(file, file')
    BY <1>0, <1>a, <1>7 DEF Crash, FileKept
  <2>2. IssuesKept'
    BY <1>0, <1>7, <2>1, IssuesRest DEF Crash, IssuesKept, NRules
  <2> QED
    BY <2>1, <2>2 DEF AuditInv
<1>8. CASE Resume
  <2>1. FileKept' /\ SamePages(file, file')
    BY <1>0, <1>a, <1>8 DEF Resume, FileKept
  <2>2. sessions' \in Nat \ {0} /\ sessions' # 1
    BY <1>0, <1>8 DEF Resume, IssuesKept
  <2>3. IssuesKept'
    BY <1>0, <1>8, <2>1, <2>2, IssuesRest DEF Resume, IssuesKept
  <2> QED
    BY <2>1, <2>3 DEF AuditInv
<1>9. CASE UNCHANGED vars
  BY <1>0, <1>9 DEF vars, AuditInv, FileKept, IssuesKept, IssuesAreTheFiles
<1> QED
  BY <1>1, <1>2, <1>3, <1>4, <1>5, <1>6, <1>7, <1>8, <1>9 DEF Next, Over

-----------------------------------------------------------------------------
(* The comparison. *)

(* No finding of the file has a rule named as a severity: a token of       *)
(* --fail-on is one or the other.                                          *)
IssuesNamed == \A i \in DOMAIN issues : "rule" \in DOMAIN i /\ i.rule \notin SeverityNames

LEMMA NamedKeeps ==
  ASSUME AuditInv, IssuesNamed, [Next]_vars
  PROVE  IssuesNamed'
<1>1. CASE Save
  <2>1. PICK u \in Pending(file) : issues' = issues (+) SetToBag(IF u \in Pages(file') THEN PageRules(file', u) ELSE {})
    BY <1>1 DEF Save
  <2> DEFINE more == IF u \in Pages(file') THEN PageRules(file', u) ELSE {}
  <2>2. \A i \in more : "rule" \in DOMAIN i /\ i.rule \notin SeverityNames
    BY PageRulesSay
  <2> HIDE DEF more
  <2>3. DOMAIN issues' = DOMAIN issues \cup more
    BY <2>1 DEF more, (+), SetToBag
  <2> QED
    BY <2>2, <2>3 DEF IssuesNamed
<1>2. CASE EvaluateRule
  <2> DEFINE more == Kept(SiteRule(file, rule), cut # NoText)
  <2>1. issues' = issues (+) SetToBag(more) /\ rule \in 1..NRules
    BY <1>2 DEF EvaluateRule, AuditInv, IssuesKept, NRules
  <2>2. \A i \in more : "rule" \in DOMAIN i /\ i.rule \in SiteRuleIds
    BY <2>1, SiteRulesSay DEF Kept
  <2>3. SiteRuleIds \cap SeverityNames = {}
    BY DEF SiteRuleIds, NeedsWholeGraph, SeverityNames
  <2> HIDE DEF more
  <2>4. DOMAIN issues' = DOMAIN issues \cup more
    BY <2>1 DEF (+), SetToBag
  <2> QED
    BY <2>2, <2>3, <2>4 DEF IssuesNamed
<1>3. CASE Finalize
  <2>1. DOMAIN issues' \subseteq DOMAIN issues
    BY <1>3 DEF Finalize, StaleDeleted
  <2> QED
    BY <2>1 DEF IssuesNamed
<1>4. CASE issues' = issues
  BY <1>4 DEF IssuesNamed
<1> QED
  BY <1>1, <1>2, <1>3, <1>4 DEF Next, Probe, Done, Pause, Crash, Resume, Over, vars

LEMMA NamedInit == Init => IssuesNamed
  BY BagOfSet DEF Init, IssuesNamed, EmptyBag

LEMMA SeveritiesRanked ==
  /\ ToSet(Severities) = SeverityNames
  /\ \A n \in 1..5 : Severities[n] \in SeverityNames /\ Rank(Severities[n]) = n
  /\ \A s \in SeverityNames : Rank(s) \in 1..5 /\ Severities[Rank(s)] = s
<1>1. DOMAIN Severities = 1..5 /\ Len(Severities) = 5
  BY DEF Severities
<1>2. /\ Severities[1] = "critical" /\ Severities[2] = "high" /\ Severities[3] = "medium"
      /\ Severities[4] = "low" /\ Severities[5] = "info"
  BY DEF Severities
<1>3. 1..5 = {1, 2, 3, 4, 5}
  OBVIOUS
<1>4. \A m, n \in 1..5 : Severities[m] = Severities[n] => m = n
  BY <1>2, <1>3
<1>5. \A n \in 1..5 : Rank(Severities[n]) = n
  <2> SUFFICES ASSUME NEW n \in 1..5 PROVE Rank(Severities[n]) = n
    OBVIOUS
  <2>1. \E m \in DOMAIN Severities : Severities[m] = Severities[n]
    BY <1>1
  <2>2. Rank(Severities[n]) \in DOMAIN Severities /\ Severities[Rank(Severities[n])] = Severities[n]
    BY <2>1 DEF Rank
  <2> QED
    BY <1>1, <1>4, <2>2
<1>6. \A n \in 1..5 : Severities[n] \in SeverityNames
  BY <1>2, <1>3 DEF SeverityNames
<1>7. \A s \in SeverityNames : \E n \in 1..5 : Severities[n] = s
  BY <1>2, <1>3 DEF SeverityNames
<1>8. ToSet(Severities) = SeverityNames
  BY <1>1, <1>6, <1>7 DEF ToSet
<1> QED
  BY <1>5, <1>6, <1>7, <1>8

(* What the gate was asked about and the earlier crawl did not have, it    *)
(* catches.                                                                *)
LEMMA GateCatches ==
  ASSUME IssuesNamed, NEW rules, NEW j \in Configured(Current, rules), NEW t,
         j.rule = t \/ j.severity \in AtLeast(t),
         NEW u, NEW group
  PROVE  Catches(t, Change("issue_appeared", u, j.rule, NoGroup, group, j.severity))
<1> DEFINE c == Change("issue_appeared", u, j.rule, NoGroup, group, j.severity)
<1>1. c[3] = j.rule /\ c[6] = j.severity
  BY DEF Change
<1>2. j.rule \notin SeverityNames
  <2>1. PICK k \in Read(Current, rules) : j.rule = k.rule
    BY DEF Configured
  <2>2. PICK i \in DOMAIN issues : k = [i EXCEPT !.severity = IF i.rule \in DOMAIN rules.severity THEN rules.severity[i.rule] ELSE @]
    BY <2>1 DEF Read, Current, BagToSet
  <2>3. "rule" \in DOMAIN i /\ i.rule \notin SeverityNames
    BY DEF IssuesNamed
  <2>4. k.rule = i.rule
    BY <2>2, <2>3
  <2> QED
    BY <2>1, <2>3, <2>4
<1>3. DOMAIN Severities = 1..5 /\ Len(Severities) = 5
  BY DEF Severities
<1>4. CASE t \in SeverityNames
  <2>1. PICK m \in 1..5, k \in 1..5 : m <= k /\ j.severity = Severities[m] /\ Severities[k] = t
    BY <1>2, <1>3, <1>4 DEF AtLeast
  <2>2. Rank(j.severity) = m /\ Rank(t) = k
    BY <2>1, SeveritiesRanked
  <2> QED
    BY <1>1, <1>4, <2>1, <2>2, SeveritiesRanked DEF Catches
<1>5. CASE t \notin SeverityNames
  <2>1. AtLeast(t) = {}
    BY <1>3, <1>5, SeveritiesRanked DEF AtLeast
  <2> QED
    BY <1>1, <1>5, <2>1, SeveritiesRanked DEF Catches
<1> QED
  BY <1>4, <1>5

LEMMA GateSpeaks == IssuesNamed => GateNeverSilent
<1> SUFFICES ASSUME IssuesNamed,
                    NEW a \in site.was, NEW choice \in GivenRules, NEW t \in FailOn
             PROVE  LET o == CompareWithRules(a, Current, choice)
                        seen(crawl) == Configured(crawl, ChosenRules(crawl, Current, choice))
                        asked == {j \in seen(Current) : j.rule = t \/ j.severity \in AtLeast(t)}
                    IN o.inconclusive \/ \A j \in asked : <<t, j.rule, j.severity>> \in o.failOn
                                                          \/ \E i \in seen(a) : i.rule = j.rule /\ i.url = j.url
  BY DEF GateNeverSilent
<1> DEFINE o == CompareWithRules(a, Current, choice)
           is == Configured(a, ChosenRules(a, Current, choice))
           js == Configured(Current, ChosenRules(Current, Current, choice))
<1>1. o.inconclusive = (FailOn # {} /\ Incomplete(a)) /\ o.failOn = GateHits(o.changes)
  BY DEF CompareWithRules
<1>2. ToldUnless(Incomplete(a), Appeared(is, js)) \subseteq o.changes
  BY DEF CompareWithRules
<1> HIDE DEF o
<1> SUFFICES ASSUME ~Incomplete(a), NEW j \in js, j.rule = t \/ j.severity \in AtLeast(t),
                    \A i \in is : ~(i.rule = j.rule /\ i.url = j.url)
             PROVE  <<t, j.rule, j.severity>> \in o.failOn
  BY <1>1 DEF o
<1> DEFINE c == Change("issue_appeared", j.url, j.rule, NoGroup, j.group, j.severity)
<1>3. c \in Appeared(is, js)
  <2>1. j \in NotIn(js, is)
    BY DEF NotIn, SameFinding
  <2> QED
    BY <2>1 DEF Appeared
<1>4. c \in o.changes
  BY <1>2, <1>3 DEF ToldUnless
<1>5. c[1] = "issue_appeared" /\ c[3] = j.rule /\ c[6] = j.severity
  BY DEF Change
<1>6. Catches(t, c)
  BY GateCatches
<1> HIDE DEF c
<1>7. <<t, c>> \in {q \in FailOn \X OfType(o.changes, {"issue_appeared"}) : Catches(q[1], q[2])}
  BY <1>4, <1>5, <1>6 DEF OfType
<1>8. <<t, c[3], c[6]>> \in GateHits(o.changes)
  BY <1>7 DEF GateHits
<1> QED
  BY <1>1, <1>5, <1>8

-----------------------------------------------------------------------------
(* Counting up, and what is defined by it.                                 *)

(* Of some numbers there is a first.                                       *)
LEMMA FirstOf ==
  ASSUME NEW T \in SUBSET Nat, T # {}
  PROVE  \E n \in T : \A m \in T : n <= m
<1> DEFINE Below == {p \in Nat \X Nat : p[1] < p[2]}
<1>1. IsWellFoundedOn(Below, Nat)
  <2>1. Below = OpToRel(<, Nat)
    BY DEF OpToRel
  <2> QED
    BY <2>1, NatLessThanWellFounded
<1>2. PICK n \in T : \A m \in T : ~(<<m, n>> \in Below)
  BY <1>1, WFMin
<1>3. ASSUME NEW m \in T PROVE n <= m
  <2>1. n \in Nat /\ m \in Nat /\ ~(m < n)
    BY <1>2
  <2> QED
    BY <2>1
<1> QED
  BY <1>3

(* What holds at 0 and of a number after each that it holds of.            *)
LEMMA UpFromZero ==
  ASSUME NEW T \in SUBSET Nat, 0 \in T, \A n \in T : n + 1 \in T
  PROVE  T = Nat
<1> DEFINE U == Nat \ T
<1>1. ASSUME U # {} PROVE FALSE
  <2>1. PICK n \in U : \A m \in U : n <= m
    <3>1. U \in SUBSET Nat
      OBVIOUS
    <3> HIDE DEF U
    <3> QED
      BY <1>1, <3>1, FirstOf
  <2>2. n \in Nat /\ n # 0 /\ n \notin T
    BY <2>1
  <2>3. n - 1 \in Nat /\ ~(n <= n - 1) /\ (n - 1) + 1 = n
    BY <2>2
  <2>4. n - 1 \in T
    BY <2>1, <2>3
  <2> QED
    BY <2>2, <2>3, <2>4
<1> QED
  BY <1>1

(* The same up to some number.                                             *)
LEMMA UpTo ==
  ASSUME NEW N \in Nat, NEW T, 0 \in T, \A n \in 1..N : n - 1 \in T => n \in T
  PROVE  0..N \subseteq T
<1> DEFINE U == {n \in Nat : n \in T \/ n > N}
<1>1. 0 \in U
  OBVIOUS
<1>2. ASSUME NEW n \in U PROVE n + 1 \in U
  <2>1. CASE n + 1 > N
    BY <2>1
  <2>2. CASE ~(n + 1 > N)
    <3>1. n + 1 \in 1..N /\ (n + 1) - 1 = n /\ n \in T
      BY <2>2
    <3> QED
      BY <3>1
  <2> QED
    BY <2>1, <2>2
<1>3. U = Nat
  <2> HIDE DEF U
  <2>1. U \in SUBSET Nat
    BY DEF U
  <2> QED
    BY <1>1, <1>2, <2>1, UpFromZero
<1> QED
  BY <1>3

(* h goes from x0, by the step of each number.                             *)
Goes(h, N, F, x0) == h[0] = x0 /\ \A n \in 1..N : h[n] = F[n][h[n - 1]]

LEMMA GoneOnce ==
  ASSUME NEW F, NEW x0, NEW M \in Nat, NEW N \in 0..M, NEW g, NEW h,
         Goes(g, N, F, x0), Goes(h, M, F, x0)
  PROVE  \A n \in 0..N : g[n] = h[n]
<1> DEFINE T == {n \in 0..N : g[n] = h[n]}
<1>1. 0 \in T
  BY DEF Goes
<1>2. ASSUME NEW n \in 1..N, n - 1 \in T PROVE n \in T
  <2>1. n \in 1..M /\ n \in 0..N
    OBVIOUS
  <2> QED
    BY <1>2, <2>1 DEF Goes
<1>3. 0..N \subseteq T
  <2> HIDE DEF T
  <2>1. N \in Nat
    OBVIOUS
  <2> QED
    BY <1>1, <1>2, <2>1, UpTo
<1> QED
  BY <1>3

LEMMA GoesUpTo ==
  ASSUME NEW S, NEW F \in [Nat -> [S -> S]], NEW x0 \in S, NEW N \in Nat
  PROVE  \E h \in [0..N -> S] : Goes(h, N, F, x0)
<1> DEFINE T == {n \in Nat : \E h \in [0..n -> S] : Goes(h, n, F, x0)}
<1>1. 0 \in T
  <2>1. [n \in 0..0 |-> x0] \in [0..0 -> S] /\ Goes([n \in 0..0 |-> x0], 0, F, x0)
    BY DEF Goes
  <2> QED
    BY <2>1
<1>2. ASSUME NEW n \in T PROVE n + 1 \in T
  <2>1. PICK h \in [0..n -> S] : Goes(h, n, F, x0)
    OBVIOUS
  <2> DEFINE g == [m \in 0..(n + 1) |-> IF m = n + 1 THEN F[n + 1][h[n]] ELSE h[m]]
  <2>2. n \in Nat /\ n + 1 \in Nat /\ n \in 0..n
    OBVIOUS
  <2>3. g \in [0..(n + 1) -> S]
    BY <2>1, <2>2
  <2>4. g[0] = x0
    BY <2>1, <2>2 DEF Goes
  <2>5. ASSUME NEW m \in 1..(n + 1) PROVE g[m] = F[m][g[m - 1]]
    <3>1. m - 1 \in 0..(n + 1) /\ m \in 0..(n + 1) /\ m - 1 # n + 1
      BY <2>2
    <3>2. CASE m = n + 1
      BY <3>1, <3>2, <2>2
    <3>3. CASE m # n + 1
      <4>1. m \in 1..n
        BY <2>2, <3>3
      <4>2. h[m] = F[m][h[m - 1]]
        BY <2>1, <4>1 DEF Goes
      <4> QED
        BY <3>1, <3>3, <4>2
    <3> QED
      BY <3>2, <3>3
  <2>6. Goes(g, n + 1, F, x0)
    <3> HIDE DEF g
    <3> QED
      BY <2>4, <2>5 DEF Goes
  <2> QED
    <3> HIDE DEF g
    <3> QED
      BY <2>2, <2>3, <2>6
<1>3. T = Nat
  <2> HIDE DEF T
  <2>1. T \in SUBSET Nat
    BY DEF T
  <2> QED
    BY <1>1, <1>2, <2>1, UpFromZero
<1> QED
  BY <1>3

(* There is one that goes on for ever.                                     *)
LEMMA GoesOn ==
  ASSUME NEW S, NEW F \in [Nat -> [S -> S]], NEW x0 \in S
  PROVE  \E h \in [Nat -> S] : \A N \in Nat : Goes(h, N, F, x0)
<1> DEFINE upTo(n) == CHOOSE a \in [0..n -> S] : Goes(a, n, F, x0)
           h == [n \in Nat |-> upTo(n)[n]]
<1>1. ASSUME NEW n \in Nat PROVE upTo(n) \in [0..n -> S] /\ Goes(upTo(n), n, F, x0)
  BY GoesUpTo
<1> HIDE DEF upTo
<1>2. h \in [Nat -> S]
  <2> SUFFICES ASSUME NEW n \in Nat PROVE upTo(n)[n] \in S
    OBVIOUS
  <2> QED
    BY <1>1
<1>3. h[0] = x0
  BY <1>1 DEF Goes
<1>4. ASSUME NEW n \in Nat \ {0} PROVE h[n] = F[n][h[n - 1]]
  <2>1. n \in Nat /\ n - 1 \in Nat /\ n - 1 \in 0..n /\ n \in 1..n /\ n - 1 \in 0..(n - 1)
    OBVIOUS
  <2>2. upTo(n)[n] = F[n][upTo(n)[n - 1]]
    BY <1>1, <2>1 DEF Goes
  <2>3. upTo(n - 1)[n - 1] = upTo(n)[n - 1]
    BY <1>1, <2>1, GoneOnce
  <2> QED
    BY <2>1, <2>2, <2>3
<1>5. ASSUME NEW N \in Nat PROVE Goes(h, N, F, x0)
  <2>1. \A n \in 1..N : n \in Nat \ {0}
    OBVIOUS
  <2> HIDE DEF h
  <2> QED
    BY <1>3, <1>4, <2>1 DEF Goes
<1> QED
  BY <1>2, <1>5


-----------------------------------------------------------------------------
(* What grows in a finite set, and stops once it does not, has all it will *)
(* have after as many steps as the set has elements.                       *)

LEMMA Grows ==
  ASSUME NEW R, NEW g \in [Nat -> SUBSET R], \A n \in Nat : g[n] \subseteq g[n + 1]
  PROVE  \A m \in Nat : \A n \in Nat : m <= n => g[m] \subseteq g[n]
<1> SUFFICES ASSUME NEW m \in Nat PROVE \A n \in Nat : m <= n => g[m] \subseteq g[n]
  OBVIOUS
<1> DEFINE T == {n \in Nat : g[m] \subseteq g[m + n]}
<1>1. 0 \in T
  OBVIOUS
<1>2. ASSUME NEW n \in T PROVE n + 1 \in T
  <2>1. m + n \in Nat /\ m + (n + 1) = (m + n) + 1
    OBVIOUS
  <2> QED
    BY <2>1
<1>3. T = Nat
  <2> HIDE DEF T
  <2>1. T \in SUBSET Nat
    BY DEF T
  <2> QED
    BY <1>1, <1>2, <2>1, UpFromZero
<1>a. \A j \in Nat : g[m] \subseteq g[m + j]
  BY <1>3
<1>4. ASSUME NEW n \in Nat, m <= n PROVE g[m] \subseteq g[n]
  <2>1. n - m \in Nat /\ m + (n - m) = n
    BY <1>4
  <2> QED
    BY <1>a, <2>1
<1> QED
  BY <1>4

LEMMA Saturates ==
  ASSUME NEW R, IsFiniteSet(R), NEW g \in [Nat -> SUBSET R],
         \A n \in Nat : g[n] \subseteq g[n + 1] /\ (g[n + 1] = g[n] => g[(n + 1) + 1] = g[n + 1])
  PROVE  \A n \in Nat : g[n] \subseteq g[Cardinality(R)]
<1> DEFINE M == Cardinality(R)
<1>0. M \in Nat
  BY FS_CardinalityType
<1>1. \A n \in Nat : IsFiniteSet(g[n]) /\ Cardinality(g[n]) \in Nat /\ Cardinality(g[n]) <= M
  BY FS_Subset, FS_CardinalityType
<1>2. \E k \in 0..M : g[k + 1] = g[k]
  <2> SUFFICES ASSUME \A k \in 0..M : g[k + 1] # g[k] PROVE FALSE
    OBVIOUS
  <2> DEFINE T == {n \in 0..(M + 1) : Cardinality(g[n]) >= n}
  <2>1. 0 \in T
    BY <1>0, <1>1
  <2>2. ASSUME NEW n \in 1..(M + 1), n - 1 \in T PROVE n \in T
    <3>1. n \in Nat /\ n - 1 \in Nat /\ n - 1 \in 0..M /\ (n - 1) + 1 = n /\ n \in 0..(M + 1)
      BY <1>0
    <3>2. g[n - 1] \subseteq g[n] /\ g[n - 1] # g[n]
      BY <3>1
    <3>3. Cardinality(g[n - 1]) <= Cardinality(g[n]) /\ Cardinality(g[n - 1]) # Cardinality(g[n])
      BY <1>1, <3>1, <3>2, FS_Subset
    <3>4. Cardinality(g[n - 1]) >= n - 1
      BY <2>2
    <3>5. Cardinality(g[n]) \in Nat /\ Cardinality(g[n - 1]) \in Nat
      BY <1>1, <3>1
    <3>6. \A a, b, c \in Nat : a <= b /\ a # b /\ a >= c - 1 => b >= c
      OBVIOUS
    <3>7. Cardinality(g[n]) >= n
      BY <3>1, <3>3, <3>4, <3>5, <3>6
    <3> HIDE DEF M
    <3> QED
      BY <3>1, <3>7
  <2>3. 0..(M + 1) \subseteq T
    <3> HIDE DEF T
    <3>1. M + 1 \in Nat
      BY <1>0
    <3> QED
      BY <2>1, <2>2, <3>1, UpTo
  <2>4. M + 1 \in T /\ M + 1 \in Nat
    BY <1>0, <2>3
  <2> HIDE DEF M
  <2> QED
    BY <1>0, <1>1, <2>4
<1>3. PICK k \in 0..M : g[k + 1] = g[k]
  BY <1>2
<1>4. k \in Nat
  BY <1>0
<1>5. \A n \in Nat : g[k + n] = g[k]
  <2> DEFINE T == {n \in Nat : g[k + n] = g[k] /\ g[k + n + 1] = g[k]}
  <2>1. 0 \in T
    BY <1>3, <1>4
  <2>2. ASSUME NEW n \in T PROVE n + 1 \in T
    <3>1. k + n \in Nat /\ k + (n + 1) = k + n + 1 /\ k + (n + 1) + 1 = (k + n + 1) + 1
      BY <1>4
    <3>2. g[k + n + 1] = g[k + n]
      OBVIOUS
    <3> QED
      BY <3>1, <3>2
  <2>3. T = Nat
    <3> HIDE DEF T
    <3>1. T \in SUBSET Nat
      BY DEF T
    <3> QED
      BY <2>1, <2>2, <3>1, UpFromZero
  <2> QED
    BY <2>3
<1>6. g[M] = g[k]
  <2>1. M - k \in Nat /\ k + (M - k) = M
    BY <1>0
  <2>2. PICK j \in Nat : k + j = M
    BY <2>1
  <2>3. g[k + j] = g[k]
    BY <1>5
  <2>4. g[k + j] = g[M]
    BY <2>2
  <2> QED
    BY <2>3, <2>4
<1> SUFFICES ASSUME NEW n \in Nat PROVE g[n] \subseteq g[k]
  BY <1>6
<1>7. CASE n <= k
  BY <1>4, <1>7, Grows
<1>8. CASE ~(n <= k)
  <2>1. n - k \in Nat /\ k + (n - k) = n
    BY <1>4, <1>8
  <2> QED
    BY <1>5, <2>1
<1> QED
  BY <1>7, <1>8


-----------------------------------------------------------------------------
(* The clicks of a file, whose links are of its rows.                      *)

LinksLand(f) == IsFiniteSet(Rows(f)) /\ \A l \in f.links : l.from \in Rows(f) /\ l.to \in Rows(f)

(* What is so many clicks from a door of the site, or less.                *)
IsNear(f, g) == g[0] = Seeds(f) /\ \A n \in Nat : g[n + 1] = g[n] \cup ClicksFrom(f, g[n])
Near(f) == CHOOSE g \in [Nat -> SUBSET Rows(f)] : IsNear(f, g)

LEMMA NearIs ==
  ASSUME NEW f, LinksLand(f)
  PROVE  Near(f) \in [Nat -> SUBSET Rows(f)] /\ IsNear(f, Near(f))
<1> DEFINE F == [n \in Nat |-> [us \in SUBSET Rows(f) |-> us \cup ClicksFrom(f, us)]]
<1>1. \A us : ClicksFrom(f, us) \subseteq Rows(f)
  BY DEF ClicksFrom, LinksLand
<1>2. Seeds(f) \in SUBSET Rows(f)
  BY DEF Seeds, Home, SameButSlash, HreflangSeeds, Internal
<1>3. F \in [Nat -> [SUBSET Rows(f) -> SUBSET Rows(f)]]
  BY <1>1
<1>4. PICK g \in [Nat -> SUBSET Rows(f)] : \A N \in Nat : Goes(g, N, F, Seeds(f))
  <2> HIDE DEF F
  <2> QED
    BY <1>2, <1>3, GoesOn
<1>5. IsNear(f, g)
  <2>1. g[0] = Seeds(f)
    <3>1. Goes(g, 0, F, Seeds(f))
      BY <1>4
    <3> QED
      BY <3>1 DEF Goes
  <2>2. ASSUME NEW n \in Nat PROVE g[n + 1] = g[n] \cup ClicksFrom(f, g[n])
    <3>1. n + 1 \in Nat /\ n + 1 \in 1..(n + 1) /\ (n + 1) - 1 = n
      OBVIOUS
    <3>2. g[n + 1] = F[n + 1][g[n]]
      BY <1>4, <3>1 DEF Goes
    <3> QED
      BY <3>1, <3>2
  <2> QED
    BY <2>1, <2>2 DEF IsNear
<1> QED
  BY <1>5 DEF Near

LEMMA WithinIs ==
  ASSUME NEW f, LinksLand(f), NEW N \in Nat
  PROVE  Within(f, N) = Near(f)[N]
<1> DEFINE g == Near(f)
           step(h, k) == IF k = 0 THEN Seeds(f) ELSE h[k - 1] \cup ClicksFrom(f, h[k - 1])
           near == CHOOSE h : h = [k \in 0..N |-> step(h, k)]
           start == [k \in 0..N |-> g[k]]
<1>1. Within(f, N) = near[N]
  BY DEF Within, ClicksFrom
<1>2. IsNear(f, g)
  BY NearIs
<1> HIDE DEF g
<1>3. \A k \in 1..N : g[k] = g[k - 1] \cup ClicksFrom(f, g[k - 1])
  <2> SUFFICES ASSUME NEW k \in 1..N PROVE g[k] = g[k - 1] \cup ClicksFrom(f, g[k - 1])
    OBVIOUS
  <2>1. k - 1 \in Nat /\ (k - 1) + 1 = k
    OBVIOUS
  <2> QED
    BY <1>2, <2>1 DEF IsNear
<1>4. start = [k \in 0..N |-> step(start, k)]
  <2> SUFFICES ASSUME NEW k \in 0..N PROVE g[k] = step(start, k)
    OBVIOUS
  <2>1. CASE k = 0
    BY <1>2, <2>1 DEF IsNear
  <2>2. CASE k # 0
    <3>1. k \in 1..N /\ k - 1 \in 0..N
      BY <2>2
    <3>2. start[k - 1] = g[k - 1]
      BY <3>1
    <3> HIDE DEF start
    <3> QED
      BY <1>3, <2>2, <3>1, <3>2
  <2> QED
    BY <2>1, <2>2
<1>5. near = [k \in 0..N |-> step(near, k)]
  <2> HIDE DEF start
  <2> QED
    BY <1>4
<1> HIDE DEF near
<1> DEFINE T == {k \in 0..N : near[k] = g[k]}
<1>6. 0 \in T
  BY <1>2, <1>5 DEF IsNear
<1>7. ASSUME NEW k \in 1..N, k - 1 \in T PROVE k \in T
  <2>1. k \in 0..N /\ k # 0
    OBVIOUS
  <2>2. near[k] = near[k - 1] \cup ClicksFrom(f, near[k - 1])
    BY <1>5, <2>1
  <2> QED
    BY <1>3, <1>7, <2>1, <2>2
<1>8. 0..N \subseteq T
  <2> HIDE DEF T
  <2> QED
    BY <1>6, <1>7, UpTo
<1>9. N \in 0..N
  OBVIOUS
<1> QED
  BY <1>1, <1>8, <1>9 DEF g

LEMMA ReachIs ==
  ASSUME NEW f, LinksLand(f)
  PROVE  Reach(f) = Near(f)[Cardinality(Rows(f))]
<1>1. Reach(f) = Within(f, Cardinality(Rows(f)))
  BY DEF Reach, Within, ClicksFrom
<1>2. Cardinality(Rows(f)) \in Nat
  BY FS_CardinalityType DEF LinksLand
<1> QED
  BY <1>1, <1>2, WithinIs

LEMMA NearGrows ==
  ASSUME NEW f, LinksLand(f)
  PROVE  /\ \A m \in Nat : \A n \in Nat : m <= n => Near(f)[m] \subseteq Near(f)[n]
         /\ \A n \in Nat : Near(f)[n] \subseteq Near(f)[Cardinality(Rows(f))]
<1> DEFINE g == Near(f)
<1>1. g \in [Nat -> SUBSET Rows(f)] /\ IsNear(f, g) /\ IsFiniteSet(Rows(f))
  BY NearIs DEF LinksLand
<1> HIDE DEF g
<1>2. ASSUME NEW n \in Nat
      PROVE  g[n] \subseteq g[n + 1] /\ (g[n + 1] = g[n] => g[(n + 1) + 1] = g[n + 1])
  <2>1. n + 1 \in Nat
    OBVIOUS
  <2> QED
    BY <1>1, <2>1 DEF IsNear
<1>3. \A m \in Nat : \A n \in Nat : m <= n => g[m] \subseteq g[n]
  BY <1>1, <1>2, Grows
<1>4. \A n \in Nat : g[n] \subseteq g[Cardinality(Rows(f))]
  BY <1>1, <1>2, Saturates
<1> QED
  BY <1>3, <1>4 DEF g


-----------------------------------------------------------------------------
(* The levels of the traversal.                                            *)

(* The fewest clicks to what is near.                                      *)
Level(f, u) == CHOOSE n \in Nat : u \in Near(f)[n] /\ \A m \in Nat : u \in Near(f)[m] => n <= m

LEMMA LevelIs ==
  ASSUME NEW f, LinksLand(f), NEW n \in Nat, NEW u \in Near(f)[n]
  PROVE  Level(f, u) \in Nat /\ Level(f, u) <= n /\ \A m \in Nat : Level(f, u) <= m <=> u \in Near(f)[m]
<1> DEFINE T == {m \in Nat : u \in Near(f)[m]}
<1>1. \E k \in T : \A m \in T : k <= m
  <2>1. T \in SUBSET Nat /\ T # {}
    OBVIOUS
  <2> HIDE DEF T
  <2> QED
    BY <2>1, FirstOf
<1>2. Level(f, u) \in Nat /\ u \in Near(f)[Level(f, u)] /\ \A m \in Nat : u \in Near(f)[m] => Level(f, u) <= m
  BY <1>1 DEF Level
<1>3. \A m \in Nat : Level(f, u) <= m => Near(f)[Level(f, u)] \subseteq Near(f)[m]
  BY <1>2, NearGrows
<1> QED
  BY <1>2, <1>3

LEMMA NextLevel ==
  ASSUME NEW f, LinksLand(f), NEW n \in Nat \ {0}
  PROVE  LET before == Near(f)[n - 1]
             frontier == {u \in before : Level(f, u) = n - 1}
         IN /\ Near(f)[n] = before \cup (ClicksFrom(f, frontier) \ before)
            /\ \A u \in ClicksFrom(f, frontier) \ before : Level(f, u) = n
<1> DEFINE g == Near(f)
           before == g[n - 1]
           frontier == {u \in before : Level(f, u) = n - 1}
<1>1. IsNear(f, g)
  BY NearIs
<1>2. n \in Nat /\ n - 1 \in Nat /\ (n - 1) + 1 = n
  OBVIOUS
<1>3. g[n] = before \cup ClicksFrom(f, before)
  BY <1>1, <1>2 DEF IsNear
<1>4. ASSUME NEW u \in ClicksFrom(f, before) PROVE u \in before \/ u \in ClicksFrom(f, frontier)
  <2>1. PICK l \in f.links : l.element = "a" /\ l.from \in before /\ u = l.to
    BY DEF ClicksFrom
  <2>2. Level(f, l.from) \in Nat /\ Level(f, l.from) <= n - 1
    BY <1>2, <2>1, LevelIs
  <2>3. CASE Level(f, l.from) = n - 1
    BY <2>1, <2>3 DEF ClicksFrom
  <2>4. CASE Level(f, l.from) # n - 1
    <3>1. n - 2 \in Nat /\ Level(f, l.from) <= n - 2 /\ (n - 2) + 1 = n - 1
      BY <1>2, <2>2, <2>4
    <3>2. l.from \in g[n - 2]
      BY <1>2, <2>1, <3>1, LevelIs
    <3>3. u \in ClicksFrom(f, g[n - 2])
      BY <2>1, <3>2 DEF ClicksFrom
    <3>4. g[n - 1] = g[n - 2] \cup ClicksFrom(f, g[n - 2])
      BY <1>1, <3>1 DEF IsNear
    <3> QED
      BY <3>3, <3>4
  <2> QED
    BY <2>3, <2>4
<1>5. ClicksFrom(f, frontier) \subseteq ClicksFrom(f, before)
  BY DEF ClicksFrom
<1>6. g[n] = before \cup (ClicksFrom(f, frontier) \ before)
  BY <1>3, <1>4, <1>5
<1>7. ASSUME NEW u \in ClicksFrom(f, frontier) \ before PROVE Level(f, u) = n
  <2>1. u \in g[n] /\ u \notin g[n - 1]
    BY <1>6
  <2>2. Level(f, u) \in Nat /\ Level(f, u) <= n /\ ~(Level(f, u) <= n - 1)
    BY <1>2, <2>1, LevelIs
  <2> QED
    BY <1>2, <2>2
<1> QED
  BY <1>6, <1>7

LEMMA ClickDepthIs ==
  ASSUME NEW f, LinksLand(f)
  PROVE  ClickDepth(f) = [u \in Near(f)[Cardinality(Rows(f))] |-> Level(f, u)]
<1> DEFINE M == Cardinality(Rows(f))
           upTo(n) == [u \in Near(f)[n] |-> Level(f, u)]
           step(h, n) ==
             IF n = 0 THEN [u \in Seeds(f) |-> 0]
             ELSE LET depth == h[n - 1]
                      frontier == {u \in DOMAIN depth : depth[u] = n - 1}
                  IN Upsert([u \in ClicksFrom(f, frontier) \ DOMAIN depth |-> n], depth)
           bfs == CHOOSE h : h = [n \in 0..M |-> step(h, n)]
           levels == [n \in 0..M |-> upTo(n)]
<1>0. M \in Nat
  BY FS_CardinalityType DEF LinksLand
<1>1. ClickDepth(f) = bfs[M]
  BY DEF ClickDepth
<1>2. upTo(0) = [u \in Seeds(f) |-> 0]
  <2>1. Near(f)[0] = Seeds(f)
    BY NearIs DEF IsNear
  <2>2. \A u \in Near(f)[0] : Level(f, u) = 0
    <3> SUFFICES ASSUME NEW u \in Near(f)[0] PROVE Level(f, u) = 0
      OBVIOUS
    <3>1. Level(f, u) \in Nat /\ Level(f, u) <= 0
      BY LevelIs
    <3> QED
      BY <3>1
  <2> QED
    BY <2>1, <2>2
<1>3. ASSUME NEW n \in 1..M
      PROVE  upTo(n) = LET depth == upTo(n - 1)
                           frontier == {u \in DOMAIN depth : depth[u] = n - 1}
                       IN Upsert([u \in ClicksFrom(f, frontier) \ DOMAIN depth |-> n], depth)
  <2> DEFINE depth == upTo(n - 1)
             frontier == {u \in DOMAIN depth : depth[u] = n - 1}
             new == [u \in ClicksFrom(f, frontier) \ DOMAIN depth |-> n]
  <2>1. n \in Nat \ {0}
    OBVIOUS
  <2>2. DOMAIN depth = Near(f)[n - 1] /\ frontier = {u \in Near(f)[n - 1] : Level(f, u) = n - 1}
    OBVIOUS
  <2>3. Near(f)[n] = DOMAIN new \cup DOMAIN depth /\ \A u \in DOMAIN new : Level(f, u) = n
    BY <2>1, <2>2, NextLevel
  <2>4. Upsert(new, depth) = [u \in DOMAIN new \cup DOMAIN depth |-> IF u \in DOMAIN new THEN new[u] ELSE depth[u]]
    BY DEF Upsert
  <2>5. \A u \in DOMAIN new : new[u] = n
    OBVIOUS
  <2>6. \A u \in DOMAIN depth : depth[u] = Level(f, u)
    OBVIOUS
  <2>7. upTo(n) = Upsert(new, depth)
    <3> HIDE DEF new, depth, frontier
    <3> QED
      BY <2>3, <2>4, <2>5, <2>6
  <2> QED
    BY <2>7
<1> HIDE DEF upTo
<1>4. levels = [n \in 0..M |-> step(levels, n)]
  <2> SUFFICES ASSUME NEW n \in 0..M PROVE upTo(n) = step(levels, n)
    OBVIOUS
  <2>1. CASE n = 0
    BY <1>2, <2>1
  <2>2. CASE n # 0
    <3>1. n \in 1..M /\ n - 1 \in 0..M
      BY <1>0, <2>2
    <3>2. levels[n - 1] = upTo(n - 1)
      BY <3>1
    <3> HIDE DEF levels
    <3> QED
      BY <1>3, <2>2, <3>1, <3>2
  <2> QED
    BY <2>1, <2>2
<1>5. bfs = [n \in 0..M |-> step(bfs, n)]
  <2> HIDE DEF levels, step, M
  <2> QED
    BY <1>4
<1> DEFINE T == {n \in 0..M : bfs[n] = upTo(n)}
<1>6. 0 \in T
  <2> HIDE DEF bfs, M
  <2>1. 0 \in 0..M
    BY <1>0
  <2>2. bfs[0] = step(bfs, 0)
    BY <1>5, <2>1
  <2> QED
    BY <1>2, <2>1, <2>2
<1>7. ASSUME NEW n \in 1..M, n - 1 \in T PROVE n \in T
  <2> HIDE DEF bfs, M
  <2>1. n \in 0..M /\ n # 0
    BY <1>0
  <2>2. bfs[n - 1] = upTo(n - 1)
    BY <1>7
  <2>3. bfs[n] = step(bfs, n)
    BY <1>5, <2>1
  <2> QED
    BY <1>3, <2>1, <2>2, <2>3
<1>8. 0..M \subseteq T
  <2> HIDE DEF T, M
  <2> QED
    BY <1>0, <1>6, <1>7, UpTo
<1>9. bfs[M] = upTo(M)
  <2> HIDE DEF bfs, M
  <2> QED
    BY <1>0, <1>8
<1> QED
  BY <1>1, <1>9 DEF upTo


-----------------------------------------------------------------------------
(* Every page has its place.                                               *)

(* Who links to a page is counted.                                         *)
CountsAreLinks(f) ==
  \A u \in Pages(f) : f.pages[u].linksIn = Cardinality({l.from : l \in {k \in f.links : k.to = u}})

LEMMA LinkedIs ==
  ASSUME NEW f, LinksLand(f), CountsAreLinks(f), NEW u \in Pages(f), NEW l \in f.links, l.to = u
  PROVE  Linked(f, u)
<1> DEFINE from == {k.from : k \in {m \in f.links : m.to = u}}
<1>1. from \subseteq Rows(f) /\ l.from \in from
  BY DEF LinksLand
<1>2. IsFiniteSet(from) /\ from # {}
  BY <1>1, FS_Subset DEF LinksLand
<1>3. Cardinality(from) \in Nat /\ Cardinality(from) # 0
  <2> HIDE DEF from
  <2> QED
    BY <1>2, FS_EmptySet, FS_CardinalityType
<1>4. f.pages[u].linksIn = Cardinality(from)
  BY DEF CountsAreLinks
<1> HIDE DEF from
<1> QED
  BY <1>3, <1>4 DEF Linked

(* The three rules of the graph tell apart what is not near.               *)
LEMMA DeepIs ==
  ASSUME NEW f, LinksLand(f), CountsAreLinks(f), f.mode # "list", NEW u \in Internal(f) \cap Indexable(f)
  PROVE  (\E i \in DeepPage(f) : i.url = u)
           <=> u \in Near(f)[Cardinality(Rows(f))] \ Near(f)[MaxClickDepth]
<1> DEFINE M == Cardinality(Rows(f))
           depth == ClickDepth(f)
<1>0. M \in Nat /\ MaxClickDepth \in Nat
  BY FS_CardinalityType, MaxClickDepthIsCount DEF LinksLand
<1>1. (\E i \in DeepPage(f) : i.url = u) <=> u \in DOMAIN depth /\ depth[u] > MaxClickDepth /\ Linked(f, u)
  <2> DEFINE deep == {v \in DOMAIN depth \cap Internal(f) \cap Indexable(f) : depth[v] > MaxClickDepth /\ Linked(f, v)}
  <2>1. DeepPage(f) = {Finding("INDEX-DEEP-PAGE", "medium", v, depth[v], NoGroup) : v \in deep}
    BY DEF DeepPage
  <2>2. ASSUME NEW v PROVE Finding("INDEX-DEEP-PAGE", "medium", v, depth[v], NoGroup).url = v
    BY DEF Finding
  <2> HIDE DEF depth
  <2> QED
    BY <2>1, <2>2
<1>2. DOMAIN depth = Near(f)[M] /\ (u \in Near(f)[M] => depth[u] = Level(f, u))
  BY ClickDepthIs
<1>3. u \in Near(f)[M] => Level(f, u) \in Nat /\ (Level(f, u) <= MaxClickDepth <=> u \in Near(f)[MaxClickDepth])
  BY <1>0, LevelIs
<1>4. ASSUME u \in Near(f)[M], u \notin Near(f)[MaxClickDepth] PROVE Linked(f, u)
  <2>1. Level(f, u) \in Nat /\ ~(Level(f, u) <= MaxClickDepth)
    BY <1>3, <1>4
  <2>2. PICK n \in Nat \ {0} : u \in Near(f)[n] /\ u \notin Near(f)[n - 1]
    <3>1. Level(f, u) \in Nat \ {0} /\ Level(f, u) - 1 \in Nat /\ ~(Level(f, u) <= Level(f, u) - 1)
      BY <1>0, <2>1
    <3> QED
      BY <1>0, <1>4, <3>1, LevelIs
  <2>3. u \in ClicksFrom(f, Near(f)[n - 1])
    <3>1. n - 1 \in Nat /\ (n - 1) + 1 = n
      OBVIOUS
    <3> QED
      BY <2>2, <3>1, NearIs DEF IsNear
  <2>4. \E l \in f.links : l.to = u
    BY <2>3 DEF ClicksFrom
  <2> QED
    BY <2>4, LinkedIs DEF Indexable
<1> HIDE DEF depth, M
<1>5. u \in Near(f)[M] => (depth[u] > MaxClickDepth <=> u \notin Near(f)[MaxClickDepth])
  BY <1>0, <1>2, <1>3
<1> QED
  BY <1>1, <1>2, <1>4, <1>5 DEF M

LEMMA SectionIs ==
  ASSUME NEW f, LinksLand(f), f.mode # "list", Seeds(f) # {}
  PROVE  (\E i \in SectionDisconnected(f) : i.url = No)
           <=> \E v \in Internal(f) \cap Indexable(f) : Linked(f, v) /\ v \notin Near(f)[Cardinality(Rows(f))]
  BY ReachIs DEF SectionDisconnected, Disconnected, OnSite, Finding

LEMMA LonelyIs ==
  ASSUME NEW f, NEW u \in Internal(f) \cap Indexable(f)
  PROVE  (\E i \in NoInternalLinksIn(f) : i.url = u) <=> ~Linked(f, u) /\ u \notin Home(f)
<1> DEFINE lonely == {v \in Internal(f) \cap Indexable(f) : ~Linked(f, v) /\ v \notin Home(f)}
           of(v) == Finding("INDEX-NO-INTERNAL-LINKS-IN", IndexSeverity["INDEX-NO-INTERNAL-LINKS-IN"], v, 0, NoGroup)
<1>1. NoInternalLinksIn(f) = {of(v) : v \in lonely}
  BY DEF NoInternalLinksIn, OnUrls
<1>2. \A v : of(v).url = v
  BY DEF Finding
<1> HIDE DEF of
<1> QED
  BY <1>1, <1>2

(* What a finished crawl that was not cut has of a rule of the site is what *)
(* the rule says of its file.                                              *)
LEMMA ToldIs ==
  ASSUME AuditInv, status = "done", truncated = NoText, NEW r \in SiteRuleIds, NEW u
  PROVE  Told(r, u) <=> \E i \in SiteRule(file, Turn(r)) : i.rule = r /\ i.url = u
<1>1. issues = SetToBag(FindingsOf(file, FALSE))
  BY DEF AuditInv, IssuesKept, IssuesAreTheFiles
<1>2. DOMAIN issues = FindingsOf(file, FALSE)
  BY <1>1, BagOfSet
<1>3. FindingsOf(file, FALSE) = OfPages(file) \cup UNION {SiteRule(file, n) : n \in 1..NRules}
  BY DEF FindingsOf, OfPages, Kept
<1>4. \A i \in OfPages(file) : i.rule # r
  BY PageRulesSay DEF OfPages
<1>5. \A n \in 1..NRules : \A i \in SiteRule(file, n) : i.rule = r => Turn(r) = n
  BY SiteRulesSay
<1>6. Turn(r) \in 1..NRules
  BY DEF Turn, NRules
<1>7. Told(r, u) <=> \E n \in 1..NRules : \E i \in SiteRule(file, n) : i.rule = r /\ i.url = u
  BY <1>2, <1>3, <1>4 DEF Told
<1> QED
  BY <1>5, <1>6, <1>7

LEMMA GraphTold ==
  ASSUME AuditInv, status = "done", truncated = NoText, NEW u
  PROVE  /\ Told("INDEX-DEEP-PAGE", u) <=> \E i \in DeepPage(file) : i.url = u
         /\ Told("INDEX-SECTION-DISCONNECTED", u) <=> \E i \in SectionDisconnected(file) : i.url = u
         /\ Told("INDEX-NO-INTERNAL-LINKS-IN", u) <=> \E i \in NoInternalLinksIn(file) : i.url = u
<1>1. {"INDEX-DEEP-PAGE", "INDEX-SECTION-DISCONNECTED", "INDEX-NO-INTERNAL-LINKS-IN"} \subseteq SiteRuleIds
  BY DEF SiteRuleIds, NeedsWholeGraph
<1>2. Turn("INDEX-DEEP-PAGE") = 1 /\ Turn("INDEX-SECTION-DISCONNECTED") = 2 /\ Turn("INDEX-NO-INTERNAL-LINKS-IN") = 3
  BY DEF Turn
<1>3. SiteRule(file, 1) = DeepPage(file) /\ SiteRule(file, 2) = SectionDisconnected(file) /\ SiteRule(file, 3) = NoInternalLinksIn(file)
  BY DEF SiteRule
<1>4. \A i \in DeepPage(file) : i.rule = "INDEX-DEEP-PAGE"
  BY DEF DeepPage, Finding
<1>5. \A i \in SectionDisconnected(file) : i.rule = "INDEX-SECTION-DISCONNECTED"
  BY DEF SectionDisconnected, OnSite, Finding
<1>6. \A i \in NoInternalLinksIn(file) : i.rule = "INDEX-NO-INTERNAL-LINKS-IN"
  BY DEF NoInternalLinksIn, OnUrls, Finding
<1>7. Told("INDEX-DEEP-PAGE", u) <=> \E i \in SiteRule(file, 1) : i.rule = "INDEX-DEEP-PAGE" /\ i.url = u
  BY <1>1, <1>2, ToldIs
<1>8. Told("INDEX-SECTION-DISCONNECTED", u) <=> \E i \in SiteRule(file, 2) : i.rule = "INDEX-SECTION-DISCONNECTED" /\ i.url = u
  BY <1>1, <1>2, ToldIs
<1>9. Told("INDEX-NO-INTERNAL-LINKS-IN", u) <=> \E i \in SiteRule(file, 3) : i.rule = "INDEX-NO-INTERNAL-LINKS-IN" /\ i.url = u
  BY <1>1, <1>2, ToldIs
<1> QED
  BY <1>3, <1>4, <1>5, <1>6, <1>7, <1>8, <1>9

(* What the places need of the file: links of its rows, a mode that is the *)
(* site's, and the count of who links to each page once the pass began.    *)
PlaceKept ==
  /\ LinksLand(file)  /\ "mode" \in DOMAIN file  /\ file.mode = site.mode
  /\ \A u \in Pages(file) : "linksIn" \in DOMAIN file.pages[u]
  /\ phase = "final" /\ cut = NoText => site.mode # "list"
  /\ status = "done" /\ truncated = NoText => site.mode # "list"
  /\ phase = "final" \/ status = "done" => CountsAreLinks(file)

LEMMA PlacesAreApart == AuditInv /\ PlaceKept => EveryPageHasItsPlace
<1> DEFINE Places(u) ==
             {c \in {"near", "deep", "section", "lonely"} :
               CASE c = "near" -> u \in Within(file, MaxClickDepth)
                 [] c = "deep" -> Told("INDEX-DEEP-PAGE", u)
                 [] c = "section" -> /\ u \notin Within(file, Cardinality(Rows(file))) /\ ~Told("INDEX-NO-INTERNAL-LINKS-IN", u)
                                     /\ Told("INDEX-SECTION-DISCONNECTED", No)
                 [] c = "lonely" -> u \notin Within(file, Cardinality(Rows(file))) /\ Told("INDEX-NO-INTERNAL-LINKS-IN", u)}
<1> SUFFICES ASSUME AuditInv, PlaceKept, status = "done", truncated = NoText, Seeds(file) # {},
                    NEW u \in Internal(file) \cap Indexable(file)
             PROVE  Cardinality(Places(u)) = 1
  BY DEF EveryPageHasItsPlace
<1> DEFINE ever == Near(file)[Cardinality(Rows(file))]
           close == Near(file)[MaxClickDepth]
<1>1. LinksLand(file) /\ CountsAreLinks(file) /\ file.mode # "list"
  BY DEF PlaceKept
<1>2. MaxClickDepth \in Nat /\ Cardinality(Rows(file)) \in Nat
  BY <1>1, FS_CardinalityType, MaxClickDepthIsCount DEF LinksLand
<1>3. Within(file, MaxClickDepth) = close /\ Within(file, Cardinality(Rows(file))) = ever
  BY <1>1, <1>2, WithinIs
<1>4. close \subseteq ever
  BY <1>1, <1>2, NearGrows
<1>5. Home(file) \subseteq ever
  <2>1. Near(file)[0] = Seeds(file)
    BY <1>1, NearIs DEF IsNear
  <2>2. Near(file)[0] \subseteq ever
    BY <1>1, <1>2, NearGrows
  <2> QED
    BY <2>1, <2>2 DEF Seeds
<1>6. Told("INDEX-DEEP-PAGE", u) <=> u \in ever \ close
  BY <1>1, GraphTold, DeepIs
<1>7. Told("INDEX-NO-INTERNAL-LINKS-IN", u) <=> ~Linked(file, u) /\ u \notin Home(file)
  BY <1>1, GraphTold, LonelyIs
<1>8. u \notin ever /\ Linked(file, u) => Told("INDEX-SECTION-DISCONNECTED", No)
  BY <1>1, GraphTold, SectionIs
<1> HIDE DEF ever, close
<1>9. \E c : Places(u) = {c}
  <2>1. CASE u \in close
    <3>1. Places(u) = {"near"}
      BY <1>3, <1>4, <1>6, <2>1
    <3> QED
      BY <3>1
  <2>2. CASE u \in ever \ close
    <3>1. Places(u) = {"deep"}
      BY <1>3, <1>6, <2>2
    <3> QED
      BY <3>1
  <2>3. CASE u \notin ever /\ Linked(file, u)
    <3>1. Places(u) = {"section"}
      BY <1>3, <1>4, <1>6, <1>7, <1>8, <2>3
    <3> QED
      BY <3>1
  <2>4. CASE u \notin ever /\ ~Linked(file, u)
    <3>1. Places(u) = {"lonely"}
      BY <1>3, <1>4, <1>5, <1>6, <1>7, <2>4
    <3> QED
      BY <3>1
  <2> QED
    BY <2>1, <2>2, <2>3, <2>4
<1> HIDE DEF Places
<1> QED
  BY <1>9, FS_Singleton

LEMMA PlaceInit == Init => PlaceKept
<1> SUFFICES ASSUME Init PROVE PlaceKept
  OBVIOUS
<1>1. file = EmptyFile(site) /\ site \in Sites /\ phase = "crawl" /\ status = "running"
  BY DEF Init
<1>2. Rows(file) = site.seeds \cup site.inSitemap /\ file.links = {} /\ Pages(file) = {}
  BY <1>1 DEF EmptyFile, Rows, Pages
<1>3. LinksLand(file)
  BY <1>1, <1>2, AuditAssumption DEF LinksLand
<1>4. "mode" \in DOMAIN file /\ file.mode = site.mode
  BY <1>1 DEF EmptyFile
<1> QED
  BY <1>1, <1>2, <1>3, <1>4 DEF PlaceKept

(* The links that a page adds go from it to URLs it discovers.             *)
LEMMA BuildResultLinks ==
  ASSUME NEW u
  PROVE  /\ \A l \in BuildResult(site, u).links : l.from = u /\ l.to \in Discovered(site, u)
         /\ \A v \in DOMAIN BuildResult(site, u).pages : "linksIn" \in DOMAIN BuildResult(site, u).pages[v]
<1> DEFINE d == site.docs[u]
<1>1. ASSUME NEW row PROVE OnlyRow(row).links = {} /\ DOMAIN OnlyRow(row).pages = {}
  BY DEF OnlyRow
<1>2. \A l \in LinkRows(site, u, d) : l.from = u
  BY DEF LinkRows
<1>3. \A l \in BuildResult(site, u).links : l.to \in Discovered(site, u)
  BY DEF Discovered
<1>4. CASE Excluded(site, u)
  BY <1>1, <1>4 DEF BuildResult
<1>5. CASE ~Excluded(site, u) /\ d.error # NoText
  BY <1>1, <1>5 DEF BuildResult
<1>6. CASE ~Excluded(site, u) /\ d.error = NoText
  <2>1. /\ BuildResult(site, u).links = IF HasPage(d) THEN LinkRows(site, u, d) ELSE {}
        /\ BuildResult(site, u).pages = IF HasPage(d) THEN [v \in {u} |-> PageRow(site, u, d)] ELSE <<>>
    BY <1>6 DEF BuildResult
  <2>2. "linksIn" \in DOMAIN PageRow(site, u, d)
    BY DEF PageRow
  <2> QED
    BY <1>2, <1>3, <2>1, <2>2
<1> QED
  BY <1>4, <1>5, <1>6

LEMMA PlaceSave ==
  ASSUME FileKept, IssuesKept, PlaceKept, Save
  PROVE  PlaceKept'
<1>1. PICK u \in Pending(file) : file' = Saved(site, file, u)
  BY DEF Save
<1> DEFINE r == BuildResult(site, u)
           new == Discovered(site, u) \ Rows(file)
<1>2. site' = site /\ phase' = "crawl" /\ status' = status /\ status # "done"
  BY DEF Save, IssuesKept
<1>3. /\ u \in DOMAIN site.docs /\ u \in Rows(file) /\ u \notin Pages(file)
      /\ file'.pages = Upsert(r.pages, file.pages)
      /\ file'.urls = Upsert([v \in {u} |-> r.url],
                             Upsert(file.urls, [v \in Discovered(site, u) \ Rows(file) |->
                               IF InScope(site, v) /\ site.mode # "list" THEN PendingRow(site, v) ELSE SkippedRow(site, v)]))
  BY <1>1, SavedKeeps
<1>4. file'.links = file.links \cup r.links /\ "mode" \in DOMAIN file' /\ file'.mode = site.mode
  <2>1. FileFields \subseteq DOMAIN file /\ "mode" \in DOMAIN file /\ file.mode = site.mode
    BY DEF FileKept, PlaceKept
  <2> QED
    BY <1>1, <2>1 DEF Saved, FileFields
<1>5. Rows(file') = Rows(file) \cup Discovered(site, u)
  BY <1>3 DEF Upsert, Rows
<1>6. IsFiniteSet(Discovered(site, u)) /\ IsFiniteSet(Rows(file))
  BY <1>3, AuditAssumption DEF FileKept, PlaceKept, LinksLand
<1>7. IsFiniteSet(Rows(file'))
  BY <1>5, <1>6, FS_Union
<1>8. \A l \in file'.links : l.from \in Rows(file') /\ l.to \in Rows(file')
  BY <1>3, <1>4, <1>5, BuildResultLinks DEF PlaceKept, LinksLand
<1>9. ASSUME NEW v \in Pages(file') PROVE "linksIn" \in DOMAIN file'.pages[v]
  <2>1. Pages(file') = DOMAIN r.pages \cup Pages(file)
    BY <1>3 DEF Upsert, Pages
  <2>2. file'.pages[v] = IF v \in DOMAIN r.pages THEN r.pages[v] ELSE file.pages[v]
    BY <1>3, <2>1 DEF Upsert, Pages
  <2> HIDE DEF r
  <2> QED
    BY <2>1, <2>2, BuildResultLinks DEF r, PlaceKept
<1> QED
  BY <1>2, <1>4, <1>7, <1>8, <1>9 DEF PlaceKept, LinksLand

LEMMA PlaceProbe ==
  ASSUME FileKept, IssuesKept, PlaceKept, Probe
  PROVE  PlaceKept'
<1>1. PICK u \in Unprobed(site, file) :
        LET d == site.docs[u] IN
        file' = [file EXCEPT !.urls[u] = UrlRow(site, u, "skipped", [d EXCEPT !.location = No]),
                             !.resources = Upsert(ResourceRows(site, u, d), @)]
  BY DEF Probe
<1>2. site' = site /\ phase' = "crawl" /\ status' = status /\ status # "done"
  BY DEF Probe, IssuesKept
<1>3. /\ file'.links = file.links /\ file'.pages = file.pages /\ DOMAIN file'.urls = DOMAIN file.urls
      /\ "mode" \in DOMAIN file' /\ file'.mode = file.mode
  BY <1>1 DEF FileKept, FileFields, PlaceKept
<1> QED
  BY <1>2, <1>3 DEF PlaceKept, LinksLand, Rows, Pages

LEMMA RecordedPlaces ==
  ASSUME FileKept, PlaceKept
  PROVE  LET g == Recorded(site, file) IN
         /\ FileFields \subseteq DOMAIN g /\ "mode" \in DOMAIN g
         /\ g.urls = file.urls /\ g.pages = file.pages /\ g.links = file.links /\ g.mode = file.mode
  BY DEF FileKept, PlaceKept, FileFields, Recorded

LEMMA PlacePause ==
  ASSUME FileKept, PlaceKept, site' = site, file' = Recorded(site, file), phase' = "idle", status' # "done"
  PROVE  PlaceKept'
  BY RecordedPlaces DEF PlaceKept, LinksLand, Rows, Pages

LEMMA PlaceFinalize ==
  ASSUME FileKept, IssuesKept, PlaceKept, Finalize
  PROVE  PlaceKept'
<1> DEFINE g == Recorded(site, file)
           links(u) == Cardinality({l.from : l \in {k \in g.links : k.to = u}})
<1>1. /\ file' = Counted(g) /\ site' = site /\ phase' = "final" /\ status' = status /\ status # "done"
      /\ cut' = NoText => site.mode # "list"
  <2>1. site.mode = "list" => cut' \in {"list_mode", "limit"}
    BY DEF Finalize
  <2>2. \A x \in {"list_mode", "limit"} : x # NoText
    BY DEF NoText
  <2> QED
    BY <2>1, <2>2 DEF Finalize, IssuesKept
<1>2. /\ FileFields \subseteq DOMAIN g /\ "mode" \in DOMAIN g
      /\ g.urls = file.urls /\ g.pages = file.pages /\ g.links = file.links /\ g.mode = file.mode
  BY RecordedPlaces
<1> HIDE DEF g
<1>3. /\ file'.urls = g.urls /\ file'.links = g.links /\ "mode" \in DOMAIN file' /\ file'.mode = g.mode
      /\ file'.pages = [u \in Pages(g) |-> [g.pages[u] EXCEPT !.linksIn = links(u)]]
  BY <1>1, <1>2 DEF Counted, FileFields
<1>4. Pages(file') = Pages(file) /\ Pages(g) = Pages(file)
  BY <1>2, <1>3 DEF Pages
<1>5. ASSUME NEW u \in Pages(file')
      PROVE  "linksIn" \in DOMAIN file'.pages[u] /\ file'.pages[u].linksIn = links(u)
  <2>1. "linksIn" \in DOMAIN g.pages[u]
    BY <1>2, <1>4 DEF PlaceKept
  <2>2. file'.pages[u] = [g.pages[u] EXCEPT !.linksIn = links(u)]
    BY <1>3, <1>4
  <2> HIDE DEF links
  <2> QED
    BY <2>1, <2>2
<1>6. CountsAreLinks(file')
  BY <1>3, <1>5 DEF CountsAreLinks
<1> QED
  BY <1>1, <1>2, <1>3, <1>5, <1>6 DEF PlaceKept, LinksLand, Rows

LEMMA PlaceStepKeeps ==
  ASSUME AuditInv, PlaceKept, [Next]_vars
  PROVE  PlaceKept'
<1>0. FileKept /\ IssuesKept
  BY DEF AuditInv
<1>1. CASE Save
  BY <1>0, <1>1, PlaceSave
<1>2. CASE Probe
  BY <1>0, <1>2, PlaceProbe
<1>3. CASE Finalize
  BY <1>0, <1>3, PlaceFinalize
<1>4. CASE EvaluateRule
  BY <1>4 DEF EvaluateRule, PlaceKept
<1>5. CASE Done
  BY <1>5 DEF Done, PlaceKept
<1>6. CASE Pause
  BY <1>0, <1>6, PlacePause DEF Pause
<1>7. CASE Crash
  <2>1. status # "done"
    BY <1>0, <1>7 DEF Crash, IssuesKept
  <2> QED
    BY <1>7, <2>1 DEF Crash, PlaceKept
<1>8. CASE Resume
  BY <1>8 DEF Resume, PlaceKept
<1>9. CASE UNCHANGED vars
  BY <1>9 DEF vars, PlaceKept
<1> QED
  BY <1>1, <1>2, <1>3, <1>4, <1>5, <1>6, <1>7, <1>8, <1>9 DEF Next, Over

-----------------------------------------------------------------------------
(* Where redirects lead.                                                   *)

RedirectsLand(f) ==
  /\ IsFiniteSet(Rows(f)) /\ No \notin Rows(f)
  /\ \A u \in Redirects(f) : f.urls[u].next \in Rows(f)

(* The URL after so many redirects from u, and No beyond the last.         *)
After(f, v) == IF v \in Redirects(f) THEN f.urls[v].next ELSE No
IsOrbit(f, u, o) == o[0] = u /\ \A n \in Nat : o[n + 1] = After(f, o[n])
Orbit(f, u) == CHOOSE o \in [Nat -> Rows(f) \cup {No}] : IsOrbit(f, u, o)

LEMMA OrbitIs ==
  ASSUME NEW f, RedirectsLand(f), NEW u \in Rows(f)
  PROVE  Orbit(f, u) \in [Nat -> Rows(f) \cup {No}] /\ IsOrbit(f, u, Orbit(f, u))
<1> DEFINE S == Rows(f) \cup {No}
           F == [n \in Nat |-> [v \in S |-> After(f, v)]]
<1>1. F \in [Nat -> [S -> S]] /\ u \in S
  BY DEF After, RedirectsLand
<1>2. PICK o \in [Nat -> S] : \A N \in Nat : Goes(o, N, F, u)
  <2> HIDE DEF F, S
  <2> QED
    BY <1>1, GoesOn
<1>3. o[0] = u
  <2>1. Goes(o, 0, F, u)
    BY <1>2
  <2> QED
    BY <2>1 DEF Goes
<1>4. ASSUME NEW n \in Nat PROVE o[n + 1] = After(f, o[n])
  <2>1. n + 1 \in Nat /\ n + 1 \in 1..(n + 1) /\ (n + 1) - 1 = n
    OBVIOUS
  <2>2. o[n + 1] = F[n + 1][o[n]]
    BY <1>2, <2>1 DEF Goes
  <2> QED
    BY <2>1, <2>2
<1>5. IsOrbit(f, u, o)
  <2> HIDE DEF S, F
  <2> QED
    BY <1>3, <1>4 DEF IsOrbit
<1> QED
  BY <1>2, <1>5 DEF Orbit

(* From a URL on the way the way is the same.                              *)
LEMMA OrbitGoesOn ==
  ASSUME NEW f, RedirectsLand(f), NEW u \in Rows(f), NEW a \in Nat, Orbit(f, u)[a] \in Rows(f)
  PROVE  \A k \in Nat : Orbit(f, Orbit(f, u)[a])[k] = Orbit(f, u)[a + k]
<1> DEFINE o == Orbit(f, u)
           p == Orbit(f, o[a])
           T == {k \in Nat : p[k] = o[a + k]}
<1>1. IsOrbit(f, u, o) /\ IsOrbit(f, o[a], p)
  BY OrbitIs
<1> HIDE DEF o, p
<1>2. 0 \in T
  BY <1>1 DEF IsOrbit
<1>3. ASSUME NEW k \in T PROVE k + 1 \in T
  <2>1. a + k \in Nat /\ a + (k + 1) = (a + k) + 1
    OBVIOUS
  <2> QED
    BY <1>1, <2>1 DEF IsOrbit
<1>4. T = Nat
  <2>1. T \in SUBSET Nat
    OBVIOUS
  <2> HIDE DEF T
  <2> QED
    BY <1>2, <1>3, <2>1, UpFromZero
<1> QED
  BY <1>4 DEF o, p

(* The URLs of the first n of a way are n when none comes twice.           *)
LEMMA AllDifferent ==
  ASSUME NEW o, NEW n \in Nat, \A i \in 0..(n - 1) : o[i] \notin {o[j] : j \in 0..(i - 1)}
  PROVE  IsFiniteSet({o[i] : i \in 0..(n - 1)}) /\ Cardinality({o[i] : i \in 0..(n - 1)}) = n
<1> DEFINE met(k) == {o[i] : i \in 0..(k - 1)}
           T == {k \in 0..n : IsFiniteSet(met(k)) /\ Cardinality(met(k)) = k}
<1>1. 0 \in T
  <2>1. met(0) = {}
    OBVIOUS
  <2> HIDE DEF met
  <2> QED
    BY <2>1, FS_EmptySet
<1>2. ASSUME NEW k \in 1..n, k - 1 \in T PROVE k \in T
  <2>1. k \in Nat /\ k - 1 \in 0..(n - 1) /\ k \in 0..n /\ 0..(k - 1) = 0..((k - 1) - 1) \cup {k - 1}
    OBVIOUS
  <2>2. met(k) = met(k - 1) \cup {o[k - 1]}
    BY <2>1
  <2>3. o[k - 1] \notin met(k - 1)
    BY <2>1
  <2> HIDE DEF met
  <2>4. IsFiniteSet(met(k)) /\ Cardinality(met(k)) = Cardinality(met(k - 1)) + 1
    BY <1>2, <2>2, <2>3, FS_AddElement
  <2> QED
    BY <1>2, <2>1, <2>4
<1>3. 0..n \subseteq T
  <2> HIDE DEF T
  <2> QED
    BY <1>1, <1>2, UpTo
<1>4. n \in T
  <2> HIDE DEF T
  <2> QED
    BY <1>3
<1> QED
  BY <1>4

(* A way ends where there is no more redirect, or where the next is to a   *)
(* URL that it has been through.                                           *)
Been(o, n) == {o[i] : i \in 0..n}
EndsAt(f, o, n) == o[n] \notin Redirects(f) \/ o[n + 1] \in Been(o, n)
End(f, u) == CHOOSE n \in Nat : EndsAt(f, Orbit(f, u), n) /\ \A m \in 0..(n - 1) : ~EndsAt(f, Orbit(f, u), m)

LEMMA EndIs ==
  ASSUME NEW f, RedirectsLand(f), NEW u \in Rows(f)
  PROVE  /\ End(f, u) \in Nat /\ EndsAt(f, Orbit(f, u), End(f, u))
         /\ \A m \in 0..(End(f, u) - 1) : ~EndsAt(f, Orbit(f, u), m)
<1> DEFINE o == Orbit(f, u)
           T == {n \in Nat : EndsAt(f, o, n)}
           K == Cardinality(Redirects(f))
<1>1. IsFiniteSet(Redirects(f)) /\ K \in Nat
  BY FS_Subset, FS_CardinalityType DEF RedirectsLand, Redirects
<1>2. ASSUME T = {} PROVE FALSE
  <2>1. \A n \in Nat : o[n] \in Redirects(f) /\ o[n + 1] \notin Been(o, n)
    BY <1>2 DEF EndsAt
  <2>2. \A i \in 0..((K + 1) - 1) : o[i] \notin {o[j] : j \in 0..(i - 1)}
    <3> SUFFICES ASSUME NEW i \in 0..((K + 1) - 1) PROVE o[i] \notin {o[j] : j \in 0..(i - 1)}
      OBVIOUS
    <3>1. CASE i = 0
      BY <3>1
    <3>2. CASE i # 0
      <4>1. i - 1 \in Nat /\ (i - 1) + 1 = i
        BY <1>1, <3>2
      <4> HIDE DEF o, K
      <4> QED
        BY <2>1, <4>1 DEF Been
    <3> QED
      BY <3>1, <3>2
  <2>3. K + 1 \in Nat
    BY <1>1
  <2> DEFINE met == {o[i] : i \in 0..((K + 1) - 1)}
  <2>4. Cardinality(met) = K + 1
    <3> HIDE DEF K, o
    <3> QED
      BY <2>2, <2>3, AllDifferent
  <2>5. met \subseteq Redirects(f)
    <3> HIDE DEF K, o
    <3> QED
      BY <1>1, <2>1
  <2>6. Cardinality(met) <= K
    <3> HIDE DEF met
    <3> QED
      BY <1>1, <2>5, FS_Subset
  <2> HIDE DEF met, K
  <2> QED
    BY <1>1, <2>4, <2>6
<1>3. PICK n \in T : \A m \in T : n <= m
  <2>1. T \in SUBSET Nat
    OBVIOUS
  <2> HIDE DEF T
  <2> QED
    BY <1>2, <2>1, FirstOf
<1>4. n \in Nat /\ EndsAt(f, o, n) /\ \A m \in 0..(n - 1) : ~EndsAt(f, o, m)
  <2>1. \A m \in 0..(n - 1) : m \in Nat /\ ~(n <= m)
    BY <1>3
  <2> QED
    BY <1>3, <2>1
<1> QED
  BY <1>4 DEF End

(* Up to its end a way is through different URLs, each a redirect but      *)
(* maybe the last.                                                         *)
LEMMA WayIs ==
  ASSUME NEW f, RedirectsLand(f), NEW u \in Rows(f)
  PROVE  LET o == Orbit(f, u)
             e == End(f, u)
         IN /\ \A n \in 0..e : o[n] \in Rows(f)
            /\ \A n \in 0..(e - 1) : o[n] \in Redirects(f) /\ o[n + 1] = f.urls[o[n]].next /\ o[n + 1] \notin Been(o, n)
            /\ o[e] \notin Redirects(f) => e <= Cardinality(Redirects(f)) /\ f.urls[o[e]].next = No
            /\ o[e] \in Redirects(f) => /\ e + 1 <= Cardinality(Redirects(f))
                                        /\ f.urls[o[e]].next = o[e + 1] /\ o[e + 1] \in Been(o, e)
            /\ e + 1 <= Cardinality(Rows(f))
<1> DEFINE o == Orbit(f, u)
           e == End(f, u)
           K == Cardinality(Redirects(f))
           N == Cardinality(Rows(f))
<1>1. IsOrbit(f, u, o) /\ e \in Nat /\ EndsAt(f, o, e) /\ \A m \in 0..(e - 1) : ~EndsAt(f, o, m)
  BY OrbitIs, EndIs
<1>2. IsFiniteSet(Rows(f)) /\ IsFiniteSet(Redirects(f)) /\ K \in Nat /\ N \in Nat /\ Redirects(f) \subseteq Rows(f)
  BY FS_Subset, FS_CardinalityType DEF RedirectsLand, Redirects
<1> HIDE DEF o, e
<1>3. ASSUME NEW n \in 0..(e - 1)
      PROVE  o[n] \in Redirects(f) /\ o[n + 1] = f.urls[o[n]].next /\ o[n + 1] \notin Been(o, n) /\ o[n + 1] \in Rows(f)
  <2>1. n \in Nat /\ o[n] \in Redirects(f) /\ o[n + 1] \notin Been(o, n)
    BY <1>1 DEF EndsAt
  <2>2. o[n + 1] = f.urls[o[n]].next
    BY <1>1, <2>1 DEF IsOrbit, After
  <2> QED
    BY <2>1, <2>2 DEF RedirectsLand
<1>4. ASSUME NEW n \in 0..e PROVE o[n] \in Rows(f)
  <2>1. CASE n = 0
    BY <1>1, <2>1 DEF IsOrbit
  <2>2. CASE n # 0
    <3>1. n - 1 \in 0..(e - 1) /\ (n - 1) + 1 = n
      BY <1>1, <2>2
    <3> QED
      BY <1>3, <3>1
  <2> QED
    BY <2>1, <2>2
<1>5. ASSUME NEW n \in 0..e PROVE o[n] \notin {o[j] : j \in 0..(n - 1)}
  <2>1. CASE n = 0
    BY <2>1
  <2>2. CASE n # 0
    <3>1. n - 1 \in 0..(e - 1) /\ (n - 1) + 1 = n
      BY <1>1, <2>2
    <3>2. o[(n - 1) + 1] \notin Been(o, n - 1)
      BY <1>3, <3>1
    <3> QED
      BY <3>1, <3>2 DEF Been
  <2> QED
    BY <2>1, <2>2
<1> DEFINE first(n) == {o[i] : i \in 0..(n - 1)}
<1>6. \A n \in 0..(e + 1) : IsFiniteSet(first(n)) /\ Cardinality(first(n)) = n
  <2> SUFFICES ASSUME NEW n \in 0..(e + 1) PROVE IsFiniteSet(first(n)) /\ Cardinality(first(n)) = n
    OBVIOUS
  <2>1. n \in Nat /\ \A i \in 0..(n - 1) : i \in 0..e
    BY <1>1
  <2>2. \A i \in 0..(n - 1) : o[i] \notin {o[j] : j \in 0..(i - 1)}
    BY <1>5, <2>1
  <2> QED
    BY <2>1, <2>2, AllDifferent
<1>7. e + 1 <= N
  <2>1. e + 1 \in 0..(e + 1) /\ first(e + 1) \subseteq Rows(f)
    BY <1>1, <1>4
  <2> HIDE DEF first, N
  <2>2. Cardinality(first(e + 1)) = e + 1
    BY <1>6, <2>1
  <2>3. Cardinality(first(e + 1)) <= N
    BY <1>2, <2>1, FS_Subset DEF N
  <2> QED
    BY <2>2, <2>3
<1>8. ASSUME o[e] \notin Redirects(f) PROVE e <= K /\ f.urls[o[e]].next = No
  <2>1. e \in 0..(e + 1) /\ first(e) \subseteq Redirects(f)
    BY <1>1, <1>3
  <2>2. f.urls[o[e]].next = No
    <3>1. o[e] \in Rows(f)
      BY <1>1, <1>4
    <3> QED
      BY <1>8, <3>1 DEF Redirects
  <2> HIDE DEF first, K
  <2>3. Cardinality(first(e)) = e
    BY <1>6, <2>1
  <2>4. Cardinality(first(e)) <= K
    BY <1>2, <2>1, FS_Subset DEF K
  <2> QED
    BY <2>2, <2>3, <2>4
<1>9. ASSUME o[e] \in Redirects(f) PROVE e + 1 <= K /\ f.urls[o[e]].next = o[e + 1] /\ o[e + 1] \in Been(o, e)
  <2>1. e + 1 \in 0..(e + 1) /\ \A i \in 0..((e + 1) - 1) : i \in 0..(e - 1) \/ i = e
    BY <1>1
  <2>2. first(e + 1) \subseteq Redirects(f)
    BY <1>3, <1>9, <2>1
  <2>3. o[e + 1] \in Been(o, e) /\ f.urls[o[e]].next = o[e + 1]
    BY <1>1, <1>9 DEF EndsAt, IsOrbit, After
  <2> HIDE DEF first, K
  <2>4. Cardinality(first(e + 1)) = e + 1
    BY <1>6, <2>1
  <2>5. Cardinality(first(e + 1)) <= K
    BY <1>2, <2>2, FS_Subset DEF K
  <2> QED
    BY <2>3, <2>4, <2>5
<1> QED
  BY <1>3, <1>4, <1>7, <1>8, <1>9 DEF o, e

(* The walk of the rules is the way up to its end, which it reaches as     *)
(* long as there are no more redirects than it follows.                    *)
LEMMA WalkIs ==
  ASSUME NEW f, RedirectsLand(f), Cardinality(Redirects(f)) <= MaxRedirectHops, NEW u \in Rows(f)
  PROVE  LET e == End(f, u)
         IN /\ Walk(f, u).path = [i \in 1..(e + 1) |-> Orbit(f, u)[i - 1]]
            /\ ToSet(Walk(f, u).path) = Been(Orbit(f, u), e) /\ Last(Walk(f, u).path) = Orbit(f, u)[e]
            /\ Walk(f, u).end = "loop" <=> Orbit(f, u)[e] \in Redirects(f)
            /\ Cardinality(Redirects(f)) < MaxRedirectHops /\ Orbit(f, u)[e] \notin Redirects(f) => Walk(f, u).end = "final"
<1> DEFINE o == Orbit(f, u)
           e == End(f, u)
           M == MaxRedirectHops
           last == IF o[e] \in Redirects(f) THEN "loop" ELSE "final"
           part(n) == [i \in 1..(n + 1) |-> o[i - 1]]
           W(n) == IF n <= e THEN [path |-> part(n), end |-> "too_long"] ELSE [path |-> part(e), end |-> last]
           step(w) ==
             LET next == f.urls[Last(w.path)].next
             IN CASE w.end # "too_long" -> w
                  [] w.end = "too_long" /\ next = No -> [w EXCEPT !.end = "final"]
                  [] w.end = "too_long" /\ next \in ToSet(w.path) -> [w EXCEPT !.end = "loop"]
                  [] OTHER -> [w EXCEPT !.path = Append(@, next)]
           rec(h, n) == IF n = 0 THEN [path |-> <<u>>, end |-> "too_long"] ELSE step(h[n - 1])
           walk == CHOOSE h : h = [n \in 0..M |-> rec(h, n)]
           walks == [n \in 0..M |-> W(n)]
<1>0. M \in Nat /\ e \in Nat /\ o[0] = u
  BY MaxRedirectHopsIsCount, EndIs, OrbitIs DEF IsOrbit
<1>1. Walk(f, u) = walk[M]
  BY DEF Walk
<1>2. /\ \A n \in 0..e : o[n] \in Rows(f)
      /\ \A n \in 0..(e - 1) : o[n] \in Redirects(f) /\ o[n + 1] = f.urls[o[n]].next /\ o[n + 1] \notin Been(o, n)
      /\ o[e] \notin Redirects(f) => e <= Cardinality(Redirects(f)) /\ f.urls[o[e]].next = No
      /\ o[e] \in Redirects(f) => /\ e + 1 <= Cardinality(Redirects(f))
                                  /\ f.urls[o[e]].next = o[e + 1] /\ o[e + 1] \in Been(o, e)
  BY WayIs
<1>3. e <= M /\ (o[e] \in Redirects(f) => e + 1 <= M) /\ (Cardinality(Redirects(f)) < M => e < M)
  <2>1. Cardinality(Redirects(f)) \in Nat /\ Cardinality(Redirects(f)) <= M
    BY FS_Subset, FS_CardinalityType DEF RedirectsLand, Redirects
  <2> HIDE DEF e, M
  <2> QED
    BY <1>0, <1>2, <2>1
<1> HIDE DEF o, e, M
<1>4. ASSUME NEW n \in 0..e
      PROVE  /\ part(n) \in Seq(Rows(f)) /\ Len(part(n)) = n + 1 /\ Last(part(n)) = o[n] /\ ToSet(part(n)) = Been(o, n)
             /\ n < e => Append(part(n), o[n + 1]) = part(n + 1)
  <2>1. n \in Nat /\ n + 1 \in Nat /\ \A i \in 1..(n + 1) : i - 1 \in 0..e
    BY <1>0
  <2>2. part(n) \in Seq(Rows(f)) /\ Len(part(n)) = n + 1
    BY <1>2, <2>1
  <2>3. Last(part(n)) = o[n]
    BY <2>1, <2>2 DEF Last
  <2>4. ToSet(part(n)) = Been(o, n)
    <3>1. ToSet(part(n)) = {o[i - 1] : i \in 1..(n + 1)}
      BY DEF ToSet
    <3>2. \A j \in 0..n : j + 1 \in 1..(n + 1) /\ (j + 1) - 1 = j
      BY <2>1
    <3>3. \A i \in 1..(n + 1) : i - 1 \in 0..n
      BY <2>1
    <3> QED
      BY <3>1, <3>2, <3>3 DEF Been
  <2>5. Append(part(n), o[n + 1]) = part(n + 1)
    <3>1. Append(part(n), o[n + 1]) = [i \in 1..(n + 2) |-> IF i = n + 2 THEN o[n + 1] ELSE o[i - 1]]
      BY <2>1, <2>2
    <3>2. (n + 1) + 1 = n + 2 /\ \A i \in 1..(n + 2) : i = n + 2 => i - 1 = n + 1
      BY <2>1
    <3>3. part(n + 1) = [i \in 1..(n + 2) |-> o[i - 1]]
      BY <3>2
    <3>4. \A i \in 1..(n + 2) : o[i - 1] = IF i = n + 2 THEN o[n + 1] ELSE o[i - 1]
      BY <3>2
    <3> HIDE DEF part
    <3> QED
      BY <3>1, <3>3, <3>4
  <2> QED
    BY <2>2, <2>3, <2>4, <2>5
<1> HIDE DEF part
<1>5. ASSUME NEW n \in 1..M PROVE W(n) = step(W(n - 1))
  <2>0. n \in Nat /\ n - 1 \in Nat
    OBVIOUS
  <2>1. CASE n <= e
    <3>1. n - 1 \in 0..e /\ n - 1 \in 0..(e - 1) /\ (n - 1) + 1 = n /\ (n - 1) + 2 = n + 1
      BY <1>0, <2>0, <2>1
    <3>2. W(n - 1) = [path |-> part(n - 1), end |-> "too_long"] /\ W(n) = [path |-> part(n), end |-> "too_long"]
      BY <1>0, <2>0, <2>1
    <3>3. Last(part(n - 1)) = o[n - 1] /\ ToSet(part(n - 1)) = Been(o, n - 1)
      BY <1>4, <3>1
    <3>4. f.urls[o[n - 1]].next = o[n] /\ o[n] # No /\ o[n] \notin Been(o, n - 1)
      <4>1. n \in 0..e
        BY <2>0, <2>1, <1>0
      <4>2. o[n] # No
        BY <1>2, <4>1 DEF RedirectsLand
      <4> QED
        BY <1>2, <3>1, <4>2
    <3>5. Append(part(n - 1), o[n]) = part(n)
      <4>1. PICK k \in 0..e : k = n - 1 /\ k < e /\ k + 1 = n
        BY <1>0, <3>1
      <4>2. Append(part(k), o[k + 1]) = part(k + 1)
        BY <1>4, <4>1
      <4> QED
        BY <4>1, <4>2
    <3>6. step([path |-> part(n - 1), end |-> "too_long"]) = [path |-> part(n), end |-> "too_long"]
      BY <3>3, <3>4, <3>5
    <3> HIDE DEF step, W
    <3> QED
      BY <3>2, <3>6
  <2>2. CASE n - 1 = e
    <3>1. e \in 0..e /\ ~(n <= e) /\ n - 1 <= e
      BY <1>0, <2>0, <2>2
    <3>2. W(n - 1) = [path |-> part(e), end |-> "too_long"] /\ W(n) = [path |-> part(e), end |-> last]
      BY <2>2, <3>1
    <3>3. Last(part(e)) = o[e] /\ ToSet(part(e)) = Been(o, e)
      BY <1>4, <3>1
    <3>4. CASE o[e] \in Redirects(f)
      <4>1. f.urls[o[e]].next # No /\ f.urls[o[e]].next \in Been(o, e)
        BY <1>2, <3>4 DEF Redirects
      <4>2. step([path |-> part(e), end |-> "too_long"]) = [path |-> part(e), end |-> "loop"]
        BY <3>3, <4>1
      <4> HIDE DEF step, W
      <4> QED
        BY <3>2, <3>4, <4>2
    <3>5. CASE o[e] \notin Redirects(f)
      <4>1. f.urls[o[e]].next = No /\ No \notin Been(o, e)
        BY <1>2, <3>5 DEF Been, RedirectsLand
      <4>2. step([path |-> part(e), end |-> "too_long"]) = [path |-> part(e), end |-> "final"]
        BY <3>3, <4>1
      <4> HIDE DEF step, W
      <4> QED
        BY <3>2, <3>5, <4>2
    <3> QED
      BY <3>4, <3>5
  <2>3. CASE n - 1 > e
    <3>1. ~(n <= e) /\ ~(n - 1 <= e)
      BY <1>0, <2>0, <2>3
    <3>2. W(n - 1) = W(n) /\ W(n).end # "too_long"
      BY <3>1
    <3> HIDE DEF W
    <3> QED
      BY <3>2
  <2> QED
    BY <1>0, <2>0, <2>1, <2>2, <2>3
<1>6. W(0) = [path |-> <<u>>, end |-> "too_long"]
  <2>1. part(0) = <<u>>
    BY <1>0 DEF part
  <2> QED
    BY <1>0, <2>1
<1> HIDE DEF W, step
<1>7. walks = [n \in 0..M |-> rec(walks, n)]
  <2> SUFFICES ASSUME NEW n \in 0..M PROVE W(n) = rec(walks, n)
    OBVIOUS
  <2>1. CASE n = 0
    BY <1>6, <2>1
  <2>2. CASE n # 0
    <3>1. n \in 1..M /\ n - 1 \in 0..M
      BY <1>0, <2>2
    <3>2. walks[n - 1] = W(n - 1)
      BY <3>1
    <3> HIDE DEF walks
    <3> QED
      BY <1>5, <2>2, <3>1, <3>2
  <2> QED
    BY <2>1, <2>2
<1>8. walk = [n \in 0..M |-> rec(walk, n)]
  <2> HIDE DEF walks, rec
  <2> QED
    BY <1>7
<1> DEFINE T == {n \in 0..M : walk[n] = W(n)}
<1>9. 0 \in T
  <2> HIDE DEF walk
  <2>1. 0 \in 0..M
    BY <1>0
  <2>2. walk[0] = rec(walk, 0)
    BY <1>8, <2>1
  <2> QED
    BY <1>6, <2>1, <2>2
<1>10. ASSUME NEW n \in 1..M, n - 1 \in T PROVE n \in T
  <2> HIDE DEF walk
  <2>1. n \in 0..M /\ n # 0
    BY <1>0
  <2>2. walk[n - 1] = W(n - 1)
    BY <1>10
  <2>3. walk[n] = rec(walk, n)
    BY <1>8, <2>1
  <2> QED
    BY <1>5, <2>1, <2>2, <2>3
<1>11. 0..M \subseteq T
  <2> HIDE DEF T
  <2> QED
    BY <1>0, <1>9, <1>10, UpTo
<1>12. walk[M] = W(M)
  <2> HIDE DEF walk
  <2> QED
    BY <1>0, <1>11
<1> HIDE DEF walk
<1>13. Last(part(e)) = o[e] /\ ToSet(part(e)) = Been(o, e)
  BY <1>0, <1>4
<1>14. CASE M <= e
  <2>1. M = e /\ o[e] \notin Redirects(f) /\ ~(Cardinality(Redirects(f)) < M)
    BY <1>0, <1>3, <1>14
  <2>2. W(M) = [path |-> part(e), end |-> "too_long"]
    BY <1>14, <2>1 DEF W
  <2>3. Walk(f, u).path = part(e) /\ Walk(f, u).end = "too_long"
    BY <1>1, <1>12, <2>2
  <2> QED
    BY <1>13, <2>1, <2>3 DEF o, e, M, part
<1>15. CASE ~(M <= e)
  <2>1. W(M) = [path |-> part(e), end |-> last]
    BY <1>15 DEF W
  <2>2. Walk(f, u).path = part(e) /\ Walk(f, u).end = last
    BY <1>1, <1>12, <2>1
  <2> QED
    BY <1>13, <2>2 DEF o, e, M, part
<1> QED
  BY <1>14, <1>15

(* A way that comes back to where it was goes round from there: it is      *)
(* always in the part that repeats, and is everywhere in it each time      *)
(* round.                                                                  *)
Round(o, a, e) == {o[i] : i \in a..e}
Meets(o, n, m, c) == \E i \in n..m : o[i] = c

LEMMA RoundIs ==
  ASSUME NEW f, NEW u, NEW o, IsOrbit(f, u, o),
         NEW e \in Nat, NEW a \in 0..e, o[e + 1] = o[a]
  PROVE  \A n \in Nat : n >= a => /\ o[n] \in Round(o, a, e)
                                  /\ \A c \in Round(o, a, e) : Meets(o, n, n + (e - a), c)
<1> DEFINE R == Round(o, a, e)
           q == e - a
           In == {k \in Nat : o[a + k] \in R}
           Back == {k \in Nat : o[a + k + (q + 1)] = o[a + k]}
           All == {k \in Nat : \A c \in R : Meets(o, a + k, a + k + q, c)}
<1>0. a \in Nat /\ q \in Nat /\ a + q = e
  OBVIOUS
<1> HIDE DEF q
<1>1. 0 \in In
  BY <1>0 DEF Round
<1>2. ASSUME NEW k \in In PROVE k + 1 \in In
  <2>1. PICK i \in a..e : o[a + k] = o[i]
    BY DEF Round
  <2>2. a + k \in Nat /\ i \in Nat /\ a + (k + 1) = (a + k) + 1
    BY <1>0
  <2>3. o[a + (k + 1)] = o[i + 1]
    <3>1. o[(a + k) + 1] = After(f, o[a + k]) /\ o[i + 1] = After(f, o[i])
      BY <2>2 DEF IsOrbit
    <3> QED
      BY <2>1, <2>2, <3>1
  <2>4. i + 1 \in a..e \/ i = e
    BY <1>0
  <2> QED
    BY <1>0, <2>3, <2>4 DEF Round
<1>3. In = Nat
  <2>1. In \in SUBSET Nat
    OBVIOUS
  <2> HIDE DEF In
  <2> QED
    BY <1>1, <1>2, <2>1, UpFromZero
<1>4. 0 \in Back
  <2>1. a + 0 + (q + 1) = e + 1 /\ a + 0 = a
    BY <1>0
  <2> QED
    BY <2>1
<1>5. ASSUME NEW k \in Back PROVE k + 1 \in Back
  <2>1. /\ a + k \in Nat /\ a + (k + 1) = (a + k) + 1
        /\ a + k + (q + 1) \in Nat /\ a + (k + 1) + (q + 1) = (a + k + (q + 1)) + 1
    BY <1>0
  <2>2. o[(a + k) + 1] = After(f, o[a + k]) /\ o[(a + k + (q + 1)) + 1] = After(f, o[a + k + (q + 1)])
    BY <2>1 DEF IsOrbit
  <2> QED
    BY <2>1, <2>2
<1>6. Back = Nat
  <2>1. Back \in SUBSET Nat
    OBVIOUS
  <2> HIDE DEF Back
  <2> QED
    BY <1>4, <1>5, <2>1, UpFromZero
<1>7. 0 \in All
  <2>1. a + 0 = a /\ a + 0 + q = e
    BY <1>0
  <2> QED
    BY <2>1 DEF Round, Meets
<1>8. ASSUME NEW k \in All PROVE k + 1 \in All
  <2> SUFFICES ASSUME NEW c \in R PROVE \E m \in (a + (k + 1))..(a + (k + 1) + q) : o[m] = c
    BY DEF Meets
  <2> HIDE DEF R
  <2>1. PICK m \in (a + k)..(a + k + q) : o[m] = c
    BY DEF Meets
  <2>2. CASE m = a + k
    <3>1. o[a + k + (q + 1)] = c
      BY <1>6, <2>1, <2>2
    <3>2. a + k + (q + 1) \in (a + (k + 1))..(a + (k + 1) + q)
      BY <1>0
    <3> QED
      BY <3>1, <3>2
  <2>3. CASE m # a + k
    <3>1. m \in (a + (k + 1))..(a + (k + 1) + q)
      BY <1>0, <2>3
    <3> QED
      BY <2>1, <3>1
  <2> QED
    BY <2>2, <2>3
<1>9. All = Nat
  <2>1. All \in SUBSET Nat
    OBVIOUS
  <2> HIDE DEF All
  <2> QED
    BY <1>7, <1>8, <2>1, UpFromZero
<1> SUFFICES ASSUME NEW n \in Nat, n >= a
             PROVE  o[n] \in R /\ \A c \in R : Meets(o, n, n + q, c)
  BY DEF q
<1>10. PICK k \in Nat : n = a + k
  <2>1. n - a \in Nat /\ n = a + (n - a)
    BY <1>0
  <2> QED
    BY <2>1
<1>11. k \in In /\ k \in All
  BY <1>3, <1>9
<1> HIDE DEF R
<1> QED
  BY <1>10, <1>11

(* Where a way goes for ever: nowhere, or round.                           *)
LEMMA LoopOfIs ==
  ASSUME NEW f, RedirectsLand(f), NEW u \in Rows(f)
  PROVE  LoopOf(f, u) = {Orbit(f, u)[n] : n \in Cardinality(Rows(f))..2 * Cardinality(Rows(f))} \ {No}
<1> DEFINE N == Cardinality(Rows(f))
           o == Orbit(f, u)
           rec(h, n) == IF n = 0 THEN u ELSE LET v == h[n - 1] IN IF v \in Redirects(f) THEN f.urls[v].next ELSE No
           orbit == CHOOSE h : h = [n \in 0..2 * N |-> rec(h, n)]
           orbits == [n \in 0..2 * N |-> o[n]]
<1>0. N \in Nat /\ 2 * N \in Nat /\ IsOrbit(f, u, o)
  BY OrbitIs, FS_CardinalityType DEF RedirectsLand
<1>1. LoopOf(f, u) = {orbit[n] : n \in N..2 * N} \ {No}
  BY DEF LoopOf
<1> HIDE DEF o, N
<1>2. \A n \in 1..2 * N : o[n] = IF o[n - 1] \in Redirects(f) THEN f.urls[o[n - 1]].next ELSE No
  <2> SUFFICES ASSUME NEW n \in 1..2 * N PROVE o[n] = IF o[n - 1] \in Redirects(f) THEN f.urls[o[n - 1]].next ELSE No
    OBVIOUS
  <2>1. n - 1 \in Nat /\ (n - 1) + 1 = n
    BY <1>0
  <2> QED
    BY <1>0, <2>1 DEF IsOrbit, After
<1>3. orbits = [n \in 0..2 * N |-> rec(orbits, n)]
  <2> SUFFICES ASSUME NEW n \in 0..2 * N PROVE o[n] = rec(orbits, n)
    OBVIOUS
  <2>1. CASE n = 0
    BY <1>0, <2>1 DEF IsOrbit
  <2>2. CASE n # 0
    <3>1. n \in 1..2 * N /\ n - 1 \in 0..2 * N
      BY <1>0, <2>2
    <3>2. orbits[n - 1] = o[n - 1]
      BY <3>1
    <3> HIDE DEF orbits
    <3> QED
      BY <1>2, <2>2, <3>1, <3>2
  <2> QED
    BY <2>1, <2>2
<1>4. orbit = [n \in 0..2 * N |-> rec(orbit, n)]
  <2> HIDE DEF orbits, rec
  <2> QED
    BY <1>3
<1> DEFINE T == {n \in 0..2 * N : orbit[n] = o[n]}
<1>5. 0 \in T
  <2> HIDE DEF orbit
  <2>1. 0 \in 0..2 * N
    BY <1>0
  <2>2. orbit[0] = rec(orbit, 0)
    BY <1>4, <2>1
  <2> QED
    BY <1>0, <2>1, <2>2 DEF IsOrbit
<1>6. ASSUME NEW n \in 1..2 * N, n - 1 \in T PROVE n \in T
  <2> HIDE DEF orbit
  <2>1. n \in 0..2 * N /\ n # 0
    BY <1>0
  <2>2. orbit[n - 1] = o[n - 1]
    BY <1>6
  <2>3. orbit[n] = rec(orbit, n)
    BY <1>4, <2>1
  <2> QED
    BY <1>2, <2>1, <2>2, <2>3
<1>7. 0..2 * N \subseteq T
  <2> HIDE DEF T
  <2> QED
    BY <1>0, <1>5, <1>6, UpTo
<1>8. ASSUME NEW n \in N..2 * N PROVE orbit[n] = o[n]
  <2> HIDE DEF orbit
  <2>1. n \in 0..2 * N
    BY <1>0
  <2> QED
    BY <1>7, <2>1
<1> HIDE DEF orbit
<1> QED
  BY <1>1, <1>8 DEF o, N

LEMMA EndsWell ==
  ASSUME NEW f, RedirectsLand(f), NEW u \in Rows(f), Orbit(f, u)[End(f, u)] \notin Redirects(f)
  PROVE  LoopOf(f, u) = {}
<1> DEFINE N == Cardinality(Rows(f))
           o == Orbit(f, u)
           e == End(f, u)
           T == {k \in Nat : o[(e + 1) + k] = No}
<1>1. N \in Nat /\ e \in Nat /\ e + 1 <= N /\ IsOrbit(f, u, o) /\ o[e] \notin Redirects(f)
  BY OrbitIs, EndIs, WayIs, FS_CardinalityType DEF RedirectsLand
<1>2. LoopOf(f, u) = {o[n] : n \in N..2 * N} \ {No}
  BY LoopOfIs
<1>3. No \notin Redirects(f)
  BY DEF RedirectsLand, Redirects
<1> HIDE DEF o, e, N
<1>4. 0 \in T
  <2>1. o[e + 1] = No /\ (e + 1) + 0 = e + 1
    BY <1>1 DEF IsOrbit, After
  <2> QED
    BY <2>1
<1>5. ASSUME NEW k \in T PROVE k + 1 \in T
  <2>1. (e + 1) + k \in Nat /\ (e + 1) + (k + 1) = ((e + 1) + k) + 1
    BY <1>1
  <2>2. o[((e + 1) + k) + 1] = After(f, o[(e + 1) + k])
    BY <1>1, <2>1 DEF IsOrbit
  <2> QED
    BY <1>3, <2>1, <2>2 DEF After
<1>6. T = Nat
  <2>1. T \in SUBSET Nat
    OBVIOUS
  <2> HIDE DEF T
  <2> QED
    BY <1>4, <1>5, <2>1, UpFromZero
<1>7. ASSUME NEW n \in N..2 * N PROVE o[n] = No
  <2>1. n - (e + 1) \in Nat /\ (e + 1) + (n - (e + 1)) = n
    BY <1>1
  <2>2. PICK k \in Nat : (e + 1) + k = n
    BY <2>1
  <2>3. o[(e + 1) + k] = No
    BY <1>6
  <2> QED
    BY <2>2, <2>3
<1> QED
  BY <1>2, <1>7

LEMMA GoesRound ==
  ASSUME NEW f, RedirectsLand(f), NEW u \in Rows(f), Orbit(f, u)[End(f, u)] \in Redirects(f),
         NEW a \in 0..End(f, u), Orbit(f, u)[End(f, u) + 1] = Orbit(f, u)[a]
  PROVE  LET C == Round(Orbit(f, u), a, End(f, u))
         IN LoopOf(f, u) = C /\ C # {} /\ C \subseteq Rows(f) /\ \A x \in C : LoopOf(f, x) = C
<1> DEFINE N == Cardinality(Rows(f))
           o == Orbit(f, u)
           e == End(f, u)
           C == Round(o, a, e)
<1>1. N \in Nat /\ e \in Nat /\ e + 1 <= N /\ IsOrbit(f, u, o) /\ o[e + 1] = o[a] /\ o[0] = u
  BY OrbitIs, EndIs, WayIs, FS_CardinalityType DEF RedirectsLand, IsOrbit
<1>2. a \in Nat /\ a \in 0..e /\ a <= e
  BY <1>1
<1>3. \A n \in 0..e : o[n] \in Rows(f)
  BY WayIs
<1>4. \A x \in Rows(f) : LoopOf(f, x) = {Orbit(f, x)[n] : n \in N..2 * N} \ {No}
  BY LoopOfIs
<1>5. \A m \in Nat : o[m] \in Rows(f) => \A k \in Nat : Orbit(f, o[m])[k] = o[m + k]
  BY OrbitGoesOn
<1> HIDE DEF o, e, N
<1>6. \A n \in Nat : n >= a => o[n] \in C /\ \A c \in C : Meets(o, n, n + (e - a), c)
  <2>1. e \in Nat /\ a \in 0..e /\ o[e + 1] = o[a] /\ IsOrbit(f, u, o)
    BY <1>1, <1>2
  <2> QED
    BY <2>1, RoundIs
<1>7. C # {} /\ C \subseteq Rows(f) /\ No \notin C
  <2>1. \A i \in a..e : i \in 0..e
    BY <1>1, <1>2
  <2>2. a \in a..e
    BY <1>1, <1>2
  <2> QED
    BY <1>3, <2>1, <2>2 DEF Round, RedirectsLand
<1> HIDE DEF C
<1>8. ASSUME NEW m \in 0..e, \A n \in N..2 * N : m + n >= a
      PROVE  LoopOf(f, o[m]) = C
  <2>0. m \in Nat /\ o[m] \in Rows(f)
    BY <1>1, <1>3
  <2>1. LoopOf(f, o[m]) = {o[m + n] : n \in N..2 * N} \ {No}
    <3>1. \A n \in N..2 * N : n \in Nat
      BY <1>1
    <3>2. LoopOf(f, o[m]) = {Orbit(f, o[m])[n] : n \in N..2 * N} \ {No}
      BY <1>4, <2>0
    <3>3. \A n \in N..2 * N : Orbit(f, o[m])[n] = o[m + n]
      BY <1>5, <2>0, <3>1
    <3> QED
      BY <3>2, <3>3
  <2>2. ASSUME NEW n \in N..2 * N PROVE o[m + n] \in C
    <3>1. m + n \in Nat /\ m + n >= a
      BY <1>1, <1>8, <2>0
    <3> QED
      BY <1>6, <3>1
  <2>3. ASSUME NEW c \in C PROVE \E n \in N..2 * N : o[m + n] = c
    <3>1. m + N \in Nat /\ m + N >= a
      BY <1>1, <1>2, <1>8, <2>0
    <3>2. PICK j \in (m + N)..((m + N) + (e - a)) : o[j] = c
      BY <1>6, <3>1 DEF Meets
    <3>3. j - m \in N..2 * N /\ m + (j - m) = j
      BY <1>1, <1>2, <2>0
    <3>4. PICK n \in N..2 * N : m + n = j
      BY <3>3
    <3> QED
      BY <3>2, <3>4
  <2> QED
    BY <1>7, <2>1, <2>2, <2>3
<1>9. LoopOf(f, u) = C
  <2>1. 0 \in 0..e /\ \A n \in N..2 * N : 0 + n >= a
    BY <1>1, <1>2
  <2> QED
    BY <1>1, <1>8, <2>1
<1>10. ASSUME NEW x \in C PROVE LoopOf(f, x) = C
  <2>1. PICK m \in a..e : x = o[m]
    BY DEF C, Round
  <2>2. m \in 0..e /\ \A n \in N..2 * N : m + n >= a
    BY <1>1, <1>2
  <2> QED
    BY <1>8, <2>1, <2>2
<1> QED
  BY <1>7, <1>9, <1>10 DEF C, o, e

(* The cycle that a walk ends in is where its way goes for ever, and so    *)
(* from each URL of it.                                                    *)
LEMMA CycleIs ==
  ASSUME NEW f, RedirectsLand(f), Cardinality(Redirects(f)) <= MaxRedirectHops, NEW u \in Rows(f)
  PROVE  /\ Walk(f, u).end = "loop" <=> LoopOf(f, u) # {}
         /\ LoopOf(f, u) \subseteq Rows(f)
         /\ LoopOf(f, u) # {} => Cycle(f, Walk(f, u)) = LoopOf(f, u)
         /\ \A x \in LoopOf(f, u) : LoopOf(f, x) = LoopOf(f, u)
<1> DEFINE o == Orbit(f, u)
           e == End(f, u)
           w == Walk(f, u)
<1>1. w.path = [i \in 1..(e + 1) |-> o[i - 1]] /\ (w.end = "loop" <=> o[e] \in Redirects(f))
  BY WalkIs
<1>2. CASE o[e] \notin Redirects(f)
  BY <1>1, <1>2, EndsWell
<1>3. CASE o[e] \in Redirects(f)
  <2> DEFINE next == f.urls[Last(w.path)].next
             first == CHOOSE i \in DOMAIN w.path : w.path[i] = next
  <2>1. e \in Nat /\ f.urls[o[e]].next = o[e + 1] /\ o[e + 1] \in Been(o, e) /\ \A n \in 0..e : o[n] \in Rows(f)
    BY <1>3, EndIs, WayIs
  <2>2. Cycle(f, w) = {w.path[i] : i \in first..Len(w.path)}
    BY DEF Cycle
  <2>3. \A a \in 0..e : o[e + 1] = o[a] =>
          /\ LoopOf(f, u) = Round(o, a, e) /\ Round(o, a, e) # {} /\ Round(o, a, e) \subseteq Rows(f)
          /\ \A x \in Round(o, a, e) : LoopOf(f, x) = Round(o, a, e)
    BY <1>3, GoesRound
  <2> HIDE DEF o, e, w
  <2>4. Len(w.path) = e + 1 /\ DOMAIN w.path = 1..(e + 1) /\ \A i \in 1..(e + 1) : w.path[i] = o[i - 1]
    <3>1. \A i \in 1..(e + 1) : i - 1 \in 0..e
      BY <2>1
    <3>2. w.path \in Seq(Rows(f))
      BY <1>1, <2>1, <3>1
    <3> QED
      BY <1>1, <2>1, <3>2
  <2>5. next = o[e + 1]
    <3>1. Last(w.path) = o[e]
      <4>1. e + 1 \in 1..(e + 1) /\ (e + 1) - 1 = e
        BY <2>1
      <4> QED
        BY <2>4, <4>1 DEF Last
    <3> QED
      BY <2>1, <3>1
  <2>6. first \in 1..(e + 1) /\ o[first - 1] = o[e + 1]
    <3>1. \E i \in DOMAIN w.path : w.path[i] = next
      <4>1. PICK j \in 0..e : o[e + 1] = o[j]
        BY <2>1 DEF Been
      <4>2. j + 1 \in 1..(e + 1) /\ (j + 1) - 1 = j
        BY <2>1
      <4>3. w.path[j + 1] = o[j]
        BY <2>4, <4>2
      <4> QED
        BY <2>4, <2>5, <4>1, <4>2, <4>3
    <3>2. first \in DOMAIN w.path /\ w.path[first] = next
      BY <3>1
    <3> HIDE DEF first, next
    <3> QED
      BY <2>4, <2>5, <3>2
  <2> HIDE DEF first, next
  <2>7. {w.path[i] : i \in first..Len(w.path)} = Round(o, first - 1, e)
    <3>1. \A i \in first..(e + 1) : i \in 1..(e + 1) /\ i - 1 \in (first - 1)..e /\ w.path[i] = o[i - 1]
      BY <2>1, <2>4, <2>6
    <3>2. \A j \in (first - 1)..e : j + 1 \in first..(e + 1) /\ (j + 1) - 1 = j
      BY <2>1, <2>6
    <3>3. \A j \in (first - 1)..e : w.path[j + 1] = o[j]
      BY <3>1, <3>2
    <3> QED
      BY <2>4, <3>1, <3>2, <3>3 DEF Round
  <2>8. first - 1 \in 0..e
    BY <2>1, <2>6
  <2> QED
    BY <1>1, <1>3, <2>2, <2>3, <2>6, <2>7, <2>8 DEF w, e, o
<1> QED
  BY <1>2, <1>3

-----------------------------------------------------------------------------
(* What is told of the redirects.                                          *)
LEMMA ChainToldIs ==
  ASSUME NEW f, RedirectsLand(f), Cardinality(Redirects(f)) <= MaxRedirectHops, NEW u \in ChainHeads(f)
  PROVE  (\E i \in HttpRedirectChain(f) : i.url = u) <=> LoopOf(f, u) = {} /\ f.urls[u].next \in Redirects(f)
<1> DEFINE o == Orbit(f, u)
           e == End(f, u)
           w == Walk(f, u)
           heads == {h \in ChainHeads(f) : Walk(f, h).end # "loop" /\ Hops(Walk(f, h)) >= 2}
           of(v) == HttpFinding("HTTP-REDIRECT-CHAIN", v, Hops(Walk(f, v)))
<1>0. u \in Redirects(f) /\ u \in Rows(f)
  BY DEF ChainHeads, Redirects
<1>1. (\E i \in HttpRedirectChain(f) : i.url = u) <=> u \in heads
  <2>1. HttpRedirectChain(f) = {of(v) : v \in heads}
    BY DEF HttpRedirectChain
  <2>2. \A v : of(v).url = v
    BY DEF HttpFinding, Finding
  <2> HIDE DEF of, heads
  <2> QED
    BY <2>1, <2>2
<1>2. w.end = "loop" <=> LoopOf(f, u) # {}
  BY <1>0, CycleIs
<1>3. w.path = [i \in 1..(e + 1) |-> o[i - 1]] /\ (w.end = "loop" <=> o[e] \in Redirects(f))
  BY <1>0, WalkIs
<1>4. /\ e \in Nat /\ o[0] = u
      /\ \A n \in 0..e : o[n] \in Rows(f)
      /\ \A n \in 0..(e - 1) : o[n] \in Redirects(f) /\ o[n + 1] = f.urls[o[n]].next
  BY <1>0, OrbitIs, EndIs, WayIs DEF IsOrbit
<1> HIDE DEF o, e
<1>5. Hops(w) = e
  <2>1. \A i \in 1..(e + 1) : i - 1 \in 0..e
    BY <1>4
  <2>2. w.path \in Seq(Rows(f)) /\ Len(w.path) = e + 1
    BY <1>3, <1>4, <2>1
  <2> HIDE DEF w
  <2> QED
    BY <1>4, <2>2 DEF Hops
<1>6. ASSUME o[e] \notin Redirects(f) PROVE e >= 2 <=> f.urls[u].next \in Redirects(f)
  <2>1. e # 0
    BY <1>0, <1>4, <1>6
  <2>2. 0 \in 0..(e - 1) /\ 0 + 1 = 1
    BY <1>4, <2>1
  <2>3. f.urls[u].next = o[1]
    BY <1>4, <2>2
  <2>4. CASE e = 1
    BY <1>6, <2>3, <2>4
  <2>5. CASE e >= 2
    <3>1. 1 \in 0..(e - 1)
      BY <1>4, <2>5
    <3> QED
      BY <1>4, <2>3, <2>5, <3>1
  <2> QED
    BY <1>4, <2>1, <2>4, <2>5
<1>7. u \in heads <=> w.end # "loop" /\ e >= 2
  BY <1>5
<1> HIDE DEF w, heads
<1> QED
  BY <1>1, <1>2, <1>3, <1>6, <1>7

(* The least of some URLs that have ids is one of them.                    *)
LEMMA LeastIs ==
  ASSUME NEW ids, NEW c, c # {}, \A u \in c : ids[u] \in Nat
  PROVE  (CHOOSE u \in c : \A v \in c : ids[u] <= ids[v]) \in c
<1>1. PICK n \in {ids[u] : u \in c} : \A m \in {ids[u] : u \in c} : n <= m
  <2> DEFINE T == {ids[u] : u \in c}
  <2>1. T \in SUBSET Nat /\ T # {}
    OBVIOUS
  <2> HIDE DEF T
  <2>2. \E n \in T : \A m \in T : n <= m
    BY <2>1, FirstOf
  <2> QED
    BY <2>2 DEF T
<1>2. \E u \in c : \A v \in c : ids[u] <= ids[v]
  BY <1>1
<1> QED
  BY <1>2

LEMMA LoopToldOnce ==
  ASSUME NEW f, RedirectsLand(f), Cardinality(Redirects(f)) <= MaxRedirectHops,
         \A v \in Rows(f) : f.ids[v] \in Nat,
         NEW u \in Redirects(f), LoopOf(f, u) # {}
  PROVE  Cardinality({i \in HttpRedirectLoop(f) : i.url \in LoopOf(f, u)}) = 1
<1> DEFINE cycles == {Cycle(f, Walk(f, v)) : v \in {x \in Redirects(f) : Walk(f, x).end = "loop"}}
           least(c) == CHOOSE v \in c : \A x \in c : f.ids[v] <= f.ids[x]
           of(c) == Finding("HTTP-REDIRECT-LOOP", "critical", least(c), Cardinality(c), <<"redirect-loop", {least(c)}>>)
           C == LoopOf(f, u)
<1>1. HttpRedirectLoop(f) = {of(c) : c \in cycles}
  BY DEF HttpRedirectLoop
<1>2. \A c : of(c).url = least(c)
  BY DEF Finding
<1>3. \A v \in Redirects(f) : /\ Walk(f, v).end = "loop" <=> LoopOf(f, v) # {}
                              /\ LoopOf(f, v) \subseteq Rows(f)
                              /\ LoopOf(f, v) # {} => Cycle(f, Walk(f, v)) = LoopOf(f, v)
                              /\ \A x \in LoopOf(f, v) : LoopOf(f, x) = LoopOf(f, v)
  BY CycleIs DEF Redirects
<1>4. ASSUME NEW c \in cycles
      PROVE  c # {} /\ c \subseteq Rows(f) /\ \A x \in c : LoopOf(f, x) = c
  <2>1. PICK v \in Redirects(f) : Walk(f, v).end = "loop" /\ c = Cycle(f, Walk(f, v))
    OBVIOUS
  <2> HIDE DEF cycles
  <2> QED
    BY <1>3, <2>1
<1>5. C \in cycles
  <2>1. Walk(f, u).end = "loop" /\ Cycle(f, Walk(f, u)) = C
    BY <1>3
  <2> HIDE DEF C
  <2> QED
    BY <2>1
<1>6. \A c \in cycles : least(c) \in c
  <2> SUFFICES ASSUME NEW c \in cycles PROVE least(c) \in c
    OBVIOUS
  <2> HIDE DEF cycles
  <2>1. c # {} /\ \A v \in c : f.ids[v] \in Nat
    BY <1>4
  <2> QED
    BY <2>1, LeastIs
<1> HIDE DEF of, least, cycles
<1>7. \A c \in cycles : least(c) \in C => c = C
  BY <1>3, <1>4, <1>6
<1> HIDE DEF C
<1>8. {i \in HttpRedirectLoop(f) : i.url \in C} = {of(C)}
  BY <1>1, <1>2, <1>5, <1>6, <1>7
<1> QED
  BY <1>8, FS_Singleton DEF C

(* What a finished crawl, cut or not, has of a rule that judges it anyway. *)
LEMMA InIssues ==
  ASSUME AuditInv, status = "done", NEW r \in SiteRuleIds \ NeedsWholeGraph, NEW i
  PROVE  i \in DOMAIN issues /\ i.rule = r <=> i \in SiteRule(file, Turn(r)) /\ i.rule = r
<1> DEFINE partial == truncated # NoText
<1>1. issues = SetToBag(FindingsOf(file, partial))
  BY DEF AuditInv, IssuesKept, IssuesAreTheFiles
<1> HIDE DEF partial
<1>2. DOMAIN issues = FindingsOf(file, partial)
  BY <1>1, BagOfSet
<1>3. i.rule = r => (i \in FindingsOf(file, partial)
                       <=> i \in OfPages(file) \/ \E n \in 1..NRules : i \in SiteRule(file, n))
  BY DEF FindingsOf, OfPages, Kept
<1>4. \A j \in OfPages(file) : j.rule # r
  BY PageRulesSay DEF OfPages
<1>5. \A n \in 1..NRules : \A j \in SiteRule(file, n) : j.rule = r => Turn(r) = n
  BY SiteRulesSay
<1>6. Turn(r) \in 1..NRules
  BY DEF Turn, NRules
<1> QED
  BY <1>2, <1>3, <1>4, <1>5, <1>6

LEMMA RedirectsInIssues ==
  ASSUME AuditInv, status = "done", NEW i
  PROVE  /\ i \in DOMAIN issues /\ i.rule = "HTTP-REDIRECT-CHAIN" <=> i \in HttpRedirectChain(file)
         /\ i \in DOMAIN issues /\ i.rule = "HTTP-REDIRECT-LOOP" <=> i \in HttpRedirectLoop(file)
<1>1. {"HTTP-REDIRECT-CHAIN", "HTTP-REDIRECT-LOOP"} \subseteq SiteRuleIds \ NeedsWholeGraph
  BY DEF SiteRuleIds, NeedsWholeGraph
<1>2. Turn("HTTP-REDIRECT-CHAIN") = 12 /\ Turn("HTTP-REDIRECT-LOOP") = 12
  BY DEF Turn, HttpIds
<1>3. SiteRule(file, 12) = HttpSiteRules(file)
  BY DEF SiteRule
<1>4. \A j \in HttpRedirectChain(file) : j.rule = "HTTP-REDIRECT-CHAIN"
  BY DEF HttpRedirectChain, HttpFinding, Finding
<1>5. \A j \in HttpRedirectLoop(file) : j.rule = "HTTP-REDIRECT-LOOP"
  BY DEF HttpRedirectLoop, Finding
<1>6. \A j \in Http404Internal(file) \cup Http404External(file) \cup HttpExternalUnverifiable(file)
                \cup HttpRedirectTo404(file) \cup HttpNoHttps(file) :
        j.rule \notin {"HTTP-REDIRECT-CHAIN", "HTTP-REDIRECT-LOOP"}
  BY DEF Http404Internal, Http404External, HttpExternalUnverifiable, ByLinks, HttpRedirectTo404, HttpNoHttps, HttpFinding, Finding
<1>7. i \in HttpSiteRules(file) <=> \/ i \in Http404Internal(file) \cup Http404External(file) \cup HttpExternalUnverifiable(file)
                                              \cup HttpRedirectTo404(file) \cup HttpNoHttps(file)
                                    \/ i \in HttpRedirectChain(file) \/ i \in HttpRedirectLoop(file)
  BY DEF HttpSiteRules
<1>8. i \in DOMAIN issues /\ i.rule = "HTTP-REDIRECT-CHAIN" <=> i \in HttpSiteRules(file) /\ i.rule = "HTTP-REDIRECT-CHAIN"
  BY <1>1, <1>2, <1>3, InIssues
<1>9. i \in DOMAIN issues /\ i.rule = "HTTP-REDIRECT-LOOP" <=> i \in HttpSiteRules(file) /\ i.rule = "HTTP-REDIRECT-LOOP"
  BY <1>1, <1>2, <1>3, InIssues
<1> QED
  BY <1>4, <1>5, <1>6, <1>7, <1>8, <1>9

LEMMA DiscoversSomething ==
  ASSUME NEW u
  PROVE  No \notin Discovered(site, u)
<1> DEFINE d == site.docs[u]
<1>1. ASSUME NEW row PROVE OnlyRow(row).links = {}
  BY DEF OnlyRow
<1>2. \A l \in LinkRows(site, u, d) : l.to # No
  BY DEF LinkRows
<1>3. \A l \in BuildResult(site, u).links : l.to # No
  <2>1. CASE Excluded(site, u)
    BY <1>1, <2>1 DEF BuildResult
  <2>2. CASE ~Excluded(site, u) /\ d.error # NoText
    BY <1>1, <2>2 DEF BuildResult
  <2>3. CASE ~Excluded(site, u) /\ d.error = NoText
    <3>1. BuildResult(site, u).links = IF HasPage(d) THEN LinkRows(site, u, d) ELSE {}
      BY <2>3 DEF BuildResult
    <3> QED
      BY <1>2, <3>1
  <2> QED
    BY <2>1, <2>2, <2>3
<1> QED
  BY <1>3 DEF Discovered

LEMMA ProbesLeadNowhere ==
  ASSUME NEW u, "location" \in DOMAIN site.docs[u]
  PROVE  UrlRow(site, u, "skipped", [site.docs[u] EXCEPT !.location = No]).next = No
<1> DEFINE d == [site.docs[u] EXCEPT !.location = No]
<1>1. d.location = No
  OBVIOUS
<1> HIDE DEF d
<1>2. UrlRow(site, u, "skipped", d).next = No
  BY <1>1 DEF UrlRow
<1> QED
  BY <1>2 DEF d

(* A row's redirect is to a row, whatever adds rows, and each row has the  *)
(* number of its turn.                                                     *)
RedirectsKept ==
  /\ RedirectsLand(file)
  /\ "ids" \in DOMAIN file /\ DOMAIN file.ids = Rows(file) /\ \A u \in Rows(file) : file.ids[u] \in Nat

LEMMA NewIdsAre ==
  ASSUME NEW n \in Nat, NEW us, IsFiniteSet(us)
  PROVE  DOMAIN NewIds(n, us) = us /\ \A u \in us : NewIds(n, us)[u] \in Nat
<1> SUFFICES ASSUME NEW u \in us PROVE n + Cardinality({v \in us : v <= u}) \in Nat
  BY DEF NewIds
<1> DEFINE below == {v \in us : v <= u}
<1>1. below \subseteq us
  OBVIOUS
<1> HIDE DEF below
<1>2. Cardinality(below) \in Nat
  BY <1>1, FS_Subset, FS_CardinalityType
<1> QED
  BY <1>2 DEF below

LEMMA UnfetchedLeadNowhere ==
  ASSUME NEW u
  PROVE  PendingRow(site, u).next = No /\ SkippedRow(site, u).next = No
<1>1. Unfetched.status = 0 /\ ~Is3xx(0)
  BY DEF Unfetched, Is3xx
<1>2. UrlRow(site, u, "skipped", Unfetched).next = No /\ UrlRow(site, u, "pending", Unfetched).next = No
  BY <1>1 DEF UrlRow
<1> QED
  BY <1>2 DEF PendingRow, SkippedRow, UrlRow

LEMMA RedirectsInit == Init => RedirectsKept
<1> SUFFICES ASSUME Init PROVE RedirectsKept
  OBVIOUS
<1> DEFINE S == site.seeds
           T == site.inSitemap \ site.seeds
<1>1. file = EmptyFile(site) /\ site \in Sites
  BY DEF Init
<1>2. /\ file.urls = [u \in site.seeds \cup site.inSitemap |-> PendingRow(site, u)]
      /\ "ids" \in DOMAIN file /\ file.ids = Upsert(NewIds(0, S), NewIds(Cardinality(S), T))
  BY <1>1 DEF EmptyFile
<1>3. Rows(file) = site.seeds \cup site.inSitemap /\ IsFiniteSet(Rows(file)) /\ No \notin Rows(file)
  BY <1>1, <1>2, AuditAssumption DEF Rows
<1>4. Redirects(file) = {}
  BY <1>2, <1>3, UnfetchedLeadNowhere DEF Redirects
<1>5. IsFiniteSet(S) /\ IsFiniteSet(T) /\ Cardinality(S) \in Nat
  BY <1>3, FS_Subset, FS_CardinalityType
<1> DEFINE a == NewIds(0, S)
           b == NewIds(Cardinality(S), T)
<1>6. DOMAIN a = S /\ DOMAIN b = T /\ (\A u \in S : a[u] \in Nat) /\ \A u \in T : b[u] \in Nat
  BY <1>5, NewIdsAre
<1> HIDE DEF a, b
<1>7. DOMAIN file.ids = Rows(file)
  BY <1>2, <1>3, <1>6 DEF a, b, Upsert
<1>8. ASSUME NEW u \in Rows(file) PROVE file.ids[u] \in Nat
  BY <1>2, <1>3, <1>6 DEF a, b, Upsert
<1> QED
  BY <1>2, <1>3, <1>4, <1>7, <1>8 DEF RedirectsKept, RedirectsLand

LEMMA RedirectsSave ==
  ASSUME FileKept, PlaceKept, RedirectsKept, Save
  PROVE  RedirectsKept'
<1>1. PICK u \in Pending(file) : file' = Saved(site, file, u)
  BY DEF Save
<1> DEFINE r == BuildResult(site, u)
           new == Discovered(site, u) \ Rows(file)
           rows == [v \in new |-> IF InScope(site, v) /\ site.mode # "list" THEN PendingRow(site, v) ELSE SkippedRow(site, v)]
           more == NewIds(Cardinality(Rows(file)), new)
<1>2. site' = site /\ site \in Sites
  BY DEF Save, FileKept
<1>3. /\ u \in DOMAIN site.docs /\ u \in Rows(file)
      /\ file'.urls = Upsert([v \in {u} |-> r.url], Upsert(file.urls, rows))
  BY <1>1, SavedKeeps
<1>4. "ids" \in DOMAIN file' /\ file'.ids = Upsert(file.ids, more)
  BY <1>1 DEF Saved, RedirectsKept
<1>5. IsFiniteSet(Discovered(site, u)) /\ IsFiniteSet(Rows(file)) /\ IsFiniteSet(new) /\ Cardinality(Rows(file)) \in Nat
  BY <1>2, <1>3, AuditAssumption, FS_Subset, FS_CardinalityType DEF PlaceKept, LinksLand
<1>6. No \notin Discovered(site, u)
  BY <1>2, <1>3, DiscoversSomething
<1>7. /\ DOMAIN more = new /\ \A v \in new : more[v] \in Nat
  BY <1>5, NewIdsAre
<1>8. \A v \in new : rows[v].next = No
  BY UnfetchedLeadNowhere
<1>9. r.url.next = No \/ r.url.next \in Discovered(site, u)
  BY DEF Discovered
<1>10. DOMAIN rows = new
  OBVIOUS
<1> HIDE DEF rows, more
<1>11. Rows(file') = Rows(file) \cup Discovered(site, u)
  BY <1>3, <1>10 DEF Upsert, Rows
<1>12. IsFiniteSet(Rows(file')) /\ No \notin Rows(file')
  BY <1>5, <1>6, <1>11, FS_Union DEF RedirectsKept, RedirectsLand
<1>13. ASSUME NEW v \in Redirects(file') PROVE file'.urls[v].next \in Rows(file')
  <2>0. v \in Rows(file') /\ file'.urls[v].next # No
    BY DEF Redirects
  <2>1. CASE v = u
    <3>1. file'.urls[v] = r.url
      BY <1>3, <2>0, <2>1 DEF Upsert, Rows
    <3> QED
      BY <1>9, <1>11, <2>0, <3>1
  <2>2. CASE v # u /\ v \in Rows(file)
    <3>1. file'.urls[v] = file.urls[v]
      BY <1>3, <2>0, <2>2 DEF Upsert, Rows
    <3> QED
      BY <1>11, <2>0, <2>2, <3>1 DEF RedirectsKept, RedirectsLand, Redirects
  <2>3. CASE v # u /\ v \in new
    <3>1. file'.urls[v] = rows[v]
      BY <1>3, <1>10, <2>0, <2>3 DEF Upsert, Rows
    <3> QED
      BY <1>8, <2>0, <2>3, <3>1
  <2> QED
    BY <1>3, <1>11, <2>0, <2>1, <2>2, <2>3
<1>14. DOMAIN file'.ids = Rows(file')
  BY <1>4, <1>7, <1>11 DEF Upsert, RedirectsKept
<1>15. ASSUME NEW v \in Rows(file') PROVE file'.ids[v] \in Nat
  <2>1. file'.ids[v] = IF v \in Rows(file) THEN file.ids[v] ELSE more[v]
    BY <1>4, <1>7, <1>14 DEF Upsert, RedirectsKept
  <2>2. v \in Rows(file) \/ v \in new
    BY <1>11
  <2> QED
    BY <1>7, <2>1, <2>2 DEF RedirectsKept
<1> QED
  BY <1>4, <1>12, <1>13, <1>14, <1>15 DEF RedirectsKept, RedirectsLand

LEMMA RedirectsProbe ==
  ASSUME RedirectsKept, FileKept, Probe
  PROVE  RedirectsKept'
<1>1. PICK u \in Unprobed(site, file) :
        LET d == site.docs[u] IN
        file' = [file EXCEPT !.urls[u] = UrlRow(site, u, "skipped", [d EXCEPT !.location = No]),
                             !.resources = Upsert(ResourceRows(site, u, d), @)]
  BY DEF Probe
<1> DEFINE row == UrlRow(site, u, "skipped", [site.docs[u] EXCEPT !.location = No])
<1>2. u \in Rows(file) /\ u \in DOMAIN site.docs
  BY DEF Unprobed
<1>3. row.next = No
  BY <1>2, AuditAssumption, ProbesLeadNowhere DEF FileKept
<1>4. /\ file'.urls = [file.urls EXCEPT ![u] = row]
      /\ "ids" \in DOMAIN file' /\ file'.ids = file.ids
  BY <1>1 DEF FileKept, FileFields, RedirectsKept
<1> HIDE DEF row
<1>5. Rows(file') = Rows(file)
  BY <1>4 DEF Rows
<1>6. \A v \in Redirects(file') : v \in Redirects(file) /\ file'.urls[v] = file.urls[v]
  BY <1>2, <1>3, <1>4, <1>5 DEF Redirects, Rows
<1> QED
  BY <1>4, <1>5, <1>6 DEF RedirectsKept, RedirectsLand

LEMMA RecordedRedirects ==
  ASSUME RedirectsKept, FileKept
  PROVE  LET g == Recorded(site, file) IN
         FileFields \subseteq DOMAIN g /\ "ids" \in DOMAIN g /\ g.urls = file.urls /\ g.ids = file.ids
  BY DEF RedirectsKept, FileKept, FileFields, Recorded

LEMMA RedirectsStepKeeps ==
  ASSUME AuditInv, PlaceKept, RedirectsKept, [Next]_vars
  PROVE  RedirectsKept'
<1>0. FileKept
  BY DEF AuditInv
<1> DEFINE g == Recorded(site, file)
<1>r. FileFields \subseteq DOMAIN g /\ "ids" \in DOMAIN g /\ g.urls = file.urls /\ g.ids = file.ids
  BY <1>0, RecordedRedirects
<1> HIDE DEF g
<1>k. ASSUME file'.urls = file.urls, file'.ids = file.ids, "ids" \in DOMAIN file' PROVE RedirectsKept'
  BY <1>k DEF RedirectsKept, RedirectsLand, Redirects, Rows
<1>1. CASE Save
  BY <1>0, <1>1, RedirectsSave
<1>2. CASE Probe
  BY <1>0, <1>2, RedirectsProbe
<1>3. CASE Finalize
  <2>1. file' = Counted(g)
    BY <1>3 DEF Finalize, g
  <2>2. file'.urls = g.urls /\ file'.ids = g.ids /\ "ids" \in DOMAIN file'
    BY <1>r, <2>1 DEF Counted, FileFields
  <2> QED
    BY <1>k, <1>r, <2>2
<1>4. CASE Pause
  BY <1>4, <1>k, <1>r DEF Pause, g
<1>5. CASE UNCHANGED file
  BY <1>5, <1>k DEF RedirectsKept
<1> QED
  BY <1>1, <1>2, <1>3, <1>4, <1>5 DEF Next, Over, EvaluateRule, Done, Crash, Resume, vars

LEMMA RedirectsAreTold == AuditInv /\ RedirectsKept => RedirectsToldOnce
<1> SUFFICES ASSUME AuditInv, RedirectsKept, status = "done", Cardinality(Redirects(file)) <= MaxRedirectHops
             PROVE  /\ \A u \in ChainHeads(file) :
                         Told("HTTP-REDIRECT-CHAIN", u) <=> (LoopOf(file, u) = {} /\ file.urls[u].next \in Redirects(file))
                    /\ \A u \in Redirects(file) :
                         LoopOf(file, u) # {} =>
                           Cardinality({i \in DOMAIN issues : i.rule = "HTTP-REDIRECT-LOOP" /\ i.url \in LoopOf(file, u)}) = 1
  BY DEF RedirectsToldOnce
<1>1. RedirectsLand(file) /\ \A u \in Rows(file) : file.ids[u] \in Nat
  BY DEF RedirectsKept
<1>2. \A i : i \in DOMAIN issues /\ i.rule = "HTTP-REDIRECT-CHAIN" <=> i \in HttpRedirectChain(file)
  BY RedirectsInIssues
<1>3. \A i : i \in DOMAIN issues /\ i.rule = "HTTP-REDIRECT-LOOP" <=> i \in HttpRedirectLoop(file)
  BY RedirectsInIssues
<1>4. ASSUME NEW u \in ChainHeads(file)
      PROVE  Told("HTTP-REDIRECT-CHAIN", u) <=> (LoopOf(file, u) = {} /\ file.urls[u].next \in Redirects(file))
  <2>1. Told("HTTP-REDIRECT-CHAIN", u) <=> \E i \in HttpRedirectChain(file) : i.url = u
    BY <1>2 DEF Told
  <2> QED
    BY <1>1, <2>1, ChainToldIs
<1>5. ASSUME NEW u \in Redirects(file), LoopOf(file, u) # {}
      PROVE  Cardinality({i \in DOMAIN issues : i.rule = "HTTP-REDIRECT-LOOP" /\ i.url \in LoopOf(file, u)}) = 1
  <2>1. {i \in DOMAIN issues : i.rule = "HTTP-REDIRECT-LOOP" /\ i.url \in LoopOf(file, u)}
        = {i \in HttpRedirectLoop(file) : i.url \in LoopOf(file, u)}
    BY <1>3
  <2> QED
    BY <1>1, <1>5, <2>1, LoopToldOnce
<1> QED
  BY <1>4, <1>5

-----------------------------------------------------------------------------
(* Each rule finds finitely many things.                                   *)

(* T has no more than one element for each of S.                           *)
Covers(F, S, T) == T \subseteq {F[x] : x \in S}

LEMMA Covered ==
  ASSUME NEW F, NEW S, NEW T, IsFiniteSet(S), Covers(F, S, T)
  PROVE  IsFiniteSet(T)
<1> DEFINE U == {F[x] : x \in S}
           g == [x \in S |-> F[x]]
<1>1. g \in Surjection(S, U)
  BY DEF Surjection
<1>2. IsFiniteSet(U)
  <2> HIDE DEF U, g
  <2> QED
    BY <1>1, FS_Surjection
<1> QED
  BY <1>2, FS_Subset DEF Covers

(* At most one finding at each of some URLs.                               *)
OneAtEach(T, us) == /\ \A i \in T : i.url \in us
                    /\ \A i, j \in T : i.url = j.url => i = j

LEMMA OneAtEachIsFinite ==
  ASSUME NEW T, NEW us, IsFiniteSet(us), OneAtEach(T, us)
  PROVE  IsFiniteSet(T)
<1> DEFINE F == [u \in us |-> CHOOSE i \in T : i.url = u]
<1>1. ASSUME NEW i \in T PROVE F[i.url] = i /\ i.url \in us
  BY DEF OneAtEach
<1>2. Covers(F, us, T)
  <2> HIDE DEF F
  <2> QED
    BY <1>1 DEF Covers
<1> QED
  BY <1>2, Covered

AtMostOne(T) == \A i, j \in T : i = j
LEMMA AtMostOneIsFinite ==
  ASSUME NEW T, AtMostOne(T)
  PROVE  IsFiniteSet(T)
<1>1. T = {} \/ \E x : T = {x}
  BY DEF AtMostOne
<1> QED
  BY <1>1, FS_EmptySet, FS_Singleton

(* A file of finitely many rows.                                           *)
FiniteFile(f) ==
  /\ LinksLand(f)  /\ IsFiniteSet(f.links)  /\ Pages(f) \subseteq Rows(f)
  /\ IsFiniteSet(DOMAIN f.robots)  /\ IsFiniteSet(f.sitemaps)
  /\ \A u \in Pages(f) : IsFiniteSet(f.pages[u].images) /\ IsFiniteSet(f.pages[u].alternates)

LEMMA PageRulesAreFinite ==
  ASSUME NEW f, NEW u, IsFiniteSet(f.pages[u].images), IsFiniteSet(f.pages[u].alternates)
  PROVE  IsFiniteSet(PageRules(f, u))
<1>1. IsFiniteSet(IndexPageRules(f, u))
  <2>1. AtMostOne(Noindex(f, u)) /\ AtMostOne(NofollowInternal(f, u))
    BY DEF AtMostOne, Noindex, NofollowInternal
  <2> QED
    BY <2>1, AtMostOneIsFinite, FS_Union DEF IndexPageRules
<1>2. IsFiniteSet(HttpPageRules(f, u))
  <2>1. /\ AtMostOne(Http5xx(f, u)) /\ AtMostOne(HttpMixedContent(f, u))
        /\ AtMostOne(HttpSlowResponse(f, u)) /\ AtMostOne(HttpLargePage(f, u))
    BY DEF AtMostOne, Http5xx, HttpMixedContent, HttpSlowResponse, HttpLargePage
  <2> QED
    BY <2>1, AtMostOneIsFinite, FS_Union DEF HttpPageRules
<1>3. IsFiniteSet(MetaPageRules(f, u))
  <2>1. /\ AtMostOne(MetaTitleMissing(f, u)) /\ AtMostOne(MetaTitleTooLong(f, u))
        /\ AtMostOne(MetaTitleTooShort(f, u)) /\ AtMostOne(MetaTitleMultiple(f, u))
        /\ AtMostOne(MetaDescMissing(f, u)) /\ AtMostOne(MetaDescTooLong(f, u)) /\ AtMostOne(MetaDescTooShort(f, u))
        /\ AtMostOne(MetaViewportMissing(f, u)) /\ AtMostOne(MetaRefresh(f, u)) /\ AtMostOne(MetaOutsideHead(f, u))
    <3>1. \A condition, r, d : AtMostOne(When(condition, r, u, d))
      BY DEF AtMostOne, When
    <3>2. AtMostOne(MetaOutsideHead(f, u))
      BY DEF AtMostOne, MetaOutsideHead
    <3> QED
      BY <3>1, <3>2
      DEF MetaTitleMissing, MetaTitleTooLong, MetaTitleTooShort, MetaTitleMultiple, MetaDescMissing, MetaDescTooLong,
          MetaDescTooShort, MetaViewportMissing, MetaRefresh
  <2> QED
    BY <2>1, AtMostOneIsFinite, FS_Union DEF MetaPageRules
<1>4. IsFiniteSet(CanonPageRules(f, u))
  <2>1. /\ AtMostOne(CanonMissing(f, u)) /\ AtMostOne(CanonMultiple(f, u))
        /\ AtMostOne(CanonRelative(f, u)) /\ AtMostOne(CanonCrossDomain(f, u))
    BY DEF AtMostOne, CanonMissing, CanonMultiple, CanonRelative, CanonCrossDomain
  <2> QED
    BY <2>1, AtMostOneIsFinite, FS_Union DEF CanonPageRules
<1>5. IsFiniteSet(ContentPageRules(f, u))
  <2>1. \A r, condition, d, g : AtMostOne(OnIndexable(f, u, r, condition, d, g))
    BY DEF AtMostOne, OnIndexable
  <2>2. /\ AtMostOne(ContentH1Missing(f, u)) /\ AtMostOne(ContentH1Multiple(f, u)) /\ AtMostOne(ContentH1Empty(f, u))
        /\ AtMostOne(ContentHeadingSkip(f, u)) /\ AtMostOne(ContentThin(f, u)) /\ AtMostOne(ContentLangMissing(f, u))
    BY <2>1 DEF ContentH1Missing, ContentH1Multiple, ContentH1Empty, ContentHeadingSkip, ContentThin, ContentLangMissing
  <2> QED
    BY <2>2, AtMostOneIsFinite, FS_Union DEF ContentPageRules
<1>6. IsFiniteSet(AssetPageRules(f, u))
  <2>1. AtMostOne(AssetImgNoAlt(f, u))
    BY DEF AtMostOne, AssetImgNoAlt
  <2> DEFINE mute == {i \in ImagesShown(f, u) : i.alt = "blank" /\ i.anchor = "blank"}
             F == [i \in mute |-> Finding("ASSET-IMG-EMPTY-ALT-LINK", "high", u, Cardinality({j \in mute : j.src = i.src}),
                                          <<"img-empty-alt", {i.src}>>)]
  <2>2. IsFiniteSet(mute)
    <3>1. ImagesShown(f, u) = {} \/ ImagesShown(f, u) = f.pages[u].images
      BY DEF ImagesShown
    <3>2. IsFiniteSet(ImagesShown(f, u))
      BY <3>1, FS_EmptySet
    <3> QED
      BY <3>2, FS_Subset
  <2>3. Covers(F, mute, AssetImgEmptyAltLink(f, u))
    BY Zenon DEF Covers, AssetImgEmptyAltLink
  <2> HIDE DEF mute, F
  <2>4. IsFiniteSet(AssetImgEmptyAltLink(f, u))
    BY <2>2, <2>3, Covered
  <2> QED
    BY <2>1, <2>4, AtMostOneIsFinite, FS_Union DEF AssetPageRules
<1>7. IsFiniteSet(HreflangPageRules(f, u))
  <2>1. AtMostOne(HreflangNoSelf(f, u)) /\ AtMostOne(HreflangLangMismatch(f, u)) /\ AtMostOne(HreflangSelfOnly(f, u))
    BY DEF AtMostOne, HreflangNoSelf, HreflangLangMismatch, HreflangSelfOnly
  <2> DEFINE F == [a \in f.pages[u].alternates |-> HreflangFinding("HREFLANG-INVALID-CODE", u, 0, <<"hreflang-code", {a.code}>>)]
  <2>2. Covers(F, f.pages[u].alternates, HreflangInvalidCode(f, u))
    BY DEF Covers, HreflangInvalidCode
  <2> HIDE DEF F
  <2>3. IsFiniteSet(HreflangInvalidCode(f, u))
    BY <2>2, Covered
  <2> QED
    BY <2>1, <2>3, AtMostOneIsFinite, FS_Union DEF HreflangPageRules
<1>8. IsFiniteSet(SocialOgMissing(f, u))
  <2>1. AtMostOne(SocialOgMissing(f, u))
    BY DEF AtMostOne, SocialOgMissing
  <2> QED
    BY <2>1, AtMostOneIsFinite
<1>9. IsFiniteSet(LinkPageRules(f, u))
  <2>1. AtMostOne(LinkAnchorEmpty(f, u)) /\ AtMostOne(LinkAnchorGeneric(f, u))
    BY DEF AtMostOne, LinkAnchorEmpty, LinkAnchorGeneric
  <2> QED
    BY <2>1, AtMostOneIsFinite, FS_Union DEF LinkPageRules
<1> QED
  BY <1>1, <1>2, <1>3, <1>4, <1>5, <1>6, <1>7, <1>8, <1>9, FS_Union DEF PageRules

LEMMA SiteRulesAreFinite ==
  ASSUME NEW f, FiniteFile(f), NEW n \in 1..NRules
  PROVE  IsFiniteSet(SiteRule(f, n))
<1>a. IsFiniteSet(Rows(f)) /\ IsFiniteSet(f.links) /\ IsFiniteSet(Pages(f)) /\ Pages(f) \subseteq Rows(f)
  BY FS_Subset DEF FiniteFile, LinksLand
<1>b. Indexable(f) \subseteq Rows(f) /\ Internal(f) \subseteq Rows(f)
  BY <1>a DEF Indexable, Internal
<1>c. \A r, us : us \subseteq Rows(f) => OneAtEach(OnUrls(r, us), Rows(f))
  BY DEF OneAtEach, OnUrls, Finding
<1>d. \A r, us : us \subseteq Rows(f) => IsFiniteSet(OnUrls(r, us))
  BY <1>a, <1>c, OneAtEachIsFinite
<1>1. CASE n = 1
  <2>1. OneAtEach(DeepPage(f), Rows(f))
    BY <1>b DEF OneAtEach, DeepPage, Finding
  <2> QED
    BY <1>1, <1>a, <2>1, OneAtEachIsFinite DEF SiteRule
<1>2. CASE n = 2
  <2>1. AtMostOne(SectionDisconnected(f))
    BY DEF AtMostOne, SectionDisconnected
  <2> QED
    BY <1>2, <2>1, AtMostOneIsFinite DEF SiteRule
<1>3. CASE n = 3
  BY <1>3, <1>b, <1>d DEF SiteRule, NoInternalLinksIn
<1>4. CASE n = 4
  BY <1>4, <1>d DEF SiteRule, BlockedInSitemap, InSitemap
<1>5. CASE n = 5
  BY <1>5, <1>d DEF SiteRule, NoindexInSitemap, InSitemap
<1>6. CASE n = 6
  <2>1. AtMostOne(SitemapMissing(f))
    BY DEF AtMostOne, SitemapMissing
  <2> QED
    BY <1>6, <2>1, AtMostOneIsFinite DEF SiteRule
<1>7. CASE n = 7
  BY <1>7, <1>b, <1>d DEF SiteRule, OrphanPage
<1>8. CASE n = 8
  <2>1. AtMostOne(RobotsTxtMissing(f, SomeHost(f)))
    BY DEF AtMostOne, RobotsTxtMissing
  <2> QED
    BY <1>8, <2>1, AtMostOneIsFinite DEF SiteRule
<1>9. CASE n = 9
  <2> DEFINE F == [h \in DOMAIN f.robots |-> OnSite("INDEX-ROBOTS-TXT-BLOCKS-ALL", 0, <<"host", {h}>>)]
  <2>1. Covers(F, DOMAIN f.robots, RobotsTxtBlocksAll(f))
    BY DEF Covers, RobotsTxtBlocksAll
  <2> HIDE DEF F
  <2> QED
    BY <1>9, <2>1, Covered DEF SiteRule, FiniteFile
<1>10. CASE n = 10
  <2> DEFINE F == [s \in f.sitemaps |-> OnSite("INDEX-SITEMAP-ERROR", s.id, <<"sitemap-error", {SitemapReason(s)}>>)]
  <2>1. Covers(F, f.sitemaps, SitemapError(f))
    BY DEF Covers, SitemapError
  <2> HIDE DEF F
  <2> QED
    BY <1>10, <2>1, Covered DEF SiteRule, FiniteFile
<1>11. CASE n = 11
  <2> DEFINE from(u) == {l.from : l \in {k \in f.links : k.to = u}}
             F == [u \in Rows(f) |-> Finding("INDEX-ROBOTS-BLOCKED", "critical", u, Cardinality(from(u)), NoGroup)]
  <2>1. Covers(F, Rows(f), RobotsBlocked(f))
    BY <1>b, Zenon DEF Covers, RobotsBlocked
  <2> HIDE DEF F
  <2> QED
    BY <1>11, <1>a, <2>1, Covered DEF SiteRule
<1>12. CASE n = 12
  <2>1. \A r, us : us \subseteq Rows(f) => OneAtEach(ByLinks(f, r, us), Rows(f))
    BY DEF OneAtEach, ByLinks, HttpFinding, Finding
  <2>2. \A r, us : us \subseteq Rows(f) => IsFiniteSet(ByLinks(f, r, us))
    BY <1>a, <2>1, OneAtEachIsFinite
  <2>3. IsFiniteSet(Http404Internal(f))
    BY <1>b, <2>2 DEF Http404Internal
  <2>4. IsFiniteSet(Http404External(f))
    BY <2>2 DEF Http404External
  <2>5. IsFiniteSet(HttpExternalUnverifiable(f))
    BY <2>2 DEF HttpExternalUnverifiable
  <2>6. IsFiniteSet(HttpRedirectChain(f))
    <3>1. OneAtEach(HttpRedirectChain(f), Rows(f))
      BY DEF OneAtEach, HttpRedirectChain, ChainHeads, Redirects, HttpFinding, Finding
    <3> QED
      BY <1>a, <3>1, OneAtEachIsFinite
  <2>7. IsFiniteSet(HttpRedirectTo404(f))
    <3>1. OneAtEach(HttpRedirectTo404(f), Rows(f))
      BY DEF OneAtEach, HttpRedirectTo404, ChainHeads, Redirects, HttpFinding, Finding
    <3> QED
      BY <1>a, <3>1, OneAtEachIsFinite
  <2>8. IsFiniteSet(HttpRedirectLoop(f))
    <3> DEFINE least(c) == CHOOSE u \in c : \A v \in c : f.ids[u] <= f.ids[v]
               of(c) == Finding("HTTP-REDIRECT-LOOP", "critical", least(c), Cardinality(c), <<"redirect-loop", {least(c)}>>)
               F == [u \in Rows(f) |-> of(Cycle(f, Walk(f, u)))]
               cycles == {Cycle(f, Walk(f, u)) : u \in {v \in Redirects(f) : Walk(f, v).end = "loop"}}
    <3>1. HttpRedirectLoop(f) = {of(c) : c \in cycles}
      BY Zenon DEF HttpRedirectLoop
    <3>2. \A c \in cycles : \E u \in Rows(f) : c = Cycle(f, Walk(f, u))
      BY DEF Redirects
    <3>3. Covers(F, Rows(f), HttpRedirectLoop(f))
      <4> HIDE DEF of, cycles
      <4> QED
        BY <3>1, <3>2 DEF Covers
    <3> HIDE DEF F
    <3> QED
      BY <1>a, <3>3, Covered
  <2>9. IsFiniteSet(HttpNoHttps(f))
    <3>1. AtMostOne(HttpNoHttps(f))
      BY DEF AtMostOne, HttpNoHttps
    <3> QED
      BY <3>1, AtMostOneIsFinite
  <2>10. IsFiniteSet(HttpSiteRules(f))
    BY <2>3, <2>4, <2>5, <2>6, <2>7, <2>8, <2>9, FS_Union DEF HttpSiteRules
  <2> QED
    BY <1>12, <2>10 DEF SiteRule
<1>13. CASE n = 13
  <2>1. OneAtEach(MetaTitleDuplicate(f), Rows(f))
    <3> DEFINE of(u, t) == Finding("META-TITLE-DUPLICATE", IF OneSeries(f, Titled(f, t)) THEN "low" ELSE "high", u,
                                   Cardinality(Titled(f, t)), <<"title", {t}>>)
    <3>1. \A i \in MetaTitleDuplicate(f) : \E t : \E u \in Titled(f, t) : i = of(u, t)
      BY DEF MetaTitleDuplicate
    <3>2. \A t : \A u \in Titled(f, t) : u \in Rows(f) /\ f.pages[u].title.text = t
      BY <1>b DEF Titled
    <3>3. \A u, t : of(u, t).url = u
      BY DEF Finding
    <3> HIDE DEF of
    <3> QED
      BY <3>1, <3>2, <3>3 DEF OneAtEach
  <2> DEFINE same(u) == {v \in Indexable(f) : f.pages[v].desc.text = f.pages[u].desc.text}
             F == [u \in Rows(f) |->
                    Finding("META-DESC-DUPLICATE", "medium", u, Cardinality(same(u)), <<"desc", {f.pages[u].desc.text}>>)]
  <2>2. Covers(F, Rows(f), MetaDescDuplicate(f))
    BY <1>b, Zenon DEF Covers, MetaDescDuplicate
  <2> HIDE DEF F
  <2>3. IsFiniteSet(MetaDescDuplicate(f))
    BY <1>a, <2>2, Covered
  <2>4. IsFiniteSet(MetaSiteRules(f))
    BY <1>a, <2>1, <2>3, OneAtEachIsFinite, FS_Union DEF MetaSiteRules
  <2> QED
    BY <1>13, <2>4 DEF SiteRule
<1>14. CASE n = 14
  <2>1. \A r, us : us \subseteq Rows(f) => OneAtEach(OfTargets(f, r, us), Rows(f))
    BY DEF OneAtEach, OfTargets, CanonFinding, Finding
  <2>2. \A r, us : us \subseteq Rows(f) => IsFiniteSet(OfTargets(f, r, us))
    BY <1>a, <2>1, OneAtEachIsFinite
  <2>3. Canonicalised(f) \subseteq Rows(f)
    BY <1>a DEF Canonicalised
  <2>4. IsFiniteSet(CanonToError(f)) /\ IsFiniteSet(CanonToNoindex(f))
    BY <2>2, <2>3 DEF CanonToError, CanonToNoindex
  <2>5. IsFiniteSet(CanonChain(f)) /\ IsFiniteSet(CanonToRedirect(f))
    BY <2>2, <2>3 DEF CanonChain, CanonToRedirect
  <2>6. IsFiniteSet(DupContentExact(f))
    <3> DEFINE same(u) == {v \in Indexable(f) : f.pages[v].hash = f.pages[u].hash}
               F == [u \in Rows(f) |->
                      Finding("DUP-CONTENT-EXACT", "high", u, Cardinality(same(u)), <<"html", {f.pages[u].hash}>>)]
    <3>1. Covers(F, Rows(f), DupContentExact(f))
      BY <1>b, Zenon DEF Covers, DupContentExact
    <3> HIDE DEF F
    <3> QED
      BY <1>a, <3>1, Covered
  <2>7. IsFiniteSet(DupContentNear(f))
    <3> DEFINE group(r) == {u \in Signed(f) : NearParents(f)[u] = r}
               of(u, r) == Finding("DUP-CONTENT-NEAR", "medium", u, Cardinality(group(r)), <<"text", {Head(f.pages[r].signature)}>>)
               F == [u \in Rows(f) |-> of(u, NearParents(f)[u])]
               told == {r \in Signed(f) : Cardinality({f.pages[u].hash : u \in group(r)}) > 1}
    <3>1. DupContentNear(f) = UNION {{of(u, r) : u \in group(r)} : r \in told}
      BY Zenon DEF DupContentNear
    <3>2. \A r : \A u \in group(r) : u \in Rows(f) /\ NearParents(f)[u] = r
      BY <1>b DEF Signed
    <3>3. Covers(F, Rows(f), DupContentNear(f))
      <4> HIDE DEF of, group, told
      <4> QED
        BY <3>1, <3>2 DEF Covers
    <3> HIDE DEF F
    <3> QED
      BY <1>a, <3>3, Covered
  <2>8. IsFiniteSet(CanonSiteRules(f))
    BY <2>4, <2>5, <2>6, <2>7, FS_Union DEF CanonSiteRules
  <2> QED
    BY <1>14, <2>8 DEF SiteRule
<1>15. CASE n = 15
  <2>1. OneAtEach(AssetImgBroken(f), Rows(f)) /\ OneAtEach(AssetImgHeavy(f), Rows(f))
    BY DEF OneAtEach, AssetImgBroken, AssetImgHeavy, AssetFinding, Finding
  <2>2. \A r, kind : OneAtEach(HeavyResource(f, r, kind), Rows(f))
    BY <1>b DEF OneAtEach, HeavyResource, AssetFinding, Finding
  <2>3. \A r, e : OneAtEach(BrokenEmbed(f, r, e), Rows(f))
    BY <1>b DEF OneAtEach, BrokenEmbed, AssetFinding, Finding
  <2>4. IsFiniteSet(AssetBroken(f))
    <3> DEFINE each(e) == {Finding("ASSET-BROKEN", "high", u, Cardinality(UsingPages(f, u, e)), <<"kind", {e}>>) :
                             u \in {v \in Rows(f) : UsingPages(f, v, e) # {} /\ AssetGone(f, v)}}
    <3>1. AssetBroken(f) = each("link") \cup each("script")
      BY DEF AssetBroken
    <3>2. ASSUME NEW e PROVE OneAtEach(each(e), Rows(f))
      BY DEF OneAtEach, Finding
    <3> HIDE DEF each
    <3> QED
      BY <1>a, <3>1, <3>2, OneAtEachIsFinite, FS_Union
  <2>5. IsFiniteSet(AssetImgBroken(f)) /\ IsFiniteSet(AssetImgHeavy(f))
    BY <1>a, <2>1, OneAtEachIsFinite
  <2>6. /\ IsFiniteSet(HeavyResource(f, "ASSET-JS-HEAVY", "js")) /\ IsFiniteSet(HeavyResource(f, "ASSET-CSS-HEAVY", "css"))
        /\ IsFiniteSet(BrokenEmbed(f, "ASSET-IFRAME-BROKEN", "iframe")) /\ IsFiniteSet(BrokenEmbed(f, "ASSET-FORM-BROKEN", "form"))
    BY <1>a, <2>2, <2>3, OneAtEachIsFinite
  <2>7. IsFiniteSet(AssetSiteRules(f))
    BY <2>4, <2>5, <2>6, FS_Union DEF AssetSiteRules
  <2> QED
    BY <1>15, <2>7 DEF SiteRule
<1>16. CASE n = 16
  <2>1. ASSUME NEW S, IsFiniteSet(S), NEW F, \A u \in S : IsFiniteSet(F[u])
        PROVE  IsFiniteSet(UNION {F[u] : u \in S})
    <3> DEFINE T == {F[u] : u \in S}
    <3>1. Covers(F, S, T)
      BY DEF Covers
    <3>2. \A t \in T : IsFiniteSet(t)
      BY <2>1
    <3> HIDE DEF T
    <3>3. IsFiniteSet(UNION T)
      BY <2>1, <3>1, <3>2, Covered, FS_UNION
    <3> QED
      BY <3>3 DEF T
  <2>2. IsFiniteSet(HreflangNotReciprocal(f))
    <3> DEFINE us == Sets(f) \cap Indexable(f)
               of(u, v) == HreflangFinding("HREFLANG-NOT-RECIPROCAL", u, 0, <<"hreflang-pair", {f.text[u].key, f.text[v].key}>>)
               who(u) == {w \in Declared(f, u) : f.text[w].key \notin OwnKeys(f, u) /\ Omits(f, w, u)}
               F == [u \in us |-> {of(u, v) : v \in who(u)}]
    <3>1. HreflangNotReciprocal(f) = UNION {F[u] : u \in us}
      BY DEF HreflangNotReciprocal
    <3>2. ASSUME NEW u \in us PROVE IsFiniteSet(F[u])
      <4> DEFINE G == [a \in f.pages[u].alternates |-> of(u, a.to)]
      <4>1. \A v \in who(u) : \E a \in f.pages[u].alternates : v = a.to
        BY DEF Declared
      <4>2. Covers(G, f.pages[u].alternates, F[u])
        <5> HIDE DEF of, who
        <5> QED
          BY <4>1 DEF Covers
      <4>3. IsFiniteSet(f.pages[u].alternates)
        BY DEF Sets, FiniteFile
      <4> HIDE DEF G, F
      <4> QED
        BY <4>2, <4>3, Covered
    <3>3. IsFiniteSet(us)
      BY <1>a, FS_Subset DEF Sets
    <3> HIDE DEF F, us
    <3> QED
      BY <2>1, <3>1, <3>2, <3>3
  <2>3. IsFiniteSet(HreflangTo4xx(f))
    <3> DEFINE us == Sets(f)
               broken(v) == /\ v \in Rows(f)
                            /\ IF v \in Internal(f) THEN Is4xx(f.urls[v].status) ELSE f.urls[v].status \in GoneStatus
               of(u, key) == HreflangFinding("HREFLANG-TO-4XX", u, key, NoGroup)
               keys(u) == {f.text[v].key : v \in {w \in Declared(f, u) : broken(w)}}
               F == [u \in us |-> {of(u, key) : key \in keys(u)}]
    <3>1. HreflangTo4xx(f) = UNION {F[u] : u \in us}
      BY DEF HreflangTo4xx
    <3>2. ASSUME NEW u \in us PROVE IsFiniteSet(F[u])
      <4> DEFINE G == [a \in f.pages[u].alternates |-> of(u, f.text[a.to].key)]
      <4>1. \A key \in keys(u) : \E a \in f.pages[u].alternates : key = f.text[a.to].key
        BY DEF Declared
      <4>2. Covers(G, f.pages[u].alternates, F[u])
        <5> HIDE DEF of, keys
        <5> QED
          BY <4>1 DEF Covers
      <4>3. IsFiniteSet(f.pages[u].alternates)
        BY DEF Sets, FiniteFile
      <4> HIDE DEF G, F
      <4> QED
        BY <4>2, <4>3, Covered
    <3>3. IsFiniteSet(us)
      BY <1>a, FS_Subset DEF Sets
    <3> HIDE DEF F, us
    <3> QED
      BY <2>1, <3>1, <3>2, <3>3
  <2>4. IsFiniteSet(HreflangSiteRules(f))
    BY <2>2, <2>3, FS_Union DEF HreflangSiteRules
  <2> QED
    BY <1>16, <2>4 DEF SiteRule
<1>17. CASE n = 17
  <2> DEFINE images == {l \in f.links : l.element = "meta"}
             F == [l \in f.links |-> Finding("SOCIAL-OG-IMAGE-BROKEN", "medium", l.to,
                                             Cardinality({j.from : j \in {k \in images : k.to = l.to}}), NoGroup)]
  <2>1. Covers(F, f.links, SocialOgImageBroken(f))
    BY Zenon DEF Covers, SocialOgImageBroken
  <2> HIDE DEF F
  <2> QED
    BY <1>17, <1>a, <2>1, Covered DEF SiteRule
<1>18. CASE n = 18
  <2> DEFINE count(to, fragment) == Cardinality({l.from : l \in {k \in FragmentLinks(f) : k.to = to /\ k.fragment = fragment}})
             of(to, fragment) == Finding("LINK-FRAGMENT-BROKEN", "low", to, count(to, fragment),
                                         <<"link-fragment-broken", {fragment.text}>>)
             ps == {<<l.to, l.fragment>> : l \in {k \in FragmentLinks(f) : ~FragmentLands(k.fragment, f.pages[k.to].ids)}}
             F == [l \in f.links |-> of(l.to, l.fragment)]
  <2>1. LinkFragmentBroken(f) = {of(p[1], p[2]) : p \in ps}
    BY Zenon DEF LinkFragmentBroken
  <2>2. \A p \in ps : \E l \in f.links : p[1] = l.to /\ p[2] = l.fragment
    BY DEF FragmentLinks
  <2>3. Covers(F, f.links, LinkFragmentBroken(f))
    <3> HIDE DEF of, ps
    <3> QED
      BY <2>1, <2>2 DEF Covers
  <2> HIDE DEF F
  <2> QED
    BY <1>18, <1>a, <2>3, Covered DEF SiteRule
<1> QED
  BY <1>1, <1>2, <1>3, <1>4, <1>5, <1>6, <1>7, <1>8, <1>9, <1>10, <1>11, <1>12, <1>13, <1>14, <1>15, <1>16, <1>17, <1>18 DEF NRules

-----------------------------------------------------------------------------
(* The tables stay finite.                                                 *)

TablesFinite == FiniteFile(file) /\ IsFiniteSet(DOMAIN issues)

(* What may be read of the pages of a file.                                *)
ItemsFinite(pages) == \A u \in DOMAIN pages : IsFiniteSet(pages[u].images) /\ IsFiniteSet(pages[u].alternates)

LEMMA BuildResultIsFinite ==
  ASSUME site \in Sites, NEW u \in DOMAIN site.docs
  PROVE  IsFiniteSet(BuildResult(site, u).links) /\ ItemsFinite(BuildResult(site, u).pages)
<1> DEFINE d == site.docs[u]
<1>1. ASSUME NEW row PROVE OnlyRow(row).links = {} /\ DOMAIN OnlyRow(row).pages = {}
  BY DEF OnlyRow
<1>2. CASE Excluded(site, u)
  BY <1>1, <1>2, FS_EmptySet DEF BuildResult, ItemsFinite
<1>3. CASE ~Excluded(site, u) /\ d.error # NoText
  BY <1>1, <1>3, FS_EmptySet DEF BuildResult, ItemsFinite
<1>4. CASE ~Excluded(site, u) /\ d.error = NoText
  <2>1. /\ BuildResult(site, u).links = IF HasPage(d) THEN LinkRows(site, u, d) ELSE {}
        /\ BuildResult(site, u).pages = IF HasPage(d) THEN [v \in {u} |-> PageRow(site, u, d)] ELSE <<>>
    BY <1>4 DEF BuildResult
  <2>2. CASE ~HasPage(d)
    BY <2>1, <2>2, FS_EmptySet DEF ItemsFinite
  <2>3. CASE HasPage(d)
    <3>1. /\ ParsedFields \subseteq DOMAIN d.parsed
          /\ IsFiniteSet(d.parsed.links) /\ IsFiniteSet(d.parsed.images) /\ IsFiniteSet(d.parsed.alternates)
      BY <2>3, AuditAssumption
    <3> DEFINE row(l) == [from |-> u, to |-> l.to, element |-> l.element,
                          fragment |-> IF InternalLink(site, u, l.to) /\ ~site.text[l.to].infra THEN l.fragment ELSE NoFragment]
               F == [l \in d.parsed.links |-> row(l)]
    <3>2. Covers(F, d.parsed.links, LinkRows(site, u, d))
      BY Zenon DEF Covers, LinkRows
    <3> HIDE DEF F
    <3>3. IsFiniteSet(LinkRows(site, u, d))
      BY <3>1, <3>2, Covered
    <3>4. PageRow(site, u, d).images = d.parsed.images /\ PageRow(site, u, d).alternates = d.parsed.alternates
      <4>1. {"images", "alternates"} \subseteq DOMAIN d.parsed
        BY <3>1 DEF ParsedFields
      <4>2. \A x \in {"images", "alternates"} : PageRow(site, u, d)[x] = d.parsed[x]
        BY <4>1 DEF PageRow
      <4> QED
        BY <4>2
    <3> QED
      BY <2>1, <2>3, <3>1, <3>3, <3>4 DEF ItemsFinite
  <2> QED
    BY <2>2, <2>3
<1> QED
  BY <1>2, <1>3, <1>4

LEMMA TablesInit == Init => TablesFinite
<1> SUFFICES ASSUME Init PROVE TablesFinite
  OBVIOUS
<1>1. file = EmptyFile(site) /\ site \in Sites /\ issues = SetToBag({})
  BY DEF Init, EmptyBag
<1>2. /\ Rows(file) = site.seeds \cup site.inSitemap /\ file.links = {} /\ Pages(file) = {}
      /\ DOMAIN file.robots = {} /\ file.sitemaps = {}
  BY <1>1 DEF EmptyFile, Rows, Pages
<1>3. LinksLand(file)
  BY <1>1, <1>2, AuditAssumption DEF LinksLand
<1>4. DOMAIN issues = {}
  BY <1>1, BagOfSet
<1> QED
  BY <1>2, <1>3, <1>4, FS_EmptySet DEF TablesFinite, FiniteFile

LEMMA TablesSave ==
  ASSUME FileKept, IssuesKept, PlaceKept, TablesFinite, Save
  PROVE  TablesFinite'
<1>1. PICK u \in Pending(file) :
        /\ file' = Saved(site, file, u)
        /\ issues' = issues (+) SetToBag(IF u \in Pages(file') THEN PageRules(file', u) ELSE {})
  BY DEF Save
<1> DEFINE r == BuildResult(site, u)
           more == IF u \in Pages(file') THEN PageRules(file', u) ELSE {}
<1>2. site' = site /\ site \in Sites
  BY DEF Save, FileKept
<1>3. LinksLand(file')
  BY PlaceSave DEF PlaceKept
<1>4. u \in DOMAIN site.docs /\ file'.pages = Upsert(r.pages, file.pages)
  BY <1>1, SavedKeeps
<1>5. /\ file'.links = file.links \cup r.links
      /\ file'.robots = file.robots /\ file'.sitemaps = file.sitemaps
  <2>1. FileFields \subseteq DOMAIN file
    BY DEF FileKept
  <2> QED
    BY <1>1, <2>1 DEF Saved, FileFields
<1>6. IsFiniteSet(r.links) /\ ItemsFinite(r.pages)
  BY <1>2, <1>4, BuildResultIsFinite
<1>7. IsFiniteSet(file'.links)
  BY <1>5, <1>6, FS_Union DEF TablesFinite, FiniteFile
<1>8. Pages(file') \subseteq Rows(file')
  BY <1>1, <1>2, FileSave DEF FileKept
<1>9. ItemsFinite(file'.pages)
  <2>1. ItemsFinite(file.pages)
    BY DEF TablesFinite, FiniteFile, ItemsFinite, Pages
  <2> HIDE DEF r
  <2> QED
    BY <1>4, <1>6, <2>1 DEF ItemsFinite, Upsert
<1>10. FiniteFile(file')
  BY <1>3, <1>5, <1>7, <1>8, <1>9 DEF TablesFinite, FiniteFile, ItemsFinite, Pages
<1>11. IsFiniteSet(more)
  BY <1>10, PageRulesAreFinite, FS_EmptySet DEF FiniteFile
<1> HIDE DEF more
<1>12. DOMAIN issues' = DOMAIN issues \cup more
  BY <1>1 DEF more, (+), SetToBag
<1> QED
  BY <1>10, <1>11, <1>12, FS_Union DEF TablesFinite

LEMMA TablesStepKeeps ==
  ASSUME AuditInv, PlaceKept, TablesFinite, [Next]_vars
  PROVE  TablesFinite'
<1>0. FileKept /\ IssuesKept /\ site \in Sites /\ FileFields \subseteq DOMAIN file
  BY DEF AuditInv, FileKept
<1>a. PlaceKept' /\ FileKept'
  BY PlaceStepKeeps, AuditStepKeeps DEF AuditInv
<1>b. LinksLand(file') /\ Pages(file') \subseteq Rows(file')
  BY <1>a DEF PlaceKept, FileKept
<1>c. IsFiniteSet(DOMAIN site.robots) /\ IsFiniteSet(site.sitemaps)
  BY <1>0, AuditAssumption
<1>1. CASE Save
  BY <1>0, <1>1, TablesSave
<1>2. CASE Probe
  <2>1. file'.links = file.links /\ file'.pages = file.pages /\ file'.robots = file.robots /\ file'.sitemaps = file.sitemaps
    BY <1>0, <1>2 DEF Probe, FileFields
  <2> QED
    BY <1>2, <1>b, <2>1 DEF Probe, TablesFinite, FiniteFile, Pages
<1>r. LET g == Recorded(site, file) IN
      /\ g.links = file.links /\ g.pages = file.pages /\ g.robots = site.robots /\ g.sitemaps = site.sitemaps
      /\ FileFields \subseteq DOMAIN g
  BY <1>0 DEF Recorded, FileFields
<1>3. CASE Finalize
  <2> DEFINE g == Recorded(site, file)
             links(u) == Cardinality({l.from : l \in {k \in g.links : k.to = u}})
  <2>1. file' = Counted(g) /\ issues' = StaleDeleted
    BY <1>3 DEF Finalize
  <2>2. /\ g.links = file.links /\ g.pages = file.pages /\ g.robots = site.robots /\ g.sitemaps = site.sitemaps
        /\ FileFields \subseteq DOMAIN g
    BY <1>r
  <2> HIDE DEF g
  <2>3. /\ file'.links = g.links /\ file'.robots = g.robots /\ file'.sitemaps = g.sitemaps
        /\ file'.pages = [u \in Pages(g) |-> [g.pages[u] EXCEPT !.linksIn = links(u)]]
    BY <2>1, <2>2 DEF Counted, FileFields
  <2>4. Pages(file') = Pages(file) /\ Pages(g) = Pages(file)
    BY <2>2, <2>3 DEF Pages
  <2>5. ASSUME NEW u \in Pages(file)
        PROVE  file'.pages[u].images = file.pages[u].images /\ file'.pages[u].alternates = file.pages[u].alternates
    <3>1. {"images", "alternates"} \subseteq DOMAIN file.pages[u]
      BY <1>0 DEF FileKept, PageFields, ParsedFields
    <3>2. file'.pages[u] = [file.pages[u] EXCEPT !.linksIn = links(u)]
      BY <2>2, <2>3, <2>4
    <3> HIDE DEF links
    <3> QED
      BY <3>1, <3>2
  <2>6. FiniteFile(file')
    BY <1>b, <1>c, <2>2, <2>3, <2>4, <2>5 DEF TablesFinite, FiniteFile
  <2>7. DOMAIN issues' \subseteq DOMAIN issues
    BY <2>1 DEF StaleDeleted
  <2> QED
    BY <2>6, <2>7, FS_Subset DEF TablesFinite
<1>4. CASE EvaluateRule
  <2> DEFINE more == Kept(SiteRule(file, rule), cut # NoText)
  <2>1. issues' = issues (+) SetToBag(more) /\ rule \in 1..NRules /\ file' = file
    BY <1>0, <1>4 DEF EvaluateRule, IssuesKept, NRules
  <2>2. IsFiniteSet(more)
    BY <2>1, SiteRulesAreFinite, FS_Subset DEF Kept, TablesFinite
  <2> HIDE DEF more
  <2>3. DOMAIN issues' = DOMAIN issues \cup more
    BY <2>1 DEF (+), SetToBag
  <2> QED
    BY <2>1, <2>2, <2>3, FS_Union DEF TablesFinite
<1>5. CASE Pause
  <2>1. file' = Recorded(site, file) /\ issues' = issues
    BY <1>5 DEF Pause
  <2> QED
    BY <1>b, <1>c, <1>r, <2>1 DEF TablesFinite, FiniteFile, Pages
<1>6. CASE file' = file /\ issues' = issues
  BY <1>6 DEF TablesFinite
<1> QED
  BY <1>1, <1>2, <1>3, <1>4, <1>5, <1>6 DEF Next, Done, Crash, Resume, Over, vars

-----------------------------------------------------------------------------
(* A comparison turned around.                                             *)

(* The name of a change seen from the other side.                          *)
Other(t) ==
  IF t = "url_added" THEN "url_removed" ELSE IF t = "url_removed" THEN "url_added"
  ELSE IF t = "issue_appeared" THEN "issue_resolved" ELSE IF t = "issue_resolved" THEN "issue_appeared"
  ELSE IF t = "indexability_lost" THEN "indexability_gained"
  ELSE IF t = "indexability_gained" THEN "indexability_lost" ELSE t

LEMMA TurnedIs ==
  ASSUME NEW t, NEW u, NEW field, NEW before, NEW after, NEW severity
  PROVE  Turned(Change(t, u, field, before, after, severity)) =
           Change(Other(t), u, field, after, before, IF t = "robots_txt_changed" THEN NoText ELSE severity)
<1> DEFINE c == Change(t, u, field, before, after, severity)
           pairs == {<<"url_added", "url_removed">>, <<"issue_appeared", "issue_resolved">>,
                     <<"indexability_lost", "indexability_gained">>}
           names == {p[1] : p \in pairs} \cup {p[2] : p \in pairs}
           fits(n) == n # c[1] /\ \E p \in pairs : {n, c[1]} = {p[1], p[2]}
           type == IF \E p \in pairs : c[1] \in {p[1], p[2]} THEN CHOOSE n \in names : fits(n) ELSE c[1]
<1>1. /\ c[1] = t /\ c[2] = u /\ c[3] = field /\ c[4] = before /\ c[5] = after /\ c[6] = severity
  BY DEF Change
<1>2. type = Other(t)
  <2>1. names = {"url_added", "url_removed", "issue_appeared", "issue_resolved", "indexability_lost", "indexability_gained"}
    OBVIOUS
  <2>2. (\E p \in pairs : c[1] \in {p[1], p[2]}) <=> t \in names
    BY <1>1, <2>1
  <2>3. ASSUME NEW n
        PROVE  fits(n) <=> t \in names /\ n = Other(t)
    <3> HIDE DEF names, c
    <3>1. fits(n) <=> /\ n # t
                      /\ \/ {n, t} = {"url_added", "url_removed"}
                         \/ {n, t} = {"issue_appeared", "issue_resolved"}
                         \/ {n, t} = {"indexability_lost", "indexability_gained"}
      BY <1>1
    <3>2. ASSUME NEW x, NEW y, n # t
          PROVE  {n, t} = {x, y} <=> x # y /\ ((n = x /\ t = y) \/ (n = y /\ t = x))
      <4>1. ASSUME {n, t} = {x, y} PROVE n \in {x, y} /\ t \in {x, y} /\ x \in {n, t} /\ y \in {n, t}
        BY <4>1
      <4> QED
        BY <3>2, <4>1
    <3> HIDE DEF fits
    <3> QED
      BY <2>1, <3>1, <3>2 DEF Other
  <2>4. t \in names => Other(t) \in names
    BY <2>1 DEF Other
  <2>5. t \notin names => Other(t) = t
    BY <2>1 DEF Other
  <2> HIDE DEF names, fits, pairs, c
  <2>6. CASE t \in names
    <3>1. (CHOOSE n \in names : fits(n)) = Other(t)
      BY <2>3, <2>4, <2>6
    <3> QED
      BY <2>2, <2>6, <3>1
  <2> QED
    BY <1>1, <2>2, <2>5, <2>6
<1>3. Turned(c) = Change(type, c[2], c[3], c[5], c[4], IF c[1] = "robots_txt_changed" THEN NoText ELSE c[6])
  BY DEF Turned
<1> HIDE DEF c, type
<1>4. Turned(c) = Change(Other(t), u, field, after, before, IF t = "robots_txt_changed" THEN NoText ELSE severity)
  BY <1>1, <1>2, <1>3
<1> QED
  BY <1>4 DEF c

LEMMA PlainIs ==
  ASSUME NEW t, NEW u, NEW field, NEW before, NEW after, NEW severity
  PROVE  Plain(Change(t, u, field, before, after, severity)) =
           Change(t, u, field, before, after, IF t = "robots_txt_changed" THEN NoText ELSE severity)
BY DEF Plain, Change

(* A change, of any type but of a robots.txt in the second case.           *)
IsChange(c) == \E t, u, field, before, after, severity : c = Change(t, u, field, before, after, severity)
Lossless(S) == \A c \in S : IsChange(c) /\ c[1] # "robots_txt_changed"

LEMMA OtherTwice == \A t : /\ Other(Other(t)) = t
                           /\ t = "robots_txt_changed" <=> Other(t) = "robots_txt_changed"
BY DEF Other

(* A one-to-one correspondence of a finite set counts the same.            *)
LEMMA SameCount ==
  ASSUME NEW S, NEW T, IsFiniteSet(S), NEW g \in [S -> T],
         \A x \in S : \A y \in S : g[x] = g[y] => x = y, \A z \in T : \E s \in S : g[s] = z
  PROVE  Cardinality(T) = Cardinality(S)
<1>1. g \in Bijection(S, T)
  BY DEF Bijection, Injection, Surjection, IsInjective
<1> QED
  BY <1>1, FS_Bijection DEF ExistsBijection

LEMMA TurnedCount ==
  ASSUME NEW S, IsFiniteSet(S), Lossless(S)
  PROVE  Cardinality({Turned(c) : c \in S}) = Cardinality(S)
<1> DEFINE T == {Turned(c) : c \in S}
           g == [c \in S |-> Turned(c)]
<1>1. ASSUME NEW c \in S, NEW d \in S, Turned(c) = Turned(d)
      PROVE  c = d
  <2>1. PICK t, u, field, before, after, severity : c = Change(t, u, field, before, after, severity)
    BY DEF Lossless, IsChange
  <2>2. PICK t2, u2, field2, before2, after2, severity2 : d = Change(t2, u2, field2, before2, after2, severity2)
    BY DEF Lossless, IsChange
  <2>3. t # "robots_txt_changed" /\ t2 # "robots_txt_changed"
    BY <2>1, <2>2 DEF Lossless, Change
  <2>4. Turned(c) = Change(Other(t), u, field, after, before, severity)
    BY <2>1, <2>3, TurnedIs
  <2>5. Turned(d) = Change(Other(t2), u2, field2, after2, before2, severity2)
    BY <2>2, <2>3, TurnedIs
  <2>6. <<Other(t), u, field, after, before, severity>> = <<Other(t2), u2, field2, after2, before2, severity2>>
    BY <1>1, <2>4, <2>5 DEF Change
  <2>7. Other(t) = Other(t2) /\ u = u2 /\ field = field2 /\ after = after2 /\ before = before2 /\ severity = severity2
    BY <2>6
  <2> QED
    BY <2>1, <2>2, <2>7, OtherTwice
<1>2. /\ g \in [S -> T]  /\ (\A x \in S : \A y \in S : g[x] = g[y] => x = y) /\ (\A z \in T : \E s \in S : g[s] = z)
  BY <1>1
<1> HIDE DEF T, g
<1>3. Cardinality(T) = Cardinality(S)
  BY <1>2, SameCount
<1> QED
  BY <1>3 DEF T

LEMMA UrlsTurned ==
  ASSUME NEW a, NEW b
  PROVE  /\ {Turned(c) : c \in UrlsNew(a, b)} = UrlsGone(b, a)
         /\ {Turned(c) : c \in UrlsGone(a, b)} = UrlsNew(b, a)
<1> DEFINE more == Universe(b) \ Universe(a)
           less == Universe(a) \ Universe(b)
           new(u) == Change("url_added", u, "status_code", 0, StatusOf(b, u), NoText)
           gone(u) == Change("url_removed", u, "status_code", StatusOf(b, u), 0, NoText)
           lost(u) == Change("url_removed", u, "status_code", StatusOf(a, u), 0, NoText)
           won(u) == Change("url_added", u, "status_code", 0, StatusOf(a, u), NoText)
<1>1. \A u : Turned(new(u)) = gone(u) /\ Turned(lost(u)) = won(u)
  BY TurnedIs DEF Other
<1>2. UrlsNew(a, b) = {new(u) : u \in more} /\ UrlsGone(b, a) = {gone(u) : u \in more}
  BY DEF UrlsNew, UrlsGone
<1>3. UrlsGone(a, b) = {lost(u) : u \in less} /\ UrlsNew(b, a) = {won(u) : u \in less}
  BY DEF UrlsNew, UrlsGone
<1> HIDE DEF more, less, new, gone, lost, won
<1> QED
  BY <1>1, <1>2, <1>3

LEMMA SameFindingTurned == \A i, j : SameFinding(i, j) <=> SameFinding(j, i)
BY DEF SameFinding

LEMMA FindingsTurned ==
  ASSUME NEW is, NEW js
  PROVE  /\ {Turned(c) : c \in Appeared(is, js)} = Resolved(js, is)
         /\ {Turned(c) : c \in Resolved(is, js)} = Appeared(js, is)
<1> DEFINE more == NotIn(js, is)
           less == NotIn(is, js)
           new(j) == Change("issue_appeared", j.url, j.rule, NoGroup, j.group, j.severity)
           gone(i) == Change("issue_resolved", i.url, i.rule, i.group, NoGroup, i.severity)
<1>1. \A i : Turned(new(i)) = gone(i) /\ Turned(gone(i)) = new(i)
  BY TurnedIs DEF Other
<1>2. Appeared(is, js) = {new(j) : j \in more} /\ Resolved(js, is) = {gone(j) : j \in more}
  BY DEF Appeared, Resolved
<1>3. Resolved(is, js) = {gone(i) : i \in less} /\ Appeared(js, is) = {new(i) : i \in less}
  BY DEF Appeared, Resolved
<1> HIDE DEF more, less, new, gone
<1> QED
  BY <1>1, <1>2, <1>3

LEMMA PersistedTurned ==
  ASSUME NEW is, NEW js, IsFiniteSet(is), IsFiniteSet(js)
  PROVE  Persisted(is, js) = Persisted(js, is)
<1> DEFINE S == {p \in is \X js : SameFinding(p[1], p[2])}
           T == {p \in js \X is : SameFinding(p[1], p[2])}
           g == [p \in S |-> <<p[2], p[1]>>]
<1>1. g \in [S -> T]
  BY SameFindingTurned
<1>2. \A p, q \in S : g[p] = g[q] => p = q
  OBVIOUS
<1>3. ASSUME NEW q \in T PROVE \E p \in S : g[p] = q
  <2>1. <<q[2], q[1]>> \in S /\ g[<<q[2], q[1]>>] = q
    BY SameFindingTurned
  <2> QED
    BY <2>1
<1>5. IsFiniteSet(S)
  BY FS_Product, FS_Subset
<1> HIDE DEF S, T, g
<1>4. Cardinality(S) = Cardinality(T)
  BY <1>1, <1>2, <1>3, <1>5, SameCount
<1> QED
  BY <1>4 DEF S, T, Persisted

LEMMA StatusTurned ==
  ASSUME NEW a, NEW b
  PROVE  {Turned(c) : c \in StatusChanges(a, b)} = StatusChanges(b, a)
<1> DEFINE us == {v \in Universe(a) \cap Universe(b) : StatusOf(a, v) # StatusOf(b, v)}
           one(u) == Change("status_changed", u, "status_code", StatusOf(a, u), StatusOf(b, u), NoText)
           back(u) == Change("status_changed", u, "status_code", StatusOf(b, u), StatusOf(a, u), NoText)
<1>1. \A u : Turned(one(u)) = back(u)
  BY TurnedIs DEF Other
<1>2. StatusChanges(a, b) = {one(u) : u \in us} /\ StatusChanges(b, a) = {back(u) : u \in us}
  BY DEF StatusChanges
<1> HIDE DEF us, one, back
<1> QED
  BY <1>1, <1>2

LEMMA PagesTurned ==
  ASSUME NEW a, NEW b
  PROVE  {Turned(c) : c \in PageChanges(a, b)} = PageChanges(b, a)
<1> DEFINE p(u) == a.file.pages[u]
           q(u) == b.file.pages[u]
           both == Pages(a.file) \cap Pages(b.file)
           why(r) == IF r.indexable THEN "indexable" ELSE r.why
           titles == {u \in both : p(u).title.text # q(u).title.text}
           title(u) == Change("title_changed", u, "title", p(u).title.text, q(u).title.text, NoText)
           title2(u) == Change("title_changed", u, "title", q(u).title.text, p(u).title.text, NoText)
           descs == {u \in both : p(u).desc.text # q(u).desc.text}
           desc(u) == Change("meta_description_changed", u, "meta_description", p(u).desc.text, q(u).desc.text, NoText)
           desc2(u) == Change("meta_description_changed", u, "meta_description", q(u).desc.text, p(u).desc.text, NoText)
           canons == {u \in both : p(u).canonical # q(u).canonical}
           canon(u) == Change("canonical_changed", u, "canonical", p(u).canonical, q(u).canonical, NoText)
           canon2(u) == Change("canonical_changed", u, "canonical", q(u).canonical, p(u).canonical, NoText)
           losts == {u \in both : p(u).indexable = TRUE /\ q(u).indexable = FALSE}
           lost(u) == Change("indexability_lost", u, "indexability_reason", why(p(u)), why(q(u)), NoText)
           lost2(u) == Change("indexability_gained", u, "indexability_reason", why(q(u)), why(p(u)), NoText)
           wons == {u \in both : p(u).indexable = FALSE /\ q(u).indexable = TRUE}
           won(u) == Change("indexability_gained", u, "indexability_reason", why(p(u)), why(q(u)), NoText)
           won2(u) == Change("indexability_lost", u, "indexability_reason", why(q(u)), why(p(u)), NoText)
<1>1. \A u : /\ Turned(title(u)) = title2(u) /\ Turned(desc(u)) = desc2(u) /\ Turned(canon(u)) = canon2(u)
             /\ Turned(lost(u)) = lost2(u) /\ Turned(won(u)) = won2(u)
  <2> SUFFICES ASSUME NEW u
               PROVE  /\ Turned(title(u)) = title2(u) /\ Turned(desc(u)) = desc2(u) /\ Turned(canon(u)) = canon2(u)
                      /\ Turned(lost(u)) = lost2(u) /\ Turned(won(u)) = won2(u)
    OBVIOUS
  <2>1. Turned(title(u)) = title2(u)
    BY TurnedIs DEF Other
  <2>2. Turned(desc(u)) = desc2(u)
    BY TurnedIs DEF Other
  <2>3. Turned(canon(u)) = canon2(u)
    BY TurnedIs DEF Other
  <2>4. Turned(lost(u)) = lost2(u)
    <3> HIDE DEF why
    <3> QED
      BY TurnedIs DEF Other
  <2>5. Turned(won(u)) = won2(u)
    <3> HIDE DEF why
    <3> QED
      BY TurnedIs DEF Other
  <2> HIDE DEF title, title2, desc, desc2, canon, canon2, lost, lost2, won, won2
  <2> QED
    BY <2>1, <2>2, <2>3, <2>4, <2>5
<1>2. PageChanges(a, b) = {title(u) : u \in titles} \cup {desc(u) : u \in descs} \cup {canon(u) : u \in canons}
                          \cup {lost(u) : u \in losts} \cup {won(u) : u \in wons}
  BY DEF PageChanges
<1>3. PageChanges(b, a) = {title2(u) : u \in titles} \cup {desc2(u) : u \in descs} \cup {canon2(u) : u \in canons}
                          \cup {lost2(u) : u \in losts} \cup {won2(u) : u \in wons}
  BY DEF PageChanges
<1> HIDE DEF title, title2, desc, desc2, canon, canon2, lost, lost2, won, won2, titles, descs, canons, losts, wons
<1> QED
  BY <1>1, <1>2, <1>3

LEMMA RobotsTurned ==
  ASSUME NEW a, NEW b
  PROVE  {Turned(c) : c \in RobotsChanges(a, b)} = {Plain(c) : c \in RobotsChanges(b, a)}
<1> DEFINE value(crawl, h, field) == IF h \in DOMAIN crawl.file.robots THEN <<crawl.file.robots[h][field]>> ELSE <<>>
           x(p) == value(a, p[1], p[2])
           y(p) == value(b, p[1], p[2])
           changed == {p \in (DOMAIN a.file.robots \cup DOMAIN b.file.robots) \X {"blocksAll", "status", "content"} : x(p) # y(p)}
           grave(p, z) == IF p[2] = "blocksAll" /\ z = <<TRUE>> THEN "critical" ELSE NoText
           one(p) == Change("robots_txt_changed", p[1], p[2], x(p), y(p), grave(p, y(p)))
           back(p) == Change("robots_txt_changed", p[1], p[2], y(p), x(p), grave(p, x(p)))
           plain(p) == Change("robots_txt_changed", p[1], p[2], y(p), x(p), NoText)
<1>1. \A p : Turned(one(p)) = plain(p) /\ Plain(back(p)) = plain(p)
  <2> HIDE DEF value, x, y, grave
  <2> QED
    BY TurnedIs, PlainIs DEF Other
<1>2. RobotsChanges(a, b) = {one(p) : p \in changed}
  BY DEF RobotsChanges
<1>3. RobotsChanges(b, a) = {back(p) : p \in changed}
  BY DEF RobotsChanges
<1> HIDE DEF one, back, plain, changed
<1> QED
  BY <1>1, <1>2, <1>3

LEMMA SitemapsTurned ==
  ASSUME NEW a, NEW b
  PROVE  {Turned(c) : c \in SitemapChanges(a, b)} = SitemapChanges(b, a)
<1> DEFINE row(crawl, id) == {s \in crawl.file.sitemaps : s.id = id}
           the(crawl, id) == CHOOSE s \in row(crawl, id) : TRUE
           ids == {s.id : s \in a.file.sitemaps \cup b.file.sitemaps}
           both == {id \in ids : row(a, id) # {} /\ row(b, id) # {}}
           x(p) == the(a, p[1])[p[2]]
           y(p) == the(b, p[1])[p[2]]
           moved == {p \in both \X {"status", "valid", "urls"} : x(p) # y(p)}
           there(id) == Change("sitemap_changed", id, "present", <<row(a, id) # {}>>, <<row(b, id) # {}>>, NoText)
           there2(id) == Change("sitemap_changed", id, "present", <<row(b, id) # {}>>, <<row(a, id) # {}>>, NoText)
           one(p) == Change("sitemap_changed", p[1], p[2], <<x(p)>>, <<y(p)>>, NoText)
           back(p) == Change("sitemap_changed", p[1], p[2], <<y(p)>>, <<x(p)>>, NoText)
<1>1. \A id : Turned(there(id)) = there2(id)
  <2> HIDE DEF row
  <2> QED
    BY TurnedIs DEF Other
<1>2. \A p : Turned(one(p)) = back(p)
  <2> HIDE DEF x, y
  <2> QED
    BY TurnedIs DEF Other
<1>3. SitemapChanges(a, b) = {there(id) : id \in ids \ both} \cup {one(p) : p \in moved}
  BY DEF SitemapChanges
<1>4. SitemapChanges(b, a) = {there2(id) : id \in ids \ both} \cup {back(p) : p \in moved}
  BY DEF SitemapChanges
<1> HIDE DEF ids, both, moved, there, there2, one, back
<1> QED
  BY <1>1, <1>2, <1>3, <1>4

LEMMA ChangesAreChanges ==
  ASSUME NEW a, NEW b, NEW choice, NEW c \in CompareWithRules(a, b, choice).changes
  PROVE  IsChange(c)
<1> DEFINE is == Configured(a, ChosenRules(a, b, choice))
           js == Configured(b, ChosenRules(b, b, choice))
<1>1. c \in UrlsNew(a, b) \cup UrlsGone(a, b) \cup StatusChanges(a, b) \cup PageChanges(a, b)
            \cup Appeared(is, js) \cup Resolved(is, js) \cup RobotsChanges(a, b) \cup SitemapChanges(a, b)
  BY DEF CompareWithRules, ToldUnless
<1> HIDE DEF is, js
<1>2. CASE c \in UrlsNew(a, b) \cup UrlsGone(a, b) \cup StatusChanges(a, b)
  BY <1>2 DEF UrlsNew, UrlsGone, StatusChanges, IsChange
<1>3. CASE c \in PageChanges(a, b)
  BY <1>3, Zenon DEF PageChanges, IsChange
<1>4. CASE c \in Appeared(is, js) \cup Resolved(is, js)
  BY <1>4 DEF Appeared, Resolved, IsChange
<1>5. CASE c \in RobotsChanges(a, b)
  <2> DEFINE value(crawl, h, field) == IF h \in DOMAIN crawl.file.robots THEN <<crawl.file.robots[h][field]>> ELSE <<>>
             changed == {p \in (DOMAIN a.file.robots \cup DOMAIN b.file.robots) \X {"blocksAll", "status", "content"} :
                           value(a, p[1], p[2]) # value(b, p[1], p[2])}
             grave(p) == IF p[2] = "blocksAll" /\ value(b, p[1], p[2]) = <<TRUE>> THEN "critical" ELSE NoText
             one(p) == Change("robots_txt_changed", p[1], p[2], value(a, p[1], p[2]), value(b, p[1], p[2]), grave(p))
  <2>1. RobotsChanges(a, b) = {one(p) : p \in changed}
    BY DEF RobotsChanges
  <2>2. \A p : IsChange(one(p))
    <3> HIDE DEF value, grave
    <3> QED
      BY DEF IsChange
  <2> HIDE DEF changed, one
  <2> QED
    BY <1>5, <2>1, <2>2
<1>6. CASE c \in SitemapChanges(a, b)
  <2> DEFINE row(crawl, id) == {s \in crawl.file.sitemaps : s.id = id}
             the(crawl, id) == CHOOSE s \in row(crawl, id) : TRUE
             ids == {s.id : s \in a.file.sitemaps \cup b.file.sitemaps}
             both == {id \in ids : row(a, id) # {} /\ row(b, id) # {}}
             x(p) == the(a, p[1])[p[2]]
             y(p) == the(b, p[1])[p[2]]
             moved == {p \in both \X {"status", "valid", "urls"} : x(p) # y(p)}
             there(id) == Change("sitemap_changed", id, "present", <<row(a, id) # {}>>, <<row(b, id) # {}>>, NoText)
             one(p) == Change("sitemap_changed", p[1], p[2], <<x(p)>>, <<y(p)>>, NoText)
  <2>1. SitemapChanges(a, b) = {there(id) : id \in ids \ both} \cup {one(p) : p \in moved}
    BY DEF SitemapChanges
  <2>2. \A id : IsChange(there(id))
    <3> HIDE DEF row
    <3> QED
      BY DEF IsChange
  <2>3. \A p : IsChange(one(p))
    <3> HIDE DEF x, y
    <3> QED
      BY DEF IsChange
  <2> HIDE DEF ids, both, moved, there, one
  <2> QED
    BY <1>6, <2>1, <2>2, <2>3
<1> QED
  BY <1>1, <1>2, <1>3, <1>4, <1>5, <1>6

(* The findings of a crawl, as configured, and its URLs are finitely many. *)
LEMMA ConfiguredIsFinite ==
  ASSUME NEW crawl, NEW rules, IsFiniteSet(crawl.issues)
  PROVE  IsFiniteSet(Configured(crawl, rules))
<1> DEFINE F == [j \in crawl.issues |->
                  [j EXCEPT !.severity = IF j.rule \in DOMAIN rules.severity THEN rules.severity[j.rule] ELSE @]]
           G == [i \in Read(crawl, rules) |-> [rule |-> i.rule, url |-> i.url, group |-> i.group, severity |-> i.severity]]
<1>1. Covers(F, crawl.issues, Read(crawl, rules))
  BY DEF Covers, Read
<1>2. Covers(G, Read(crawl, rules), Configured(crawl, rules))
  BY DEF Covers, Configured
<1> HIDE DEF F, G
<1> QED
  BY <1>1, <1>2, Covered

LEMMA TurnedCounted ==
  ASSUME NEW S, NEW T, NEW doubt, IsFiniteSet(S), Lossless(S), T = {Turned(c) : c \in S}
  PROVE  CountedIf(doubt, S) = CountedIf(doubt, T)
BY TurnedCount DEF CountedIf

(* What is new to one side, counted, is what is gone from the other.       *)
LEMMA SuppressedTurned ==
  ASSUME NEW a, NEW b, NEW is, NEW js, NEW doubt, IsFiniteSet(Rows(b.file)), IsFiniteSet(js)
  PROVE  /\ CountedIf(doubt, UrlsNew(a, b)) = CountedIf(doubt, UrlsGone(b, a))
         /\ CountedIf(doubt, Appeared(is, js)) = CountedIf(doubt, Resolved(js, is))
<1>1. IsFiniteSet(UrlsNew(a, b)) /\ Lossless(UrlsNew(a, b))
  <2> DEFINE F == [u \in Rows(b.file) |-> Change("url_added", u, "status_code", 0, StatusOf(b, u), NoText)]
  <2>1. Universe(b) \ Universe(a) \subseteq Rows(b.file)
    BY DEF Universe, Internal
  <2>2. Covers(F, Rows(b.file), UrlsNew(a, b))
    BY <2>1 DEF Covers, UrlsNew
  <2>3. Lossless(UrlsNew(a, b))
    <3>1. \A c \in UrlsNew(a, b) : IsChange(c)
      BY DEF UrlsNew, IsChange
    <3>2. \A c \in UrlsNew(a, b) : c[1] = "url_added"
      BY DEF UrlsNew, Change
    <3> QED
      BY <3>1, <3>2 DEF Lossless
  <2> HIDE DEF F
  <2> QED
    BY <2>2, <2>3, Covered
<1>2. IsFiniteSet(Appeared(is, js)) /\ Lossless(Appeared(is, js))
  <2> DEFINE F == [j \in js |-> Change("issue_appeared", j.url, j.rule, NoGroup, j.group, j.severity)]
  <2>2. Covers(F, js, Appeared(is, js))
    BY DEF Covers, Appeared, NotIn
  <2>3. Lossless(Appeared(is, js))
    <3>1. \A c \in Appeared(is, js) : IsChange(c)
      BY DEF Appeared, IsChange
    <3>2. \A c \in Appeared(is, js) : c[1] = "issue_appeared"
      BY DEF Appeared, Change
    <3> QED
      BY <3>1, <3>2 DEF Lossless
  <2> HIDE DEF F
  <2> QED
    BY <2>2, <2>3, Covered
<1>3. UrlsGone(b, a) = {Turned(c) : c \in UrlsNew(a, b)}
  BY UrlsTurned
<1>4. Resolved(js, is) = {Turned(c) : c \in Appeared(is, js)}
  BY FindingsTurned
<1> QED
  BY <1>1, <1>2, <1>3, <1>4, TurnedCounted

LEMMA PageChangesNamed ==
  ASSUME NEW a, NEW b, NEW c \in PageChanges(a, b)
  PROVE  c[1] \in {"title_changed", "meta_description_changed", "canonical_changed", "indexability_lost", "indexability_gained"}
<1>1. PICK t, u, field, before, after :
        /\ c = Change(t, u, field, before, after, NoText)
        /\ t \in {"title_changed", "meta_description_changed", "canonical_changed", "indexability_lost", "indexability_gained"}
  BY Zenon DEF PageChanges
<1> QED
  BY <1>1 DEF Change

LEMMA ChangesTurned ==
  ASSUME NEW a, NEW b, NEW choice, choice # {}
  PROVE  {Turned(c) : c \in CompareWithRules(a, b, choice).changes} = {Plain(c) : c \in CompareWithRules(b, a, choice).changes}
<1> DEFINE rules == CHOOSE r \in choice : TRUE
           is == Configured(a, rules)
           js == Configured(b, rules)
           new == ToldUnless(Incomplete(a), UrlsNew(a, b))
           gone == ToldUnless(Incomplete(b), UrlsGone(a, b))
           appeared == ToldUnless(Incomplete(a), Appeared(is, js))
           resolved == ToldUnless(Incomplete(b), Resolved(is, js))
           new2 == ToldUnless(Incomplete(b), UrlsNew(b, a))
           gone2 == ToldUnless(Incomplete(a), UrlsGone(b, a))
           appeared2 == ToldUnless(Incomplete(b), Appeared(js, is))
           resolved2 == ToldUnless(Incomplete(a), Resolved(js, is))
<1>1. CompareWithRules(a, b, choice).changes =
        new \cup gone \cup StatusChanges(a, b) \cup PageChanges(a, b) \cup appeared \cup resolved
        \cup RobotsChanges(a, b) \cup SitemapChanges(a, b)
  BY DEF CompareWithRules, ChosenRules
<1>2. CompareWithRules(b, a, choice).changes =
        new2 \cup gone2 \cup StatusChanges(b, a) \cup PageChanges(b, a) \cup appeared2 \cup resolved2
        \cup RobotsChanges(b, a) \cup SitemapChanges(b, a)
  BY DEF CompareWithRules, ChosenRules
<1>3. /\ {Turned(c) : c \in new} = gone2          /\ {Turned(c) : c \in gone} = new2
      /\ {Turned(c) : c \in appeared} = resolved2 /\ {Turned(c) : c \in resolved} = appeared2
  <2> HIDE DEF is, js
  <2> QED
    BY UrlsTurned, FindingsTurned DEF ToldUnless
<1>4. ASSUME NEW c \in new2 \cup gone2 \cup StatusChanges(b, a) \cup PageChanges(b, a) \cup appeared2 \cup resolved2
                        \cup SitemapChanges(b, a)
      PROVE  Plain(c) = c
  <2> HIDE DEF is, js
  <2>1. c[1] # "robots_txt_changed"
    <3>1. CASE c \in new2 \cup gone2
      BY <3>1 DEF ToldUnless, UrlsNew, UrlsGone, Change
    <3>2. CASE c \in StatusChanges(b, a)
      BY <3>2 DEF StatusChanges, Change
    <3>3. CASE c \in PageChanges(b, a)
      <4>1. c[1] \in {"title_changed", "meta_description_changed", "canonical_changed", "indexability_lost",
                      "indexability_gained"}
        BY <3>3, PageChangesNamed
      <4> QED
        BY <4>1
    <3>4. CASE c \in appeared2 \cup resolved2
      BY <3>4 DEF ToldUnless, Appeared, Resolved, Change
    <3>5. CASE c \in SitemapChanges(b, a)
      BY <3>5 DEF SitemapChanges, Change
    <3> QED
      BY <1>4, <3>1, <3>2, <3>3, <3>4, <3>5
  <2> QED
    BY <2>1 DEF Plain
<1> HIDE DEF is, js, new, gone, appeared, resolved, new2, gone2, appeared2, resolved2
<1>5. /\ {Turned(c) : c \in StatusChanges(a, b)} = StatusChanges(b, a)
      /\ {Turned(c) : c \in PageChanges(a, b)} = PageChanges(b, a)
      /\ {Turned(c) : c \in SitemapChanges(a, b)} = SitemapChanges(b, a)
      /\ {Turned(c) : c \in RobotsChanges(a, b)} = {Plain(c) : c \in RobotsChanges(b, a)}
  BY StatusTurned, PagesTurned, SitemapsTurned, RobotsTurned
<1>6. ASSUME NEW X, NEW Y
      PROVE  /\ {Turned(c) : c \in X \cup Y} = {Turned(c) : c \in X} \cup {Turned(c) : c \in Y}
             /\ {Plain(c) : c \in X \cup Y} = {Plain(c) : c \in X} \cup {Plain(c) : c \in Y}
  OBVIOUS
<1> DEFINE rest == new \cup gone \cup StatusChanges(a, b) \cup PageChanges(a, b) \cup appeared \cup resolved \cup SitemapChanges(a, b)
           rest2 == new2 \cup gone2 \cup StatusChanges(b, a) \cup PageChanges(b, a) \cup appeared2 \cup resolved2
                    \cup SitemapChanges(b, a)
<1>7. {Turned(c) : c \in rest} = rest2
  BY <1>3, <1>5
<1>8. {Plain(c) : c \in rest2} = rest2
  <2> HIDE DEF rest2
  <2>1. \A c \in rest2 : Plain(c) = c
    BY <1>4 DEF rest2
  <2> QED
    BY <2>1
<1>9. /\ CompareWithRules(a, b, choice).changes = rest \cup RobotsChanges(a, b)
      /\ CompareWithRules(b, a, choice).changes = rest2 \cup RobotsChanges(b, a)
  BY <1>1, <1>2
<1> HIDE DEF rest, rest2
<1>10. {Turned(c) : c \in CompareWithRules(a, b, choice).changes} = rest2 \cup {Plain(c) : c \in RobotsChanges(b, a)}
  BY <1>5, <1>6, <1>7, <1>9
<1>11. {Plain(c) : c \in CompareWithRules(b, a, choice).changes} = rest2 \cup {Plain(c) : c \in RobotsChanges(b, a)}
  BY <1>6, <1>8, <1>9
<1> QED
  BY <1>10, <1>11

(* What went worse one way went better the other way.                      *)
LEMMA WorseTurned ==
  ASSUME NEW S, NEW T, \A c \in S \cup T : IsChange(c), {Turned(c) : c \in S} = {Plain(c) : c \in T}
  PROVE  {Turned(c) : c \in Worse(S) \ OfType(S, {"robots_txt_changed"})} = Better(T)
<1> DEFINE bad(c) == \/ c[1] \in {"issue_appeared", "indexability_lost"}
                     \/ c[1] = "status_changed" /\ StatusRank(c[5]) > StatusRank(c[4])
           good(c) == \/ c[1] \in {"issue_resolved", "indexability_gained"}
                      \/ c[1] = "status_changed" /\ StatusRank(c[5]) < StatusRank(c[4])
<1>1. Worse(S) \ OfType(S, {"robots_txt_changed"}) = {c \in S : bad(c)}
  BY DEF Worse, OfType
<1>2. Better(T) = {d \in T : good(d)}
  BY DEF Better, OfType
<1>3. ASSUME NEW c \in S
      PROVE  bad(c) <=> good(Turned(c))
  <2>1. PICK t, u, field, before, after, severity : c = Change(t, u, field, before, after, severity)
    BY DEF IsChange
  <2>2. c[1] = t /\ c[4] = before /\ c[5] = after
    BY <2>1 DEF Change
  <2>3. Turned(c)[1] = Other(t) /\ Turned(c)[4] = after /\ Turned(c)[5] = before
    BY <2>1, TurnedIs DEF Change
  <2>4. /\ Other(t) \in {"issue_resolved", "indexability_gained"} <=> t \in {"issue_appeared", "indexability_lost"}
        /\ Other(t) = "status_changed" <=> t = "status_changed"
    BY DEF Other
  <2>5. StatusRank(before) \in 0..4 /\ StatusRank(after) \in 0..4
    BY DEF StatusRank
  <2> QED
    BY <2>2, <2>3, <2>4, <2>5
<1>4. ASSUME NEW d \in T
      PROVE  /\ good(Plain(d)) <=> good(d)
             /\ good(d) => Plain(d) = d
  <2>1. PICK t, u, field, before, after, severity : d = Change(t, u, field, before, after, severity)
    BY DEF IsChange
  <2>2. Plain(d)[1] = d[1] /\ Plain(d)[4] = d[4] /\ Plain(d)[5] = d[5]
    BY <2>1, PlainIs DEF Change
  <2>3. d[1] # "robots_txt_changed" => Plain(d) = d
    BY DEF Plain
  <2> QED
    BY <2>2, <2>3
<1> HIDE DEF bad, good
<1> QED
  BY <1>1, <1>2, <1>3, <1>4

TurnsAround(a, b, choice) ==
  LET o == CompareWithRules(a, b, choice)
      r == CompareWithRules(b, a, choice)
  IN /\ {Turned(c) : c \in o.changes} = {Plain(c) : c \in r.changes}
     /\ {Turned(c) : c \in Worse(o.changes) \ OfType(o.changes, {"robots_txt_changed"})} = Better(r.changes)
     /\ o.suppressed.urlsAdded = r.suppressed.urlsRemoved /\ o.suppressed.urlsRemoved = r.suppressed.urlsAdded
     /\ o.suppressed.resolved = r.suppressed.appeared /\ o.suppressed.appeared = r.suppressed.resolved
     /\ o.persisted = r.persisted /\ o.common = r.common

LEMMA ComparisonTurned ==
  ASSUME NEW a, NEW b, NEW choice, choice # {},
         IsFiniteSet(Rows(a.file)), IsFiniteSet(Rows(b.file)), IsFiniteSet(a.issues), IsFiniteSet(b.issues)
  PROVE  TurnsAround(a, b, choice)
<1> DEFINE o == CompareWithRules(a, b, choice)
           r == CompareWithRules(b, a, choice)
           rules == CHOOSE x \in choice : TRUE
           is == Configured(a, rules)
           js == Configured(b, rules)
<1>1. {Turned(c) : c \in o.changes} = {Plain(c) : c \in r.changes}
  BY ChangesTurned
<1>2. \A c \in o.changes \cup r.changes : IsChange(c)
  BY ChangesAreChanges
<1>3. /\ o.suppressed.urlsAdded = CountedIf(Incomplete(a), UrlsNew(a, b))
      /\ o.suppressed.urlsRemoved = CountedIf(Incomplete(b), UrlsGone(a, b))
      /\ o.suppressed.appeared = CountedIf(Incomplete(a), Appeared(is, js))
      /\ o.suppressed.resolved = CountedIf(Incomplete(b), Resolved(is, js))
      /\ o.persisted = Persisted(is, js) /\ o.common = Cardinality(Universe(a) \cap Universe(b))
  BY DEF CompareWithRules, ChosenRules
<1>4. /\ r.suppressed.urlsAdded = CountedIf(Incomplete(b), UrlsNew(b, a))
      /\ r.suppressed.urlsRemoved = CountedIf(Incomplete(a), UrlsGone(b, a))
      /\ r.suppressed.appeared = CountedIf(Incomplete(b), Appeared(js, is))
      /\ r.suppressed.resolved = CountedIf(Incomplete(a), Resolved(js, is))
      /\ r.persisted = Persisted(js, is) /\ r.common = Cardinality(Universe(b) \cap Universe(a))
  BY DEF CompareWithRules, ChosenRules
<1>5. IsFiniteSet(is) /\ IsFiniteSet(js)
  BY ConfiguredIsFinite
<1> HIDE DEF o, r, is, js
<1>6. {Turned(c) : c \in Worse(o.changes) \ OfType(o.changes, {"robots_txt_changed"})} = Better(r.changes)
  BY <1>1, <1>2, WorseTurned
<1>7. /\ CountedIf(Incomplete(a), UrlsNew(a, b)) = CountedIf(Incomplete(a), UrlsGone(b, a))
      /\ CountedIf(Incomplete(a), Appeared(is, js)) = CountedIf(Incomplete(a), Resolved(js, is))
  BY <1>5, SuppressedTurned
<1>8. /\ CountedIf(Incomplete(b), UrlsNew(b, a)) = CountedIf(Incomplete(b), UrlsGone(a, b))
      /\ CountedIf(Incomplete(b), Appeared(js, is)) = CountedIf(Incomplete(b), Resolved(is, js))
  BY <1>5, SuppressedTurned
<1>9. Persisted(is, js) = Persisted(js, is)
  BY <1>5, PersistedTurned
<1>10. Universe(a) \cap Universe(b) = Universe(b) \cap Universe(a)
  OBVIOUS
<1>11. /\ {Turned(c) : c \in o.changes} = {Plain(c) : c \in r.changes}
       /\ {Turned(c) : c \in Worse(o.changes) \ OfType(o.changes, {"robots_txt_changed"})} = Better(r.changes)
       /\ o.suppressed.urlsAdded = r.suppressed.urlsRemoved /\ o.suppressed.urlsRemoved = r.suppressed.urlsAdded
       /\ o.suppressed.resolved = r.suppressed.appeared /\ o.suppressed.appeared = r.suppressed.resolved
       /\ o.persisted = r.persisted /\ o.common = r.common
  BY <1>1, <1>3, <1>4, <1>6, <1>7, <1>8, <1>9, <1>10
<1> QED
  BY <1>11, Zenon DEF o, r, TurnsAround

LEMMA TurningAround ==
  ASSUME TablesFinite, FileKept
  PROVE  TurnedAround
<1> SUFFICES ASSUME phase = "idle", NEW a \in site.was, NEW choice \in GivenRules \ {{}}
             PROVE  TurnsAround(a, Current, choice)
  BY Zenon DEF TurnedAround, TurnsAround
<1>1. IsFiniteSet(Rows(a.file)) /\ IsFiniteSet(a.issues)
  BY CompareAssumption DEF FileKept, Rows
<1>2. Current.file = file /\ Current.issues = BagToSet(issues)
  BY DEF Current
<1>3. IsFiniteSet(Rows(Current.file)) /\ IsFiniteSet(Current.issues)
  BY <1>2 DEF TablesFinite, FiniteFile, LinksLand, BagToSet
<1>4. choice # {}
  OBVIOUS
<1> QED
  BY <1>1, <1>3, <1>4, ComparisonTurned

-----------------------------------------------------------------------------
(* The groups of pages alike: what the union-find of the rule leaves.      *)

(* The root above u, N parents up.                                         *)
RootOf(parent, u, N) ==
  LET up[n \in 0..N] == IF n = 0 THEN u ELSE parent[up[n - 1]]
  IN up[N]
Climbs(up, parent, u, N) == up[0] = u /\ \A n \in 1..N : up[n] = parent[up[n - 1]]

LEMMA RootOfIs ==
  ASSUME NEW S, NEW parent \in [S -> S], NEW u \in S, NEW N \in Nat
  PROVE  \E up \in [0..N -> S] : Climbs(up, parent, u, N) /\ RootOf(parent, u, N) = up[N]
<1> DEFINE step(h, n) == IF n = 0 THEN u ELSE parent[h[n - 1]]
           up == CHOOSE h : h = [n \in 0..N |-> step(h, n)]
           F == [n \in Nat |-> parent]
<1>1. RootOf(parent, u, N) = up[N]
  BY DEF RootOf
<1>2. PICK h \in [0..N -> S] : Goes(h, N, F, u)
  <2>1. F \in [Nat -> [S -> S]]
    OBVIOUS
  <2> HIDE DEF F
  <2> QED
    BY <2>1, GoesUpTo
<1>3. h[0] = u /\ \A n \in 1..N : h[n] = parent[h[n - 1]]
  BY <1>2 DEF Goes
<1>4. h = [n \in 0..N |-> step(h, n)]
  <2>1. \A n \in 0..N : h[n] = step(h, n)
    <3> SUFFICES ASSUME NEW n \in 0..N PROVE h[n] = step(h, n)
      OBVIOUS
    <3>1. n = 0 \/ n \in 1..N
      OBVIOUS
    <3> QED
      BY <1>3, <3>1
  <2> HIDE DEF step
  <2> QED
    BY <1>2, <2>1
<1>5. up = [n \in 0..N |-> step(up, n)]
  BY <1>4
<1> HIDE DEF up
<1>6. Climbs(up, parent, u, N)
  BY <1>5 DEF Climbs
<1> DEFINE T == {n \in 0..N : up[n] \in S}
<1>7. 0 \in T
  BY <1>6 DEF Climbs
<1>8. ASSUME NEW n \in 1..N, n - 1 \in T PROVE n \in T
  <2>1. up[n] = parent[up[n - 1]] /\ n \in 0..N
    BY <1>6 DEF Climbs
  <2> QED
    BY <1>8, <2>1
<1>9. 0..N \subseteq T
  <2> HIDE DEF T
  <2> QED
    BY <1>7, <1>8, UpTo
<1>10. up \in [0..N -> S]
  BY <1>5, <1>9
<1> QED
  BY <1>1, <1>6, <1>10

(* A forest: R gives the root above each, d how far it is at most, and no  *)
(* way up is as long as its tree is large.                                 *)
TreeOf(S, R, u) == {v \in S : R[v] = R[u]}
Forest(S, parent, R, d) ==
  /\ parent \in [S -> S] /\ R \in [S -> S] /\ d \in [S -> Nat]
  /\ \A u \in S : /\ d[u] = 0 => parent[u] = u /\ R[u] = u
                  /\ d[u] # 0 => d[parent[u]] < d[u] /\ R[parent[u]] = R[u]
                  /\ d[R[u]] = 0
                  /\ d[u] < Cardinality(TreeOf(S, R, u))

LEMMA RootIs ==
  ASSUME NEW S, IsFiniteSet(S), NEW parent, NEW R, NEW d, Forest(S, parent, R, d), NEW u \in S
  PROVE  RootOf(parent, u, Cardinality(S)) = R[u]
<1> DEFINE N == Cardinality(S)
<1>1. N \in Nat /\ d[u] < N
  <2>1. TreeOf(S, R, u) \subseteq S
    BY DEF TreeOf
  <2>2. Cardinality(TreeOf(S, R, u)) \in Nat /\ Cardinality(TreeOf(S, R, u)) <= N /\ N \in Nat
    BY <2>1, FS_Subset, FS_CardinalityType
  <2>3. d[u] \in Nat /\ d[u] < Cardinality(TreeOf(S, R, u))
    BY DEF Forest
  <2> HIDE DEF N
  <2> QED
    BY <2>2, <2>3
<1> HIDE DEF N
<1>2. PICK up \in [0..N -> S] : Climbs(up, parent, u, N) /\ RootOf(parent, u, N) = up[N]
  <2>1. parent \in [S -> S]
    BY DEF Forest
  <2> QED
    BY <1>1, <2>1, RootOfIs
<1> DEFINE T == {n \in 0..N : R[up[n]] = R[u] /\ (d[up[n]] = 0 \/ d[up[n]] + n <= d[u])}
<1>3. 0 \in T
  BY <1>1, <1>2 DEF Climbs, Forest
<1>4. ASSUME NEW n \in 1..N, n - 1 \in T PROVE n \in T
  <2> DEFINE v == up[n - 1]
  <2>1. n - 1 \in 0..N /\ n \in 0..N /\ v \in S /\ up[n] = parent[v]
    BY <1>1, <1>2 DEF Climbs
  <2>2. R[v] = R[u] /\ (d[v] = 0 \/ d[v] + (n - 1) <= d[u])
    BY <1>4
  <2>3. d[v] \in Nat /\ parent[v] \in S /\ d[parent[v]] \in Nat /\ d[u] \in Nat
    BY <2>1 DEF Forest
  <2>4. /\ d[v] = 0 => parent[v] = v
        /\ d[v] # 0 => d[parent[v]] < d[v] /\ R[parent[v]] = R[v]
    BY <2>1 DEF Forest
  <2> HIDE DEF v
  <2> QED
    BY <2>1, <2>2, <2>3, <2>4
<1>5. 0..N \subseteq T
  <2> HIDE DEF T
  <2> QED
    BY <1>1, <1>3, <1>4, UpTo
<1>6. N \in 0..N
  BY <1>1
<1>7. up[N] \in S /\ R[up[N]] = R[u] /\ (d[up[N]] = 0 \/ d[up[N]] + N <= d[u])
  BY <1>2, <1>5, <1>6
<1>8. d[up[N]] \in Nat /\ d[u] \in Nat
  BY <1>7 DEF Forest
<1>9. d[up[N]] = 0
  BY <1>1, <1>7, <1>8
<1>10. R[up[N]] = up[N]
  BY <1>7, <1>9 DEF Forest
<1> QED
  BY <1>2, <1>7, <1>10 DEF N

(* A root b put under another, a: the two trees are one.                   *)
Under(parent, a, b) == [parent EXCEPT ![b] = a]
OneTree(S, R, a, b) == [u \in S |-> IF R[u] = b THEN a ELSE R[u]]

LEMMA RootUnder ==
  ASSUME NEW S, IsFiniteSet(S), NEW parent, NEW R, NEW d, Forest(S, parent, R, d),
         NEW a \in S, NEW b \in S, R[a] = a, R[b] = b, a # b
  PROVE  \E e : Forest(S, Under(parent, a, b), OneTree(S, R, a, b), e)
<1> DEFINE parent2 == [parent EXCEPT ![b] = a]
           R2 == [u \in S |-> IF R[u] = b THEN a ELSE R[u]]
           e == [u \in S |-> IF R[u] = b THEN d[u] + 1 ELSE d[u]]
           A == {v \in S : R[v] = a}
           B == {v \in S : R[v] = b}
<1>0. /\ parent \in [S -> S] /\ R \in [S -> S] /\ d \in [S -> Nat] /\ d[a] = 0 /\ d[b] = 0
  BY DEF Forest
<1>1. parent2 \in [S -> S] /\ R2 \in [S -> S] /\ e \in [S -> Nat]
  BY <1>0
<1>2. /\ Cardinality(A \cup B) = Cardinality(A) + Cardinality(B)
      /\ Cardinality(A) \in Nat /\ Cardinality(B) \in Nat /\ Cardinality(A) > 0
  <2>1. A \cap B = {} /\ IsFiniteSet(A) /\ IsFiniteSet(B) /\ A # {}
    BY FS_Subset
  <2>2. IsFiniteSet({}) /\ Cardinality({}) = 0
    BY FS_EmptySet
  <2> HIDE DEF A, B
  <2>3. Cardinality(A \cup B) = Cardinality(A) + Cardinality(B) - Cardinality(A \cap B)
    BY <2>1, FS_Union
  <2>4. Cardinality(A) \in Nat /\ Cardinality(B) \in Nat /\ Cardinality(A) # 0
    BY <2>1, FS_CardinalityType, FS_EmptySet
  <2> QED
    BY <2>1, <2>2, <2>3, <2>4
<1>3. ASSUME NEW u \in S
      PROVE  /\ e[u] = 0 => parent2[u] = u /\ R2[u] = u
             /\ e[u] # 0 => e[parent2[u]] < e[u] /\ R2[parent2[u]] = R2[u]
             /\ e[R2[u]] = 0
             /\ e[u] < Cardinality(TreeOf(S, R2, u))
  <2>0. /\ d[u] \in Nat /\ parent[u] \in S /\ R[u] \in S /\ d[parent[u]] \in Nat
        /\ d[u] = 0 => parent[u] = u /\ R[u] = u
        /\ d[u] # 0 => d[parent[u]] < d[u] /\ R[parent[u]] = R[u]
        /\ d[R[u]] = 0
        /\ d[u] < Cardinality(TreeOf(S, R, u))
    BY <1>0 DEF Forest
  <2>1. e[u] = (IF R[u] = b THEN d[u] + 1 ELSE d[u]) /\ R2[u] = (IF R[u] = b THEN a ELSE R[u])
    OBVIOUS
  <2>2. parent2[u] = IF u = b THEN a ELSE parent[u]
    BY <1>0
  <2>3. R[R[u]] = R[u]
    BY <2>0, <1>0 DEF Forest
  <2>4. e[u] = 0 => parent2[u] = u /\ R2[u] = u
    BY <2>0, <2>1, <2>2
  <2>5. e[u] # 0 => e[parent2[u]] < e[u] /\ R2[parent2[u]] = R2[u]
    <3>1. CASE u = b
      BY <1>0, <2>1, <2>2, <3>1
    <3>2. CASE u # b
      <4>1. parent2[u] = parent[u] /\ parent[u] \in S
        BY <2>0, <2>2, <3>2
      <4>2. e[parent[u]] = (IF R[parent[u]] = b THEN d[parent[u]] + 1 ELSE d[parent[u]])
        BY <4>1
      <4>3. R2[parent[u]] = (IF R[parent[u]] = b THEN a ELSE R[parent[u]])
        BY <4>1
      <4>4. e[u] # 0 => d[u] # 0
        BY <2>0, <2>1, <3>2
      <4> HIDE DEF e, R2, parent2
      <4> QED
        BY <2>0, <2>1, <4>1, <4>2, <4>3, <4>4
    <3> QED
      BY <3>1, <3>2
  <2>6. e[R2[u]] = 0
    <3>1. CASE R[u] = b
      BY <1>0, <2>1, <3>1
    <3>2. CASE R[u] # b
      <4>1. R2[u] = R[u] /\ R[u] \in S /\ e[R[u]] = d[R[u]]
        BY <2>0, <2>1, <2>3, <3>2
      <4> QED
        BY <2>0, <4>1
    <3> QED
      BY <3>1, <3>2
  <2>7. e[u] < Cardinality(TreeOf(S, R2, u))
    <3>1. CASE R[u] = b
      <4>1. TreeOf(S, R2, u) = A \cup B /\ TreeOf(S, R, u) = B
        BY <2>1, <3>1 DEF TreeOf
      <4> HIDE DEF A, B
      <4>2. e[u] = d[u] + 1 /\ d[u] < Cardinality(B) /\ d[u] \in Nat
        BY <2>0, <2>1, <3>1, <4>1
      <4> HIDE DEF e, R2
      <4>3. e[u] < Cardinality(A) + Cardinality(B)
        BY <1>2, <4>2
      <4> QED
        BY <1>2, <4>1, <4>3
    <3>2. CASE R[u] = a
      <4>1. TreeOf(S, R2, u) = A \cup B /\ TreeOf(S, R, u) = A
        BY <2>1, <3>2 DEF TreeOf
      <4> HIDE DEF A, B
      <4>2. e[u] = d[u] /\ d[u] < Cardinality(A) /\ d[u] \in Nat
        BY <2>0, <2>1, <3>2, <4>1
      <4> HIDE DEF e, R2
      <4>3. e[u] < Cardinality(A) + Cardinality(B)
        BY <1>2, <4>2
      <4> QED
        BY <1>2, <4>1, <4>3
    <3>3. CASE R[u] # a /\ R[u] # b
      <4>1. TreeOf(S, R2, u) = TreeOf(S, R, u) /\ e[u] = d[u]
        BY <2>1, <3>3 DEF TreeOf
      <4> QED
        BY <2>0, <4>1
    <3> QED
      BY <3>1, <3>2, <3>3
  <2> QED
    BY <2>4, <2>5, <2>6, <2>7
<1> HIDE DEF parent2, R2, e
<1>4. Forest(S, parent2, R2, e)
  BY <1>1, <1>3 DEF Forest
<1> QED
  BY <1>4 DEF parent2, R2, Under, OneTree

(* The pairs s are joined, and nothing but what the pairs E join.          *)
Shut(E, X) == \A p \in E : p[1] \in X <=> p[2] \in X
Apart(S, E, R) == \A X \in SUBSET S : Shut(E, X) => \A u \in S : \A v \in S : R[u] = R[v] /\ u \in X => v \in X
Together(R, s) == \A p \in s : R[p[1]] = R[p[2]]
JoinedBy(S, E, s, parent) == \E R, d : Forest(S, parent, R, d) /\ Together(R, s) /\ Apart(S, E, R)

LEMMA NothingJoined ==
  ASSUME NEW S, NEW E
  PROVE  JoinedBy(S, E, {}, [u \in S |-> u])
<1> DEFINE R == [u \in S |-> u]
           d == [u \in S |-> 0]
<1>1. ASSUME NEW u \in S PROVE d[u] < Cardinality(TreeOf(S, R, u))
  <2>1. TreeOf(S, R, u) = {u}
    BY DEF TreeOf
  <2>2. Cardinality({u}) = 1 /\ d[u] = 0
    BY FS_Singleton
  <2> QED
    BY <2>1, <2>2
<1>2. Forest(S, R, R, d)
  BY <1>1 DEF Forest
<1>3. Together(R, {}) /\ Apart(S, E, R)
  BY DEF Together, Apart
<1> QED
  BY <1>2, <1>3 DEF JoinedBy

LEMMA PairJoined ==
  ASSUME NEW S, IsFiniteSet(S), NEW E \in SUBSET (S \X S), NEW s \in SUBSET E, NEW p \in E,
         NEW parent, JoinedBy(S, E, s, parent), NEW a, NEW b, NEW parent2,
         a = RootOf(parent, p[1], Cardinality(S)), b = RootOf(parent, p[2], Cardinality(S)),
         \/ a = b /\ parent2 = parent
         \/ a # b /\ parent2 \in {[parent EXCEPT ![b] = a], [parent EXCEPT ![a] = b]}
  PROVE  JoinedBy(S, E, s \cup {p}, parent2)
<1>1. PICK R, d : Forest(S, parent, R, d) /\ Together(R, s) /\ Apart(S, E, R)
  BY DEF JoinedBy
<1>2. p[1] \in S /\ p[2] \in S /\ a = R[p[1]] /\ b = R[p[2]] /\ a \in S /\ b \in S
  <2>1. p[1] \in S /\ p[2] \in S
    OBVIOUS
  <2>2. a = R[p[1]] /\ b = R[p[2]]
    BY <1>1, <2>1, RootIs
  <2> QED
    BY <1>1, <2>1, <2>2 DEF Forest
<1>3. \A u \in S : R[u] \in S /\ R[R[u]] = R[u]
  BY <1>1 DEF Forest
<1>4. CASE a = b /\ parent2 = parent
  <2>1. Together(R, s \cup {p})
    BY <1>1, <1>2, <1>4 DEF Together
  <2> QED
    BY <1>1, <1>4, <2>1 DEF JoinedBy
<1>5. ASSUME NEW x \in {a, b}, NEW y \in {a, b}, x # y, parent2 = [parent EXCEPT ![y] = x]
      PROVE  JoinedBy(S, E, s \cup {p}, parent2)
  <2> DEFINE R2 == [u \in S |-> IF R[u] = y THEN x ELSE R[u]]
  <2>1. x \in S /\ y \in S /\ R[x] = x /\ R[y] = y
    BY <1>2, <1>3
  <2>f. Forest(S, parent, R, d)
    BY <1>1
  <2>e. \E e : Forest(S, Under(parent, x, y), OneTree(S, R, x, y), e)
    BY <1>5, <2>f, <2>1, RootUnder
  <2>2. PICK e : Forest(S, parent2, R2, e)
    BY <1>5, <2>e DEF Under, OneTree
  <2>3. Together(R2, s \cup {p})
    <3>1. \A q \in s \cup {p} : q[1] \in S /\ q[2] \in S
      OBVIOUS
    <3>2. \A q \in s : R2[q[1]] = R2[q[2]]
      BY <1>1, <3>1 DEF Together
    <3>3. R2[p[1]] = x /\ R2[p[2]] = x
      BY <1>2, <1>5
    <3> HIDE DEF R2
    <3> QED
      BY <3>2, <3>3 DEF Together
  <2>4. Apart(S, E, R2)
    <3> SUFFICES ASSUME NEW X \in SUBSET S, Shut(E, X), NEW u \in S, NEW v \in S, R2[u] = R2[v], u \in X
                 PROVE  v \in X
      BY Zenon DEF Apart
    <3>1. \A w \in S : \A z \in S : R[w] = R[z] /\ w \in X => z \in X
      BY <1>1 DEF Apart
    <3>2. a \in X <=> b \in X
      <4>1. a \in X <=> p[1] \in X
        BY <1>2, <1>3, <3>1
      <4>2. b \in X <=> p[2] \in X
        BY <1>2, <1>3, <3>1
      <4>3. p[1] \in X <=> p[2] \in X
        BY DEF Shut
      <4> QED
        BY <4>1, <4>2, <4>3
    <3>3. u \in X <=> R[u] \in X
      BY <1>3, <3>1
    <3>4. v \in X <=> R[v] \in X
      BY <1>3, <3>1
    <3>5. R[u] = R[v] \/ (R[u] \in {a, b} /\ R[v] \in {a, b})
      <4>1. R2[u] = (IF R[u] = y THEN x ELSE R[u]) /\ R2[v] = (IF R[v] = y THEN x ELSE R[v])
        OBVIOUS
      <4> HIDE DEF R2
      <4> QED
        BY <1>5, <4>1
    <3> QED
      BY <3>2, <3>3, <3>4, <3>5
  <2> HIDE DEF R2
  <2> QED
    BY <2>2, <2>3, <2>4 DEF JoinedBy
<1> QED
  BY <1>4, <1>5

-----------------------------------------------------------------------------
(* The fold over the pairs.                                                *)

Joined(f) == {p \in Signed(f) \X Signed(f) : Joins(f, p[1], p[2])}
JoinPair(f, p, parent) ==
  LET a == RootOf(parent, p[1], Cardinality(Signed(f)))
      b == RootOf(parent, p[2], Cardinality(Signed(f)))
  IN IF a = b THEN parent ELSE IF Before(f, a, b) THEN [parent EXCEPT ![b] = a] ELSE [parent EXCEPT ![a] = b]
OnePair(s) == CHOOSE p \in s : TRUE
FoldStep(f, g, s) ==
  IF s = {} THEN [u \in Signed(f) |-> u] ELSE JoinPair(f, OnePair(s), g[s \ {OnePair(s)}])
Folded(f) == CHOOSE g : g = [s \in SUBSET Joined(f) |-> FoldStep(f, g, s)]

LEMMA NearParentsAre ==
  ASSUME NEW f
  PROVE  NearParents(f) = [u \in Signed(f) |-> RootOf(Folded(f)[Joined(f)], u, Cardinality(Signed(f)))]
BY DEF NearParents, FoldSet, MapThenFoldSet, RootOf, Joined, JoinPair, OnePair, FoldStep, Folded

LEMMA OneLess ==
  ASSUME NEW E, IsFiniteSet(E), NEW s \in SUBSET E, s # {}
  PROVE  /\ OnePair(s) \in s /\ s \ {OnePair(s)} \in SUBSET E
         /\ Cardinality(s \ {OnePair(s)}) = Cardinality(s) - 1
         /\ Cardinality(s) \in Nat /\ Cardinality(s) # 0
<1>1. OnePair(s) \in s
  BY DEF OnePair
<1>2. IsFiniteSet(s)
  BY FS_Subset
<1> QED
  BY <1>1, <1>2, FS_RemoveElement, FS_CardinalityType, FS_EmptySet

LEMMA FoldedIs ==
  ASSUME NEW f, IsFiniteSet(Signed(f))
  PROVE  Folded(f) = [s \in SUBSET Joined(f) |-> FoldStep(f, Folded(f), s)]
<1> DEFINE E == Joined(f)
           Good(g, n) == \A s \in SUBSET E : Cardinality(s) <= n => g[s] = FoldStep(f, g, s)
           T == {n \in Nat : \E g : Good(g, n)}
<1>1. IsFiniteSet(E)
  BY FS_Product, FS_Subset DEF Joined
<1>2. Cardinality(E) \in Nat /\ \A s \in SUBSET E : Cardinality(s) \in Nat /\ Cardinality(s) <= Cardinality(E)
  BY <1>1, FS_Subset, FS_CardinalityType
<1>3. \A s \in SUBSET E : Cardinality(s) = 0 => s = {}
  BY <1>1, FS_Subset, FS_EmptySet
<1>e. Cardinality({}) = 0
  BY FS_EmptySet
<1> HIDE DEF E
<1>4. 0 \in T
  <2> DEFINE g == [s \in SUBSET E |-> [u \in Signed(f) |-> u]]
  <2>1. Good(g, 0)
    <3> SUFFICES ASSUME NEW s \in SUBSET E, Cardinality(s) <= 0 PROVE g[s] = FoldStep(f, g, s)
      OBVIOUS
    <3>1. s = {}
      BY <1>2, <1>3
    <3> QED
      BY <3>1 DEF FoldStep
  <2> QED
    BY <2>1
<1>5. ASSUME NEW n \in T PROVE n + 1 \in T
  <2>1. PICK g : Good(g, n)
    OBVIOUS
  <2>n. n \in Nat
    OBVIOUS
  <2> DEFINE h == [s \in SUBSET E |-> IF Cardinality(s) <= n THEN g[s] ELSE FoldStep(f, g, s)]
  <2>2. Good(h, n + 1)
    <3> SUFFICES ASSUME NEW s \in SUBSET E, Cardinality(s) <= n + 1 PROVE h[s] = FoldStep(f, h, s)
      OBVIOUS
    <3>1. h[s] = FoldStep(f, g, s)
      BY <2>1
    <3>2. CASE s = {}
      BY <3>1, <3>2 DEF FoldStep
    <3>3. CASE s # {}
      <4> DEFINE less == s \ {OnePair(s)}
      <4>1. less \in SUBSET E /\ Cardinality(less) = Cardinality(s) - 1 /\ Cardinality(s) \in Nat
        BY <1>1, <3>3, OneLess
      <4>2. Cardinality(less) <= n
        BY <2>n, <4>1
      <4>3. h[less] = g[less]
        BY <4>1, <4>2
      <4> HIDE DEF h
      <4> QED
        BY <3>1, <3>3, <4>3 DEF FoldStep
    <3> QED
      BY <3>2, <3>3
  <2> HIDE DEF h, Good
  <2> QED
    BY <2>n, <2>2
<1>6. T = Nat
  <2> HIDE DEF T
  <2>1. T \in SUBSET Nat
    BY DEF T
  <2> QED
    BY <1>4, <1>5, <2>1, UpFromZero
<1>7. PICK g : Good(g, Cardinality(E))
  BY <1>2, <1>6
<1> DEFINE h == [s \in SUBSET E |-> g[s]]
<1>8. h = [s \in SUBSET E |-> FoldStep(f, h, s)]
  <2>1. ASSUME NEW s \in SUBSET E PROVE h[s] = FoldStep(f, h, s)
    <3>1. h[s] = FoldStep(f, g, s)
      BY <1>2, <1>7
    <3>2. CASE s = {}
      BY <3>1, <3>2 DEF FoldStep
    <3>3. CASE s # {}
      <4>1. s \ {OnePair(s)} \in SUBSET E
        BY <1>1, <3>3, OneLess
      <4>2. h[s \ {OnePair(s)}] = g[s \ {OnePair(s)}]
        BY <4>1
      <4> HIDE DEF h
      <4> QED
        BY <3>1, <3>3, <4>2 DEF FoldStep
    <3> QED
      BY <3>2, <3>3
  <2>2. h = [s \in SUBSET E |-> h[s]]
    OBVIOUS
  <2> HIDE DEF h
  <2> QED
    BY <2>1, <2>2
<1> HIDE DEF h
<1>9. (CHOOSE x : x = [s \in SUBSET E |-> FoldStep(f, x, s)])
      = [s \in SUBSET E |-> FoldStep(f, (CHOOSE x : x = [s2 \in SUBSET E |-> FoldStep(f, x, s2)]), s)]
  BY <1>8
<1> QED
  BY <1>9 DEF Folded, E

LEMMA FoldedJoins ==
  ASSUME NEW f, IsFiniteSet(Signed(f))
  PROVE  JoinedBy(Signed(f), Joined(f), Joined(f), Folded(f)[Joined(f)])
<1> DEFINE S == Signed(f)
           E == Joined(f)
           g == Folded(f)
           T == {n \in Nat : \A s \in SUBSET E : Cardinality(s) <= n => JoinedBy(S, E, s, g[s])}
<1>1. IsFiniteSet(E) /\ E \in SUBSET (S \X S)
  BY FS_Product, FS_Subset DEF Joined
<1>2. Cardinality(E) \in Nat /\ \A s \in SUBSET E : Cardinality(s) \in Nat /\ Cardinality(s) <= Cardinality(E)
  BY <1>1, FS_Subset, FS_CardinalityType
<1>3. \A s \in SUBSET E : Cardinality(s) = 0 => s = {}
  BY <1>1, FS_Subset, FS_EmptySet
<1>4. \A s \in SUBSET E : g[s] = FoldStep(f, g, s)
  BY FoldedIs
<1>5. IsFiniteSet(S)
  OBVIOUS
<1>6. \A p, parent : JoinPair(f, p, parent) =
        LET a == RootOf(parent, p[1], Cardinality(S))  b == RootOf(parent, p[2], Cardinality(S))
        IN IF a = b THEN parent ELSE IF Before(f, a, b) THEN [parent EXCEPT ![b] = a] ELSE [parent EXCEPT ![a] = b]
  BY DEF JoinPair
<1>7. FoldStep(f, g, {}) = [u \in S |-> u] /\ \A s : s # {} => FoldStep(f, g, s) = JoinPair(f, OnePair(s), g[s \ {OnePair(s)}])
  BY DEF FoldStep
<1> HIDE DEF S, E, g
<1>8. JoinedBy(S, E, {}, g[{}])
  BY <1>4, <1>7, NothingJoined
<1>9. 0 \in T
  BY <1>2, <1>3, <1>8
<1>10. ASSUME NEW n \in T PROVE n + 1 \in T
  <2>n. n \in Nat
    OBVIOUS
  <2> SUFFICES ASSUME NEW s \in SUBSET E, Cardinality(s) <= n + 1 PROVE JoinedBy(S, E, s, g[s])
    BY <2>n
  <2>1. CASE s = {}
    BY <1>8, <2>1
  <2>2. CASE s # {}
    <3> DEFINE p == OnePair(s)
               less == s \ {p}
               parent == g[less]
               a == RootOf(parent, p[1], Cardinality(S))
               b == RootOf(parent, p[2], Cardinality(S))
    <3>1. /\ less \in SUBSET E /\ Cardinality(less) = Cardinality(s) - 1 /\ Cardinality(s) \in Nat
          /\ p \in s /\ p \in E
      BY <1>1, <2>2, OneLess
    <3>2. Cardinality(less) <= n
      BY <2>n, <3>1
    <3>3. JoinedBy(S, E, less, parent)
      BY <3>1, <3>2
    <3>4. g[s] = IF a = b THEN parent ELSE IF Before(f, a, b) THEN [parent EXCEPT ![b] = a] ELSE [parent EXCEPT ![a] = b]
      <4>1. g[s] = JoinPair(f, p, parent)
        BY <1>4, <1>7, <2>2
      <4> HIDE DEF p, less, parent
      <4> QED
        BY <1>6, <4>1
    <3>5. s = less \cup {p}
      BY <3>1
    <3> HIDE DEF p, less, parent
    <3>6. \/ a = b /\ g[s] = parent
          \/ a # b /\ g[s] \in {[parent EXCEPT ![b] = a], [parent EXCEPT ![a] = b]}
      BY <3>4
    <3>7. JoinedBy(S, E, less \cup {p}, g[s])
      BY <1>1, <1>5, <3>1, <3>3, <3>6, PairJoined
    <3> QED
      BY <3>5, <3>7
  <2> QED
    BY <2>1, <2>2
<1>11. T = Nat
  <2> HIDE DEF T
  <2>1. T \in SUBSET Nat
    BY DEF T
  <2> QED
    BY <1>9, <1>10, <2>1, UpFromZero
<1>12. E \in SUBSET E /\ Cardinality(E) \in T
  BY <1>2, <1>11
<1> QED
  BY <1>2, <1>12 DEF S, E, g

-----------------------------------------------------------------------------
(* What is alike through others.                                           *)

Alikes(f) == {p \in Signed(f) \X Signed(f) : Resemble(f, p[1], p[2])}
Alike(f, us) == us \cup {w \in Signed(f) : \E x \in us : Resemble(f, w, x) \/ Resemble(f, x, w)}

LEMMA PartIs ==
  ASSUME NEW f, IsFiniteSet(Signed(f)), NEW u \in Signed(f)
  PROVE  /\ AlikePart(f, u) \in SUBSET Signed(f) /\ u \in AlikePart(f, u) /\ Shut(Alikes(f), AlikePart(f, u))
         /\ \A X \in SUBSET Signed(f) : Shut(Alikes(f), X) /\ u \in X => AlikePart(f, u) \subseteq X
<1> DEFINE S == Signed(f)
           N == Cardinality(S)
           F == [n \in Nat |-> [us \in SUBSET S |-> Alike(f, us)]]
           step(h, n) == IF n = 0 THEN {u} ELSE Alike(f, h[n - 1])
           part == CHOOSE h : h = [n \in 0..N |-> step(h, n)]
<1>1. AlikePart(f, u) = part[N]
  BY DEF AlikePart, Alike
<1>2. N \in Nat /\ IsFiniteSet(S)
  BY FS_CardinalityType
<1>3. PICK g \in [Nat -> SUBSET S] : \A M \in Nat : Goes(g, M, F, {u})
  <2>1. F \in [Nat -> [SUBSET S -> SUBSET S]] /\ {u} \in SUBSET S
    BY DEF Alike
  <2> HIDE DEF F, S
  <2> QED
    BY <2>1, GoesOn
<1>4. g[0] = {u}
  <2>1. Goes(g, 0, F, {u})
    BY <1>3
  <2> QED
    BY <2>1 DEF Goes
<1>5. ASSUME NEW n \in Nat PROVE g[n + 1] = Alike(f, g[n])
  <2>1. n + 1 \in Nat /\ n + 1 \in 1..(n + 1) /\ (n + 1) - 1 = n
    OBVIOUS
  <2>2. g[n + 1] = F[n + 1][g[n]]
    BY <1>3, <2>1 DEF Goes
  <2> QED
    BY <1>3, <2>1, <2>2
<1> HIDE DEF N
<1>6. part = [n \in 0..N |-> step(part, n)]
  <2> DEFINE start == [n \in 0..N |-> g[n]]
  <2>1. ASSUME NEW n \in 0..N PROVE start[n] = step(start, n)
    <3>1. CASE n = 0
      BY <1>4, <3>1
    <3>2. CASE n # 0
      <4>1. n - 1 \in Nat /\ n - 1 \in 0..N /\ (n - 1) + 1 = n
        BY <1>2, <3>2
      <4>2. g[(n - 1) + 1] = Alike(f, g[n - 1])
        BY <1>5, <4>1
      <4> QED
        BY <3>2, <4>1, <4>2
    <3> QED
      BY <3>1, <3>2
  <2>2. start = [n \in 0..N |-> step(start, n)]
    <3>1. start = [n \in 0..N |-> start[n]]
      OBVIOUS
    <3> HIDE DEF start, step
    <3> QED
      BY <2>1, <3>1
  <2> HIDE DEF start
  <2> QED
    BY <2>2
<1> HIDE DEF part
<1> DEFINE T == {n \in 0..N : part[n] = g[n]}
<1>7. 0 \in T
  BY <1>2, <1>4, <1>6
<1>8. ASSUME NEW n \in 1..N, n - 1 \in T PROVE n \in T
  <2>1. n \in 0..N /\ n # 0 /\ n - 1 \in Nat /\ (n - 1) + 1 = n
    BY <1>2
  <2>2. part[n] = Alike(f, part[n - 1])
    BY <1>6, <2>1
  <2>3. g[n] = Alike(f, g[n - 1])
    BY <1>5, <2>1
  <2> QED
    BY <1>8, <2>1, <2>2, <2>3
<1>9. 0..N \subseteq T
  <2> HIDE DEF T
  <2> QED
    BY <1>2, <1>7, <1>8, UpTo
<1>10. AlikePart(f, u) = g[N]
  BY <1>1, <1>2, <1>9
<1>11. \A n \in Nat : g[n] \subseteq g[N]
  <2>1. ASSUME NEW n \in Nat PROVE g[n] \subseteq g[n + 1] /\ (g[n + 1] = g[n] => g[(n + 1) + 1] = g[n + 1])
    <3>1. n + 1 \in Nat /\ g[n + 1] = Alike(f, g[n]) /\ g[(n + 1) + 1] = Alike(f, g[n + 1])
      BY <1>5
    <3> QED
      BY <3>1 DEF Alike
  <2> HIDE DEF S
  <2> QED
    BY <1>2, <1>3, <2>1, Saturates DEF N
<1>12. g[N] \in SUBSET S /\ u \in g[N]
  BY <1>2, <1>3, <1>4, <1>11
<1>13. Shut(Alikes(f), g[N])
  <2>1. Alike(f, g[N]) \subseteq g[N]
    <3>1. N + 1 \in Nat /\ g[N + 1] = Alike(f, g[N])
      BY <1>2, <1>5
    <3> QED
      BY <1>11, <3>1
  <2> QED
    BY <2>1 DEF Shut, Alikes, Alike
<1>14. ASSUME NEW X \in SUBSET S, Shut(Alikes(f), X), u \in X PROVE g[N] \subseteq X
  <2> DEFINE V == {n \in Nat : g[n] \subseteq X}
  <2>1. 0 \in V
    BY <1>4, <1>14
  <2>2. ASSUME NEW n \in V PROVE n + 1 \in V
    <3>1. n \in Nat /\ g[n] \subseteq X /\ g[n + 1] = Alike(f, g[n]) /\ g[n] \in SUBSET S
      BY <1>3, <1>5
    <3>2. ASSUME NEW w \in Signed(f), NEW x \in g[n], Resemble(f, w, x) \/ Resemble(f, x, w) PROVE w \in X
      <4>1. x \in X /\ x \in Signed(f)
        BY <3>1
      <4>2. <<w, x>> \in Alikes(f) \/ <<x, w>> \in Alikes(f)
        BY <3>2, <4>1 DEF Alikes
      <4> QED
        BY <1>14, <4>1, <4>2 DEF Shut
    <3>3. g[n + 1] \subseteq X
      BY <3>1, <3>2 DEF Alike
    <3> QED
      BY <3>1, <3>3
  <2>3. V = Nat
    <3> HIDE DEF V
    <3>1. V \in SUBSET Nat
      BY DEF V
    <3> QED
      BY <2>1, <2>2, <3>1, UpFromZero
  <2> QED
    BY <1>2, <2>3
<1> QED
  BY <1>10, <1>12, <1>13, <1>14

(* A group has what is joined through others, and nothing else.            *)
GroupOf(f, r) == {v \in Signed(f) : NearParents(f)[v] = r}
Grouped(f, u) == GroupOf(f, NearParents(f)[u])

LEMMA GroupIs ==
  ASSUME NEW f, IsFiniteSet(Signed(f)), NEW u \in Signed(f)
  PROVE  /\ Grouped(f, u) \in SUBSET Signed(f) /\ u \in Grouped(f, u) /\ Shut(Joined(f), Grouped(f, u))
         /\ \A X \in SUBSET Signed(f) : Shut(Joined(f), X) /\ u \in X => Grouped(f, u) \subseteq X
         /\ NearParents(f)[u] \in Signed(f)
<1> DEFINE S == Signed(f)
           E == Joined(f)
<1>1. PICK R, d : Forest(S, Folded(f)[E], R, d) /\ Together(R, E) /\ Apart(S, E, R)
  BY FoldedJoins DEF JoinedBy
<1>2. \A v \in S : NearParents(f)[v] = R[v]
  BY <1>1, NearParentsAre, RootIs
<1>3. \A v \in S : R[v] \in S
  BY <1>1 DEF Forest
<1> DEFINE group == {v \in S : R[v] = R[u]}
<1>4. Grouped(f, u) = group
  BY <1>2 DEF GroupOf, Grouped
<1>5. E \in SUBSET (S \X S)
  BY DEF Joined
<1> HIDE DEF S, E
<1>6. u \in S /\ group \in SUBSET S /\ u \in group
  BY DEF S
<1>7. Shut(E, group)
  BY <1>1, <1>5 DEF Shut, Together
<1>8. ASSUME NEW X \in SUBSET S, Shut(E, X), u \in X PROVE group \subseteq X
  <2> SUFFICES ASSUME NEW v \in group PROVE v \in X
    OBVIOUS
  <2>1. v \in S /\ R[u] = R[v]
    OBVIOUS
  <2> QED
    BY <1>1, <1>6, <1>8, <2>1 DEF Apart
<1>9. NearParents(f)[u] \in S
  BY <1>2, <1>3, <1>6
<1> HIDE DEF group
<1> QED
  BY <1>4, <1>6, <1>7, <1>8, <1>9 DEF S, E

(* In a bucket with no more pages than one is compared with, all are       *)
(* compared.                                                               *)
LEMMA UncrowdedIsCompared ==
  ASSUME NEW f, IsFiniteSet(Signed(f)), NEW a \in Signed(f), NEW b \in Signed(f), Resemble(f, a, b), ~Crowded(f, a)
  PROVE  Joins(f, a, b)
<1>1. a # b
  BY DEF Resemble
<1>2. PICK n \in Bands : b \in Bucket(f, a, n)
  BY DEF Resemble
<1> DEFINE all == Bucket(f, a, n)
           rest == all \ {a, b}
           between == {w \in rest : Before(f, a, w) /\ Before(f, w, b)}
<1>3. IsFiniteSet(all) /\ a \in all /\ b \in all
  BY <1>2, FS_Subset DEF Bucket
<1>4. Cardinality(all) \in Nat /\ ~(Cardinality(all) > NearDupWindow + 1)
  BY <1>2, <1>3, FS_CardinalityType DEF Crowded
<1> HIDE DEF all
<1>5. IsFiniteSet(rest) /\ Cardinality(rest) = Cardinality(all) - 2
  <2>1. IsFiniteSet(all \ {a}) /\ Cardinality(all \ {a}) = Cardinality(all) - 1
    BY <1>3, FS_RemoveElement
  <2>2. b \in all \ {a} /\ (all \ {a}) \ {b} = rest
    BY <1>1, <1>3
  <2>3. IsFiniteSet((all \ {a}) \ {b}) /\ Cardinality((all \ {a}) \ {b}) = Cardinality(all \ {a}) - 1
    BY <2>1, <2>2, FS_RemoveElement
  <2> QED
    BY <1>4, <2>1, <2>2, <2>3
<1>6. Cardinality(between) \in Nat /\ Cardinality(between) <= Cardinality(rest)
  <2> HIDE DEF rest
  <2> QED
    BY <1>5, FS_Subset, FS_CardinalityType
<1>7. Cardinality(between) < NearDupWindow
  <2> HIDE DEF rest, between
  <2> QED
    BY <1>4, <1>5, <1>6, CanonAssumption
<1>8. Compared(f, a, b)
  BY <1>2, <1>7 DEF Compared, between, rest, all
<1> QED
  BY <1>8 DEF Joins

(* A group is within the part of the pages alike, and is all of it where   *)
(* nothing of it is crowded.                                               *)
LEMMA GroupsArePart ==
  ASSUME NEW f, IsFiniteSet(Signed(f)), NEW u \in Signed(f)
  PROVE  /\ Grouped(f, u) \subseteq AlikePart(f, u)
         /\ (\A v \in AlikePart(f, u) : ~Crowded(f, v)) => Grouped(f, u) = AlikePart(f, u)
<1> DEFINE S == Signed(f)
           part == AlikePart(f, u)
           group == Grouped(f, u)
<1>1. part \in SUBSET S /\ u \in part /\ Shut(Alikes(f), part) /\ \A X \in SUBSET S : Shut(Alikes(f), X) /\ u \in X => part \subseteq X
  BY PartIs
<1>2. group \in SUBSET S /\ u \in group /\ Shut(Joined(f), group) /\ \A X \in SUBSET S : Shut(Joined(f), X) /\ u \in X => group \subseteq X
  BY GroupIs
<1>3. Joined(f) \subseteq Alikes(f)
  BY DEF Joined, Alikes, Joins
<1>4. group \subseteq part
  <2>1. Shut(Joined(f), part)
    BY <1>1, <1>3 DEF Shut
  <2> HIDE DEF S, part, group
  <2> QED
    BY <1>1, <1>2, <2>1
<1>5. ASSUME \A v \in part : ~Crowded(f, v) PROVE part \subseteq group
  <2>1. ASSUME NEW p \in Alikes(f), p[1] \in group \/ p[2] \in group PROVE p[1] \in group /\ p[2] \in group
    <3>1. p[1] \in S /\ p[2] \in S /\ Resemble(f, p[1], p[2])
      BY DEF Alikes
    <3>2. p[1] \in part
      <4> HIDE DEF part, group
      <4> QED
        BY <1>1, <1>4, <2>1 DEF Shut
    <3>3. ~Crowded(f, p[1])
      BY <1>5, <3>2
    <3>4. Joins(f, p[1], p[2])
      BY <3>1, <3>3, UncrowdedIsCompared
    <3>5. p \in Joined(f)
      BY <3>4 DEF Joined, Alikes
    <3> HIDE DEF group
    <3> QED
      BY <1>2, <2>1, <3>5 DEF Shut
  <2>2. Shut(Alikes(f), group)
    <3> HIDE DEF group
    <3> QED
      BY <2>1 DEF Shut
  <2> HIDE DEF S, part, group
  <2> QED
    BY <1>1, <1>2, <2>2
<1> QED
  BY <1>4, <1>5

LEMMA NearToldIs ==
  ASSUME NEW f, IsFiniteSet(Signed(f)), NEW u \in Signed(f)
  PROVE  {i.detail : i \in {j \in DupContentNear(f) : j.url = u}}
         = LET part == Grouped(f, u)
           IN IF \E v \in part : f.pages[v].hash # f.pages[u].hash THEN {Cardinality(part)} ELSE {}
<1> DEFINE of(v, r) == Finding("DUP-CONTENT-NEAR", "medium", v, Cardinality(GroupOf(f, r)), <<"text", {Head(f.pages[r].signature)}>>)
           hashes(r) == {f.pages[v].hash : v \in GroupOf(f, r)}
           told == {r \in Signed(f) : Cardinality(hashes(r)) > 1}
           r0 == NearParents(f)[u]
           part == Grouped(f, u)
           found == {j \in DupContentNear(f) : j.url = u}
           mixed == \E v \in part : f.pages[v].hash # f.pages[u].hash
<1>1. DupContentNear(f) = UNION {{of(v, r) : v \in GroupOf(f, r)} : r \in told}
  BY Zenon DEF DupContentNear, GroupOf
<1>2. \A v, r : of(v, r).url = v /\ of(v, r).detail = Cardinality(GroupOf(f, r))
  BY DEF Finding
<1>3. \A r : \A v \in GroupOf(f, r) : NearParents(f)[v] = r
  BY DEF GroupOf
<1>4. GroupOf(f, r0) = part /\ r0 \in Signed(f)
  BY GroupIs DEF Grouped
<1>5. part \in SUBSET Signed(f) /\ u \in part
  BY GroupIs
<1>6. r0 \in told <=> mixed
  <2>1. hashes(r0) = {f.pages[v].hash : v \in part}
    BY <1>4
  <2>2. IsFiniteSet(hashes(r0))
    <3> DEFINE F == [v \in part |-> f.pages[v].hash]
    <3>1. Covers(F, part, hashes(r0))
      BY <2>1 DEF Covers
    <3>2. IsFiniteSet(part)
      BY <1>5, FS_Subset
    <3> HIDE DEF F, hashes, part
    <3> QED
      BY <3>1, <3>2, Covered
  <2>3. CASE mixed
    <3>1. PICK v \in part : f.pages[v].hash # f.pages[u].hash
      BY <2>3
    <3>2. {f.pages[v].hash, f.pages[u].hash} \subseteq hashes(r0)
      BY <1>5, <2>1
    <3>3. Cardinality({f.pages[v].hash, f.pages[u].hash}) = 2
      <4>1. \A x, y : x # y => Cardinality({x, y}) = 2
        <5> SUFFICES ASSUME NEW x, NEW y, x # y PROVE Cardinality({x, y}) = 2
          OBVIOUS
        <5>1. IsFiniteSet({x}) /\ Cardinality({x}) = 1 /\ y \notin {x} /\ {x} \cup {y} = {x, y}
          BY FS_Singleton
        <5>2. Cardinality({x} \cup {y}) = Cardinality({x}) + 1
          BY <5>1, FS_AddElement
        <5> QED
          BY <5>1, <5>2
      <4> QED
        BY <3>1, <4>1
    <3> HIDE DEF hashes, part
    <3>4. Cardinality(hashes(r0)) \in Nat /\ Cardinality(hashes(r0)) >= 2
      BY <2>2, <3>2, <3>3, FS_Subset, FS_CardinalityType
    <3> QED
      BY <1>4, <2>3, <3>4
  <2>4. CASE ~mixed
    <3>1. hashes(r0) = {f.pages[u].hash}
      BY <1>5, <2>1, <2>4
    <3> HIDE DEF hashes, part
    <3>2. Cardinality(hashes(r0)) = 1
      BY <3>1, FS_Singleton
    <3> QED
      BY <2>4, <3>2
  <2> QED
    BY <2>3, <2>4
<1> HIDE DEF of, told, r0, part, mixed
<1>7. CASE mixed
  <2>1. of(u, r0) \in found
    BY <1>1, <1>2, <1>4, <1>5, <1>6, <1>7
  <2>2. \A j \in found : j = of(u, r0)
    BY <1>1, <1>2, <1>3 DEF r0
  <2>3. of(u, r0).detail = Cardinality(part)
    BY <1>2, <1>4
  <2> HIDE DEF found
  <2>4. {i.detail : i \in found} = {Cardinality(part)}
    BY <2>1, <2>2, <2>3
  <2> QED
    BY <1>7, <2>4 DEF found, part, mixed
<1>8. CASE ~mixed
  <2>1. found = {}
    BY <1>1, <1>2, <1>3, <1>6, <1>8 DEF r0
  <2>2. {i.detail : i \in found} = {}
    BY <2>1
  <2> QED
    BY <1>8, <2>2 DEF found, part, mixed
<1> QED
  BY <1>7, <1>8

LEMMA NearGroupsAreTold == AuditInv /\ PlaceKept => NearGroupsAreComponents
<1> SUFFICES ASSUME AuditInv, PlaceKept, status = "done", NEW u \in Signed(file)
             PROVE  LET told == {i.detail : i \in {j \in DOMAIN issues : j.rule = "DUP-CONTENT-NEAR" /\ j.url = u}}
                        part == AlikePart(file, u)
                        mixed == \E v \in part : file.pages[v].hash # file.pages[u].hash
                    IN IF \E v \in part : Crowded(file, v)
                       THEN told # {} => mixed /\ \A d \in told : d \in 2..Cardinality(part)
                       ELSE told = IF mixed THEN {Cardinality(part)} ELSE {}
  BY DEF NearGroupsAreComponents
<1> DEFINE r == "DUP-CONTENT-NEAR"
           told == {i.detail : i \in {j \in DOMAIN issues : j.rule = r /\ j.url = u}}
           part == AlikePart(file, u)
           group == Grouped(file, u)
           mixed(us) == \E v \in us : file.pages[v].hash # file.pages[u].hash
<1>1. r \in SiteRuleIds \ NeedsWholeGraph /\ Turn(r) = 14
  BY DEF SiteRuleIds, NeedsWholeGraph, Turn, HttpIds, CanonIds
<1>2. SiteRule(file, 14) = CanonSiteRules(file)
  BY DEF SiteRule
<1>3. ASSUME NEW i PROVE i \in DOMAIN issues /\ i.rule = r <=> i \in CanonSiteRules(file) /\ i.rule = r
  BY <1>1, <1>2, InIssues
<1>4. \A i \in DupContentNear(file) : i.rule = r
  <2>1. \A i \in DupContentNear(file) : \E v, d, g : i = Finding("DUP-CONTENT-NEAR", "medium", v, d, g)
    BY Zenon DEF DupContentNear
  <2> QED
    BY <2>1 DEF Finding
<1>5. \A i \in CanonToError(file) \cup CanonToNoindex(file) \cup CanonChain(file) \cup CanonToRedirect(file)
              \cup DupContentExact(file) : i.rule # r
  <2>1. \A i \in DupContentExact(file) : \E v, d, g : i = Finding("DUP-CONTENT-EXACT", "high", v, d, g)
    BY Zenon DEF DupContentExact
  <2>2. \A i \in DupContentExact(file) : i.rule # r
    BY <2>1 DEF Finding
  <2> QED
    BY <2>2 DEF CanonToError, CanonToNoindex, CanonChain, CanonToRedirect, OfTargets, CanonFinding, Finding
<1>6. {j \in DOMAIN issues : j.rule = r /\ j.url = u} = {j \in DupContentNear(file) : j.url = u}
  BY <1>3, <1>4, <1>5 DEF CanonSiteRules
<1>7. IsFiniteSet(Signed(file))
  <2>1. IsFiniteSet(Rows(file)) /\ Pages(file) \subseteq Rows(file)
    BY DEF AuditInv, FileKept, PlaceKept, LinksLand
  <2>2. Signed(file) \subseteq Rows(file)
    BY <2>1 DEF Signed, Indexable
  <2> QED
    BY <2>1, <2>2, FS_Subset
<1>8. told = IF mixed(group) THEN {Cardinality(group)} ELSE {}
  BY <1>6, <1>7, NearToldIs
<1>9. group \subseteq part /\ part \in SUBSET Signed(file) /\ u \in group
  BY <1>7, GroupsArePart, GroupIs, PartIs
<1>10. (\A v \in part : ~Crowded(file, v)) => group = part
  BY <1>7, GroupsArePart
<1> HIDE DEF told, part, group
<1>11. CASE \A v \in part : ~Crowded(file, v)
  BY <1>8, <1>10, <1>11 DEF told, part
<1>12. CASE \E v \in part : Crowded(file, v)
  <2>1. ASSUME told # {} PROVE mixed(part) /\ \A d \in told : d \in 2..Cardinality(part)
    <3>1. mixed(group) /\ told = {Cardinality(group)}
      BY <1>8, <2>1
    <3>2. PICK v \in group : file.pages[v].hash # file.pages[u].hash
      BY <3>1
    <3>3. IsFiniteSet(part) /\ IsFiniteSet(group) /\ Cardinality(group) \in Nat /\ Cardinality(part) \in Nat
          /\ Cardinality(group) <= Cardinality(part)
      BY <1>7, <1>9, FS_Subset, FS_CardinalityType
    <3>4. Cardinality({u, v}) = 2 /\ {u, v} \subseteq group
      <4>1. u # v
        BY <3>2
      <4>2. IsFiniteSet({u}) /\ Cardinality({u}) = 1 /\ v \notin {u} /\ {u} \cup {v} = {u, v}
        BY <4>1, FS_Singleton
      <4>3. Cardinality({u} \cup {v}) = Cardinality({u}) + 1
        BY <4>2, FS_AddElement
      <4> QED
        BY <1>9, <4>2, <4>3
    <3>5. 2 <= Cardinality(group)
      BY <3>3, <3>4, FS_Subset
    <3>6. mixed(part)
      BY <1>9, <3>2
    <3> QED
      BY <3>1, <3>3, <3>5, <3>6
  <2> QED
    BY <1>12, <2>1 DEF told, part
<1> QED
  BY <1>11, <1>12

-----------------------------------------------------------------------------
(* A file that holds nothing but the answers of its site, fetched in some  *)
(* order and as far as somebody liked.                                     *)

(* A URL that is to be fetched, and its row and that of another before     *)
(* they are asked for.                                                     *)
Awaits(u) == u \in site.seeds \cup site.inSitemap \/ (InScope(site, u) /\ site.mode # "list")
Blank(u) == IF Awaits(u) THEN PendingRow(site, u) ELSE SkippedRow(site, u)

(* A URL that may be probed, and its row once it was.                      *)
Probable(u) ==
  u \in DOMAIN site.docs /\ ~Awaits(u) /\ ~InScope(site, u) /\ SkippedRow(site, u).reason = NoText
Probed(u) == UrlRow(site, u, "skipped", [site.docs[u] EXCEPT !.location = No])

Fetched(f) == {u \in Rows(f) : Awaits(u) /\ f.urls[u].state # "pending"}

(* What the rules read of a page.                                          *)
RuleFields == PageFields \cup {"why"}

HeadIs(f) ==
  /\ FileFields \cup {"mode", "asksSitemaps"} \subseteq DOMAIN f
  /\ f.text = site.text /\ f.mode = site.mode /\ f.asksSitemaps = site.asksSitemaps

RowIs(f, u) ==
  /\ Awaits(u) => u \in DOMAIN site.docs
  /\ \/ f.urls[u] = Blank(u)
     \/ Awaits(u) /\ f.urls[u] = BuildResult(site, u).url
     \/ Probable(u) /\ f.urls[u] = Probed(u)

RowsAre(f) ==
  /\ site.seeds \cup site.inSitemap \subseteq Rows(f) /\ IsFiniteSet(Rows(f)) /\ No \notin Rows(f)
  /\ \A u \in Rows(f) : RowIs(f, u)
  /\ \A u \in Fetched(f) : Discovered(site, u) \subseteq Rows(f)
  /\ DOMAIN f.ids = Rows(f) /\ \A u \in Rows(f) : f.ids[u] \in Nat

PageIs(f, u) ==
  /\ RuleFields \subseteq DOMAIN f.pages[u]
  /\ \A x \in RuleFields : f.pages[u][x] = BuildResult(site, u).pages[u][x]

ResourceIs(f, u) ==
  LET rows == BuildResult(site, u).resources IN
  /\ u \in DOMAIN f.resources <=> u \in DOMAIN rows
  /\ u \in DOMAIN f.resources => f.resources[u] = rows[u]

TablesAre(f) ==
  /\ Pages(f) = {u \in Fetched(f) : u \in DOMAIN BuildResult(site, u).pages}
  /\ \A u \in Pages(f) : PageIs(f, u)
  /\ f.links = UNION {BuildResult(site, u).links : u \in Fetched(f)}
  /\ f.images = UNION {BuildResult(site, u).images : u \in Fetched(f)}
  /\ \A u \in Fetched(f) : ResourceIs(f, u)
  /\ \A u \in DOMAIN f.resources \ Fetched(f) : ~Awaits(u) /\ ~InScope(site, u)

AsAnswered(f) == HeadIs(f) /\ RowsAre(f) /\ TablesAre(f)

(* What every row of a URL says, whatever was answered.                    *)
LEMMA UrlRowIs ==
  ASSUME NEW u, NEW st, NEW d
  PROVE  LET r == UrlRow(site, u, st, d) IN
         /\ r.state = st /\ r.reason = NoText /\ r.status = d.status /\ r.error = d.error
         /\ r.internal = InScope(site, u) /\ r.inSitemap = (u \in site.inSitemap)
  BY DEF UrlRow

LEMMA BlankIs ==
  ASSUME NEW u
  PROVE  LET r == Blank(u) IN
         /\ r.state = IF Awaits(u) THEN "pending" ELSE "skipped"
         /\ r.status = 0 /\ r.error = NoText /\ r.next = No
         /\ r.internal = InScope(site, u) /\ r.inSitemap = (u \in site.inSitemap)
<1>1. Unfetched.status = 0 /\ Unfetched.error = NoText
  BY DEF Unfetched
<1>2. \A r : r = PendingRow(site, u) =>
        /\ r.state = "pending" /\ r.status = 0 /\ r.error = NoText
        /\ r.internal = InScope(site, u) /\ r.inSitemap = (u \in site.inSitemap)
  BY <1>1, UrlRowIs DEF PendingRow
<1>3. SkippedRow(site, u) = [UrlRow(site, u, "skipped", Unfetched) EXCEPT !.reason = SkippedRow(site, u).reason]
  BY DEF SkippedRow, UrlRow
<1>4. \A r : r = SkippedRow(site, u) =>
        /\ r.state = "skipped" /\ r.status = 0 /\ r.error = NoText
        /\ r.internal = InScope(site, u) /\ r.inSitemap = (u \in site.inSitemap)
  BY <1>1 DEF SkippedRow, UrlRow
<1>5. Blank(u).next = No
  BY UnfetchedLeadNowhere DEF Blank
<1> QED
  BY <1>2, <1>4, <1>5 DEF Blank

(* What a fetch gives.                                                     *)
LEMMA BuildResultIs ==
  ASSUME FileKept, NEW u \in DOMAIN site.docs
  PROVE  LET r == BuildResult(site, u) IN
         /\ r.url.state \in {"excluded", "error", "done"}
         /\ r.url.internal = InScope(site, u) /\ r.url.inSitemap = (u \in site.inSitemap)
         /\ DOMAIN r.resources \subseteq {u} /\ DOMAIN r.pages \subseteq {u}
         /\ \A i \in r.images : i.page = u
         /\ \A l \in r.links : l.from = u /\ l.to \in Discovered(site, u)
         /\ u \in DOMAIN r.pages => r.url.state = "done" /\ RuleFields \cup {"linksIn"} \subseteq DOMAIN r.pages[u]
         /\ r.url.next \in Discovered(site, u) \cup {No}
<1> DEFINE d == site.docs[u]
           r == BuildResult(site, u)
<1>1. site \in Sites
  BY DEF FileKept
<1>2. ASSUME NEW row PROVE OnlyRow(row) = [url |-> row, resources |-> <<>>, pages |-> <<>>, links |-> {}, images |-> {}]
  BY DEF OnlyRow
<1>3. ASSUME NEW row, r = OnlyRow(row) PROVE r.url = row /\ DOMAIN r.resources = {} /\ DOMAIN r.pages = {} /\ r.images = {}
  BY <1>2, <1>3
<1>4. r.url.next \in Discovered(site, u) \cup {No} /\ \A l \in r.links : l.from = u /\ l.to \in Discovered(site, u)
  BY BuildResultLinks DEF Discovered
<1>5. CASE Excluded(site, u)
  <2> DEFINE row == UrlRow(site, u, "excluded", Unfetched)
  <2>1. r = OnlyRow([row EXCEPT !.reason = "robots"])
    BY <1>5 DEF BuildResult
  <2>2. LET q == [row EXCEPT !.reason = "robots"] IN
        q.state = "excluded" /\ q.internal = InScope(site, u) /\ q.inSitemap = (u \in site.inSitemap)
    BY DEF UrlRow
  <2> QED
    BY <1>3, <1>4, <2>1, <2>2
<1>6. CASE ~Excluded(site, u) /\ d.error # NoText
  <2> DEFINE row == UrlRow(site, u, "error", [Unfetched EXCEPT !.error = d.error])
  <2>1. r = OnlyRow(row)
    BY <1>6 DEF BuildResult
  <2>2. row.state = "error" /\ row.internal = InScope(site, u) /\ row.inSitemap = (u \in site.inSitemap)
    BY UrlRowIs
  <2> QED
    BY <1>3, <1>4, <2>1, <2>2
<1>7. CASE ~Excluded(site, u) /\ d.error = NoText
  <2>1. /\ r.url = UrlRow(site, u, "done", d)
        /\ r.pages = IF HasPage(d) THEN [v \in {u} |-> PageRow(site, u, d)] ELSE <<>>
        /\ r.resources = ResourceRows(site, u, d)
        /\ r.images = IF HasPage(d) THEN ImageRows(u, d) ELSE {}
    BY <1>7 DEF BuildResult
  <2>2. r.url.state = "done" /\ r.url.internal = InScope(site, u) /\ r.url.inSitemap = (u \in site.inSitemap)
    BY <2>1, UrlRowIs
  <2>3. DOMAIN r.resources \subseteq {u}
    BY <2>1 DEF ResourceRows
  <2>4. \A i \in r.images : i.page = u
    BY <2>1 DEF ImageRows
  <2>5. HasPage(d) => ParsedFields \subseteq DOMAIN d.parsed
    BY <1>1, AuditAssumption
  <2>6. HasPage(d) => RuleFields \cup {"linksIn"} \subseteq DOMAIN PageRow(site, u, d)
    BY <2>5 DEF PageRow, PageFields, RuleFields
  <2>7. DOMAIN r.pages \subseteq {u} /\ (u \in DOMAIN r.pages => RuleFields \cup {"linksIn"} \subseteq DOMAIN r.pages[u])
    <3>1. CASE HasPage(d)
      BY <2>1, <2>6, <3>1
    <3>2. CASE ~HasPage(d)
      BY <2>1, <3>2
    <3> QED
      BY <3>1, <3>2
  <2> QED
    BY <1>4, <2>2, <2>3, <2>4, <2>7
<1> QED
  BY <1>5, <1>6, <1>7

-----------------------------------------------------------------------------
(* Whatever is done to a file, it holds answers and nothing else.          *)

LEMMA PendingAwaits ==
  ASSUME FileKept, NEW f, AsAnswered(f), NEW u \in Rows(f)
  PROVE  /\ f.urls[u].state = "pending" => Awaits(u) /\ u \in DOMAIN site.docs
         /\ u \in Fetched(f) => u \in DOMAIN site.docs /\ f.urls[u] = BuildResult(site, u).url
         /\ f.urls[u].internal = InScope(site, u) /\ f.urls[u].inSitemap = (u \in site.inSitemap)
         /\ f.urls[u].state = "skipped" => ~Awaits(u)
<1>1. RowIs(f, u)
  BY DEF AsAnswered, RowsAre
<1>2. CASE f.urls[u] = Blank(u)
  BY <1>1, <1>2, BlankIs DEF RowIs, Fetched
<1>3. CASE Awaits(u) /\ f.urls[u] = BuildResult(site, u).url
  BY <1>1, <1>3, BuildResultIs DEF RowIs, Fetched
<1>4. CASE Probable(u) /\ f.urls[u] = Probed(u)
  <2>1. Probed(u).state = "skipped" /\ Probed(u).internal = InScope(site, u) /\ Probed(u).inSitemap = (u \in site.inSitemap)
    BY UrlRowIs DEF Probed
  <2> QED
    BY <1>4, <2>1 DEF Probable, Fetched
<1> QED
  BY <1>1, <1>2, <1>3, <1>4 DEF RowIs

LEMMA EmptyAnswers ==
  ASSUME FileKept
  PROVE  AsAnswered(EmptyFile(site)) /\ Rows(EmptyFile(site)) = site.seeds \cup site.inSitemap
         /\ Fetched(EmptyFile(site)) = {}
<1> DEFINE f == EmptyFile(site)
           S == site.seeds
           T == site.inSitemap \ site.seeds
<1>1. /\ FileFields \cup {"mode", "asksSitemaps"} \subseteq DOMAIN f
      /\ f.text = site.text /\ f.mode = site.mode /\ f.asksSitemaps = site.asksSitemaps
      /\ f.urls = [u \in site.seeds \cup site.inSitemap |-> PendingRow(site, u)]
      /\ Pages(f) = {} /\ f.links = {} /\ f.images = {} /\ DOMAIN f.resources = {}
      /\ f.ids = Upsert(NewIds(0, S), NewIds(Cardinality(S), T))
  BY DEF EmptyFile, FileFields, Pages
<1>2. site \in Sites
  BY DEF FileKept
<1>3. /\ Rows(f) = S \cup site.inSitemap /\ IsFiniteSet(Rows(f)) /\ No \notin Rows(f)
      /\ Rows(f) \subseteq DOMAIN site.docs
  BY <1>1, <1>2, AuditAssumption DEF Rows
<1>4. \A u \in Rows(f) : Awaits(u) /\ f.urls[u] = Blank(u)
  BY <1>1, <1>3 DEF Awaits, Blank
<1>5. \A u \in Rows(f) : RowIs(f, u)
  BY <1>3, <1>4 DEF RowIs
<1>6. Fetched(f) = {}
  BY <1>4, BlankIs DEF Fetched
<1>7. IsFiniteSet(S) /\ IsFiniteSet(T) /\ Cardinality(S) \in Nat
  BY <1>3, FS_Subset, FS_CardinalityType
<1> DEFINE a == NewIds(0, S)
           b == NewIds(Cardinality(S), T)
<1>8. DOMAIN a = S /\ DOMAIN b = T /\ (\A u \in S : a[u] \in Nat) /\ \A u \in T : b[u] \in Nat
  BY <1>7, NewIdsAre
<1>9. f.ids = Upsert(a, b)
  BY <1>1
<1> HIDE DEF a, b
<1>10. DOMAIN f.ids = Rows(f) /\ \A u \in Rows(f) : f.ids[u] \in Nat
  BY <1>3, <1>8, <1>9 DEF Upsert
<1>11. RowsAre(f)
  BY <1>3, <1>5, <1>6, <1>10 DEF RowsAre
<1>12. TablesAre(f)
  BY <1>1, <1>6 DEF TablesAre
<1> QED
  BY <1>1, <1>3, <1>6, <1>11, <1>12 DEF AsAnswered, HeadIs

LEMMA SavedAnswers ==
  ASSUME FileKept, NEW f, AsAnswered(f), NEW u \in Pending(f)
  PROVE  LET g == Saved(site, f, u) IN
         /\ AsAnswered(g)
         /\ Rows(g) = Rows(f) \cup Discovered(site, u) /\ Fetched(g) = Fetched(f) \cup {u} /\ u \notin Fetched(f)
<1> DEFINE g == Saved(site, f, u)
           r == BuildResult(site, u)
           new == Discovered(site, u) \ Rows(f)
           rows == [v \in new |-> IF InScope(site, v) /\ site.mode # "list" THEN PendingRow(site, v) ELSE SkippedRow(site, v)]
           more == NewIds(Cardinality(Rows(f)), new)
<1>1. /\ u \in Rows(f) /\ f.urls[u].state = "pending" /\ Awaits(u) /\ u \in DOMAIN site.docs
      /\ u \notin Fetched(f)
  BY PendingAwaits DEF Pending, Fetched
<1>2. site \in Sites
  BY DEF FileKept
<1>3. HeadIs(f) /\ RowsAre(f) /\ TablesAre(f)
  BY DEF AsAnswered
<1>4. /\ HeadIs(g)
      /\ g.ids = Upsert(f.ids, more)
      /\ g.urls = Upsert([v \in {u} |-> r.url], Upsert(f.urls, rows))
      /\ g.pages = Upsert(r.pages, f.pages) /\ g.resources = Upsert(r.resources, f.resources)
      /\ g.links = f.links \cup r.links /\ g.images = f.images \cup r.images
  BY <1>3 DEF Saved, HeadIs, FileFields
<1>5. /\ r.url.state # "pending" /\ DOMAIN r.resources \subseteq {u} /\ DOMAIN r.pages \subseteq {u}
      /\ u \in DOMAIN r.pages => RuleFields \subseteq DOMAIN r.pages[u]
  BY <1>1, BuildResultIs
<1>6. IsFiniteSet(Discovered(site, u)) /\ No \notin Discovered(site, u)
  BY <1>1, <1>2, AuditAssumption, DiscoversSomething
<1> HIDE DEF r
<1>7. /\ Rows(g) = Rows(f) \cup new  /\ g.urls[u] = r.url
      /\ \A v \in Rows(f) \ {u} : g.urls[v] = f.urls[v]
      /\ \A v \in new : g.urls[v] = rows[v]
  BY <1>1, <1>4 DEF Upsert, Rows
<1>8. IsFiniteSet(Rows(f)) /\ IsFiniteSet(new) /\ Cardinality(Rows(f)) \in Nat
  BY <1>3, <1>6, FS_Subset, FS_CardinalityType DEF RowsAre
<1>9. IsFiniteSet(Rows(g)) /\ No \notin Rows(g)
  <2>1. IsFiniteSet(Rows(f) \cup new)
    BY <1>8, FS_Union
  <2>2. No \notin Rows(f)
    BY <1>3 DEF RowsAre
  <2> QED
    BY <1>6, <1>7, <2>1, <2>2
<1>10. ASSUME NEW v \in new
       PROVE  RowIs(g, v) /\ g.urls[v] = Blank(v)
  <2>1. v \in Discovered(site, u) /\ v \notin site.seeds \cup site.inSitemap
    BY <1>3 DEF RowsAre
  <2>2. Awaits(v) => v \in DOMAIN site.docs
    BY <1>1, <1>2, <2>1, AuditAssumption DEF Awaits
  <2>3. rows[v] = Blank(v)
    BY <2>1 DEF Awaits, Blank
  <2> QED
    BY <1>7, <2>2, <2>3 DEF RowIs
<1>11. \A v \in Rows(g) : RowIs(g, v)
  <2>1. RowIs(g, u)
    BY <1>1, <1>7 DEF RowIs, r
  <2>2. \A v \in Rows(f) \ {u} : RowIs(g, v)
    BY <1>3, <1>7 DEF RowsAre, RowIs
  <2> QED
    BY <1>7, <1>10, <2>1, <2>2
<1>12. Fetched(g) = Fetched(f) \cup {u}
  <2>1. \A v \in new : v \notin Fetched(g)
    BY <1>10, BlankIs DEF Fetched
  <2>2. u \in Fetched(g)
    BY <1>1, <1>5, <1>7 DEF Fetched
  <2>3. \A v \in Rows(f) \ {u} : v \in Fetched(g) <=> v \in Fetched(f)
    BY <1>7 DEF Fetched
  <2> QED
    BY <1>1, <1>7, <2>1, <2>2, <2>3 DEF Fetched
<1>13. \A v \in Fetched(g) : Discovered(site, v) \subseteq Rows(g)
  BY <1>3, <1>7, <1>12 DEF RowsAre
<1>14. DOMAIN g.ids = Rows(g) /\ \A v \in Rows(g) : g.ids[v] \in Nat
  <2>1. DOMAIN more = new /\ \A v \in new : more[v] \in Nat
    BY <1>8, NewIdsAre
  <2> HIDE DEF more
  <2> QED
    BY <1>3, <1>4, <1>7, <2>1 DEF Upsert, RowsAre
<1>15. RowsAre(g)
  BY <1>3, <1>7, <1>9, <1>11, <1>13, <1>14 DEF RowsAre
<1>16. Pages(g) = DOMAIN r.pages \cup Pages(f)
  BY <1>4 DEF Upsert, Pages
<1>17. Pages(g) = {v \in Fetched(g) : v \in DOMAIN BuildResult(site, v).pages}
  BY <1>3, <1>5, <1>12, <1>16 DEF TablesAre, r
<1>18. \A v \in Pages(g) : PageIs(g, v)
  <2>1. ASSUME NEW v \in DOMAIN r.pages PROVE PageIs(g, v)
    <3>1. v = u /\ g.pages[v] = r.pages[u]
      BY <1>4, <1>5 DEF Upsert
    <3> QED
      BY <1>5, <3>1 DEF PageIs, r
  <2>2. ASSUME NEW v \in Pages(f) PROVE PageIs(g, v)
    <3>1. v # u
      BY <1>1, <1>3 DEF TablesAre
    <3>2. g.pages[v] = f.pages[v]
      BY <1>4, <1>5, <3>1 DEF Upsert, Pages
    <3> QED
      BY <1>3, <3>2 DEF PageIs, TablesAre
  <2> QED
    BY <1>16, <2>1, <2>2
<1>19. /\ g.links = UNION {BuildResult(site, v).links : v \in Fetched(g)}
       /\ g.images = UNION {BuildResult(site, v).images : v \in Fetched(g)}
  BY <1>3, <1>4, <1>12 DEF TablesAre, r
<1>20. \A v \in Fetched(g) : ResourceIs(g, v)
  <2>1. ResourceIs(g, u)
    <3>1. u \notin DOMAIN f.resources
      BY <1>1, <1>3 DEF TablesAre
    <3> QED
      BY <1>4, <1>5, <3>1 DEF Upsert, ResourceIs, r
  <2>2. ASSUME NEW v \in Fetched(f) PROVE ResourceIs(g, v)
    <3>1. v # u /\ ResourceIs(f, v)
      BY <1>1, <1>3 DEF TablesAre
    <3>2. v \in DOMAIN g.resources <=> v \in DOMAIN f.resources
      BY <1>4, <1>5, <3>1 DEF Upsert
    <3>3. v \in DOMAIN f.resources => g.resources[v] = f.resources[v]
      BY <1>4, <1>5, <3>1 DEF Upsert
    <3> QED
      BY <3>1, <3>2, <3>3 DEF ResourceIs
  <2> QED
    BY <1>12, <2>1, <2>2
<1>21. \A v \in DOMAIN g.resources \ Fetched(g) : ~Awaits(v) /\ ~InScope(site, v)
  <2>1. DOMAIN g.resources \subseteq {u} \cup DOMAIN f.resources
    BY <1>4, <1>5 DEF Upsert
  <2> QED
    BY <1>3, <1>12, <2>1 DEF TablesAre
<1>22. TablesAre(g)
  BY <1>17, <1>18, <1>19, <1>20, <1>21 DEF TablesAre
<1> QED
  BY <1>1, <1>4, <1>7, <1>12, <1>15, <1>22 DEF AsAnswered

(* Probes only change the rows of what may be probed.                      *)
LEMMA ProbesAnswer ==
  ASSUME FileKept, NEW f, AsAnswered(f), NEW g, NEW us \in SUBSET Unprobed(site, f),
         HeadIs(g), g.ids = f.ids, g.pages = f.pages, g.links = f.links, g.images = f.images,
         g.urls = [v \in Rows(f) |-> IF v \in us THEN Probed(v) ELSE f.urls[v]],
         DOMAIN g.resources \subseteq DOMAIN f.resources \cup us,
         \A v \in DOMAIN f.resources \ us : v \in DOMAIN g.resources /\ g.resources[v] = f.resources[v]
  PROVE  AsAnswered(g) /\ Rows(g) = Rows(f) /\ Fetched(g) = Fetched(f) /\ Pending(g) = Pending(f)
<1>1. RowsAre(f) /\ TablesAre(f)
  BY DEF AsAnswered
<1>2. Rows(g) = Rows(f) /\ Pages(g) = Pages(f)
  BY DEF Rows, Pages
<1>3. ASSUME NEW v \in us
      PROVE  Probable(v) /\ v \in Rows(f) /\ f.urls[v].state = "skipped" /\ Probed(v).state = "skipped"
  <2>1. /\ v \in Rows(f) /\ v \notin Internal(f) /\ v \in DOMAIN site.docs
        /\ f.urls[v].state = "skipped" /\ f.urls[v].reason = NoText
    BY DEF Unprobed
  <2>2. ~InScope(site, v) /\ ~Awaits(v)
    BY <2>1, PendingAwaits DEF Internal
  <2>3. RowIs(f, v)
    BY <1>1, <2>1 DEF RowsAre
  <2>4. SkippedRow(site, v).reason = NoText
    BY <2>1, <2>2, <2>3 DEF RowIs, Blank, Probable
  <2>5. Probed(v).state = "skipped"
    BY UrlRowIs DEF Probed
  <2> QED
    BY <2>1, <2>2, <2>4, <2>5 DEF Probable
<1>4. \A v \in us : v \notin Fetched(f)
  BY <1>3 DEF Probable, Fetched
<1>5. Fetched(g) = Fetched(f) /\ Pending(g) = Pending(f)
  BY <1>2, <1>3 DEF Probable, Fetched, Pending
<1>6. \A v \in Rows(g) : RowIs(g, v)
  <2>1. \A v \in us : RowIs(g, v)
    BY <1>2, <1>3 DEF RowIs, Probable
  <2>2. \A v \in Rows(f) \ us : RowIs(g, v)
    BY <1>1 DEF RowsAre, RowIs
  <2> QED
    BY <1>2, <2>1, <2>2
<1>7. RowsAre(g)
  BY <1>1, <1>2, <1>5, <1>6 DEF RowsAre
<1>8. \A v \in Fetched(g) : ResourceIs(g, v)
  <2> SUFFICES ASSUME NEW v \in Fetched(f) PROVE ResourceIs(g, v)
    BY <1>5
  <2>1. ResourceIs(f, v) /\ v \notin us
    BY <1>1, <1>4 DEF TablesAre
  <2>2. v \in DOMAIN g.resources <=> v \in DOMAIN f.resources
    BY <2>1
  <2> QED
    BY <2>1, <2>2 DEF ResourceIs
<1>9. \A v \in DOMAIN g.resources \ Fetched(g) : ~Awaits(v) /\ ~InScope(site, v)
  BY <1>1, <1>3, <1>5 DEF TablesAre, Probable
<1>10. \A v \in Pages(g) : PageIs(g, v)
  BY <1>1, <1>2 DEF TablesAre, PageIs
<1>11. TablesAre(g)
  BY <1>1, <1>2, <1>5, <1>8, <1>9, <1>10 DEF TablesAre
<1> QED
  BY <1>2, <1>5, <1>7, <1>11 DEF AsAnswered

(* The end of a crawl writes its robots.txt and counts links.              *)
LEMMA EndAnswers ==
  ASSUME FileKept, NEW f, AsAnswered(f)
  PROVE  /\ AsAnswered(Recorded(site, f)) /\ AsAnswered(Counted(Recorded(site, f)))
         /\ Recorded(site, f).urls = f.urls /\ Counted(Recorded(site, f)).urls = f.urls
         /\ \A g \in {Recorded(site, f), Counted(Recorded(site, f))} : g.robots = site.robots /\ g.sitemaps = site.sitemaps
<1> DEFINE g == Recorded(site, f)
           h == Counted(g)
           links(u) == Cardinality({l.from : l \in {k \in g.links : k.to = u}})
<1>1. HeadIs(f) /\ RowsAre(f) /\ TablesAre(f)
  BY DEF AsAnswered
<1>2. /\ HeadIs(g) /\ g.robots = site.robots /\ g.sitemaps = site.sitemaps
      /\ g.urls = f.urls /\ g.ids = f.ids /\ g.pages = f.pages
      /\ g.links = f.links /\ g.images = f.images /\ g.resources = f.resources
  BY <1>1 DEF Recorded, HeadIs, FileFields
<1> HIDE DEF g
<1>3. Rows(g) = Rows(f) /\ Fetched(g) = Fetched(f) /\ Pages(g) = Pages(f)
  BY <1>2 DEF Rows, Fetched, Pages
<1>4. \A u : /\ RowIs(f, u) <=> RowIs(g, u)
             /\ PageIs(f, u) <=> PageIs(g, u)
             /\ ResourceIs(f, u) <=> ResourceIs(g, u)
  BY <1>2 DEF RowIs, PageIs, ResourceIs
<1>5. RowsAre(g)
  BY <1>1, <1>2, <1>3, <1>4 DEF RowsAre
<1>6. TablesAre(g)
  BY <1>1, <1>2, <1>3, <1>4 DEF TablesAre
<1>7. /\ HeadIs(h) /\ h.robots = site.robots /\ h.sitemaps = site.sitemaps
      /\ h.urls = g.urls /\ h.ids = g.ids
      /\ h.links = g.links /\ h.images = g.images /\ h.resources = g.resources
      /\ h.pages = [u \in Pages(g) |-> [g.pages[u] EXCEPT !.linksIn = links(u)]]
  BY <1>2 DEF Counted, HeadIs, FileFields
<1> HIDE DEF h
<1>8. Rows(h) = Rows(g) /\ Fetched(h) = Fetched(g) /\ Pages(h) = Pages(g)
  BY <1>7 DEF Rows, Fetched, Pages
<1>9. ASSUME NEW u \in Pages(h) PROVE PageIs(h, u)
  <2>1. PageIs(g, u) /\ h.pages[u] = [g.pages[u] EXCEPT !.linksIn = links(u)]
    BY <1>6, <1>7, <1>8 DEF TablesAre
  <2>2. "linksIn" \notin RuleFields
    BY DEF RuleFields, PageFields, ParsedFields
  <2>3. DOMAIN h.pages[u] = DOMAIN g.pages[u] /\ \A x \in RuleFields : h.pages[u][x] = g.pages[u][x]
    BY <2>1, <2>2 DEF PageIs
  <2> QED
    BY <2>1, <2>3 DEF PageIs
<1>10. \A u : (RowIs(g, u) <=> RowIs(h, u)) /\ (ResourceIs(g, u) <=> ResourceIs(h, u))
  BY <1>7 DEF RowIs, ResourceIs
<1>11. RowsAre(h)
  BY <1>5, <1>7, <1>8, <1>10 DEF RowsAre
<1>12. TablesAre(h)
  BY <1>6, <1>7, <1>8, <1>9, <1>10 DEF TablesAre
<1> QED
  BY <1>2, <1>5, <1>6, <1>7, <1>11, <1>12 DEF AsAnswered, g, h

-----------------------------------------------------------------------------
(* The whole site.                                                         *)

SaveNext(f) == IF Pending(f) = {} THEN f ELSE Saved(site, f, CHOOSE u \in Pending(f) : TRUE)
SavedUpTo(h, n) == IF n = 0 THEN EmptyFile(site) ELSE SaveNext(h[n - 1])

(* The pages of a site can be saved one after the other, so many times.    *)
LEMMA SavesGoOn ==
  ASSUME NEW N \in Nat
  PROVE  \E h : h = [n \in 0..N |-> SavedUpTo(h, n)]
<1> DEFINE T == {k \in Nat : \E h : h = [n \in 0..k |-> SavedUpTo(h, n)]}
<1>1. 0 \in T
  <2> DEFINE h == [n \in 0..0 |-> EmptyFile(site)]
  <2>1. h = [n \in 0..0 |-> SavedUpTo(h, n)]
    <3>1. \A n \in 0..0 : n = 0
      OBVIOUS
    <3> HIDE DEF h
    <3>2. \A n \in 0..0 : SavedUpTo(h, n) = EmptyFile(site)
      BY <3>1 DEF SavedUpTo
    <3> QED
      BY <3>2 DEF h
  <2> HIDE DEF h
  <2> QED
    BY <2>1
<1>2. ASSUME NEW k \in T PROVE k + 1 \in T
  <2>1. PICK g : g = [n \in 0..k |-> SavedUpTo(g, n)]
    OBVIOUS
  <2> DEFINE h == [n \in 0..(k + 1) |-> IF n = k + 1 THEN SaveNext(g[k]) ELSE g[n]]
  <2>2. k \in Nat /\ k + 1 \in Nat /\ k + 1 # 0
    OBVIOUS
  <2>3. h[k] = g[k] /\ (k + 1) - 1 = k /\ k + 1 \in 0..(k + 1)
    BY <2>2
  <2>4. \A n \in 1..k : n \in 0..k /\ n # 0 /\ n # k + 1 /\ n - 1 \in 0..(k + 1) /\ n - 1 # k + 1
    BY <2>2
  <2>5. \A n \in 0..(k + 1) : h[n] = IF n = k + 1 THEN SaveNext(g[k]) ELSE g[n]
    OBVIOUS
  <2>6. DOMAIN h = 0..(k + 1)
    OBVIOUS
  <2>7. h = [n \in 0..(k + 1) |-> h[n]]
    OBVIOUS
  <2> HIDE DEF h
  <2>8. \A n \in 1..k : h[n] = SavedUpTo(h, n)
    <3> SUFFICES ASSUME NEW n \in 1..k PROVE h[n] = SavedUpTo(h, n)
      OBVIOUS
    <3>1. n \in 0..k /\ n # 0 /\ n # k + 1 /\ n \in 0..(k + 1) /\ n - 1 \in 0..(k + 1) /\ n - 1 # k + 1
      BY <2>2, <2>4
    <3>2. g[n] = SaveNext(g[n - 1])
      BY <2>1, <3>1 DEF SavedUpTo
    <3>3. h[n] = g[n] /\ h[n - 1] = g[n - 1]
      BY <2>5, <3>1
    <3> QED
      BY <3>1, <3>2, <3>3 DEF SavedUpTo
  <2>9. h[k + 1] = SavedUpTo(h, k + 1)
    BY <2>2, <2>3, <2>5 DEF SavedUpTo
  <2>10. h[0] = SavedUpTo(h, 0)
    <3>1. 0 \in 0..k /\ 0 # k + 1 /\ 0 \in 0..(k + 1)
      BY <2>2
    <3>2. g[0] = EmptyFile(site)
      BY <2>1, <3>1 DEF SavedUpTo
    <3> QED
      BY <2>5, <3>1, <3>2 DEF SavedUpTo
  <2>11. \A n \in 0..(k + 1) : n = 0 \/ n \in 1..k \/ n = k + 1
    BY <2>2
  <2>12. \A n \in 0..(k + 1) : h[n] = SavedUpTo(h, n)
    BY <2>8, <2>9, <2>10, <2>11
  <2>13. h = [n \in 0..(k + 1) |-> SavedUpTo(h, n)]
    BY <2>7, <2>12
  <2> QED
    BY <2>2, <2>13
<1>3. T = Nat
  <2>1. T \in SUBSET Nat
    OBVIOUS
  <2> HIDE DEF T
  <2> QED
    BY <1>1, <1>2, <2>1, UpFromZero
<1> QED
  BY <1>3

(* A file of the whole site: nothing is left to ask for.                   *)
WholeFile(w) ==
  /\ AsAnswered(w) /\ Pending(w) = {} /\ \A u \in Rows(w) : Probable(u) => w.urls[u] = Probed(u)
  /\ w.robots = site.robots /\ w.sitemaps = site.sitemaps

LEMMA WholeIsWhole ==
  ASSUME FileKept
  PROVE  WholeFile(Whole(site))
<1> DEFINE N == Cardinality(DOMAIN site.docs)
           seq == CHOOSE h : h = [n \in 0..N |-> SavedUpTo(h, n)]
           f == seq[N]
           probed == Unprobed(site, f)
           answers == [u \in probed |-> Probed(u)]
           g == [f EXCEPT !.urls = Upsert(answers, @)]
<1>1. Whole(site) = Counted(Recorded(site, g))
  BY DEF Whole, SavedUpTo, SaveNext, Probed
<1>2. site \in Sites
  BY DEF FileKept
<1>3. IsFiniteSet(DOMAIN site.docs) /\ N \in Nat
  BY <1>2, WholeAssumption, FS_CardinalityType
<1>4. seq = [n \in 0..N |-> SavedUpTo(seq, n)]
  BY <1>3, SavesGoOn
<1> HIDE DEF seq
<1> DEFINE docs == DOMAIN site.docs
           Going(n) == AsAnswered(seq[n]) /\ (Pending(seq[n]) = {} \/ n <= Cardinality(Fetched(seq[n])))
           T == {n \in 0..N : Going(n)}
<1>5. ASSUME NEW k, AsAnswered(k)
      PROVE  Fetched(k) \subseteq docs /\ IsFiniteSet(Fetched(k)) /\ Cardinality(Fetched(k)) \in Nat
  <2>1. Fetched(k) \subseteq docs
    BY <1>5, PendingAwaits DEF Fetched
  <2> QED
    BY <1>3, <2>1, FS_Subset, FS_CardinalityType
<1>6. 0 \in T
  <2>1. seq[0] = EmptyFile(site) /\ 0 \in 0..N
    BY <1>3, <1>4 DEF SavedUpTo
  <2>2. AsAnswered(seq[0])
    BY <2>1, EmptyAnswers
  <2>3. Cardinality(Fetched(seq[0])) \in Nat
    BY <1>5, <2>2
  <2> QED
    BY <2>1, <2>2, <2>3
<1>7. ASSUME NEW n \in 1..N, n - 1 \in T PROVE n \in T
  <2> DEFINE k == seq[n - 1]
  <2>1. n \in 0..N /\ n # 0 /\ seq[n] = SaveNext(k)
    <3>1. n \in 0..N /\ n # 0
      BY <1>3
    <3> QED
      BY <1>4, <3>1 DEF SavedUpTo
  <2>2. AsAnswered(k) /\ (Pending(k) = {} \/ n - 1 <= Cardinality(Fetched(k)))
    BY <1>7
  <2> HIDE DEF k
  <2>3. CASE Pending(k) = {}
    <3>1. seq[n] = k
      BY <2>1, <2>3 DEF SaveNext
    <3> QED
      BY <2>1, <2>2, <2>3, <3>1
  <2>4. CASE Pending(k) # {}
    <3> DEFINE u == CHOOSE v \in Pending(k) : TRUE
    <3>1. u \in Pending(k) /\ seq[n] = Saved(site, k, u)
      BY <2>1, <2>4 DEF SaveNext
    <3> HIDE DEF u
    <3>2. AsAnswered(seq[n]) /\ Fetched(seq[n]) = Fetched(k) \cup {u} /\ u \notin Fetched(k)
      BY <2>2, <3>1, SavedAnswers
    <3>3. Cardinality(Fetched(seq[n])) = Cardinality(Fetched(k)) + 1
      BY <1>5, <2>2, <3>2, FS_AddElement
    <3>4. n <= Cardinality(Fetched(seq[n]))
      BY <1>5, <2>1, <2>2, <2>4, <3>3
    <3> QED
      BY <2>1, <3>2, <3>4
  <2> QED
    BY <2>3, <2>4
<1>8. Going(N)
  <2>1. 0..N \subseteq T
    <3> HIDE DEF T, N
    <3> QED
      BY <1>3, <1>6, <1>7, UpTo
  <2>2. N \in 0..N
    BY <1>3
  <2> QED
    BY <2>1, <2>2
<1>9. AsAnswered(f)
  BY <1>8
<1>10. Pending(f) = {}
  <2> SUFFICES ASSUME NEW u \in Pending(f) PROVE FALSE
    OBVIOUS
  <2>1. u \in docs /\ u \notin Fetched(f)
    BY <1>9, PendingAwaits DEF Pending, Fetched
  <2>2. Cardinality(docs) <= Cardinality(Fetched(f))
    BY <1>8
  <2>3. Fetched(f) = docs
    <3>1. Cardinality(Fetched(f)) <= Cardinality(docs) /\ Cardinality(Fetched(f)) \in Nat
      BY <1>3, <1>5, <1>9, FS_Subset
    <3>2. Cardinality(Fetched(f)) = Cardinality(docs)
      BY <1>3, <2>2, <3>1
    <3> QED
      BY <1>3, <1>5, <1>9, <3>2, FS_Subset
  <2> QED
    BY <2>1, <2>3
<1> HIDE DEF f
<1>11. HeadIs(f)
  BY <1>9 DEF AsAnswered
<1>12. g.urls = [v \in Rows(f) |-> IF v \in probed THEN Probed(v) ELSE f.urls[v]]
  <2>1. g.urls = Upsert(answers, f.urls)
    BY <1>11 DEF HeadIs, FileFields
  <2>2. probed \subseteq Rows(f)
    BY DEF Unprobed
  <2> HIDE DEF g, probed
  <2> QED
    BY <2>1, <2>2 DEF Upsert, Rows
<1>13. /\ HeadIs(g) /\ g.ids = f.ids /\ g.pages = f.pages /\ g.links = f.links /\ g.images = f.images
       /\ g.resources = f.resources
  BY <1>11 DEF HeadIs, FileFields
<1> HIDE DEF g, probed
<1>14. AsAnswered(g) /\ Rows(g) = Rows(f) /\ Pending(g) = {}
  BY <1>9, <1>10, <1>12, <1>13, ProbesAnswer DEF probed
<1>15. ASSUME NEW u \in Rows(g), Probable(u) PROVE g.urls[u] = Probed(u)
  <2>1. CASE u \in probed
    BY <1>12, <1>14, <2>1
  <2>2. CASE u \notin probed
    <3>1. g.urls[u] = f.urls[u] /\ u \in Rows(f)
      BY <1>12, <1>14, <2>2
    <3>2. f.urls[u] # Blank(u)
      <4> SUFFICES ASSUME f.urls[u] = Blank(u) PROVE u \in probed
        BY <2>2
      <4>1. f.urls[u].state = "skipped" /\ f.urls[u].status = 0 /\ f.urls[u].error = NoText /\ f.urls[u].reason = NoText
        BY <1>15, BlankIs DEF Probable, Blank
      <4>2. u \notin Internal(f)
        BY <1>9, <1>15, <3>1, PendingAwaits DEF Internal, Probable
      <4> QED
        BY <1>15, <3>1, <4>1, <4>2 DEF probed, Unprobed, Probable
    <3>3. RowIs(f, u)
      BY <1>9, <3>1 DEF AsAnswered, RowsAre
    <3> QED
      BY <1>15, <3>1, <3>2, <3>3 DEF RowIs, Probable
  <2> QED
    BY <2>1, <2>2
<1>16. AsAnswered(Whole(site)) /\ Whole(site).urls = g.urls /\ Whole(site).robots = site.robots /\ Whole(site).sitemaps = site.sitemaps
  BY <1>1, <1>14, EndAnswers
<1> QED
  BY <1>14, <1>15, <1>16 DEF WholeFile, Rows, Pending

(* The crawl file is that of some of the site, and a finished one has its  *)
(* robots.txt and its sitemaps.                                            *)
AnswersKept ==
  /\ AsAnswered(file)  /\ Rows(file) \subseteq Rows(Whole(site))
  /\ phase = "final" \/ status = "done" => file.robots = site.robots /\ file.sitemaps = site.sitemaps

(* A crawl of the whole site knows all that any other one may meet.        *)
LEMMA WholeKnows ==
  ASSUME FileKept, NEW u \in Rows(Whole(site)), Awaits(u)
  PROVE  u \in Fetched(Whole(site)) /\ Discovered(site, u) \subseteq Rows(Whole(site))
<1> DEFINE w == Whole(site)
<1>1. AsAnswered(w) /\ Pending(w) = {}
  BY WholeIsWhole DEF WholeFile
<1> HIDE DEF w
<1>2. u \in Rows(w)
  BY DEF w
<1>3. u \in Fetched(w)
  BY <1>1, <1>2 DEF Fetched, Pending
<1>4. Discovered(site, u) \subseteq Rows(w)
  BY <1>1, <1>3 DEF AsAnswered, RowsAre
<1> QED
  BY <1>3, <1>4 DEF w

LEMMA AnswersInit == Init => AnswersKept
<1> SUFFICES ASSUME Init PROVE AnswersKept
  OBVIOUS
<1>1. FileKept /\ phase = "crawl" /\ status = "running" /\ file = EmptyFile(site)
  BY FileInit DEF Init
<1>2. AsAnswered(file) /\ Rows(file) = site.seeds \cup site.inSitemap
  BY <1>1, EmptyAnswers
<1> DEFINE w == Whole(site)
<1>3. AsAnswered(w)
  BY <1>1, WholeIsWhole DEF WholeFile
<1> HIDE DEF w
<1>4. site.seeds \cup site.inSitemap \subseteq Rows(w)
  BY <1>3 DEF AsAnswered, RowsAre
<1> QED
  BY <1>1, <1>2, <1>4 DEF AnswersKept, w

(* The same file, of the same site.                                        *)
LEMMA AnswersAfter ==
  ASSUME AsAnswered(file'), site' = site
  PROVE  AsAnswered(file)'
<1>1. site' = site /\ HeadIs(file') /\ RowsAre(file') /\ TablesAre(file')
  BY DEF AsAnswered
<1>2. HeadIs(file)'
  BY <1>1 DEF HeadIs
<1>3. RowsAre(file)'
  BY <1>1 DEF RowsAre, RowIs, Fetched, Awaits, Blank, Probable, Probed
<1>4. TablesAre(file)'
  BY <1>1 DEF TablesAre, PageIs, ResourceIs, Fetched, Awaits
<1> QED
  BY <1>2, <1>3, <1>4 DEF AsAnswered

LEMMA AnswersSave ==
  ASSUME FileKept, IssuesKept, AnswersKept, Save
  PROVE  AnswersKept'
<1>1. PICK u \in Pending(file) : file' = Saved(site, file, u)
  BY DEF Save
<1>2. phase' = "crawl" /\ status' # "done" /\ site' = site
  BY DEF Save, IssuesKept
<1>3. AsAnswered(file)
  BY DEF AnswersKept
<1>4. LET g == Saved(site, file, u) IN AsAnswered(g) /\ Rows(g) = Rows(file) \cup Discovered(site, u)
  BY <1>3, SavedAnswers
<1>5. AsAnswered(file') /\ Rows(file') = Rows(file) \cup Discovered(site, u)
  BY <1>1, <1>4
<1>6. AsAnswered(file)'
  BY <1>2, <1>5, AnswersAfter
<1>7. u \in Rows(Whole(site)) /\ Awaits(u)
  BY <1>3, PendingAwaits DEF Pending, AnswersKept
<1>8. Rows(file') \subseteq Rows(Whole(site))
  BY <1>5, <1>7, WholeKnows DEF AnswersKept
<1> QED
  BY <1>2, <1>6, <1>8 DEF AnswersKept

LEMMA AnswersProbe ==
  ASSUME FileKept, IssuesKept, AnswersKept, Probe
  PROVE  AnswersKept'
<1>1. PICK u \in Unprobed(site, file) :
        LET d == site.docs[u] IN
        file' = [file EXCEPT !.urls[u] = UrlRow(site, u, "skipped", [d EXCEPT !.location = No]),
                             !.resources = Upsert(ResourceRows(site, u, d), @)]
  BY DEF Probe
<1>2. phase' = "crawl" /\ status' # "done" /\ site' = site
  BY DEF Probe, IssuesKept
<1> DEFINE g == file'
           more == ResourceRows(site, u, site.docs[u])
<1>3. AsAnswered(file)
  BY DEF AnswersKept
<1>4. /\ file'.ids = file.ids /\ file'.pages = file.pages /\ file'.links = file.links /\ file'.images = file.images
      /\ file'.urls = [file.urls EXCEPT ![u] = Probed(u)]
      /\ file'.resources = Upsert(more, file.resources)
      /\ HeadIs(file')
  BY <1>1, <1>3 DEF AsAnswered, HeadIs, FileFields, Probed
<1>5. file'.urls = [v \in Rows(file) |-> IF v \in {u} THEN Probed(v) ELSE file.urls[v]]
  <2>1. DOMAIN file'.urls = Rows(file) /\ \A v \in Rows(file) : file'.urls[v] = IF v \in {u} THEN Probed(v) ELSE file.urls[v]
    BY <1>4 DEF Rows
  <2> QED
    BY <1>4, <2>1
<1>6. DOMAIN more \subseteq {u}
  BY DEF ResourceRows
<1> HIDE DEF more
<1>7. /\ DOMAIN file'.resources \subseteq DOMAIN file.resources \cup {u}
      /\ \A v \in DOMAIN file.resources \ {u} : v \in DOMAIN file'.resources /\ file'.resources[v] = file.resources[v]
  BY <1>4, <1>6 DEF Upsert
<1>8. AsAnswered(file') /\ Rows(file') = Rows(file)
  <2>1. {u} \in SUBSET Unprobed(site, file)
    OBVIOUS
  <2> QED
    BY <1>3, <1>4, <1>5, <1>7, <2>1, ProbesAnswer
<1>9. AsAnswered(file)'
  BY <1>2, <1>8, AnswersAfter
<1> QED
  BY <1>2, <1>8, <1>9 DEF AnswersKept

LEMMA AnswersEnd ==
  ASSUME FileKept, AnswersKept, site' = site, file' \in {Recorded(site, file), Counted(Recorded(site, file))}
  PROVE  AnswersKept'
<1>1. AsAnswered(file') /\ file'.urls = file.urls /\ file'.robots = site.robots /\ file'.sitemaps = site.sitemaps
  BY EndAnswers DEF AnswersKept
<1>2. AsAnswered(file)'
  BY <1>1, AnswersAfter
<1> QED
  BY <1>1, <1>2 DEF AnswersKept, Rows

LEMMA AnswersStepKeeps ==
  ASSUME AuditInv, AnswersKept, [Next]_vars
  PROVE  AnswersKept'
<1>0. FileKept /\ IssuesKept
  BY DEF AuditInv
<1>1. CASE Save
  BY <1>0, <1>1, AnswersSave
<1>2. CASE Probe
  BY <1>0, <1>2, AnswersProbe
<1>3. CASE Finalize
  BY <1>0, <1>3, AnswersEnd DEF Finalize
<1>4. CASE Pause
  BY <1>0, <1>4, AnswersEnd DEF Pause
<1>5. CASE EvaluateRule \/ Done \/ Crash \/ Resume \/ Over \/ UNCHANGED vars
  <2>1. file' = file /\ site' = site /\ (phase' = "final" \/ status' = "done" => phase = "final" \/ status = "done")
    BY <1>5 DEF EvaluateRule, Done, Crash, Resume, Over, vars
  <2>2. AsAnswered(file)'
    BY <2>1, AnswersAfter DEF AnswersKept
  <2> QED
    BY <2>1, <2>2 DEF AnswersKept
<1> QED
  BY <1>1, <1>2, <1>3, <1>4, <1>5 DEF Next

-----------------------------------------------------------------------------
(* A file and one that knows all it does.                                  *)

(* The row of a URL of which nothing was asked yet.                        *)
Bare(row) == row.state \in {"pending", "skipped"} /\ row.status = 0 /\ row.error = NoText /\ row.next = No

WellFormed(f) ==
  /\ RedirectsLand(f) /\ LinksLand(f) /\ Pages(f) \subseteq Rows(f)
  /\ \A u \in Rows(f) : f.ids[u] \in Nat

PartOf(f, g) ==
  /\ f.text = g.text /\ f.mode = g.mode /\ f.asksSitemaps = g.asksSitemaps
  /\ f.robots = g.robots /\ f.sitemaps = g.sitemaps
  /\ Rows(f) \subseteq Rows(g) /\ InSitemap(f) = InSitemap(g)
  /\ \A u \in Rows(f) : /\ f.urls[u].internal = g.urls[u].internal
                        /\ f.urls[u] = g.urls[u] \/ Bare(f.urls[u])
  /\ Pages(f) \subseteq Pages(g)
  /\ \A u \in Pages(f) : f.urls[u] = g.urls[u] /\ \A x \in RuleFields : f.pages[u][x] = g.pages[u][x]
  /\ f.links \subseteq g.links /\ f.images \subseteq g.images
  /\ \A u \in DOMAIN f.resources \cap Internal(f) : u \in DOMAIN g.resources /\ f.resources[u] = g.resources[u]

LEMMA AnsweredIsWellFormed ==
  ASSUME FileKept, NEW f, AsAnswered(f)
  PROVE  WellFormed(f)
<1>1. RowsAre(f) /\ TablesAre(f)
  BY DEF AsAnswered
<1>2. ASSUME NEW u \in Rows(f), f.urls[u].next # No PROVE f.urls[u].next \in Rows(f)
  <2>1. RowIs(f, u)
    BY <1>1 DEF RowsAre
  <2>2. CASE f.urls[u] = Blank(u)
    BY <1>2, <2>2, BlankIs
  <2>3. CASE Awaits(u) /\ f.urls[u] = BuildResult(site, u).url
    <3>1. u \in DOMAIN site.docs
      BY <2>1, <2>3 DEF RowIs
    <3>2. f.urls[u].state # "pending" /\ f.urls[u].next \in Discovered(site, u)
      BY <1>2, <2>3, <3>1, BuildResultIs
    <3> QED
      BY <1>1, <2>3, <3>2 DEF RowsAre, Fetched
  <2>4. CASE Probable(u) /\ f.urls[u] = Probed(u)
    <3>1. "location" \in DOMAIN site.docs[u]
      BY <2>4, AuditAssumption DEF Probable, FileKept
    <3> QED
      BY <1>2, <2>4, <3>1, ProbesLeadNowhere DEF Probed
  <2> QED
    BY <2>1, <2>2, <2>3, <2>4 DEF RowIs
<1>3. RedirectsLand(f)
  BY <1>1, <1>2 DEF RedirectsLand, Redirects, RowsAre
<1>4. ASSUME NEW l \in f.links PROVE l.from \in Rows(f) /\ l.to \in Rows(f)
  <2>1. PICK u \in Fetched(f) : l \in BuildResult(site, u).links
    BY <1>1 DEF TablesAre
  <2>2. u \in DOMAIN site.docs /\ u \in Rows(f)
    BY <2>1, PendingAwaits DEF Fetched
  <2>3. l.from = u /\ l.to \in Discovered(site, u)
    BY <2>1, <2>2, BuildResultIs
  <2> QED
    BY <1>1, <2>1, <2>2, <2>3 DEF RowsAre
<1>5. LinksLand(f)
  BY <1>1, <1>4 DEF LinksLand, RowsAre
<1>6. Pages(f) \subseteq Rows(f)
  BY <1>1 DEF TablesAre, Fetched
<1> QED
  BY <1>1, <1>3, <1>5, <1>6 DEF WellFormed, RowsAre

(* Whatever part of the site a file is of, it is part of the whole.        *)
LEMMA AnsweredIsPart ==
  ASSUME FileKept, NEW f, AsAnswered(f), NEW g, WholeFile(g), Rows(f) \subseteq Rows(g),
         f.robots = site.robots, f.sitemaps = site.sitemaps
  PROVE  PartOf(f, g)
<1>1. HeadIs(f) /\ RowsAre(f) /\ TablesAre(f) /\ HeadIs(g) /\ RowsAre(g) /\ TablesAre(g) /\ Pending(g) = {} /\ AsAnswered(g)
  BY DEF AsAnswered, WholeFile
<1>2. ASSUME NEW u \in Rows(f)
      PROVE  /\ f.urls[u].internal = g.urls[u].internal
             /\ f.urls[u] = g.urls[u] \/ Bare(f.urls[u])
             /\ u \in Fetched(f) => u \in Fetched(g) /\ f.urls[u] = g.urls[u]
  <2>1. u \in Rows(g) /\ f.urls[u].internal = g.urls[u].internal
    BY <1>1, <1>2, PendingAwaits
  <2>2. Awaits(u) => u \in Fetched(g)
    BY <1>1, <2>1 DEF Fetched, Pending
  <2>3. RowIs(f, u)
    BY <1>1 DEF RowsAre
  <2>4. CASE f.urls[u] = Blank(u)
    BY <2>1, <2>4, BlankIs DEF Bare, Fetched
  <2>5. CASE Awaits(u) /\ f.urls[u] = BuildResult(site, u).url
    <3>1. g.urls[u] = BuildResult(site, u).url
      BY <1>1, <2>1, <2>2, <2>5, PendingAwaits
    <3> QED
      BY <2>1, <2>2, <2>5, <3>1
  <2>6. CASE Probable(u) /\ f.urls[u] = Probed(u)
    BY <2>1, <2>6 DEF WholeFile, Probable, Fetched
  <2> QED
    BY <2>3, <2>4, <2>5, <2>6 DEF RowIs
<1>3. Fetched(f) \subseteq Fetched(g)
  BY <1>2 DEF Fetched
<1>4. Pages(f) \subseteq Pages(g)
  BY <1>1, <1>3 DEF TablesAre
<1>5. ASSUME NEW u \in Pages(f)
      PROVE  f.urls[u] = g.urls[u] /\ \A x \in RuleFields : f.pages[u][x] = g.pages[u][x]
  <2>1. u \in Rows(f) /\ u \in Fetched(f)
    BY <1>1 DEF TablesAre, Fetched
  <2>2. PageIs(f, u) /\ PageIs(g, u)
    BY <1>1, <1>4 DEF TablesAre
  <2> QED
    BY <1>2, <2>1, <2>2 DEF PageIs
<1>6. f.links \subseteq g.links /\ f.images \subseteq g.images
  <2>1. f.links \subseteq g.links
    BY <1>1, <1>3 DEF TablesAre
  <2>2. f.images \subseteq g.images
    BY <1>1, <1>3 DEF TablesAre
  <2> QED
    BY <2>1, <2>2
<1>7. InSitemap(f) = InSitemap(g)
  <2>1. \A u \in Rows(f) : f.urls[u].inSitemap = (u \in site.inSitemap)
    BY PendingAwaits
  <2>2. \A u \in Rows(g) : g.urls[u].inSitemap = (u \in site.inSitemap)
    BY <1>1, PendingAwaits
  <2>3. site.inSitemap \subseteq Rows(f)
    BY <1>1 DEF RowsAre
  <2> QED
    BY <2>1, <2>2, <2>3 DEF InSitemap
<1>8. ASSUME NEW u \in DOMAIN f.resources \cap Internal(f)
      PROVE  u \in DOMAIN g.resources /\ f.resources[u] = g.resources[u]
  <2>1. u \in Rows(f) /\ InScope(site, u)
    BY PendingAwaits DEF Internal
  <2>2. u \in Fetched(f) /\ u \in Fetched(g)
    BY <1>1, <1>3, <2>1 DEF TablesAre
  <2>3. ResourceIs(f, u) /\ ResourceIs(g, u)
    BY <1>1, <2>2 DEF TablesAre
  <2> QED
    BY <2>3 DEF ResourceIs
<1>9. f.robots = g.robots /\ f.sitemaps = g.sitemaps
  BY DEF WholeFile
<1>10. f.text = g.text /\ f.mode = g.mode /\ f.asksSitemaps = g.asksSitemaps
  BY <1>1 DEF HeadIs
<1> QED
  BY <1>2, <1>4, <1>5, <1>6, <1>7, <1>8, <1>9, <1>10 DEF PartOf

-----------------------------------------------------------------------------
(* What the rules say of a part, rule by rule.                             *)

SaidToo(X, Y) == \A i \in X : \E j \in Y : j.rule = i.rule /\ j.url = i.url

LEMMA SaidTooBoth ==
  ASSUME NEW A, NEW B, NEW C, NEW D, SaidToo(A, B), SaidToo(C, D)
  PROVE  SaidToo(A \cup C, B \cup D)
  BY DEF SaidToo

(* A rule that says the same of each of some URLs, and of no other.        *)
Tells(X, r, us) == (\A i \in X : i.rule = r /\ i.url \in us) /\ \A u \in us : \E j \in X : j.rule = r /\ j.url = u

LEMMA TellsToo ==
  ASSUME NEW X, NEW Y, NEW r, NEW us, NEW vs, Tells(X, r, us), Tells(Y, r, vs), us \subseteq vs
  PROVE  SaidToo(X, Y)
  BY DEF SaidToo, Tells

LEMMA PagesSaid ==
  ASSUME NEW f, NEW g, PartOf(f, g), WellFormed(f)
  PROVE  \A u \in Pages(f) : SamePage(f, g, u) /\ PageRules(f, u) = PageRules(g, u)
<1> SUFFICES ASSUME NEW u \in Pages(f) PROVE SamePage(f, g, u)
  BY PageRulesAreLocal
<1> QED
  BY DEF PartOf, SamePage, RuleFields

(* A row that says something is that of the whole.                         *)
LEMMA RowsSaid ==
  ASSUME NEW f, NEW g, PartOf(f, g)
  PROVE  /\ \A u \in Rows(f) : f.urls[u].status # 0 \/ f.urls[u].error # NoText \/ f.urls[u].next # No
                               \/ f.urls[u].state \notin {"pending", "skipped"} => f.urls[u] = g.urls[u]
         /\ Rows(f) \subseteq Rows(g) /\ Internal(f) = Internal(g) \cap Rows(f)
         /\ Redirects(f) \subseteq Redirects(g) /\ \A u \in Redirects(f) : f.urls[u].next = g.urls[u].next
<1>1. \A u \in Rows(f) : f.urls[u] = g.urls[u] \/ Bare(f.urls[u])
  BY DEF PartOf
<1> QED
  BY <1>1 DEF PartOf, Bare, Internal, Redirects

LEMMA IndexableSaid ==
  ASSUME NEW f, NEW g, PartOf(f, g), WellFormed(f), WellFormed(g)
  PROVE  /\ Indexable(f) = Indexable(g) \cap Pages(f) /\ Signed(f) = Signed(g) \cap Pages(f)
         /\ IsFiniteSet(Indexable(f)) /\ IsFiniteSet(Indexable(g))
         /\ IsFiniteSet(Signed(f)) /\ IsFiniteSet(Signed(g))
<1>1. {"indexable", "signature"} \subseteq RuleFields
  BY DEF RuleFields, PageFields, ParsedFields
<1>2. Indexable(f) = Indexable(g) \cap Pages(f)
  BY <1>1 DEF Indexable, PartOf
<1>3. Signed(f) = Signed(g) \cap Pages(f)
  BY <1>1, <1>2 DEF Signed, PartOf, Indexable
<1>4. IsFiniteSet(Rows(f)) /\ IsFiniteSet(Rows(g)) /\ Indexable(f) \subseteq Rows(f) /\ Indexable(g) \subseteq Rows(g)
  BY DEF WellFormed, RedirectsLand, Indexable
<1>5. Signed(f) \subseteq Rows(f) /\ Signed(g) \subseteq Rows(g)
  BY <1>4 DEF Signed
<1> QED
  BY <1>2, <1>3, <1>4, <1>5, FS_Subset

(* index.rs                                                                *)
LEMMA IndexSaid ==
  ASSUME NEW f, NEW g, PartOf(f, g), WellFormed(f), WellFormed(g)
  PROVE  \A n \in {4, 5, 6, 8, 9, 10, 11} : SaidToo(SiteRule(f, n), SiteRule(g, n))
<1>1. \A u \in Rows(f) : BlockedByRobots(f, u) => u \in Rows(g) /\ BlockedByRobots(g, u)
  <2> SUFFICES ASSUME NEW u \in Rows(f), BlockedByRobots(f, u) PROVE u \in Rows(g) /\ BlockedByRobots(g, u)
    OBVIOUS
  <2>1. CASE f.urls[u].state = "excluded" /\ f.urls[u].reason = "robots"
    BY <2>1, RowsSaid DEF BlockedByRobots
  <2>2. CASE u \in Pages(f) /\ f.pages[u].why = "robots"
    <3>1. "why" \in RuleFields
      BY DEF RuleFields
    <3> QED
      BY <2>2, <3>1, RowsSaid DEF BlockedByRobots, PartOf
  <2> QED
    BY <2>1, <2>2 DEF BlockedByRobots
<1>2. SaidToo(BlockedInSitemap(f), BlockedInSitemap(g))
  <2>1. {u \in InSitemap(f) : BlockedByRobots(f, u)} \subseteq {u \in InSitemap(g) : BlockedByRobots(g, u)}
    BY <1>1 DEF PartOf, InSitemap
  <2> QED
    BY <2>1 DEF SaidToo, BlockedInSitemap, OnUrls
<1>3. SaidToo(NoindexInSitemap(f), NoindexInSitemap(g))
  <2>1. {"why", "indexable"} \subseteq RuleFields
    BY DEF RuleFields, PageFields
  <2>2. {u \in InSitemap(f) \cap Pages(f) : ~f.pages[u].indexable /\ f.pages[u].why = "noindex"}
        \subseteq {u \in InSitemap(g) \cap Pages(g) : ~g.pages[u].indexable /\ g.pages[u].why = "noindex"}
    BY <2>1 DEF PartOf
  <2> QED
    BY <2>2 DEF SaidToo, NoindexInSitemap, OnUrls
<1>4. SitemapMissing(f) = SitemapMissing(g)
  BY DEF PartOf, SitemapMissing
<1>5. /\ RobotsTxtMissing(f, SomeHost(f)) = RobotsTxtMissing(g, SomeHost(g))
      /\ RobotsTxtBlocksAll(f) = RobotsTxtBlocksAll(g)
  BY DEF PartOf, RobotsTxtMissing, RobotsTxtBlocksAll, SomeHost
<1>6. SitemapError(f) = SitemapError(g)
  BY DEF PartOf, SitemapError
<1>7. SaidToo(RobotsBlocked(f), RobotsBlocked(g))
  <2> DEFINE from(h, u) == {l.from : l \in {k \in h.links : k.to = u}}
             us(h) == {v \in Internal(h) : BlockedByRobots(h, v) /\ from(h, v) # {} /\ ~Infrastructure(h, v)}
  <2>1. us(f) \subseteq us(g)
    <3> SUFFICES ASSUME NEW v \in us(f) PROVE v \in us(g)
      OBVIOUS
    <3>1. v \in Internal(g) /\ v \in Rows(f) /\ BlockedByRobots(g, v)
      BY <1>1, RowsSaid DEF Internal
    <3>2. from(f, v) \subseteq from(g, v) /\ ~Infrastructure(g, v)
      BY DEF PartOf, Infrastructure
    <3> QED
      BY <3>1, <3>2
  <2>2. ASSUME NEW h PROVE Tells(RobotsBlocked(h), "INDEX-ROBOTS-BLOCKED", us(h))
    <3> DEFINE told(u) == Finding("INDEX-ROBOTS-BLOCKED", "critical", u, Cardinality(from(h, u)), NoGroup)
    <3>1. RobotsBlocked(h) = {told(u) : u \in us(h)}
      BY DEF RobotsBlocked
    <3>2. \A u : told(u).rule = "INDEX-ROBOTS-BLOCKED" /\ told(u).url = u
      BY DEF Finding
    <3> HIDE DEF told, us
    <3> QED
      BY <3>1, <3>2 DEF Tells
  <2> QED
    BY <2>1, <2>2, TellsToo
<1> QED
  BY <1>2, <1>3, <1>4, <1>5, <1>6, <1>7 DEF SiteRule, SaidToo

(* meta.rs                                                                 *)
LEMMA MoreThanOne ==
  ASSUME NEW S, NEW T, IsFiniteSet(T), S \subseteq T, Cardinality(S) > 1
  PROVE  Cardinality(T) > 1
<1>1. IsFiniteSet(S) /\ Cardinality(S) <= Cardinality(T)
  BY FS_Subset
<1>2. Cardinality(S) \in Nat /\ Cardinality(T) \in Nat
  BY <1>1, FS_CardinalityType
<1> QED
  BY <1>1, <1>2

LEMMA MetaSaid ==
  ASSUME NEW f, NEW g, PartOf(f, g), WellFormed(f), WellFormed(g)
  PROVE  SaidToo(SiteRule(f, 13), SiteRule(g, 13))
<1>0. Indexable(f) \subseteq Indexable(g) /\ IsFiniteSet(Indexable(g))
  BY IndexableSaid
<1>1. {"title", "desc"} \subseteq RuleFields
  BY DEF RuleFields, PageFields, ParsedFields
<1>2. \A u \in Indexable(f) : f.pages[u].title = g.pages[u].title /\ f.pages[u].desc = g.pages[u].desc
  BY <1>1 DEF PartOf, Indexable
<1>3. SaidToo(MetaTitleDuplicate(f), MetaTitleDuplicate(g))
  <2> SUFFICES ASSUME NEW i \in MetaTitleDuplicate(f) PROVE \E j \in MetaTitleDuplicate(g) : j.rule = i.rule /\ j.url = i.url
    BY DEF SaidToo
  <2>1. PICK t \in {f.pages[u].title.text : u \in Indexable(f)} \ {No} : \E u \in Titled(f, t) :
          /\ Cardinality(Titled(f, t)) > 1
          /\ i.rule = "META-TITLE-DUPLICATE" /\ i.url = u
    BY DEF MetaTitleDuplicate, Finding
  <2>2. PICK u \in Titled(f, t) : Cardinality(Titled(f, t)) > 1 /\ i.rule = "META-TITLE-DUPLICATE" /\ i.url = u
    BY <2>1
  <2>3. Titled(f, t) \subseteq Titled(g, t) /\ IsFiniteSet(Titled(g, t))
    <3>1. Titled(f, t) \subseteq Titled(g, t) /\ Titled(g, t) \subseteq Indexable(g)
      BY <1>0, <1>2 DEF Titled
    <3> QED
      BY <1>0, <3>1, FS_Subset
  <2>4. Cardinality(Titled(g, t)) > 1
    BY <2>2, <2>3, MoreThanOne
  <2>5. t \in {g.pages[v].title.text : v \in Indexable(g)} \ {No} /\ u \in Titled(g, t)
    BY <2>2, <2>3 DEF Titled
  <2> DEFINE j == Finding("META-TITLE-DUPLICATE", IF OneSeries(g, Titled(g, t)) THEN "low" ELSE "high", u,
                          Cardinality(Titled(g, t)), <<"title", {t}>>)
  <2>6. j \in MetaTitleDuplicate(g)
    <3> DEFINE of(t2) == {Finding("META-TITLE-DUPLICATE", IF OneSeries(g, Titled(g, t2)) THEN "low" ELSE "high", v,
                                  Cardinality(Titled(g, t2)), <<"title", {t2}>>) :
                            v \in {w \in Titled(g, t2) : Cardinality(Titled(g, t2)) > 1}}
    <3>1. j \in of(t)
      BY <2>4, <2>5
    <3>2. MetaTitleDuplicate(g) = UNION {of(t2) : t2 \in {g.pages[v].title.text : v \in Indexable(g)} \ {No}}
      BY DEF MetaTitleDuplicate
    <3> HIDE DEF j, of
    <3> QED
      BY <2>5, <3>1, <3>2
  <2>7. j.rule = "META-TITLE-DUPLICATE" /\ j.url = u
    BY DEF Finding
  <2> HIDE DEF j
  <2> QED
    BY <2>2, <2>6, <2>7
<1>4. SaidToo(MetaDescDuplicate(f), MetaDescDuplicate(g))
  <2> DEFINE same(h, u) == {v \in Indexable(h) : h.pages[v].desc.text = h.pages[u].desc.text}
             us(h) == {v \in Indexable(h) : h.pages[v].desc.text # No /\ Cardinality(same(h, v)) > 1}
  <2>1. ASSUME NEW v \in us(f) PROVE v \in us(g)
    <3>1. same(f, v) \subseteq same(g, v) /\ same(g, v) \subseteq Indexable(g)
      BY <1>0, <1>2
    <3>2. Cardinality(same(g, v)) > 1
      <4> HIDE DEF same
      <4> QED
        BY <1>0, <2>1, <3>1, FS_Subset, MoreThanOne
    <3> QED
      BY <1>0, <1>2, <3>2
  <2>2. ASSUME NEW h PROVE Tells(MetaDescDuplicate(h), "META-DESC-DUPLICATE", us(h))
    <3> DEFINE told(u) == Finding("META-DESC-DUPLICATE", "medium", u, Cardinality(same(h, u)), <<"desc", {h.pages[u].desc.text}>>)
    <3>1. MetaDescDuplicate(h) = {told(u) : u \in us(h)}
      BY DEF MetaDescDuplicate
    <3>2. \A u : told(u).rule = "META-DESC-DUPLICATE" /\ told(u).url = u
      BY DEF Finding
    <3> HIDE DEF told, us
    <3> QED
      BY <3>1, <3>2 DEF Tells
  <2> QED
    BY <2>1, <2>2, TellsToo
<1> QED
  BY <1>3, <1>4, SaidTooBoth DEF SiteRule, MetaSiteRules

(* http.rs, what is not of redirects                                       *)
LEMMA ByLinksTells ==
  ASSUME NEW f, NEW r, NEW us
  PROVE  Tells(ByLinks(f, r, us), r, {v \in us : LinkedFrom(f, v) # {}})
<1> DEFINE told(u) == HttpFinding(r, u, Cardinality(LinkedFrom(f, u)))
           vs == {v \in us : LinkedFrom(f, v) # {}}
<1>1. ByLinks(f, r, us) = {told(u) : u \in vs}
  BY DEF ByLinks
<1>2. \A u : told(u).rule = r /\ told(u).url = u
  BY DEF HttpFinding, Finding
<1> HIDE DEF told, vs
<1> QED
  BY <1>1, <1>2 DEF Tells, vs

LEMMA LinkedSaid ==
  ASSUME NEW f, NEW g, PartOf(f, g), NEW r, NEW us, NEW vs, us \subseteq vs
  PROVE  SaidToo(ByLinks(f, r, us), ByLinks(g, r, vs))
<1>1. {v \in us : LinkedFrom(f, v) # {}} \subseteq {v \in vs : LinkedFrom(g, v) # {}}
  BY DEF LinkedFrom, PartOf
<1> QED
  BY <1>1, ByLinksTells, TellsToo

HttpOther(f) == Http404Internal(f) \cup Http404External(f) \cup HttpExternalUnverifiable(f) \cup HttpNoHttps(f)

LEMMA HttpSaid ==
  ASSUME NEW f, NEW g, PartOf(f, g), WellFormed(f), WellFormed(g)
  PROVE  SaidToo(HttpOther(f), HttpOther(g))
<1>0. Internal(f) \subseteq Internal(g) /\ Rows(f) \ Internal(f) \subseteq Rows(g) \ Internal(g)
  BY RowsSaid
<1>1. SaidToo(Http404Internal(f), Http404Internal(g))
  <2>1. {u \in Internal(f) : Is4xx(f.urls[u].status)} \subseteq {u \in Internal(g) : Is4xx(g.urls[u].status)}
    BY <1>0, RowsSaid DEF Is4xx, Internal
  <2> QED
    BY <2>1, LinkedSaid DEF Http404Internal
<1>2. SaidToo(Http404External(f), Http404External(g))
  <2> DEFINE gone(h) == {u \in Rows(h) \ Internal(h) : \/ h.urls[u].status \in GoneStatus
                                                       \/ ~Answered(h, u) /\ h.urls[u].error = "dns"}
  <2>1. ASSUME NEW u \in gone(f) PROVE u \in gone(g)
    <3>0. u \in Rows(f) /\ (f.urls[u].status # 0 \/ f.urls[u].error # NoText)
      <4>1. "dns" # NoText
        BY DEF NoText
      <4>2. u \in Rows(f) /\ (f.urls[u].status \in GoneStatus \/ f.urls[u].error = "dns")
        OBVIOUS
      <4>3. 0 \notin GoneStatus
        BY DEF GoneStatus
      <4> QED
        BY <4>1, <4>2, <4>3
    <3>1. f.urls[u] = g.urls[u]
      BY <3>0, RowsSaid
    <3> QED
      BY <1>0, <3>1 DEF Answered
  <2>2. gone(f) \subseteq gone(g)
    BY <2>1
  <2> HIDE DEF gone
  <2> QED
    BY <2>2, LinkedSaid DEF Http404External, gone
<1>3. SaidToo(HttpExternalUnverifiable(f), HttpExternalUnverifiable(g))
  <2>1. {u \in Rows(f) \ Internal(f) : f.urls[u].status \in RefusedStatus}
        \subseteq {u \in Rows(g) \ Internal(g) : g.urls[u].status \in RefusedStatus}
    BY <1>0, RowsSaid DEF RefusedStatus
  <2> QED
    BY <2>1, LinkedSaid DEF HttpExternalUnverifiable
<1>4. SaidToo(HttpNoHttps(f), HttpNoHttps(g))
  <2> DEFINE plain(h) == {u \in Internal(h) :
                            /\ ~h.text[u].https /\ h.urls[u].state = "done"
                            /\ \/ Is2xx(h.urls[u].status)
                               \/ /\ Is3xx(h.urls[u].status) /\ h.urls[u].next # No
                                  /\ ~h.text[h.urls[u].next].https}
  <2>1. plain(f) \subseteq plain(g)
    <3> SUFFICES ASSUME NEW u \in plain(f) PROVE u \in plain(g)
      OBVIOUS
    <3>1. f.urls[u] = g.urls[u] /\ f.text = g.text
      BY RowsSaid DEF Internal, PartOf
    <3> QED
      BY <1>0, <3>1
  <2>2. \A h : HttpNoHttps(h) = IF plain(h) = {} THEN {} ELSE {HttpFinding("HTTP-NO-HTTPS", No, Cardinality(plain(h)))}
    BY DEF HttpNoHttps
  <2>3. \A n : HttpFinding("HTTP-NO-HTTPS", No, n).rule = "HTTP-NO-HTTPS" /\ HttpFinding("HTTP-NO-HTTPS", No, n).url = No
    BY DEF HttpFinding, Finding
  <2> HIDE DEF plain
  <2>4. CASE plain(f) = {}
    BY <2>2, <2>4 DEF SaidToo
  <2>5. CASE plain(f) # {}
    BY <2>1, <2>2, <2>3, <2>5 DEF SaidToo
  <2> QED
    BY <2>4, <2>5
<1> QED
  BY <1>1, <1>2, <1>3, <1>4, SaidTooBoth DEF HttpOther

(* canon.rs, what is not of near-duplicates                                *)
LEMMA OfTargetsSaid ==
  ASSUME NEW f, NEW g, NEW r, NEW us, NEW vs, us \subseteq vs
  PROVE  SaidToo(OfTargets(f, r, us), OfTargets(g, r, vs))
<1>1. ASSUME NEW h, NEW ws PROVE Tells(OfTargets(h, r, ws), r, ws)
  <2> DEFINE told(u) == CanonFinding(r, u, Target(h, u))
  <2>1. OfTargets(h, r, ws) = {told(u) : u \in ws}
    BY DEF OfTargets
  <2>2. \A u : told(u).rule = r /\ told(u).url = u
    BY DEF CanonFinding, Finding
  <2> HIDE DEF told
  <2> QED
    BY <2>1, <2>2 DEF Tells
<1> QED
  BY <1>1, TellsToo

CanonOther(f) == CanonToError(f) \cup CanonToNoindex(f) \cup CanonChain(f) \cup CanonToRedirect(f) \cup DupContentExact(f)

LEMMA CanonSaid ==
  ASSUME NEW f, NEW g, PartOf(f, g), WellFormed(f), WellFormed(g)
  PROVE  SaidToo(CanonOther(f), CanonOther(g))
<1>0. {"canonical", "hash", "metaRobots", "headerRobots"} \subseteq RuleFields
  BY DEF RuleFields, PageFields, ParsedFields
<1>1. Canonicalised(f) \subseteq Canonicalised(g) /\ \A u \in Canonicalised(f) : Target(f, u) = Target(g, u) /\ Target(f, u) \in Rows(f)
  BY <1>0 DEF PartOf, Canonicalised, Target
<1>2. SaidToo(CanonToError(f), CanonToError(g))
  <2> DEFINE gone(h) == {u \in Canonicalised(h) : IF Target(h, u) \in Internal(h) THEN h.urls[Target(h, u)].status >= 400
                                                  ELSE h.urls[Target(h, u)].status \in GoneStatus}
  <2>1. ASSUME NEW u \in gone(f) PROVE u \in gone(g)
    <3>1. Target(f, u) = Target(g, u) /\ Target(f, u) \in Rows(f) /\ u \in Canonicalised(g)
      BY <1>1
    <3>2. f.urls[Target(f, u)].status # 0
      BY DEF GoneStatus
    <3>3. f.urls[Target(f, u)] = g.urls[Target(f, u)] /\ (Target(f, u) \in Internal(f) <=> Target(f, u) \in Internal(g))
      BY <3>1, <3>2, RowsSaid
    <3> QED
      BY <3>1, <3>3
  <2>2. gone(f) \subseteq gone(g)
    BY <2>1
  <2> HIDE DEF gone
  <2> QED
    BY <2>2, OfTargetsSaid DEF CanonToError, gone
<1>3. SaidToo(CanonToRedirect(f), CanonToRedirect(g))
  <2> DEFINE off(h) == {u \in Canonicalised(h) : Is3xx(h.urls[Target(h, u)].status) \/ h.urls[Target(h, u)].next # No}
  <2>1. ASSUME NEW u \in off(f) PROVE u \in off(g)
    <3>1. Target(f, u) = Target(g, u) /\ Target(f, u) \in Rows(f) /\ u \in Canonicalised(g)
      BY <1>1
    <3>2. f.urls[Target(f, u)] = g.urls[Target(f, u)]
      BY <3>1, RowsSaid DEF Is3xx
    <3> QED
      BY <3>1, <3>2
  <2>2. off(f) \subseteq off(g)
    BY <2>1
  <2> HIDE DEF off
  <2> QED
    BY <2>2, OfTargetsSaid DEF CanonToRedirect, off
<1>4. SaidToo(CanonToNoindex(f), CanonToNoindex(g))
  <2>1. \A v \in Pages(f) : v \in Pages(g) /\ (SaysNoindex(f.pages[v]) <=> SaysNoindex(g.pages[v]))
    BY <1>0 DEF PartOf, SaysNoindex
  <2>2. {u \in Canonicalised(f) : Target(f, u) \in Pages(f) /\ SaysNoindex(f.pages[Target(f, u)])}
        \subseteq {u \in Canonicalised(g) : Target(g, u) \in Pages(g) /\ SaysNoindex(g.pages[Target(g, u)])}
    BY <1>1, <2>1
  <2> QED
    BY <2>2, OfTargetsSaid DEF CanonToNoindex
<1>5. SaidToo(CanonChain(f), CanonChain(g))
  <2>1. {u \in Canonicalised(f) : Target(f, u) \in Canonicalised(f)} \subseteq {u \in Canonicalised(g) : Target(g, u) \in Canonicalised(g)}
    BY <1>1
  <2> QED
    BY <2>1, OfTargetsSaid DEF CanonChain
<1>6. SaidToo(DupContentExact(f), DupContentExact(g))
  <2> DEFINE same(h, u) == {v \in Indexable(h) : h.pages[v].hash = h.pages[u].hash}
             us(h) == {v \in Indexable(h) : Cardinality(same(h, v)) > 1}
  <2>0. /\ Indexable(f) \subseteq Indexable(g) /\ IsFiniteSet(Indexable(g))
        /\ \A u \in Indexable(f) : f.pages[u].hash = g.pages[u].hash
    <3>1. Indexable(f) \subseteq Indexable(g) /\ Indexable(f) \subseteq Pages(f) /\ IsFiniteSet(Indexable(g))
      BY IndexableSaid
    <3> QED
      BY <1>0, <3>1 DEF PartOf
  <2>1. ASSUME NEW v \in us(f) PROVE v \in us(g)
    <3>1. same(f, v) \subseteq same(g, v) /\ same(g, v) \subseteq Indexable(g)
      BY <2>0
    <3>2. Cardinality(same(g, v)) > 1
      <4> HIDE DEF same
      <4> QED
        BY <2>0, <2>1, <3>1, FS_Subset, MoreThanOne
    <3> QED
      BY <2>0, <3>2
  <2>2. ASSUME NEW h PROVE Tells(DupContentExact(h), "DUP-CONTENT-EXACT", us(h))
    <3> DEFINE told(u) == Finding("DUP-CONTENT-EXACT", "high", u, Cardinality(same(h, u)), <<"html", {h.pages[u].hash}>>)
    <3>1. DupContentExact(h) = {told(u) : u \in us(h)}
      BY DEF DupContentExact
    <3>2. \A u : told(u).rule = "DUP-CONTENT-EXACT" /\ told(u).url = u
      BY DEF Finding
    <3> HIDE DEF told, us
    <3> QED
      BY <3>1, <3>2 DEF Tells
  <2> HIDE DEF us
  <2> QED
    BY <2>1, <2>2, TellsToo
<1> QED
  BY <1>2, <1>3, <1>4, <1>5, <1>6, SaidTooBoth DEF CanonOther

(* asset.rs                                                                *)
Gone(f) == {v \in Rows(f) : AssetGone(f, v)}

LEMMA GoneSaid ==
  ASSUME NEW f, NEW g, PartOf(f, g)
  PROVE  Gone(f) \subseteq Gone(g)
<1> SUFFICES ASSUME NEW v \in Gone(f) PROVE v \in Gone(g)
  OBVIOUS
<1>1. f.urls[v].status # 0
  BY DEF Gone, AssetGone, GoneStatus
<1>2. f.urls[v] = g.urls[v] /\ v \in Rows(g) /\ (v \in Internal(f) <=> v \in Internal(g))
  BY <1>1, RowsSaid DEF Gone
<1> QED
  BY <1>2 DEF Gone, AssetGone

LEMMA AssetSaid ==
  ASSUME NEW f, NEW g, PartOf(f, g), WellFormed(f), WellFormed(g)
  PROVE  SaidToo(SiteRule(f, 15), SiteRule(g, 15))
<1>1. \A v : ShowingPages(f, v) # {} => ShowingPages(g, v) # {}
  BY DEF ShowingPages, PartOf
<1>2. \A v, e : UsingPages(f, v, e) # {} => UsingPages(g, v, e) # {}
  BY DEF UsingPages, PartOf
<1>3. SaidToo(AssetImgBroken(f), AssetImgBroken(g))
  <2> DEFINE us(h) == {v \in Rows(h) : ShowingPages(h, v) # {} /\ AssetGone(h, v)}
  <2>1. us(f) \subseteq us(g)
    BY <1>1, GoneSaid DEF Gone
  <2>2. ASSUME NEW h PROVE Tells(AssetImgBroken(h), "ASSET-IMG-BROKEN", us(h))
    <3> DEFINE told(u) == AssetFinding("ASSET-IMG-BROKEN", u, Cardinality(ShowingPages(h, u)))
    <3>1. AssetImgBroken(h) = {told(u) : u \in us(h)}
      BY DEF AssetImgBroken
    <3>2. \A u : told(u).rule = "ASSET-IMG-BROKEN" /\ told(u).url = u
      BY DEF AssetFinding, Finding
    <3> HIDE DEF told, us
    <3> QED
      BY <3>1, <3>2 DEF Tells
  <2> HIDE DEF us
  <2> QED
    BY <2>1, <2>2, TellsToo
<1>4. SaidToo(AssetImgHeavy(f), AssetImgHeavy(g))
  <2> DEFINE us(h) == {v \in Rows(h) : ShowingPages(h, v) # {} /\ h.urls[v].status = 200 /\ h.urls[v].bytes > HeavyBytes.img}
  <2>1. us(f) \subseteq us(g)
    BY <1>1, RowsSaid
  <2>2. ASSUME NEW h PROVE Tells(AssetImgHeavy(h), "ASSET-IMG-HEAVY", us(h))
    <3> DEFINE told(u) == AssetFinding("ASSET-IMG-HEAVY", u, h.urls[u].bytes)
    <3>1. AssetImgHeavy(h) = {told(u) : u \in us(h)}
      BY DEF AssetImgHeavy
    <3>2. \A u : told(u).rule = "ASSET-IMG-HEAVY" /\ told(u).url = u
      BY DEF AssetFinding, Finding
    <3> HIDE DEF told, us
    <3> QED
      BY <3>1, <3>2 DEF Tells
  <2> HIDE DEF us
  <2> QED
    BY <2>1, <2>2, TellsToo
<1>5. SaidToo(AssetBroken(f), AssetBroken(g))
  <2> DEFINE us(h, e) == {v \in Rows(h) : UsingPages(h, v, e) # {} /\ AssetGone(h, v)}
             told(h, u, e) == Finding("ASSET-BROKEN", "high", u, Cardinality(UsingPages(h, u, e)), <<"kind", {e}>>)
             of(h) == {v \in Rows(h) : \E e \in {"link", "script"} : v \in us(h, e)}
  <2>1. of(f) \subseteq of(g)
    BY <1>2, GoneSaid DEF Gone
  <2>2. ASSUME NEW h PROVE Tells(AssetBroken(h), "ASSET-BROKEN", of(h))
    <3>1. AssetBroken(h) = UNION {{told(h, u, e) : u \in us(h, e)} : e \in {"link", "script"}}
      BY DEF AssetBroken
    <3>2. \A u, e : told(h, u, e).rule = "ASSET-BROKEN" /\ told(h, u, e).url = u
      BY DEF Finding
    <3>3. \A e : us(h, e) \subseteq Rows(h)
      OBVIOUS
    <3> HIDE DEF told, us
    <3>4. \A i \in AssetBroken(h) : \E e \in {"link", "script"} : \E u \in us(h, e) : i = told(h, u, e)
      BY <3>1
    <3>5. \A e \in {"link", "script"} : \A u \in us(h, e) : told(h, u, e) \in AssetBroken(h)
      BY <3>1
    <3> QED
      BY <3>2, <3>3, <3>4, <3>5 DEF Tells
  <2> HIDE DEF of
  <2> QED
    BY <2>1, <2>2, TellsToo
<1>6. ASSUME NEW r, NEW kind PROVE SaidToo(HeavyResource(f, r, kind), HeavyResource(g, r, kind))
  <2> DEFINE us(h) == {v \in DOMAIN h.resources \cap Internal(h) :
                         /\ h.resources[v].kind = kind /\ h.resources[v].status = 200
                         /\ h.resources[v].bytes > HeavyBytes[kind]}
  <2>1. us(f) \subseteq us(g)
    <3> SUFFICES ASSUME NEW v \in us(f) PROVE v \in us(g)
      OBVIOUS
    <3>1. v \in DOMAIN g.resources /\ f.resources[v] = g.resources[v]
      BY DEF PartOf
    <3>2. v \in Internal(g)
      BY RowsSaid
    <3> QED
      BY <3>1, <3>2
  <2>2. ASSUME NEW h PROVE Tells(HeavyResource(h, r, kind), r, us(h))
    <3> DEFINE told(u) == AssetFinding(r, u, h.resources[u].bytes)
    <3>1. HeavyResource(h, r, kind) = {told(u) : u \in us(h)}
      BY DEF HeavyResource
    <3>2. \A u : told(u).rule = r /\ told(u).url = u
      BY DEF AssetFinding, Finding
    <3> HIDE DEF told, us
    <3> QED
      BY <3>1, <3>2 DEF Tells
  <2> HIDE DEF us
  <2> QED
    BY <2>1, <2>2, TellsToo
<1>7. ASSUME NEW r, NEW e PROVE SaidToo(BrokenEmbed(f, r, e), BrokenEmbed(g, r, e))
  <2> DEFINE us(h) == {v \in Internal(h) : UsingPages(h, v, e) # {} /\ h.urls[v].status >= 400}
  <2>1. us(f) \subseteq us(g)
    <3> SUFFICES ASSUME NEW v \in us(f) PROVE v \in us(g)
      OBVIOUS
    <3>1. v \in Rows(f) /\ f.urls[v].status # 0
      BY DEF Internal
    <3>2. f.urls[v] = g.urls[v] /\ v \in Internal(g)
      BY <3>1, RowsSaid
    <3> QED
      BY <1>2, <3>2
  <2>2. ASSUME NEW h PROVE Tells(BrokenEmbed(h, r, e), r, us(h))
    <3> DEFINE told(u) == AssetFinding(r, u, Cardinality(UsingPages(h, u, e)))
    <3>1. BrokenEmbed(h, r, e) = {told(u) : u \in us(h)}
      BY DEF BrokenEmbed
    <3>2. \A u : told(u).rule = r /\ told(u).url = u
      BY DEF AssetFinding, Finding
    <3> HIDE DEF told, us
    <3> QED
      BY <3>1, <3>2 DEF Tells
  <2> HIDE DEF us
  <2> QED
    BY <2>1, <2>2, TellsToo
<1> DEFINE images(h) == AssetImgBroken(h) \cup AssetImgHeavy(h) \cup AssetBroken(h)
           heavy(h) == HeavyResource(h, "ASSET-JS-HEAVY", "js") \cup HeavyResource(h, "ASSET-CSS-HEAVY", "css")
           embeds(h) == BrokenEmbed(h, "ASSET-IFRAME-BROKEN", "iframe") \cup BrokenEmbed(h, "ASSET-FORM-BROKEN", "form")
<1>8. SaidToo(images(f), images(g))
  BY <1>3, <1>4, <1>5, SaidTooBoth
<1>9. SaidToo(heavy(f), heavy(g)) /\ SaidToo(embeds(f), embeds(g))
  BY <1>6, <1>7, SaidTooBoth
<1>10. \A h : SiteRule(h, 15) = images(h) \cup heavy(h) \cup embeds(h)
  BY DEF SiteRule, AssetSiteRules
<1> HIDE DEF images, heavy, embeds
<1>11. SaidToo(images(f) \cup heavy(f), images(g) \cup heavy(g))
  BY <1>8, <1>9, SaidTooBoth
<1>12. SaidToo(images(f) \cup heavy(f) \cup embeds(f), images(g) \cup heavy(g) \cup embeds(g))
  BY <1>9, <1>11, SaidTooBoth
<1> QED
  BY <1>10, <1>12

(* link.rs                                                                 *)
LEMMA FragmentSaid ==
  ASSUME NEW f, NEW g, PartOf(f, g), WellFormed(f), WellFormed(g)
  PROVE  SaidToo(SiteRule(f, 18), SiteRule(g, 18))
<1> DEFINE ends(h) == {<<l.to, l.fragment>> : l \in {k \in FragmentLinks(h) : ~FragmentLands(k.fragment, h.pages[k.to].ids)}}
           us(h) == {p[1] : p \in ends(h)}
<1>1. ASSUME NEW l \in FragmentLinks(f)
      PROVE  l \in FragmentLinks(g) /\ f.pages[l.to].ids = g.pages[l.to].ids
  <2>1. /\ l \in f.links /\ l \in g.links /\ l.element = "a" /\ l.fragment.text # NoText
        /\ l.to \in Internal(f) \cap Pages(f) /\ f.urls[l.to].status = 200 /\ f.pages[l.to].ids # {"unknown"}
        /\ Is2xx(f.urls[l.from].status) /\ ~Infrastructure(f, l.to)
    BY DEF FragmentLinks, PartOf
  <2>2. l.from \in Rows(f) /\ f.urls[l.from].status # 0
    BY <2>1 DEF WellFormed, LinksLand, Is2xx
  <2>3. f.urls[l.from] = g.urls[l.from] /\ l.to \in Internal(g)
    BY <2>1, <2>2, RowsSaid
  <2>4. "ids" \in RuleFields
    BY DEF RuleFields, PageFields, ParsedFields
  <2>5. l.to \in Pages(g) /\ f.urls[l.to] = g.urls[l.to] /\ f.pages[l.to].ids = g.pages[l.to].ids
    BY <2>1, <2>4 DEF PartOf
  <2>6. ~Infrastructure(g, l.to)
    BY <2>1 DEF Infrastructure, PartOf
  <2> QED
    BY <2>1, <2>3, <2>5, <2>6 DEF FragmentLinks
<1>2. ends(f) \subseteq ends(g)
  <2> DEFINE lost(h) == {k \in FragmentLinks(h) : ~FragmentLands(k.fragment, h.pages[k.to].ids)}
  <2>1. lost(f) \subseteq lost(g)
    BY <1>1
  <2>2. \A h : ends(h) = {<<l.to, l.fragment>> : l \in lost(h)}
    OBVIOUS
  <2> HIDE DEF lost, ends
  <2> QED
    BY <2>1, <2>2
<1>3. us(f) \subseteq us(g)
  <2> HIDE DEF ends
  <2> QED
    BY <1>2
<1>4. ASSUME NEW h PROVE Tells(LinkFragmentBroken(h), "LINK-FRAGMENT-BROKEN", us(h))
  <2> DEFINE told(p) == Finding("LINK-FRAGMENT-BROKEN", "low", p[1],
                                Cardinality({l.from : l \in {k \in FragmentLinks(h) : k.to = p[1] /\ k.fragment = p[2]}}),
                                <<"link-fragment-broken", {p[2].text}>>)
  <2>1. LinkFragmentBroken(h) = {told(p) : p \in ends(h)}
    BY DEF LinkFragmentBroken
  <2>2. \A p : told(p).rule = "LINK-FRAGMENT-BROKEN" /\ told(p).url = p[1]
    BY DEF Finding
  <2> HIDE DEF told, ends
  <2> QED
    BY <2>1, <2>2 DEF Tells
<1> HIDE DEF us
<1> QED
  BY <1>3, <1>4, TellsToo DEF SiteRule

(* hreflang.rs, broken alternates                                          *)
LEMMA AlternatesSaid ==
  ASSUME NEW f, NEW g, PartOf(f, g)
  PROVE  /\ Sets(f) \subseteq Sets(g)
         /\ \A u \in Pages(f) : /\ f.pages[u].alternates = g.pages[u].alternates
                                /\ OwnKeys(f, u) = OwnKeys(g, u) /\ Declared(f, u) = Declared(g, u)
                                /\ DeclaredKeys(f, u) = DeclaredKeys(g, u)
<1>1. {"alternates", "canonical"} \subseteq RuleFields /\ f.text = g.text
  BY DEF RuleFields, PageFields, ParsedFields, PartOf
<1>2. \A u \in Pages(f) : u \in Pages(g) /\ f.pages[u].alternates = g.pages[u].alternates /\ f.pages[u].canonical = g.pages[u].canonical
  BY <1>1 DEF PartOf
<1>3. \A u \in Pages(f) : OwnKeys(f, u) = OwnKeys(g, u) /\ Declared(f, u) = Declared(g, u)
  BY <1>1, <1>2 DEF OwnKeys, Declared
<1>4. \A u \in Pages(f) : DeclaredKeys(f, u) = DeclaredKeys(g, u)
  BY <1>1, <1>3 DEF DeclaredKeys
<1>5. Sets(f) \subseteq Sets(g)
  BY <1>2 DEF Sets
<1> QED
  BY <1>2, <1>3, <1>4, <1>5

LEMMA HreflangBrokenSaid ==
  ASSUME NEW f, NEW g, PartOf(f, g)
  PROVE  SaidToo(HreflangTo4xx(f), HreflangTo4xx(g))
<1> DEFINE broken(h, v) == /\ v \in Rows(h)
                           /\ IF v \in Internal(h) THEN Is4xx(h.urls[v].status) ELSE h.urls[v].status \in GoneStatus
           us(h) == {u \in Sets(h) : \E v \in Declared(h, u) : broken(h, v)}
<1>1. ASSUME NEW v, broken(f, v) PROVE broken(g, v)
  <2>1. v \in Rows(f) /\ f.urls[v].status # 0
    BY <1>1 DEF Is4xx, GoneStatus
  <2>2. f.urls[v] = g.urls[v] /\ v \in Rows(g) /\ (v \in Internal(f) <=> v \in Internal(g))
    BY <2>1, RowsSaid
  <2> QED
    BY <1>1, <2>2
<1>2. ASSUME NEW h PROVE Tells(HreflangTo4xx(h), "HREFLANG-TO-4XX", us(h))
  <2> DEFINE told(u, key) == HreflangFinding("HREFLANG-TO-4XX", u, key, NoGroup)
             keys(u) == {h.text[v].key : v \in {w \in Declared(h, u) : broken(h, w)}}
  <2>1. HreflangTo4xx(h) = UNION {{told(u, key) : key \in keys(u)} : u \in Sets(h)}
    BY DEF HreflangTo4xx
  <2>2. \A u, key : told(u, key).rule = "HREFLANG-TO-4XX" /\ told(u, key).url = u
    BY DEF HreflangFinding, Finding
  <2>3. us(h) \subseteq Sets(h) /\ \A u \in Sets(h) : u \in us(h) <=> keys(u) # {}
    BY Zenon
  <2> HIDE DEF told, keys, us
  <2>4. \A i \in HreflangTo4xx(h) : \E u \in Sets(h) : \E key \in keys(u) : i = told(u, key)
    BY <2>1
  <2>5. \A u \in Sets(h) : \A key \in keys(u) : told(u, key) \in HreflangTo4xx(h)
    BY <2>1
  <2> QED
    BY <2>2, <2>3, <2>4, <2>5 DEF Tells
<1> HIDE DEF broken
<1>3. us(f) \subseteq us(g)
  BY <1>1, AlternatesSaid DEF Sets
<1> HIDE DEF us
<1> QED
  BY <1>2, <1>3, TellsToo

(* social.rs: where the redirects of an image end.                         *)
OgNext(f, v) == IF Is3xx(f.urls[v].status) /\ f.urls[v].next # No THEN f.urls[v].next ELSE v
OgWay(f, u, way) ==
  /\ way \in [0..MaxOgImageHops -> Rows(f)] /\ way[0] = u
  /\ \A n \in 1..MaxOgImageHops : way[n] = OgNext(f, way[n - 1])

LEMMA OgImageEndIs ==
  ASSUME NEW f, WellFormed(f), NEW u \in Rows(f)
  PROVE  \E way : OgWay(f, u, way) /\ OgImageEnd(f, u) = way[MaxOgImageHops]
<1> DEFINE N == MaxOgImageHops
           S == Rows(f)
           step(h, n) == IF n = 0 THEN u
                         ELSE LET v == h[n - 1] IN IF Is3xx(f.urls[v].status) /\ f.urls[v].next # No THEN f.urls[v].next ELSE v
           way == CHOOSE h : h = [n \in 0..N |-> step(h, n)]
           next == [v \in S |-> OgNext(f, v)]
           F == [n \in Nat |-> next]
<1>0. N \in Nat
  BY MaxOgImageHopsIsCount
<1>1. OgImageEnd(f, u) = way[N]
  BY DEF OgImageEnd
<1>2. next \in [S -> S]
  BY DEF WellFormed, RedirectsLand, Redirects, OgNext
<1>3. PICK h \in [0..N -> S] : Goes(h, N, F, u)
  <2>1. F \in [Nat -> [S -> S]]
    BY <1>2
  <2> HIDE DEF F, S
  <2> QED
    BY <1>0, <2>1, GoesUpTo DEF S
<1> HIDE DEF N
<1>4. h[0] = u /\ \A n \in 1..N : h[n] = OgNext(f, h[n - 1])
  <2>1. h[0] = u /\ \A n \in 1..N : h[n] = F[n][h[n - 1]]
    BY <1>3 DEF Goes
  <2>2. \A n \in 1..N : n \in Nat /\ n - 1 \in 0..N
    BY <1>0
  <2>3. \A n \in 1..N : F[n] = next /\ h[n - 1] \in S
    BY <1>3, <2>2
  <2>4. \A v \in S : next[v] = OgNext(f, v)
    OBVIOUS
  <2> HIDE DEF F, next, S
  <2> QED
    BY <2>1, <2>3, <2>4
<1>5. h = [n \in 0..N |-> step(h, n)]
  <2>1. \A n \in 0..N : h[n] = step(h, n)
    <3> SUFFICES ASSUME NEW n \in 0..N PROVE h[n] = step(h, n)
      OBVIOUS
    <3>1. n = 0 \/ n \in 1..N
      BY <1>0
    <3>2. n = 0 \/ n # 0
      OBVIOUS
    <3> QED
      BY <1>0, <1>4, <3>1 DEF OgNext
  <2> HIDE DEF step
  <2> QED
    BY <1>3, <2>1
<1>6. way = [n \in 0..N |-> step(way, n)]
  BY <1>5
<1> HIDE DEF way
<1>7. way[0] = u /\ \A n \in 1..N : way[n] = OgNext(f, way[n - 1])
  <2>1. way[0] = u
    BY <1>0, <1>6
  <2>2. ASSUME NEW n \in 1..N PROVE way[n] = OgNext(f, way[n - 1])
    <3>1. n \in 0..N /\ n # 0
      BY <1>0
    <3>2. way[n] = step(way, n)
      BY <1>6, <3>1
    <3> QED
      BY <3>1, <3>2 DEF OgNext
  <2> QED
    BY <2>1, <2>2
<1> DEFINE T == {n \in 0..N : way[n] \in S}
<1>8. 0 \in T
  BY <1>0, <1>7
<1>9. ASSUME NEW n \in 1..N, n - 1 \in T PROVE n \in T
  <2>1. way[n] = next[way[n - 1]] /\ n \in 0..N
    BY <1>0, <1>7, <1>9
  <2> QED
    BY <1>2, <1>9, <2>1
<1>10. 0..N \subseteq T
  <2> HIDE DEF T
  <2> QED
    BY <1>0, <1>8, <1>9, UpTo
<1>11. way \in [0..N -> S]
  <2> HIDE DEF step
  <2> QED
    BY <1>6, <1>10
<1> QED
  BY <1>1, <1>7, <1>11 DEF OgWay, N

LEMMA OgImageEndSaid ==
  ASSUME NEW f, NEW g, PartOf(f, g), WellFormed(f), WellFormed(g), NEW u \in Rows(f)
  PROVE  /\ OgImageEnd(f, u) \in Rows(f)
         /\ OgImageEnd(f, u) = OgImageEnd(g, u) \/ Bare(f.urls[OgImageEnd(f, u)])
<1> DEFINE N == MaxOgImageHops
<1>0. N \in Nat /\ u \in Rows(g)
  BY MaxOgImageHopsIsCount, RowsSaid
<1>1. PICK a : OgWay(f, u, a) /\ OgImageEnd(f, u) = a[N]
  BY OgImageEndIs
<1>2. PICK b : OgWay(g, u, b) /\ OgImageEnd(g, u) = b[N]
  BY <1>0, OgImageEndIs
<1> HIDE DEF N
<1> DEFINE T == {n \in 0..N : a[n] = b[n] \/ Bare(f.urls[a[n]])}
<1>3. 0 \in T
  BY <1>0, <1>1, <1>2 DEF OgWay
<1>4. ASSUME NEW n \in 1..N, n - 1 \in T PROVE n \in T
  <2>1. n \in 0..N /\ n - 1 \in 0..N
    BY <1>0
  <2>2. a[n] = OgNext(f, a[n - 1]) /\ b[n] = OgNext(g, b[n - 1]) /\ a[n - 1] \in Rows(f)
    BY <1>1, <1>2, <2>1 DEF OgWay, N
  <2>3. CASE Bare(f.urls[a[n - 1]])
    <3>1. a[n] = a[n - 1]
      BY <2>2, <2>3 DEF OgNext, Bare
    <3> QED
      BY <2>1, <2>3, <3>1
  <2>4. CASE ~Bare(f.urls[a[n - 1]])
    <3>1. a[n - 1] = b[n - 1]
      BY <1>4, <2>4
    <3>2. f.urls[a[n - 1]] = g.urls[a[n - 1]]
      BY <2>2, <2>4 DEF PartOf
    <3> QED
      BY <2>1, <2>2, <3>1, <3>2 DEF OgNext
  <2> QED
    BY <2>3, <2>4
<1>5. N \in T
  <2>1. 0..N \subseteq T
    <3> HIDE DEF T
    <3> QED
      BY <1>0, <1>3, <1>4, UpTo
  <2> QED
    BY <1>0, <2>1
<1>6. a[N] \in Rows(f)
  BY <1>0, <1>1 DEF OgWay, N
<1> QED
  BY <1>1, <1>2, <1>5, <1>6

LEMMA SocialSaid ==
  ASSUME NEW f, NEW g, PartOf(f, g), WellFormed(f), WellFormed(g)
  PROVE  SaidToo(SiteRule(f, 17), SiteRule(g, 17))
<1> DEFINE images(h) == {l \in h.links : l.element = "meta"}
           us(h) == {l.to : l \in {k \in images(h) : BrokenUrl(h, OgImageEnd(h, k.to))}}
<1>1. ASSUME NEW k \in images(f), BrokenUrl(f, OgImageEnd(f, k.to))
      PROVE  k \in images(g) /\ BrokenUrl(g, OgImageEnd(g, k.to))
  <2> DEFINE e == OgImageEnd(f, k.to)
  <2>1. k \in images(g) /\ k.to \in Rows(f)
    BY DEF PartOf, WellFormed, LinksLand
  <2>2. e \in Rows(f) /\ (e = OgImageEnd(g, k.to) \/ Bare(f.urls[e]))
    BY <2>1, OgImageEndSaid
  <2> HIDE DEF e
  <2>3. BrokenUrl(f, e)
    BY <1>1 DEF e
  <2>4. ~Bare(f.urls[e])
    <3>1. "dns" # NoText
      BY DEF NoText
    <3> QED
      BY <2>3, <3>1 DEF Bare, BrokenUrl, GoneStatus
  <2>5. f.urls[e] = g.urls[e] /\ (e \in Internal(f) <=> e \in Internal(g))
    BY <2>2, <2>4, RowsSaid DEF PartOf
  <2>6. BrokenUrl(g, e)
    BY <2>3, <2>5 DEF BrokenUrl, Answered
  <2> QED
    BY <2>1, <2>2, <2>4, <2>6
<1>2. us(f) \subseteq us(g)
  <2> DEFINE lost(h) == {k \in images(h) : BrokenUrl(h, OgImageEnd(h, k.to))}
  <2>1. lost(f) \subseteq lost(g)
    BY <1>1
  <2>2. \A h : us(h) = {l.to : l \in lost(h)}
    OBVIOUS
  <2> HIDE DEF lost, us
  <2> QED
    BY <2>1, <2>2
<1>3. ASSUME NEW h PROVE Tells(SocialOgImageBroken(h), "SOCIAL-OG-IMAGE-BROKEN", us(h))
  <2> DEFINE told(u) == Finding("SOCIAL-OG-IMAGE-BROKEN", "medium", u, Cardinality({l.from : l \in {k \in images(h) : k.to = u}}), NoGroup)
  <2>1. SocialOgImageBroken(h) = {told(u) : u \in us(h)}
    BY DEF SocialOgImageBroken
  <2>2. \A u : told(u).rule = "SOCIAL-OG-IMAGE-BROKEN" /\ told(u).url = u
    BY DEF Finding
  <2> HIDE DEF told, us
  <2> QED
    BY <2>1, <2>2 DEF Tells
<1> HIDE DEF us
<1> QED
  BY <1>2, <1>3, TellsToo DEF SiteRule

(* canon.rs, near-duplicates: pages alike are alike in the whole, where    *)
(* an alternate may name a later page.                                     *)
LEMMA ResembleSaid ==
  ASSUME NEW f, NEW g, PartOf(f, g), WellFormed(f), WellFormed(g),
         NEW x \in Signed(f), NEW y \in Signed(f), Resemble(f, x, y)
  PROVE  Resemble(g, x, y)
<1>1. {"signature", "alternates"} \subseteq RuleFields /\ f.text = g.text
  BY DEF RuleFields, PageFields, ParsedFields, PartOf
<1>2. Signed(f) \subseteq Signed(g) /\ Signed(f) \subseteq Pages(f)
  BY IndexableSaid
<1>3. \A v \in Signed(f) : /\ f.pages[v].signature = g.pages[v].signature
                           /\ f.pages[v].alternates = g.pages[v].alternates
  BY <1>1, <1>2 DEF PartOf
<1>4. \A v \in Signed(f) : \A w \in Signed(f) : Before(f, v, w) <=> Before(g, v, w)
  BY <1>3 DEF Before
<1>5. Similar(f, x, y) <=> Similar(g, x, y)
  <2>1. Agreeing(f, x, y) = Agreeing(g, x, y)
    BY <1>3 DEF Agreeing
  <2> QED
    BY <2>1 DEF Similar
<1>6. ASSUME NEW a PROVE NamedBy(f, a) \subseteq Signed(f) /\ NamedBy(f, a) = NamedBy(g, a) \cap Signed(f)
  BY <1>1, <1>2 DEF NamedBy
<1>7. DeclaredAlternates(g, x, y) => DeclaredAlternates(f, x, y)
  <2> SUFFICES ASSUME DeclaredAlternates(g, x, y) PROVE DeclaredAlternates(f, x, y)
    OBVIOUS
  <2>1. PICK p \in {<<x, y>>, <<y, x>>} : \E a \in g.pages[p[1]].alternates :
          p[2] \in NamedBy(g, a) /\ \A w \in NamedBy(g, a) \ {p[2]} : Before(g, w, p[2])
    BY DEF DeclaredAlternates
  <2>2. PICK a \in g.pages[p[1]].alternates :
          p[2] \in NamedBy(g, a) /\ \A w \in NamedBy(g, a) \ {p[2]} : Before(g, w, p[2])
    BY <2>1
  <2>3. p[1] \in Signed(f) /\ p[2] \in Signed(f)
    OBVIOUS
  <2>4. a \in f.pages[p[1]].alternates /\ p[2] \in NamedBy(f, a)
    BY <1>3, <1>6, <2>2, <2>3
  <2>5. \A w \in NamedBy(f, a) \ {p[2]} : Before(f, w, p[2])
    BY <1>4, <1>6, <2>2, <2>3
  <2> QED
    BY <2>4, <2>5 DEF DeclaredAlternates
<1>8. (\E b \in Bands : y \in Bucket(f, x, b)) => \E b \in Bands : y \in Bucket(g, x, b)
  BY <1>2, <1>3 DEF Bucket, BandOf
<1> QED
  BY <1>4, <1>5, <1>7, <1>8 DEF Resemble

LEMMA NearTells ==
  ASSUME NEW f
  PROVE  \A i \in DupContentNear(f) : i.rule = "DUP-CONTENT-NEAR" /\ i.url \in Signed(f)
<1> DEFINE parent == NearParents(f)
           group(r) == {u \in Signed(f) : parent[u] = r}
           told == {r \in Signed(f) : Cardinality({f.pages[u].hash : u \in group(r)}) > 1}
           finding(u, r) == Finding("DUP-CONTENT-NEAR", "medium", u, Cardinality(group(r)), <<"text", {Head(f.pages[r].signature)}>>)
<1>1. DupContentNear(f) = UNION {{finding(u, r) : u \in group(r)} : r \in told}
  BY DEF DupContentNear
<1>2. \A u, r : finding(u, r).rule = "DUP-CONTENT-NEAR" /\ finding(u, r).url = u
  BY DEF Finding
<1>3. \A r : group(r) \subseteq Signed(f)
  OBVIOUS
<1> HIDE DEF group, told, finding
<1> QED
  BY <1>1, <1>2, <1>3

LEMMA NearSaid ==
  ASSUME NEW f, NEW g, PartOf(f, g), WellFormed(f), WellFormed(g)
  PROVE  \A i \in DupContentNear(f) :
           \/ \E j \in DupContentNear(g) : j.rule = i.rule /\ j.url = i.url
           \/ i.rule = "DUP-CONTENT-NEAR" /\ \E v \in AlikePart(g, i.url) : Crowded(g, v)
<1> SUFFICES ASSUME NEW i \in DupContentNear(f), \A v \in AlikePart(g, i.url) : ~Crowded(g, v)
             PROVE  \E j \in DupContentNear(g) : j.rule = i.rule /\ j.url = i.url
  BY NearTells
<1> DEFINE u == i.url
<1>0. \A v \in AlikePart(g, u) : ~Crowded(g, v)
  OBVIOUS
<1>1. u \in Signed(f) /\ i.rule = "DUP-CONTENT-NEAR"
  BY NearTells
<1>2. /\ Signed(f) \subseteq Signed(g) /\ Signed(f) \subseteq Pages(f)
      /\ IsFiniteSet(Signed(f)) /\ IsFiniteSet(Signed(g)) /\ u \in Signed(g)
  BY <1>1, IndexableSaid
<1> HIDE DEF u
<1>3. PICK v \in Grouped(f, u) : f.pages[v].hash # f.pages[u].hash
  <2>1. i.detail \in {k.detail : k \in {j \in DupContentNear(f) : j.url = u}}
    BY DEF u
  <2> QED
    BY <1>1, <1>2, <2>1, NearToldIs
<1>4. v \in Signed(f) /\ v \in AlikePart(g, u)
  <2> DEFINE X == AlikePart(g, u) \cap Signed(f)
  <2>1. /\ Shut(Alikes(g), AlikePart(g, u)) /\ u \in AlikePart(g, u)
    BY <1>2, PartIs
  <2>2. Joined(f) \subseteq Alikes(g) /\ Joined(f) \subseteq Signed(f) \X Signed(f)
    BY <1>2, ResembleSaid DEF Joined, Joins, Alikes
  <2>3. Shut(Joined(f), X)
    BY <2>1, <2>2 DEF Shut
  <2>4. Grouped(f, u) \subseteq X
    <3>1. X \in SUBSET Signed(f) /\ u \in X
      BY <1>1, <2>1
    <3> HIDE DEF X
    <3> QED
      BY <1>1, <1>2, <2>3, <3>1, GroupIs
  <2> QED
    BY <2>4
<1>5. g.pages[v].hash # g.pages[u].hash
  <2>1. "hash" \in RuleFields /\ u \in Pages(f) /\ v \in Pages(f)
    BY <1>1, <1>2, <1>4 DEF RuleFields, PageFields, ParsedFields
  <2>2. f.pages[u].hash = g.pages[u].hash /\ f.pages[v].hash = g.pages[v].hash
    BY <2>1 DEF PartOf
  <2> QED
    BY <1>3, <2>2
<1>6. {k.detail : k \in {j \in DupContentNear(g) : j.url = u}} = {Cardinality(Grouped(g, u))}
  <2>1. v \in Grouped(g, u)
    BY <1>0, <1>2, <1>4, GroupsArePart
  <2> QED
    BY <1>2, <1>5, <2>1, NearToldIs
<1>7. PICK j \in DupContentNear(g) : j.url = u
  BY <1>6
<1> QED
  BY <1>1, <1>7, NearTells DEF u

(* hreflang.rs: what a page leaves out, where the crawl knows who answers. *)
LEMMA ReciprocalTells ==
  ASSUME NEW f, NEW i
  PROVE  i \in HreflangNotReciprocal(f) <=>
           \E u \in Sets(f) \cap Indexable(f) :
             \E v \in {w \in Declared(f, u) : f.text[w].key \notin OwnKeys(f, u) /\ Omits(f, w, u)} :
               i = HreflangFinding("HREFLANG-NOT-RECIPROCAL", u, 0, <<"hreflang-pair", {f.text[u].key, f.text[v].key}>>)
<1> DEFINE told(u, v) == HreflangFinding("HREFLANG-NOT-RECIPROCAL", u, 0, <<"hreflang-pair", {f.text[u].key, f.text[v].key}>>)
           out(u) == {w \in Declared(f, u) : f.text[w].key \notin OwnKeys(f, u) /\ Omits(f, w, u)}
<1>1. HreflangNotReciprocal(f) = UNION {{told(u, v) : v \in out(u)} : u \in Sets(f) \cap Indexable(f)}
  BY DEF HreflangNotReciprocal
<1> HIDE DEF told, out
<1>2. i \in HreflangNotReciprocal(f) <=> \E u \in Sets(f) \cap Indexable(f) : \E v \in out(u) : i = told(u, v)
  BY <1>1
<1> QED
  BY <1>2 DEF told, out

LEMMA ReciprocalSaid ==
  ASSUME NEW f, NEW g, PartOf(f, g), WellFormed(f), WellFormed(g), NEW i \in HreflangNotReciprocal(f)
  PROVE  /\ i.rule = "HREFLANG-NOT-RECIPROCAL"
         /\ \/ \E j \in HreflangNotReciprocal(g) : j.rule = i.rule /\ j.url = i.url
            \/ \E key \in i.group[2] \ OwnKeys(f, i.url) : ~SameOwner(f, g, key)
<1>1. PICK u \in Sets(f) \cap Indexable(f) :
        \E v \in {w \in Declared(f, u) : f.text[w].key \notin OwnKeys(f, u) /\ Omits(f, w, u)} :
          i = HreflangFinding("HREFLANG-NOT-RECIPROCAL", u, 0, <<"hreflang-pair", {f.text[u].key, f.text[v].key}>>)
  BY ReciprocalTells
<1>2. PICK v \in Declared(f, u) :
        /\ f.text[v].key \notin OwnKeys(f, u) /\ Omits(f, v, u)
        /\ i = HreflangFinding("HREFLANG-NOT-RECIPROCAL", u, 0, <<"hreflang-pair", {f.text[u].key, f.text[v].key}>>)
  BY <1>1
<1> DEFINE key == f.text[v].key
<1>3. i.rule = "HREFLANG-NOT-RECIPROCAL" /\ i.url = u /\ key \in i.group[2] \ OwnKeys(f, i.url)
  BY <1>2 DEF HreflangFinding, Finding
<1> SUFFICES ASSUME SameOwner(f, g, key) PROVE \E j \in HreflangNotReciprocal(g) : j.rule = i.rule /\ j.url = i.url
  BY <1>3
<1>4. u \in Sets(g) \cap Indexable(g) /\ f.text = g.text /\ Pages(f) \subseteq Pages(g) /\ u \in Pages(f)
  BY AlternatesSaid, IndexableSaid DEF PartOf, Sets
<1>5. v \in Declared(g, u) /\ g.text[v].key \notin OwnKeys(g, u) /\ OwnKeys(f, u) = OwnKeys(g, u) /\ g.text[v].key = key
  BY <1>2, <1>4, AlternatesSaid
<1>6. Omits(g, v, u)
  <2>1. OwnersOf(f, key) = OwnersOf(g, key) /\ Cardinality(OwnersOf(g, key)) <= 1
    BY DEF SameOwner
  <2>2. CASE OwnersOf(f, key) = {}
    BY <1>2, <1>4, <1>5, <2>1, <2>2 DEF Omits
  <2>3. CASE OwnersOf(f, key) # {}
    <3>1. IsFiniteSet(OwnersOf(g, key)) /\ OwnersOf(f, key) \subseteq Pages(f)
      <4>1. OwnersOf(g, key) \subseteq Rows(g) /\ OwnersOf(f, key) \subseteq Pages(f)
        BY DEF OwnersOf, Sets, WellFormed
      <4> QED
        BY <4>1, FS_Subset DEF WellFormed, RedirectsLand
    <3>2. \A x \in OwnersOf(g, key) : \A y \in OwnersOf(g, key) : x = y
      <4> SUFFICES ASSUME NEW x \in OwnersOf(g, key), NEW y \in OwnersOf(g, key), x # y PROVE FALSE
        OBVIOUS
      <4>1. Cardinality({x, y}) = 2 /\ {x, y} \subseteq OwnersOf(g, key)
        <5>1. Cardinality({x}) = 1 /\ IsFiniteSet({x})
          BY FS_Singleton
        <5>2. y \notin {x} /\ Cardinality({x} \cup {y}) = Cardinality({x}) + 1
          <6>1. y \notin {x}
            OBVIOUS
          <6> QED
            BY <5>1, <6>1, FS_AddElement
        <5>3. {x} \cup {y} = {x, y}
          OBVIOUS
        <5> QED
          BY <5>1, <5>2, <5>3
      <4>2. 2 <= Cardinality(OwnersOf(g, key)) /\ Cardinality(OwnersOf(g, key)) \in Nat
        BY <3>1, <4>1, FS_Subset, FS_CardinalityType
      <4> QED
        BY <2>1, <4>2
    <3>3. PICK o \in OwnersOf(f, key) : TRUE
      BY <2>3
    <3>4. Owner(f, key) = o /\ Owner(g, key) = o
      <4>1. \A x \in OwnersOf(g, key) : x = o
        BY <2>1, <3>2, <3>3
      <4>2. o \in Rows(f) /\ o \in Rows(g) /\ f.ids[o] \in Nat /\ g.ids[o] \in Nat
        BY <3>1, RowsSaid DEF WellFormed
      <4>3. f.ids[o] <= f.ids[o] /\ g.ids[o] <= g.ids[o]
        BY <4>2
      <4>4. \A h : OwnersOf(h, key) = OwnersOf(g, key) /\ h.ids[o] <= h.ids[o] => Owner(h, key) = o
        <5> SUFFICES ASSUME NEW h, OwnersOf(h, key) = OwnersOf(g, key), h.ids[o] <= h.ids[o] PROVE Owner(h, key) = o
          OBVIOUS
        <5>1. o \in OwnersOf(h, key) /\ \A x \in OwnersOf(h, key) : x = o
          BY <2>1, <4>1
        <5>2. \A x \in OwnersOf(h, key) : h.ids[o] <= h.ids[x]
          BY <5>1
        <5> QED
          BY <5>1, <5>2 DEF Owner
      <4> QED
        BY <2>1, <4>3, <4>4
    <3>5. DeclaredKeys(f, o) \cap OwnKeys(f, u) = {}
      BY <1>2, <2>3, <3>4 DEF Omits
    <3>6. DeclaredKeys(f, o) = DeclaredKeys(g, o)
      BY <3>1, AlternatesSaid
    <3> QED
      BY <1>5, <2>1, <2>3, <3>4, <3>5, <3>6 DEF Omits
  <2> QED
    BY <2>2, <2>3
<1> DEFINE j == HreflangFinding("HREFLANG-NOT-RECIPROCAL", u, 0, <<"hreflang-pair", {g.text[u].key, g.text[v].key}>>)
<1>7. j \in HreflangNotReciprocal(g)
  BY <1>4, <1>5, <1>6, ReciprocalTells
<1>8. j.rule = "HREFLANG-NOT-RECIPROCAL" /\ j.url = u
  BY DEF HreflangFinding, Finding
<1> QED
  BY <1>3, <1>7, <1>8

-----------------------------------------------------------------------------
(* The redirects: the way that a part knows is where the whole goes.       *)

(* Past a URL that does not redirect there is nothing.                     *)
LEMMA WayStops ==
  ASSUME NEW f, RedirectsLand(f), NEW u \in Rows(f), NEW m \in Nat, Orbit(f, u)[m] \notin Redirects(f)
  PROVE  \A n \in Nat : n > m => Orbit(f, u)[n] = No
<1> DEFINE o == Orbit(f, u)
           T == {k \in Nat : o[(m + 1) + k] = No}
<1>1. IsOrbit(f, u, o) /\ No \notin Redirects(f)
  BY OrbitIs DEF RedirectsLand, Redirects
<1> HIDE DEF o
<1>2. 0 \in T
  <2>1. o[m + 1] = No /\ (m + 1) + 0 = m + 1
    BY <1>1 DEF IsOrbit, After, o
  <2> QED
    BY <2>1
<1>3. ASSUME NEW k \in T PROVE k + 1 \in T
  <2>1. (m + 1) + k \in Nat /\ (m + 1) + (k + 1) = ((m + 1) + k) + 1
    OBVIOUS
  <2>2. o[((m + 1) + k) + 1] = After(f, o[(m + 1) + k])
    BY <1>1, <2>1 DEF IsOrbit
  <2> QED
    BY <1>1, <2>1, <2>2 DEF After
<1>4. T = Nat
  <2>1. T \in SUBSET Nat
    OBVIOUS
  <2> HIDE DEF T
  <2> QED
    BY <1>2, <1>3, <2>1, UpFromZero
<1> SUFFICES ASSUME NEW n \in Nat, n > m PROVE o[n] = No
  BY DEF o
<1>5. n - (m + 1) \in Nat /\ (m + 1) + (n - (m + 1)) = n
  OBVIOUS
<1>6. n - (m + 1) \in T
  BY <1>4, <1>5
<1> QED
  BY <1>5, <1>6

(* A way ends in no loop when it meets a URL that does not redirect.       *)
LEMMA LoopIsEndless ==
  ASSUME NEW f, RedirectsLand(f), NEW u \in Rows(f)
  PROVE  LoopOf(f, u) # {} <=> \A n \in Nat : Orbit(f, u)[n] \in Redirects(f)
<1> DEFINE o == Orbit(f, u)
           e == End(f, u)
<1>1. e \in Nat /\ IsOrbit(f, u, o)
  BY EndIs, OrbitIs
<1>2. ASSUME LoopOf(f, u) # {} PROVE \A n \in Nat : o[n] \in Redirects(f)
  <2>1. o[e] \in Redirects(f)
    BY <1>2, EndsWell
  <2>2. o[e + 1] \in Been(o, e) /\ \A n \in 0..(e - 1) : o[n] \in Redirects(f)
    BY <2>1, WayIs
  <2>3. PICK a \in 0..e : o[e + 1] = o[a]
    BY <2>2 DEF Been
  <2> HIDE DEF o, e
  <2>4. \A n \in 0..e : o[n] \in Redirects(f)
    <3>1. \A n \in 0..e : n \in 0..(e - 1) \/ n = e
      BY <1>1
    <3> QED
      BY <2>1, <2>2, <3>1
  <2>5. \A n \in Nat : n >= a => o[n] \in Round(o, a, e)
    BY <1>1, <2>3, RoundIs
  <2>6. Round(o, a, e) \subseteq Redirects(f)
    <3>1. \A i \in a..e : i \in 0..e
      BY <1>1
    <3> QED
      BY <2>4, <3>1 DEF Round
  <2>7. ASSUME NEW n \in Nat, ~(n >= a) PROVE n \in 0..e
    BY <1>1, <2>7
  <2> QED
    BY <2>4, <2>5, <2>6, <2>7
<1>3. ASSUME \A n \in Nat : o[n] \in Redirects(f) PROVE LoopOf(f, u) # {}
  <2>1. o[e] \in Redirects(f)
    BY <1>1, <1>3
  <2>2. PICK a \in 0..e : o[e + 1] = o[a]
    BY <2>1, WayIs DEF Been
  <2> QED
    BY <2>1, <2>2, GoesRound
<1> QED
  BY <1>2, <1>3

(* A way that ends does so where it first meets one.                       *)
LEMMA EndOfWay ==
  ASSUME NEW f, RedirectsLand(f), NEW u \in Rows(f), NEW m \in Nat,
         Orbit(f, u)[m] \notin Redirects(f), Orbit(f, u)[m] # No
  PROVE  End(f, u) = m /\ LoopOf(f, u) = {}
<1> DEFINE o == Orbit(f, u)
           e == End(f, u)
<1>1. e \in Nat /\ LoopOf(f, u) = {}
  BY EndIs, LoopIsEndless
<1>2. o[e] \notin Redirects(f)
  <2> SUFFICES ASSUME o[e] \in Redirects(f) PROVE LoopOf(f, u) # {}
    BY <1>1
  <2>1. PICK a \in 0..e : o[e + 1] = o[a]
    BY WayIs DEF Been
  <2> QED
    BY <2>1, GoesRound
<1>3. \A n \in Nat : n > e => o[n] = No
  BY <1>1, <1>2, WayStops
<1>4. \A n \in 0..(e - 1) : o[n] \in Redirects(f)
  BY WayIs
<1> HIDE DEF e, o
<1>5. ~(m > e)
  BY <1>3 DEF o
<1>6. ~(m < e)
  BY <1>1, <1>4 DEF o
<1> QED
  BY <1>1, <1>5, <1>6 DEF e

LEMMA SameWay ==
  ASSUME NEW f, NEW g, PartOf(f, g), WellFormed(f), WellFormed(g), NEW u \in Rows(f)
  PROVE  /\ u \in Rows(g) /\ \A n \in Nat : Orbit(f, u)[n] \in {No, Orbit(g, u)[n]}
         /\ LoopOf(f, u) # {} => LoopOf(g, u) = LoopOf(f, u)
<1> DEFINE o == Orbit(f, u)
           p == Orbit(g, u)
           T == {n \in Nat : o[n] \in {No, p[n]}}
<1>1. /\ RedirectsLand(f) /\ RedirectsLand(g) /\ u \in Rows(g) /\ IsOrbit(f, u, o) /\ IsOrbit(g, u, p)
      /\ Redirects(f) \subseteq Redirects(g) /\ \A v \in Redirects(f) : f.urls[v].next = g.urls[v].next
      /\ No \notin Redirects(f)
  BY RowsSaid, OrbitIs DEF WellFormed, RedirectsLand, Redirects
<1> HIDE DEF o, p
<1>2. 0 \in T
  BY <1>1 DEF IsOrbit
<1>3. ASSUME NEW n \in T PROVE n + 1 \in T
  <2>1. o[n + 1] = After(f, o[n]) /\ p[n + 1] = After(g, p[n])
    BY <1>1 DEF IsOrbit
  <2> QED
    BY <1>1, <2>1 DEF After
<1>4. T = Nat
  <2>1. T \in SUBSET Nat
    OBVIOUS
  <2> HIDE DEF T
  <2> QED
    BY <1>2, <1>3, <2>1, UpFromZero
<1>5. \A n \in Nat : o[n] \in {No, p[n]}
  BY <1>4
<1>6. ASSUME LoopOf(f, u) # {} PROVE LoopOf(g, u) = LoopOf(f, u)
  <2> DEFINE e == End(f, u)
             d == End(g, u)
  <2>1. \A n \in Nat : o[n] \in Redirects(f)
    BY <1>1, <1>6, LoopIsEndless DEF o
  <2>2. \A n \in Nat : o[n] \in Redirects(f) /\ p[n] = o[n] /\ p[n] \in Redirects(g)
    BY <1>1, <1>5, <2>1
  <2>3. \A n \in Nat : EndsAt(f, o, n) <=> EndsAt(g, p, n)
    <3> SUFFICES ASSUME NEW n \in Nat PROVE EndsAt(f, o, n) <=> EndsAt(g, p, n)
      OBVIOUS
    <3>1. \A i \in 0..n : p[i] = o[i]
      BY <2>2
    <3>2. Been(o, n) = Been(p, n) /\ o[n + 1] = p[n + 1]
      BY <2>2, <3>1 DEF Been
    <3> QED
      BY <2>2, <3>2 DEF EndsAt
  <2>4. /\ e \in Nat /\ EndsAt(f, o, e) /\ \A m \in 0..(e - 1) : ~EndsAt(f, o, m)
        /\ d \in Nat /\ EndsAt(g, p, d) /\ \A m \in 0..(d - 1) : ~EndsAt(g, p, m)
    BY <1>1, EndIs DEF o, p
  <2> HIDE DEF e, d
  <2>5. e = d
    <3>1. ~(d < e) /\ ~(e < d)
      BY <2>3, <2>4
    <3> QED
      BY <2>4, <3>1
  <2>6. PICK a \in 0..e : o[e + 1] = o[a]
    <3>1. o[e] \in Redirects(f)
      BY <2>2, <2>4
    <3> QED
      BY <2>4, <3>1 DEF EndsAt, Been
  <2>7. LoopOf(f, u) = Round(o, a, e)
    BY <1>1, <2>2, <2>4, <2>6, GoesRound DEF o, e
  <2>8. LoopOf(g, u) = Round(p, a, e)
    <3>1. p[d] \in Redirects(g) /\ a \in 0..d /\ p[d + 1] = p[a]
      BY <2>2, <2>4, <2>5, <2>6
    <3>2. LoopOf(g, u) = Round(p, a, d)
      BY <1>1, <3>1, GoesRound DEF p, d
    <3> QED
      BY <2>5, <3>2
  <2>9. Round(o, a, e) = Round(p, a, e)
    <3>1. \A i \in a..e : i \in Nat
      BY <2>4
    <3> QED
      BY <2>2, <3>1 DEF Round
  <2> QED
    BY <2>7, <2>8, <2>9
<1> QED
  BY <1>1, <1>5, <1>6 DEF o, p

(* Above each redirect that leads to no loop there is a head of a chain,   *)
(* whose walk goes through it.                                             *)
Above(g, h, n, u) ==
  /\ h \in Redirects(g) /\ h \in Rows(g) /\ Orbit(g, h)[n] = u /\ LoopOf(g, h) = {}
  /\ n <= End(g, h) /\ h \in Through(g, u)
  /\ \A k \in Nat : Orbit(g, u)[k] = Orbit(g, h)[n + k]

LEMMA HeadAbove ==
  ASSUME NEW g, RedirectsLand(g), Cardinality(Redirects(g)) <= MaxRedirectHops,
         NEW u \in Redirects(g), LoopOf(g, u) = {}
  PROVE  \E h \in ChainHeads(g), n \in Nat : Above(g, h, n, u)
<1> DEFINE T == {n \in Nat : \E h \in Redirects(g) : Orbit(g, h)[n] = u}
           K == Cardinality(Redirects(g))
<1>1. K \in Nat /\ Redirects(g) \subseteq Rows(g) /\ u \in Rows(g) /\ No \notin Rows(g)
  BY FS_Subset, FS_CardinalityType DEF RedirectsLand, Redirects
<1>2. ASSUME NEW h \in Redirects(g), NEW n \in Nat, Orbit(g, h)[n] = u
      PROVE  /\ LoopOf(g, h) = {} /\ n <= End(g, h) /\ End(g, h) <= K
             /\ \A k \in Nat : Orbit(g, u)[k] = Orbit(g, h)[n + k]
  <2>1. \A k \in Nat : Orbit(g, u)[k] = Orbit(g, h)[n + k]
    BY <1>1, <1>2, OrbitGoesOn
  <2>2. LoopOf(g, h) = {}
    <3> SUFFICES ASSUME LoopOf(g, h) # {} PROVE LoopOf(g, u) # {}
      OBVIOUS
    <3>1. \A m \in Nat : Orbit(g, h)[m] \in Redirects(g)
      BY <1>1, LoopIsEndless
    <3>2. \A k \in Nat : n + k \in Nat
      OBVIOUS
    <3>3. \A k \in Nat : Orbit(g, u)[k] \in Redirects(g)
      BY <2>1, <3>1, <3>2
    <3> QED
      BY <1>1, <3>3, LoopIsEndless
  <2>3. Orbit(g, h)[End(g, h)] \notin Redirects(g) /\ End(g, h) \in Nat
    <3>1. End(g, h) \in Nat
      BY <1>1, EndIs
    <3> SUFFICES ASSUME Orbit(g, h)[End(g, h)] \in Redirects(g) PROVE FALSE
      BY <3>1
    <3>2. PICK a \in 0..End(g, h) : Orbit(g, h)[End(g, h) + 1] = Orbit(g, h)[a]
      BY <1>1, WayIs DEF Been
    <3> QED
      BY <1>1, <2>2, <3>2, GoesRound
  <2>4. End(g, h) <= K
    BY <1>1, <2>3, WayIs
  <2>5. n > End(g, h) => Orbit(g, h)[n] = No
    BY <1>1, <2>3, WayStops
  <2>6. n <= End(g, h)
    BY <1>1, <1>2, <2>3, <2>5
  <2> QED
    BY <2>1, <2>2, <2>4, <2>6
<1>3. 0 \in T
  <2>1. Orbit(g, u)[0] = u
    BY <1>1, OrbitIs DEF IsOrbit
  <2> QED
    BY <2>1
<1>4. \A n \in T : n <= K
  <2> SUFFICES ASSUME NEW n \in T PROVE n <= K
    OBVIOUS
  <2>1. PICK h \in Redirects(g) : Orbit(g, h)[n] = u
    OBVIOUS
  <2>2. n <= End(g, h) /\ End(g, h) <= K /\ End(g, h) \in Nat
    BY <1>1, <1>2, <2>1, EndIs
  <2> HIDE DEF K
  <2> QED
    BY <1>1, <2>2
<1>5. PICK n \in T : \A m \in T : m <= n
  <2> DEFINE R == {K - m : m \in T}
  <2> HIDE DEF K, T
  <2>0. \A m \in T : m \in Nat
    BY DEF T
  <2>1. R \in SUBSET Nat /\ R # {}
    BY <1>1, <1>3, <1>4, <2>0
  <2>2. PICK r \in R : \A q \in R : r <= q
    <3> HIDE DEF R
    <3> QED
      BY <2>1, FirstOf
  <2>3. PICK n \in T : r = K - n
    BY <2>2
  <2>4. \A m \in T : m <= n
    <3> SUFFICES ASSUME NEW m \in T PROVE m <= n
      OBVIOUS
    <3>1. K - n <= K - m
      BY <2>2, <2>3
    <3> QED
      BY <1>1, <2>0, <3>1
  <2> QED
    BY <2>4
<1>6. PICK h \in Redirects(g) : Orbit(g, h)[n] = u
  OBVIOUS
<1>7. h \in ChainHeads(g)
  <2> SUFFICES ASSUME NEW w \in Redirects(g), g.urls[w].next = h PROVE FALSE
    BY DEF ChainHeads
  <2>1. Orbit(g, w)[0] = w /\ Orbit(g, w)[0 + 1] = After(g, Orbit(g, w)[0])
    BY <1>1, OrbitIs DEF IsOrbit
  <2>2. Orbit(g, w)[1] = h /\ h \in Rows(g)
    BY <1>1, <2>1 DEF After
  <2>3. \A k \in Nat : Orbit(g, h)[k] = Orbit(g, w)[1 + k]
    BY <1>1, <2>2, OrbitGoesOn
  <2>4. Orbit(g, w)[1 + n] = u /\ 1 + n \in Nat
    BY <1>6, <2>3
  <2>5. 1 + n \in T
    BY <2>4
  <2>6. 1 + n <= n
    BY <1>5, <2>5
  <2> QED
    BY <2>6
<1>8. /\ LoopOf(g, h) = {} /\ n <= End(g, h) /\ n \in Nat
      /\ \A k \in Nat : Orbit(g, u)[k] = Orbit(g, h)[n + k]
  BY <1>2, <1>6
<1>9. u \in ToSet(Walk(g, h).path)
  <2>1. ToSet(Walk(g, h).path) = Been(Orbit(g, h), End(g, h)) /\ End(g, h) \in Nat
    BY <1>1, WalkIs, EndIs
  <2>2. n \in 0..End(g, h)
    BY <1>8, <2>1
  <2> QED
    BY <1>6, <2>1, <2>2 DEF Been
<1> QED
  BY <1>1, <1>6, <1>7, <1>8, <1>9 DEF Through, Above

RedirectsTold(f) == HttpRedirectChain(f) \cup HttpRedirectLoop(f) \cup HttpRedirectTo404(f)

(* Whatever the whole says elsewhere, of a redirect that leads to a loop   *)
(* it says the loop, at a URL of it.                                       *)
LEMMA LoopIsTold ==
  ASSUME NEW g, WellFormed(g), Cardinality(Redirects(g)) <= MaxRedirectHops, NEW u \in Redirects(g), LoopOf(g, u) # {}
  PROVE  \E j \in HttpRedirectLoop(g) :
           /\ j.rule = "HTTP-REDIRECT-LOOP" /\ j.url \in LoopOf(g, u) /\ j.url \in Redirects(g)
           /\ j.url \in ToSet(Walk(g, u).path)
           /\ \A v \in LoopOf(g, u) : j.url \in Through(g, v)
<1>1. RedirectsLand(g) /\ u \in Rows(g)
  BY DEF WellFormed, Redirects
<1>2. ASSUME NEW v \in Rows(g), LoopOf(g, v) # {} PROVE LoopOf(g, v) \subseteq ToSet(Walk(g, v).path) \cap Redirects(g)
  <2> DEFINE o == Orbit(g, v)
             e == End(g, v)
  <2>1. e \in Nat /\ \A n \in Nat : o[n] \in Redirects(g)
    BY <1>1, <1>2, EndIs, LoopIsEndless
  <2>2. ToSet(Walk(g, v).path) = Been(o, e)
    BY <1>1, WalkIs
  <2>3. PICK a \in 0..e : o[e + 1] = o[a]
    BY <1>1, <2>1, WayIs DEF Been
  <2>4. LoopOf(g, v) = Round(o, a, e)
    BY <1>1, <2>1, <2>3, GoesRound
  <2> HIDE DEF o, e
  <2>5. \A i \in a..e : i \in 0..e /\ i \in Nat
    BY <2>1
  <2> QED
    BY <2>1, <2>2, <2>4, <2>5 DEF Round, Been
<1>3. Cardinality({i \in HttpRedirectLoop(g) : i.url \in LoopOf(g, u)}) = 1
  BY <1>1, LoopToldOnce DEF WellFormed
<1>4. PICK j \in HttpRedirectLoop(g) : j.url \in LoopOf(g, u)
  <2>1. {i \in HttpRedirectLoop(g) : i.url \in LoopOf(g, u)} # {}
    <3> DEFINE told == {i \in HttpRedirectLoop(g) : i.url \in LoopOf(g, u)}
    <3>1. Cardinality({}) = 0
      BY FS_EmptySet
    <3> HIDE DEF told
    <3>2. told # {}
      BY <1>3, <3>1 DEF told
    <3> QED
      BY <3>2 DEF told
  <2> QED
    BY <2>1
<1>5. j.rule = "HTTP-REDIRECT-LOOP"
  BY DEF HttpRedirectLoop, Finding
<1>6. j.url \in ToSet(Walk(g, u).path) /\ j.url \in Redirects(g)
  BY <1>1, <1>2, <1>4
<1>7. LoopOf(g, j.url) = LoopOf(g, u)
  BY <1>1, <1>4, CycleIs
<1>8. LoopOf(g, u) \subseteq ToSet(Walk(g, j.url).path)
  <2>1. j.url \in Rows(g)
    BY <1>6 DEF Redirects
  <2> QED
    BY <1>2, <1>7, <2>1
<1> QED
  BY <1>4, <1>5, <1>6, <1>8 DEF Through

LEMMA LoopSaid ==
  ASSUME NEW f, NEW g, PartOf(f, g), WellFormed(f), WellFormed(g),
         Cardinality(Redirects(f)) <= MaxRedirectHops, Cardinality(Redirects(g)) <= MaxRedirectHops,
         NEW i \in HttpRedirectLoop(f)
  PROVE  i.rule = "HTTP-REDIRECT-LOOP" /\ \E j \in HttpRedirectLoop(g) : j.rule = i.rule /\ j.url \in Through(g, i.url)
<1> DEFINE least(c) == CHOOSE v \in c : \A x \in c : f.ids[v] <= f.ids[x]
           cycles == {Cycle(f, Walk(f, v)) : v \in {x \in Redirects(f) : Walk(f, x).end = "loop"}}
           of(c) == Finding("HTTP-REDIRECT-LOOP", "critical", least(c), Cardinality(c), <<"redirect-loop", {least(c)}>>)
<1>1. HttpRedirectLoop(f) = {of(c) : c \in cycles}
  BY DEF HttpRedirectLoop
<1>2. \A c : of(c).rule = "HTTP-REDIRECT-LOOP" /\ of(c).url = least(c)
  BY DEF Finding
<1> HIDE DEF of
<1>3. PICK u \in Redirects(f) : Walk(f, u).end = "loop" /\ i = of(Cycle(f, Walk(f, u)))
  BY <1>1
<1>4. u \in Rows(f) /\ RedirectsLand(f) /\ Redirects(f) \subseteq Redirects(g)
  BY RowsSaid DEF Redirects, WellFormed
<1>5. LoopOf(f, u) # {} /\ LoopOf(f, u) \subseteq Rows(f) /\ Cycle(f, Walk(f, u)) = LoopOf(f, u)
  BY <1>3, <1>4, CycleIs
<1>6. i.rule = "HTTP-REDIRECT-LOOP" /\ i.url \in LoopOf(f, u)
  <2>1. \A v \in LoopOf(f, u) : f.ids[v] \in Nat
    BY <1>5 DEF WellFormed
  <2>2. least(LoopOf(f, u)) \in LoopOf(f, u)
    BY <1>5, <2>1, LeastIs
  <2> HIDE DEF least
  <2> QED
    BY <1>2, <1>3, <1>5, <2>2
<1>7. LoopOf(g, u) = LoopOf(f, u) /\ u \in Redirects(g)
  BY <1>4, <1>5, SameWay
<1>8. PICK j \in HttpRedirectLoop(g) : j.rule = "HTTP-REDIRECT-LOOP" /\ \A v \in LoopOf(g, u) : j.url \in Through(g, v)
  BY <1>5, <1>7, LoopIsTold
<1> QED
  BY <1>6, <1>7, <1>8

LEMMA ChainSaid ==
  ASSUME NEW f, NEW g, PartOf(f, g), WellFormed(f), WellFormed(g),
         Cardinality(Redirects(f)) <= MaxRedirectHops, Cardinality(Redirects(g)) <= MaxRedirectHops,
         NEW i \in HttpRedirectChain(f)
  PROVE  /\ i.rule = "HTTP-REDIRECT-CHAIN"
         /\ \/ \E j \in HttpRedirectChain(g) : j.rule = i.rule /\ j.url \in Through(g, i.url)
            \/ \E j \in HttpRedirectLoop(g) : j.rule = "HTTP-REDIRECT-LOOP" /\ i.url \in Through(g, j.url)
<1> DEFINE u == i.url
<1>1. \A h : \A k \in HttpRedirectChain(h) : k.rule = "HTTP-REDIRECT-CHAIN" /\ k.url \in ChainHeads(h)
  BY DEF HttpRedirectChain, HttpFinding, Finding
<1>2. /\ u \in ChainHeads(f) /\ u \in Redirects(f) /\ u \in Redirects(g) /\ RedirectsLand(f) /\ RedirectsLand(g)
      /\ f.urls[u].next = g.urls[u].next /\ Redirects(f) \subseteq Redirects(g)
  BY <1>1, RowsSaid DEF ChainHeads, WellFormed
<1>3. g.urls[u].next \in Redirects(g)
  <2>1. f.urls[u].next \in Redirects(f)
    BY <1>2, ChainToldIs
  <2> QED
    BY <1>2, <2>1
<1>4. CASE LoopOf(g, u) # {}
  <2>1. PICK j \in HttpRedirectLoop(g) : j.rule = "HTTP-REDIRECT-LOOP" /\ j.url \in ToSet(Walk(g, u).path)
    BY <1>2, <1>4, LoopIsTold
  <2> QED
    BY <1>1, <1>2, <2>1 DEF Through
<1>5. CASE LoopOf(g, u) = {}
  <2>0. PICK h \in ChainHeads(g), n \in Nat : Above(g, h, n, u)
    BY <1>2, <1>5, HeadAbove
  <2>1. h \in Redirects(g) /\ h \in Rows(g) /\ LoopOf(g, h) = {} /\ Orbit(g, h)[n] = u /\ n <= End(g, h) /\ h \in Through(g, u)
    BY <2>0 DEF Above
  <2> DEFINE o == Orbit(g, h)
             e == End(g, h)
  <2>2. e \in Nat /\ IsOrbit(g, h, o) /\ \A m \in 0..(e - 1) : o[m] \in Redirects(g) /\ o[m + 1] = g.urls[o[m]].next
    BY <1>2, <2>1, EndIs, OrbitIs, WayIs
  <2>3. g.urls[h].next \in Redirects(g)
    <3> HIDE DEF o, e
    <3>0. o[n] = u /\ n <= e /\ o[0] = h
      BY <2>1, <2>2 DEF o, e, IsOrbit
    <3>1. CASE n = 0
      BY <1>3, <3>0, <3>1
    <3>2. CASE n # 0
      <4>1. 0 \in 0..(e - 1) /\ 0 + 1 = 1
        BY <2>2, <3>0, <3>2
      <4>2. g.urls[h].next = o[1]
        BY <2>2, <3>0, <4>1
      <4>3. CASE n = 1
        BY <1>2, <3>0, <4>2, <4>3
      <4>4. CASE n # 1
        <5>1. 1 \in 0..(e - 1)
          BY <2>1, <2>2, <3>0, <3>2, <4>4
        <5> QED
          BY <2>2, <4>2, <5>1
      <4> QED
        BY <4>3, <4>4
    <3> QED
      BY <3>1, <3>2
  <2>4. PICK j \in HttpRedirectChain(g) : j.url = h
    BY <1>2, <1>3, <2>0, <2>1, <2>3, ChainToldIs
  <2> QED
    BY <1>1, <2>1, <2>4
<1> QED
  BY <1>1, <1>4, <1>5

LEMMA To404Said ==
  ASSUME NEW f, NEW g, PartOf(f, g), WellFormed(f), WellFormed(g),
         Cardinality(Redirects(f)) <= MaxRedirectHops, Cardinality(Redirects(g)) < MaxRedirectHops,
         Cardinality(Redirects(g)) \in Nat,
         NEW i \in HttpRedirectTo404(f)
  PROVE  /\ i.rule = "HTTP-REDIRECT-TO-404"
         /\ \E j \in HttpRedirectTo404(g) : j.rule = i.rule /\ j.url \in Through(g, i.url)
<1> DEFINE told(h, v) == HttpFinding("HTTP-REDIRECT-TO-404", v, h.urls[Destination(Walk(h, v))].status)
           heads(h) == {v \in ChainHeads(h) : Walk(h, v).end = "final" /\ Is4xx(h.urls[Destination(Walk(h, v))].status)}
<1>1. \A h : HttpRedirectTo404(h) = {told(h, v) : v \in heads(h)}
  BY DEF HttpRedirectTo404
<1>2. \A h, v : told(h, v).rule = "HTTP-REDIRECT-TO-404" /\ told(h, v).url = v
  BY DEF HttpFinding, Finding
<1> HIDE DEF told
<1>3. PICK u \in heads(f) : i = told(f, u)
  BY <1>1
<1>0. Cardinality(Redirects(g)) <= MaxRedirectHops
  BY MaxRedirectHopsIsCount
<1>4. u \in Redirects(f) /\ u \in Redirects(g) /\ u \in Rows(f) /\ u \in Rows(g) /\ RedirectsLand(f) /\ RedirectsLand(g)
  BY RowsSaid DEF ChainHeads, WellFormed, Redirects
<1> DEFINE e == End(f, u)
           d == Orbit(f, u)[e]
<1>5. e \in Nat /\ d \in Rows(f) /\ d # No /\ d \notin Redirects(f) /\ Is4xx(f.urls[d].status)
  <2>1. e \in Nat /\ \A n \in 0..e : Orbit(f, u)[n] \in Rows(f)
    BY <1>4, EndIs, WayIs
  <2>2. d \in Rows(f)
    <3> HIDE DEF e
    <3>1. e \in 0..e
      BY <2>1
    <3> QED
      BY <2>1, <3>1
  <2>3. d \notin Redirects(f) /\ Destination(Walk(f, u)) = d
    BY <1>4, WalkIs DEF Destination
  <2> QED
    BY <1>4, <2>1, <2>2, <2>3 DEF RedirectsLand
<1>6. d \in Rows(g) /\ d \notin Redirects(g) /\ Is4xx(g.urls[d].status)
  <2>1. f.urls[d] = g.urls[d] /\ d \in Rows(g)
    BY <1>5, RowsSaid DEF Is4xx
  <2> QED
    BY <1>5, <2>1 DEF Redirects
<1>7. Orbit(g, u)[e] = d
  BY <1>4, <1>5, SameWay
<1> HIDE DEF e, d
<1>8. LoopOf(g, u) = {}
  BY <1>4, <1>5, <1>6, <1>7, LoopIsEndless
<1>9. PICK h \in ChainHeads(g), n \in Nat : Above(g, h, n, u)
  BY <1>0, <1>4, <1>8, HeadAbove
<1>10. n + e \in Nat /\ Orbit(g, h)[n + e] = d
  BY <1>5, <1>7, <1>9 DEF Above
<1>11. End(g, h) = n + e
  BY <1>4, <1>5, <1>6, <1>9, <1>10, EndOfWay DEF Above
<1>12. Walk(g, h).end = "final" /\ Destination(Walk(g, h)) = d
  <2>1. Orbit(g, h)[End(g, h)] = d
    BY <1>10, <1>11
  <2>2. Last(Walk(g, h).path) = d /\ (d \notin Redirects(g) => Walk(g, h).end = "final")
    BY <1>0, <1>4, <1>9, <2>1, WalkIs DEF Above
  <2> QED
    BY <1>6, <2>2 DEF Destination
<1>13. h \in heads(g)
  BY <1>6, <1>9, <1>12
<1> HIDE DEF heads
<1>14. told(g, h) \in HttpRedirectTo404(g)
  BY <1>1, <1>13
<1> QED
  BY <1>2, <1>3, <1>9, <1>14 DEF Above

LEMMA RedirectsSaid ==
  ASSUME NEW f, NEW g, PartOf(f, g), WellFormed(f), WellFormed(g)
  PROVE  \A i \in RedirectsTold(f) :
           \/ FoundToo(i, g, RedirectsTold(g))
           \/ i.rule \in RedirectRules /\ Cardinality(Redirects(g)) >= MaxRedirectHops
<1>1. \A i \in RedirectsTold(f) : i.rule \in RedirectRules
  BY DEF RedirectsTold, RedirectRules, HttpRedirectChain, HttpRedirectLoop, HttpRedirectTo404, HttpFinding, Finding
<1>2. /\ Cardinality(Redirects(f)) \in Nat /\ Cardinality(Redirects(g)) \in Nat /\ MaxRedirectHops \in Nat
      /\ Cardinality(Redirects(f)) <= Cardinality(Redirects(g))
  <2>1. IsFiniteSet(Redirects(g)) /\ Redirects(f) \subseteq Redirects(g)
    <3>1. Redirects(f) \subseteq Redirects(g) /\ Redirects(g) \subseteq Rows(g) /\ IsFiniteSet(Rows(g))
      BY RowsSaid DEF WellFormed, RedirectsLand, Redirects
    <3> QED
      BY <3>1, FS_Subset
  <2> QED
    BY <2>1, FS_Subset, FS_CardinalityType, MaxRedirectHopsIsCount
<1> SUFFICES ASSUME Cardinality(Redirects(g)) < MaxRedirectHops, NEW i \in RedirectsTold(f)
             PROVE  FoundToo(i, g, RedirectsTold(g))
  BY <1>1, <1>2
<1>3. Cardinality(Redirects(f)) <= MaxRedirectHops /\ Cardinality(Redirects(g)) <= MaxRedirectHops
  BY <1>2
<1>4. CASE i \in HttpRedirectChain(f)
  BY <1>1, <1>3, <1>4, ChainSaid DEF FoundToo, RedirectsTold
<1>5. CASE i \in HttpRedirectLoop(f)
  BY <1>1, <1>3, <1>5, LoopSaid DEF FoundToo, RedirectsTold
<1>6. CASE i \in HttpRedirectTo404(f)
  BY <1>1, <1>2, <1>3, <1>6, To404Said DEF FoundToo, RedirectsTold
<1> QED
  BY <1>4, <1>5, <1>6 DEF RedirectsTold

SaidOrUnsure(f, g, i, findings) ==
  \/ FoundToo(i, g, findings)
  \/ i.rule = "HREFLANG-NOT-RECIPROCAL"
     /\ \E key \in i.group[2] \ OwnKeys(f, i.url) : ~SameOwner(f, g, key)
  \/ i.rule \in RedirectRules /\ Cardinality(Redirects(g)) >= MaxRedirectHops
  \/ i.rule = "DUP-CONTENT-NEAR" /\ \E v \in AlikePart(g, i.url) : Crowded(g, v)

LEMMA MoreSaid ==
  ASSUME NEW f, NEW g, NEW i, NEW A, NEW B, A \subseteq B, SaidOrUnsure(f, g, i, A)
  PROVE  SaidOrUnsure(f, g, i, B)
  BY DEF SaidOrUnsure, FoundToo

LEMMA SaidIsSure ==
  ASSUME NEW f, NEW g, NEW X, NEW Y, SaidToo(X, Y), NEW i \in X
  PROVE  SaidOrUnsure(f, g, i, Y)
  BY DEF SaidToo, SaidOrUnsure, FoundToo

LEMMA SiteSaid ==
  ASSUME NEW f, NEW g, PartOf(f, g), WellFormed(f), WellFormed(g),
         NEW n \in 1..NRules, NEW i \in SiteRule(f, n), i.rule \notin NeedsWholeGraph
  PROVE  SaidOrUnsure(f, g, i, SiteRule(g, n))
<1>1. CASE n \in {1, 2, 3, 7}
  <2>1. i.rule \in NeedsWholeGraph
    <3>1. CASE n = 1
      BY <3>1 DEF SiteRule, DeepPage, Finding, NeedsWholeGraph
    <3>2. CASE n = 2
      BY <3>2 DEF SiteRule, SectionDisconnected, OnSite, Finding, NeedsWholeGraph
    <3>3. CASE n = 3
      BY <3>3 DEF SiteRule, NoInternalLinksIn, OnUrls, Finding, NeedsWholeGraph
    <3>4. CASE n = 7
      BY <3>4 DEF SiteRule, OrphanPage, OnUrls, Finding, NeedsWholeGraph
    <3> QED
      BY <1>1, <3>1, <3>2, <3>3, <3>4
  <2> QED
    BY <2>1
<1>2. CASE n \in {4, 5, 6, 8, 9, 10, 11}
  <2>1. SaidToo(SiteRule(f, n), SiteRule(g, n))
    BY <1>2, IndexSaid
  <2> QED
    BY <2>1, SaidIsSure
<1>3. CASE n = 13
  BY <1>3, MetaSaid, SaidIsSure
<1>4. CASE n = 15
  BY <1>4, AssetSaid, SaidIsSure
<1>5. CASE n = 17
  BY <1>5, SocialSaid, SaidIsSure
<1>6. CASE n = 18
  BY <1>6, FragmentSaid, SaidIsSure
<1>7. CASE n = 12
  <2>1. \A h : SiteRule(h, 12) = HttpOther(h) \cup RedirectsTold(h)
    BY DEF SiteRule, HttpSiteRules, HttpOther, RedirectsTold
  <2>2. \A h : HttpOther(h) \subseteq SiteRule(h, 12) /\ RedirectsTold(h) \subseteq SiteRule(h, 12)
    BY <2>1
  <2>3. CASE i \in HttpOther(f)
    <3>1. SaidOrUnsure(f, g, i, HttpOther(g))
      BY <2>3, HttpSaid, SaidIsSure
    <3> QED
      BY <1>7, <2>2, <3>1, MoreSaid
  <2>4. CASE i \in RedirectsTold(f)
    <3>1. SaidOrUnsure(f, g, i, RedirectsTold(g))
      BY <2>4, RedirectsSaid DEF SaidOrUnsure
    <3> QED
      BY <1>7, <2>2, <3>1, MoreSaid
  <2> QED
    BY <1>7, <2>1, <2>3, <2>4
<1>8. CASE n = 14
  <2>1. \A h : SiteRule(h, 14) = CanonOther(h) \cup DupContentNear(h)
    BY DEF SiteRule, CanonSiteRules, CanonOther
  <2>2. \A h : CanonOther(h) \subseteq SiteRule(h, 14) /\ DupContentNear(h) \subseteq SiteRule(h, 14)
    BY <2>1
  <2>3. CASE i \in CanonOther(f)
    <3>1. SaidOrUnsure(f, g, i, CanonOther(g))
      BY <2>3, CanonSaid, SaidIsSure
    <3> QED
      BY <1>8, <2>2, <3>1, MoreSaid
  <2>4. CASE i \in DupContentNear(f)
    <3>1. SaidOrUnsure(f, g, i, DupContentNear(g))
      BY <2>4, NearSaid DEF SaidOrUnsure, FoundToo
    <3> QED
      BY <1>8, <2>2, <3>1, MoreSaid
  <2> QED
    BY <1>8, <2>1, <2>3, <2>4
<1>9. CASE n = 16
  <2>1. \A h : SiteRule(h, 16) = HreflangNotReciprocal(h) \cup HreflangTo4xx(h)
    BY DEF SiteRule, HreflangSiteRules
  <2>2. \A h : HreflangNotReciprocal(h) \subseteq SiteRule(h, 16) /\ HreflangTo4xx(h) \subseteq SiteRule(h, 16)
    BY <2>1
  <2>3. CASE i \in HreflangNotReciprocal(f)
    <3>1. SaidOrUnsure(f, g, i, HreflangNotReciprocal(g))
      BY <2>3, ReciprocalSaid DEF SaidOrUnsure, FoundToo
    <3> QED
      BY <1>9, <2>2, <3>1, MoreSaid
  <2>4. CASE i \in HreflangTo4xx(f)
    <3>1. SaidOrUnsure(f, g, i, HreflangTo4xx(g))
      BY <2>4, HreflangBrokenSaid, SaidIsSure
    <3> QED
      BY <1>9, <2>2, <3>1, MoreSaid
  <2> QED
    BY <1>9, <2>1, <2>3, <2>4
<1>10. n \in {1, 2, 3, 7} \cup {4, 5, 6, 8, 9, 10, 11} \cup {12, 13, 14, 15, 16, 17, 18}
  BY DEF NRules
<1> QED
  BY <1>1, <1>2, <1>3, <1>4, <1>5, <1>6, <1>7, <1>8, <1>9, <1>10

LEMMA CutSaysNoLies ==
  ASSUME AuditInv, AnswersKept
  PROVE  TruncatedSaysNoLies
<1> SUFFICES ASSUME status = "done", truncated # NoText, NEW i \in BagToSet(issues)
             PROVE  SaidOrUnsure(file, Whole(site), i, FindingsOf(Whole(site), FALSE))
  BY DEF TruncatedSaysNoLies, SaidOrUnsure
<1> DEFINE f == file
           g == Whole(site)
           told == FindingsOf(g, FALSE)
<1>1. FileKept /\ AsAnswered(f) /\ WholeFile(g)
  BY WholeIsWhole DEF AuditInv, AnswersKept
<1>2. PartOf(f, g) /\ WellFormed(f) /\ WellFormed(g)
  <2>1. AsAnswered(g)
    BY <1>1 DEF WholeFile
  <2>2. Rows(f) \subseteq Rows(g) /\ f.robots = site.robots /\ f.sitemaps = site.sitemaps
    BY DEF AnswersKept
  <2> HIDE DEF f, g
  <2>3. WellFormed(f) /\ WellFormed(g)
    BY <1>1, <2>1, AnsweredIsWellFormed
  <2>4. PartOf(f, g)
    BY <1>1, <2>2, AnsweredIsPart
  <2> QED
    BY <2>3, <2>4
<1>3. i \in FindingsOf(f, TRUE)
  <2>1. IssuesAreTheFiles
    BY DEF AuditInv, IssuesKept
  <2>2. issues = SetToBag(FindingsOf(f, TRUE))
    BY <2>1 DEF IssuesAreTheFiles
  <2> QED
    BY <2>2 DEF BagToSet, SetToBag
<1> HIDE DEF f, g
<1>4. CASE i \in UNION {PageRules(f, u) : u \in Pages(f)}
  <2>1. PICK u \in Pages(f) : i \in PageRules(f, u)
    BY <1>4
  <2>2. PageRules(f, u) = PageRules(g, u) /\ u \in Pages(g)
    BY <1>2, PagesSaid DEF PartOf
  <2>3. i \in told
    BY <2>1, <2>2 DEF FindingsOf
  <2> QED
    BY <2>3 DEF SaidOrUnsure, FoundToo, f, g
<1>5. CASE i \in Kept(UNION {SiteRule(f, n) : n \in 1..NRules}, TRUE)
  <2>1. PICK n \in 1..NRules : i \in SiteRule(f, n) /\ i.rule \notin NeedsWholeGraph
    BY <1>5 DEF Kept
  <2>2. SaidOrUnsure(f, g, i, SiteRule(g, n))
    BY <1>2, <2>1, SiteSaid
  <2>3. SiteRule(g, n) \subseteq told
    BY DEF FindingsOf, Kept
  <2>4. SaidOrUnsure(f, g, i, told)
    <3> HIDE DEF told
    <3> QED
      BY <2>2, <2>3, MoreSaid
  <2> QED
    BY <2>4 DEF f, g
<1> QED
  BY <1>3, <1>4, <1>5 DEF FindingsOf

-----------------------------------------------------------------------------
(* A crawl and what it is compared with. *)

(* The file of a comparison has the doubts of the comparison, and none or  *)
(* all of its changes.                                                     *)
SavedOf(d) ==
  /\ {"changes", "warnings", "conclusive"} \subseteq DOMAIN saved
  /\ saved.changes \subseteq d.changes
  /\ saved.warnings = d.warnings /\ saved.conclusive = Conclusive(d.warnings)
DiffKept == (diff = NoDiff /\ saved = NoDiff) \/ SavedOf(diff)

CompareInv == AuditInv /\ IssuesNamed /\ DiffKept /\ PlaceKept /\ RedirectsKept /\ TablesFinite

LEMMA ComparingBegins == CompareInit => CompareInv
  BY AuditInit, NamedInit, PlaceInit, RedirectsInit, TablesInit DEF CompareInit, CompareInv, DiffKept

LEMMA CompareStepKeeps ==
  ASSUME CompareInv, [CompareNext]_<<vars, compareVars>>
  PROVE  CompareInv'
<1>1. AuditInv' /\ IssuesNamed' /\ PlaceKept' /\ RedirectsKept' /\ TablesFinite'
  <2>1. [Next]_vars
    BY DEF CompareNext, AuditStep, WriteMeta, WriteChanges, Written
  <2> QED
    BY <2>1, AuditStepKeeps, NamedKeeps, PlaceStepKeeps, RedirectsStepKeeps, TablesStepKeeps DEF CompareInv
<1>2. DiffKept'
  <2>1. CASE WriteMeta
    <3>1. PICK d, c : /\ diff' = d
                      /\ saved' = [changes |-> {}, warnings |-> d.warnings, conclusive |-> Conclusive(d.warnings),
                                   truncated |-> d.truncated, common |-> d.common, persisted |-> d.persisted,
                                   suppressed |-> d.suppressed]
      BY <2>1 DEF WriteMeta
    <3> QED
      BY <3>1 DEF DiffKept, SavedOf
  <2>2. CASE WriteChanges
    <3>1. SavedOf(diff) /\ diff' = diff /\ saved' = [saved EXCEPT !.changes = diff.changes]
      BY <2>2 DEF WriteChanges, CompareInv, DiffKept
    <3> QED
      BY <3>1 DEF DiffKept, SavedOf
  <2>3. CASE UNCHANGED compareVars
    BY <2>3 DEF compareVars, CompareInv, DiffKept, SavedOf
  <2> QED
    BY <2>1, <2>2, <2>3 DEF CompareNext, AuditStep, Written
<1> QED
  BY <1>1, <1>2 DEF CompareInv

LEMMA Comparing == CompareSpec => []CompareInv
  BY ComparingBegins, CompareStepKeeps, PTL DEF CompareSpec

LEMMA CutBegins == CompareInit => AnswersKept
  BY AnswersInit DEF CompareInit

LEMMA CutStepKeeps ==
  ASSUME CompareInv, AnswersKept, [CompareNext]_<<vars, compareVars>>
  PROVE  AnswersKept'
<1>1. [Next]_vars
  BY DEF CompareNext, AuditStep, WriteMeta, WriteChanges, Written
<1> QED
  BY <1>1, AnswersStepKeeps DEF CompareInv

-----------------------------------------------------------------------------
(* Theorems. *)

(* Whatever the order in which the pages were saved, and wherever the      *)
(* crawl and its final pass were cut, paused or killed before, a finished  *)
(* file has each finding of its pages and of its rules once, and no other  *)
(* (engine.rs, finalize; delete_stale_site_issues), for any site and any   *)
(* number of sessions.                                                     *)
THEOREM FindingsAreTheFiles == Spec => []IssuesAreTheFiles
<1>1. Spec => []AuditInv
  BY AuditInit, AuditStepKeeps, PTL DEF Spec
<1>2. AuditInv => IssuesAreTheFiles
  BY DEF AuditInv, IssuesKept, IssuesAreTheFiles
<1> QED
  BY <1>1, <1>2, PTL

(* The same when the file is compared with others.                         *)
THEOREM ComparedFindingsAreTheFiles == CompareSpec => []IssuesAreTheFiles
<1>1. CompareInv => IssuesAreTheFiles
  BY DEF CompareInv, AuditInv, IssuesKept, IssuesAreTheFiles
<1> QED
  BY <1>1, Comparing, PTL

(* Whatever was crawled before, with whatever rules, and whatever --fail-on *)
(* asks for: the gate says that it cannot tell, or catches each finding    *)
(* asked for that the earlier crawl does not have (diff.rs, the gate), in  *)
(* the middle of a crawl as at its end.                                    *)
THEOREM GateIsNeverSilent == CompareSpec => []GateNeverSilent
<1>1. CompareInv => GateNeverSilent
  BY GateSpeaks DEF CompareInv
<1> QED
  BY <1>1, Comparing, PTL

(* A diff file tells no change that was not computed and leaves the doubts *)
(* that the comparison had, also between its two writes (diff_file.rs).    *)
THEOREM SavedDiffsKeepTheirDoubts == CompareSpec => []SavedDiffKeepsItsDoubts
<1>1. DiffKept => SavedDiffKeepsItsDoubts
  BY DEF DiffKept, SavedOf, SavedDiffKeepsItsDoubts, Reopened
<1> QED
  BY <1>1, Comparing, PTL DEF CompareInv

(* A finished crawl that knows its site and has its home page counts the   *)
(* clicks to each page from its links, and says deep, reached by no link   *)
(* or alone of no page that is not, and of each that is; for any site      *)
(* (index.rs, the rules of the graph; store.rs, the counts of links).      *)
THEOREM PagesHaveTheirPlaces == CompareSpec => []EveryPageHasItsPlace
<1>1. CompareInv => EveryPageHasItsPlace
  BY PlacesAreApart DEF CompareInv
<1> QED
  BY <1>1, Comparing, PTL

(* Each chain of redirects is told at its head and each loop at one URL of *)
(* it, and no URL is told as both, for any site, cut or whole, and any     *)
(* order in which its rows came (http.rs, the walk from each redirect).    *)
THEOREM RedirectsAreToldOnce == CompareSpec => []RedirectsToldOnce
<1>1. CompareInv => RedirectsToldOnce
  BY RedirectsAreTold DEF CompareInv
<1> QED
  BY <1>1, Comparing, PTL

(* Pages nearly alike are told in the groups that their pairs form, with   *)
(* how many they are, whatever the order in which the pairs are joined, and *)
(* a group of the same bytes is left to the other rule; for any site, cut  *)
(* or whole, where no bucket has more pages than a page is compared with,  *)
(* and where one has, no group is told as more than it is (canon.rs,       *)
(* evaluate of DupContentNear: its union-find, and NEAR_DUP_WINDOW).       *)
THEOREM NearGroupsAreWhole == CompareSpec => []NearGroupsAreComponents
<1>1. CompareInv => NearGroupsAreComponents
  BY NearGroupsAreTold DEF CompareInv
<1> QED
  BY <1>1, Comparing, PTL

(* With one configuration the comparison of two crawls and that of the same *)
(* two the other way round tell the same changes, seen from each side, and *)
(* leave out and keep as many (diff.rs, compare and the summary), in the   *)
(* middle of a crawl as at its end; for any site and any findings.         *)
THEOREM ComparisonsTurnAround == CompareSpec => []TurnedAround
<1>1. CompareInv => TurnedAround
  BY TurningAround DEF CompareInv, AuditInv
<1> QED
  BY <1>1, Comparing, PTL

(* What a crawl that was cut finds, a whole crawl of its site finds too, or *)
(* tells elsewhere on the same way of redirects; pages not reached leave    *)
(* fewer findings, never others, but for the three doubts that the         *)
(* property names: who answers for an alternate, more redirects than are   *)
(* followed, and more pages in a bucket than one is compared with.  For    *)
(* any site, wherever the crawl was cut and in whatever order its pages    *)
(* came (engine.rs, finalize: the rules that crawlforge-rules,              *)
(* REQUIERE_GRAFO_COMPLETO, names are dropped, the others are not).        *)
THEOREM CutCrawlsSayNoLies == CompareSpec => []TruncatedSaysNoLies
<1>1. CompareSpec => []AnswersKept
  BY Comparing, CutBegins, CutStepKeeps, PTL DEF CompareSpec
<1>2. CompareInv /\ AnswersKept => TruncatedSaysNoLies
  BY CutSaysNoLies DEF CompareInv
<1> QED
  BY <1>1, <1>2, Comparing, PTL

=============================================================================
