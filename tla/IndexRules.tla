----------------------------- MODULE IndexRules -----------------------------
(***************************************************************************)
(* Category INDEX (crawlforge-rules, index.rs).  A page rule gives the      *)
(* findings of page u; a site rule reads the whole file.                    *)
(***************************************************************************)
EXTENDS CrawlFile, Sequences, TLC

CONSTANT MaxClickDepth        \* 4 in the code
ASSUME MaxClickDepthIsCount == MaxClickDepth \in Nat

IndexSeverity ==
  [rule \in {"INDEX-NOINDEX", "INDEX-NOFOLLOW-INTERNAL", "INDEX-ROBOTS-TXT-MISSING", "INDEX-DEEP-PAGE"} |-> "medium"]
  @@ [rule \in {"INDEX-ROBOTS-TXT-BLOCKS-ALL", "INDEX-ROBOTS-BLOCKED", "INDEX-BLOCKED-IN-SITEMAP",
                "INDEX-NOINDEX-IN-SITEMAP"} |-> "critical"]
  @@ [rule \in {"INDEX-SITEMAP-ERROR", "INDEX-SITEMAP-MISSING", "INDEX-ORPHAN-PAGE",
                "INDEX-NO-INTERNAL-LINKS-IN", "INDEX-SECTION-DISCONNECTED"} |-> "high"]

OnUrls(rule, us) == {Finding(rule, IndexSeverity[rule], u, 0, NoGroup) : u \in us}
OnSite(rule, detail, group) == Finding(rule, IndexSeverity[rule], No, detail, group)

SitemapMaxUrls == 50000
SitemapMaxBytes == 50 * 1024 * 1024

(* ---- page rules ---- *)

DeclaresNoindex(directives) == directives \cap {"noindex", "none"} # {}

(* noindex in the page or in its header.  On the root of a host it is an    *)
(* emergency.  Only an answer 200 is looked at.                             *)
Noindex(f, u) ==
  LET p == f.pages[u] IN
  IF f.urls[u].status = 200 /\ (DeclaresNoindex(p.metaRobots) \/ DeclaresNoindex(p.headerRobots))
  THEN {Finding("INDEX-NOINDEX", IF f.text[u].root THEN "critical" ELSE "medium", u, 0, NoGroup)}
  ELSE {}

(* Internal links of navigation marked nofollow: one finding for the page,  *)
(* grouped with the pages that have the same ones.                          *)
NofollowInternal(f, u) ==
  LET bad == {l \in f.pages[u].out :
                /\ l.internal /\ l.nofollow /\ l.element = "a"
                /\ ~Infrastructure(f, l.to)}
  IN IF f.pages[u].html /\ Is2xx(f.urls[u].status) /\ bad # {}
     THEN {Finding("INDEX-NOFOLLOW-INTERNAL", "medium", u, Cardinality({l.to : l \in bad}),
                   <<"nofollow", {<<l.to, l.anchor>> : l \in bad}>>)}
     ELSE {}

IndexPageRules(f, u) == Noindex(f, u) \cup NofollowInternal(f, u)

(* ---- site rules ---- *)

Home(f) == SameButSlash(f, f.base)

BlockedByRobots(f, u) ==
  \/ f.urls[u].state = "excluded" /\ f.urls[u].reason = "robots"
  \/ u \in Pages(f) /\ f.pages[u].why = "robots"

RobotsBlocked(f) ==
  LET from(u) == {l.from : l \in {k \in f.links : k.to = u}}
  IN {Finding("INDEX-ROBOTS-BLOCKED", "critical", u, Cardinality(from(u)), NoGroup) :
        u \in {v \in Internal(f) : BlockedByRobots(f, v) /\ from(v) # {} /\ ~Infrastructure(f, v)}}

InSitemap(f) == {u \in Rows(f) : f.urls[u].inSitemap}

BlockedInSitemap(f) == OnUrls("INDEX-BLOCKED-IN-SITEMAP", {u \in InSitemap(f) : BlockedByRobots(f, u)})

NoindexInSitemap(f) ==
  OnUrls("INDEX-NOINDEX-IN-SITEMAP",
         {u \in InSitemap(f) \cap Pages(f) : ~f.pages[u].indexable /\ f.pages[u].why = "noindex"})

(* A crawl that looked for sitemaps and found no URL in any.                *)
SitemapMissing(f) ==
  IF f.mode = "http" /\ f.asksSitemaps /\ InSitemap(f) = {}
  THEN {OnSite("INDEX-SITEMAP-MISSING", 0, NoGroup)} ELSE {}

(* Declared by a sitemap and without any link to it, of whatever element.   *)
OrphanPage(f) ==
  OnUrls("INDEX-ORPHAN-PAGE",
         {u \in Internal(f) \cap InSitemap(f) \cap Pages(f) :
            u \notin Home(f) /\ \A l \in f.links : l.to # u})

(* The versions of the home page in other languages are doors of the site   *)
(* too: clicks are counted from any of them.                                *)
HreflangSeeds(f) ==
  LET named == UNION {{a.to : a \in {b \in f.pages[h].alternates : b.form \in {"absolute", "rooted"}}} :
                        h \in Home(f) \cap Pages(f)}
  IN {u \in Internal(f) : \E a \in named : f.text[u].bare = f.text[a].bare}

Seeds(f) == Home(f) \cup HreflangSeeds(f)

ClicksFrom(f, us) == {l.to : l \in {k \in f.links : k.element = "a" /\ k.from \in us}}

(* click_depth_bfs: level by level, each page at the first level that       *)
(* reaches it.  depth maps the pages reached so far to their level.         *)
ClickDepth(f) ==
  LET bfs[level \in 0..Cardinality(Rows(f))] ==
        IF level = 0 THEN [u \in Seeds(f) |-> 0]
        ELSE LET depth == bfs[level - 1]
                 frontier == {u \in DOMAIN depth : depth[u] = level - 1}
             IN Upsert([u \in ClicksFrom(f, frontier) \ DOMAIN depth |-> level], depth)
  IN bfs[Cardinality(Rows(f))]

Linked(f, u) == f.pages[u].linksIn > 0

DeepPageFromLimit(f) ==
  LET depth == ClickDepth(f) IN
  {Finding("INDEX-DEEP-PAGE", "medium", u, depth[u], NoGroup) :
     u \in {v \in DOMAIN depth \cap Internal(f) \cap Indexable(f) : depth[v] >= MaxClickDepth /\ Linked(f, v)}}
DeepPage(f) ==
  LET depth == ClickDepth(f) IN
  IF f.mode = "list" THEN {}
  ELSE {Finding("INDEX-DEEP-PAGE", "medium", u, depth[u], NoGroup) :
          u \in {v \in DOMAIN depth \cap Internal(f) \cap Indexable(f) :
                   depth[v] > MaxClickDepth /\ Linked(f, v)}}

(* The recursive query REACH_CTE: everything the seeds lead to.             *)
Reach(f) ==
  LET reach[n \in 0..Cardinality(Rows(f))] ==
        IF n = 0 THEN Seeds(f) ELSE LET us == reach[n - 1] IN us \cup ClicksFrom(f, us)
  IN reach[Cardinality(Rows(f))]

Disconnected(f) ==
  {u \in Internal(f) \cap Indexable(f) : Linked(f, u) /\ u \notin Reach(f)}

SectionDisconnected(f) ==
  IF f.mode # "list" /\ Seeds(f) # {} /\ Disconnected(f) # {}
  THEN {OnSite("INDEX-SECTION-DISCONNECTED", Cardinality(Disconnected(f)), <<"section", {}>>)}
  ELSE {}

NoInternalLinksIn(f) ==
  OnUrls("INDEX-NO-INTERNAL-LINKS-IN",
         {u \in Internal(f) \cap Indexable(f) : ~Linked(f, u) /\ u \notin Home(f)})

(* The robots.txt of the host of some internal URL: without ORDER BY, the   *)
(* query may return any.                                                    *)
RobotsTxtMissing(f, host) ==
  IF f.mode = "http" /\ host \in DOMAIN f.robots /\ Is4xx(f.robots[host].status)
  THEN {OnSite("INDEX-ROBOTS-TXT-MISSING", f.robots[host].status, NoGroup)} ELSE {}

RobotsTxtBlocksAll(f) ==
  {OnSite("INDEX-ROBOTS-TXT-BLOCKS-ALL", 0, <<"host", {h}>>) :
     h \in {k \in DOMAIN f.robots : f.robots[k].blocksAll}}

SitemapReason(s) ==
  CASE s.urls > SitemapMaxUrls -> "too_many_urls"
    [] s.urls <= SitemapMaxUrls /\ s.bytes > SitemapMaxBytes -> "too_large"
    [] s.urls <= SitemapMaxUrls /\ s.bytes <= SitemapMaxBytes /\ s.status # 200 -> "bad_status"
    [] OTHER -> "invalid_xml"

(* A sitemap guessed at its usual place may be missing; one that was        *)
(* declared, or that answered, must be valid.                               *)
SitemapError(f) ==
  {OnSite("INDEX-SITEMAP-ERROR", s.id, <<"sitemap-error", {SitemapReason(s)}>>) :
     s \in {t \in f.sitemaps :
              \/ ~t.valid /\ (t.origin # "well_known" \/ t.status = 200)
              \/ t.urls > SitemapMaxUrls
              \/ t.bytes > SitemapMaxBytes}}

(* What the report says of the deep pages: the depths that hold the middle  *)
(* half of them, and the deepest.                                           *)
DeepPageShape(findings) ==
  LET deep == {i \in findings : i.rule = "INDEX-DEEP-PAGE"}
      depths == {i.detail : i \in deep}
      upTo(d) == Cardinality({i \in deep : i.detail <= d})
      quartile(q) == CHOOSE d \in depths : /\ upTo(d) * 4 >= q * Cardinality(deep)
                                           /\ \A e \in depths : upTo(e) * 4 >= q * Cardinality(deep) => d <= e
  IN [pages |-> Cardinality(deep), low |-> quartile(1), high |-> quartile(3),
      deepest |-> CHOOSE d \in depths : \A e \in depths : e <= d]
=============================================================================
