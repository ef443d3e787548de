----------------------------- MODULE PageResult -----------------------------
(***************************************************************************)
(* From what a server answers to the rows of the crawl file: build_result   *)
(* in engine.rs, with evaluate_indexability and resource_kind.  A site s is *)
(* a record of what is out there: mode, base, seeds (the base, or a list),  *)
(* asksSitemaps, ignoresRobots, external ("checked", or why external URLs   *)
(* are not), inSitemap (the URLs its sitemaps declare), sitemaps, robots,   *)
(* text, and docs[u], the answer for URL u: status (0: none, with error),   *)
(* kind (of its MIME type), location, bytes, ms, blocked (by robots.txt),   *)
(* header (directives of X-Robots-Tag), parsed (what the parser gives).  A  *)
(* 429, which leaves its page pending, is in CrawlEngine.                   *)
(***************************************************************************)
EXTENDS CrawlFile, Sequences, SequencesExt

IsHtml(d) == d.kind = "html"

(* The first condition that bars a page from an index, or "" if none does.  *)
EvaluateIndexability(d, u) ==
  LET bars == <<<<d.blocked, "robots">>,
                <<d.status \in 500..599, "5xx">>,
                <<d.status \in 400..499, "4xx">>,
                <<d.status \in 300..399, "redirect">>,
                <<d.status # 200, "4xx">>,
                <<~IsHtml(d), "not_html">>,
                <<(d.parsed.metaRobots \cup d.header) \cap {"noindex", "none"} # {}, "noindex">>,
                <<d.parsed.canonical \notin {No, u}, "canonicalised">>>>
      failed == SelectSeq(bars, LAMBDA b : b[1])
  IN IF failed = <<>> THEN NoText ELSE Head(failed)[2]

(* SiteScope: the site of the seed, or those of the list; a list stays      *)
(* within the site of each page.                                            *)
InScope(s, u) == s.text[u].authority \in s.scope
InternalLink(s, u, v) == InScope(s, v) /\ (s.mode = "list" => s.text[v].authority = s.text[u].authority)

(* The kind of a resource by its MIME type, or by its extension unless it   *)
(* is a page that was found.                                                *)
ResourceKind(s, u, d) ==
  IF d.kind \in {"css", "js", "img", "font", "video"} THEN d.kind
  ELSE IF IsHtml(d) /\ Is2xx(d.status) THEN NoText ELSE s.text[u].extension

ResourceRows(s, u, d) ==
  IF ResourceKind(s, u, d) = NoText THEN <<>>
  ELSE [v \in {u} |-> [kind |-> ResourceKind(s, u, d), status |-> d.status, bytes |-> d.bytes]]

UrlRow(s, u, state, d) ==
  [state |-> state, reason |-> NoText, status |-> d.status, internal |-> InScope(s, u), inSitemap |-> u \in s.inSitemap,
   next |-> IF Is3xx(d.status) THEN d.location ELSE No, error |-> d.error, bytes |-> d.bytes]

(* The row of a URL nobody has fetched, and why, if it is not to be.        *)
Unfetched == [status |-> 0, location |-> No, error |-> NoText, bytes |-> 0]
PendingRow(s, u) == UrlRow(s, u, "pending", Unfetched)
SkippedRow(s, u) ==
  [UrlRow(s, u, "skipped", Unfetched) EXCEPT !.reason = IF InScope(s, u) \/ s.external = "checked" THEN NoText ELSE s.external]

(* What the parser gave and what the engine derives from it.  out is what   *)
(* the page rules see of the links.                                         *)
HasPage(d) == IsHtml(d) /\ d.bytes > 0
PageRow(s, u, d) ==
  LET why == EvaluateIndexability(d, u)
      seen == {l \in d.parsed.links : l.element # "meta"}
      internal(l) == l.to # No /\ InternalLink(s, u, l.to)
  IN [f \in DOMAIN d.parsed \cup {"html", "indexable", "why", "headerRobots", "out", "ms", "linksIn"} |->
        CASE f = "html" -> IsHtml(d)
          [] f = "indexable" -> why = NoText
          [] f = "why" -> why
          [] f = "headerRobots" -> d.header
          [] f = "out" -> {[g \in DOMAIN l \cup {"internal"} |-> IF g = "internal" THEN internal(l) ELSE l[g]] : l \in seen}
          [] f = "ms" -> IF s.mode = "filesystem" THEN 0 ELSE d.ms
          [] f = "linksIn" -> 0
          [] OTHER -> d.parsed[f]]

(* Only links of a scheme that can be crawled have a row, and only those of *)
(* the site keep their fragment.                                            *)
NoFragment == [text |-> NoText, decoded |-> NoText, start |-> NoText, directive |-> FALSE]
LinkRows(s, u, d) ==
  {[from |-> u, to |-> l.to, element |-> l.element,
    fragment |-> IF InternalLink(s, u, l.to) /\ ~s.text[l.to].infra THEN l.fragment ELSE NoFragment] :
     l \in {k \in d.parsed.links : k.to # No /\ s.text[k.to].crawlable}}

ImageRows(u, d) == {[page |-> u, src |-> i.src, n |-> i.n, alt |-> i.alt] : i \in {j \in d.parsed.images : j.src # No}}

(* What the task of u writes in the file: a page excluded by robots.txt is  *)
(* not fetched, and one that could not be fetched has no more than its row. *)
Excluded(s, u) == s.docs[u].blocked /\ ~s.ignoresRobots
OnlyRow(row) == [url |-> row, resources |-> <<>>, pages |-> <<>>, links |-> {}, images |-> {}]
BuildResult(s, u) ==
  LET d == s.docs[u] IN
  IF Excluded(s, u) THEN OnlyRow([UrlRow(s, u, "excluded", Unfetched) EXCEPT !.reason = "robots"])
  ELSE IF d.error # NoText THEN OnlyRow(UrlRow(s, u, "error", [Unfetched EXCEPT !.error = d.error]))
  ELSE [url |-> UrlRow(s, u, "done", d),
        resources |-> ResourceRows(s, u, d),
        pages |-> IF HasPage(d) THEN [v \in {u} |-> PageRow(s, u, d)] ELSE <<>>,
        links |-> IF HasPage(d) THEN LinkRows(s, u, d) ELSE {},
        images |-> IF HasPage(d) THEN ImageRows(u, d) ELSE {}]

(* The URLs it discovers: those it links to and where it redirects.         *)
Discovered(s, u) ==
  {l.to : l \in BuildResult(s, u).links} \cup ({BuildResult(s, u).url.next} \ {No})
=============================================================================
