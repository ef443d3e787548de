----------------------------- MODULE CrawlFile -----------------------------
(***************************************************************************)
(* The crawl file as the rules, the reports and the comparisons read it: a  *)
(* record f with one field per table.  The text of a URL is its number: the *)
(* rows of table urls are the function f.urls from the numbers that have a  *)
(* row, and a canonical, a redirect or an alternate may hold the number of  *)
(* a URL without a row.  NULL is No for a URL, 0 for a status code and      *)
(* NoText for a name.                                                       *)
(*                                                                         *)
(*   f.mode, f.asksSitemaps, f.base       crawl_meta                       *)
(*   f.seeds                              the rows of depth 0              *)
(*   f.text[u]                            what the text of URL u says,     *)
(*                                        with or without a row: its host, *)
(*                                        its scheme, its path             *)
(*   f.ids[u]                             urls.id: the order rows came in  *)
(*   f.urls[u]                            urls                             *)
(*   f.pages[u]                           pages, and what the parser gave  *)
(*                                        the page rules of that page      *)
(*   f.links, f.images                    links, images                    *)
(*   f.resources[u]                       resources                        *)
(*   f.robots[h], f.sitemaps              robots_txt, sitemaps             *)
(***************************************************************************)
EXTENDS Integers, FiniteSets

No == 0
NoText == ""

(* The rows of a table once some were written, each over the one it had.    *)
Upsert(new, old) == [x \in DOMAIN new \cup DOMAIN old |-> IF x \in DOMAIN new THEN new[x] ELSE old[x]]

Rows(f) == DOMAIN f.urls
Pages(f) == DOMAIN f.pages
Internal(f) == {u \in Rows(f) : f.urls[u].internal}
Indexable(f) == {u \in Pages(f) : f.pages[u].indexable}

Answered(f, u) == f.urls[u].status # 0
Is2xx(status) == status \in 200..299
Is3xx(status) == status \in 300..399
Is4xx(status) == status \in 400..499

(* A finding: its rule, its severity, its URL (No for one of the site as a  *)
(* whole), the number its detail is about, and the key of its group.        *)
NoGroup == <<"none", {}>>
Finding(rule, severity, u, detail, group) ==
  [rule |-> rule, severity |-> severity, url |-> u, detail |-> detail, group |-> group]

(* Rows told apart only by a final slash are the same page of the site.     *)
SameButSlash(f, u) == {v \in Rows(f) : f.text[v].bare = f.text[u].bare}

(* The statuses that say that an external URL no longer exists, and those   *)
(* that say that its server does not talk to a crawler.                     *)
GoneStatus == {404, 410}
RefusedStatus == {401, 403, 429}

(* Pages that the network adds to a site, and are not the site's.           *)
Infrastructure(f, u) == f.text[u].infra

(* The rules that a graph with holes would make lie.                        *)
NeedsWholeGraph ==
  {"INDEX-DEEP-PAGE", "INDEX-NO-INTERNAL-LINKS-IN", "INDEX-ORPHAN-PAGE", "INDEX-SECTION-DISCONNECTED"}
=============================================================================
