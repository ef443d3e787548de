------------------------------ MODULE Inspect ------------------------------
(***************************************************************************)
(* crawlforge inspect: the card of one URL of a crawl file (inspect.rs).    *)
(* Which row the URL that was typed stands for, the region and the anchor   *)
(* of a link, and the layout are left out: a list is the set of its lines,  *)
(* each with the rank that orders it.                                       *)
(***************************************************************************)
EXTENDS Compare

CONSTANTS MaxTrail,      \* MAX_REDIRECT_HOPS of the card: 12 in the code
          ListLimits     \* what --limit may ask for: lines, or No for all

ASSUME InspectAssumption == MaxTrail \in Nat \ {0} /\ ListLimits \subseteq Nat

(* The first lines by rank.  One line more than the limit is asked for, to  *)
(* know whether the list was cut without counting the table.                *)
Precedes(p, q) == \E n \in DOMAIN p : p[n] < q[n] /\ \A k \in 1..n - 1 : p[k] = q[k]
FirstLines(lines, n) == {l \in lines : Cardinality({k \in lines : Precedes(k.rank, l.rank)}) < n}
List(lines, limit) ==
  IF limit = No THEN [lines |-> lines, cut |-> FALSE]
  ELSE LET asked == FirstLines(lines, limit + 1)
       IN [lines |-> FirstLines(asked, limit), cut |-> Cardinality(asked) > limit]

(* The state is told when it is not the usual one, and by what the row      *)
(* says: an external URL with a status or an error was asked for.           *)
StatusNote(row) ==
  CASE row.state = "done" -> NoText [] row.state = "pending" -> "pending" [] row.state = "error" -> "error"
    [] OTHER ->
       IF row.reason # NoText
       THEN IF ~row.internal /\ row.reason \in {"external_check_off", "no_network"} THEN "external_not_checked" ELSE "excluded"
       ELSE IF row.internal THEN "out_of_scope"
       ELSE IF row.status # 0 \/ row.error # NoText THEN "external_checked" ELSE "external_unchecked"

(* The URLs it redirects through, until one that does not, one that was     *)
(* shown or too many: these two are told as a loop.                         *)
Trail(f, u) ==
  LET trail[n \in 0..MaxTrail] ==
        IF n = 0 THEN [path |-> <<u>>, end |-> NoText]
        ELSE LET t == trail[n - 1]  next == f.urls[Last(t.path)].next IN
             CASE t.end # NoText -> t
               [] t.end = NoText /\ next = No -> [t EXCEPT !.end = "final"]
               [] t.end = NoText /\ (next \in ToSet(t.path) \/ Len(t.path) >= MaxTrail) -> [t EXCEPT !.end = "loop"]
               [] OTHER -> [t EXCEPT !.path = Append(@, next)]
  IN IF f.urls[u].next = No THEN [path |-> <<>>, end |-> NoText] ELSE trail[MaxTrail]

PageSection(f, u) ==
  IF u \notin Pages(f) THEN {}
  ELSE LET p == f.pages[u] IN
       {[title |-> p.title, desc |-> p.desc, words |-> p.words, canonical |-> p.canonical, own |-> p.canonical = u, why |-> p.why]}

FindingsSection(findings, u) ==
  LET here == {i \in findings : i.url = u}
  IN [k \in {<<i.rule, i.severity>> : i \in here} |-> Cardinality({i \in here : <<i.rule, i.severity>> = k})]

(* Who links to it, one line for each page; and where it leads, one line    *)
(* for each URL, the broken ones first and then those of the site, in the   *)
(* order of the page.                                                       *)
InlinksSection(f, u, limit) ==
  LET links == {l \in f.links : l.to = u}
      line(v) == [about |-> v, rank |-> <<v>>, count |-> Cardinality({l \in links : l.from = v})]
  IN [total |-> Cardinality(links), list |-> List({line(v) : v \in {l.from : l \in links}}, limit)]
Broken(f, u) == f.urls[u].status >= 400
OutlinksSection(f, u, limit) ==
  LET links == {l \in f.links : l.from = u}
      line(v) == [about |-> v, count |-> Cardinality({l \in links : l.to = v}),
                  rank |-> <<IF Broken(f, v) THEN 0 ELSE 1, IF v \in Internal(f) THEN 0 ELSE 1, v>>]
  IN [internal |-> Cardinality({l \in links : l.to \in Internal(f)}),
      external |-> Cardinality({l \in links : l.to \notin Internal(f)}),
      list |-> List({line(v) : v \in {l.to : l \in links}}, limit)]

(* The images it shows, those without a text first; and if it is an image,  *)
(* the pages that show it.                                                  *)
ImagesSection(f, u, limit) ==
  LET shown == {i \in f.images : i.page = u}
      some(v) == CHOOSE i \in shown : i.src = v
      line(v) == [about |-> v, rank |-> <<IF some(v).alt = "none" THEN 0 ELSE 1, v>>, count |-> Cardinality({i \in shown : i.src = v})]
  IN [total |-> Cardinality(shown), list |-> List({line(v) : v \in {i.src : i \in shown}}, limit)]
ImageUsageSection(f, u, limit) ==
  LET uses == {i \in f.images : i.src = u}
      line(v) == [about |-> v, rank |-> <<v>>, count |-> Cardinality({i \in uses : i.page = v})]
  IN [total |-> Cardinality(uses), pages |-> Cardinality({i.page : i \in uses}), list |-> List({line(v) : v \in {i.page : i \in uses}}, limit)]

Card(f, findings, u, limit) ==
  [of |-> u, note |-> StatusNote(f.urls[u]), trail |-> Trail(f, u), page |-> PageSection(f, u), findings |-> FindingsSection(findings, u),
   inlinks |-> InlinksSection(f, u, limit), outlinks |-> OutlinksSection(f, u, limit),
   images |-> ImagesSection(f, u, limit), usage |-> ImageUsageSection(f, u, limit)]
=============================================================================
