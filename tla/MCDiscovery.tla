------------------------------ MODULE MCDiscovery ------------------------------
EXTENDS Discovery

(* Two hosts of the site, with a call of the discovery for each, and three  *)
(* pages: two of the host that the discovery may never have asked about.    *)
TaskHost == [t \in {"loop a", "loop b", "p1", "p2", "p3"} |-> IF t \in {"loop a", "p1"} THEN "a" ELSE "b"]
LoopOf == [h \in {"a", "b"} |-> IF h = "a" THEN "loop a" ELSE "loop b"]

(* A sitemap: of a host of the site, read, with nothing in it; one of       *)
(* pages, with an image in it and one that cannot be read; and one of       *)
(* others.                                                                  *)
Doc0(body) ==
  LET parsed == Parse(body) IN
  [host |-> "a", crawlable |-> TRUE, internal |-> TRUE, allowed |-> TRUE, answer |-> "doc", status |-> 200,
   wellFormed |-> ~parsed.error, urls |-> parsed.urls, children |-> parsed.children]
Tagged(tag, events) == <<[kind |-> "start", tag |-> tag]>> \o events \o <<[kind |-> "end", tag |-> tag]>>
Loc(u, whole) == Tagged("loc", <<[kind |-> "text", url |-> u, whole |-> whole]>>)
Entries(tag, us) == FlattenSeq([i \in DOMAIN us |-> Tagged(tag, Loc(us[i], TRUE))])
Image == Tagged("url", Tagged("image", Loc("image", TRUE)) \o Loc("cut", FALSE))
Xml(events) == [gzip |-> "no", events |-> events]
Empty == Doc0(Xml(<<>>))
Urlset(us) == Doc0(Xml(Image \o Entries("url", us)))
Torn(us) == Doc0(Xml(Entries("url", us) \o <<[kind |-> "malformed"]>> \o Entries("url", <<9>>)))
Index(us) == Doc0(Xml(Entries("sitemap", us)))
Bomb == Doc0([gzip |-> "unreadable", events |-> <<>>])

(* Page 1 is declared under two names, and page 9 is not of the site.       *)
PagesOf == [p \in {1, 2, 3, 11, 9} |-> [own |-> p # 9, screened |-> TRUE, same |-> IF p = 11 THEN 1 ELSE p]]
WebOf(announced, docs) ==
  [home |-> "a", announced |-> announced, usual |-> <<"usual">>, docs |-> docs, pages |-> PagesOf, budget |-> {},
   ignoresRobots |-> FALSE, followsExternal |-> FALSE]

(* An index of three that points to itself and to the usual path, and what  *)
(* may become of its children.                                              *)
Child ==
  {Urlset(<<1, 2>>), Urlset(<<11, 3, 9>>), [Empty EXCEPT !.status = 429], [Empty EXCEPT !.answer = "failed"],
   [Urlset(<<2>>) EXCEPT !.host = "b"], [Urlset(<<2>>) EXCEPT !.allowed = FALSE]}
IndexWebs ==
  {WebOf(<<"index">>, "index" :> Index(<<"usual", "x", "y", "index", "z">>) @@ "usual" :> Urlset(<<1>>)
                      @@ "x" :> x @@ "y" :> y @@ "z" :> Urlset(<<3>>)) :
     x \in Child, y \in {Urlset(<<11, 3, 9>>), [Empty EXCEPT !.answer = "failed"], [Urlset(<<2>>) EXCEPT !.host = "b"]}}
(* The usual path is not announced, the announced one may not be read, and  *)
(* there is a budget.                                                       *)
BudgetWebs ==
  {[WebOf(<<"x", "y">>, "x" :> x @@ "y" :> Torn(<<3>>) @@ "usual" :> usual)
    EXCEPT !.budget = {b}] :
     x \in {Urlset(<<1, 2>>), [Empty EXCEPT !.answer = "died"], [Urlset(<<9>>) EXCEPT !.internal = FALSE]},
     usual \in {[Empty EXCEPT !.status = 404], Urlset(<<2, 11>>)}, b \in 1..3}
FreeWebs ==
  {[WebOf(<<"x", "y">>, "x" :> [Urlset(<<1, 9>>) EXCEPT !.host = "b", !.internal = FALSE] @@ "y" :> [Urlset(<<2>>) EXCEPT !.allowed = FALSE]
                        @@ "usual" :> Bomb)
    EXCEPT !.ignoresRobots = ignores, !.followsExternal = TRUE] : ignores \in BOOLEAN}
(* More sitemaps than the limit, and more URLs in them than the budget.     *)
WideWebs ==
  {[WebOf(<<"index">>, "index" :> Index(<<"x", "y", "z", "w">>) @@ "usual" :> Bomb
                       @@ "x" :> Urlset(<<1>>) @@ "y" :> Urlset(<<2>>) @@ "z" :> Bomb @@ "w" :> Urlset(<<3>>))
    EXCEPT !.budget = budget] : budget \in {{}, {2}}}
AllWebs == IndexWebs \cup BudgetWebs \cup FreeWebs \cup WideWebs
=============================================================================
