------------------------------- MODULE MCPage -------------------------------
(***************************************************************************)
(* For TLC: a page with a head and a body, and one that starts without      *)
(* them, with one fragment put between any two of their tokens; pages with  *)
(* two links; and the answers of a server that fails in every way.          *)
(***************************************************************************)
EXTENDS PageReader

El(tag, kind, value) == [is |-> "open", tag |-> tag, kind |-> kind, value |-> value, label |-> FALSE]
Named(tag, kind, value) == [is |-> "open", tag |-> tag, kind |-> kind, value |-> value, label |-> TRUE]
Image(src, lazy, srcset, lazySrcset) ==
  [is |-> "open", tag |-> "img", src |-> src, lazy |-> lazy, srcset |-> srcset, lazySrcset |-> lazySrcset]
Plain(tag) == El(tag, "", "")
End(tag) == [is |-> "close", tag |-> tag]
Text(chars) == [is |-> "text", chars |-> chars]
In(el, tokens) == <<el>> \o tokens \o <<End(el.tag)>>

Xy == Text(<<"x", "y">>)
(* Entities: a letter, a space, and what looks like one once decoded.       *)
Letter == Text(<<"x", "&", "eacute", ";">>)
Space == Text(<<"x", "&", "nbsp", ";", "y">>)
Twice == Text(<<"&", "amp", ";", "nbsp", ";", "x">>)

Page ==
  In(El("html", "", "es"),
     In(Plain("head"), In(Plain("title"), <<Text(<<"x">>)>>) \o <<El("link", "canonical", "/c")>>)
     \o In(Plain("body"), In(Plain("nav"), In(El("a", "", "/x"), <<Text(<<"x">>)>>))
                          \o In(Plain("h1"), <<Text(<<"x", " ", "y">>)>>) \o <<Text(<<"x", ".", "y">>)>>))
Headless == In(Plain("title"), <<Text(<<"x">>)>>) \o <<El("meta", "description", "d")>> \o In(Plain("p"), <<Xy>>)

Fragments ==
  {<<El("meta", "description", "e")>>, <<El("meta", "robots", "noindex")>>, <<El("link", "canonical", "/d")>>,
   <<Named("link", "alternate", "/en")>>, <<El("link", "stylesheet", "/s")>>, <<El("meta", "refresh", "0")>>,
   <<El("meta", "og:image", "/i"), El("meta", "og:image", "/j")>>, <<El("meta", "googlebot", "none")>>,
   <<El("meta", "viewport", "w"), El("meta", "twitter:card", "t"), El("link", "amphtml", "/amp"), El("meta", "other", "")>>,
   <<Text(<<" ">>)>>, <<Text(<<"x">>)>>, <<Image("/i", "", "", "")>>, <<Image("data:", "/i", "", "")>>,
   <<Image("", "data:", "", "/i")>>, <<Image("", "", "", "")>>, <<Image("", "", "/i", "")>>,
   In(Plain("title"), <<Xy>>), In(Plain("title"), <<>>),
   In(Plain("svg"), In(Plain("title"), <<Xy>>)), In(Named("svg", "", ""), <<>>),
   In(Plain("noscript"), <<Image("/i", "", "", "")>>), In(Plain("aside"), <<Text(<<"x", " ", "y">>)>>),
   In(Plain("main"), In(Plain("aside"), <<Xy>>)), In(Plain("aside"), In(Plain("main"), <<Xy>>)),
   In(Plain("em"), <<Xy>>), In(Plain("h2"), <<Xy>> \o In(Plain("br"), <<>>) \o <<Xy>>),
   In(El("a", "nofollow", "/y"), <<Image("/i", "", "", "")>>), In(Named("a", "", "/z"), <<>>), In(Named("a", "", ""), <<>>),
   In(El("script", "", "/s"), <<Xy>>), In(El("script", "ld+json", ""), <<Text(<<"x", "y", "x", "z">>)>>),
   In(El("form", "post", "/f"), <<>>), In(El("form", "", "/f"), <<>>), In(El("iframe", "", "/f"), <<>>),
   In(Plain("em"), <<Letter>>), In(Plain("h2"), <<Space>>), In(Plain("title"), <<Space>>), In(El("a", "", "/y"), <<Twice>>),
   In(Plain("aside"), <<Letter>>), <<Plain("nav")>>, <<End("nav")>>, <<End("body")>>}

Insert(tokens, n, fragment) == SubSeq(tokens, 1, n) \o fragment \o SubSeq(tokens, n + 1, Len(tokens))
(* What a tokenizer may give: text is one node, and that of a title or a    *)
(* script has no tags.                                                      *)
Tokenized(tokens) ==
  \A n \in 2..Len(tokens) :
    /\ ~(tokens[n - 1].is = "text" /\ tokens[n].is = "text")
    /\ tokens[n - 1].is = "open" /\ tokens[n - 1].tag \in {"title", "script"} =>
         \/ tokens[n].is = "close" /\ tokens[n].tag = tokens[n - 1].tag
         \/ n < Len(tokens) /\ tokens[n].is = "text" /\ tokens[n + 1] = End(tokens[n - 1].tag)
(* What changes what comes after it: put before the other fragment.         *)
Contexts == {In(Plain("noscript"), <<Image("/i", "", "", "")>>), In(Plain("aside"), In(Plain("main"), <<Xy>>)), <<Text(<<"x">>)>>}
TwoFragments ==
  UNION {{Insert(Insert(Page, m, f), n, c) : f \in Fragments, c \in Contexts, n \in 0..m} : m \in {4, 9, 11, 18}}
FragmentDocuments ==
  {d \in {Insert(Page, n, f) : n \in 0..Len(Page), f \in Fragments} \cup {Insert(Headless, n, f) : n \in 0..Len(Headless), f \in Fragments}
          \cup TwoFragments : Tokenized(d)}

(* Links, by what follows the path.                                         *)
Link(host, port, path, slash, query) ==
  [user |-> "", host |-> host, port |-> port, path |-> path, slash |-> slash, query |-> query, fragment |-> ""]
OnSite(query) == Link("a", "", <<"x">>, FALSE, <<query>>)
Linked ==
  [x |-> Link("a", "", <<"x">>, FALSE, <<>>), slash |-> Link("a", "", <<"x">>, TRUE, <<>>),
   user |-> [Link("a", "", <<"x">>, FALSE, <<>>) EXCEPT !.user = "u", !.fragment = "#"],
   hashbang |-> [Link("a", "", <<"x">>, FALSE, <<>>) EXCEPT !.fragment = "#!"],
   port |-> Link("a", "8080", <<"x">>, FALSE, <<>>), other |-> Link("b", "", <<"x">>, FALSE, <<>>),
   empty |-> OnSite(<<>>), utm |-> OnSite(<<"utm_", "=", "1">>), ref |-> OnSite(<<"ref", "=", "1", "&", "a">>),
   ab |-> OnSite(<<"a", "=", "1", "&", "b", "=", "2">>), ba |-> OnSite(<<"b", "=", "2", "&", "&", "a", "=", "1">>),
   a12 |-> OnSite(<<"a", "=", "1", "&", "a", "=", "2">>), a21 |-> OnSite(<<"a", "=", "2", "&", "a", "=", "1">>),
   a1 |-> OnSite(<<"a", "=", "1">>), plus |-> OnSite(<<"a", "=", "1", "+", "2">>), space |-> OnSite(<<"a", "=", "1", "%20", "2">>),
   amp |-> OnSite(<<"a", "=", "1", "%26", "b", "=", "2">>), cpp |-> OnSite(<<"a", "=", "1", "%2B", "2">>)]
Hrefs == DOMAIN Linked
MCUrls == Linked @@ [h \in {"/x", "/y", "/z", "/i", "/j", "/s", "/f", "data:"} |-> Link("a", "", <<h>>, FALSE, <<>>)]
MCSymbols == <<" ", "&", "+", "1", "2", "=", "a", "b", "ref", "utm_">>
MCPolicy == [stripped |-> {"ref"}, families |-> {"utm_"}, slash |-> "as_is", hashbang |-> FALSE]
MCSeeds == <<"x">>
LinkDocuments ==
  {In(Plain("html"), In(Plain("body"), In(El("a", "", h), <<>>) \o In(El("a", "", g), <<>>))) : h, g \in Hrefs}
MCDocuments == FragmentDocuments \cup LinkDocuments

(* Built sites of up to three files, whose pages have the same links.       *)
MCBase == [scheme |-> "https", user |-> "", host |-> "a", port |-> "", path |-> <<>>, slash |-> TRUE, query |-> <<>>, fragment |-> ""]
UrlOf(path, slash) == [MCBase EXCEPT !.path = path, !.slash = slash]
About == <<"about">>
LocalPlaces ==
  (<<Index>> :> "file") @@ (<<<<"noindex", "html">>>> :> "file") @@ (<<<<"about", "html">>>> :> "file") @@ (<<About, Index>> :> "file")
  @@ (<<About>> :> "file") @@ (<<About, <<"old", "htm">>>> :> "file") @@ (<<<<"feed", "xml">>>> :> "file")
  @@ (<<<<"alias", "html">>>> :> "inside") @@ (<<<<"alias">>>> :> "outside")
LocalPaths ==
  {s \in SUBSET DOMAIN LocalPlaces : Cardinality(s) <= 3 /\ (<<About>> \in s => \A p \in s : Len(p) = 1 \/ p[1] # About)}
AboutUrls == {UrlOf(<<About>>, TRUE), UrlOf(<<About>>, FALSE), UrlOf(<<<<"about", "html">>>>, FALSE), UrlOf(<<About, Index>>, FALSE)}
OtherUrls ==
  {UrlOf(<<<<"no">>>>, TRUE), UrlOf(<<<<"noindex">>>>, FALSE), UrlOf(<<>>, TRUE), UrlOf(<<<<"index">>>>, FALSE), UrlOf(<<About, <<"old">>>>, FALSE),
   UrlOf(<<<<"feed", "xml">>>>, FALSE), UrlOf(<<<<"alias">>>>, FALSE), UrlOf(<<<<"alias", "html">>>>, FALSE),
   [UrlOf(<<>>, TRUE) EXCEPT !.host = "b"], [UrlOf(<<>>, TRUE) EXCEPT !.scheme = "http"], [UrlOf(<<About>>, FALSE) EXCEPT !.query = <<<<"a">>>>]}
LocalLinks == {{u, v} : u, v \in AboutUrls} \cup {{u} : u \in OtherUrls}
MCDisks ==
  {[base |-> MCBase,
    tree |-> [p \in s |-> [place |-> LocalPlaces[p], bytes |-> 1, opens |-> TRUE, links |-> l]]] :
     s \in LocalPaths, l \in LocalLinks}
  \cup {[base |-> MCBase,
          tree |-> [p \in {<<Index>>, <<About>>, <<<<"feed", "xml">>>>} |->
                      [place |-> "file", bytes |-> n, opens |-> o, links |-> {UrlOf(<<About>>, FALSE), UrlOf(<<<<"feed", "xml">>>>, FALSE)}]]] :
          n \in 2..4, o \in BOOLEAN}

Answered(status, type, body, asked) ==
  [fails |-> "nothing", status |-> status, type |-> type, declared |-> Unknown, body |-> body, broken |-> FALSE, asked |-> asked]
MCAnswers ==
  {[fails |-> kind] : kind \in {"dns", "tls", "timeout", "connection", "blocked"}}
  \cup {Answered(200, "html", <<1, 1>>, Unknown), Answered(200, "html", <<2, 1>>, Unknown), Answered(200, "xml", <<2, 1>>, Unknown),
        Answered(200, "html", <<>>, 1), Answered(404, "html", <<1>>, Unknown), Answered(405, "html", <<>>, Unknown),
        Answered(500, "html", <<1>>, 5), Answered(503, "html", <<1>>, Unknown), Answered(429, "html", <<>>, 4), Answered(503, "html", <<>>, 9),
        [Answered(200, "html", <<1, 1>>, Unknown) EXCEPT !.declared = 3], [Answered(200, "html", <<1>>, Unknown) EXCEPT !.declared = 1],
        [Answered(200, "html", <<1>>, Unknown) EXCEPT !.broken = TRUE]}
=============================================================================
