---------------------------- MODULE ContentRules ----------------------------
(***************************************************************************)
(* Categories CONTENT and SOCIAL (crawlforge-rules, content.rs, social.rs). *)
(* The headings of a page are a sequence of records [level, text].          *)
(***************************************************************************)
EXTENDS CrawlFile, Sequences, SequencesExt, TLC

CONSTANT MaxOgImageHops       \* 10 in the code
ASSUME MaxOgImageHopsIsCount == MaxOgImageHops \in Nat \ {0}

ContentSeverity ==
  [rule \in {"CONTENT-H1-MISSING", "CONTENT-THIN"} |-> "high"]
  @@ [rule \in {"CONTENT-H1-EMPTY", "CONTENT-LANG-MISSING"} |-> "medium"]
  @@ [rule \in {"CONTENT-H1-MULTIPLE", "CONTENT-HEADING-SKIP"} |-> "low"]

ThinMinWords == 300

OnIndexable(f, u, rule, condition, detail, group) ==
  IF f.pages[u].html /\ f.pages[u].indexable /\ condition
  THEN {Finding(rule, ContentSeverity[rule], u, detail, group)} ELSE {}

H1s(f, u) == SelectSeq(f.pages[u].headings, LAMBDA h : h.level = 1)
FirstH1HasText(f, u) == H1s(f, u) # <<>> /\ Head(H1s(f, u)).text # No

ContentH1Missing(f, u) ==
  OnIndexable(f, u, "CONTENT-H1-MISSING", ~FirstH1HasText(f, u), Len(H1s(f, u)), NoGroup)
ContentH1Multiple(f, u) ==
  OnIndexable(f, u, "CONTENT-H1-MULTIPLE", Len(H1s(f, u)) > 1, Len(H1s(f, u)), NoGroup)
ContentH1Empty(f, u) ==
  OnIndexable(f, u, "CONTENT-H1-EMPTY", H1s(f, u) # <<>> /\ ~FirstH1HasText(f, u), Len(H1s(f, u)), NoGroup)

(* A heading more than one level under the one before.  The finding is      *)
(* about the first, and grouped with the pages where it is the same.        *)
ContentHeadingSkip(f, u) ==
  LET hs == f.pages[u].headings
      skips == {i \in 2..Len(hs) : hs[i].level > hs[i - 1].level + 1}
      first == CHOOSE i \in skips : \A j \in skips : i <= j
  IN OnIndexable(f, u, "CONTENT-HEADING-SKIP", skips # {}, Cardinality(skips),
                 IF skips = {} THEN NoGroup
                 ELSE <<"heading-skip", {hs[first - 1].level, hs[first].level}, hs[first].text>>)

ContentThin(f, u) == OnIndexable(f, u, "CONTENT-THIN", f.pages[u].words < ThinMinWords, f.pages[u].words, NoGroup)
ContentLangMissing(f, u) == OnIndexable(f, u, "CONTENT-LANG-MISSING", f.pages[u].lang.tags = <<>>, 0, NoGroup)

ContentPageRules(f, u) ==
  ContentH1Missing(f, u) \cup ContentH1Multiple(f, u) \cup ContentH1Empty(f, u)
  \cup ContentHeadingSkip(f, u) \cup ContentThin(f, u) \cup ContentLangMissing(f, u)

(* ---- SOCIAL ---- *)

RequiredOg == {"og:title", "og:description", "og:image"}

SocialOgMissing(f, u) ==
  LET missing == RequiredOg \ f.pages[u].og IN
  IF f.pages[u].html /\ f.pages[u].indexable /\ missing # {}
  THEN {Finding("SOCIAL-OG-MISSING", "low", u, Cardinality(missing), <<"og-missing", missing>>)} ELSE {}

(* Where the redirects of an image end, or where the query stops following. *)
OgImageEnd(f, u) ==
  LET end[n \in 0..MaxOgImageHops] ==
        IF n = 0 THEN u
        ELSE LET v == end[n - 1] IN IF Is3xx(f.urls[v].status) /\ f.urls[v].next # No THEN f.urls[v].next ELSE v
  IN end[MaxOgImageHops]

(* Broken: an internal error, an external URL that is gone, or a host with  *)
(* no address.                                                              *)
BrokenUrl(f, u) ==
  IF u \in Internal(f) THEN f.urls[u].status >= 400
  ELSE f.urls[u].status \in GoneStatus \/ (~Answered(f, u) /\ f.urls[u].error = "dns")

SocialOgImageBroken(f) ==
  LET images == {l \in f.links : l.element = "meta"}
  IN {Finding("SOCIAL-OG-IMAGE-BROKEN", "medium", u, Cardinality({l.from : l \in {k \in images : k.to = u}}), NoGroup) :
        u \in {l.to : l \in {k \in images : BrokenUrl(f, OgImageEnd(f, k.to))}}}
=============================================================================
