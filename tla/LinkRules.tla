------------------------------ MODULE LinkRules ------------------------------
(***************************************************************************)
(* Category LINK (crawlforge-rules, link.rs).  A link of a page has here    *)
(* (its href begins with #), anchor (its text folded: without accents,      *)
(* case, outer punctuation; "" if blank), named (an image or a label        *)
(* inside).  A fragment is a record [text, decoded, start, directive]:      *)
(* start is its first sign when it is one of / and !, directive that        *)
(* nothing is before :~:.                                                   *)
(***************************************************************************)
EXTENDS HreflangRules


(* ---- page rules ---- *)

NavigationLinks(f, u) ==
  IF f.pages[u].html /\ Is2xx(f.urls[u].status)
  THEN {l \in f.pages[u].out : l.internal /\ l.element = "a" /\ ~Infrastructure(f, l.to) /\ ~l.here}
  ELSE {}

LinkAnchorEmpty(f, u) ==
  LET mute == {l \in NavigationLinks(f, u) : l.anchor = NoText /\ ~l.named}
  IN IF mute # {}
     THEN {Finding("LINK-ANCHOR-EMPTY", "medium", u, Cardinality(mute), <<"link-anchor-empty", {l.to : l \in mute}>>)}
     ELSE {}

(* Some of the phrases that say nothing of where they lead, and of the      *)
(* words that are a name in other languages than their own.                 *)
GenericIn == [en |-> {"here"}, es |-> {"aqui"}]
GenericIfDeclared == [en |-> {"info"}, es |-> {"ir"}]

IsGenericAnchor(anchor, lang) ==
  /\ anchor # NoText
  /\ \/ \E l \in DOMAIN GenericIn : anchor \in GenericIn[l]
     \/ PrimaryLanguage(lang) \in DOMAIN GenericIfDeclared /\ anchor \in GenericIfDeclared[PrimaryLanguage(lang)]

(* A link to /here called Here is well named.                               *)
NamesItsSlug(f, l) == f.text[l.to].slug = l.anchor

LinkAnchorGeneric(f, u) ==
  LET generic == {l \in NavigationLinks(f, u) : IsGenericAnchor(l.anchor, f.pages[u].lang) /\ ~NamesItsSlug(f, l)}
  IN IF generic # {}
     THEN {Finding("LINK-ANCHOR-GENERIC", "low", u, Cardinality(generic),
                   <<"link-anchor-generic", {l.anchor : l \in generic}>>)}
     ELSE {}

LinkPageRules(f, u) == LinkAnchorEmpty(f, u) \cup LinkAnchorGeneric(f, u)

(* ---- site rules ---- *)

FragmentLands(fragment, ids) ==
  \/ fragment.directive \/ fragment.start # NoText
  \/ fragment.text \in ids \/ fragment.decoded \in ids
  \/ fragment.decoded = "top"

(* The links with a fragment to pages whose identifiers are known.          *)
FragmentLinks(f) ==
  {l \in f.links :
     /\ l.element = "a" /\ l.fragment.text # NoText
     /\ l.to \in Internal(f) \cap Pages(f) /\ f.urls[l.to].status = 200 /\ f.pages[l.to].ids # {"unknown"}
     /\ Is2xx(f.urls[l.from].status) /\ ~Infrastructure(f, l.to)}

LinkFragmentBroken(f) ==
  {Finding("LINK-FRAGMENT-BROKEN", "low", p[1],
           Cardinality({l.from : l \in {k \in FragmentLinks(f) : k.to = p[1] /\ k.fragment = p[2]}}),
           <<"link-fragment-broken", {p[2].text}>>) :
     p \in {<<l.to, l.fragment>> : l \in {k \in FragmentLinks(f) : ~FragmentLands(k.fragment, f.pages[k.to].ids)}}}
=============================================================================
