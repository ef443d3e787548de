---------------------------- MODULE HreflangRules ----------------------------
(***************************************************************************)
(* Category HREFLANG (crawlforge-rules, hreflang.rs).  An alternate is a    *)
(* record [code, form, to]: to is the URL its href resolves to (No for an   *)
(* empty one).  A code is [underscore, tags], the lower case of its subtags.*)
(***************************************************************************)
EXTENDS CrawlFile, Sequences, SequencesExt, TLC

HreflangSeverity ==
  ("HREFLANG-TO-4XX" :> "critical")
  @@ [rule \in {"HREFLANG-NO-SELF", "HREFLANG-NOT-RECIPROCAL", "HREFLANG-INVALID-CODE"} |-> "high"]
  @@ ("HREFLANG-LANG-MISMATCH" :> "medium") @@ ("HREFLANG-SELF-ONLY" :> "low")

HreflangFinding(rule, u, detail, group) == Finding(rule, HreflangSeverity[rule], u, detail, group)

(* ---- codes ---- *)

(* Some of the subtags of the standards; sp and uk are common mistakes.     *)
Languages == {"es", "en", "he", "iw", "sr", "hr", "sh"}
Scripts == {"latn"}
Regions == {"mx", "es", "419"}

(* Why a code is not valid, or "".                                          *)
CheckCode(code) ==
  LET tags == code.tags  rest == Tail(tags) IN
  CASE tags = <<>> -> "empty"
    [] tags # <<>> /\ code.underscore -> "separator"
    [] OTHER ->
       CASE tags = <<"x", "default">> -> NoText
         [] tags # <<"x", "default">> /\ Head(tags) = "x" -> "private_use"
         [] Head(tags) # "x" /\ Len(tags) > 3 -> "structure"
         [] Head(tags) # "x" /\ Len(tags) <= 3 /\ Head(tags) \notin Languages -> "language"
         [] OTHER -> IF rest = <<>> \/ (Len(rest) = 1 /\ rest[1] \in Scripts) THEN NoText
                     ELSE IF Len(rest) = 2 /\ rest[1] \notin Scripts THEN "structure"
                     ELSE IF Last(rest) \in Regions THEN NoText ELSE "region"

IsDefault(code) == ~code.underscore /\ code.tags = <<"x", "default">>

(* The language of a code, whichever its separator; "" if it has no shape   *)
(* of one.                                                                  *)
PrimaryLanguage(code) == IF code.tags = <<>> \/ Head(code.tags) = "x" THEN NoText ELSE Head(code.tags)

SameLanguage(a, b) ==
  \/ a = b
  \/ {a, b} = {"he", "iw"}
  \/ "sh" \in {a, b} /\ {a, b} \subseteq {"sh", "sr", "hr"}

(* ---- page rules ---- *)

(* A page is known by its URL and by that of its canonical.                 *)
OwnKeys(f, u) == {f.text[u].key} \cup {f.text[c].key : c \in {f.pages[u].canonical} \ {No}}
PointsAt(f, a, keys) == a.to # No /\ f.text[a.to].key \in keys
ToSelf(f, u) == {a \in f.pages[u].alternates : PointsAt(f, a, OwnKeys(f, u))}

HreflangNoSelf(f, u) ==
  IF f.pages[u].html /\ f.pages[u].indexable /\ f.pages[u].alternates # {} /\ ToSelf(f, u) = {}
  THEN {HreflangFinding("HREFLANG-NO-SELF", u, Cardinality(f.pages[u].alternates), NoGroup)} ELSE {}

HreflangInvalidCode(f, u) ==
  IF f.pages[u].html /\ Is2xx(f.urls[u].status)
  THEN {HreflangFinding("HREFLANG-INVALID-CODE", u, 0, <<"hreflang-code", {c}>>) :
          c \in {a.code : a \in {b \in f.pages[u].alternates : CheckCode(b.code) # NoText}}}
  ELSE {}

(* The page says it is in another language than its own alternate does.  It *)
(* is silent where another rule has the cause: no lang, no alternate of its *)
(* own, or one with a wrong code.                                           *)
HreflangLangMismatch(f, u) ==
  LET page == PrimaryLanguage(f.pages[u].lang)
      own == {PrimaryLanguage(a.code) : a \in {b \in ToSelf(f, u) : ~IsDefault(b.code) /\ CheckCode(b.code) = NoText}}
  IN IF /\ f.pages[u].html /\ Is2xx(f.urls[u].status) /\ f.pages[u].indexable
        /\ page # NoText /\ own # {} /\ \A l \in own : ~SameLanguage(l, page)
     THEN {HreflangFinding("HREFLANG-LANG-MISMATCH", u, 0, <<"hreflang-lang", {page}>>)} ELSE {}

HreflangSelfOnly(f, u) ==
  IF /\ f.pages[u].html /\ Is2xx(f.urls[u].status) /\ f.pages[u].indexable
     /\ f.pages[u].alternates # {} /\ ToSelf(f, u) = f.pages[u].alternates
  THEN {HreflangFinding("HREFLANG-SELF-ONLY", u, 0,
                        <<"hreflang-self-only", {a.code : a \in f.pages[u].alternates}>>)} ELSE {}

HreflangPageRules(f, u) ==
  HreflangNoSelf(f, u) \cup HreflangInvalidCode(f, u) \cup HreflangLangMismatch(f, u) \cup HreflangSelfOnly(f, u)

(* ---- site rules ---- *)

(* The pages with alternates, each with the keys it is known by and those   *)
(* it declares.                                                             *)
Sets(f) == {u \in Pages(f) : f.pages[u].alternates # {}}
Declared(f, u) == {a.to : a \in f.pages[u].alternates} \ {No}
DeclaredKeys(f, u) == {f.text[v].key : v \in Declared(f, u)}

(* The page that answers for a key: of several, the one read first.         *)
OwnersOf(f, key) == {u \in Sets(f) : key \in OwnKeys(f, u)}
Owner(f, key) == CHOOSE u \in OwnersOf(f, key) : \A v \in OwnersOf(f, key) : f.ids[u] <= f.ids[v]

(* v does not declare u back: it leaves it out, or was crawled and declares *)
(* nothing.                                                                 *)
Omits(f, v, u) ==
  IF OwnersOf(f, f.text[v].key) # {}
  THEN DeclaredKeys(f, Owner(f, f.text[v].key)) \cap OwnKeys(f, u) = {}
  ELSE v \in Pages(f)

(* One finding for each key u declares, in a group of both its ends.        *)
HreflangNotReciprocal(f) ==
  UNION {{HreflangFinding("HREFLANG-NOT-RECIPROCAL", u, 0, <<"hreflang-pair", {f.text[u].key, f.text[v].key}>>) :
            v \in {w \in Declared(f, u) : f.text[w].key \notin OwnKeys(f, u) /\ Omits(f, w, u)}} :
          u \in Sets(f) \cap Indexable(f)}

HreflangTo4xx(f) ==
  LET broken(v) == /\ v \in Rows(f)
                   /\ IF v \in Internal(f) THEN Is4xx(f.urls[v].status) ELSE f.urls[v].status \in GoneStatus
  IN UNION {{HreflangFinding("HREFLANG-TO-4XX", u, key, NoGroup) :
               key \in {f.text[v].key : v \in {w \in Declared(f, u) : broken(w)}}} : u \in Sets(f)}

HreflangSiteRules(f) == HreflangNotReciprocal(f) \cup HreflangTo4xx(f)
=============================================================================
