----------------------------- MODULE MetaRules -----------------------------
(***************************************************************************)
(* Category META (crawlforge-rules, meta.rs).  A text is a record: which    *)
(* one it is (No if it is missing or blank) and how many narrow and wide    *)
(* characters it has.                                                       *)
(***************************************************************************)
EXTENDS CrawlFile, TLC

MetaSeverity ==
  ("META-TITLE-MISSING" :> "critical")
  @@ [rule \in {"META-TITLE-DUPLICATE", "META-DESC-MISSING", "META-VIEWPORT-MISSING", "META-OUTSIDE-HEAD",
                "META-REFRESH"} |-> "high"]
  @@ [rule \in {"META-TITLE-TOO-LONG", "META-TITLE-MULTIPLE", "META-DESC-DUPLICATE"} |-> "medium"]
  @@ [rule \in {"META-TITLE-TOO-SHORT", "META-DESC-TOO-LONG", "META-DESC-TOO-SHORT"} |-> "low"]

MetaFinding(rule, u, detail) == Finding(rule, MetaSeverity[rule], u, detail, NoGroup)

(* Widths in thousandths of the size of the letter: those of an l and of a  *)
(* dash, the ends of the table but for the at sign.                         *)
Chars(text) == text.narrow + text.wide
WidthPx(text, size) == ((222 * text.narrow + 1000 * text.wide) * size) \div 1000

TitleMaxPx == 580
DescMaxPx == 990
TitleMinChars == 30
DescMinChars == 70

(* ---- page rules ---- *)

Judged(f, u) == f.pages[u].html /\ f.pages[u].indexable
When(condition, rule, u, detail) == IF condition THEN {MetaFinding(rule, u, detail)} ELSE {}

MetaTitleMissing(f, u) ==
  When(Judged(f, u) /\ f.pages[u].title.text = No, "META-TITLE-MISSING", u, 0)

MetaTitleTooLong(f, u) ==
  LET t == f.pages[u].title IN
  When(Judged(f, u) /\ t.text # No /\ (222 * t.narrow + 1000 * t.wide) * 20 > TitleMaxPx * 1000,
       "META-TITLE-TOO-LONG", u, WidthPx(t, 20))

MetaTitleTooShort(f, u) ==
  LET t == f.pages[u].title IN
  When(Judged(f, u) /\ t.text # No /\ Chars(t) < TitleMinChars, "META-TITLE-TOO-SHORT", u, Chars(t))

MetaTitleMultiple(f, u) ==
  When(Judged(f, u) /\ f.pages[u].titles > 1, "META-TITLE-MULTIPLE", u, f.pages[u].titles)

MetaDescMissing(f, u) ==
  When(Judged(f, u) /\ f.pages[u].desc.text = No, "META-DESC-MISSING", u, 0)

MetaDescTooLong(f, u) ==
  LET d == f.pages[u].desc IN
  When(Judged(f, u) /\ d.text # No /\ (222 * d.narrow + 1000 * d.wide) * 14 > DescMaxPx * 1000,
       "META-DESC-TOO-LONG", u, WidthPx(d, 14))

MetaDescTooShort(f, u) ==
  LET d == f.pages[u].desc IN
  When(Judged(f, u) /\ d.text # No /\ Chars(d) < DescMinChars, "META-DESC-TOO-SHORT", u, Chars(d))

MetaViewportMissing(f, u) ==
  When(Judged(f, u) /\ ~f.pages[u].viewport, "META-VIEWPORT-MISSING", u, 0)

MetaRefresh(f, u) == When(Judged(f, u) /\ f.pages[u].refresh, "META-REFRESH", u, 0)

(* Tags of the head that a browser reads in the body.                       *)
MetaOutsideHead(f, u) ==
  IF f.pages[u].html /\ Is2xx(f.urls[u].status) /\ f.pages[u].outsideHead # {}
  THEN {Finding("META-OUTSIDE-HEAD", "high", u, 0, <<"outside-head", f.pages[u].outsideHead>>)} ELSE {}

MetaPageRules(f, u) ==
  MetaTitleMissing(f, u) \cup MetaTitleTooLong(f, u) \cup MetaTitleTooShort(f, u) \cup MetaTitleMultiple(f, u)
  \cup MetaDescMissing(f, u) \cup MetaDescTooLong(f, u) \cup MetaDescTooShort(f, u)
  \cup MetaViewportMissing(f, u) \cup MetaRefresh(f, u) \cup MetaOutsideHead(f, u)

(* ---- site rules ---- *)

(* /blog, /blog/page/2 and /blog/page/3 are one series: the same base, with *)
(* some page of it numbered.                                                *)
OneSeries(f, us) ==
  /\ Cardinality({f.text[u].series : u \in us}) = 1
  /\ \E u \in us : f.text[u].numbered

Titled(f, t) == {u \in Indexable(f) : f.pages[u].title.text = t}

MetaTitleDuplicate(f) ==
  UNION {LET us == Titled(f, t) IN
         {Finding("META-TITLE-DUPLICATE", IF OneSeries(f, us) THEN "low" ELSE "high", u, Cardinality(us), <<"title", {t}>>) :
            u \in {v \in us : Cardinality(us) > 1}} :
         t \in {f.pages[u].title.text : u \in Indexable(f)} \ {No}}

MetaDescDuplicate(f) ==
  LET same(u) == {v \in Indexable(f) : f.pages[v].desc.text = f.pages[u].desc.text}
  IN {Finding("META-DESC-DUPLICATE", "medium", u, Cardinality(same(u)), <<"desc", {f.pages[u].desc.text}>>) :
        u \in {v \in Indexable(f) : f.pages[v].desc.text # No /\ Cardinality(same(v)) > 1}}

MetaSiteRules(f) == MetaTitleDuplicate(f) \cup MetaDescDuplicate(f)
=============================================================================
