------------------------------- MODULE Report -------------------------------
(***************************************************************************)
(* crawlforge report: a crawl file is read, with the configuration it holds *)
(* or the one that is given, and told: what was fetched, what holes the     *)
(* crawl has, one line for each rule and severity, and the URLs of a rule   *)
(* (audit_report.rs, report.rs).  Findings of one cause on many pages are   *)
(* one line, and nothing of them may be lost by that.  Wording, order and   *)
(* layout are left out.                                                     *)
(***************************************************************************)
EXTENDS Inspect

CONSTANTS TemplateMin,       \* pages of a group that are a template's fault
          TemplateFloor,     \* the fewest that are, of a small crawl
          PervasiveMin       \* pages of a rule that are the site's fault

ASSUME ReportAssumption == {TemplateMin, TemplateFloor, PervasiveMin} \subseteq Nat /\ TemplateFloor <= TemplateMin

(* The findings of a crawl as a command that reads one file sees them.      *)
ReadBy(crawl, choice) == Read(crawl, ChosenRules(crawl, crawl, choice))

-----------------------------------------------------------------------------
(* What became of the URLs. *)

Families == {2, 3, 4, 5}
FamilyOf(code) == IF code < 300 THEN 2 ELSE IF code < 400 THEN 3 ELSE IF code < 500 THEN 4 ELSE 5

ResponseBreakdown(f) ==
  LET of(n, us) == {u \in us : Answered(f, u) /\ FamilyOf(f.urls[u].status) = n}
      unanswered == {u \in Rows(f) : ~Answered(f, u)}
  IN [internal |-> [n \in Families |-> Cardinality(of(n, Internal(f)))],
      external |-> [n \in Families |-> Cardinality(of(n, Rows(f) \ Internal(f)))],
      noResponse |-> Cardinality({u \in unanswered : f.urls[u].state = "error"}),
      neverRequested |-> Cardinality({u \in Rows(f) : f.urls[u].state = "pending"}),
      outOfScope |-> Cardinality({u \in unanswered \cap Internal(f) :
                                    f.urls[u].state = "skipped" /\ f.urls[u].reason = NoText /\ f.urls[u].error = NoText})]

ExcludedLines(f) ==
  LET excluded == {u \in Rows(f) : f.urls[u].state = "excluded" /\ f.urls[u].reason # NoText}
      reasons == {f.urls[u].reason : u \in excluded}
  IN [r \in reasons |-> Cardinality({u \in excluded : f.urls[u].reason = r})]

NotIndexable(f) ==
  LET barred == Pages(f) \ Indexable(f) IN
  [why \in {f.pages[u].why : u \in barred} |-> Cardinality({u \in barred : f.pages[u].why = why})]

Totals(f) ==
  [urls |-> Cardinality(Rows(f)), internal |-> Cardinality(Internal(f)), pages |-> Cardinality(Pages(f)),
   indexable |-> Cardinality(Indexable(f)), links |-> Cardinality(f.links),
   errors |-> Cardinality({u \in Rows(f) : f.urls[u].status >= 400})]

-----------------------------------------------------------------------------
(* The holes of a crawl. *)

(* External URLs that nobody asked for, and those that nobody could.        *)
Unasked(f) == {u \in Rows(f) \ Internal(f) : f.urls[u].state = "skipped" /\ ~Answered(f, u) /\ f.urls[u].error = NoText}
Offline(f) ==
  {u \in Unasked(f) : f.urls[u].reason = "no_network" \/ (f.urls[u].reason = NoText /\ f.mode = "filesystem")}
Unchecked(f) == {u \in Unasked(f) : f.urls[u].reason = NoText}

ExternalNote(crawl, checks) ==
  IF ~checks THEN "check_disabled"
  ELSE IF Offline(crawl.file) # {} THEN "offline"
  ELSE IF Unchecked(crawl.file) = {} THEN NoText
  ELSE IF crawl.truncated # NoText THEN "never_checked" ELSE "over_the_cap"

TruncationNote(crawl) ==
  CASE crawl.truncated = NoText -> NoText [] crawl.truncated = "list_mode" -> "list_mode"
    [] crawl.truncated = "rate_limited" -> "pages_refused" [] OTHER -> "cut"
SilencedRules(crawl) == IF crawl.truncated \notin {NoText, "list_mode"} THEN NeedsWholeGraph ELSE {}

-----------------------------------------------------------------------------
(* The findings. *)

TemplateGroup(pages, total) ==
  \/ pages >= TemplateMin
  \/ pages >= TemplateFloor /\ total > 0 /\ pages * 100 >= total * 80
Pervasive(pages, total) == pages >= PervasiveMin /\ total > 0 /\ pages * 100 >= total * 40
SharePct(affected, total) == IF total <= 0 THEN 0 ELSE (200 * affected + total) \div (2 * total)

(* The groups of findings, of a rule or of a rule in a severity, that are a *)
(* template's.                                                              *)
Located(i) == i.url # No
Grouped(i) == i.group # NoGroup
GroupSize(findings, group) == Cardinality({i \in findings : Located(i) /\ i.group = group})
TemplateKeys(f, findings) ==
  {g \in {i.group : i \in {j \in findings : Located(j) /\ Grouped(j)}} :
     TemplateGroup(GroupSize(findings, g), Cardinality(Pages(f)))}

(* What is left out of those groups: other groups, and what has none.       *)
OutsideUngrouped(findings, keys) == {i \in findings : ~Located(i) \/ ~Grouped(i)}
Outside(findings, keys) == {i \in findings : ~Located(i) \/ ~Grouped(i) \/ i.group \notin keys}
PagesInGroups(findings, keys) == {i.url : i \in {j \in findings : Located(j) /\ j.group \in keys}}
AffectedPages(f, findings) == {i.url : i \in findings} \cap Pages(f)

OfRule(findings, r) == {i \in findings : i.rule = r}
OfLine(findings, r, severity) == {i \in findings : i.rule = r /\ i.severity = severity}
FindingsLine(f, findings, r, severity) ==
  LET found == OfLine(findings, r, severity)
      keys == TemplateKeys(f, found)
      pages == Cardinality(AffectedPages(f, found))
      pervasive == keys = {} /\ Pervasive(pages, Cardinality(Pages(f)))
  IN [rule |-> r, severity |-> severity, total |-> Cardinality(found), templates |-> Cardinality(keys),
      collapsed |-> Cardinality(PagesInGroups(found, keys)),
      rest |-> IF keys = {} THEN 0 ELSE Cardinality(Outside(found, keys)),
      percent |-> IF pervasive THEN SharePct(pages, Cardinality(Pages(f))) ELSE 0,
      shape |-> IF pervasive /\ r = "INDEX-DEEP-PAGE" THEN <<DeepPageShape(findings)>> ELSE <<>>]
FindingsLines(f, findings) ==
  {FindingsLine(f, findings, k[1], k[2]) : k \in {<<i.rule, i.severity>> : i \in findings}}

(* What a report shows, in the terminal or as a document.                   *)
Summary(crawl, choice, checks) ==
  LET f == crawl.file IN
  [totals |-> Totals(f), responses |-> ResponseBreakdown(f), excluded |-> ExcludedLines(f), barred |-> NotIndexable(f),
   notes |-> [cut |-> TruncationNote(crawl), silenced |-> SilencedRules(crawl), external |-> ExternalNote(crawl, checks),
              rules |-> ChosenRules(crawl, crawl, choice) # NoRules],
   lines |-> FindingsLines(f, ReadBy(crawl, choice))]

(* report --rule: the deep pages by their depth, or the pages of each group *)
(* that is a template's in some severity, whichever the severity of their   *)
(* finding, and then the rest, each URL once and each finding without one.  *)
RuleUrls(f, findings, r) ==
  LET found == OfRule(findings, r)
      severities == {i.severity : i \in found}
      keys == UNION {TemplateKeys(f, OfLine(findings, r, s)) : s \in severities}
      rest == {i \in found : ~(Located(i) /\ i.group \in keys)}
      deep == r = "INDEX-DEEP-PAGE"
  IN [distinct |-> Cardinality({i.url : i \in {j \in found : Located(j)}}) + Cardinality({i \in found : ~Located(i)}),
      byDepth |-> IF deep THEN {<<i.detail, i.url>> : i \in found} ELSE {},
      groups |-> IF deep THEN <<>> ELSE [g \in keys |-> {i.url : i \in {j \in found : Located(j) /\ j.group = g}}],
      rest |-> IF deep THEN {} ELSE {i.url : i \in {j \in rest : Located(j)}},
      siteWide |-> IF deep THEN 0 ELSE Cardinality({i \in rest : ~Located(i)})]

-----------------------------------------------------------------------------
(* Properties. *)

(* A list says that it was cut exactly when it does not show all it counts, *)
(* and nothing is left out of it before what it shows.                      *)
InAll(list) == MapThenSumSet(LAMBDA l : l.count, list.lines)
ListIsHonest(list, whole) ==
  /\ list.lines \subseteq whole.lines
  /\ list.cut <=> InAll(list) < InAll(whole)
  /\ \A l \in whole.lines \ list.lines : \A k \in list.lines : Precedes(k.rank, l.rank)

(* The cards of the URLs and the report are about one crawl: the findings   *)
(* at a URL, the links in and the links out, the URLs that wait, failed,    *)
(* are of another site or were not asked for are as many in all cards as in *)
(* the report; a cut list says so and has what is broken first; and a card  *)
(* tells a loop that the rules tell.                                        *)
CardsAgree(f, findings, told) ==
  LET cards == {Card(f, findings, u, No) : u \in Rows(f)}
      Sum(Of(_)) == MapThenSumSet(Of, cards)
      noted(notes) == {c.of : c \in {d \in cards : d.note \in notes}}
  IN /\ Sum(LAMBDA c : MapThenSumSet(LAMBDA k : c.findings[k], DOMAIN c.findings)) = Cardinality({i \in findings : Located(i)})
     /\ Sum(LAMBDA c : c.inlinks.total) = told.totals.links
     /\ Sum(LAMBDA c : c.outlinks.internal + c.outlinks.external) = told.totals.links
     /\ Sum(LAMBDA c : c.images.total) = Sum(LAMBDA c : c.usage.total)
     /\ Cardinality(noted({"pending"})) = told.responses.neverRequested
     /\ Cardinality(noted({"error"})) = told.responses.noResponse
     /\ Cardinality(noted({"out_of_scope"})) = told.responses.outOfScope
     /\ noted({"external_not_checked", "external_unchecked"}) = Unasked(f)
     /\ \A c \in cards :
          LET walk == Walk(f, c.of) IN
          c.of \in Redirects(f) =>
            /\ walk.end = "loop" => c.trail.end = "loop"
            /\ c.trail.end = "loop" => walk.end = "loop" \/ Len(c.trail.path) = MaxTrail

(* Of what a URL links to, and of what links to it.                         *)
ListsAreHonest(f, u, limit) ==
  LET in == InlinksSection(f, u, limit).list
      out == OutlinksSection(f, u, limit).list
      allOut == OutlinksSection(f, u, No).list
  IN /\ ListIsHonest(in, InlinksSection(f, u, No).list)
     /\ ListIsHonest(out, allOut)
     /\ out.cut /\ (\E l \in out.lines : ~Broken(f, l.about)) => \A l \in allOut.lines : Broken(f, l.about) => l \in out.lines

(* What a report says of a crawl, whole or not, adds up: every URL of the   *)
(* site is in one drawer, the findings of the templates and the rest of a   *)
(* line are its total, the list of a rule has every URL with a finding of   *)
(* it, and no other, and as many lines of its own as it announces; and the  *)
(* cards of the URLs agree with it.                                         *)
ReportAddsUp ==
  phase = "idle" /\ diff = NoDiff =>
    /\ \A u \in Rows(file), limit \in ListLimits : ListsAreHonest(file, u, limit)
    /\ \A choice \in GivenRules :
      LET findings == ReadBy(Current, choice)
          told == Summary(Current, choice, TRUE)
          responses == told.responses
          excluded == told.excluded
      IN /\ Cardinality(Internal(file))
            = MapThenSumSet(LAMBDA n : responses.internal[n], Families) + responses.noResponse + responses.neverRequested
              + responses.outOfScope + MapThenSumSet(LAMBDA why : excluded[why], DOMAIN excluded)
         /\ \A line \in told.lines :
              LET found == OfLine(findings, line.rule, line.severity) IN
              line.templates > 0 =>
                line.total = line.rest + Cardinality({i \in found : Located(i) /\ i.group \in TemplateKeys(file, found)})
         /\ \A r \in {i.rule : i \in findings} :
              LET list == RuleUrls(file, findings, r)
                  found == OfRule(findings, r)
                  shown == {p[2] : p \in list.byDepth} \cup (UNION {list.groups[g] : g \in DOMAIN list.groups}) \cup list.rest
              IN /\ shown = {i.url : i \in found} \ {No}
                 /\ list.distinct = Cardinality(shown) + list.siteWide
         /\ CardsAgree(file, findings, told)
=============================================================================
