------------------------------ MODULE Portfolio ------------------------------
(***************************************************************************)
(* crawlforge portfolio: the panel over many crawl files (portfolio.rs).  A *)
(* file of a folder is a record [name, fault, inFolder, crawl, prev,        *)
(* version, day]: fault is "" for one that reads as a crawl, "previous" for *)
(* a .prev.sqlite, or why it cannot be read; prev is {} or holds the crawl  *)
(* that is beside it; version is that of its rules and core.  The panel is  *)
(* over the file of Audit, with a crawl it is compared with, and the files  *)
(* that site.beside holds; it writes nothing.  A crawl of a list has one    *)
(* site for each authority of the list, any other has one.                  *)
(***************************************************************************)
EXTENDS Report

MaxDateSpreadDays == 7

-----------------------------------------------------------------------------
(* The files. *)

(* A previous crawl is never an input: in a folder it is passed over, and   *)
(* when it is given it is refused, as what cannot be read.                  *)
Inputs(given) == {x \in given : x.fault = NoText}
Refused(given) == {<<x.name, x.fault>> : x \in {y \in given : y.fault # NoText /\ ~(y.inFolder /\ y.fault = "previous")}}

AuditedSites(f) == IF f.mode # "list" THEN {} ELSE {f.text[u].authority : u \in f.seeds \cap Internal(f)}
AtLeastOne(n) == IF n = 0 THEN 1 ELSE n
SiteCount(f) == AtLeastOne(Cardinality(AuditedSites(f)))

(* On how many of the sites of a file a rule fires: those that a finding of *)
(* it is at, and one if it is at none of them.                              *)
FiredBySite(f, found) ==
  AtLeastOne(Cardinality({f.text[i.url].authority : i \in {j \in found : Located(j)}} \cap AuditedSites(f)))
FiredOn(f, findings, r) ==
  LET found == OfRule(findings, r) IN
  IF found = {} THEN 0 ELSE IF Cardinality(AuditedSites(f)) > 1 THEN FiredBySite(f, found) ELSE 1

ReadSite(x, choice) ==
  LET f == x.crawl.file
      findings == ReadBy(x.crawl, choice)
      fired == {i.rule : i \in findings}
  IN [name |-> x.name, day |-> x.day, version |-> x.version, prev |-> x.prev, crawl |-> x.crawl,
      siteCount |-> SiteCount(f), incomplete |-> Incomplete(x.crawl), truncated |-> x.crawl.truncated, status |-> x.crawl.status,
      urls |-> Cardinality(Universe(x.crawl)), indexable |-> Cardinality(Indexable(f)),
      severities |-> [s \in ToSet(Severities) |-> Cardinality({i \in findings : i.severity = s})],
      worst |-> [r \in fired |-> CHOOSE s \in ToSet(Severities) :
                   /\ OfLine(findings, r, s) # {}
                   /\ \A i \in OfRule(findings, r) : Rank(s) <= Rank(i.severity)],
      findings |-> [r \in fired |-> Cardinality(OfRule(findings, r))],
      firedOn |-> [r \in fired |-> FiredOn(f, findings, r)],
      rules |-> ChosenRules(x.crawl, x.crawl, choice)]

SitesOf(summary, r) == IF r \in DOMAIN summary.firedOn THEN summary.firedOn[r] ELSE 0
SiteTotal(summaries) == MapThenSumSet(LAMBDA s : s.siteCount, summaries)

-----------------------------------------------------------------------------
(* Warnings. *)

(* Days of the calendar, counted as the code does, from a date <<y, m, d>>. *)
CivilDay(day) ==
  LET y == IF day[2] <= 2 THEN day[1] - 1 ELSE day[1]
      era == y \div 400
      yoe == y - era * 400
      doy == (153 * (IF day[2] > 2 THEN day[2] - 3 ELSE day[2] + 9) + 2) \div 5 + day[3] - 1
  IN era * 146097 + yoe * 365 + yoe \div 4 - yoe \div 100 + doy - 719468
DaySpread(summaries) ==
  LET days == {CivilDay(s.day) : s \in summaries}
  IN (CHOOSE d \in days : \A e \in days : e <= d) - (CHOOSE d \in days : \A e \in days : d <= e)

PanelWarnings(summaries, choice) ==
  LET when(condition, kind) == IF condition THEN {kind} ELSE {}
      configured == {s \in summaries : s.rules # NoRules}
  IN when(Cardinality({s.version : s \in summaries}) > 1, "mixed_versions")
     \cup when(DaySpread(summaries) > MaxDateSpreadDays, "date_spread")
     \cup when(configured # {}, IF choice = {} THEN "sites_configured" ELSE "rules_given")

-----------------------------------------------------------------------------
(* What fails everywhere. *)

(* A rule that needs the whole graph was not evaluated where the crawl is   *)
(* not whole: there its absence says nothing.                               *)
InDoubtCut(summaries, r) ==
  IF r \notin NeedsWholeGraph THEN 0
  ELSE MapThenSumSet(LAMBDA s : s.siteCount - SitesOf(s, r), {s \in summaries : s.truncated # NoText})
InDoubt(summaries, r) ==
  IF r \notin NeedsWholeGraph THEN 0
  ELSE MapThenSumSet(LAMBDA s : s.siteCount - SitesOf(s, r), {s \in summaries : s.incomplete})

RuleSpread(summaries) ==
  {LET firing == {s \in summaries : r \in DOMAIN s.findings} IN
   [rule |-> r,
    severity |-> CHOOSE v \in {s.worst[r] : s \in firing} : \A s \in firing : Rank(v) <= Rank(s.worst[r]),
    fired |-> MapThenSumSet(LAMBDA s : SitesOf(s, r), firing),
    findings |-> MapThenSumSet(LAMBDA s : s.findings[r], firing),
    inconclusive |-> InDoubt(summaries, r)] : r \in UNION {DOMAIN s.findings : s \in summaries}}

-----------------------------------------------------------------------------
(* What changed. *)

Pairs(summaries) == UNION {s.prev \X {s} : s \in summaries}
Aggregated(s, outcome) ==
  LET new == OfType(outcome.changes, {"issue_appeared"})
      grave == {c \in new : Rank(c[6]) <= Rank("high")}
  IN [name |-> s.name, siteCount |-> s.siteCount, conclusive |-> Conclusive(outcome.warnings),
      grave |-> [k \in {<<c[6], c[3]>> : c \in grave} |-> Cardinality({c \in grave : <<c[6], c[3]>> = k})],
      newOther |-> Cardinality(new \ grave),
      resolved |-> Cardinality(OfType(outcome.changes, {"issue_resolved"})),
      urlsAdded |-> Cardinality(OfType(outcome.changes, {"url_added"})),
      urlsRemoved |-> Cardinality(OfType(outcome.changes, {"url_removed"})),
      statusWorse |-> Cardinality({c \in OfType(outcome.changes, {"status_changed"}) : StatusRank(c[5]) > StatusRank(c[4])}),
      indexabilityLost |-> Cardinality(OfType(outcome.changes, {"indexability_lost"}))]
ChangesOf(summaries, choice) ==
  {Aggregated(p[2], CompareWithRules(p[1], p[2].crawl, choice)) : p \in {q \in Pairs(summaries) : SameOrigin(q[1], q[2].crawl)}}
PairsFailed(summaries) == {<<p[2].name, "pair_failed">> : p \in {q \in Pairs(summaries) : ~SameOrigin(q[1], q[2].crawl)}}

-----------------------------------------------------------------------------
(* The panel. *)

CompletenessFlag(summary) ==
  CASE summary.truncated = "list_mode" -> "list_mode" [] summary.truncated \notin {NoText, "list_mode"} -> "truncated"
    [] summary.truncated = NoText -> IF summary.status = "done" THEN NoText ELSE summary.status

(* Without any file that reads there is no panel.                           *)
Panel(given, choice) ==
  LET summaries == {ReadSite(x, choice) : x \in Inputs(given)} IN
  [total |-> SiteTotal(summaries), warnings |-> PanelWarnings(summaries, choice),
   skipped |-> Refused(given) \cup PairsFailed(summaries),
   spread |-> RuleSpread(summaries), changes |-> ChangesOf(summaries, choice),
   glance |-> {[name |-> s.name, urls |-> s.urls, indexable |-> s.indexable, severities |-> s.severities,
                day |-> s.day, flag |-> CompletenessFlag(s)] : s \in summaries}]

(* The files of this panel: that of Audit has with it one of those it was.  *)
Today == <<2026, 3, 2>>
Here(prev) ==
  [name |-> "here", fault |-> NoText, inFolder |-> TRUE, crawl |-> Current, prev |-> prev, version |-> 1, day |-> Today]
Folders == {site.beside \cup {Here(prev)} : prev \in {{}} \cup {{a} : a \in site.was}}

-----------------------------------------------------------------------------
(* Properties. *)

(* The sites of a file that a whole crawl finds clean of a rule, and for    *)
(* the file of Audit that is one of the same site as it is.  A list is no   *)
(* whole crawl of its sites, for a rule of the graph.                       *)
Truth(x) == IF x.name # "here" THEN x.crawl ELSE CHOOSE a \in site.was : a.docs = site.docs
TrulyClean(x, r, choice) ==
  LET found == OfRule(Read(Truth(x), ChosenRules(x.crawl, x.crawl, choice)), r)
      sites == AuditedSites(x.crawl.file)
  IN CASE sites = {} -> IF found = {} THEN 1 ELSE 0
       [] sites # {} /\ r \in NeedsWholeGraph -> 0
       [] OTHER -> Cardinality(sites \ {x.crawl.file.text[i.url].authority : i \in {j \in found : Located(j)}})

(* The panel counts sites: those where a rule fires, those where it could   *)
(* not tell, and the others, which are clean of it: a rule of the graph is  *)
(* told clean of no site that is not, whichever way its crawl was cut, died *)
(* or was one of a list.  Its findings by rule are its findings by site,    *)
(* and every file is told, or told why it is not.                           *)
PanelCountsSites ==
  phase = "idle" /\ site.beside # {} =>
    \A choice \in GivenRules, given \in Folders :
      LET panel == Panel(given, choice) IN
      /\ \A row \in panel.spread :
           /\ row.fired + row.inconclusive <= panel.total
           /\ row.rule \in NeedsWholeGraph =>
                panel.total - row.fired - row.inconclusive
                <= MapThenSumSet(LAMBDA x : TrulyClean(x, row.rule, choice), Inputs(given))
      /\ MapThenSumSet(LAMBDA row : row.findings, panel.spread)
         = MapThenSumSet(LAMBDA line : MapThenSumSet(LAMBDA s : line.severities[s], DOMAIN line.severities), panel.glance)
      /\ \A x \in given : x.fault # NoText => (x.name \in {p[1] : p \in panel.skipped} <=> ~(x.inFolder /\ x.fault = "previous"))

=============================================================================
