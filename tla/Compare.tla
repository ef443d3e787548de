------------------------------- MODULE Compare -------------------------------
(***************************************************************************)
(* crawlforge diff: two crawl files of a site are compared, and the         *)
(* comparison is written to a file that can be opened again (diff.rs,       *)
(* diff_file.rs, rule_config.rs).  A crawl here is its file with its        *)
(* findings, status, truncated_reason, and the `rules:` block it stores:    *)
(* [disable, severity].  The file of Audit is compared with finished crawls *)
(* of the same site, or of what the site was: those that site.was holds.    *)
(***************************************************************************)
EXTENDS Audit

CONSTANTS GivenRules,    \* what --config may give: {rules}, or {} for none
          FailOn         \* tokens of --fail-on: rules and severities

VARIABLES diff,          \* the comparison a command holds in memory, or NoDiff
          saved          \* the diff file on disk, or NoDiff

(* A file that was written has finitely many rows.                          *)
ASSUME CompareAssumption ==
  \A s \in Sites : \A a \in s.was : IsFiniteSet(DOMAIN a.file.urls) /\ IsFiniteSet(a.issues)

compareVars == <<diff, saved>>
NoDiff == [changes |-> {}]

-----------------------------------------------------------------------------
(* Findings as they are read. *)

NoRules == [disable |-> {}, severity |-> <<>>]

(* The findings with a configuration applied, and what a comparison sees of *)
(* them: all but their detail.                                              *)
Read(crawl, rules) ==
  {[i EXCEPT !.severity = IF i.rule \in DOMAIN rules.severity THEN rules.severity[i.rule] ELSE @] :
     i \in {j \in crawl.issues : j.rule \notin rules.disable}}
Configured(crawl, rules) ==
  {[rule |-> i.rule, url |-> i.url, group |-> i.group, severity |-> i.severity] : i \in Read(crawl, rules)}

(* One configuration for both sides: that of the later file, or the one     *)
(* that was given.                                                          *)
OwnRules(crawl, after, choice) == IF choice = {} THEN crawl.rules ELSE CHOOSE r \in choice : TRUE
ChosenRules(crawl, after, choice) == IF choice = {} THEN after.rules ELSE CHOOSE r \in choice : TRUE

-----------------------------------------------------------------------------
(* The comparison. *)

Incomplete(crawl) == crawl.truncated # NoText \/ crawl.status # "done"
SameOrigin(a, b) == a.file.text[a.file.base].authority = b.file.text[b.file.base].authority

(* What is told before anything else, and whether it leaves the diff in     *)
(* doubt.                                                                   *)
SideWarnings(crawl, side) ==
  IF crawl.truncated # NoText THEN {<<"truncated", side, crawl.truncated>>}
  ELSE IF crawl.status # "done" THEN {<<"unfinished", side, crawl.status>>} ELSE {}
Warnings(a, b, choice) ==
  LET when(condition, kind) == IF condition THEN {<<kind, NoText, NoText>>} ELSE {} IN
  SideWarnings(a, "before") \cup SideWarnings(b, "after")
  \cup when(a.file.mode # b.file.mode, "mode_changed")
  \cup when(a.file.base # b.file.base, "scope_changed")
  \cup when(a.file.asksSitemaps # b.file.asksSitemaps, "config_changed")
  \cup when(ChosenRules(a, b, choice) # NoRules \/ a.rules # b.rules, "rules_config")
Conclusive(warnings) == \A w \in warnings : w[1] \notin {"truncated", "unfinished"}

(* A change: its type, what it is about, the field, both values, severity.  *)
Change(type, u, field, before, after, severity) == <<type, u, field, before, after, severity>>
OfType(changes, types) == {c \in changes : c[1] \in types}

Universe(crawl) == {u \in Internal(crawl.file) : crawl.file.urls[u].state # "pending"}
StatusOf(crawl, u) == crawl.file.urls[u].status

UrlsGone(a, b) == {Change("url_removed", u, "status_code", StatusOf(a, u), 0, NoText) : u \in Universe(a) \ Universe(b)}
UrlsNewInFile(a, b) ==
  {Change("url_added", u, "status_code", 0, StatusOf(b, u), NoText) : u \in Universe(b) \ Rows(a.file)}
UrlsNew(a, b) == {Change("url_added", u, "status_code", 0, StatusOf(b, u), NoText) : u \in Universe(b) \ Universe(a)}
StatusChanges(a, b) ==
  {Change("status_changed", u, "status_code", StatusOf(a, u), StatusOf(b, u), NoText) :
     u \in {v \in Universe(a) \cap Universe(b) : StatusOf(a, v) # StatusOf(b, v)}}

(* Title, description, canonical and whether it may be indexed: no other    *)
(* column of a page is compared, and the reason only as the value of a      *)
(* change.                                                                  *)
PageChanges(a, b) ==
  LET both == Pages(a.file) \cap Pages(b.file)
      of(type, field, value(_)) ==
        {Change(type, u, field, value(a.file.pages[u]), value(b.file.pages[u]), NoText) :
           u \in {v \in both : value(a.file.pages[v]) # value(b.file.pages[v])}}
      why(p) == IF p.indexable THEN "indexable" ELSE p.why
      turned(type, was) ==
        {Change(type, u, "indexability_reason", why(a.file.pages[u]), why(b.file.pages[u]), NoText) :
           u \in {v \in both : a.file.pages[v].indexable = was /\ b.file.pages[v].indexable = ~was}}
  IN of("title_changed", "title", LAMBDA p : p.title.text)
     \cup of("meta_description_changed", "meta_description", LAMBDA p : p.desc.text)
     \cup of("canonical_changed", "canonical", LAMBDA p : p.canonical)
     \cup turned("indexability_lost", TRUE) \cup turned("indexability_gained", FALSE)

(* The same finding: rule, URL and group; a side without a group, as older  *)
(* versions wrote it, matches any.                                          *)
SameFinding(i, j) == i.rule = j.rule /\ i.url = j.url /\ (i.group = j.group \/ NoGroup \in {i.group, j.group})
NotIn(findings, others) == {i \in findings : \A j \in others : ~SameFinding(i, j)}
Appeared(is, js) == {Change("issue_appeared", j.url, j.rule, NoGroup, j.group, j.severity) : j \in NotIn(js, is)}
Resolved(is, js) == {Change("issue_resolved", i.url, i.rule, i.group, NoGroup, i.severity) : i \in NotIn(is, js)}
Persisted(is, js) == Cardinality({p \in is \X js : SameFinding(p[1], p[2])})

(* <<>> where a side has no row.                                            *)
RobotsChanges(a, b) ==
  LET value(crawl, h, field) == IF h \in DOMAIN crawl.file.robots THEN <<crawl.file.robots[h][field]>> ELSE <<>>
      changed == {p \in (DOMAIN a.file.robots \cup DOMAIN b.file.robots) \X {"blocksAll", "status", "content"} :
                    value(a, p[1], p[2]) # value(b, p[1], p[2])}
  IN {Change("robots_txt_changed", p[1], p[2], value(a, p[1], p[2]), value(b, p[1], p[2]),
             IF p[2] = "blocksAll" /\ value(b, p[1], p[2]) = <<TRUE>> THEN "critical" ELSE NoText) : p \in changed}

SitemapChanges(a, b) ==
  LET row(crawl, id) == {s \in crawl.file.sitemaps : s.id = id}
      the(crawl, id) == CHOOSE s \in row(crawl, id) : TRUE
      ids == {s.id : s \in a.file.sitemaps \cup b.file.sitemaps}
      both == {id \in ids : row(a, id) # {} /\ row(b, id) # {}}
  IN {Change("sitemap_changed", id, "present", <<row(a, id) # {}>>, <<row(b, id) # {}>>, NoText) : id \in ids \ both}
     \cup {Change("sitemap_changed", p[1], p[2], <<the(a, p[1])[p[2]]>>, <<the(b, p[1])[p[2]]>>, NoText) :
             p \in {q \in both \X {"status", "valid", "urls"} : the(a, q[1])[q[2]] # the(b, q[1])[q[2]]}}

(* The gate: the findings that are new, by rule and severity.               *)
Severities == <<"critical", "high", "medium", "low", "info">>
Rank(severity) == CHOOSE n \in DOMAIN Severities : Severities[n] = severity
CatchesWorse(token, change) ==
  IF token \in ToSet(Severities) THEN Rank(change[6]) < Rank(token) ELSE change[3] = token
Catches(token, change) ==
  IF token \in ToSet(Severities) THEN Rank(change[6]) <= Rank(token) ELSE change[3] = token
GateHits(changes) ==
  {<<p[1], p[2][3], p[2][6]>> : p \in {q \in FailOn \X OfType(changes, {"issue_appeared"}) : Catches(q[1], q[2])}}

(* Of an incomplete side nothing is told that its absences would say: those *)
(* are counted apart.                                                       *)
ToldUnless(doubt, changes) == IF doubt THEN {} ELSE changes
CountedIf(doubt, changes) == IF doubt THEN Cardinality(changes) ELSE 0
CompareWithRules(a, b, choice) ==
  LET is == Configured(a, ChosenRules(a, b, choice))
      js == Configured(b, ChosenRules(b, b, choice))
      changes == ToldUnless(Incomplete(a), UrlsNew(a, b)) \cup ToldUnless(Incomplete(b), UrlsGone(a, b))
                 \cup StatusChanges(a, b) \cup PageChanges(a, b)
                 \cup ToldUnless(Incomplete(a), Appeared(is, js)) \cup ToldUnless(Incomplete(b), Resolved(is, js))
                 \cup RobotsChanges(a, b) \cup SitemapChanges(a, b)
  IN [changes |-> changes, warnings |-> Warnings(a, b, choice),
      common |-> Cardinality(Universe(a) \cap Universe(b)), persisted |-> Persisted(is, js),
      suppressed |-> [urlsAdded |-> CountedIf(Incomplete(a), UrlsNew(a, b)),
                      urlsRemoved |-> CountedIf(Incomplete(b), UrlsGone(a, b)),
                      appeared |-> CountedIf(Incomplete(a), Appeared(is, js)),
                      resolved |-> CountedIf(Incomplete(b), Resolved(is, js))],
      truncated |-> <<a.truncated # NoText, b.truncated # NoText>>,
      failOn |-> GateHits(changes), inconclusive |-> FailOn # {} /\ Incomplete(a)]

(* What a summary says went worse, went better, or merely changed.          *)
StatusRank(code) ==
  CASE Is2xx(code) -> 0 [] Is3xx(code) -> 1 [] Is4xx(code) -> 2 [] code = 0 -> 4 [] OTHER -> 3
Worse(changes) ==
  OfType(changes, {"issue_appeared", "indexability_lost", "robots_txt_changed"})
  \cup {c \in OfType(changes, {"status_changed"}) : StatusRank(c[5]) > StatusRank(c[4])}
Better(changes) ==
  OfType(changes, {"issue_resolved", "indexability_gained"})
  \cup {c \in OfType(changes, {"status_changed"}) : StatusRank(c[5]) < StatusRank(c[4])}

-----------------------------------------------------------------------------
(* The command, and its file. *)

(* The file of Audit as a crawl, and a finished crawl of a whole site.      *)
Current ==
  [docs |-> site.docs, file |-> file, issues |-> BagToSet(issues), status |-> status, truncated |-> truncated, rules |-> site.rules]
Finished(s) ==
  LET f == Whole(s) IN
  [docs |-> s.docs, file |-> f, issues |-> FindingsOf(f, FALSE), status |-> "done", truncated |-> NoText, rules |-> s.rules]

CompareInit == Init /\ diff = NoDiff /\ saved = NoDiff
AuditStep == Next /\ diff = NoDiff /\ UNCHANGED compareVars

(* diff --out: the old file goes, and the new one has its one row of        *)
(* diff_meta before its changes.                                            *)
WriteMeta ==
  /\ phase = "idle" /\ diff = NoDiff
  /\ \E a \in site.was, choice \in GivenRules :
       /\ SameOrigin(a, Current)
       /\ diff' = CompareWithRules(a, Current, choice)
       /\ saved' = [changes |-> {}, warnings |-> diff'.warnings, conclusive |-> Conclusive(diff'.warnings),
                    truncated |-> diff'.truncated, common |-> diff'.common, persisted |-> diff'.persisted,
                    suppressed |-> diff'.suppressed]
  /\ UNCHANGED vars

WriteChanges ==
  /\ diff # NoDiff /\ saved.changes # diff.changes
  /\ saved' = [saved EXCEPT !.changes = diff.changes]
  /\ UNCHANGED <<vars, diff>>

(* A diff file that is opened again: the doubts are those that were saved,  *)
(* and the gate is not asked.                                               *)
ReopenedTruncated ==
  [changes |-> saved.changes, warnings |-> {<<"truncated", NoText, NoText>> : n \in {m \in 1..2 : saved.truncated[m]}},
   common |-> saved.common, persisted |-> saved.persisted, suppressed |-> saved.suppressed,
   truncated |-> saved.truncated, failOn |-> {}, inconclusive |-> FALSE]
Reopened ==
  [changes |-> saved.changes, warnings |-> saved.warnings,
   common |-> saved.common, persisted |-> saved.persisted, suppressed |-> saved.suppressed,
   truncated |-> saved.truncated, failOn |-> {}, inconclusive |-> FALSE]

(* The diff file stays.                                                     *)
Written == diff # NoDiff /\ saved.changes = diff.changes /\ UNCHANGED <<vars, compareVars>>

CompareNext == AuditStep \/ WriteMeta \/ WriteChanges \/ Written
CompareSpec == CompareInit /\ [][CompareNext]_<<vars, compareVars>>
-----------------------------------------------------------------------------
(* Properties. *)

(* Comparing a crawl of a site, finished or not, with a finished crawl of   *)
(* the same site tells no news, whichever is the later one and whatever     *)
(* blocks of rules they store.  Apart from these: a loop of redirects is    *)
(* told at the URL that happened to come first; an alternate is not         *)
(* declared back by the page that was read first of those that answer for   *)
(* it, and one that is going on after an interrupted final pass keeps what  *)
(* that pass said of alternates; a crawl that was cut does not know where a *)
(* chain starts, or all the pages of a group alike; and one that died has   *)
(* not written its robots.txt and sitemaps.                                 *)
BothWays(a, b, choice) == CompareWithRules(a, b, choice).changes \cup CompareWithRules(b, a, choice).changes
PairOf(c) == (IF c[1] = "issue_appeared" THEN c[5] ELSE c[4])[2]
UnchangedSiteNoNews ==
  phase = "idle" =>
    \A a \in site.was, choice \in GivenRules :
      a.docs = site.docs =>
        \A c \in BothWays(a, Current, choice) :
          \/ c[3] = "HTTP-REDIRECT-LOOP"
          \/ c[3] = "HREFLANG-NOT-RECIPROCAL"
             /\ \/ \E key \in PairOf(c) \ OwnKeys(a.file, c[2]) : ~SameOwner(Current.file, a.file, key)
                \/ sessions > 1 /\ status # "done"
          \/ Incomplete(Current) /\ c[3] \in {"HTTP-REDIRECT-CHAIN", "HTTP-REDIRECT-TO-404", "DUP-CONTENT-NEAR"}
          \/ status = "running" /\ c[1] \in {"robots_txt_changed", "sitemap_changed"}

(* The two crawls the other way round, with one configuration, give the     *)
(* same comparison turned around: what was gone is new, what was suppressed *)
(* stays so, and what had become worse becomes better.                      *)
Turned(c) ==
  LET pairs == {<<"url_added", "url_removed">>, <<"issue_appeared", "issue_resolved">>,
                <<"indexability_lost", "indexability_gained">>}
      type == IF \E p \in pairs : c[1] \in {p[1], p[2]}
              THEN CHOOSE t \in {p[1] : p \in pairs} \cup {p[2] : p \in pairs} :
                     t # c[1] /\ \E p \in pairs : {t, c[1]} = {p[1], p[2]}
              ELSE c[1]
  IN Change(type, c[2], c[3], c[5], c[4], IF c[1] = "robots_txt_changed" THEN NoText ELSE c[6])
Plain(c) == IF c[1] = "robots_txt_changed" THEN [c EXCEPT ![6] = NoText] ELSE c
TurnedAround ==
  phase = "idle" =>
    \A a \in site.was, choice \in GivenRules \ {{}} :
      LET o == CompareWithRules(a, Current, choice)
          r == CompareWithRules(Current, a, choice)
      IN /\ {Turned(c) : c \in o.changes} = {Plain(c) : c \in r.changes}
         /\ {Turned(c) : c \in Worse(o.changes) \ OfType(o.changes, {"robots_txt_changed"})} = Better(r.changes)
         /\ o.suppressed.urlsAdded = r.suppressed.urlsRemoved /\ o.suppressed.urlsRemoved = r.suppressed.urlsAdded
         /\ o.suppressed.resolved = r.suppressed.appeared /\ o.suppressed.appeared = r.suppressed.resolved
         /\ o.persisted = r.persisted /\ o.common = r.common

(* --fail-on says that it cannot tell, or lets no finding of the later      *)
(* crawl pass, of a rule or of the severity that was asked for or worse, as *)
(* configured, that the earlier one did not have.                           *)
AtLeast(severity) == {Severities[n] : n \in {m \in DOMAIN Severities : \E k \in m..Len(Severities) : Severities[k] = severity}}
GateNeverSilent ==
  phase = "idle" =>
    \A a \in site.was, choice \in GivenRules, t \in FailOn :
      LET o == CompareWithRules(a, Current, choice)
          seen(crawl) == Configured(crawl, ChosenRules(crawl, Current, choice))
          asked == {j \in seen(Current) : j.rule = t \/ j.severity \in AtLeast(t)}
      IN o.inconclusive \/ \A j \in asked : <<t, j.rule, j.severity>> \in o.failOn
                                            \/ \E i \in seen(a) : i.rule = j.rule /\ i.url = j.url

(* A diff file, even one that was never finished, tells nothing that was    *)
(* not computed, and leaves the same doubts.                                *)
SavedDiffKeepsItsDoubts ==
  saved # NoDiff =>
    /\ Reopened.changes \subseteq diff.changes
    /\ Conclusive(Reopened.warnings) = Conclusive(diff.warnings)
    /\ saved.conclusive = Conclusive(Reopened.warnings)

(* "Los `id` son autoincrementales y dependen del orden en que el rastreo   *)
(* descubrió cada URL": two finished crawls of one site give the same       *)
(* findings, whatever the order of their URLs.                              *)
NoNewsOfTheSameSite ==
  phase = "idle" /\ status = "done" /\ truncated = NoText =>
    \A a \in site.was :
      a.docs = site.docs => CompareWithRules(a, Current, {}).changes = {}
=============================================================================
