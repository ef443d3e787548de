------------------------------- MODULE Discovery -------------------------------
(***************************************************************************)
(* Before the first page of a crawl, the URLs its sitemaps declare are      *)
(* discovered (engine.rs, discover_sitemap_urls): those that robots.txt     *)
(* announces and two usual paths, and those an index leads to, downloaded   *)
(* several at a time, with room in their host, until there are enough URLs  *)
(* or too many sitemaps; then the loop of the crawl takes the URLs found.   *)
(* The same cache of robots.txt serves then the tasks of the pages.         *)
(***************************************************************************)
EXTENDS RobotsCache, Throttle, SitemapXml, SequencesExt

CONSTANTS Webs,          \* the sites and jobs there may be: see SitemapOf
          Concurrency,   \* effective_concurrency
          MaxSitemaps,   \* MAX_SITEMAPS, 5,000 in the code
          Loop,          \* the call of load_host_rules of the discovery, by host
          Parsed,        \* the answers that are a robots.txt with rules
          Slow           \* those that declare a Crawl-delay

ASSUME DiscoveryAssumption ==
  /\ Concurrency \in Nat \ {0} /\ MaxSitemaps \in Nat
  /\ Loop \in [Hosts -> Tasks] /\ \A h \in Hosts : HostOf[Loop[h]] = h
  /\ Slow \subseteq Parsed /\ Parsed \subseteq Answers
  /\ \A w \in Webs :
       /\ IsFiniteSet(DOMAIN w.docs) /\ w.home \in Hosts /\ w.budget \subseteq Nat /\ \A a, b \in w.budget : a = b
       /\ w.announced \in Seq(DOMAIN w.docs) /\ w.usual \in Seq(DOMAIN w.docs)
       /\ \A u \in DOMAIN w.docs :
            /\ w.docs[u].host \in Hosts /\ w.docs[u].answer \in {"doc", "failed", "died"}
            /\ w.docs[u].status \in Nat /\ w.docs[u].wellFormed \in BOOLEAN
            /\ w.docs[u].children \in Seq(DOMAIN w.docs) /\ w.docs[u].urls \in Seq(DOMAIN w.pages)

VARIABLES web,           \* the site: [home, announced, usual, docs, pages, budget, ignoresRobots, followsExternal]
          stage,         \* "rules", "sitemaps", "found", "pages", "over"
          pending,       \* sitemaps to look at, in order
          deferred,      \* those that wait for room in their host
          visited,
          inFlight,      \* [url, origin] of those being downloaded
          downloaded,
          found,         \* URLs declared, in order
          rows,          \* table sitemaps, in the order they were read
          kept,          \* in_sitemap: what enters the crawl
          told           \* the truncation is recorded

sitemapVars == <<web, stage, pending, deferred, visited, inFlight, downloaded, found, rows, kept, told>>
vars == <<cacheVars, throttleVars, sitemapVars>>

-----------------------------------------------------------------------------
(* What a sitemap is: its host, whether it may be asked for, and what the   *)
(* server answers; the task that reads it may die.                          *)
Doc(u) == web.docs[u]
Room(u) == HasRoomForProbe(Doc(u).host, Cardinality({x \in inFlight : Doc(x.url).host = Doc(u).host}))
TopeBudget == web.budget
Tope == {b + 1 : b \in web.budget}
Full(n) == \E t \in Tope : n >= t

(* The rules of a host, once its robots.txt has been read.                  *)
RulesFor(h) == given[Loop[h]]
Announced == IF RulesFor(web.home) \in Parsed THEN web.announced ELSE <<>>
Crawled(u) == Doc(u).crawlable /\ (Doc(u).internal \/ web.followsExternal)
AsksRobots(u) == Crawled(u) /\ ~web.ignoresRobots
Allowed(u) == RulesFor(Doc(u).host) \in Parsed => Doc(u).allowed

(* The host whose robots.txt the discovery is waiting for: that of the      *)
(* site, and then that of the sitemap in hand.                              *)
Filling ==
  stage = "sitemaps" /\ Cardinality(inFlight) < Concurrency /\ downloaded < MaxSitemaps /\ ~Full(Len(found))
Ready == {i \in DOMAIN deferred : Room(deferred[i])}
Head1 == Filling /\ Ready = {} /\ pending # <<>>
AwaitedHosts ==
  IF stage = "rules" THEN {web.home}
  ELSE IF Head1 /\ Head(pending) \notin visited /\ AsksRobots(Head(pending)) THEN {Doc(Head(pending)).host}
  ELSE {}
Awaiting == \E h \in AwaitedHosts : RulesFor(h) = Nothing

-----------------------------------------------------------------------------
(* The discovery. *)

Init ==
  /\ CacheInit /\ ThrottleInit
  /\ web \in Webs
  /\ stage = "rules" /\ pending = <<>> /\ deferred = <<>> /\ visited = {} /\ inFlight = {}
  /\ downloaded = 0 /\ found = <<>> /\ rows = <<>> /\ kept = {} /\ told = FALSE

Start ==
  /\ stage = "rules" /\ ~Awaiting
  /\ stage' = "sitemaps" /\ pending' = Announced \o web.usual
  /\ UNCHANGED <<cacheVars, throttleVars, web, deferred, visited, inFlight, downloaded, found, rows, kept, told>>

Origin(u) ==
  IF u \in ToSet(Announced) THEN "robots" ELSE IF u \in ToSet(web.usual) THEN "well_known" ELSE "index"
Launch(u) ==
  /\ inFlight' = inFlight \cup {[url |-> u, origin |-> Origin(u)]}
  /\ downloaded' = downloaded + 1

(* One that waited comes first, when its host has room.                     *)
LaunchDeferred ==
  /\ Filling /\ Ready # {}
  /\ LET i == CHOOSE j \in Ready : \A k \in Ready : j <= k IN
       deferred' = RemoveAt(deferred, i) /\ Launch(deferred[i])
  /\ UNCHANGED <<cacheVars, throttleVars, web, stage, pending, visited, found, rows, kept, told>>

(* The next one: met already, not to be asked for, without room, or asked.  *)
TakeNext ==
  /\ Head1 /\ ~Awaiting
  /\ LET u == Head(pending) IN
       /\ pending' = Tail(pending) /\ visited' = visited \cup {u}
       /\ IF u \in visited \/ ~Crawled(u) \/ (AsksRobots(u) /\ ~Allowed(u))
          THEN UNCHANGED <<deferred, inFlight, downloaded>>
          ELSE IF Room(u) THEN Launch(u) /\ UNCHANGED deferred
          ELSE deferred' = Append(deferred, u) /\ UNCHANGED <<inFlight, downloaded>>
  /\ UNCHANGED <<cacheVars, throttleVars, web, stage, found, rows, kept, told>>

(* An answer, of whichever comes first: a row, and what it declares up to   *)
(* what the budget allows.                                                  *)
Row(x, status, valid, n) == [url |-> x.url, origin |-> x.origin, status |-> status, valid |-> valid, urls |-> n]
Read(x) ==
  LET d == Doc(x.url) IN
  IF d.answer = "failed" THEN Append(rows, Row(x, 0, FALSE, 0))
  ELSE IF d.status # 200 THEN Append(rows, Row(x, d.status, FALSE, 0))
  ELSE Append(rows, Row(x, 200, d.wellFormed, Len(d.urls) + Len(d.children)))
Accumulated(d) ==
  IF Tope = {} THEN found \o d.urls
  ELSE LET room == (CHOOSE t \in Tope : TRUE) - Len(found) IN
       found \o SubSeq(d.urls, 1, IF Len(d.urls) < room THEN Len(d.urls) ELSE room)
Recorded(x) ==
  LET d == Doc(x.url) IN
  IF d.answer = "failed" THEN UNCHANGED throttleVars
  ELSE IF d.status \in {429, 503} THEN RecordOverload(d.host)
  ELSE IF d.status < 400 THEN RecordGood(d.host)
  ELSE RecordBad(d.host)
CollectCrossed(x) ==
  LET d == Doc(x.url) IN
  IF d.answer = "died" THEN UNCHANGED <<throttleVars, pending, found, rows>>
  ELSE /\ \E y \in inFlight : rows' = Read([x EXCEPT !.origin = y.origin])
       /\ Recorded(x)
       /\ IF d.answer = "failed" \/ d.status # 200 \/ Full(Len(found)) THEN UNCHANGED <<pending, found>>
          ELSE pending' = pending \o d.children /\ found' = Accumulated(d)
Collect(x) ==
  LET d == Doc(x.url) IN
  IF d.answer = "died" THEN UNCHANGED <<throttleVars, pending, found, rows>>
  ELSE /\ rows' = Read(x) /\ Recorded(x)
       /\ IF d.answer = "failed" \/ d.status # 200 \/ Full(Len(found)) THEN UNCHANGED <<pending, found>>
          ELSE pending' = pending \o d.children /\ found' = Accumulated(d)
CanFillWhileDeferred == Filling /\ (deferred # <<>> \/ pending # <<>>)
CanFill == Filling /\ (Ready # {} \/ pending # <<>>)
Join ==
  /\ stage = "sitemaps" /\ ~CanFill
  /\ \E x \in inFlight : inFlight' = inFlight \ {x} /\ Collect(x)
  /\ UNCHANGED <<cacheVars, web, stage, deferred, visited, downloaded, kept, told>>

EndDiscovery ==
  /\ stage = "sitemaps" /\ ~CanFill /\ inFlight = {}
  /\ stage' = "found"
  /\ UNCHANGED <<cacheVars, throttleVars, web, pending, deferred, visited, inFlight, downloaded, found, rows, kept, told>>

(* The deadline or a cancel: the requests are dropped, and what was read    *)
(* with them.                                                               *)
Interrupt ==
  /\ stage \in {"rules", "sitemaps"}
  /\ stage' = "over" /\ inFlight' = {} /\ found' = <<>> /\ rows' = <<>>
  /\ at' = [t \in Tasks |-> IF at[t] \notin {"asks", "done"} THEN "dropped" ELSE at[t]]
  /\ keeper' = [h \in CachedHosts |-> Nothing]
  /\ UNCHANGED <<cells, rules, given, throttleVars, web, pending, deferred, visited, downloaded, kept, told>>

(* The loop of the crawl takes them one by one until its budget is spent:   *)
(* those of its own site, each once whatever the number of sitemaps that    *)
(* declare it.                                                              *)
Wanted(page) == page.own \/ (web.followsExternal /\ page.screened)
Taken(n) ==
  LET page(i) == web.pages[found[i]]
      kept0[i \in 0..n] == IF i = 0 THEN {} ELSE LET us == kept0[i - 1] IN
                             IF Wanted(page(i)) THEN us \cup {page(i).same} ELSE us
  IN kept0[n]
Spent(n) == \E b \in web.budget : Cardinality(Taken(n)) >= b
TakeFound ==
  /\ stage = "found"
  /\ LET stops == {n \in 0..Len(found) - 1 : Spent(n)}
         last == IF stops = {} THEN Len(found) ELSE CHOOSE n \in stops : \A m \in stops : n <= m
     IN kept' = Taken(last) /\ told' = (stops # {})
  /\ stage' = "pages"
  /\ UNCHANGED <<cacheVars, throttleVars, web, pending, deferred, visited, inFlight, downloaded, found, rows>>

-----------------------------------------------------------------------------
(* The cache: the discovery asks for a host when it needs it, and the tasks *)
(* of pages once there is something to crawl; a page's task may panic.      *)
PageTasks == Tasks \ {Loop[h] : h \in Hosts}
AskRobots ==
  /\ \/ \E h \in Hosts : h \in AwaitedHosts /\ Step(Loop[h])
     \/ stage = "pages" /\ \E t \in PageTasks : Step(t) \/ Drop(t)
  /\ UNCHANGED <<throttleVars, sitemapVars>>

Ended ==
  /\ stage = "over" \/ (stage = "pages" /\ \A t \in PageTasks : at[t] \in {"done", "dropped"})
  /\ UNCHANGED vars

Next ==
  Start \/ LaunchDeferred \/ TakeNext \/ Join \/ EndDiscovery \/ Interrupt \/ TakeFound \/ AskRobots \/ Ended

(* Every request ends, for it has a timeout.                                *)
Fairness ==
  /\ WF_vars(Start \/ LaunchDeferred \/ TakeNext \/ Join \/ EndDiscovery \/ TakeFound)
  /\ \A t \in Tasks : WF_vars(Step(t) /\ AskRobots)
Spec == Init /\ [][Next]_vars /\ Fairness

-----------------------------------------------------------------------------
(* Properties. *)

(* The sitemaps that can be reached and read, which are in every set with   *)
(* the roots and with what is declared in it, and the URLs they declare.    *)
Fit(u) == u \in DOMAIN web.docs /\ Crawled(u) /\ (web.ignoresRobots \/ Allowed(u))
Children(u) ==
  IF Fit(u) /\ Doc(u).answer = "doc" /\ Doc(u).status = 200 THEN ToSet(Doc(u).children) ELSE {}
Roots == ToSet(Announced) \cup ToSet(web.usual)
Reachable ==
  LET met == {T \cup Roots : T \in SUBSET (DOMAIN web.docs \ Roots)}
      closed == {S \in met : \A v \in S : Children(v) \subseteq S}
  IN {u \in DOMAIN web.docs : Fit(u) /\ \A S \in closed : u \in S}
Declaring == {u \in Reachable : Doc(u).answer = "doc" /\ Doc(u).status = 200}
Declared == UNION {ToSet(Doc(u).urls) : u \in Declaring}
OwnDeclared == {web.pages[p].same : p \in {q \in Declared : Wanted(web.pages[q])}}

(* They are of the site, and each declares URLs that no other does.         *)
DeclareApart(us) ==
  \A u, v \in us : \A i \in DOMAIN Doc(u).urls, j \in DOMAIN Doc(v).urls :
    LET p == web.pages[Doc(u).urls[i]]
        q == web.pages[Doc(v).urls[j]]
    IN Wanted(p) /\ (p.same = q.same => u = v /\ i = j)

(* The state of a discovery.                                                *)
TypeOK ==
  /\ CacheTypeOK /\ ThrottleTypeOK
  /\ stage \in {"rules", "sitemaps", "found", "pages", "over"}
  /\ ToSet(pending) \cup ToSet(deferred) \cup visited \cup {x.url : x \in inFlight} \subseteq DOMAIN web.docs
  /\ Cardinality(inFlight) <= Concurrency /\ downloaded <= MaxSitemaps
  /\ \A t \in Tope : Len(found) <= t

(* Every sitemap that can be reached is read once, in whichever order they  *)
(* answer, and its row says where it was found; those of one that fails are *)
(* rows too.  Unless there are enough URLs already, or more sitemaps than   *)
(* the limit.                                                               *)
EachReadOnce ==
  stage = "found" =>
    LET read == {rows[i].url : i \in DOMAIN rows}
        answering == {u \in Reachable : Doc(u).answer # "died"}
    IN /\ read \subseteq answering
       /\ \A i, j \in DOMAIN rows : rows[i].url = rows[j].url => i = j
       /\ \A i \in DOMAIN rows : rows[i].origin = Origin(rows[i].url)
       /\ ~Full(Len(found)) /\ Cardinality(Reachable) <= MaxSitemaps => read = answering /\ ToSet(found) = Declared

(* The URLs that enter the crawl are some of those the site declares of     *)
(* itself, no more than the budget; all, if no limit was met; and if they   *)
(* declare each a URL of the site that no other declares, the crawl says    *)
(* when there are more.  Nothing says that there are more sitemaps than the *)
(* limit.                                                                   *)
BudgetedAndTold ==
  stage = "pages" =>
    /\ kept \subseteq OwnDeclared /\ \A b \in web.budget : Cardinality(kept) <= b
    /\ Cardinality(Reachable) <= MaxSitemaps =>
         /\ ~Full(Len(found)) /\ ~told => kept = OwnDeclared
         /\ DeclareApart(Declaring) => (told <=> \E b \in web.budget : Cardinality(OwnDeclared) > b)

(* The discovery ends, however the sitemaps point to one another, whether   *)
(* or not they answer, and whatever the limits of their hosts; and so does  *)
(* the wait of every task for the robots.txt of its host.                   *)
DiscoveryEnds ==
  /\ <>(stage \in {"pages", "over"})
  /\ \A t \in PageTasks : stage = "pages" ~> at[t] \in {"done", "dropped"}

=============================================================================
