----------------------------- MODULE HttpRules -----------------------------
(***************************************************************************)
(* Category HTTP (crawlforge-rules, http.rs).                               *)
(***************************************************************************)
EXTENDS CrawlFile, Sequences, SequencesExt, TLC

CONSTANT MaxRedirectHops      \* 20 in the code
ASSUME MaxRedirectHopsIsCount == MaxRedirectHops \in Nat \ {0}

HttpSeverity ==
  [rule \in {"HTTP-404-INTERNAL", "HTTP-5XX", "HTTP-REDIRECT-LOOP", "HTTP-REDIRECT-TO-404", "HTTP-NO-HTTPS"} |-> "critical"]
  @@ [rule \in {"HTTP-REDIRECT-CHAIN", "HTTP-MIXED-CONTENT"} |-> "high"]
  @@ [rule \in {"HTTP-404-EXTERNAL", "HTTP-SLOW-RESPONSE", "HTTP-LARGE-PAGE"} |-> "medium"]
  @@ ("HTTP-EXTERNAL-UNVERIFIABLE" :> "low")

HttpFinding(rule, u, detail) == Finding(rule, HttpSeverity[rule], u, detail, NoGroup)

SlowResponseMs == 1000
LargePageBytes == 500 * 1024

(* ---- page rules ---- *)

Http5xx(f, u) ==
  {HttpFinding("HTTP-5XX", u, s) : s \in {f.urls[u].status} \cap 500..599}

HttpMixedContent(f, u) ==
  LET insecure == {l \in f.pages[u].out : l.element # "a" /\ l.plainHttp}
  IN IF f.pages[u].html /\ f.text[u].https /\ Is2xx(f.urls[u].status) /\ insecure # {}
     THEN {HttpFinding("HTTP-MIXED-CONTENT", u, Cardinality(insecure))} ELSE {}

(* A crawl of files on disk measures no time to the first byte: ms is No.   *)
HttpSlowResponse(f, u) ==
  IF f.pages[u].ms > SlowResponseMs THEN {HttpFinding("HTTP-SLOW-RESPONSE", u, f.pages[u].ms)} ELSE {}

HttpLargePage(f, u) ==
  IF f.pages[u].html /\ Is2xx(f.urls[u].status) /\ f.urls[u].bytes > LargePageBytes
  THEN {HttpFinding("HTTP-LARGE-PAGE", u, f.urls[u].bytes)} ELSE {}

HttpPageRules(f, u) ==
  Http5xx(f, u) \cup HttpMixedContent(f, u) \cup HttpSlowResponse(f, u) \cup HttpLargePage(f, u)

(* ---- site rules ---- *)

(* The pages with an <a> to u.                                              *)
LinkedFrom(f, u) == {l.from : l \in {k \in f.links : k.to = u /\ k.element = "a"}}
ByLinks(f, rule, us) ==
  {HttpFinding(rule, u, Cardinality(LinkedFrom(f, u))) : u \in {v \in us : LinkedFrom(f, v) # {}}}

Http404Internal(f) ==
  ByLinks(f, "HTTP-404-INTERNAL", {u \in Internal(f) : Is4xx(f.urls[u].status)})

Http404External(f) ==
  ByLinks(f, "HTTP-404-EXTERNAL",
          {u \in Rows(f) \ Internal(f) : \/ f.urls[u].status \in GoneStatus
                                         \/ ~Answered(f, u) /\ f.urls[u].error = "dns"})

HttpExternalUnverifiable(f) ==
  ByLinks(f, "HTTP-EXTERNAL-UNVERIFIABLE", {u \in Rows(f) \ Internal(f) : f.urls[u].status \in RefusedStatus})

Redirects(f) == {u \in Rows(f) : f.urls[u].next # No}

(* Nobody redirects to the head of a chain.                                 *)
ChainHeads(f) == Redirects(f) \ {f.urls[u].next : u \in Redirects(f)}

(* The chain followed from u: it ends in a URL that does not redirect, in   *)
(* one it has been through, or not within MaxRedirectHops.                  *)
Walk(f, u) ==
  LET walk[n \in 0..MaxRedirectHops] ==
        IF n = 0 THEN [path |-> <<u>>, end |-> "too_long"]
        ELSE LET w == walk[n - 1]
                 next == f.urls[Last(w.path)].next
             IN CASE w.end # "too_long" -> w
                  [] w.end = "too_long" /\ next = No -> [w EXCEPT !.end = "final"]
                  [] w.end = "too_long" /\ next \in ToSet(w.path) -> [w EXCEPT !.end = "loop"]
                  [] OTHER -> [w EXCEPT !.path = Append(@, next)]
  IN walk[MaxRedirectHops]

Hops(w) == Len(w.path) - 1
Destination(w) == Last(w.path)

(* The part of the walk that repeats.                                       *)
Cycle(f, w) ==
  LET first == CHOOSE i \in DOMAIN w.path : w.path[i] = f.urls[Last(w.path)].next
  IN {w.path[i] : i \in first..Len(w.path)}

HttpRedirectChain(f) ==
  {HttpFinding("HTTP-REDIRECT-CHAIN", u, Hops(Walk(f, u))) :
     u \in {h \in ChainHeads(f) : Walk(f, h).end # "loop" /\ Hops(Walk(f, h)) >= 2}}

(* Each loop once, whichever of its URLs, or of those that lead to it, the  *)
(* walk starts from: at the URL of the loop with the least id.              *)
HttpRedirectLoopPerWalk(f) ==
  {Finding("HTTP-REDIRECT-LOOP", "critical", u, Hops(Walk(f, u)), <<"redirect-loop", {u}>>) :
     u \in {v \in Redirects(f) : Walk(f, v).end = "loop"}}
HttpRedirectLoop(f) ==
  LET cycles == {Cycle(f, Walk(f, u)) : u \in {v \in Redirects(f) : Walk(f, v).end = "loop"}}
      least(c) == CHOOSE u \in c : \A v \in c : f.ids[u] <= f.ids[v]
  IN {Finding("HTTP-REDIRECT-LOOP", "critical", least(c), Cardinality(c), <<"redirect-loop", {least(c)}>>) : c \in cycles}

HttpRedirectTo404(f) ==
  {HttpFinding("HTTP-REDIRECT-TO-404", u, f.urls[Destination(Walk(f, u))].status) :
     u \in {h \in ChainHeads(f) : /\ Walk(f, h).end = "final"
                                  /\ Is4xx(f.urls[Destination(Walk(f, h))].status)}}

(* Internal pages served over http, and not sent to https.                  *)
HttpNoHttps(f) ==
  LET plain == {u \in Internal(f) :
                  /\ ~f.text[u].https /\ f.urls[u].state = "done"
                  /\ \/ Is2xx(f.urls[u].status)
                     \/ /\ Is3xx(f.urls[u].status) /\ f.urls[u].next # No
                        /\ ~f.text[f.urls[u].next].https}
  IN IF plain = {} THEN {} ELSE {HttpFinding("HTTP-NO-HTTPS", No, Cardinality(plain))}

HttpSiteRules(f) ==
  Http404Internal(f) \cup Http404External(f) \cup HttpExternalUnverifiable(f) \cup HttpRedirectChain(f)
  \cup HttpRedirectLoop(f) \cup HttpRedirectTo404(f) \cup HttpNoHttps(f)
=============================================================================
