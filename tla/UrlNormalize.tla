---------------------------- MODULE UrlNormalize ----------------------------
(***************************************************************************)
(* One form for each page (normalize.rs): the defence against asking for    *)
(* the same page fifty times.  A URL is what the url crate gives after      *)
(* parsing it: [user, host, port, path, slash, query, fragment], with "" as *)
(* the port of its scheme, path the segments and slash whether it ends with *)
(* one; query is <<>> or <<raw>>, raw being a sequence of symbols: letters, *)
(* "&", "=", "+" and escapes as "%26".  A policy is [stripped, families,    *)
(* slash, hashbang].                                                        *)
(***************************************************************************)
EXTENDS Naturals, FiniteSets, SequencesExt

CONSTANT Symbols   \* the symbols of a query in the order of their bytes, decoded ones included

(* What query_pairs decodes, and what set_query encodes again: of the ones  *)
(* that were decoded, only the space.                                       *)
Escapes == [s \in {"+", "%20", "%26", "%2B", "%3D"} |->
              CASE s \in {"+", "%20"} -> " " [] s = "%26" -> "&" [] s = "%2B" -> "+" [] s = "%3D" -> "="]
Decoded(raw) == [n \in DOMAIN raw |-> IF raw[n] \in DOMAIN Escapes THEN Escapes[raw[n]] ELSE raw[n]]
SetQuery(query) == [n \in DOMAIN query |-> IF query[n] = " " THEN "%20" ELSE query[n]]

Split(raw, at) ==
  FoldLeft(LAMBDA ps, s : IF s = at THEN Append(ps, <<>>) ELSE [ps EXCEPT ![Len(ps)] = Append(@, s)], <<<<>>>>, raw)
(* Key and value, on both sides of the first "=".                           *)
PairOf(piece) ==
  LET cuts == {n \in DOMAIN piece : piece[n] = "="}
      cut == IF cuts = {} THEN Len(piece) + 1 ELSE CHOOSE n \in cuts : \A m \in cuts : n <= m
  IN <<Decoded(SubSeq(piece, 1, cut - 1)), Decoded(SubSeq(piece, cut + 1, Len(piece)))>>
QueryPairs(raw) ==
  LET pieces == SelectSeq(Split(raw, "&"), LAMBDA p : p # <<>>) IN [n \in DOMAIN pieces |-> PairOf(pieces[n])]

ShouldStrip(policy, key) ==
  Len(key) > 0 /\ (key[1] \in policy.families \/ (Len(key) = 1 /\ key[1] \in policy.stripped))

(* By key and then by value.                                                *)
RankOf(s) == CHOOSE n \in DOMAIN Symbols : Symbols[n] = s
Before(s, t) ==
  \E n \in 0..Len(s) :
    /\ n <= Len(t) /\ SubSeq(s, 1, n) = SubSeq(t, 1, n)
    /\ \/ n = Len(s) /\ n < Len(t)
       \/ n < Len(s) /\ n < Len(t) /\ RankOf(s[n + 1]) < RankOf(t[n + 1])
PairBefore(p, q) == Before(p[1], q[1]) \/ (p[1] = q[1] /\ Before(p[2], q[2]))
KeyBefore(p, q) == Before(p[1], q[1])

Joined(pairs) ==
  FoldLeft(LAMBDA raw, p : raw \o (IF raw = <<>> THEN <<>> ELSE <<"&">>) \o p[1] \o <<"=">> \o p[2], <<>>, pairs)
NormalQueryByKey(policy, raw) ==
  LET pairs == SelectSeq(QueryPairs(raw), LAMBDA p : ~ShouldStrip(policy, p[1]))
  IN IF pairs = <<>> THEN <<>> ELSE <<SetQuery(Joined(SortSeq(pairs, KeyBefore)))>>
NormalQuery(policy, raw) ==
  LET pairs == SelectSeq(QueryPairs(raw), LAMBDA p : ~ShouldStrip(policy, p[1]))
  IN IF pairs = <<>> THEN <<>> ELSE <<SetQuery(Joined(SortSeq(pairs, PairBefore)))>>

(* The root is not touched, and what looks like a file gets no slash.       *)
LooksLikeFile(url) == ~url.slash /\ url.path # <<>> /\ Last(url.path) = "file.html"
TrailingSlash(policy, url) ==
  IF url.path = <<>> THEN url.slash
  ELSE CASE policy.slash = "as_is" -> url.slash
         [] policy.slash = "add" -> url.slash \/ ~LooksLikeFile(url)
         [] policy.slash = "remove" -> FALSE

KeepsFragment(policy, url) == url.fragment = "#!" /\ ~policy.hashbang
(* finish: no credentials, no fragment but a hashbang, and the query.       *)
Normalized(policy, url) ==
  [url EXCEPT !.user = "", !.fragment = IF KeepsFragment(policy, url) THEN @ ELSE "",
              !.query = IF @ = <<>> THEN @ ELSE NormalQuery(policy, @[1]),
              !.slash = TrailingSlash(policy, url)]

-----------------------------------------------------------------------------
(* The sites of a crawl. *)

SiteAuthority(url) == <<url.host, url.port>>
(* One authority, or the ports of each host.                                *)
ScopeOf(seeds) ==
  LET sites == {SiteAuthority(u) : u \in seeds} IN
  IF Cardinality(sites) = 1 THEN [many |-> FALSE, site |-> CHOOSE a \in sites : TRUE]
  ELSE [many |-> TRUE, ports |-> [h \in {a[1] : a \in sites} |-> {a[2] : a \in {b \in sites : b[1] = h}}]]
InScopeOf(scope, url) ==
  IF scope.many THEN url.host \in DOMAIN scope.ports /\ url.port \in scope.ports[url.host]
  ELSE SiteAuthority(url) = scope.site
SameSite(a, b) == SiteAuthority(a) = SiteAuthority(b)
IsInternalLink(scope, page, target) == InScopeOf(scope, target) /\ (scope.many => SameSite(page, target))
=============================================================================
