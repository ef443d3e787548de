----------------------------- MODULE CanonRules -----------------------------
(***************************************************************************)
(* Categories CANON and DUP (crawlforge-rules, canon.rs).                   *)
(***************************************************************************)
EXTENDS CrawlFile, Sequences, FiniteSetsExt, TLC

CONSTANTS SignatureLen,   \* bytes of a signature
          BandRows,       \* and of each of its bands
          SimilarBytes,   \* how many bytes of two signatures agree in near-duplicates
          NearDupWindow   \* pages after it in its bucket that a page is compared with

ASSUME CanonAssumption == NearDupWindow \in Nat

CanonSeverity ==
  [rule \in {"CANON-TO-4XX", "CANON-TO-NOINDEX"} |-> "critical"]
  @@ [rule \in {"CANON-MULTIPLE", "CANON-TO-REDIRECT", "CANON-CHAIN", "DUP-CONTENT-EXACT"} |-> "high"]
  @@ [rule \in {"CANON-MISSING", "CANON-RELATIVE", "CANON-CROSS-DOMAIN", "DUP-CONTENT-NEAR"} |-> "medium"]

CanonFinding(rule, u, detail) == Finding(rule, CanonSeverity[rule], u, detail, NoGroup)

(* The same site, www. or not; unknown when one of them has no host.        *)
SameHost(f, u, v) == f.text[u].domain = f.text[v].domain
HostsKnown(f, u, v) == "none" \notin {f.text[u].domain, f.text[v].domain}

(* ---- page rules ---- *)

CanonMissing(f, u) ==
  IF f.pages[u].html /\ f.pages[u].indexable /\ f.pages[u].canonical = No
  THEN {CanonFinding("CANON-MISSING", u, 0)} ELSE {}

HtmlFound(f, u) == f.pages[u].html /\ Is2xx(f.urls[u].status)

CanonMultiple(f, u) ==
  IF HtmlFound(f, u) /\ f.pages[u].canonicals > 1
  THEN {CanonFinding("CANON-MULTIPLE", u, f.pages[u].canonicals)} ELSE {}

CanonRelative(f, u) ==
  IF HtmlFound(f, u) /\ f.pages[u].canonicals > 0 /\ f.pages[u].canonicalForm # "absolute"
  THEN {CanonFinding("CANON-RELATIVE", u, 0)} ELSE {}

CanonCrossDomain(f, u) ==
  LET c == f.pages[u].canonical IN
  IF HtmlFound(f, u) /\ c # No /\ HostsKnown(f, u, c) /\ ~SameHost(f, u, c)
  THEN {CanonFinding("CANON-CROSS-DOMAIN", u, c)} ELSE {}

CanonPageRules(f, u) ==
  CanonMissing(f, u) \cup CanonMultiple(f, u) \cup CanonRelative(f, u) \cup CanonCrossDomain(f, u)

(* ---- site rules ---- *)

(* The pages whose canonical is another URL that has a row.                 *)
Canonicalised(f) == {u \in Pages(f) : f.pages[u].canonical \in Rows(f) \ {u}}
Target(f, u) == f.pages[u].canonical

OfTargets(f, rule, us) == {CanonFinding(rule, u, Target(f, u)) : u \in us}

CanonToError(f) ==
  OfTargets(f, "CANON-TO-4XX",
            {u \in Canonicalised(f) : IF Target(f, u) \in Internal(f) THEN f.urls[Target(f, u)].status >= 400
                                      ELSE f.urls[Target(f, u)].status \in GoneStatus})

CanonToRedirect(f) ==
  OfTargets(f, "CANON-TO-REDIRECT",
            {u \in Canonicalised(f) : Is3xx(f.urls[Target(f, u)].status) \/ f.urls[Target(f, u)].next # No})

(* The word noindex anywhere in the directives: LIKE '%noindex%'.           *)
SaysNoindex(p) == "noindex" \in p.metaRobots \cup p.headerRobots

CanonToNoindex(f) ==
  OfTargets(f, "CANON-TO-NOINDEX",
            {u \in Canonicalised(f) : Target(f, u) \in Pages(f) /\ SaysNoindex(f.pages[Target(f, u)])})

CanonChain(f) ==
  OfTargets(f, "CANON-CHAIN", {u \in Canonicalised(f) : Target(f, u) \in Canonicalised(f)})

DupContentExact(f) ==
  LET same(u) == {v \in Indexable(f) : f.pages[v].hash = f.pages[u].hash}
  IN {Finding("DUP-CONTENT-EXACT", "high", u, Cardinality(same(u)), <<"html", {f.pages[u].hash}>>) :
        u \in {v \in Indexable(f) : Cardinality(same(v)) > 1}}

(* A signature is a sequence of bytes; pages without enough text have the   *)
(* empty one.                                                               *)
Signed(f) == {u \in Indexable(f) : Len(f.pages[u].signature) = SignatureLen}
Agreeing(f, u, v) ==
  {i \in 1..SignatureLen : f.pages[u].signature[i] = f.pages[v].signature[i]}
Similar(f, u, v) == Cardinality(Agreeing(f, u, v)) >= SimilarBytes

(* Only signatures that agree on a whole band are compared; what is left    *)
(* after the last band is in none.                                          *)
Bands == 0..((SignatureLen \div BandRows) - 1)
BandOf(f, u, b) == SubSeq(f.pages[u].signature, b * BandRows + 1, (b + 1) * BandRows)
Bucket(f, u, b) == {w \in Signed(f) : BandOf(f, w, b) = BandOf(f, u, b)}

(* The pages in order of their signatures, and the same ones of their URLs. *)
Before(f, u, v) ==
  LET s == f.pages[u].signature  t == f.pages[v].signature
      differ == {i \in DOMAIN s : s[i] # t[i]}
  IN IF differ = {} THEN u < v ELSE s[Min(differ)] < t[Min(differ)]

(* u and v are versions of one page in two languages, says one of them.  Of *)
(* the pages with the same key, an alternate names the last.                *)
NamedBy(f, a) == {v \in Signed(f) : a.to # No /\ f.text[v].key = f.text[a.to].key}
DeclaredAlternates(f, u, v) ==
  \E p \in {<<u, v>>, <<v, u>>} :
    \E a \in f.pages[p[1]].alternates :
      p[2] \in NamedBy(f, a) /\ \A w \in NamedBy(f, a) \ {p[2]} : Before(f, w, p[2])

Resemble(f, u, v) ==
  u # v /\ Before(f, u, v) /\ (\E b \in Bands : v \in Bucket(f, u, b)) /\ Similar(f, u, v) /\ ~DeclaredAlternates(f, u, v)

(* In each bucket a page is compared with the next ones only, in order of   *)
(* signatures.                                                              *)
Compared(f, u, v) ==
  \E b \in Bands :
    /\ v \in Bucket(f, u, b)
    /\ Cardinality({w \in Bucket(f, u, b) \ {u, v} : Before(f, u, w) /\ Before(f, w, v)}) < NearDupWindow
Joins(f, u, v) == Resemble(f, u, v) /\ Compared(f, u, v)

NearParentsOneStep(f) ==
  [u \in Signed(f) |->
     LET less == {u} \cup {v \in Signed(f) : Joins(f, v, u)}
     IN CHOOSE v \in less : \A w \in less \ {v} : Before(f, v, w)]

(* Union-find over the pairs, in any order: the later root goes under the   *)
(* other.                                                                   *)
NearParents(f) ==
  LET root(parent, u) == LET up[n \in 0..Cardinality(Signed(f))] == IF n = 0 THEN u ELSE parent[up[n - 1]]
                         IN up[Cardinality(Signed(f))]
      joined == {p \in Signed(f) \X Signed(f) : Joins(f, p[1], p[2])}
      join(p, parent) ==
        LET a == root(parent, p[1])  b == root(parent, p[2])
        IN IF a = b THEN parent ELSE IF Before(f, a, b) THEN [parent EXCEPT ![b] = a] ELSE [parent EXCEPT ![a] = b]
      parents == FoldSet(join, [u \in Signed(f) |-> u], joined)
  IN [u \in Signed(f) |-> root(parents, u)]

(* Groups of pages that are not all the same bytes: those are told as       *)
(* exact.  The key of a group is the start of its least signature.          *)
DupContentNear(f) ==
  LET parent == NearParents(f)
      group(r) == {u \in Signed(f) : parent[u] = r}
      told == {r \in Signed(f) : Cardinality({f.pages[u].hash : u \in group(r)}) > 1}
  IN UNION {{Finding("DUP-CONTENT-NEAR", "medium", u, Cardinality(group(r)), <<"text", {Head(f.pages[r].signature)}>>) :
               u \in group(r)} : r \in told}

CanonSiteRules(f) ==
  CanonToError(f) \cup CanonToNoindex(f) \cup CanonChain(f) \cup CanonToRedirect(f)
  \cup DupContentExact(f) \cup DupContentNear(f)
=============================================================================
