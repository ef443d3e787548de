----------------------------- MODULE PageReader -----------------------------
(***************************************************************************)
(* A page from its request to the URLs it leads to: what Fetcher gives is   *)
(* read by HtmlParse, and each link it found is resolved once               *)
(* (resolve_link in engine.rs) to the form UrlNormalize gives it.           *)
(***************************************************************************)
EXTENDS LocalFiles, HtmlParse

CONSTANTS Urls,    \* the URL that each href stands for, as the url crate parses it
          Seeds    \* hrefs: what the crawl was started with, the page itself first

VARIABLE found     \* the links of the page, once resolved

readerVars == <<fetchVars, htmlVars, localVars, found>>

(* Without a page, resolved to nothing.                                     *)
Resolved(links) ==
  [n \in DOMAIN links |->
     LET to == Normalized(Policy, Urls[links[n].href]) IN
     [href |-> links[n].href, to |-> to,
      internal |-> IsInternalLink(ScopeOf({Urls[Seeds[k]] : k \in DOMAIN Seeds}), Urls[Seeds[1]], to)]]

ReaderInit == FetchInit /\ HtmlInit /\ LocalInit /\ found = <<>>

(* Either the files of a disk or the answers of a server.                   *)
ReadDisk == call = "idle" /\ parse = "idle" /\ LocalNext /\ UNCHANGED <<fetchVars, htmlVars, found>>
Fetch == disk = NoDisk /\ parse = "idle" /\ FetchNext /\ UNCHANGED <<htmlVars, localVars, found>>
(* A page with something in it, whatever its status.                        *)
TakePage ==
  /\ call = "done" /\ ~probe /\ result.ok /\ result.type = "html" /\ result.bytes > 0
  /\ Taken /\ parse' = "body"
  /\ UNCHANGED <<doc, at, given, open, acc, around, halved, localVars, found>>
ReadPage == disk = NoDisk /\ (Begin \/ HtmlNext) /\ UNCHANGED <<fetchVars, localVars, found>>
Resolve == parse \in {"whole", "cut"} /\ found = <<>> /\ acc.links # <<>> /\ found' = Resolved(acc.links) /\ UNCHANGED <<fetchVars, htmlVars, localVars>>

ReaderNext == ReadDisk \/ Fetch \/ TakePage \/ ReadPage \/ Resolve
ReaderSpec == ReaderInit /\ [][ReaderNext]_readerVars
-----------------------------------------------------------------------------
(* Properties. *)

(* What tells a page from another, written without pairs, order or form:    *)
(* host, port and path, how many times it carries each parameter that is    *)
(* kept, and a hashbang.                                                    *)
Kept(url) == IF url.query = <<>> THEN <<>> ELSE SelectSeq(QueryPairs(url.query[1]), LAMBDA p : ~ShouldStrip(Policy, p[1]))
Times(pairs, p) == Cardinality({n \in DOMAIN pairs : pairs[n] = p})
SamePage(u, v) ==
  /\ SameSite(u, v) /\ u.path = v.path
  /\ u.slash = v.slash \/ (Policy.slash # "as_is" /\ ~LooksLikeFile(u) /\ ~LooksLikeFile(v))
  /\ \A p \in ToSet(Kept(u)) \cup ToSet(Kept(v)) : Times(Kept(u), p) = Times(Kept(v), p)
  /\ KeepsFragment(Policy, u) = KeepsFragment(Policy, v)

Escaped(url) == url.query # <<>> /\ \E n \in DOMAIN url.query[1] : url.query[1][n] \in {"%26", "%2B", "%3D"}
(* In a built site, each document is one page (OnePagePerFile).  On the     *)
(* web, two links lead to one URL exactly when they are the same page, and  *)
(* the URL of a row, normalized again as a resume does, is the same row:    *)
(* where no parameter has an escaped delimiter.                             *)
OneUrlPerPage ==
  /\ OnePagePerFile
  /\ \A n, m \in DOMAIN found :
       LET u == Urls[found[n].href]
           v == Urls[found[m].href]
       IN ~Escaped(u) /\ ~Escaped(v) =>
         /\ SamePage(u, v) <=> found[n].to = found[m].to
         /\ Normalized(Policy, found[n].to) = found[n].to
         /\ found[n].internal = IsInternalLink(ScopeOf({Normalized(Policy, Urls[Seeds[k]]) : k \in DOMAIN Seeds}), Urls[Seeds[1]], u)

(* "Decode unnecessary percent-encoding; re-encode consistently": what is   *)
(* asked for is the page that was linked, with its parameters.              *)
AsksWhatIsLinked == \A n \in DOMAIN found : SamePage(Urls[found[n].href], found[n].to)
=============================================================================
