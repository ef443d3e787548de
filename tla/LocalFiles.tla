----------------------------- MODULE LocalFiles -----------------------------
(***************************************************************************)
(* A built site read from its directory (FilesystemFetcher in fetch.rs), as *)
(* a static server would give it: the file itself, the index of a           *)
(* directory, or a file without its extension.  Every document of the tree  *)
(* is a seed, and each link is told by the one form its file is published   *)
(* under, so that a page is not audited twice.                              *)
(*                                                                          *)
(* A disk is [base, tree]: the URL of --base and, for each path, [place,    *)
(* bytes, opens, links]: whether it is a "file", or a symbolic link to one  *)
(* "inside" or "outside" the root; its size; whether it can be read; and    *)
(* the URLs its links stand for.  A path is a sequence of names, a name the *)
(* sequence of its parts between dots, and a URL one of UrlNormalize with   *)
(* its scheme.  Names are as they are in a URL: without %, ? or #.          *)
(***************************************************************************)
EXTENDS Fetcher, UrlNormalize

CONSTANTS Disks,  \* what may be audited
          Policy  \* NormalizePolicy of the job

VARIABLES disk,   \* what is being audited, or NoDisk
          rows    \* the URLs of the crawl, with how each ended and the file it was read from

localVars == <<disk, rows>>

NoDisk == [tree |-> <<>>]
NoFile == <<>>
Index == <<"index", "html">>
Extension(path) == IF Len(Last(path)) > 1 THEN Last(Last(path)) ELSE ""
IsHtml(path) == Extension(path) \in {"html", "htm"}
(* What BodyLimit tells apart of guess_content_type: an unknown type may be *)
(* a compressed sitemap, and an svg is an XML.                              *)
GuessContentType(path) ==
  CASE IsHtml(path) -> "html"
    [] Extension(path) \in {"css", "js", "json", "webp", "avif", "png", "jpg", "gif", "pdf", "woff2"} -> "other"
    [] OTHER -> "xml"

Origin(url) == <<url.scheme, url.host, url.port>>

(* resolve_inner: the files a path may be, in order.                        *)
WithHtml(path) == Append(Front(path), Append(Last(path), "html"))
Candidates(url) ==
  (IF url.slash THEN <<>> ELSE <<url.path>>) \o <<Append(url.path, Index)>>
  \o (IF url.path = <<>> THEN <<>> ELSE <<WithHtml(url.path)>>)
ResolveLexical(url) ==
  LET there == SelectSeq(Candidates(url), LAMBDA p : p \in DOMAIN disk.tree)
  IN IF Origin(url) # Origin(disk.base) \/ there = <<>> THEN NoFile ELSE Head(there)
(* A symbolic link out of the root is refused only when it is to be read.   *)
ResolveFile(url) ==
  LET path == ResolveLexical(url) IN IF path # NoFile /\ disk.tree[path].place = "outside" THEN NoFile ELSE path

(* url_for_relative: joined to the base, whose last segment goes unless it  *)
(* ends with a slash.                                                       *)
UrlUnderBase(path, slash) ==
  [disk.base EXCEPT !.path = (IF disk.base.slash THEN @ ELSE Front(@)) \o path, !.slash = slash]
UrlForRelative(path) ==
  IF path = <<Index>> THEN disk.base
  ELSE IF Last(path) = Index THEN UrlUnderBase(Front(path), TRUE) ELSE UrlUnderBase(path, FALSE)

(* resolve_link: the form of every URL that has a file.                     *)
CanonicalUrl(url) == LET path == ResolveLexical(url) IN IF path = NoFile THEN url ELSE UrlForRelative(path)
ResolveLocal(url) == CanonicalUrl(Normalized(Policy, url))

DiscoverHtml == {UrlForRelative(p) : p \in {q \in DOMAIN disk.tree : disk.tree[q].place = "file" /\ IsHtml(q)}}
LocalSeeds == {Normalized(Policy, u) : u \in IF DiscoverHtml = {} THEN {disk.base} ELSE DiscoverHtml}

Row(state, status, file) == [state |-> state, status |-> status, file |-> file]
Waiting == Row("pending", 0, NoFile)
Read(url) ==
  LET path == ResolveFile(url) IN
  IF path = NoFile THEN Row("done", 404, NoFile)
  ELSE LET entry == disk.tree[path] IN
       CASE entry.bytes > BodyLimit(GuessContentType(path)) -> Row("toolarge", 0, path)
         [] entry.bytes <= BodyLimit(GuessContentType(path)) /\ ~entry.opens -> Row("connection", 0, path)
         [] OTHER -> Row("done", 200, path)

-----------------------------------------------------------------------------

LocalInit == disk = NoDisk /\ rows = <<>>

OpenDisk == disk = NoDisk /\ disk' \in Disks /\ UNCHANGED rows
SeedDisk == disk # NoDisk /\ rows = <<>> /\ rows' = [u \in LocalSeeds |-> Waiting] /\ UNCHANGED disk
(* The links of a page that was read: those of the site are to be read too. *)
ReadPending(url) ==
  /\ rows[url].state = "pending"
  /\ LET row == Read(url)
         linked == IF row.status = 200 /\ IsHtml(row.file) THEN {ResolveLocal(l) : l \in disk.tree[row.file].links} ELSE {}
         scope == ScopeOf(LocalSeeds)
         new == [u \in linked \ DOMAIN rows |-> IF InScopeOf(scope, u) THEN Waiting ELSE Row("skipped", 0, NoFile)]
     IN rows' = [rows EXCEPT ![url] = row] @@ new
  /\ UNCHANGED disk

LocalNext == OpenDisk \/ SeedDisk \/ \E u \in DOMAIN rows : ReadPending(u)
-----------------------------------------------------------------------------
(* Every way to ask a static server for a file.                             *)
WaysTo(path) ==
  LET at(p, slash) == [disk.base EXCEPT !.path = p, !.slash = slash]
      stem == Front(Last(path))
  IN {at(path, FALSE)}
     \cup (IF Last(path) = Index THEN {at(Front(path), s) : s \in {path = <<Index>>, TRUE}} ELSE {})
     \cup (IF Extension(path) = "html" THEN {at(Append(Front(path), stem), s) : s \in BOOLEAN} ELSE {})
Settled == rows # <<>> /\ \A u \in DOMAIN rows : rows[u].state # "pending"

(* With the whole tree read: each document is one row, and no file is two;  *)
(* no link is taken to another host; what was read is what the row and      *)
(* every link to it ask for, and is within the root; and a link of the site *)
(* ends in a 404 only if no file answers to it, by any of its ways, or one  *)
(* out of the root does.                                                    *)
OnePagePerFile ==
  Settled =>
    /\ \A p \in DOMAIN disk.tree : disk.tree[p].place = "file" /\ IsHtml(p) =>
         Cardinality({u \in DOMAIN rows : rows[u].file = p}) = 1
    /\ \A u, v \in DOMAIN rows : rows[u].file = rows[v].file /\ rows[u].file # NoFile => u = v
    /\ \A u \in DOMAIN rows : rows[u].file # NoFile => u \in WaysTo(rows[u].file) /\ disk.tree[rows[u].file].place # "outside"
    /\ \A p \in DOMAIN disk.tree : \A l \in disk.tree[p].links : SameSite(ResolveLocal(l), l)
    /\ \A p \in DOMAIN disk.tree : \A l \in disk.tree[p].links :
         LET row == rows[ResolveLocal(l)] IN
         (\E u \in DOMAIN rows : rows[u].file = p /\ rows[u].status = 200) /\ IsHtml(p) /\ Origin(l) = Origin(disk.base) =>
           IF row.file # NoFile THEN [l EXCEPT !.query = <<>>] \in WaysTo(row.file)
           ELSE LET asked == {f \in DOMAIN disk.tree : [l EXCEPT !.query = <<>>] \in WaysTo(f)}
                IN asked = {} \/ \E f \in asked : disk.tree[f].place = "outside"
=============================================================================
