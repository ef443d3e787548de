--------------------------- MODULE MCCrawlEngine ---------------------------
(* Small sites for the crawl loop. *)
EXTENDS CrawlEngineInv, TLC

CONSTANTS a, b, c, d, e, f, g, h, x, y   \* pages of the site, and two external URLs

NoLinks     == [u \in Urls |-> <<>>]
NoRedirects == [u \in Urls |-> NoUrl]
TwoHosts    == [u \in Urls |-> IF u \in Internal THEN "site" ELSE "other"]
Nowhere     == <<>>

(* The home page links to itself, to b and to an external; b redirects to  *)
(* c, which only b leads to and which links back.                          *)
ChainLinks     == (a :> <<a, b, x>>) @@ (c :> <<b>>) @@ NoLinks
ChainRedirects == (b :> c) @@ NoRedirects

(* Two ways to d: two clicks through c, three through b and e. *)
RaceLinks == (a :> <<b, c>>) @@ (b :> <<e>>) @@ (e :> <<d>>) @@ (c :> <<d>>) @@ NoLinks

FromA == <<a>>
MapC  == <<a, c>>

(* A home page with one target of each kind, in this order: probed,        *)
(* over the cap of externals, filtered, nofollow and too deep.             *)
FanLinks   == (a :> <<x, y, b, c, h>>) @@ NoLinks
FromADEG   == <<a, d, e, g>>
FanSitemap == <<f, c>>
FanNofollow == {<<a, c>>}

(* A list of three pages, one of them filtered and one that robots.txt     *)
(* rejects; a links to pages that are not in the list, and redirects       *)
(* outside it, to a page of the sitemap.                                   *)
ListLinks     == (a :> <<b, c, x, y>>) @@ NoLinks
ListRedirects == (a :> d) @@ NoRedirects
FromABE       == <<a, b, e>>
ListSitemap   == <<b, d>>
=============================================================================
