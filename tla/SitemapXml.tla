------------------------------ MODULE SitemapXml ------------------------------
(***************************************************************************)
(* What a sitemap declares (sitemap.rs): a <loc> is a page or another       *)
(* sitemap by the element that holds it, never by the name of the file, and *)
(* one inside of an extension (image, video, news) is neither.  The events  *)
(* of the reader are records: [kind, tag] for tags without their prefix,    *)
(* and [kind, url, whole] for a piece of text, which may be one that cannot *)
(* be read.                                                                 *)
(***************************************************************************)
EXTENDS Naturals, Sequences

Extensions == {"image", "video", "news"}
Fresh ==
  [ofSitemap |-> FALSE, inLoc |-> FALSE, text |-> <<>>, ok |-> TRUE, depth |-> 0, urls |-> <<>>, children |-> <<>>,
   error |-> FALSE]

Opened(s, tag) ==
  CASE tag = "sitemap" -> [s EXCEPT !.ofSitemap = TRUE]
    [] tag = "url" -> [s EXCEPT !.ofSitemap = FALSE]
    [] tag \in Extensions -> [s EXCEPT !.depth = @ + 1]
    [] tag = "loc" /\ s.depth = 0 -> [s EXCEPT !.inLoc = TRUE, !.text = <<>>, !.ok = TRUE]
    [] OTHER -> s

(* A <loc> that could be read whole, with something in it.                  *)
Closed(s, tag) ==
  CASE tag = "sitemap" -> [s EXCEPT !.ofSitemap = FALSE]
    [] tag \in Extensions -> [s EXCEPT !.depth = IF @ > 0 THEN @ - 1 ELSE 0]
    [] tag = "loc" /\ s.inLoc ->
         LET out == [s EXCEPT !.inLoc = FALSE] IN
         IF ~s.ok \/ s.text = <<>> THEN out
         ELSE IF s.ofSitemap THEN [out EXCEPT !.children = Append(@, s.text[1])]
         ELSE [out EXCEPT !.urls = Append(@, s.text[1])]
    [] OTHER -> s

(* What is read before an error stays.                                      *)
ParsedUpTo(events) ==
  LET after[n \in 0..Len(events)] ==
        IF n = 0 THEN Fresh
        ELSE LET s == after[n - 1]
                 e == events[n]
             IN IF s.error THEN s
                ELSE CASE e.kind = "start" -> Opened(s, e.tag)
                       [] e.kind = "end" -> Closed(s, e.tag)
                       [] e.kind = "text" ->
                            IF s.inLoc THEN [s EXCEPT !.text = IF e.whole THEN <<e.url>> ELSE @, !.ok = @ /\ e.whole] ELSE s
                       [] e.kind = "malformed" -> [s EXCEPT !.error = TRUE]
  IN after[Len(events)]

(* A gzip that is broken or too large gives nothing but its error.          *)
Parse(body) ==
  IF body.gzip = "unreadable" THEN [urls |-> <<>>, children |-> <<>>, error |-> TRUE]
  ELSE LET s == ParsedUpTo(body.events) IN [urls |-> s.urls, children |-> s.children, error |-> s.error]
=============================================================================
