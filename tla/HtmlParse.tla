------------------------------ MODULE HtmlParse ------------------------------
(***************************************************************************)
(* What a page says, read in one pass (parse.rs and minhash.rs): lol_html   *)
(* gives start tags, end tags and chunks of text in the order of the        *)
(* document and builds no tree, so all that is known of where a token is    *)
(* lives in the accumulator.  A document is a sequence of tokens:           *)
(*   [is |-> "open", tag, kind, value, label]   a start tag; kind is what   *)
(*     tells a meta, link, form, script or a from another, value its        *)
(*     content, href, src or action, label whether it has aria-label or     *)
(*     title; an img has src, lazy, srcset and lazySrcset instead           *)
(*   [is |-> "close", tag]                      an end tag                  *)
(*   [is |-> "text", chars]                     a text node: its characters *)
(* as the source has them, so that an entity is "&", its name, ";".  Values *)
(* of attributes are decoded, and fragments and attributes nobody asks for  *)
(* are left out.                                                            *)
(***************************************************************************)
EXTENDS Naturals, FiniteSets, SequencesExt

CONSTANTS Documents,       \* the documents a server may answer with
          MaxSchemaTypes,  \* types of JSON-LD that are kept
          MinShingles      \* shingles below which a text has no signature

VARIABLES doc,   \* the document
          at,    \* the token to be read
          given, \* characters of that text node already given
          open,  \* the elements lol_html holds open: tag, and the end handlers set for it
          acc,   \* PageAccumulator, with its page
          parse, \* "idle", "body" to be read, "reading", or how it ended: "whole" or "cut"
          around, \* for the properties: the elements around each token of doc
          halved \* for the properties: the entities a chunk cut, by token and place

htmlVars == <<doc, at, given, open, acc, parse, around, halved>>

ASSUME HtmlAssumption == MaxSchemaTypes \in Nat /\ MinShingles \in Nat \ {0}

-----------------------------------------------------------------------------
(* Tags, and the document as a tree, which the parser never has. *)

RegionTags == {"nav", "main", "footer", "aside"}
NonContentTags == {"script", "style", "nav", "footer", "noscript", "template"}
HeadElements ==
  {"html", "head", "base", "basefont", "bgsound", "link", "meta", "title", "script", "style", "noscript", "template", "noframes"}
HeadOpaque == {"title", "script", "style", "noscript", "template", "noframes"}
HeadingTags == {"h1", "h2"}
VoidTags == {"base", "link", "meta", "img"}

TreeOf(tokens) ==
  LET opens(n) == tokens[n].is = "open" /\ tokens[n].tag \notin VoidTags
      depth == [n \in 0..Len(tokens) |-> Cardinality({k \in 1..n : opens(k)})
                                         - Cardinality({k \in 1..n : tokens[k].is = "close"})]
  IN [n \in DOMAIN tokens |-> {k \in 1..(n - 1) : opens(k) /\ \A j \in k..(n - 1) : depth[j] > depth[k - 1]}]

Blank(chars) == \A n \in DOMAIN chars : chars[n] = " "
(* split_whitespace.                                                        *)
Words(chars) ==
  LET add(ws, c) == IF c = " " THEN Append(ws, <<>>) ELSE [ws EXCEPT ![Len(ws)] = Append(@, c)]
  IN SelectSeq(FoldLeft(add, <<<<>>>>, chars), LAMBDA w : w # <<>>)

(* The names of entities that are known, one of each kind: any other stays  *)
(* as it came.                                                              *)
NamedEntities == [eacute |-> "E", nbsp |-> " ", amp |-> "&"]
Entities(chars) ==
  {n \in 1..Len(chars) : n + 2 <= Len(chars) /\ chars[n] = "&" /\ chars[n + 1] \in DOMAIN NamedEntities /\ chars[n + 2] = ";"}
DecodedBut(chars, left) ==
  LET es == Entities(chars) \ left IN
  FlattenSeq([n \in DOMAIN chars |-> IF n \in es THEN <<NamedEntities[chars[n + 1]]>>
                                     ELSE IF {n - 1, n - 2} \cap es # {} THEN <<>> ELSE <<chars[n]>>])
DecodeEntities(chars) == DecodedBut(chars, {})

-----------------------------------------------------------------------------
(* The signature of the text: shingles of three words. *)

MinHasher == [word |-> <<>>, window |-> <<>>, shingles |-> <<>>]
EndWord(h) ==
  IF h.word = <<>> THEN h
  ELSE IF Len(h.window) < 2 THEN [h EXCEPT !.word = <<>>, !.window = Append(@, h.word)]
  ELSE [word |-> <<>>, window |-> <<h.window[2], h.word>>, shingles |-> Append(h.shingles, h.window \o <<h.word>>)]
(* Whatever is not a letter or a digit ends a word, and so does the end of  *)
(* a text node; a chunk does not.                                           *)
Separators == {" ", ".", "&", ";"}
Push(h, chunk, endOfNode) ==
  LET add(g, c) == IF c \in Separators THEN EndWord(g) ELSE [g EXCEPT !.word = Append(@, c)]
      pushed == FoldLeft(add, h, chunk)
  IN IF endOfNode THEN EndWord(pushed) ELSE pushed
(* The minima over all permutations depend on the set of shingles.          *)
Signature(h) ==
  LET shingles == EndWord(h).shingles IN IF Len(shingles) < MinShingles THEN {} ELSE ToSet(shingles)

-----------------------------------------------------------------------------
(* The accumulator. *)

(* What comes before the first <html> or <head> closes a head that never    *)
(* opens.                                                                   *)
ContentBeforeHtml(tokens) ==
  LET visible == SelectSeq(tokens, LAMBDA t : t.is # "text" \/ ~Blank(t.chars))
  IN IF visible = <<>> THEN "" ELSE
     LET t == visible[1] IN
     IF t.is = "open" THEN (IF t.tag \in {"html", "head"} THEN "" ELSE t.tag) ELSE "#text"

Accumulator(tokens) ==
  [regions |-> <<>>, nonContent |-> 0, headRaw |-> 0, bodyStarted |-> ContentBeforeHtml(tokens) # "",
   svg |-> 0, inTitle |-> FALSE, inLdJson |-> FALSE, buffer |-> <<>>,
   heading |-> <<>>, anchor |-> <<>>, minhash |-> MinHasher,
   title |-> <<>>, titles |-> 0, description |-> "", robots |-> "", viewport |-> "", refresh |-> "",
   canonical |-> "", canonicals |-> 0, amp |-> "", lang |-> "", hreflang |-> <<>>, headings |-> <<>>,
   links |-> <<>>, images |-> <<>>, og |-> <<>>, twitter |-> <<>>, types |-> <<>>,
   words |-> 0, body |-> <<>>, outsideHead |-> {}, closedBy |-> ContentBeforeHtml(tokens)]

CurrentRegion(s) == IF s.regions = <<>> THEN "unknown" ELSE Last(s.regions)
NoteIfOutsideHead(s, what) == IF s.bodyStarted THEN [s EXCEPT !.outsideHead = @ \cup {what}] ELSE s
PushLink(s, element, href, nofollow) ==
  [s EXCEPT !.links = Append(@, [href |-> href, anchor |-> <<>>, nofollow |-> nofollow, element |-> element,
                                 region |-> CurrentRegion(s), labelled |-> FALSE])]

-----------------------------------------------------------------------------
(* Handlers of start tags: (s, el, o) to the accumulator, o the elements    *)
(* that were open.                                                          *)

Within(o, tags) == \E n \in DOMAIN o : o[n].tag \in tags

(* Only the descendants of head and the children of html can close the      *)
(* head, and what is inside of an opaque one does not.                      *)
InHeadSelector(o) == Within(o, {"head"}) \/ (o # <<>> /\ Last(o).tag = "html")
Opaque(s, el, o) == InHeadSelector(o) /\ ~s.bodyStarted /\ s.headRaw = 0 /\ el.tag \in HeadOpaque
OnHeadNeverOpaque(s, el, o) ==
  IF ~InHeadSelector(o) \/ s.bodyStarted \/ el.tag \in HeadElements THEN s
  ELSE [s EXCEPT !.bodyStarted = TRUE, !.closedBy = el.tag]
OnHead(s, el, o) ==
  IF ~InHeadSelector(o) \/ s.bodyStarted \/ s.headRaw > 0 THEN s
  ELSE IF el.tag \in HeadOpaque THEN [s EXCEPT !.headRaw = @ + 1]
  ELSE IF el.tag \in HeadElements THEN s
  ELSE [s EXCEPT !.bodyStarted = TRUE, !.closedBy = el.tag]

OnRegion(s, el) == IF el.tag \in RegionTags THEN [s EXCEPT !.regions = Append(@, el.tag)] ELSE s
OnNonContentOnce(s, el) ==
  IF el.tag \in NonContentTags THEN [s EXCEPT !.nonContent = IF @ = 0 THEN 1 ELSE @] ELSE s
OnNonContent(s, el) == IF el.tag \in NonContentTags THEN [s EXCEPT !.nonContent = @ + 1] ELSE s

(* The text of a label goes to the link that is being read.                 *)
Labelled(s) == IF s.anchor = <<>> THEN s ELSE [s EXCEPT !.links[s.anchor[1]].labelled = TRUE]
OnSvg(s, el) ==
  IF el.tag # "svg" THEN s ELSE LET in == [s EXCEPT !.svg = @ + 1] IN IF el.label THEN Labelled(in) ELSE in

(* An icon has a title of its own; the first text wins.                     *)
ReadsTitle(s, el) == el.tag = "title" /\ s.svg = 0 /\ s.title = <<>>
OnTitle(s, el) ==
  IF el.tag # "title" \/ s.svg > 0 THEN s
  ELSE NoteIfOutsideHead([s EXCEPT !.titles = @ + 1, !.inTitle = @ \/ s.title = <<>>], "title")

OnHtml(s, el) == IF el.tag = "html" /\ el.value # "" THEN [s EXCEPT !.lang = el.value] ELSE s

(* The first og:image is a link too.                                        *)
OnOpenGraph(s, el) ==
  LET first == el.kind = "og:image" /\ el.value # "" /\ \A n \in DOMAIN s.og : s.og[n][1] # "og:image"
      linked == IF first THEN PushLink(s, "meta", el.value, FALSE) ELSE s
  IN [linked EXCEPT !.og = Append(@, <<el.kind, el.value>>)]
OnMeta(s, el) ==
  IF el.tag # "meta" THEN s ELSE
  CASE el.kind = "refresh" -> [s EXCEPT !.refresh = el.value]
    [] el.kind = "description" -> [NoteIfOutsideHead(s, "meta description") EXCEPT !.description = el.value]
    [] el.kind = "robots" -> [NoteIfOutsideHead(s, "meta robots") EXCEPT !.robots = el.value]
    [] el.kind = "googlebot" -> NoteIfOutsideHead(s, "meta robots")
    [] el.kind = "viewport" -> [s EXCEPT !.viewport = el.value]
    [] el.kind = "twitter:card" -> [s EXCEPT !.twitter = Append(@, <<el.kind, el.value>>)]
    [] el.kind \in {"og:image", "og:title"} -> OnOpenGraph(s, el)
    [] OTHER -> s

(* The first canonical wins; an alternate says its language in its label.   *)
OnLink(s, el) ==
  IF el.tag # "link" \/ el.value = "" THEN s ELSE
  CASE el.kind = "canonical" ->
         [NoteIfOutsideHead(s, "canonical") EXCEPT !.canonicals = @ + 1, !.canonical = IF @ = "" THEN el.value ELSE @]
    [] el.kind = "amphtml" -> [s EXCEPT !.amp = el.value]
    [] el.kind = "alternate" /\ el.label ->
         [NoteIfOutsideHead(s, "hreflang") EXCEPT !.hreflang = Append(@, el.value)]
    [] el.kind = "stylesheet" -> PushLink(s, "link", el.value, FALSE)
    [] OTHER -> s

OnHeading(s, el) == IF el.tag \in HeadingTags THEN [s EXCEPT !.heading = <<el.tag, <<>>>>] ELSE s

(* A link with an empty href is none, and neither is an anchor by name; its *)
(* label, though, is of the link that is being read.                        *)
OnAnchor(s, el) ==
  IF el.tag # "a" THEN s
  ELSE LET linked == PushLink(s, "a", el.value, el.kind = "nofollow")
           read == IF el.value = "" THEN s ELSE [linked EXCEPT !.anchor = <<Len(linked.links), <<>>>>]
       IN IF el.label THEN Labelled(read) ELSE read

(* The image a lazy loader put elsewhere: src, unless it is empty or a      *)
(* placeholder; then the lazy src, then the first of the lazy srcset.       *)
IsDataUri(v) == v = "data:"
Placeholder(el) == el.src = "" \/ IsDataUri(el.src)
ImageSrc(el) ==
  IF ~Placeholder(el) THEN el.src
  ELSE IF el.lazy # "" /\ ~IsDataUri(el.lazy) THEN el.lazy
  ELSE IF el.lazySrcset # "" /\ ~IsDataUri(el.lazySrcset) THEN el.lazySrcset ELSE el.src
HasSrcset(el) == el.srcset # "" \/ (Placeholder(el) /\ el.lazySrcset # "")
OnImg(s, el) ==
  IF el.tag # "img" \/ (ImageSrc(el) = "" /\ ~HasSrcset(el)) THEN s
  ELSE LET of == IF s.anchor = <<>> THEN 0 ELSE s.anchor[1]
           seen == [s EXCEPT !.images = Append(@, [src |-> ImageSrc(el), srcset |-> HasSrcset(el), link |-> of])]
       IN IF ImageSrc(el) = "" THEN seen ELSE PushLink(seen, "img", ImageSrc(el), FALSE)

OnResource(s, el) ==
  IF el.tag \in {"script", "iframe"} /\ el.value # "" THEN PushLink(s, el.tag, el.value, FALSE)
  ELSE IF el.tag = "form" /\ el.value # "" /\ el.kind \in {"", "get"} THEN PushLink(s, "form", el.value, FALSE)
  ELSE s

IsLdJson(el) == el.tag = "script" /\ el.kind = "ld+json"
OnLdJson(s, el) == IF IsLdJson(el) THEN [s EXCEPT !.inLdJson = TRUE] ELSE s

(* All the handlers of a start tag, in the order they were registered, and  *)
(* the ones they leave for the end tag.                                     *)
Started(s, el, o) ==
  LET shell == OnNonContent(OnRegion(OnHead(s, el, o), el), el) IN
  IF el.tag = "img" THEN OnImg(shell, el)
  ELSE LET named == OnLink(OnMeta(OnHtml(OnTitle(OnSvg(shell, el), el), el), el), el)
       IN OnLdJson(OnResource(OnAnchor(OnHeading(named, el), el), el), el)

EndHandlers(s, el, o) ==
  LET when(condition, handler) == IF condition THEN <<handler>> ELSE <<>> IN
  when(Opaque(s, el, o), "opaque") \o when(el.tag \in RegionTags, "region")
  \o when(el.tag \in NonContentTags, "content") \o when(el.tag = "svg", "svg")
  \o when(ReadsTitle(s, el), "title") \o when(el.tag \in HeadingTags, "heading")
  \o when(el.tag = "a" /\ el.value # "", "anchor") \o when(IsLdJson(el), "schema")

-----------------------------------------------------------------------------
(* Handlers of end tags. *)

Less1(n) == IF n = 0 THEN 0 ELSE n - 1
(* Types are kept once, up to a limit, in the order of the walk over all    *)
(* that the JSON holds: a character of a script stands for one type.        *)
ExtractSchemaTypes(types, buffer) ==
  FoldLeft(LAMBDA ts, t : IF Len(ts) < MaxSchemaTypes /\ ~Contains(ts, t) THEN Append(ts, t) ELSE ts, types, buffer)

EndHandled(s, handler) ==
  CASE handler = "opaque" -> [s EXCEPT !.headRaw = Less1(@)]
    [] handler = "region" -> IF s.regions = <<>> THEN s ELSE [s EXCEPT !.regions = Front(@)]
    [] handler = "content" -> [s EXCEPT !.nonContent = Less1(@)]
    [] handler = "svg" -> [s EXCEPT !.svg = Less1(@)]
    [] handler = "title" -> [s EXCEPT !.inTitle = FALSE]
    [] handler = "heading" ->
         IF s.heading = <<>> THEN s
         ELSE [s EXCEPT !.heading = <<>>, !.headings = Append(@, <<s.heading[1], Words(DecodeEntities(s.heading[2]))>>)]
    [] handler = "anchor" ->
         IF s.anchor = <<>> THEN s
         ELSE [s EXCEPT !.anchor = <<>>, !.links[s.anchor[1]].anchor = Words(DecodeEntities(s.anchor[2]))]
    [] handler = "schema" ->
         [s EXCEPT !.inLdJson = FALSE, !.buffer = <<>>, !.types = ExtractSchemaTypes(@, s.buffer)]

-----------------------------------------------------------------------------
(* Handlers of text: a chunk, and whether its node ends with it. *)

OnHeadText(s, chunk, o) ==
  IF Within(o, {"head"}) /\ ~s.bodyStarted /\ s.headRaw = 0 /\ ~Blank(chunk)
  THEN [s EXCEPT !.bodyStarted = TRUE, !.closedBy = "#text"] ELSE s
OnTitleText(s, chunk, o) ==
  IF Within(o, {"title"}) /\ s.inTitle THEN [s EXCEPT !.title = <<IF @ = <<>> THEN chunk ELSE @[1] \o chunk>>] ELSE s
(* Another element splits a heading or a link in several nodes, whose words *)
(* are not to be joined.                                                    *)
SpacedNever(text, chunk, last) == text \o chunk
Spaced(text, chunk, last) == text \o chunk \o (IF last THEN <<" ">> ELSE <<>>)
OnHeadingText(s, chunk, last, o) ==
  IF Within(o, HeadingTags) /\ s.heading # <<>> THEN [s EXCEPT !.heading[2] = Spaced(@, chunk, last)] ELSE s
OnAnchorText(s, chunk, last, o) ==
  IF Within(o, {"a"}) /\ s.anchor # <<>> THEN [s EXCEPT !.anchor[2] = Spaced(@, chunk, last)] ELSE s
OnLdJsonText(s, chunk) == IF s.inLdJson THEN [s EXCEPT !.buffer = @ \o chunk] ELSE s
(* The words of the body, chunk by chunk and as the source has them; the    *)
(* signature leaves sidebars out, puts together a word that was cut, and    *)
(* decodes what is whole in the chunk.                                      *)
OnBodyText(s, chunk, last, o) ==
  IF ~Within(o, {"body"}) \/ s.nonContent > 0 THEN s
  ELSE LET words == Words(chunk) IN
       [s EXCEPT !.minhash = IF CurrentRegion(s) = "aside" THEN @ ELSE Push(@, DecodeEntities(chunk), last),
                 !.words = @ + Len(words), !.body = IF words = <<>> THEN @ ELSE @ \o words]
Texted(s, chunk, last, o) ==
  LET inline == OnAnchorText(OnHeadingText(OnTitleText(OnHeadText(s, chunk, o), chunk, o), chunk, last, o), chunk, last, o)
      script == IF Within(o, {"script"}) THEN OnLdJsonText(inline, chunk) ELSE inline
  IN OnBodyText(script, chunk, last, o)

(* What is left for the end: the title is one text.                         *)
Finished(s) == [s EXCEPT !.title = IF @ = <<>> THEN <<>> ELSE <<Words(DecodeEntities(@[1]))>>]

-----------------------------------------------------------------------------
(* One token at a time. *)

HtmlInit ==
  doc = <<>> /\ at = 1 /\ given = 0 /\ open = <<>> /\ acc = Accumulator(<<>>) /\ parse = "idle" /\ around = <<>> /\ halved = {}

(* parse_html starts on a body that was read.                               *)
Begin ==
  /\ parse = "body"
  /\ \E d \in Documents : doc' = d /\ acc' = Accumulator(d) /\ around' = TreeOf(d)
  /\ parse' = "reading"
  /\ UNCHANGED <<at, given, open, halved>>

Reading(kind) == parse = "reading" /\ at <= Len(doc) /\ doc[at].is = kind

StartTag ==
  /\ Reading("open")
  /\ acc' = Started(acc, doc[at], open)
  /\ open' = IF doc[at].tag \in VoidTags THEN open
             ELSE Append(open, [tag |-> doc[at].tag, ends |-> EndHandlers(acc, doc[at], open)])
  /\ at' = at + 1
  /\ UNCHANGED <<doc, given, parse, around, halved>>

(* An end tag closes all that was open inside; one with nothing to close is *)
(* ignored.                                                                 *)
EndTag ==
  /\ Reading("close")
  /\ LET matching == {n \in DOMAIN open : open[n].tag = doc[at].tag} IN
     IF matching = {} THEN UNCHANGED <<acc, open>>
     ELSE LET n == CHOOSE m \in matching : \A k \in matching : k <= m IN
          /\ open' = SubSeq(open, 1, n - 1)
          /\ acc' = FoldLeft(EndHandled, acc, FlattenSeq([k \in 1..(Len(open) - n + 1) |-> open[n + k - 1].ends]))
  /\ at' = at + 1
  /\ UNCHANGED <<doc, given, parse, around, halved>>

(* A text node comes in chunks, cut anywhere, the last of which may be      *)
(* empty.                                                                   *)
Chunk ==
  /\ Reading("text")
  /\ LET chars == doc[at].chars IN
     \E n \in 0..(Len(chars) - given), last \in BOOLEAN :
       /\ IF last THEN given + n = Len(chars) ELSE n > 0
       /\ acc' = Texted(acc, SubSeq(chars, given + 1, given + n), last, open)
       /\ halved' = halved \cup {<<at, e>> : e \in {k \in Entities(chars) : given + n \in {k, k + 1}}}
       /\ IF last THEN at' = at + 1 /\ given' = 0 ELSE given' = given + n /\ UNCHANGED at
  /\ UNCHANGED <<doc, open, parse, around>>

(* The end, or an error of lol_html: what was read so far is the page.      *)
Ending(as) == parse' = as /\ acc' = Finished(acc) /\ UNCHANGED <<doc, at, given, open, around, halved>>
Finish == parse = "reading" /\ at > Len(doc) /\ Ending("whole")
Malformed == parse = "reading" /\ at <= Len(doc) /\ Ending("cut")

HtmlNext == StartTag \/ EndTag \/ Chunk \/ Finish \/ Malformed
-----------------------------------------------------------------------------
(* What the document says, by its tree. *)

Opens(n) == doc[n].is = "open" /\ doc[n].tag \notin VoidTags
Around(n) == around[n]
Inside(n, tags) == \E k \in Around(n) : doc[k].tag \in tags
Innermost(n, tags) ==
  LET of == {k \in Around(n) : doc[k].tag \in tags}
  IN IF of = {} THEN 0 ELSE CHOOSE k \in of : \A j \in of : j <= k

(* Every end tag closes the element that was opened last, and no heading or *)
(* link is inside of another.                                               *)
Nested ==
  /\ \A n \in DOMAIN doc :
       doc[n].is = "close" => Around(n) # {} /\ doc[Innermost(n, {doc[k].tag : k \in Around(n)})].tag = doc[n].tag
  /\ Cardinality({n \in DOMAIN doc : Opens(n)}) = Cardinality({n \in DOMAIN doc : doc[n].is = "close"})
  /\ \A n \in DOMAIN doc : Opens(n) =>
       /\ doc[n].tag \in HeadingTags => ~Inside(n, HeadingTags)
       /\ doc[n].tag = "a" => ~Inside(n, {"a"})

Positions(test(_)) == SetToSortSeq({n \in DOMAIN doc : test(n)}, <)
TextIn(k) == {n \in DOMAIN doc : doc[n].is = "text" /\ k \in Around(n)}
TextOf(k) == FlattenSeq([m \in 1..Cardinality(TextIn(k)) |-> Words(DecodeEntities(doc[SetToSortSeq(TextIn(k), <)[m]].chars))])

IsTag(n, tags) == doc[n].is = "open" /\ doc[n].tag \in tags
WrittenHeadings ==
  LET ns == Positions(LAMBDA n : IsTag(n, HeadingTags)) IN [m \in DOMAIN ns |-> <<doc[ns[m]].tag, TextOf(ns[m])>>]
(* The links a reader follows: where they lead, what they say, and where in *)
(* the page they are.                                                       *)
WrittenAnchors ==
  LET ns == Positions(LAMBDA n : IsTag(n, {"a"}) /\ doc[n].value # "") IN
  [m \in DOMAIN ns |->
     [href |-> doc[ns[m]].value, anchor |-> TextOf(ns[m]),
      region |-> LET k == Innermost(ns[m], RegionTags) IN IF k = 0 THEN "unknown" ELSE doc[k].tag,
      labelled |-> \/ doc[ns[m]].label
                   \/ \E k \in DOMAIN doc : ns[m] \in Around(k) /\ IsTag(k, {"svg", "a"}) /\ doc[k].label]]
ReadAnchors ==
  LET as == SelectSeq(acc.links, LAMBDA l : l.element = "a") IN
  [m \in DOMAIN as |-> [href |-> as[m].href, anchor |-> as[m].anchor, region |-> as[m].region, labelled |-> as[m].labelled]]

(* The link around each image, by its href.                                 *)
WrittenImages ==
  LET ns == Positions(LAMBDA n : IsTag(n, {"img"}) /\ (ImageSrc(doc[n]) # "" \/ HasSrcset(doc[n]))) IN
  [m \in DOMAIN ns |-> LET k == Innermost(ns[m], {"a"}) IN IF k = 0 THEN "" ELSE doc[k].value]
ReadImages == [m \in DOMAIN acc.images |-> LET l == acc.images[m].link IN IF l = 0 THEN "" ELSE acc.links[l].href]

WrittenTitle ==
  LET with == {n \in DOMAIN doc : IsTag(n, {"title"}) /\ ~Inside(n, {"svg"}) /\ TextIn(n) # {}}
  IN IF with = {} THEN <<>> ELSE TextOf(CHOOSE n \in with : \A k \in with : n <= k)
WrittenTitles == Cardinality({n \in DOMAIN doc : IsTag(n, {"title"}) /\ ~Inside(n, {"svg"})})

Content == {n \in DOMAIN doc : doc[n].is = "text" /\ Inside(n, {"body"}) /\ ~Inside(n, NonContentTags)}
WordsIn(ns) == FlattenSeq([m \in 1..Cardinality(ns) |-> Words(doc[SetToSortSeq(ns, <)[m]].chars)])
(* The shingles of the words of a text, each word without its dots; an      *)
(* entity that was cut is its name.                                         *)
Plainly(n) ==
  LET chars == DecodedBut(doc[n].chars, {e \in DOMAIN doc[n].chars : <<n, e>> \in halved})
  IN Words([m \in DOMAIN chars |-> IF chars[m] \in Separators THEN " " ELSE chars[m]])
WrittenShingles ==
  LET ns == {n \in Content : LET k == Innermost(n, RegionTags) IN k = 0 \/ doc[k].tag # "aside"}
      ws == FlattenSeq([m \in 1..Cardinality(ns) |-> Plainly(SetToSortSeq(ns, <)[m])])
      all == {SubSeq(ws, n, n + 2) : n \in 1..(IF Len(ws) < 2 THEN 0 ELSE Len(ws) - 2)}
  IN IF Len(ws) < MinShingles + 2 THEN {} ELSE all

(* Where a browser closes the head: at the first tag that may not be in it, *)
(* or text, that is not inside of an opaque element; after the head, other  *)
(* than its own elements, anything opens the body.                          *)
Bare(n) == ~Inside(n, HeadOpaque)
LeavesHead(n) ==
  /\ Bare(n)
  /\ \/ doc[n].is = "open" /\ doc[n].tag \notin HeadElements
     \/ doc[n].is = "text" /\ ~Blank(doc[n].chars)
     \/ IsTag(n, {"noscript"}) /\ \E k \in 1..(n - 1) : doc[k].is = "close" /\ doc[k].tag = "head"
InBody(n) == \E k \in 1..(n - 1) : LeavesHead(k)
Metadata(n) ==
  IF doc[n].is # "open" THEN ""
  ELSE CASE doc[n].tag = "title" /\ ~Inside(n, {"svg"}) -> "title"
         [] doc[n].tag = "meta" /\ doc[n].kind = "description" -> "meta description"
         [] doc[n].tag = "meta" /\ doc[n].kind \in {"robots", "googlebot"} -> "meta robots"
         [] doc[n].tag = "link" /\ doc[n].kind = "canonical" /\ doc[n].value # "" -> "canonical"
         [] doc[n].tag = "link" /\ doc[n].kind = "alternate" /\ doc[n].label /\ doc[n].value # "" -> "hreflang"
         [] OTHER -> ""
Lost == {Metadata(n) : n \in {k \in DOMAIN doc : Metadata(k) # "" /\ InBody(k)}}
-----------------------------------------------------------------------------
(* Properties. *)

(* Of a well formed document, whatever chunks its text came in, the pass    *)
(* without a tree gives what the tree says: the title, the headings, the    *)
(* links with their text, label and region, the link around each image, and *)
(* the signature, in which an entity is what it stands for unless a chunk   *)
(* cut it: then, and only then, it is read as its name.                     *)
ReadAsWritten ==
  parse = "whole" /\ Nested =>
    /\ acc.headings = WrittenHeadings /\ ReadAnchors = WrittenAnchors /\ ReadImages = WrittenImages
    /\ (IF acc.title = <<>> THEN <<>> ELSE acc.title[1]) = WrittenTitle /\ acc.titles = WrittenTitles
    /\ Signature(acc.minhash) = WrittenShingles
    /\ acc.regions = <<>> /\ acc.nonContent = 0 /\ acc.svg = 0 /\ acc.heading = <<>> /\ acc.anchor = <<>>

(* word_count and the text for searches are of the source of the content of *)
(* the body, entities and all: what a space does not separate there is one  *)
(* word.  Such a word may be told in pieces where lol_html cut it, but never *)
(* lost or mixed with the next, and none is from outside of the content.    *)
WordsNeverLost ==
  parse = "whole" /\ Nested =>
    /\ acc.words = Len(acc.body) /\ acc.words >= Len(WordsIn(Content))
    /\ FlattenSeq(acc.body) = FlattenSeq(WordsIn(Content))

(* A document that opens its html and its head: the metadata that is told   *)
(* to be outside of the head is what a browser leaves out, except where     *)
(* only text, or a noscript, between the head and the body opened the body. *)
OpensHead == ContentBeforeHtml(doc) = ""
Unseen(n) ==
  LeavesHead(n) /\ ~Inside(n, {"head", "body"})
  /\ (doc[n].is = "text" \/ IsTag(n, {"noscript"}) \/ ~Inside(n, {"html"}))
LossesTold ==
  parse = "whole" /\ Nested /\ OpensHead =>
    /\ acc.outsideHead \subseteq Lost
    /\ (\A n \in DOMAIN doc : ~Unseen(n)) => acc.outsideHead = Lost
    /\ acc.outsideHead # {} => acc.closedBy # ""

=============================================================================
