----------------------------- MODULE AssetRules -----------------------------
(***************************************************************************)
(* Category ASSET (crawlforge-rules, asset.rs).  An image of a page is a    *)
(* record [n, src, alt, anchor]: its place, its URL, and whether its alt    *)
(* and the text of the anchor around it are "none", "blank" or "text".      *)
(***************************************************************************)
EXTENDS CrawlFile, Sequences, TLC

AssetSeverity ==
  ("ASSET-FORM-BROKEN" :> "critical")
  @@ [rule \in {"ASSET-IMG-NO-ALT", "ASSET-IMG-EMPTY-ALT-LINK", "ASSET-IMG-BROKEN", "ASSET-BROKEN",
                "ASSET-IFRAME-BROKEN"} |-> "high"]
  @@ [rule \in {"ASSET-IMG-HEAVY", "ASSET-JS-HEAVY", "ASSET-CSS-HEAVY"} |-> "medium"]

AssetFinding(rule, u, detail) == Finding(rule, AssetSeverity[rule], u, detail, NoGroup)

HeavyBytes == [img |-> 200 * 1024, js |-> 250 * 1024, css |-> 100 * 1024]

(* ---- page rules ---- *)

ImagesShown(f, u) == IF f.pages[u].html /\ Is2xx(f.urls[u].status) THEN f.pages[u].images ELSE {}

AssetImgNoAlt(f, u) ==
  LET mute == {i \in ImagesShown(f, u) : i.alt = "none"}
  IN IF mute # {} THEN {AssetFinding("ASSET-IMG-NO-ALT", u, Cardinality(mute))} ELSE {}

(* A link whose only content is an image without a name: one finding for    *)
(* each image, grouped with the pages that have the same.                   *)
AssetImgEmptyAltLink(f, u) ==
  LET mute == {i \in ImagesShown(f, u) : i.alt = "blank" /\ i.anchor = "blank"}
  IN {Finding("ASSET-IMG-EMPTY-ALT-LINK", "high", u, Cardinality({i \in mute : i.src = s}), <<"img-empty-alt", {s}>>) :
        s \in {i.src : i \in mute}}

AssetPageRules(f, u) == AssetImgNoAlt(f, u) \cup AssetImgEmptyAltLink(f, u)

(* ---- site rules ---- *)

AssetGone(f, u) ==
  IF u \in Internal(f) THEN f.urls[u].status >= 400 ELSE f.urls[u].status \in GoneStatus

ShowingPages(f, u) == {i.page : i \in {j \in f.images : j.src = u}}

AssetImgBroken(f) ==
  {AssetFinding("ASSET-IMG-BROKEN", u, Cardinality(ShowingPages(f, u))) :
     u \in {v \in Rows(f) : ShowingPages(f, v) # {} /\ AssetGone(f, v)}}

AssetImgHeavy(f) ==
  {AssetFinding("ASSET-IMG-HEAVY", u, f.urls[u].bytes) :
     u \in {v \in Rows(f) : ShowingPages(f, v) # {} /\ f.urls[v].status = 200 /\ f.urls[v].bytes > HeavyBytes.img}}

UsingPages(f, u, element) == {l.from : l \in {k \in f.links : k.to = u /\ k.element = element}}

(* A URL used both as style and as script has a finding for each use.       *)
AssetBroken(f) ==
  UNION {{Finding("ASSET-BROKEN", "high", u, Cardinality(UsingPages(f, u, e)), <<"kind", {e}>>) :
            u \in {v \in Rows(f) : UsingPages(f, v, e) # {} /\ AssetGone(f, v)}} : e \in {"link", "script"}}

HeavyResource(f, rule, kind) ==
  {AssetFinding(rule, u, f.resources[u].bytes) :
     u \in {v \in DOMAIN f.resources \cap Internal(f) :
              /\ f.resources[v].kind = kind /\ f.resources[v].status = 200
              /\ f.resources[v].bytes > HeavyBytes[kind]}}

BrokenEmbed(f, rule, element) ==
  {AssetFinding(rule, u, Cardinality(UsingPages(f, u, element))) :
     u \in {v \in Internal(f) : UsingPages(f, v, element) # {} /\ f.urls[v].status >= 400}}

AssetSiteRules(f) ==
  AssetImgBroken(f) \cup AssetImgHeavy(f) \cup AssetBroken(f)
  \cup HeavyResource(f, "ASSET-JS-HEAVY", "js") \cup HeavyResource(f, "ASSET-CSS-HEAVY", "css")
  \cup BrokenEmbed(f, "ASSET-IFRAME-BROKEN", "iframe") \cup BrokenEmbed(f, "ASSET-FORM-BROKEN", "form")
=============================================================================
