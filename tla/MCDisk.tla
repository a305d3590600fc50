------------------------------- MODULE MCDisk -------------------------------
(***************************************************************************)
(* What the pipeline keeps on the operator's machine and what the console  *)
(* makes of it, side by side: a behaviour is of one part, and the others   *)
(* stand still.                                                            *)
(***************************************************************************)
EXTENDS StateFile, Download, Surface, Build, CityFile, CityForm, CostPanel, Watching

CONSTANTS w1, w2, r1, i1, i2, i3, i4, p1, p2, moon, typed, a, b

VARIABLE part

-----------------------------------------------------------------------------
(* A town of four tiles, whose context ends on their borders, and one of   *)
(* two; tiles listed twice, listed on a later page, and never listed.      *)
Box(w, s, e, n) == [west |-> w, south |-> s, east |-> e, north |-> n]
TwoBoxes == {Box(4, 4, 8, 8), Box(5, 4, 6, 5)}
FourTiles == {3, 6} \X {6, 9}
TwoCatalogues ==
    {<<<<3, 6>>, <<3, 6>>, <<9, 6>>, <<3, 9>>, <<6, 9>>, <<6, 6>>>>,
     <<<<6, 6>>, <<3, 6>>, <<3, 9>>>>}

-----------------------------------------------------------------------------
(* Five rows of six cells.  The third column has no ground points, so that *)
(* the terrain is filled there from either side.                           *)
First(c, z, k) == [cell |-> c, z |-> z, kind |-> k, first |-> TRUE]
Soil(c, z) == [cell |-> c, z |-> z, kind |-> "ground", first |-> FALSE]
Plot == (1..5) \X (1..6)
Hits(cells, z, k) == {First(c, z, k) : c \in cells}

Land(mound, height) ==
    {Soil(c, IF c \in mound THEN height ELSE 0) : c \in {d \in Plot : d[2] # 3}}
House ==
    Hits({<<1, 5>>, <<1, 6>>}, 6, "building")
        \cup {First(<<2, 5>>, 6, "vegetation"), First(<<2, 6>>, 3, "vegetation"),
              First(<<4, 6>>, 50, "noise")}
Cable == Hits({<<1, 6>>}, 7, "vegetation") \cup Hits({3} \X (1..3), 8, "vegetation")
Awning == Hits({5} \X (1..2), 3, "vegetation")
Lime ==
    {First(<<4, 5>>, 4, "vegetation"), First(<<5, 6>>, 7, "vegetation"),
     First(<<5, 5>>, 5, "vegetation")}
Terrace == Hits({3, 4} \X (1..3), 8, "other")
Pergola ==
    Hits({3, 5} \X {1, 3}, 4, "vegetation")
        \cup Hits({<<3, 2>>, <<4, 1>>, <<4, 3>>, <<5, 2>>}, 6, "vegetation")
        \cup {First(<<4, 2>>, 5, "other")}

Footprints(one, two) == [c \in Plot |-> IF c \in one THEN 1 ELSE IF c \in two THEN 2 ELSE 0]
HouseAt == {1, 2} \X {5, 6}
Surveyed(f, i, t) == [files |-> f, ids |-> i, trees |-> t]

ManySurveys ==
    {Surveyed(<<Land({<<3, 1>>}, h) \cup House, Cable \cup Awning \cup Lime>>, i, t) :
        i \in {Footprints({}, {}), Footprints(HouseAt, {<<3, 1>>})},
        t \in {{<<5, 6>>}, {<<1, 1>>}}, h \in {4, 9}}
    \cup {Surveyed(<<Lime, Land({}, 0), House \cup Terrace>>,
                   Footprints({4} \X (1..3), HouseAt), {<<4, 5>>, <<6, 1>>}),
          Surveyed(<<Pergola, Land({}, 0) \cup House>>, Footprints({}, {<<2, 6>>}), {<<4, 1>>}),
          Surveyed(<<House, {s \in Land({}, 0) : s.cell[2] < 4}>>, Footprints({}, {}), {})}

ThreeQuarters == <<3, 4>>
OneToThree == <<1, 3>>

-----------------------------------------------------------------------------
(* Four cells of an old town, with crowns over and beside its walls, and   *)
(* four of its outskirts, where a cell is in the open.                     *)
Four(s) == [n \in 1..4 |-> s[n]]
OldTown ==
    [angle |-> Four(<<6, 4, 0, 5>>), free |-> Four(<<6, 1, 0, 5>>),
     class |-> Four(<<"building", "vegetation", "none", "building">>),
     dsm |-> Four(<<0, 6, 9, 4>>), dtm |-> Four(<<0, 1, 2, 2>>),
     label |-> Four(<<"ground", "vegetation", "building", "vegetation">>),
     zone |-> Four(<<"dense", "near", "none", "none">>)]
Outskirts ==
    [angle |-> Four(<<0, 3, 2, 0>>), free |-> Four(<<0, 0, 2, 0>>),
     class |-> Four(<<"none", "vegetation", "ground", "vegetation">>),
     dsm |-> Four(<<5, 5, 5, 7>>), dtm |-> Four(<<1, 1, 5, 5>>),
     label |-> Four(<<"vegetation", "vegetation", "ground", "ground">>),
     zone |-> Four(<<"near", "dense", "none", "none">>)]

Job(g, ar, t, s) == [grid |-> g, area |-> ar, trees |-> t, scene |-> s]
FewPlans ==
    {Job(1..4, 1..4, FALSE, OldTown), Job(1..4, {1, 2}, TRUE, OldTown),
     Job(1..3, 1..3, FALSE, Outskirts), Job(1..4, 1..4, TRUE, Outskirts),
     Job(1..4, {}, TRUE, Outskirts)}

Half == <<1, 2>>

-----------------------------------------------------------------------------
(* A city without an area, one with, and one that names a key twice.       *)
Entry(k, v, c) == [key |-> k, value |-> v, comment |-> c]
OldOutline == Box(2, 2, 8, 8)
Plain ==
    <<Entry("name", "town", "ours"), Entry("timezone", "local", "IANA"),
      Entry("bbox", Box(0, 0, 8, 8), "metres")>>
Twice ==
    <<Entry("bbox", Box(0, 0, 40, 40), "was"), Entry("name", "town", NoComment),
      Entry("timezone", "local", NoComment), Entry("bbox", Box(0, 0, 8, 8), "metres"),
      Entry("area", "here", "drawn")>>
ThreeFiles ==
    {[text |-> Plain, area |-> Nowhere],
     [text |-> Plain \o <<Entry("area", "here", "drawn")>>, area |-> OldOutline],
     [text |-> Twice, area |-> OldOutline]}
TwoOutlines == {Box(3, 5, 17, 18), Box(9, 1, 20, 15)}
Typing == {<<"name", "city">>, <<"timezone", moon>>, <<"observer", "2">>}

(* Two polygons in a zone each, one across the border, one not a polygon.  *)
Span(w, e, s) == [west |-> w, east |-> e, sound |-> s]
FewDrawings == {Span(1, 5, TRUE), Span(7, 9, TRUE), Span(4, 8, TRUE), Span(1, 5, FALSE)}

-----------------------------------------------------------------------------
NoDownload ==
    /\ city = Box(4, 4, 8, 8) /\ catalogue = <<>> /\ cache = [t \in Shelf |-> "none"]
    /\ spare = {} /\ errand = "idle" /\ missing = {} /\ page = 1 /\ found = {}
    /\ coming = NoTile /\ served = 0 /\ hiccups = 0
NoBuild ==
    /\ plan = Job(1..4, {}, TRUE, Outskirts) /\ begun = 0 /\ doing = "idle" /\ written = 0
    /\ folder = [file \in Files \cup {"metadata"} |-> NoFile]
    /\ litter = FALSE /\ inventory = "none" /\ rotten = FALSE
NoSurvey ==
    /\ survey = Surveyed(<<>>, Footprints({}, {}), {}) /\ binned = 0 /\ stage = "binning"
    /\ highest = [k \in DOMAIN Layers |-> NoSurface]
    /\ ground = [c \in Pixels |-> [sum |-> 0, count |-> 0]]
    /\ dsm = NoSurface /\ dtm = NoSurface /\ raw = NoSurface
    /\ cover = [c \in Pixels |-> "ground"]
    /\ crowns = {} /\ zones = [c \in Pixels |-> "none"] /\ audit = <<0, 0>>
NoCity ==
    /\ cityText = Nowhere /\ areaFile = Nowhere /\ notes = {} /\ slips = {}
    /\ hands = [p \in Commands |-> Idle]
NoNews ==
    /\ stands = [s \in Jobs |-> "pending"] /\ legible = TRUE
    /\ noticed = [s \in Jobs |-> Unsaid] /\ told = NoCount /\ happened = NoCount
NoServer ==
    /\ here = Unsaid /\ there = Unsaid /\ inquiry = Unsaid /\ verdict = Unsaid /\ heard = Unsaid

MCInit ==
    /\ part \in {"state", "fetch", "survey", "build", "file", "form", "cost",
                 "news", "pane", "server"}
    /\ Init /\ FormInit /\ PanelInit /\ PaneInit
    /\ IF part = "fetch" THEN DownloadInit ELSE NoDownload
    /\ IF part = "survey" THEN SurfaceInit ELSE NoSurvey
    /\ IF part = "build" THEN BuildInit ELSE NoBuild
    /\ IF part = "file" THEN CityInit ELSE NoCity
    /\ IF part = "news" THEN NewsInit ELSE NoNews
    /\ IF part = "server" THEN ServerInit ELSE NoServer

madeVars == <<downloadVars, surfaceVars, buildVars>>
typedVars == <<cityVars, formVars, panelVars>>
watchVars == <<newsVars, paneVars, serverVars>>

MCNext ==
    \/ part = "state" /\ Next
         /\ UNCHANGED <<part, madeVars, typedVars, watchVars>>
    \/ part = "fetch" /\ DownloadNext
         /\ UNCHANGED <<part, vars, surfaceVars, buildVars, typedVars, watchVars>>
    \/ part = "survey" /\ SurfaceNext
         /\ UNCHANGED <<part, vars, downloadVars, buildVars, typedVars, watchVars>>
    \/ part = "build" /\ BuildNext
         /\ UNCHANGED <<part, vars, downloadVars, surfaceVars, typedVars, watchVars>>
    \/ part = "file" /\ CityNext
         /\ UNCHANGED <<part, vars, madeVars, formVars, panelVars, watchVars>>
    \/ part = "form" /\ FormNext
         /\ UNCHANGED <<part, vars, madeVars, cityVars, panelVars, watchVars>>
    \/ part = "cost" /\ PanelNext
         /\ UNCHANGED <<part, vars, madeVars, cityVars, formVars, watchVars>>
    \/ part = "news" /\ NewsNext
         /\ UNCHANGED <<part, vars, madeVars, typedVars, paneVars, serverVars>>
    \/ part = "pane" /\ PaneNext
         /\ UNCHANGED <<part, vars, madeVars, typedVars, newsVars, serverVars>>
    \/ part = "server" /\ ServerNext
         /\ UNCHANGED <<part, vars, madeVars, typedVars, newsVars, paneVars>>

(* Somebody runs the download again, and the panel's threads run.          *)
MCSpec ==
    /\ MCInit
    /\ [][MCNext]_<<part, vars, madeVars, typedVars, watchVars>>
    /\ WF_downloadVars(part = "fetch" /\ Progress)
    /\ PanelFairness
=============================================================================
