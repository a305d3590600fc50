------------------------------- MODULE MCServe -------------------------------
(***************************************************************************)
(* Everything a city is served from, side by side: a behaviour is of one   *)
(* part, and the others stand still.                                       *)
(***************************************************************************)
EXTENDS TileRender, SceneReader, ShadeMap, Timeline, ShadedRoutes, Ladder, WalkGraph, Api

CONSTANTS u1, u2, u3, z1, w1, w2, t1, t2, c1, s1, s2, s3, tiny

VARIABLE part

-----------------------------------------------------------------------------
(* A city of one row of five cells, with a cell of context round it, swept *)
(* in tiles of two cells and read in blocks of two.                        *)
TwoWorkers == {w1, w2}
TwoThreads == {t1, t2}

Flat == [c \in Cells |-> 0]

(* A tower two cells off the middle tile and a tree in the first.          *)
TowerStreet ==
    [dtm |-> Flat,
     dsm |-> [Flat EXCEPT ![<<1, 6>>] = 8, ![<<1, 1>>] = 3, ![<<1, 4>>] = 2],
     cover |-> [c \in Cells |-> CASE c = <<1, 6>> -> "building"
                                  [] c \in {<<1, 1>>, <<1, 4>>} -> "vegetation"
                                  [] OTHER -> "ground"]]

(* A hill that a crown grows on, next to a house.                          *)
Hill ==
    [dtm |-> [Flat EXCEPT ![<<1, 3>>] = 4],
     dsm |-> [Flat EXCEPT ![<<1, 3>>] = 7, ![<<1, 2>>] = 2, ![<<0, 5>>] = 3],
     cover |-> [c \in Cells |-> CASE c = <<1, 3>> -> "vegetation"
                                  [] c \in {<<1, 2>>, <<0, 5>>} -> "building"
                                  [] OTHER -> "ground"]]

(* A house to the east of a cell and, to the north, a lower tree.          *)
StreetCorner ==
    [dtm |-> Flat,
     dsm |-> [Flat EXCEPT ![<<1, 4>>] = 5, ![<<0, 3>>] = 2],
     cover |-> [c \in Cells |-> CASE c = <<1, 4>> -> "building"
                                  [] c = <<0, 3>> -> "vegetation"
                                  [] OTHER -> "ground"]]

(* Two walls of a courtyard and two trees, one of them on a mound.          *)
Courtyard ==
    [dtm |-> [Flat EXCEPT ![<<1, 1>>] = 3],
     dsm |-> [Flat EXCEPT ![<<0, 2>>] = 3, ![<<1, 3>>] = 7, ![<<1, 1>>] = 5, ![<<2, 2>>] = 3],
     cover |-> [c \in Cells |-> CASE c \in {<<0, 2>>, <<1, 3>>} -> "building"
                                  [] c \in {<<1, 1>>, <<2, 2>>} -> "vegetation"
                                  [] OTHER -> "ground"]]

FourScenes == {TowerStreet, Hill, StreetCorner, Courtyard}

(* The whole city, an area whose edge cuts a tile, and one that is empty.  *)
ThreeAreas == {Everything, {<<1, 2>>, <<1, 4>>}, {}}

(* Machines without a cgroup, with a limit above an unlimited leaf, tight. *)
FewMachines ==
    {[max |-> <<NoFile>>, used |-> 0, cache |-> 0, free |-> Unreadable],
     [max |-> <<NoFile, 12>>, used |-> 5, cache |-> 2, free |-> 20],
     [max |-> <<NoLimit, 3>>, used |-> 0, cache |-> 0, free |-> 7],
     [max |-> <<4>>, used |-> 9, cache |-> 1, free |-> 20]}

FewPoints == {<<0, 0>>, <<1, 4>>, <<0, 6>>, <<1, 9>>, <<1, 10>>, <<-1, 3>>, Nowhere}

Sun(azimuth, elevation) == [azimuth |-> azimuth, elevation |-> elevation]

AllRound == {Sun(a, e) : a \in 0..Sectors * Between - 1, e \in 0..8}

-----------------------------------------------------------------------------
FewDays ==
    UNION {[1..n -> {Dark} \cup [Spots -> {"sun", "building", "vegetation"}]] : n \in 1..3}

-----------------------------------------------------------------------------
MinusOne == -1

Street(u, v, len, sun, veg) == [u |-> u, v |-> v, len |-> len, sun |-> sun, veg |-> veg]

(* A block walked round on either side, with a second street along one.    *)
AroundTheBlock ==
    [place |-> [n \in 0..3 |-> <<0, 2, 4, 1>>[n + 1]],
     edges |-> <<Street(0, 1, 2, 2, 0), Street(0, 1, 3, 0, 1), Street(1, 2, 2, 2, 0),
                 Street(0, 3, 2, 0, 2), Street(2, 3, 3, 0, 0)>>]

(* Two parts nothing connects.                                             *)
Split ==
    [place |-> [n \in 0..3 |-> <<0, 2, 4, 5>>[n + 1]],
     edges |-> <<Street(0, 1, 2, 2, 0), Street(2, 3, 3, 0, 1), Street(0, 1, 4, 0, 0)>>]

TwoStreets == {AroundTheBlock, Split}

Doors(g) == {<<e, s>> \in (DOMAIN g.edges) \X {0, 1, 3} : s <= g.edges[e].len}

Asks ==
    {[alpha |-> taste[1], beta |-> taste[2], night |-> FALSE, alternatives |-> TRUE,
      graph |-> "built", snaps |-> "near"] : taste \in {<<0, 0>>, <<2, 0>>, <<4, 2>>}}
    \cup {[alpha |-> 2, beta |-> 1, night |-> night, alternatives |-> night,
           graph |-> g, snaps |-> s] :
             night \in BOOLEAN, g \in {"absent", "built"}, s \in {"near", "far"}}
    \cup {[alpha |-> 0, beta |-> 2, night |-> FALSE, alternatives |-> FALSE,
           graph |-> "absent", snaps |-> "near"]}

Alphas == {0, 1, 2, 4, 8, 16}

-----------------------------------------------------------------------------
Tent == [d \in 1..12 |-> IF d <= 6 THEN 4 * d ELSE 4 * (13 - d)]
Skew == [d \in 1..12 |-> IF d <= 6 THEN 4 * d ELSE 4 * (13 - d) - 1]
TwoCurves == {Tent, Skew}

ThreeRungs ==
    <<[day |-> 2, first |-> 9, last |-> 10], [day |-> 4, first |-> 8, last |-> 10],
      [day |-> 12, first |-> 9, last |-> 9]>>

SomeFractions ==
    {[c \in 0..5 |-> <<0, 4, 2, 6, 1, 3>>[c + 1]], [c \in 0..5 |-> 3], [c \in 0..5 |-> 6 - c]}

-----------------------------------------------------------------------------
Way(u, v, shape) == [u |-> u, v |-> v, shape |-> shape]

(* Both ways along a street, two streets between the same corners, a loop, *)
(* and a stub too short to walk.                                           *)
ThreeNetworks ==
    {{Way(0, 1, s1), Way(1, 0, s1), Way(0, 1, s2), Way(2, 2, s3)},
     {Way(5, 7, s3), Way(7, 5, s3), Way(7, 9, tiny)},
     {Way(0, 1, s1), Way(1, 2, s3)}}

LongEnough == {s1, s2, s3}

CellsOf ==
    [s \in {s1, s2, s3, tiny} |-> CASE s = s1 -> {1, 2} [] s = s2 -> {2, 3}
                                    [] s = s3 -> {3, 4} [] OTHER -> {1, 5}]

FewCoverages == {AllData, {1, 2, 3}, {2, 3, 4}}

TwoShades ==
    {[k \in {1, 2} |-> [c \in 1..5 |->
        <<"sun", "vegetation", "both", "building", "outside">>[((c + k + j) % 5) + 1]]] :
            j \in {0, 2}}

-----------------------------------------------------------------------------
Question(path, served, inside, at) ==
    [path |-> path, served |-> served, inside |-> inside, at |-> at]

FewSessions ==
    {{q} : q \in {Question("cities", TRUE, TRUE, Current), Question("city", TRUE, TRUE, Current),
                  Question("shade", FALSE, TRUE, 1), Question("routes", TRUE, TRUE, 1),
                  Question("timeline", TRUE, TRUE, 0),
                  Question("timeline", TRUE, TRUE, Current),
                  Question("parking", TRUE, TRUE, 1), Question("parking", TRUE, FALSE, Current)}}
    \cup {{Question("shade", TRUE, TRUE, Current), Question("shade", TRUE, TRUE, 1)},
          {Question("timeline", TRUE, TRUE, 1), Question("parking", TRUE, TRUE, Current)}}

-----------------------------------------------------------------------------
NoSweep ==
    /\ terrain = StreetCorner /\ area = {}
    /\ machine = [max |-> <<NoFile>>, used |-> 0, cache |-> 0, free |-> Unreadable]
    /\ phase = "idle" /\ queued = {} /\ running = [w \in Workers |-> Nothing]
    /\ landed = {} /\ broken = FALSE /\ cubes = [c \in Inner |-> Blank]
NoMap == modern = TRUE /\ drawn = Undrawn
NoDay == day = <<>> /\ sample = -1 /\ current = None /\ intervals = <<>>
NoRouting ==
    /\ graph = Split /\ from = <<1, 0>> /\ to = <<1, 0>>
    /\ price = [least |-> 4, base |-> 4, sun |-> 0, other |-> 0] /\ RoutingIdle
    /\ request = [alpha |-> 0, beta |-> 0, night |-> FALSE, alternatives |-> FALSE,
                  graph |-> "built", snaps |-> "near"]
    /\ asking = Taste /\ shaded = NoLeg /\ shortest = NoLeg /\ swept = <<>>
    /\ response = "idle"
NoLadder == curve = Tent /\ covers = <<>> /\ columns = <<>> /\ query = Unasked
NoApi ==
    /\ questions = {} /\ clock = 0 /\ database = "absent"
    /\ world = [build |-> 0, layer |-> 0] /\ was = <<>> /\ entries = [k \in Counted |-> <<>>]
    /\ kept = <<>> /\ heard = Unheard

RoutingInit ==
    /\ graph \in TwoStreets /\ from \in Doors(graph) /\ to \in Doors(graph)
    /\ RequestInit

MCInit ==
    /\ part \in {"tiles", "sweep", "map", "day", "route", "ladder", "walk", "api"}
    /\ Init /\ ReaderInit /\ WalkInit
    /\ IF part \in {"sweep", "map"} THEN SweepInit ELSE NoSweep
    /\ IF part = "map" THEN MapInit /\ area # {} /\ machine.free = 20 ELSE NoMap
    /\ IF part = "day" THEN DayInit ELSE NoDay
    /\ IF part = "route" THEN RoutingInit ELSE NoRouting
    /\ IF part = "ladder" THEN LadderInit ELSE NoLadder
    /\ IF part = "api" THEN ApiInit ELSE NoApi

citiesVars == <<sweepVars, readerVars, mapVars>>
walksVars == <<routingVars, routeVars, ladderVars, walkVars>>

MCNext ==
    \/ part = "tiles" /\ Next
         /\ UNCHANGED <<part, citiesVars, dayVars, walksVars, apiVars>>
    \/ part \in {"sweep", "map"} /\ SweepNext
         /\ UNCHANGED <<part, vars, readerVars, mapVars, dayVars, walksVars, apiVars>>
    \/ part = "sweep" /\ ReaderNext
         /\ UNCHANGED <<part, vars, sweepVars, mapVars, dayVars, walksVars, apiVars>>
    \/ part = "map" /\ Draw
         /\ UNCHANGED <<part, vars, sweepVars, readerVars, dayVars, walksVars, apiVars>>
    \/ part = "day" /\ DayNext
         /\ UNCHANGED <<part, vars, citiesVars, walksVars, apiVars>>
    \/ part = "route" /\ RouteNext
         /\ UNCHANGED <<part, vars, citiesVars, dayVars, ladderVars, walkVars, apiVars>>
    \/ part = "ladder" /\ AskFractions
         /\ UNCHANGED <<part, vars, citiesVars, dayVars, routingVars, routeVars, walkVars, apiVars>>
    \/ part = "walk" /\ WalkNext
         /\ UNCHANGED <<part, vars, citiesVars, dayVars, routingVars, routeVars, ladderVars,
                        apiVars>>
    \/ part = "api" /\ ApiNext
         /\ UNCHANGED <<part, vars, citiesVars, dayVars, walksVars>>

MCSpec ==
    MCInit /\ [][MCNext]_<<part, vars, citiesVars, dayVars, walksVars, apiVars>>
=============================================================================
