------------------------------- MODULE Surface -------------------------------
(***************************************************************************)
(* From the points of the LiDAR to the rasters of a city: the points are   *)
(* binned file by file, the terrain is filled, labels are corrected by the *)
(* buildings somebody has drawn, cables and awnings are taken out, the     *)
(* crowns are told from what is no crown, and these are held against the   *)
(* trees the city has catalogued.                                          *)
(*                                                                         *)
(* A height is a whole number; a region is a set of cells that touch, by   *)
(* their sides or their corners.                                           *)
(***************************************************************************)
EXTENDS Integers, FiniteSets, FiniteSetsExt, Sequences

CONSTANTS
    Rows, Cols,      \* shape of the grid
    Surveys,         \* cities: [files, ids, trees], see SurfaceInit
    Margin,          \* a building point this far below the highest wins
    FillReach,       \* how far a hole of the terrain is filled from
    RoofTolerance,   \* how far below its roof a plant may still be roof
    OpeningHalf,     \* half of the window that defines surroundings
    Protrusion,      \* how far what is suspect sticks out
    MaxBase,         \* how high what a line hangs over may be
    LineLength,      \* cells from which a thin region is a line
    LineWidth,       \* cells per length up to which it is thin
    SlabBand,        \* lowest and highest slab: <<low, high>>
    Roughness,       \* square of the deviation from which it is not flat
    OpenShare,       \* share of a slab's outline that is open: <<part, of>>
    CrownHeight,     \* lowest crown
    SievePx,         \* cells of the smallest region
    NearRadius,      \* cells round a tree that its crown may reach
    DenseRadius,     \* cells round a tree that have been surveyed
    BandRows,        \* rows of the grid looked at together
    None             \* no return, no terrain

ASSUME SurfaceAssumption ==
    /\ Rows \in Nat \ {0} /\ Cols \in Nat \ {0} /\ BandRows \in Nat \ {0}
    /\ NearRadius \in Nat /\ DenseRadius \in Nat /\ NearRadius <= DenseRadius
    /\ OpeningHalf \in Nat /\ Protrusion \in Nat \ {0}
    /\ Margin \in Nat /\ RoofTolerance \in Nat
    /\ None \notin Int
    /\ \A s \in Surveys :
         /\ Len(s.files) \in Nat /\ DOMAIN s.files = 1..Len(s.files)
         /\ \A i \in DOMAIN s.files :
              IsFiniteSet(s.files[i]) /\ \A p \in s.files[i] : p.z \in Int

VARIABLES
    survey,     \* the city
    binned,     \* files binned so far
    highest,    \* per cell and kind, the highest first return
    ground,     \* per cell, sum and number of ground points
    stage,      \* what the build comes to next
    dsm, dtm,   \* heights of the surface and of the terrain
    cover,      \* per cell, its label
    raw,        \* the surface before anything was cut from it
    crowns,     \* cells of the canopy mask
    zones,      \* per cell, how near a catalogued tree is
    audit       \* area of crowns corroborated, and of those judged

surfaceVars ==
    <<survey, binned, highest, ground, stage, dsm, dtm, cover, raw, crowns, zones, audit>>

-----------------------------------------------------------------------------
Pixels == (1..Rows) \X (1..Cols)
NoSurface == [c \in Pixels |-> None]

Apart(a, b) == (a[1] - b[1]) * (a[1] - b[1]) + (a[2] - b[2]) * (a[2] - b[2])
Within(c, reach) == {d \in Pixels : Apart(c, d) <= reach * reach}
Touching(c) == {d \in Pixels : Apart(c, d) <= 2}

Scan(a, b) == a[1] < b[1] \/ (a[1] = b[1] /\ a[2] < b[2])

(* ndimage.label: the regions of a set of cells.                           *)
RegionOf(S, c) ==
    LET grown[n \in 0..Cardinality(S)] ==
            IF n = 0 THEN {c} ELSE UNION {Touching(d) \cap S : d \in grown[n - 1]}
    IN grown[Cardinality(S)]
Regions(S) == {RegionOf(S, c) : c \in S}

(* Regions are labelled in the order of the first cell of each.            *)
LaterRegion(R, Q) == \E d \in Q : \A c \in R : Scan(d, c)

Side(R, i) == Max({c[i] : c \in R}) - Min({c[i] : c \in R}) + 1
IsLine(R) ==
    LET longest == Max({Side(R, 1), Side(R, 2)})
    IN longest >= LineLength /\ Cardinality(R) <= LineWidth * longest

Flat(R, height) ==
    LET n  == Cardinality(R)
        one(c) == height[c]
        two(c) == height[c] * height[c]
    IN n * MapThenSumSet(two, R) - MapThenSumSet(one, R) * MapThenSumSet(one, R) < Roughness * n * n

-----------------------------------------------------------------------------
(* A point: [cell, z, kind, first].  Noise and overlap are never binned.   *)
Kept(points) == {p \in points : p.kind # "noise" /\ p.cell \in Pixels}
Firsts(points, c, kinds) == {p \in Kept(points) : p.cell = c /\ p.first /\ p.kind \in kinds}

Higher(a, b) == IF a = None THEN b ELSE IF b = None THEN a ELSE Max({a, b})
Top(points) == IF points = {} THEN None ELSE Max({p.z : p \in points})
SoilOf(points, c) == {p \in Kept(points) : p.cell = c /\ p.kind = "ground"}
Heights(points) == MapThenSumSet(LAMBDA p : p.z, points)

AnyKind == {"ground", "vegetation", "building", "other"}
Layers == [any |-> AnyKind, building |-> {"building"}, vegetation |-> {"vegetation"}]

SurfaceInit ==
    /\ survey \in Surveys
    /\ binned = 0 /\ stage = "binning"
    /\ highest = [k \in DOMAIN Layers |-> NoSurface]
    /\ ground = [c \in Pixels |-> [sum |-> 0, count |-> 0]]
    /\ dsm = NoSurface /\ dtm = NoSurface /\ raw = NoSurface
    /\ cover = [c \in Pixels |-> "ground"]
    /\ crowns = {} /\ zones = [c \in Pixels |-> "none"] /\ audit = <<0, 0>>

(* One file, keeping of each kind what the file itself tops a cell with.   *)
BinFileAlone ==
    /\ stage = "binning" /\ binned < Len(survey.files)
    /\ binned' = binned + 1
    /\ LET points == survey.files[binned + 1]
           here(c) == Firsts(points, c, AnyKind) # {}
       IN /\ highest' = [k \in DOMAIN Layers |-> [c \in Pixels |->
                IF k = "any" \/ ~here(c)
                  THEN Higher(highest[k][c], Top(Firsts(points, c, Layers[k])))
                  ELSE Top(Firsts(points, c, Layers[k]))]]
          /\ ground' = [c \in Pixels |->
                [sum   |-> ground[c].sum + Heights(SoilOf(points, c)),
                 count |-> ground[c].count + Cardinality(SoilOf(points, c))]]
    /\ UNCHANGED <<survey, stage, dsm, dtm, cover, raw, crowns, zones, audit>>

(* One file; its chunks are added to the same accumulators.                *)
BinFile ==
    /\ stage = "binning" /\ binned < Len(survey.files)
    /\ binned' = binned + 1
    /\ LET points == survey.files[binned + 1]
       IN /\ highest' = [k \in DOMAIN Layers |-> [c \in Pixels |->
                            Higher(highest[k][c], Top(Firsts(points, c, Layers[k])))]]
          /\ ground' = [c \in Pixels |->
                [sum   |-> ground[c].sum + Heights(SoilOf(points, c)),
                 count |-> ground[c].count + Cardinality(SoilOf(points, c))]]
    /\ UNCHANGED <<survey, stage, dsm, dtm, cover, raw, crowns, zones, audit>>

Mean(c) == ground[c].sum \div ground[c].count
Known == {c \in Pixels : ground[c].count > 0}

(* fillnodata: something between the terrain it is filled from.            *)
Holes == Pixels \ Known
Fillings ==
    {f \in [Holes -> {Mean(c) : c \in Known}] :
        \A c \in Holes : f[c] \in {Mean(d) : d \in Known \cap Within(c, FillReach)}}

LabelOf(top, c) ==
    IF top.any[c] = None THEN "ground"
    ELSE IF top.building[c] # None /\ top.building[c] >= top.any[c] - Margin THEN "building"
    ELSE IF top.vegetation[c] = top.any[c] THEN "vegetation" ELSE "ground"

EndBinning ==
    /\ stage = "binning" /\ binned = Len(survey.files)
    /\ IF \E c \in Holes : Known \cap Within(c, FillReach) = {}
         THEN stage' = "failed" /\ UNCHANGED <<dsm, dtm, cover, raw>>
         ELSE /\ stage' = "labels"
              /\ \E f \in Fillings :
                   dtm' = [c \in Pixels |-> IF c \in Known THEN Mean(c) ELSE f[c]]
              /\ dsm' = [c \in Pixels |-> IF highest.any[c] = None THEN dtm'[c]
                                          ELSE Max({highest.any[c], dtm'[c]})]
              /\ raw' = dsm'
              /\ cover' = [c \in Pixels |-> LabelOf(highest, c)]
    /\ UNCHANGED <<survey, binned, highest, ground, crowns, zones, audit>>

-----------------------------------------------------------------------------
Chm(c) == dsm[c] - dtm[c]
Drawn == {c \in Pixels : survey.ids[c] # 0}
RoofOf(i) == {c \in Pixels : survey.ids[c] = i /\ cover[c] = "building"}

(* The lowest height that so many of the cells do not pass.                *)
Ranked(cells, k) ==
    Min({Chm(c) : c \in {d \in cells : Cardinality({e \in cells : Chm(e) <= Chm(d)}) >= k}})
TwiceMedian(cells) ==
    LET n == Cardinality(cells)
    IN Ranked(cells, (n + 1) \div 2) + Ranked(cells, (n \div 2) + 1)

IsRoofWithout(c) ==
    /\ c \in Drawn /\ cover[c] = "vegetation"
    /\ RoofOf(survey.ids[c]) # {} =>
         2 * Chm(c) >= TwiceMedian(RoofOf(survey.ids[c])) - 2 * RoofTolerance

IsRoof(c) ==
    /\ c \in Drawn /\ cover[c] = "vegetation"
    /\ RoofOf(survey.ids[c]) # {}
    /\ 2 * Chm(c) >= TwiceMedian(RoofOf(survey.ids[c])) - 2 * RoofTolerance

(* apply_footprint_override                                                *)
Relabel ==
    /\ stage = "labels" /\ stage' = "lines"
    /\ cover' = [c \in Pixels |-> IF IsRoof(c) THEN "building" ELSE cover[c]]
    /\ UNCHANGED <<survey, binned, highest, ground, dsm, dtm, raw, crowns, zones, audit>>

Window(c) ==
    {d \in Pixels : d[1] - c[1] \in -OpeningHalf..OpeningHalf
                    /\ d[2] - c[2] \in -OpeningHalf..OpeningHalf}
Opened(height) ==
    LET eroded == [c \in Pixels |-> Min({height[d] : d \in Window(c)})]
    IN [c \in Pixels |-> Max({eroded[d] : d \in Window(c)})]

ProtrudingOf(height) ==
    LET opened == Opened(height)
    IN {c \in Pixels : height[c] - opened[c] >= Protrusion /\ opened[c] - dtm[c] < MaxBase}

(* The guard put before the labelling.                                     *)
ClutterOfPixels(height) ==
    LET protruding == ProtrudingOf(height) \ Drawn
    IN UNION {R \in Regions(protruding) : IsLine(R)}

(* Whole regions, judged after labelling and spared if any cell is drawn.  *)
ClutterOf(height) ==
    LET protruding == ProtrudingOf(height)
    IN UNION {R \in Regions(protruding) : IsLine(R) /\ R \cap Drawn = {}}

(* Flattened as far as the opening says.                                   *)
CutLinesToOpening ==
    /\ stage = "lines" /\ stage' = "slabs"
    /\ LET clutter == ClutterOf(dsm)
           opened  == Opened(dsm)
       IN dsm' = [c \in Pixels |-> IF c \in clutter THEN opened[c] ELSE dsm[c]]
    /\ UNCHANGED <<survey, binned, highest, ground, dtm, cover, raw, crowns, zones, audit>>

(* Never below the terrain.                                                *)
CutLines ==
    /\ stage = "lines" /\ stage' = "slabs"
    /\ LET clutter == ClutterOf(dsm)
           opened  == Opened(dsm)
       IN dsm' = [c \in Pixels |-> IF c \in clutter THEN Max({opened[c], dtm[c]}) ELSE dsm[c]]
    /\ UNCHANGED <<survey, binned, highest, ground, dtm, cover, raw, crowns, zones, audit>>

MaybeSlab == {c \in Pixels : Chm(c) \in SlabBand[1]..SlabBand[2] /\ cover[c] # "building"}

(* A cell beside two regions counts for the one labelled last.             *)
Outline(R) ==
    {c \in Pixels \ MaybeSlab :
        /\ Touching(c) \cap R # {}
        /\ \A Q \in Regions(MaybeSlab) : Touching(c) \cap Q # {} => Q = R \/ LaterRegion(R, Q)}

IsSlab(R) ==
    LET open == {c \in Outline(R) : Chm(c) < SlabBand[1]}
    IN /\ Flat(R, [c \in R |-> Chm(c)])
       /\ Outline(R) # {}
       /\ Cardinality(open) * OpenShare[2] >= OpenShare[1] * Cardinality(Outline(R))

CutSlabs ==
    /\ stage = "slabs" /\ stage' = "canopy"
    /\ LET slabs == UNION {R \in Regions(MaybeSlab) : IsSlab(R)}
       IN dsm' = [c \in Pixels |-> IF c \in slabs THEN dtm[c] ELSE dsm[c]]
    /\ UNCHANGED <<survey, binned, highest, ground, dtm, cover, raw, crowns, zones, audit>>

-----------------------------------------------------------------------------
(* GDAL's sieve: a region that is too small takes the value of the largest *)
(* it touches, if that one is not too small.                               *)
Sieved(S) ==
    LET outer == Pixels \ S
        beside(R, T) == {Q \in Regions(T) : \E c \in R : Touching(c) \cap Q # {}}
        lost(R, T) == /\ Cardinality(R) < SievePx
                      /\ \E Q \in beside(R, T) : Cardinality(Q) >= SievePx
    IN (S \ UNION {R \in Regions(S) : lost(R, outer)})
         \cup UNION {R \in Regions(outer) : lost(R, S)}

NoCrown(R) == IsLine(R) \/ Flat(R, [c \in R |-> Chm(c)])
OnlyCrowns(S) == S \ UNION {R \in Regions(S) : NoCrown(R)}

Tall == {c \in Pixels : cover[c] = "vegetation" /\ Chm(c) >= CrownHeight}

(* The shapes judged before the pinholes are closed.                       *)
MaskSievedLast ==
    /\ stage = "canopy" /\ stage' = "zones"
    /\ crowns' = Sieved(OnlyCrowns(Tall))
    /\ UNCHANGED <<survey, binned, highest, ground, dsm, dtm, cover, raw, zones, audit>>

(* canopy_mask                                                             *)
Mask ==
    /\ stage = "canopy" /\ stage' = "zones"
    /\ crowns' = OnlyCrowns(Sieved(Tall))
    /\ UNCHANGED <<survey, binned, highest, ground, dsm, dtm, cover, raw, zones, audit>>

ZoneFrom(c, trees) ==
    IF \E t \in trees : Apart(c, t) <= NearRadius * NearRadius THEN "near"
    ELSE IF \E t \in trees : Apart(c, t) <= DenseRadius * DenseRadius THEN "dense" ELSE "none"

Planted == survey.trees \cap Pixels

(* A band of rows is looked at together, with what is near it.             *)
BandOf(c) == (c[1] - 1) \div BandRows
HaloNear(c) ==
    {t \in Planted : /\ t[1] >= BandOf(c) * BandRows + 1 - NearRadius
                     /\ t[1] <= (BandOf(c) + 1) * BandRows + NearRadius}
Halo(c) ==
    {t \in Planted : /\ t[1] >= BandOf(c) * BandRows + 1 - DenseRadius
                     /\ t[1] <= (BandOf(c) + 1) * BandRows + DenseRadius}

(* distance_transform_edt of a band that holds no tree: it measures from   *)
(* the cell before the first of the rows it was given.                     *)
RowBefore(c) ==
    IF BandOf(c) * BandRows > DenseRadius THEN BandOf(c) * BandRows - DenseRadius ELSE 0
Measured(c) == IF Halo(c) = {} THEN {<<RowBefore(c), 1>>} ELSE Halo(c)

(* inventory_zones: nothing to do without a tree on the whole grid.        *)
BurnZones ==
    /\ stage = "zones" /\ stage' = "audit"
    /\ zones' = [c \in Pixels |-> IF Planted = {} THEN "none" ELSE ZoneFrom(c, Measured(c))]
    /\ UNCHANGED <<survey, binned, highest, ground, dsm, dtm, cover, raw, crowns, audit>>

JudgedAnyhow(R) == TRUE
Judged(R) == 2 * Cardinality({c \in R : zones[c] # "none"}) > Cardinality(R)
Reaches(R) == \E c \in R : zones[c] = "near"

Corroborated(S) ==
    <<Cardinality(UNION {R \in Regions(S) : Judged(R) /\ Reaches(R)}),
      Cardinality(UNION {R \in Regions(S) : Judged(R)})>>

Audit ==
    /\ stage = "audit" /\ stage' = "built"
    /\ audit' = Corroborated(crowns)
    /\ UNCHANGED <<survey, binned, highest, ground, dsm, dtm, cover, raw, crowns, zones>>

SurfaceNext ==
    \/ BinFile \/ EndBinning \/ Relabel \/ CutLines \/ CutSlabs
    \/ Mask \/ BurnZones \/ Audit

SurfaceSpec == SurfaceInit /\ [][SurfaceNext]_surfaceVars

-----------------------------------------------------------------------------
(* rasterize.py: a cell's label is about all of its points, however they   *)
(* are spread over files: a building point close to the very highest wins, *)
(* and only the highest can make it a plant.                               *)
Everypoint == UNION {survey.files[i] : i \in DOMAIN survey.files}
LabelsAreOfAllPoints ==
    stage = "labels" =>
        \A c \in Pixels :
            LET firsts == Firsts(Everypoint, c, AnyKind)
                roof   == {p \in firsts : p.kind = "building"
                                          /\ \A q \in firsts : q.z - p.z <= Margin}
                leaves == {p \in firsts : p.kind = "vegetation" /\ \A q \in firsts : q.z <= p.z}
            IN /\ (cover[c] = "building") = (roof # {})
               /\ (cover[c] = "vegetation") = (roof = {} /\ leaves # {})

(* verify.py checks that the surface never dips below the terrain and      *)
(* declutter.py:199 that it stays so; and what is cut is only ever lowered.*)
NeverBelowGround ==
    stage \notin {"binning", "failed"} =>
        \A c \in Pixels : dtm[c] <= dsm[c] /\ dsm[c] <= raw[c]

(* footprints.py:14: a crown below the eaves survives.  A plant further    *)
(* below every bit of roof of its footprint than the tolerance, or in one  *)
(* with no roof at all, is never called a building.                        *)
PatioTreesSurvive ==
    stage = "lines" =>
        \A c \in Drawn :
            (/\ LabelOf(highest, c) = "vegetation"
             /\ \A d \in Drawn :
                  survey.ids[d] = survey.ids[c] /\ LabelOf(highest, d) = "building"
                    => Chm(c) < Chm(d) - RoofTolerance)
            => cover[c] = "vegetation"

(* declutter.py:183: the guard must not create victims.  What sticks out   *)
(* is left whole or cut whole, down to its surroundings or the terrain,    *)
(* and never if part of it is drawn.                                       *)
WholeOrNotAtAll ==
    stage = "slabs" =>
        LET protruding == ProtrudingOf(raw)
        IN \A R \in Regions(protruding) :
            \/ \A c \in R : dsm[c] = raw[c]
            \/ /\ R \cap Drawn = {}
               /\ \A c \in R : dsm[c] < raw[c] \/ dsm[c] = dtm[c]

(* canopy.py:111: what the mask holds is crowns.  No region of it is flat  *)
(* or a line, whatever the sieve filled or dropped round it.               *)
CrownsAreCrowns == stage \in {"zones", "audit", "built"} => \A R \in Regions(crowns) : ~NoCrown(R)

(* What trees.py:209 takes for surveyed though no tree is near: cells      *)
(* round the north-west corner, when no tree stands in the first band or   *)
(* in its halo and one stands further down.                                *)
Mistaken ==
    {c \in Pixels : /\ Planted # {} /\ \A t \in Planted : t[1] > BandRows + DenseRadius
                   /\ Apart(c, <<0, 1>>) <= DenseRadius * DenseRadius
                   /\ ZoneFrom(c, Planted) = "none"}

(* trees.py:82: bands with a halo give the identical answer, so that the   *)
(* zone of a cell is that of the nearest tree of the whole grid -- but for *)
(* the corner of a first band without a tree.                              *)
BandsAgree ==
    stage \in {"audit", "built"} =>
        \A c \in Pixels \ Mistaken : zones[c] = ZoneFrom(c, Planted)

(* trees.py:231: where nobody has surveyed, a crown without a record       *)
(* proves nothing: the audit is the same without it.                       *)
InReach == {c \in Pixels : ZoneFrom(c, Planted) # "none"}
UnsurveyedProvesNothing ==
    stage = "built" =>
        audit = Corroborated({c \in crowns : RegionOf(crowns, c) \cap (InReach \cup Mistaken) # {}})

(* What the points say is kept: labels, ground, patio trees, whole roofs.  *)
NothingRealIsCut ==
    LabelsAreOfAllPoints /\ NeverBelowGround /\ PatioTreesSurvive /\ WholeOrNotAtAll

(* The crowns are crowns, and the audit judges those it can.               *)
CanopyIsSound == CrownsAreCrowns /\ BandsAgree /\ UnsurveyedProvesNothing
=============================================================================
