------------------------------- MODULE Skyline -------------------------------
(***************************************************************************)
(* The horizon of a cell and what it says of the shade there.  A raster    *)
(* holds the ground, what stands on it and of which class; a sweep turns   *)
(* it into a skyline per cell: how high the obstacles reach towards each   *)
(* azimuth, which class won, and how high they would reach with the trees  *)
(* felled.  A verdict compares the sun with the skyline.                   *)
(*                                                                         *)
(* Four sectors, North first and clockwise, so a ray never cuts a corner.  *)
(* Angles are in steps of fifteen degrees where the code has 90/255, and   *)
(* rounded the same way; lengths are in half cells, the unit in which a    *)
(* ray enters one.                                                         *)
(***************************************************************************)
EXTENDS Integers, FiniteSets, FiniteSetsExt, Sequences

CONSTANTS
    Rows, Cols,    \* the size of the raster
    MaxDistance,   \* the radius of the sweep, in half cells
    Eye,           \* the height of the observer's eye
    Between,       \* azimuths told apart from one sector to the next
    NoCube         \* a build older than the vegetation-free skyline

ASSUME RasterAssumption ==
    /\ Rows \in Nat \ {0} /\ Cols \in Nat \ {0}
    /\ MaxDistance \in Nat /\ Eye \in Nat /\ Between \in Nat \ {0}

Cells == (0..Rows - 1) \X (0..Cols - 1)
Sectors == 4
Sector == 0..Sectors - 1

Classes == {"ground", "vegetation", "building"}
NoBlocker == "none"

(* What stands where, by cell: dtm is the ground, dsm the top of what is   *)
(* on it, and cover its class.                                             *)

-----------------------------------------------------------------------------
(* ray_cells on the axes: the d-th cell is entered 2d - 1 half cells away, *)
(* and the walk ends at the radius.                                        *)
Toward == [k \in Sector |-> <<<<-1, 0>>, <<0, 1>>, <<1, 0>>, <<0, -1>>>>[k + 1]]

Along(cell, k, d) == <<cell[1] + d * Toward[k][1], cell[2] + d * Toward[k][2]>>

Steps == {d \in 1..MaxDistance : 2 * d - 1 < MaxDistance}

(* The samples of a cell towards a sector that fall inside a window.       *)
Ray(window, cell, k) == {d \in Steps : Along(cell, k, d) \in window}

(* Felling the trees exposes the ground under them.                        *)
Felled(terrain) ==
    [c \in Cells |-> IF terrain.cover[c] = "vegetation" THEN terrain.dtm[c]
                                                         ELSE terrain.dsm[c]]

Rise(terrain, surface, cell, k, d) ==
    surface[Along(cell, k, d)] - (terrain.dtm[cell] + Eye)

(* The steepest sample and, of equally steep ones, the nearest: only a     *)
(* strictly greater slope replaces the one found before.                   *)
Summit(terrain, surface, ray, cell, k) ==
    LET rise(d) == Rise(terrain, surface, cell, k, d)
    IN  CHOOSE d \in ray : \A e \in ray :
          \/ rise(d) * (2 * e - 1) > rise(e) * (2 * d - 1)
          \/ rise(d) * (2 * e - 1) = rise(e) * (2 * d - 1) /\ d <= e

(* The tangents, in hundredths, half a step below each angle.              *)
Tangents == {13, 41, 77, 130, 241, 760}

(* quantize_angles of the arctangent, floored at the astronomical horizon. *)
Quantized(rise, run) == Cardinality({t \in Tangents : t * run <= 200 * rise})

AngleOver(terrain, surface, window, cell, k) ==
    LET ray == Ray(window, cell, k)
        top == Summit(terrain, surface, ray, cell, k)
    IN  IF ray = {} THEN 0
        ELSE Quantized(Rise(terrain, surface, cell, k, top), 2 * top - 1)

BlockerOver(terrain, window, cell, k) ==
    LET ray == Ray(window, cell, k)
        top == Summit(terrain, terrain.dsm, ray, cell, k)
    IN  IF ray = {} \/ Rise(terrain, terrain.dsm, cell, k, top) <= 0
        THEN NoBlocker
        ELSE terrain.cover[Along(cell, k, top)]

(* A cell's skyline seen through a window of the raster.                   *)
Profile(terrain, window, cell) ==
    [angle  |-> [k \in Sector |-> AngleOver(terrain, terrain.dsm, window, cell, k)],
     class  |-> [k \in Sector |-> BlockerOver(terrain, window, cell, k)],
     felled |-> [k \in Sector |-> AngleOver(terrain, Felled(terrain), window, cell, k)]]

(* What a pixel nobody computed holds.                                     *)
OpenSky ==
    [angle |-> [k \in Sector |-> 0], class |-> [k \in Sector |-> NoBlocker],
     felled |-> [k \in Sector |-> 0]]

(* Tall enough vegetation to stand under.                                  *)
Canopy(terrain) ==
    {c \in Cells : terrain.cover[c] = "vegetation" /\ terrain.dsm[c] > terrain.dtm[c] + Eye}

-----------------------------------------------------------------------------
(* The sun: an azimuth, counted in fractions of a sector, and an elevation *)
(* in the same fractions of an angle step.  At or below 0 it is night.     *)
Lower(sun)    == (sun.azimuth \div Between) % Sectors
Upper(sun)    == (Lower(sun) + 1) % Sectors
Fraction(sun) == sun.azimuth % Between
IsUp(sun)     == sun.elevation > 0

(* horizon_at: linear in azimuth between the two sectors, wrapping North.  *)
HorizonAt(angle, sun) ==
    (Between - Fraction(sun)) * angle[Lower(sun)] + Fraction(sun) * angle[Upper(sun)]

Blocks(angle, sun) == sun.elevation < HorizonAt(angle, sun)

(* Of the two sectors, the one with the higher skyline.                    *)
Contributing(angle, sun) ==
    IF angle[Lower(sun)] >= angle[Upper(sun)] THEN Lower(sun) ELSE Upper(sun)

BlockerType(profile, sun) ==
    LET class == profile.class[Contributing(profile.angle, sun)]
    IN  IF class \in {"building", "vegetation"} THEN class ELSE "untyped"

(* holds_without_trees: never claimed of a build that cannot tell.         *)
Holds(profile, sun) == profile.felled # NoCube /\ Blocks(profile.felled, sun)

(* classify_shade: only a crown is asked whether the shade would hold.     *)
ShadeType(profile, sun) ==
    IF BlockerType(profile, sun) = "vegetation" /\ Holds(profile, sun)
    THEN "both" ELSE BlockerType(profile, sun)

Sunny == <<"sun", "untyped">>
Night == <<"night", "untyped">>

(* is_shaded: under a crown it is shade whenever the sun is up.            *)
Verdict(profile, under, sun) ==
    IF ~IsUp(sun) THEN Night
    ELSE IF under
         THEN <<"shade", IF Holds(profile, sun) THEN "both" ELSE "vegetation">>
    ELSE IF Blocks(profile.angle, sun) THEN <<"shade", ShadeType(profile, sun)>>
    ELSE Sunny

-----------------------------------------------------------------------------
(* The sector past the sun, with nothing interpolated.                     *)
RasterStateUpper(profile, under, sun) ==
    IF under THEN "vegetation"
    ELSE IF sun.elevation < Between * profile.angle[Upper(sun)] THEN "building" ELSE "sun"

(* Shade under the open sky is named after what casts it, held or not.     *)
RasterStateOneClass(profile, under, sun) ==
    LET blocker == profile.class[Contributing(profile.angle, sun)]
    IN  IF under THEN (IF Holds(profile, sun) THEN "both" ELSE "vegetation")
        ELSE IF Blocks(profile.angle, sun)
             THEN IF blocker \in {"building", "vegetation"} THEN blocker ELSE "other"
        ELSE "sun"

(* compute_state_raster and compose_state: the same question for a whole   *)
(* city at one instant, from masks.  By day only.                          *)
RasterState(profile, under, sun) ==
    LET shaded  == Blocks(profile.angle, sun)
        blocker == profile.class[Contributing(profile.angle, sun)]
        holds   == IF profile.felled = NoCube THEN shaded /\ blocker # "vegetation"
                                              ELSE Blocks(profile.felled, sun)
    IN  IF under THEN (IF holds THEN "both" ELSE "vegetation")
        ELSE IF shaded /\ ~holds THEN "vegetation"
        ELSE IF shaded THEN CASE blocker = "building" -> "building"
                              [] blocker = "vegetation" -> "both"
                              [] OTHER -> "other"
        ELSE "sun"

(* The state a verdict of the point engine should be drawn as.             *)
StateOf(verdict) ==
    IF verdict[1] = "sun" THEN "sun"
    ELSE IF verdict[2] = "untyped" THEN "other" ELSE verdict[2]
=============================================================================
