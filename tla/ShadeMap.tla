------------------------------- MODULE ShadeMap ------------------------------
(***************************************************************************)
(* The shade of a whole city at one instant, from two bands of each cube   *)
(* the sweep wrote, as the tiles and the street graph use it; beside it,   *)
(* the answer the point engine gives for every pixel.                      *)
(***************************************************************************)
EXTENDS Sweep

CONSTANTS
    Instants,      \* suns a map may be asked for
    Builds,        \* whether builds come with the vegetation-free cube
    Undrawn

ASSUME MapAssumption ==
    /\ \A scene \in Scenes :
         /\ {scene.dsm, scene.dtm} \subseteq [Cells -> Int] /\ scene.cover \in [Cells -> Classes]
         /\ \A c \in Cells : scene.dtm[c] <= scene.dsm[c]
    /\ \A sun \in Instants : sun.azimuth \in Nat
    /\ Builds \subseteq BOOLEAN /\ NoCube \notin [Sector -> Nat]

VARIABLES
    modern,        \* this build has the cube
    drawn          \* the sun and what was drawn for it, or Undrawn

mapVars == <<modern, drawn>>

Artifact(cell) ==
    IF modern THEN cubes[cell] ELSE [cubes[cell] EXCEPT !.felled = NoCube]

Roof(cell) == terrain.cover[cell] = "building"

(* The presentation cuts last: nobody stands on a roof, and nothing is     *)
(* known out of the area.                                                  *)
Composed(cell, sun) ==
    IF Roof(cell) \/ ~Covered(cell) THEN "outside"
    ELSE RasterState(Artifact(cell), cell \in Canopy(terrain), sun)

MapInit == modern \in Builds /\ drawn = Undrawn

(* Night has no raster: asking for one is an error.                        *)
Draw ==
    /\ phase = "swept" /\ drawn = Undrawn
    /\ \E sun \in Instants :
         /\ IsUp(sun)
         /\ drawn' = [sun |-> sun, state |-> [c \in Inner |-> Composed(c, sun)]]
    /\ UNCHANGED modern

MapSpec ==
    SweepInit /\ MapInit
    /\ [][\/ SweepNext /\ UNCHANGED mapVars
          \/ Draw /\ UNCHANGED sweepVars]_<<sweepVars, mapVars>>

-----------------------------------------------------------------------------
PointAnswer(cell) == Verdict(Artifact(cell), cell \in Canopy(terrain), drawn.sun)

Visible == {c \in Inner : ~Roof(c) /\ Covered(c)}

(* The overlay and the point engine never disagree about where the sun     *)
(* falls, with either kind of build and at any azimuth.                    *)
MapAgreesOnSun ==
    drawn # Undrawn =>
        \A c \in Visible : drawn.state[c] = "sun" <=> PointAnswer(c) = Sunny

(* "Mirrors is_shaded decision by decision": the same state, pixel by      *)
(* pixel, that the point engine answers.                                   *)
MapMatchesPoint ==
    drawn # Undrawn => \A c \in Visible : drawn.state[c] = StateOf(PointAnswer(c))

(* It does wherever both sectors beside the sun were won by one class.     *)
MapMatchesOneBlocker ==
    drawn # Undrawn /\ modern =>
        \A c \in Visible :
            Artifact(c).class[Lower(drawn.sun)] = Artifact(c).class[Upper(drawn.sun)] =>
                drawn.state[c] = StateOf(PointAnswer(c))

(* What closes the sky at a pixel once every crown of the city is felled.  *)
FelledSkyline(cell) ==
    [k \in Sector |-> AngleOver(terrain, Felled(terrain), Cells, cell, k)]

(* Hiding the trees of the overlay removes the shade that only they make,  *)
(* and no other.                                                           *)
VegetationIsWhatTreesMake ==
    drawn # Undrawn /\ modern =>
        \A c \in Visible :
            drawn.state[c] = "vegetation" <=>
                PointAnswer(c)[1] = "shade" /\ ~Blocks(FelledSkyline(c), drawn.sun)

(* The overlay answers for the points: the same sun, the same kind of      *)
(* shade where one class won, the same trees.                              *)
OverlayIsThePoints == MapAgreesOnSun /\ MapMatchesOneBlocker /\ VegetationIsWhatTreesMake
=============================================================================
