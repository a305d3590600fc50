-------------------------------- MODULE Sweep --------------------------------
(***************************************************************************)
(* compute_horizon_tiled: the skyline of every cell of a city, computed    *)
(* tile by tile by a pool of processes.  Each tile reads a window padded   *)
(* by the radius of the sweep; the workers only read, the parent alone     *)
(* files what they return, in the order in which they finish.  A worker    *)
(* may be killed, usually for the memory it takes.                         *)
(***************************************************************************)
EXTENDS Skyline, Budget

CONSTANTS
    Margin,        \* cells of context round the city, on every side
    TileSize,      \* cells on a side of a tile
    Workers,       \* processes of the pool
    TileBytes,     \* what one worker is estimated to take
    Scenes,        \* the cities that may be built
    Areas,         \* the computation areas, Everything for a city without
    Everything,
    Machinery,     \* the machines it may run on
    Blank,         \* memory nobody has written
    Nothing        \* no tile

VARIABLES
    terrain,   \* the rasters of the city
    area,      \* the cells asked for, or Everything
    machine,   \* what there is to run on
    phase,     \* ready, sweeping, refused, failed, swept
    queued,    \* tiles submitted and not begun
    running,   \* the tile a worker is on
    landed,    \* tiles finished and not yet filed, with what they hold
    broken,    \* a worker died: the pool takes and gives nothing more
    cubes      \* the skyline of every cell of the city

sweepVars == <<terrain, area, machine, phase, queued, running, landed, broken, cubes>>

-----------------------------------------------------------------------------
Inner == (Margin..Rows - 1 - Margin) \X (Margin..Cols - 1 - Margin)

PaddingLessOne == (MaxDistance + 1) \div 2 - 1

(* buffer_pixels, from a radius in half cells, rounded up.                 *)
Padding == (MaxDistance + 1) \div 2

(* A tile by its first cell; it ends TileSize further, or with the city.   *)
Corners == {c \in Inner : (c[1] - Margin) % TileSize = 0 /\ (c[2] - Margin) % TileSize = 0}

TileOf(job) ==
    {c \in Inner : /\ c[1] \in job[1]..job[1] + TileSize - 1
                   /\ c[2] \in job[2]..job[2] + TileSize - 1}

LastRow(job) == Max({c[1] : c \in TileOf(job)})
LastCol(job) == Max({c[2] : c \in TileOf(job)})

(* The padded window a tile is swept from, cut at the edge of the raster.  *)
WindowOf(job) ==
    {c \in Cells : /\ c[1] \in job[1] - Padding..LastRow(job) + Padding
                   /\ c[2] \in job[2] - Padding..LastCol(job) + Padding}

ASSUME SweepAssumption ==
    /\ Margin \in Nat /\ TileSize \in Nat \ {0} /\ TileBytes \in Nat \ {0}
    /\ IsFiniteSet(Workers) /\ Nothing \notin Corners
    /\ Machinery \subseteq Machines(Seq({NoFile, NoLimit} \cup Nat), Nat)

Covered(cell) == area = Everything \/ cell \in area

Asked == {job \in Corners : \E c \in TileOf(job) : Covered(c)}

(* A tile cut to what is covered before it is swept.                       *)
SweptTileCovered(job) ==
    [c \in {d \in TileOf(job) : Covered(d)} |-> Profile(terrain, WindowOf(job), c)]

(* _sweep_tile sweeps its tile whole and masks it afterwards.              *)
SweptTile(job) ==
    [c \in TileOf(job) |->
        IF Covered(c) THEN Profile(terrain, WindowOf(job), c) ELSE OpenSky]

Filed(profiles) ==
    [c \in Inner |-> IF c \in DOMAIN profiles THEN profiles[c] ELSE cubes[c]]

-----------------------------------------------------------------------------
SweepInit ==
    /\ terrain \in Scenes /\ area \in Areas /\ machine \in Machinery
    /\ phase = "ready"
    /\ queued = {} /\ running = [w \in Workers |-> Nothing] /\ landed = {}
    /\ broken = FALSE
    /\ cubes = [c \in Inner |-> Blank]

Parallel == Cardinality(Workers) > 1

(* A beginning that leaves the tiles out of the area as they were.         *)
BeginSweepUnwritten ==
    /\ phase = "ready"
    /\ IF \/ Parallel /\ ~BudgetAllows(machine, Cardinality(Workers), TileBytes)
          \/ Asked = {}
       THEN phase' = "refused" /\ UNCHANGED queued
       ELSE phase' = "sweeping" /\ queued' = Asked
    /\ UNCHANGED <<terrain, area, machine, running, landed, broken, cubes>>

(* More than one worker is checked against the budget before the pool      *)
(* exists; an area that covers nothing is an error.  Tiles out of the area *)
(* are written as open sky and never swept: the cubes are allocated, not   *)
(* initialised.                                                            *)
BeginSweep ==
    /\ phase = "ready"
    /\ IF \/ Parallel /\ ~BudgetAllows(machine, Cardinality(Workers), TileBytes)
          \/ Asked = {}
       THEN phase' = "refused" /\ UNCHANGED <<queued, cubes>>
       ELSE /\ phase' = "sweeping"
            /\ queued' = Asked
            /\ cubes' = [c \in Inner |->
                  IF \E job \in Corners \ Asked : c \in TileOf(job) THEN OpenSky ELSE Blank]
    /\ UNCHANGED <<terrain, area, machine, running, landed, broken>>

TakeTile(w) ==
    /\ phase = "sweeping" /\ ~broken /\ running[w] = Nothing
    /\ \E job \in queued :
         /\ queued' = queued \ {job}
         /\ running' = [running EXCEPT ![w] = job]
    /\ UNCHANGED <<terrain, area, machine, phase, landed, broken, cubes>>

FinishTile(w) ==
    /\ running[w] # Nothing /\ ~broken
    /\ landed' = landed \cup {<<running[w], SweptTile(running[w])>>}
    /\ running' = [running EXCEPT ![w] = Nothing]
    /\ UNCHANGED <<terrain, area, machine, phase, queued, broken, cubes>>

(* as_completed gives them in any order; the parent files them one by one. *)
FileTile ==
    /\ phase = "sweeping"
    /\ \E tile \in landed :
         /\ landed' = landed \ {tile}
         /\ cubes' = Filed(tile[2])
    /\ UNCHANGED <<terrain, area, machine, phase, queued, running, broken>>

KillWorker(w) ==
    /\ phase = "sweeping" /\ running[w] # Nothing /\ ~broken
    /\ broken' = TRUE
    /\ running' = [v \in Workers |-> Nothing]
    /\ UNCHANGED <<terrain, area, machine, phase, queued, landed, cubes>>

(* BrokenProcessPool: what is queued is cancelled and the build fails.     *)
FailSweep ==
    /\ phase = "sweeping" /\ broken
    /\ phase' = "failed" /\ queued' = {}
    /\ UNCHANGED <<terrain, area, machine, running, landed, broken, cubes>>

(* The loop ends when every tile submitted has been filed.                 *)
EndSweep ==
    /\ phase = "sweeping" /\ ~broken
    /\ queued = {} /\ landed = {} /\ \A w \in Workers : running[w] = Nothing
    /\ phase' = "swept"
    /\ UNCHANGED <<terrain, area, machine, queued, running, landed, broken, cubes>>

SweepNext ==
    \/ BeginSweep \/ FileTile \/ FailSweep \/ EndSweep
    \/ \E w \in Workers : TakeTile(w) \/ FinishTile(w) \/ KillWorker(w)

SweepSpec == SweepInit /\ [][SweepNext]_sweepVars

-----------------------------------------------------------------------------
(* What the skyline of a cell is, whatever the tiles: the whole raster     *)
(* swept at once, and the open sky where nothing was asked.                *)
WholeSkyline(cell) == IF Covered(cell) THEN Profile(terrain, Cells, cell) ELSE OpenSky

(* "Results are independent of tile_size", and of who swept what and in    *)
(* which order it came back; nothing of the memory the cubes were given is *)
(* left in them, and a pool that lost a worker is not taken for a finished *)
(* one.                                                                    *)
TilesLeaveNoTrace == phase = "swept" => \A c \in Inner : cubes[c] = WholeSkyline(c)

(* What a refused build is told to use instead is accepted, and is the     *)
(* most that would have been: never zero workers where one would do.       *)
AdviceIsTheMost ==
    phase = "refused" /\ Asked # {} =>
        LET fits == Advice(machine, TileBytes)
        IN  /\ fits >= 1 => BudgetAllows(machine, fits, TileBytes)
            /\ ~BudgetAllows(machine, fits + 1, TileBytes)
            /\ fits < Cardinality(Workers)

(* A sweep is the same however it is cut up and whoever it is shared out   *)
(* among, and a machine that is refused one is told what it can run.       *)
SweepIsSound == TilesLeaveNoTrace /\ AdviceIsTheMost
=============================================================================
