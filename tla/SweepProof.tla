----------------------------- MODULE SweepProof ------------------------------
(***************************************************************************)
(* Neither the tiles of the sweep nor the blocks of the reader can be told *)
(* from the skylines, nor the overlay from the points: for any raster,     *)
(* tile, pool, block, cache and sun.                                       *)
(*                                                                         *)
(* The sweep: a cell holds its skyline or its tile is underway (Shares);   *)
(* when nothing is queued, running or landed, every cell holds it.  That a *)
(* tile computes the skyline at all is WindowIsEnough: no ray leaves the   *)
(* padding.                                                                *)
(* The reader: a point it contains is in the block its key names           *)
(* (BlockHasThePoint), and the blocks kept are the end of the list of the  *)
(* keys asked for, but for the one being read (Locked).                    *)
(* The overlay: an obstacle that is no tree still stands when the trees    *)
(* are felled, so no sector it closes opens (FellingOthers); the rest is   *)
(* the two ways of answering, case by case (DrawnIsAnswered).              *)
(***************************************************************************)
EXTENDS SceneReader, ShadeMap, Numbers, SequenceTheorems, FiniteSetTheorems, TLAPS

-----------------------------------------------------------------------------
(* The tiles of a city.                                                    *)

(* Every cell is of a tile.                                                *)
LEMMA EveryCellHasATile ==
  ASSUME NEW c \in Inner
  PROVE  \E tile \in Corners : c \in TileOf(tile)
<1> USE RasterAssumption, SweepAssumption
<1> DEFINE south == c[1] - Margin  east == c[2] - Margin
           row == south \div TileSize  col == east \div TileSize
           tile == <<Margin + TileSize * row, Margin + TileSize * col>>
<1>1. /\ c = <<c[1], c[2]>> /\ c[1] \in Margin..Rows - 1 - Margin
      /\ c[2] \in Margin..Cols - 1 - Margin
  BY DEF Inner
<1>10. south \in Nat /\ east \in Nat
  BY <1>1
<1> HIDE DEF south, east
<1>2. row \in Nat /\ TileSize * row <= south /\ south < TileSize * row + TileSize
  BY <1>10, Quotients
<1>3. col \in Nat /\ TileSize * col <= east /\ east < TileSize * col + TileSize
  BY <1>10, Quotients
<1>4. (TileSize * row) % TileSize = 0 /\ (TileSize * col) % TileSize = 0
  BY <1>2, <1>3, Multiples
<1>5. TileSize * row \in Nat /\ TileSize * col \in Nat
  BY <1>2, <1>3
<1> DEFINE down == TileSize * row  right == TileSize * col
<1> HIDE DEF row, col
<1> HIDE DEF down, right
<1>6. /\ down \in Nat /\ Margin + down <= c[1] /\ c[1] <= Margin + down + TileSize - 1
      /\ right \in Nat /\ Margin + right <= c[2] /\ c[2] <= Margin + right + TileSize - 1
      /\ down % TileSize = 0 /\ right % TileSize = 0
      /\ tile = <<Margin + down, Margin + right>>
  <2>1. down \in Nat /\ down <= south /\ south < down + TileSize /\ down % TileSize = 0
    BY <1>2, <1>4, <1>5 DEF down
  <2>2. right \in Nat /\ right <= east /\ east < right + TileSize /\ right % TileSize = 0
    BY <1>3, <1>4, <1>5 DEF right
  <2>3. c[1] = Margin + south /\ c[2] = Margin + east
    BY <1>1 DEF south, east
  <2>4. tile = <<Margin + down, Margin + right>>
    BY DEF down, right
  <2> QED
    BY <1>10, <2>1, <2>2, <2>3, <2>4
<1> HIDE DEF tile
<1>7. tile \in Inner /\ tile[1] - Margin = down /\ tile[2] - Margin = right
  BY <1>1, <1>6 DEF Inner
<1>8. tile \in Corners
  BY <1>6, <1>7 DEF Corners
<1>9. c \in TileOf(tile)
  <2>1. tile[1] = Margin + down /\ tile[2] = Margin + right
    BY <1>6
  <2>2. c[1] \in tile[1]..tile[1] + TileSize - 1 /\ c[2] \in tile[2]..tile[2] + TileSize - 1
    BY <1>1, <1>6, <2>1
  <2> QED
    BY <2>2 DEF TileOf
<1> QED
  BY <1>8, <1>9

(* A tile ends at the last of its cells.                                   *)
LEMMA TileEnds ==
  ASSUME NEW tile \in Corners, NEW c \in TileOf(tile)
  PROVE  /\ c[1] \in tile[1]..LastRow(tile) /\ LastRow(tile) \in Nat
         /\ c[2] \in tile[2]..LastCol(tile) /\ LastCol(tile) \in Nat
         /\ tile[1] \in Nat /\ tile[2] \in Nat
<1> USE RasterAssumption, SweepAssumption
<1> DEFINE rows == {d[1] : d \in TileOf(tile)}  cols == {d[2] : d \in TileOf(tile)}
<1>1. /\ tile[1] \in Nat /\ tile[2] \in Nat
      /\ c[1] \in Nat /\ tile[1] <= c[1] /\ c[2] \in Nat /\ tile[2] <= c[2]
  BY DEF TileOf, Corners, Inner
<1>2. /\ rows \in SUBSET Nat /\ c[1] \in rows /\ \A n \in rows : n <= Rows
      /\ cols \in SUBSET Nat /\ c[2] \in cols /\ \A n \in cols : n <= Cols
  BY DEF TileOf, Inner
<1> HIDE DEF rows, cols
<1>3. Max(rows) \in rows /\ c[1] <= Max(rows) /\ Max(cols) \in cols /\ c[2] <= Max(cols)
  BY <1>2, Largest
<1>4. LastRow(tile) = Max(rows) /\ LastCol(tile) = Max(cols)
  BY DEF LastRow, LastCol, rows, cols
<1> QED
  <2>1. Max(rows) \in Nat /\ Max(cols) \in Nat
    BY <1>2, <1>3
  <2> QED
    BY <1>1, <1>3, <1>4, <2>1

(* A ray goes straight, a cell at a time, and no further than the padding. *)
LEMMA RaysAreShort ==
  ASSUME NEW c \in Int \X Int, NEW k \in Sector, NEW d \in Steps
  PROVE  /\ Padding \in Nat
         /\ Along(c, k, d)[1] \in c[1] - Padding..c[1] + Padding
         /\ Along(c, k, d)[2] \in c[2] - Padding..c[2] + Padding
<1> USE RasterAssumption
<1>1. d \in Nat /\ 2 * d - 1 < MaxDistance
  BY DEF Steps
<1>2. Padding \in Nat /\ d <= Padding
  BY <1>1 DEF Padding
<1>3. Toward[k] \in {-1, 0, 1} \X {-1, 0, 1}
  <2>1. k \in {0, 1, 2, 3} /\ Toward[k] = <<<<-1, 0>>, <<0, 1>>, <<1, 0>>, <<0, -1>>>>[k + 1]
    BY DEF Toward, Sector, Sectors
  <2> QED
    BY <2>1
<1>4. ASSUME NEW n \in Int, NEW turn \in {-1, 0, 1}
      PROVE  n + d * turn \in n - Padding..n + Padding
  BY <1>1, <1>2
<1> QED
  BY <1>2, <1>3, <1>4 DEF Along

(* So what a cell sees through its tile's window is all there is to see.   *)
LEMMA WindowIsEnough ==
  ASSUME NEW tile \in Corners, NEW c \in TileOf(tile)
  PROVE  Profile(terrain, WindowOf(tile), c) = Profile(terrain, Cells, c)
<1>1. c \in Int \X Int
  BY RasterAssumption, SweepAssumption DEF TileOf, Inner
<1>2. ASSUME NEW k \in Sector
      PROVE  Ray(WindowOf(tile), c, k) = Ray(Cells, c, k)
  <2>1. ASSUME NEW d \in Steps, Along(c, k, d) \in Cells
        PROVE  Along(c, k, d) \in WindowOf(tile)
    <3>1. /\ Along(c, k, d)[1] \in c[1] - Padding..c[1] + Padding
          /\ Along(c, k, d)[2] \in c[2] - Padding..c[2] + Padding /\ Padding \in Nat
      BY <1>1, RaysAreShort
    <3>2. /\ Along(c, k, d)[1] \in tile[1] - Padding..LastRow(tile) + Padding
          /\ Along(c, k, d)[2] \in tile[2] - Padding..LastCol(tile) + Padding
      BY <1>1, <3>1, TileEnds
    <3> QED
      BY <2>1, <3>2 DEF WindowOf
  <2> QED
    BY <2>1 DEF Ray, WindowOf
<1> QED
  BY <1>2 DEF Profile, AngleOver, BlockerOver

(* A tile that was swept holds the skyline of the whole raster.            *)
LEMMA SweptIsTrue ==
  ASSUME NEW tile \in Corners
  PROVE  /\ DOMAIN SweptTile(tile) = TileOf(tile)
         /\ \A c \in TileOf(tile) : SweptTile(tile)[c] = WholeSkyline(c)
  BY WindowIsEnough DEF SweptTile, WholeSkyline

-----------------------------------------------------------------------------
(* A tile on its way: with a worker, before it or behind it.               *)
Underway(tile) ==
    \/ tile \in queued
    \/ \E w \in Workers : running[w] = tile
    \/ <<tile, SweptTile(tile)>> \in landed

(* What is filed is true, and what is not is underway.                     *)
Shares ==
    /\ terrain \in Scenes /\ machine \in Machinery
    /\ queued \subseteq Asked /\ running \in [Workers -> Asked \cup {Nothing}]
    /\ landed \subseteq {<<tile, SweptTile(tile)>> : tile \in Asked}
    /\ DOMAIN cubes = Inner
    /\ phase = "sweeping" /\ ~broken =>
         \A c \in Inner : \/ cubes[c] = WholeSkyline(c)
                          \/ \E tile \in Asked : c \in TileOf(tile) /\ Underway(tile)
    /\ phase = "swept" => TilesLeaveNoTrace /\ \A w \in Workers : running[w] = Nothing
    /\ phase = "refused" /\ Asked # {} =>
         Parallel /\ ~BudgetAllows(machine, Cardinality(Workers), TileBytes)

(* Before the sweep, and whenever nothing about it changes.                *)
LEMMA SharesStay ==
  ASSUME Shares, UNCHANGED sweepVars
  PROVE  Shares'
  BY DEF Shares, sweepVars, Underway, SweptTile, WholeSkyline, Covered, Asked, TilesLeaveNoTrace

(* Nobody changes the city, the area or the machine in mid-sweep.          *)
LEMMA SameJob ==
  ASSUME UNCHANGED <<terrain, area, machine>>
  PROVE  /\ Asked' = Asked
         /\ \A c : WholeSkyline(c)' = WholeSkyline(c)
         /\ \A tile : SweptTile(tile)' = SweptTile(tile)
         /\ BudgetAllows(machine, Cardinality(Workers), TileBytes)' =
              BudgetAllows(machine, Cardinality(Workers), TileBytes)
  BY DEF Asked, Covered, WholeSkyline, SweptTile

(* Every step leaves what is filed true, and the rest underway.            *)
LEMMA StepShares ==
  ASSUME Shares, [SweepNext]_sweepVars
  PROVE  Shares'
<1>1. CASE BeginSweep
  <2>1. UNCHANGED <<terrain, area, machine, running, landed, broken>>
    BY <1>1 DEF BeginSweep
  <2>2. CASE phase' = "refused"
    BY <1>1, <2>1, <2>2, SameJob DEF BeginSweep, Shares
  <2>3. CASE phase' = "sweeping"
    <3>1. /\ queued' = Asked
          /\ cubes' = [c \in Inner |->
                IF \E tile \in Corners \ Asked : c \in TileOf(tile) THEN OpenSky ELSE Blank]
      BY <1>1, <2>3 DEF BeginSweep
    <3>2. ASSUME NEW c \in Inner
          PROVE  \/ cubes'[c] = WholeSkyline(c)
                 \/ \E tile \in Asked : c \in TileOf(tile) /\ tile \in queued'
      <4>1. PICK tile \in Corners : c \in TileOf(tile)
        BY EveryCellHasATile
      <4>2. CASE tile \in Asked
        BY <3>1, <4>1, <4>2
      <4>3. CASE tile \notin Asked
        <5>1. ~Covered(c)
          BY <4>1, <4>3 DEF Asked
        <5> QED
          BY <3>1, <4>1, <4>3, <5>1 DEF WholeSkyline
      <4> QED
        BY <4>2, <4>3
    <3> QED
      BY <2>1, <2>3, <3>1, <3>2, SameJob DEF Shares, Underway
  <2> QED
    BY <1>1, <2>2, <2>3 DEF BeginSweep
<1>2. ASSUME NEW w \in Workers, TakeTile(w)
      PROVE  Shares'
  <2>1. PICK tile \in queued : /\ queued' = queued \ {tile}
                               /\ running' = [running EXCEPT ![w] = tile]
    BY <1>2 DEF TakeTile
  <2>2. /\ UNCHANGED <<terrain, area, machine, phase, landed, broken, cubes>>
        /\ running[w] = Nothing /\ Nothing \notin Asked
    BY <1>2, SweepAssumption DEF TakeTile, Asked
  <2>3. running' \in [Workers -> Asked \cup {Nothing}] /\ queued' \subseteq Asked
    BY <2>1 DEF Shares
  <2>4. ASSUME NEW job \in Asked, Underway(job)
        PROVE  Underway(job)'
    BY <2>1, <2>2, <2>4, SameJob DEF Shares, Underway
  <2> QED
    BY <1>2, <2>2, <2>3, <2>4, SameJob DEF Shares, TakeTile
<1>3. ASSUME NEW w \in Workers, FinishTile(w)
      PROVE  Shares'
  <2>1. /\ UNCHANGED <<terrain, area, machine, phase, queued, broken, cubes>>
        /\ landed' = landed \cup {<<running[w], SweptTile(running[w])>>}
        /\ running' = [running EXCEPT ![w] = Nothing] /\ running[w] # Nothing
    BY <1>3 DEF FinishTile
  <2>2. running' \in [Workers -> Asked \cup {Nothing}] /\ running[w] \in Asked
    BY <2>1 DEF Shares
  <2>3. ASSUME NEW job \in Asked, Underway(job)
        PROVE  Underway(job)'
    BY <2>1, <2>3, SameJob DEF Shares, Underway
  <2>4. phase # "swept"
    BY <2>1 DEF Shares
  <2> QED
    BY <2>1, <2>2, <2>3, <2>4, SameJob DEF Shares
<1>4. CASE FileTile
  <2>1. PICK tile \in Asked : /\ landed' = landed \ {<<tile, SweptTile(tile)>>}
                              /\ cubes' = Filed(SweptTile(tile))
    BY <1>4 DEF FileTile, Shares
  <2>2. UNCHANGED <<terrain, area, machine, phase, queued, running, broken>> /\ phase = "sweeping"
    BY <1>4 DEF FileTile
  <2>3. tile \in Corners
    BY DEF Asked
  <2>4. ASSUME NEW c \in Inner
        PROVE  /\ c \in TileOf(tile) => cubes'[c] = WholeSkyline(c)
               /\ c \notin TileOf(tile) => cubes'[c] = cubes[c]
    BY <2>1, <2>3, SweptIsTrue DEF Filed
  <2>5. ASSUME NEW job \in Asked, Underway(job), job # tile
        PROVE  Underway(job)'
    BY <2>1, <2>2, <2>5, SameJob DEF Underway
  <2>6. DOMAIN cubes' = Inner
    BY <2>1 DEF Filed
  <2> QED
    BY <2>1, <2>2, <2>4, <2>5, <2>6, SameJob DEF Shares
<1>5. ASSUME NEW w \in Workers, KillWorker(w)
      PROVE  Shares'
  BY <1>5, SameJob DEF KillWorker, Shares
<1>6. CASE FailSweep
  BY <1>6, SameJob DEF FailSweep, Shares
<1>7. CASE EndSweep
  <2>1. /\ UNCHANGED <<terrain, area, machine, queued, running, landed, broken, cubes>>
        /\ phase = "sweeping" /\ ~broken /\ phase' = "swept"
        /\ \A tile \in Asked : ~Underway(tile)
        /\ \A w \in Workers : running[w] = Nothing
    BY <1>7, SweepAssumption DEF EndSweep, Underway, Asked
  <2>2. \A c \in Inner : cubes[c] = WholeSkyline(c)
    BY <2>1 DEF Shares
  <2> QED
    BY <2>1, <2>2, SameJob DEF Shares, TilesLeaveNoTrace
<1>8. CASE UNCHANGED sweepVars
  BY <1>8, SharesStay
<1> QED
  BY <1>1, <1>2, <1>3, <1>4, <1>5, <1>6, <1>7, <1>8 DEF SweepNext

(* Nothing is underway before the sweep has begun.                         *)
LEMMA InitShares ==
  ASSUME SweepInit PROVE Shares
  BY DEF SweepInit, Shares

-----------------------------------------------------------------------------
(* The memory of a machine, and what fits in it.                           *)

(* What a machine has to give is an amount, unless nobody can tell.        *)
LEMMA AvailableTyped ==
  ASSUME NEW m \in Machinery
  PROVE  Available(m) \in Nat \cup {Unreadable}
<1>1. /\ m.max \in Seq({NoFile, NoLimit} \cup Nat) /\ m.used \in Nat /\ m.cache \in Nat
      /\ m.free \in Nat \cup {Unreadable}
  BY SweepAssumption DEF Machines
<1> DEFINE readable == {i \in DOMAIN m.max : m.max[i] # NoFile}
<1>2. ReadMax(m) \in Nat \cup {NoLimit}
  <2>1. CASE readable = {}
    BY <2>1 DEF ReadMax
  <2>2. CASE readable # {}
    <3>1. readable \in SUBSET Nat
      BY <1>1
    <3> HIDE DEF readable
    <3>2. Min(readable) \in readable
      BY <2>2, <3>1, Smallest
    <3>3. ASSUME NEW first \in readable
          PROVE  m.max[first] \in Nat \cup {NoLimit}
      <4>1. first \in DOMAIN m.max /\ m.max[first] # NoFile
        BY <3>3 DEF readable
      <4> QED
        BY <1>1, <4>1
    <3>4. ReadMax(m) = m.max[Min(readable)]
      BY <2>2 DEF ReadMax, readable
    <3> QED
      BY <3>2, <3>3, <3>4
  <2> QED
    BY <2>1, <2>2
<1>3. CgroupAvailable(m) \in Nat \cup {Unreadable}
  BY <1>1, <1>2 DEF CgroupAvailable, AtLeastZero
<1> DEFINE amounts == {CgroupAvailable(m), m.free} \ {Unreadable}
<1>4. amounts \in SUBSET Nat
  BY <1>1, <1>3
<1> HIDE DEF amounts
<1>5. amounts # {} => Min(amounts) \in Nat
  BY <1>4, Smallest
<1>6. Available(m) = IF amounts = {} THEN Unreadable ELSE Min(amounts)
  BY DEF Available, amounts
<1> QED
  BY <1>5, <1>6

(* The advice is what fits, and one worker more is not.                    *)
LEMMA TheMostThatFits ==
  ASSUME NEW budget \in Nat, NEW wanted \in Nat, NEW each \in Nat \ {0},
         wanted * each > budget
  PROVE  /\ budget \div each \in Nat
         /\ (budget \div each) * each <= budget
         /\ (budget \div each + 1) * each > budget
         /\ budget \div each < wanted
  OBVIOUS

(* A sweep that ends without an error has computed, in every cell, the     *)
(* skyline of the whole raster: whatever the city and the area, the size   *)
(* of the tiles, the number of workers and the order they come back in; a  *)
(* machine that is refused one is told the most it can run.                *)
THEOREM SweepAlwaysSound == SweepSpec => []SweepIsSound
<1>1. SweepInit => Shares
  BY InitShares
<1>2. Shares /\ [SweepNext]_sweepVars => Shares'
  BY StepShares
<1>3. Shares => SweepIsSound
  <2> SUFFICES ASSUME Shares PROVE SweepIsSound
    OBVIOUS
  <2>1. TilesLeaveNoTrace
    BY DEF Shares, TilesLeaveNoTrace
  <2>2. ASSUME phase = "refused", Asked # {}
        PROVE  LET fits == Advice(machine, TileBytes)
               IN  /\ fits >= 1 => BudgetAllows(machine, fits, TileBytes)
                   /\ ~BudgetAllows(machine, fits + 1, TileBytes)
                   /\ fits < Cardinality(Workers)
    <3> DEFINE workers == Cardinality(Workers)  budget == Plannable(machine)
    <3>1. ~BudgetAllows(machine, workers, TileBytes) /\ machine \in Machinery
      BY <2>2 DEF Shares
    <3>2. workers \in Nat /\ TileBytes \in Nat \ {0}
      BY SweepAssumption, FS_CardinalityType
    <3>3. Available(machine) \in Nat /\ Available(machine) # Unreadable
      BY <3>1, AvailableTyped DEF BudgetAllows
    <3>4. budget \in Nat
      BY <3>3 DEF Plannable
    <3>5. workers * TileBytes > budget
      BY <3>1, <3>2, <3>3, <3>4 DEF BudgetAllows
    <3>6. Advice(machine, TileBytes) = budget \div TileBytes
      BY DEF Advice, WorkersThatFit
    <3> HIDE DEF workers, budget
    <3> DEFINE fits == budget \div TileBytes
    <3>7. /\ fits \in Nat /\ fits * TileBytes <= budget /\ (fits + 1) * TileBytes > budget
          /\ fits < workers
      BY <3>2, <3>4, <3>5, TheMostThatFits
    <3>8. fits * TileBytes \in Nat /\ (fits + 1) * TileBytes \in Nat
      BY <3>2, <3>7
    <3> HIDE DEF fits
    <3>9. BudgetAllows(machine, fits, TileBytes) /\ ~BudgetAllows(machine, fits + 1, TileBytes)
      BY <3>3, <3>4, <3>7, <3>8 DEF BudgetAllows, budget
    <3> QED
      BY <3>6, <3>7, <3>9 DEF fits, workers
  <2> QED
    BY <2>1, <2>2 DEF SweepIsSound, AdviceIsTheMost
<1> QED
  BY <1>1, <1>2, <1>3, PTL DEF SweepSpec

-----------------------------------------------------------------------------
(* One list ends with the other, cut to the size of the cache.             *)
Youngest(young, all, size) ==
    /\ Len(young) = Smaller(MaxBlocks, size)
    /\ \A i \in 1..Len(young) : young[i] = all[size - Len(young) + i]

(* No key is twice in the list.                                            *)
Unrepeated(s) == \A i, j \in 1..Len(s) : s[i] = s[j] => i = j

(* A thread that reads does so for a point the reader contains, and what   *)
(* it has answered is true of it.                                          *)
Answering(t) ==
    /\ doing[t] \in {"idle", "waiting", "reading", "answered"}
    /\ doing[t] # "idle" => phase = "swept" /\ asked[t] \in Points
    /\ doing[t] \in {"waiting", "reading"} => ReaderContains(asked[t])
    /\ doing[t] = "answered" =>
         \/ answer[t] = Outside /\ ~ReaderContains(asked[t])
         \/ /\ ReaderContains(asked[t])
            /\ answer[t] = [profile |-> Profile(terrain, Cells, OnRaster(RowCol(asked[t]))),
                            under   |-> OnRaster(RowCol(asked[t])) \in Canopy(terrain)]

(* Who holds the lock is reading the block it was last to ask for; the     *)
(* others of the list are kept.                                            *)
Locked ==
    /\ blocks \in Seq(Int \X Int) /\ recent \in Seq(Int \X Int) /\ Unrepeated(recent)
    /\ \A t \in Threads : doing[t] = "reading" <=> holder = t
    /\ IF holder = Nobody THEN Youngest(blocks, recent, Len(recent))
       ELSE /\ holder \in Threads /\ recent # <<>>
            /\ recent[Len(recent)] = KeyOf(asked[holder])
            /\ Youngest(blocks, recent, Len(recent) - 1)

(* What the reader's threads maintain once a city is served.               *)
CacheInv ==
    /\ asked \in [Threads -> Points \cup {Nowhere}]
    /\ DOMAIN doing = Threads /\ DOMAIN answer = Threads
    /\ \A t \in Threads : Answering(t)
    /\ Locked

(* A point of the grid is in a pixel of the block its key names, and the   *)
(* block has it where the engine looks.                                    *)
LEMMA BlockHasThePoint ==
  ASSUME NEW point \in Points, ReaderContains(point)
  PROVE  /\ RowCol(point) \in Nat \X Nat
         /\ OnRaster(RowCol(point)) \in Inner
         /\ Answer(point) = [profile |-> cubes[OnRaster(RowCol(point))],
                             under   |-> OnRaster(RowCol(point)) \in Canopy(terrain)]
<1> USE RasterAssumption, SweepAssumption, ReaderAssumption
<1> DEFINE r == point[1] \div 2  c == point[2] \div 2
           up == BlockSize * (r \div BlockSize)  left == BlockSize * (c \div BlockSize)
<1>1. /\ point[1] \in Nat /\ point[1] < 2 * GridRows
      /\ point[2] \in Nat /\ point[2] < 2 * GridCols
  BY DEF ReaderContains, OnGrid
<1>2. GridRows \in Int /\ GridCols \in Int
  BY DEF GridRows, GridCols
<1>3. r \in Nat /\ r < GridRows /\ c \in Nat /\ c < GridCols
  BY <1>1, <1>2
<1>4. RowCol(point) = <<r, c>>
  BY DEF RowCol
<1> HIDE DEF r, c
<1>5. /\ up \in Nat /\ up <= r /\ r < up + BlockSize
      /\ left \in Nat /\ left <= c /\ c < left + BlockSize
  <2>1. r \div BlockSize \in Nat /\ c \div BlockSize \in Nat
    BY <1>3, Quotients
  <2> QED
    BY <1>3, <2>1, Quotients
<1>6. KeyOf(point) = <<r \div BlockSize, c \div BlockSize>>
  BY <1>4 DEF KeyOf
<1> DEFINE block == Block(KeyOf(point))
           window == (0..Smaller(BlockSize, GridRows - up) - 1)
                        \X (0..Smaller(BlockSize, GridCols - left) - 1)
<1>7. /\ block.origin = <<up, left>>
      /\ block.pixels = [rc \in window |->
            [profile |-> cubes[OnRaster(<<up + rc[1], left + rc[2]>>)],
             under   |-> OnRaster(<<up + rc[1], left + rc[2]>>) \in Canopy(terrain)]]
  <2>1. KeyOf(point)[1] * BlockSize = up /\ KeyOf(point)[2] * BlockSize = left
    BY <1>3, <1>6, Quotients
  <2> QED
    BY <2>1 DEF Block
<1> HIDE DEF up, left, block
<1>8. RowCol(<<(2 * r + 1) - 2 * up, (2 * c + 1) - 2 * left>>) = <<r - up, c - left>>
  <2>1. ((2 * r + 1) - 2 * up) \div 2 = r - up /\ ((2 * c + 1) - 2 * left) \div 2 = c - left
    BY <1>3, <1>5
  <2> QED
    BY <2>1 DEF RowCol
<1>9. <<r - up, c - left>> \in window
  BY <1>2, <1>3, <1>5 DEF Smaller
<1>10. Answer(point) = block.pixels[<<r - up, c - left>>]
  <2>1. /\ RowCol(point)[1] = r /\ RowCol(point)[2] = c
        /\ block.origin[1] = up /\ block.origin[2] = left
    BY <1>4, <1>7
  <2> HIDE DEF window
  <2>2. Answer(point) = block.pixels[RowCol(<<(2 * RowCol(point)[1] + 1) - 2 * block.origin[1],
                                            (2 * RowCol(point)[2] + 1) - 2 * block.origin[2]>>)]
    BY DEF Answer, block
  <2> QED
    BY <1>8, <2>1, <2>2, Zenon
<1>11. up + (r - up) = r /\ left + (c - left) = c
  BY <1>3, <1>5
<1>12. Answer(point) = [profile |-> cubes[OnRaster(<<r, c>>)],
                        under   |-> OnRaster(<<r, c>>) \in Canopy(terrain)]
  BY <1>7, <1>9, <1>10, <1>11
<1>13. OnRaster(<<r, c>>) \in Inner
  BY <1>3 DEF OnRaster, Inner, GridRows, GridCols
<1> QED
  BY <1>3, <1>4, <1>12, <1>13

(* Off the grid there is no cell of the city.                              *)
LEMMA OffTheGrid ==
  ASSUME NEW point \in Points, ~ReaderContains(point)
  PROVE  \/ point = Nowhere \/ OnRaster(RowCol(point)) \notin Inner
         \/ ~Covered(OnRaster(RowCol(point)))
<1> USE RasterAssumption, SweepAssumption, ReaderAssumption
<1> SUFFICES ASSUME point # Nowhere, ~OnGrid(point)
             PROVE  OnRaster(RowCol(point)) \notin Inner
  BY DEF ReaderContains
<1>1. point[1] \in Int /\ point[2] \in Int
  OBVIOUS
<1>2. /\ OnRaster(RowCol(point))[1] = point[1] \div 2 + Margin
      /\ OnRaster(RowCol(point))[2] = point[2] \div 2 + Margin
  BY DEF OnRaster, RowCol
<1>3. \/ point[1] \div 2 < 0 \/ point[1] \div 2 >= GridRows
      \/ point[2] \div 2 < 0 \/ point[2] \div 2 >= GridCols
  BY <1>1 DEF OnGrid, GridRows, GridCols
<1>4. point[1] \div 2 \in Int /\ point[2] \div 2 \in Int
  BY <1>1
<1> QED
  BY <1>2, <1>3, <1>4 DEF Inner, GridRows, GridCols

-----------------------------------------------------------------------------
(* The keys of the cache.                                                  *)

(* A function from 1..n is a list of that length.                          *)
LEMMA ListOfLength ==
  ASSUME NEW S, NEW n \in Nat, NEW f \in [1..n -> S]
  PROVE  f \in Seq(S) /\ Len(f) = n
<1>1. f \in Seq(S)
  BY SeqDef
<1> QED
  BY <1>1, LenProperties

(* A key that is not there goes to the end.                                *)
LEMMA MovedAnew ==
  ASSUME NEW S, NEW s \in Seq(S), NEW key \in S, key \notin Keys(s)
  PROVE  /\ MovedToEnd(s, key) \in Seq(S)
         /\ Len(MovedToEnd(s, key)) = Len(s) + 1
         /\ \A i \in 1..Len(s) : MovedToEnd(s, key)[i] = s[i]
         /\ MovedToEnd(s, key)[Len(s) + 1] = key
<1>1. MovedToEnd(s, key) = Append(s, key)
  BY DEF MovedToEnd
<1> QED
  BY <1>1, AppendProperties

(* One that is there goes to the end, and those behind it close up.        *)
LEMMA MovedFrom ==
  ASSUME NEW S, NEW s \in Seq(S), NEW key \in S, Unrepeated(s),
         NEW there \in 1..Len(s), s[there] = key
  PROVE  /\ MovedToEnd(s, key) \in Seq(S)
         /\ Len(MovedToEnd(s, key)) = Len(s)
         /\ \A i \in 1..Len(s) :
              MovedToEnd(s, key)[i] = IF i < there THEN s[i]
                                      ELSE IF i < Len(s) THEN s[i + 1] ELSE key
<1> DEFINE moved == MovedToEnd(s, key)  n == Len(s)
           place == CHOOSE i \in DOMAIN s : s[i] = key
<1>1. n \in Nat /\ DOMAIN s = 1..n /\ \A i \in 1..n : s[i] \in S
  OBVIOUS
<1>2. place \in 1..n /\ s[place] = key
  BY <1>1
<1>3. place = there
  BY <1>2 DEF Unrepeated
<1>4. moved = [i \in 1..n |-> IF i < place THEN s[i] ELSE IF i < n THEN s[i + 1] ELSE key]
  BY <1>1 DEF MovedToEnd, Keys
<1> HIDE DEF place, moved
<1>5. ASSUME NEW i \in 1..n
      PROVE  (IF i < place THEN s[i] ELSE IF i < n THEN s[i + 1] ELSE key) \in S
  BY <1>1
<1>6. moved \in [1..n -> S]
  BY <1>4, <1>5
<1>7. moved \in Seq(S) /\ Len(moved) = n
  BY <1>1, <1>6, ListOfLength
<1> QED
  BY <1>3, <1>4, <1>7 DEF moved

(* A key asked for becomes the last of the list, and the only one of it.   *)
LEMMA MovedIsLast ==
  ASSUME NEW S, NEW s \in Seq(S), Unrepeated(s), NEW key \in S
  PROVE  /\ MovedToEnd(s, key) \in Seq(S) /\ Unrepeated(MovedToEnd(s, key))
         /\ MovedToEnd(s, key) # <<>>
         /\ MovedToEnd(s, key)[Len(MovedToEnd(s, key))] = key
<1> DEFINE moved == MovedToEnd(s, key)  n == Len(s)
<1>1. n \in Nat /\ DOMAIN s = 1..n
  OBVIOUS
<1>2. CASE key \notin Keys(s)
  <2>1. /\ moved \in Seq(S) /\ Len(moved) = n + 1 /\ moved[n + 1] = key
        /\ \A i \in 1..n : moved[i] = s[i]
    BY <1>2, MovedAnew
  <2>2. \A i \in 1..n : s[i] # key
    BY <1>1, <1>2 DEF Keys
  <2> HIDE DEF moved
  <2>3. Unrepeated(moved)
    <3> SUFFICES ASSUME NEW i \in 1..n + 1, NEW j \in 1..n + 1, moved[i] = moved[j]
                 PROVE  i = j
      BY <2>1 DEF Unrepeated
    <3>1. i \in 1..n /\ j = n + 1 => moved[i] = s[i] /\ moved[j] = key /\ s[i] # key
      BY <2>1, <2>2
    <3>2. j \in 1..n /\ i = n + 1 => moved[j] = s[j] /\ moved[i] = key /\ s[j] # key
      BY <2>1, <2>2
    <3>3. i \in 1..n /\ j \in 1..n => i = j
      BY <2>1 DEF Unrepeated
    <3> QED
      BY <1>1, <3>1, <3>2, <3>3
  <2>4. moved # <<>>
    BY <1>1, <2>1
  <2> QED
    BY <2>1, <2>3, <2>4 DEF moved
<1>3. CASE key \in Keys(s)
  <2>1. PICK place \in 1..n : s[place] = key
    BY <1>1, <1>3 DEF Keys
  <2>2. /\ moved \in Seq(S) /\ Len(moved) = n
        /\ \A i \in 1..n : moved[i] = IF i < place THEN s[i]
                                      ELSE IF i < n THEN s[i + 1] ELSE key
    BY <2>1, MovedFrom
  <2> HIDE DEF moved
  <2>3. Unrepeated(moved)
    <3> DEFINE source == [i \in 1..n |-> IF i < place THEN i ELSE IF i < n THEN i + 1
                                         ELSE place]
    <3>1. \A i \in 1..n : source[i] \in 1..n /\ moved[i] = s[source[i]]
      BY <1>1, <2>1, <2>2
    <3>2. \A i, j \in 1..n : source[i] = source[j] => i = j
      BY <1>1, <2>1
    <3> HIDE DEF source
    <3> SUFFICES ASSUME NEW i \in 1..n, NEW j \in 1..n, moved[i] = moved[j]
                 PROVE  i = j
      BY <2>2 DEF Unrepeated
    <3>3. source[i] \in 1..n /\ source[j] \in 1..n /\ s[source[i]] = s[source[j]]
      BY <3>1
    <3>4. source[i] = source[j]
      BY <3>3 DEF Unrepeated
    <3> QED
      BY <3>2, <3>4
  <2>4. moved # <<>> /\ moved[n] = key
    BY <1>1, <2>1, <2>2
  <2> QED
    BY <2>2, <2>3, <2>4 DEF moved
<1> QED
  BY <1>2, <1>3

(* What is asked for and not kept goes behind those that are.              *)
LEMMA YoungestWhileReading ==
  ASSUME NEW S, NEW young \in Seq(S), NEW all \in Seq(S), Unrepeated(all), NEW key \in S,
         Youngest(young, all, Len(all)), key \notin Keys(young)
  PROVE  LET moved == MovedToEnd(all, key)
         IN  /\ Len(moved) \in Nat \ {0}
             /\ Youngest(young, moved, Len(moved) - 1)
<1> USE ReaderAssumption
<1> DEFINE moved == MovedToEnd(all, key)  n == Len(all)  m == Len(young)
<1>1. n \in Nat /\ m \in Nat /\ DOMAIN all = 1..n /\ DOMAIN young = 1..m
  OBVIOUS
<1>2. m = Smaller(MaxBlocks, n) /\ \A i \in 1..m : young[i] = all[n - m + i]
  BY DEF Youngest
<1>3. m <= n /\ m <= MaxBlocks /\ (m = n \/ m = MaxBlocks)
  BY <1>1, <1>2 DEF Smaller
<1> HIDE DEF n, m
<1>4. CASE key \notin Keys(all)
  <2>1. Len(moved) = n + 1 /\ \A i \in 1..n : moved[i] = all[i]
    BY <1>4, MovedAnew DEF n
  <2> HIDE DEF moved
  <2>2. \A i \in 1..m : young[i] = moved[n - m + i]
    BY <1>1, <1>2, <1>3, <2>1
  <2>3. (Len(moved) - 1) = n
    BY <1>1, <2>1
  <2>4. Youngest(young, moved, n)
    BY <1>2, <2>2 DEF Youngest, m
  <2> QED
    BY <1>1, <2>1, <2>3, <2>4 DEF moved
<1>5. CASE key \in Keys(all)
  <2>1. PICK place \in 1..n : all[place] = key
    BY <1>1, <1>5 DEF Keys
  <2>2. /\ Len(moved) = n
        /\ \A i \in 1..n : moved[i] = IF i < place THEN all[i]
                                      ELSE IF i < n THEN all[i + 1] ELSE key
    BY <2>1, MovedFrom DEF n
  <2> HIDE DEF moved
  <2>3. place <= n - m
    <3> SUFFICES ASSUME place > n - m PROVE FALSE
      BY <1>1
    <3>1. place - (n - m) \in 1..m /\ n - m + (place - (n - m)) = place
      BY <1>1, <1>3
    <3>2. young[place - (n - m)] = key
      BY <1>2, <2>1, <3>1
    <3> QED
      BY <1>1, <3>1, <3>2 DEF Keys
  <2>4. Smaller(MaxBlocks, n - 1) = m
    BY <1>1, <1>3, <2>3 DEF Smaller
  <2>5. ASSUME NEW i \in 1..m
        PROVE  young[i] = moved[(n - 1) - m + i]
    <3>1. (n - 1) - m + i \in 1..n /\ ~((n - 1) - m + i < place) /\ (n - 1) - m + i < n
      BY <1>1, <1>3, <2>3
    <3>2. (n - 1) - m + i + 1 = n - m + i
      BY <1>1
    <3> QED
      BY <1>2, <2>2, <3>1, <3>2
  <2>6. Youngest(young, moved, n - 1)
    BY <2>4, <2>5 DEF Youngest, m
  <2> QED
    BY <1>1, <2>1, <2>2, <2>6 DEF moved
<1> QED
  BY <1>4, <1>5

(* A block that was read is kept, and past the limit the oldest let go.    *)
LEMMA YoungestWhenKept ==
  ASSUME NEW S, NEW young \in Seq(S), NEW all \in Seq(S), all # <<>>,
         Youngest(young, all, Len(all) - 1)
  PROVE  LET more == Append(young, all[Len(all)])
             kept == IF Len(more) > MaxBlocks THEN Tail(more) ELSE more
         IN  kept \in Seq(S) /\ Youngest(kept, all, Len(all))
<1> USE ReaderAssumption
<1> DEFINE n == Len(all)  m == Len(young)  more == Append(young, all[n])
           kept == IF Len(more) > MaxBlocks THEN Tail(more) ELSE more
<1>1. n \in Nat \ {0} /\ m \in Nat /\ all[n] \in S
  OBVIOUS
<1>2. m = Smaller(MaxBlocks, n - 1) /\ \A i \in 1..m : young[i] = all[(n - 1) - m + i]
  BY DEF Youngest
<1>3. m <= n - 1 /\ m <= MaxBlocks /\ (m = n - 1 \/ m = MaxBlocks)
  BY <1>1, <1>2 DEF Smaller
<1>4. more \in Seq(S) /\ Len(more) = m + 1
  BY <1>1
<1>5. ASSUME NEW i \in 1..m + 1
      PROVE  more[i] = all[(n - 1) - m + i]
  <2>1. CASE i = m + 1
    <3>1. (n - 1) - m + i = n /\ more[i] = all[n]
      BY <1>1, <2>1
    <3> QED
      BY <3>1
  <2>2. CASE i \in 1..m
    BY <1>2, <2>2
  <2> QED
    BY <1>1, <2>1, <2>2
<1> HIDE DEF n, m, more
<1>6. CASE m + 1 > MaxBlocks
  <2>1. /\ kept = Tail(more) /\ kept \in Seq(S) /\ Len(kept) = m
        /\ \A i \in 1..m : kept[i] = more[i + 1]
    <3>1. kept = Tail(more) /\ more # <<>>
      BY <1>1, <1>4, <1>6
    <3> QED
      BY <1>1, <1>4, <3>1, HeadTailProperties
  <2> HIDE DEF kept
  <2>2. m = Smaller(MaxBlocks, n)
    BY <1>1, <1>3, <1>6 DEF Smaller
  <2>3. ASSUME NEW i \in 1..m
        PROVE  kept[i] = all[n - m + i]
    <3>1. i + 1 \in 1..m + 1 /\ (n - 1) - m + (i + 1) = n - m + i
      BY <1>1
    <3> QED
      BY <1>5, <2>1, <3>1
  <2> QED
    BY <2>1, <2>2, <2>3 DEF Youngest, n, kept, more
<1>7. CASE ~(m + 1 > MaxBlocks)
  <2>1. kept = more
    BY <1>4, <1>7
  <2>2. m + 1 = Smaller(MaxBlocks, n)
    BY <1>1, <1>3, <1>7 DEF Smaller
  <2>3. ASSUME NEW i \in 1..m + 1
        PROVE  more[i] = all[n - (m + 1) + i]
    <3>1. (n - 1) - m + i = n - (m + 1) + i
      BY <1>1
    <3> QED
      BY <1>5, <3>1
  <2>4. Youngest(more, all, n)
    BY <1>4, <2>2, <2>3 DEF Youngest
  <2> QED
    BY <1>4, <2>1, <2>4 DEF n, kept, more
<1> QED
  BY <1>6, <1>7 DEF m

(* What is asked for and kept becomes the youngest of both lists.          *)
LEMMA YoungestWhenHit ==
  ASSUME NEW S, NEW young \in Seq(S), NEW all \in Seq(S), Unrepeated(all), NEW key \in S,
         Youngest(young, all, Len(all)), key \in Keys(young)
  PROVE  /\ MovedToEnd(young, key) \in Seq(S)
         /\ Youngest(MovedToEnd(young, key), MovedToEnd(all, key), Len(MovedToEnd(all, key)))
<1> USE ReaderAssumption
<1> DEFINE n == Len(all)  m == Len(young)
           newer == MovedToEnd(young, key)  moved == MovedToEnd(all, key)
<1>1. n \in Nat /\ m \in Nat /\ DOMAIN all = 1..n /\ DOMAIN young = 1..m
  OBVIOUS
<1>2. m = Smaller(MaxBlocks, n) /\ \A i \in 1..m : young[i] = all[n - m + i]
  BY DEF Youngest
<1>3. m <= n /\ m \in Nat
  BY <1>1, <1>2 DEF Smaller
<1>4. Unrepeated(young)
  <2> SUFFICES ASSUME NEW i \in 1..m, NEW j \in 1..m, young[i] = young[j]
               PROVE  i = j
    BY DEF Unrepeated
  <2>1. n - m + i \in 1..n /\ n - m + j \in 1..n
    BY <1>1, <1>3
  <2>2. n - m + i = n - m + j
    BY <1>2, <2>1 DEF Unrepeated
  <2> QED
    BY <1>1, <2>2
<1>5. PICK place \in 1..m : young[place] = key
  BY <1>1 DEF Keys
<1> HIDE DEF n, m
<1>6. n - m + place \in 1..n /\ all[n - m + place] = key
  BY <1>1, <1>2, <1>3, <1>5
<1>7. /\ newer \in Seq(S) /\ Len(newer) = m
      /\ \A i \in 1..m : newer[i] = IF i < place THEN young[i]
                                    ELSE IF i < m THEN young[i + 1] ELSE key
  BY <1>4, <1>5, MovedFrom DEF m
<1>8. /\ Len(moved) = n
      /\ \A i \in 1..n : moved[i] = IF i < n - m + place THEN all[i]
                                    ELSE IF i < n THEN all[i + 1] ELSE key
  <2> DEFINE old == n - m + place
  <2>1. old \in 1..n /\ all[old] = key
    BY <1>6
  <2> HIDE DEF old
  <2>2. /\ Len(moved) = n
        /\ \A i \in 1..n : moved[i] = IF i < old THEN all[i]
                                      ELSE IF i < n THEN all[i + 1] ELSE key
    BY <2>1, MovedFrom DEF n
  <2> QED
    BY <2>2 DEF old
<1> HIDE DEF newer, moved
<1>9. ASSUME NEW i \in 1..m
      PROVE  newer[i] = moved[n - m + i]
  <2>1. /\ n - m + i \in 1..n /\ (n - m + i < n - m + place <=> i < place)
        /\ (n - m + i < n <=> i < m) /\ n - m + i + 1 = n - m + (i + 1)
    BY <1>1, <1>3
  <2>2. young[i] = all[n - m + i]
    BY <1>2
  <2>3. i < m => young[i + 1] = all[n - m + (i + 1)]
    BY <1>1, <1>2
  <2> QED
    BY <1>7, <1>8, <2>1, <2>2, <2>3
<1> QED
  BY <1>2, <1>7, <1>8, <1>9 DEF Youngest, newer, moved, n, m

-----------------------------------------------------------------------------
(* A query of a swept city is answered with the truth, which is never what *)
(* a point without data is answered.                                       *)
LEMMA AnswerIsTrue ==
  ASSUME Shares, phase = "swept", NEW point \in Points, ReaderContains(point)
  PROVE  /\ KeyOf(point) \in Int \X Int
         /\ Answer(point) = [profile |-> Profile(terrain, Cells, OnRaster(RowCol(point))),
                             under   |-> OnRaster(RowCol(point)) \in Canopy(terrain)]
<1> DEFINE cell == OnRaster(RowCol(point))
<1>1. /\ RowCol(point) \in Nat \X Nat /\ cell \in Inner
      /\ Answer(point) = [profile |-> cubes[cell], under |-> cell \in Canopy(terrain)]
  BY BlockHasThePoint
<1>2. Covered(cell)
  BY DEF ReaderContains
<1> HIDE DEF cell
<1>3. cubes[cell] = Profile(terrain, Cells, cell)
  BY <1>1, <1>2 DEF Shares, TilesLeaveNoTrace, WholeSkyline
<1>4. KeyOf(point) \in Int \X Int
  <2>1. RowCol(point)[1] \div BlockSize \in Int /\ RowCol(point)[2] \div BlockSize \in Int
    BY <1>1, ReaderAssumption, Quotients
  <2> QED
    BY <2>1 DEF KeyOf
<1> QED
  BY <1>1, <1>3, <1>4 DEF cell

(* Nothing is swept any more once a city is served.                        *)
LEMMA SweepIsOver ==
  ASSUME Shares, phase = "swept", [SweepNext]_sweepVars
  PROVE  UNCHANGED sweepVars
  BY DEF Shares, SweepNext, BeginSweep, TakeTile, FinishTile, FileTile, KillWorker, FailSweep,
     EndSweep

(* The cache keeps what it promises to, and every answer is the truth.     *)
LEMMA StepCache ==
  ASSUME Shares, CacheInv,
         \/ SweepNext /\ UNCHANGED readerVars
         \/ ReaderNext /\ UNCHANGED sweepVars
         \/ UNCHANGED <<sweepVars, readerVars>>
  PROVE  CacheInv'
<1> USE ReaderAssumption
<1>1. ASSUME UNCHANGED readerVars
      PROVE  CacheInv'
  <2>1. UNCHANGED sweepVars \/ phase # "swept"
    BY SweepIsOver
  <2>2. ASSUME NEW t \in Threads
        PROVE  Answering(t)'
    <3>1. Answering(t)
      BY DEF CacheInv
    <3>2. CASE UNCHANGED sweepVars
      BY <1>1, <3>1, <3>2
      DEF readerVars, sweepVars, Answering, ReaderContains, Covered
    <3>3. CASE phase # "swept"
      BY <1>1, <3>1, <3>3 DEF readerVars, Answering
    <3> QED
      BY <2>1, <3>2, <3>3
  <2>3. Locked'
    BY <1>1 DEF readerVars, CacheInv, Locked
  <2> QED
    BY <1>1, <2>2, <2>3 DEF readerVars, CacheInv
<1>2. ASSUME NEW t \in Threads, Query(t) \/ Hit(t) \/ Miss(t) \/ Keep(t) \/ Reply(t),
             UNCHANGED sweepVars
      PROVE  CacheInv'
  <2>1. /\ \A s \in Threads \ {t} : /\ asked'[s] = asked[s] /\ doing'[s] = doing[s]
                                    /\ answer'[s] = answer[s]
        /\ asked' \in [Threads -> Points \cup {Nowhere}]
        /\ DOMAIN doing' = Threads /\ DOMAIN answer' = Threads
    BY <1>2 DEF Query, Hit, Miss, Keep, Reply, Answered, CacheInv
  <2>2. ASSUME NEW s \in Threads \ {t}
        PROVE  Answering(s)'
    BY <1>2, <2>1 DEF CacheInv, Answering, sweepVars, ReaderContains, Covered
  <2>3. doing[t] # "idle" => phase = "swept" /\ asked[t] \in Points
    BY DEF CacheInv, Answering
  <2>4. doing[t] \in {"waiting", "reading"} =>
          /\ ReaderContains(asked[t]) /\ KeyOf(asked[t]) \in Int \X Int
          /\ Answer(asked[t]) =
               [profile |-> Profile(terrain, Cells, OnRaster(RowCol(asked[t]))),
                under   |-> OnRaster(RowCol(asked[t])) \in Canopy(terrain)]
    BY <2>3, AnswerIsTrue DEF CacheInv, Answering
  <2>5. Answering(t)'
    <3>1. \A point : ReaderContains(point)' = ReaderContains(point)
      BY <1>2 DEF sweepVars, ReaderContains, Covered
    <3>2. CASE Query(t)
      <4>1. phase' = "swept"
        BY <1>2, <3>2 DEF Query, sweepVars
      <4>2. PICK point \in Points :
              /\ asked' = [asked EXCEPT ![t] = point]
              /\ IF ReaderContains(point)
                 THEN doing' = [doing EXCEPT ![t] = "waiting"] /\ UNCHANGED answer
                 ELSE /\ doing' = [doing EXCEPT ![t] = "answered"]
                      /\ answer' = [answer EXCEPT ![t] = Outside]
        BY <3>2 DEF Query
      <4>3. asked'[t] = point
        BY <4>2 DEF CacheInv
      <4>4. CASE ReaderContains(point)
        BY <3>1, <4>1, <4>2, <4>3, <4>4 DEF CacheInv, Answering
      <4>5. CASE ~ReaderContains(point)
        BY <3>1, <4>1, <4>2, <4>3, <4>5 DEF CacheInv, Answering
      <4> QED
        BY <4>4, <4>5
    <3>3. CASE Hit(t) \/ Keep(t)
      <4>1. /\ phase' = phase /\ terrain' = terrain /\ asked' = asked
            /\ doing'[t] = "answered" /\ answer'[t] = Answer(asked[t])
        BY <1>2, <3>3 DEF Hit, Keep, Answered, sweepVars, CacheInv
      <4>2. doing[t] \in {"waiting", "reading"}
        BY <3>3 DEF Hit, Keep
      <4> QED
        BY <2>3, <2>4, <3>1, <4>1, <4>2 DEF Answering
    <3>4. CASE Miss(t)
      <4>1. /\ phase' = phase /\ asked' = asked /\ doing'[t] = "reading"
            /\ doing[t] = "waiting"
        BY <1>2, <3>4 DEF Miss, sweepVars, CacheInv
      <4> QED
        BY <2>3, <2>4, <3>1, <4>1 DEF Answering
    <3>5. CASE Reply(t)
      BY <3>5 DEF Reply, Answering, CacheInv
    <3> QED
      BY <1>2, <3>2, <3>3, <3>4, <3>5
  <2>6. Locked'
    <3> USE DEF CacheInv
    <3>1. CASE Query(t) \/ Reply(t)
      <4>1. /\ UNCHANGED <<holder, blocks, recent>>
            /\ doing[t] # "reading" /\ doing'[t] # "reading"
        BY <3>1 DEF Query, Reply
      <4> QED
        BY <2>1, <4>1 DEF Locked
    <3>2. CASE Hit(t)
      <4> DEFINE key == KeyOf(asked[t])
      <4>1. /\ holder = Nobody /\ holder' = Nobody /\ key \in Int \X Int /\ key \in Keys(blocks)
            /\ blocks' = MovedToEnd(blocks, key) /\ recent' = MovedToEnd(recent, key)
            /\ doing[t] # "reading" /\ doing'[t] # "reading"
        BY <2>4, <3>2 DEF Hit, Answered
      <4> HIDE DEF key
      <4>2. /\ blocks \in Seq(Int \X Int) /\ recent \in Seq(Int \X Int) /\ Unrepeated(recent)
            /\ Youngest(blocks, recent, Len(recent))
        BY <4>1 DEF Locked
      <4>3. blocks' \in Seq(Int \X Int) /\ Youngest(blocks', recent', Len(recent'))
        BY <4>1, <4>2, YoungestWhenHit
      <4>4. recent' \in Seq(Int \X Int) /\ Unrepeated(recent')
        BY <4>1, <4>2, MovedIsLast
      <4>5. \A s \in Threads : doing'[s] = "reading" <=> holder' = s
        BY <2>1, <4>1 DEF Locked
      <4> QED
        BY <4>1, <4>3, <4>4, <4>5 DEF Locked, Youngest, Unrepeated
    <3>3. CASE Miss(t)
      <4> DEFINE key == KeyOf(asked[t])
      <4>1. /\ holder = Nobody /\ holder' = t /\ key \in Int \X Int /\ key \notin Keys(blocks)
            /\ blocks' = blocks /\ recent' = MovedToEnd(recent, key) /\ asked' = asked
            /\ doing'[t] = "reading"
        BY <2>4, <3>3 DEF Miss
      <4> HIDE DEF key
      <4>2. /\ blocks \in Seq(Int \X Int) /\ recent \in Seq(Int \X Int) /\ Unrepeated(recent)
            /\ Youngest(blocks, recent, Len(recent))
        BY <4>1 DEF Locked
      <4>3. Youngest(blocks, recent', Len(recent') - 1)
        BY <4>1, <4>2, YoungestWhileReading
      <4> DEFINE moved == MovedToEnd(recent, key)
      <4>6. /\ moved \in Seq(Int \X Int) /\ Unrepeated(moved)
            /\ moved # <<>> /\ moved[Len(moved)] = key
        <5> DEFINE S == Int \X Int
        <5>1. recent \in Seq(S) /\ Unrepeated(recent) /\ key \in S
          BY <4>1, <4>2
        <5> HIDE DEF S
        <5>2. /\ moved \in Seq(S) /\ Unrepeated(moved)
              /\ moved # <<>> /\ moved[Len(moved)] = key
          BY <5>1, MovedIsLast, Zenon
        <5> QED
          BY <5>2, Zenon DEF S
      <4>7. recent' = moved
        BY <4>1
      <4> HIDE DEF moved
      <4>4. /\ recent' \in Seq(Int \X Int) /\ Unrepeated(recent')
            /\ recent' # <<>> /\ recent'[Len(recent')] = key
        BY <4>6, <4>7 DEF Unrepeated
      <4>5. \A s \in Threads : doing'[s] = "reading" <=> holder' = s
        BY <2>1, <4>1 DEF Locked
      <4> QED
        BY <4>1, <4>2, <4>3, <4>4, <4>5 DEF Locked, Youngest, Unrepeated, key
    <3>4. CASE Keep(t)
      <4>1. /\ holder = t /\ holder' = Nobody /\ recent' = recent /\ doing'[t] # "reading"
        BY <3>4 DEF Keep, Answered, Locked
      <4>2. /\ blocks \in Seq(Int \X Int) /\ recent \in Seq(Int \X Int) /\ Unrepeated(recent)
            /\ recent # <<>> /\ recent[Len(recent)] = KeyOf(asked[t])
            /\ Youngest(blocks, recent, Len(recent) - 1)
        BY <4>1 DEF Locked
      <4> DEFINE more == Append(blocks, recent[Len(recent)])
                 kept == IF Len(more) > MaxBlocks THEN Tail(more) ELSE more
      <4>3. blocks' = kept
        BY <3>4, <4>2 DEF Keep
      <4>4. kept \in Seq(Int \X Int) /\ Youngest(kept, recent, Len(recent))
        BY <4>2, YoungestWhenKept
      <4> HIDE DEF kept
      <4>5. \A s \in Threads : doing'[s] = "reading" <=> holder' = s
        BY <2>1, <4>1 DEF Locked
      <4> QED
        BY <4>1, <4>2, <4>3, <4>4, <4>5 DEF Locked, Youngest, Unrepeated
    <3> QED
      BY <1>2, <3>1, <3>2, <3>3, <3>4
  <2> QED
    BY <2>1, <2>2, <2>5, <2>6 DEF CacheInv
<1> QED
  BY <1>1, <1>2 DEF ReaderNext

(* Before anybody has asked.                                               *)
LEMMA InitCache ==
  ASSUME ReaderInit PROVE CacheInv
<1> USE ReaderAssumption
<1>1. blocks = <<>> /\ recent = <<>> /\ Len(blocks) = 0 /\ Len(recent) = 0
  BY DEF ReaderInit
<1>2. Youngest(blocks, recent, Len(recent))
  BY <1>1 DEF Youngest, Smaller
<1>3. Locked
  BY <1>1, <1>2 DEF ReaderInit, Locked, Unrepeated
<1> QED
  BY <1>3 DEF ReaderInit, CacheInv, Answering

(* The pixels of the city that was swept are of those it may have.         *)
LEMMA OutsideIsNoPixel ==
  ASSUME Shares, NEW cell \in Cells, NEW under \in BOOLEAN
  PROVE  [profile |-> Profile(terrain, Cells, cell), under |-> under] # Outside
  BY ReaderAssumption DEF Shares, Pixels

(* The threads that ask a reader are told the skyline of the whole raster, *)
(* or that there is no data and then there is none, whatever the points,   *)
(* the size of the blocks and of the cache, and the order they come in;    *)
(* and the blocks in memory are those that were asked for last.            *)
THEOREM CacheIsAlwaysUnseen == ReaderSpec => []CacheIsUnseen
<1> DEFINE Inv == Shares /\ CacheInv
<1>1. SweepInit /\ ReaderInit => Inv
  BY InitShares, InitCache
<1>2. Inv /\ [\/ SweepNext /\ UNCHANGED readerVars
              \/ ReaderNext /\ UNCHANGED sweepVars]_<<sweepVars, readerVars>> => Inv'
  <2> SUFFICES ASSUME Inv, \/ SweepNext /\ UNCHANGED readerVars
                           \/ ReaderNext /\ UNCHANGED sweepVars
                           \/ UNCHANGED <<sweepVars, readerVars>>
               PROVE  Inv'
    OBVIOUS
  <2>1. [SweepNext]_sweepVars
    OBVIOUS
  <2> QED
    BY <2>1, StepShares, StepCache
<1>3. Inv => CacheIsUnseen
  <2> SUFFICES ASSUME Inv PROVE KeepsTheRecent /\ AnswersTheSkyline
    BY DEF CacheIsUnseen
  <2>1. KeepsTheRecent
    <3> SUFFICES ASSUME holder = Nobody
                 PROVE  blocks = SubSeq(recent, Len(recent) - Smaller(MaxBlocks, Len(recent)) + 1,
                                        Len(recent))
      BY DEF KeepsTheRecent
    <3> DEFINE n == Len(recent)  m == Len(blocks)  first == n - m + 1
               end == SubSeq(recent, first, n)
    <3>1. /\ blocks \in Seq(Int \X Int) /\ recent \in Seq(Int \X Int)
          /\ m = Smaller(MaxBlocks, n) /\ \A i \in 1..m : blocks[i] = recent[n - m + i]
      BY DEF CacheInv, Locked, Youngest
    <3>2. n \in Nat /\ m \in Nat /\ \A i \in 1..n : recent[i] \in Int \X Int
      BY <3>1
    <3> HIDE DEF n, m
    <3>3. m <= n
      BY <3>1, <3>2, ReaderAssumption DEF Smaller
    <3>4. /\ first \in 1..n + 1 /\ (IF first <= n THEN n - first + 1 ELSE 0) = m
          /\ \A i \in 1..m : first + i - 1 = n - m + i /\ i \in 1..n - first + 1
      BY <3>2, <3>3
    <3> HIDE DEF first
    <3>5. /\ end \in Seq(Int \X Int) /\ Len(end) = m
          /\ \A i \in 1..m : end[i] = recent[first + i - 1]
      BY <3>2, <3>4, SubSeqProperties
    <3> HIDE DEF end
    <3>6. \A i \in 1..m : blocks[i] = end[i]
      BY <3>1, <3>4, <3>5
    <3>7. blocks = end
      BY <3>1, <3>5, <3>6, SeqEqual DEF m
    <3> QED
      BY <3>1, <3>7 DEF end, first, n
  <2>2. AnswersTheSkyline
    <3> SUFFICES ASSUME NEW t \in Threads, doing[t] = "answered"
                 PROVE  IF answer[t] = Outside
                        THEN \/ asked[t] = Nowhere \/ OnRaster(RowCol(asked[t])) \notin Inner
                             \/ ~Covered(OnRaster(RowCol(asked[t])))
                        ELSE LET cell == OnRaster(RowCol(asked[t]))
                             IN  /\ Covered(cell)
                                 /\ answer[t] = [profile |-> Profile(terrain, Cells, cell),
                                                 under   |-> cell \in Canopy(terrain)]
      BY DEF AnswersTheSkyline
    <3>1. asked[t] \in Points /\ Answering(t)
      BY DEF CacheInv, Answering
    <3>2. CASE ReaderContains(asked[t])
      <4> DEFINE cell == OnRaster(RowCol(asked[t]))
      <4>1. cell \in Inner /\ Covered(cell)
        BY <3>1, <3>2, BlockHasThePoint DEF ReaderContains
      <4>2. cell \in Cells
        BY <4>1, RasterAssumption, SweepAssumption DEF Inner, Cells
      <4>3. answer[t] = [profile |-> Profile(terrain, Cells, cell),
                         under   |-> cell \in Canopy(terrain)]
        BY <3>1, <3>2 DEF Answering
      <4> HIDE DEF cell
      <4> DEFINE under == cell \in Canopy(terrain)
      <4>5. under \in BOOLEAN
        OBVIOUS
      <4>6. answer[t] = [profile |-> Profile(terrain, Cells, cell), under |-> under]
        BY <4>3
      <4> HIDE DEF under
      <4>4. answer[t] # Outside
        BY <4>2, <4>5, <4>6, OutsideIsNoPixel
      <4> QED
        BY <4>1, <4>3, <4>4 DEF cell
    <3>3. CASE ~ReaderContains(asked[t])
      <4>1. answer[t] = Outside
        BY <3>1, <3>3 DEF Answering
      <4> QED
        BY <3>1, <3>3, <4>1, OffTheGrid
    <3> QED
      BY <3>2, <3>3
  <2> QED
    BY <2>1, <2>2
<1> QED
  BY <1>1, <1>2, <1>3, PTL DEF ReaderSpec

-----------------------------------------------------------------------------
(* The overlay of a city.                                                  *)

(* A slope is a rise over a run. One at least as steep as another, which   *)
(* is as steep as a third, is as steep as the third.                       *)
LEMMA Steeper ==
  ASSUME NEW a \in Int, NEW b \in Int, NEW c \in Int,
         NEW p \in Nat \ {0}, NEW q \in Nat \ {0}, NEW r \in Nat \ {0},
         a * q >= b * p, b * r >= c * q
  PROVE  /\ a * r >= c * p
         /\ (a * q > b * p \/ b * r > c * q) => a * r > c * p
<1> DEFINE left == a * r  right == c * p
<1>1. (a * q) * r >= (b * p) * r /\ (a * q > b * p => (a * q) * r > (b * p) * r)
  OBVIOUS
<1>2. (b * r) * p >= (c * q) * p /\ (b * r > c * q => (b * r) * p > (c * q) * p)
  OBVIOUS
<1>3. (a * q) * r = left * q /\ (b * p) * r = (b * r) * p /\ (c * q) * p = right * q
  OBVIOUS
<1>4. left * q >= right * q /\ (a * q > b * p \/ b * r > c * q => left * q > right * q)
  BY <1>1, <1>2, <1>3
<1>5. left \in Int /\ right \in Int
  OBVIOUS
<1> HIDE DEF left, right
<1>6. left < right => left * q < right * q
  BY <1>5
<1>7. left <= right => left * q <= right * q
  BY <1>5
<1>8. left * q \in Int /\ right * q \in Int
  BY <1>5
<1>9. left >= right /\ (a * q > b * p \/ b * r > c * q => left > right)
  BY <1>4, <1>5, <1>6, <1>7, <1>8
<1> QED
  BY <1>9 DEF left, right

(* The run of a step, in half cells.                                       *)
Run(d) == 2 * d - 1

(* The one a sweep would choose, of the steps it has seen.                 *)
Steepest(rise, steps, d) ==
    /\ d \in steps
    /\ \A e \in steps : \/ rise[d] * Run(e) > rise[e] * Run(d)
                        \/ rise[d] * Run(e) = rise[e] * Run(d) /\ d <= e

(* Of steps there are always a steepest and nearest.                       *)
LEMMA SomeSteepest ==
  ASSUME NEW steps \in SUBSET Steps, steps # {}, NEW rise \in [steps -> Int]
  PROVE  \E d \in steps : Steepest(rise, steps, d)
<1> DEFINE upto(n) == {e \in steps : e <= n}
           bad == {n \in Nat : upto(n) # {} /\ ~\E d \in steps : Steepest(rise, upto(n), d)}
           n == Min(bad)
<1>1. MaxDistance \in Nat /\ \A d \in steps : d \in 1..MaxDistance /\ Run(d) \in Nat \ {0}
  BY RasterAssumption DEF Steps, Run
<1>2. \A m \in Nat : upto(m) \subseteq steps
  OBVIOUS
<1>3. bad = {}
  <2> SUFFICES ASSUME bad # {} PROVE FALSE
    OBVIOUS
  <2>1. bad \in SUBSET Nat
    OBVIOUS
  <2>2. n \in bad /\ \A m \in bad : n <= m
    BY <2>1, Smallest
  <2>3. n \in Nat /\ upto(n) # {} /\ ~\E d \in steps : Steepest(rise, upto(n), d)
    BY <2>2
  <2> HIDE DEF n
  <2>4. n # 0
    BY <1>1, <2>3
  <2>5. n - 1 \in Nat /\ n - 1 \notin bad
    <3>1. n - 1 \in Nat /\ ~(n <= n - 1)
      BY <2>3, <2>4
    <3> QED
      BY <2>2, <3>1
  <2>6. upto(n - 1) = {} \/ \E d \in steps : Steepest(rise, upto(n - 1), d)
    BY <2>5
  <2>7. n \in steps /\ upto(n) = upto(n - 1) \cup {n}
    <3>1. n \in steps
      <4> SUFFICES ASSUME n \notin steps PROVE FALSE
        OBVIOUS
      <4>1. \A e \in steps : e <= n <=> e <= n - 1
        BY <1>1, <2>3
      <4>2. upto(n) = upto(n - 1)
        BY <4>1
      <4> QED
        BY <2>3, <2>6, <4>2
    <3>2. \A e \in steps : e <= n <=> e <= n - 1 \/ e = n
      BY <1>1, <2>3
    <3> QED
      BY <3>1, <3>2
  <2>8. CASE upto(n - 1) = {}
    <3>1. upto(n) = {n}
      BY <2>7, <2>8
    <3>2. Steepest(rise, {n}, n)
      BY <1>1, <2>7 DEF Steepest
    <3> QED
      BY <2>3, <2>7, <3>1, <3>2
  <2>9. CASE upto(n - 1) # {}
    <3>1. PICK d \in steps : Steepest(rise, upto(n - 1), d)
      BY <2>6, <2>9
    <3>2. d \in upto(n - 1) /\ d <= n /\ rise[d] \in Int /\ rise[n] \in Int
      BY <1>1, <2>3, <2>7, <3>1 DEF Steepest
    <3>3. CASE rise[d] * Run(n) >= rise[n] * Run(d)
      <4>1. Steepest(rise, upto(n), d)
        <5>1. rise[d] * Run(n) \in Int /\ rise[n] * Run(d) \in Int
          BY <1>1, <2>7, <3>2
        <5>2. rise[d] * Run(n) > rise[n] * Run(d) \/ (rise[d] * Run(n) = rise[n] * Run(d) /\ d <= n)
          BY <3>2, <3>3, <5>1
        <5> QED
          BY <2>7, <3>1, <5>2 DEF Steepest
      <4> QED
        BY <2>3, <4>1
    <3>4. CASE rise[n] * Run(d) > rise[d] * Run(n)
      <4>1. \A e \in upto(n - 1) : rise[n] * Run(e) > rise[e] * Run(n)
        <5> TAKE e \in upto(n - 1)
        <5>1. rise[e] \in Int /\ Run(e) \in Nat \ {0} /\ Run(d) \in Nat \ {0} /\ Run(n) \in Nat \ {0}
          BY <1>1, <2>7
        <5>2. rise[d] * Run(e) >= rise[e] * Run(d)
          BY <3>1, <3>2, <5>1 DEF Steepest
        <5> QED
          BY <3>2, <3>4, <5>1, <5>2, Steeper
      <4>2. Steepest(rise, upto(n), n)
        BY <1>1, <2>7, <4>1 DEF Steepest
      <4> QED
        BY <2>3, <2>7, <4>2
    <3>5. rise[d] * Run(n) \in Int /\ rise[n] * Run(d) \in Int
      BY <1>1, <2>7, <3>2
    <3> QED
      BY <3>3, <3>4, <3>5
  <2> QED
    BY <2>8, <2>9
<1>4. upto(MaxDistance) = steps
  BY <1>1
<1> QED
  BY <1>1, <1>3, <1>4

(* What a sweep finds steepest of a surface.                               *)
LEMMA SummitIsSteepest ==
  ASSUME NEW scene \in Scenes, NEW surface \in [Cells -> Int], NEW cell \in Cells, NEW k \in Sector,
         NEW ray, ray = Ray(Cells, cell, k), ray # {}, NEW top, top = Summit(scene, surface, ray, cell, k)
  PROVE  /\ top \in ray
         /\ \A e \in ray : /\ Run(e) \in Nat \ {0} /\ Rise(scene, surface, cell, k, e) \in Int
                           /\ Rise(scene, surface, cell, k, top) * Run(e)
                                >= Rise(scene, surface, cell, k, e) * Run(top)
<1> DEFINE rise(d) == Rise(scene, surface, cell, k, d)
           rises == [d \in ray |-> rise(d)]
<1>1. ray \in SUBSET Steps /\ \A e \in ray : Along(cell, k, e) \in Cells /\ Run(e) \in Nat \ {0}
  BY DEF Ray, Steps, Run
<1>2. \A e \in ray : rise(e) \in Int
  BY <1>1, MapAssumption, RasterAssumption DEF Rise
<1>3. rises \in [ray -> Int] /\ \A e \in ray : rises[e] = rise(e)
  BY <1>2
<1>4. PICK d \in ray : Steepest(rises, ray, d)
  <2> HIDE DEF rises
  <2> QED
    BY <1>1, <1>3, SomeSteepest
<1> HIDE DEF rises
<1>5. top = CHOOSE x \in ray : \A e \in ray :
              \/ rise(x) * (2 * e - 1) > rise(e) * (2 * x - 1)
              \/ rise(x) * (2 * e - 1) = rise(e) * (2 * x - 1) /\ x <= e
  BY DEF Summit
<1>6. \A e \in ray : \/ rise(d) * (2 * e - 1) > rise(e) * (2 * d - 1)
                     \/ rise(d) * (2 * e - 1) = rise(e) * (2 * d - 1) /\ d <= e
  BY <1>3, <1>4 DEF Steepest, Run
<1> HIDE DEF rise
<1>7. /\ top \in ray
      /\ \A e \in ray : \/ rise(top) * (2 * e - 1) > rise(e) * (2 * top - 1)
                        \/ rise(top) * (2 * e - 1) = rise(e) * (2 * top - 1) /\ top <= e
  BY <1>5, <1>6
<1>8. \A e \in ray : rise(top) * Run(e) >= rise(e) * Run(top)
  <2> TAKE e \in ray
  <2>1. rise(top) * Run(e) > rise(e) * Run(top) \/ rise(top) * Run(e) = rise(e) * Run(top)
    BY <1>7 DEF Run
  <2>2. rise(top) * Run(e) \in Int /\ rise(e) * Run(top) \in Int
    BY <1>1, <1>2, <1>7
  <2> QED
    BY <2>1, <2>2
<1> QED
  BY <1>1, <1>2, <1>7, <1>8 DEF rise

(* Two slopes that are the same have the same angle.                       *)
LEMMA SameAngle ==
  ASSUME NEW a \in Int, NEW b \in Int, NEW p \in Nat \ {0}, NEW q \in Nat \ {0}, a * q = b * p
  PROVE  Quantized(a, p) = Quantized(b, q)
<1>1. ASSUME NEW t \in Tangents PROVE t * p <= 200 * a <=> t * q <= 200 * b
  <2>1. t \in Int /\ 200 * a \in Int /\ 200 * b \in Int /\ 1 \in Nat \ {0}
    BY <1>1 DEF Tangents
  <2>2. (200 * a) * q = (200 * b) * p
    <3>1. (200 * a) * q = 200 * (a * q) /\ (200 * b) * p = 200 * (b * p)
      OBVIOUS
    <3> QED
      BY <3>1
  <2>3. ASSUME t * p <= 200 * a PROVE t * q <= 200 * b
    <3>1. (200 * b) * p >= (200 * a) * q /\ (200 * a) * 1 >= t * p
      BY <2>1, <2>2, <2>3
    <3>2. (200 * b) * 1 >= t * q
      BY <2>1, <3>1, Steeper
    <3> QED
      BY <2>1, <3>2
  <2>4. ASSUME t * q <= 200 * b PROVE t * p <= 200 * a
    <3>1. (200 * a) * q >= (200 * b) * p /\ (200 * b) * 1 >= t * q
      BY <2>1, <2>2, <2>4
    <3>2. (200 * a) * 1 >= t * p
      BY <2>1, <3>1, Steeper
    <3> QED
      BY <2>1, <3>2
  <2> QED
    BY <2>3, <2>4
<1>2. {t \in Tangents : t * p <= 200 * a} = {t \in Tangents : t * q <= 200 * b}
  BY <1>1
<1> QED
  BY <1>2 DEF Quantized

(* An angle is a number; what does not rise has none.                      *)
LEMMA AngleIsNumber ==
  ASSUME NEW a \in Int, NEW p \in Nat \ {0}
  PROVE  Quantized(a, p) \in Nat /\ (a <= 0 => Quantized(a, p) = 0)
<1> DEFINE below == {t \in Tangents : t * p <= 200 * a}
<1>1. below \subseteq Tangents /\ IsFiniteSet(Tangents)
  <2>1. Tangents \subseteq 0..760
    BY DEF Tangents
  <2>2. IsFiniteSet(0..760)
    <3>1. PICK n \in Nat : n = 760
      OBVIOUS
    <3>2. IsFiniteSet(0..n)
      BY FS_Interval
    <3> QED
      BY <3>1, <3>2
  <2> QED
    BY <2>1, <2>2, FS_Subset
<1>2. Cardinality(below) \in Nat
  BY <1>1, FS_Subset, FS_CardinalityType
<1>3. ASSUME a <= 0 PROVE below = {}
  <2>1. \A t \in Tangents : t \in Nat \ {0}
    BY DEF Tangents
  <2>2. \A t \in Nat \ {0} : t * p > 0 /\ 200 * a <= 0 /\ t * p \in Int /\ 200 * a \in Int
    BY <1>3
  <2>3. \A t \in Tangents : ~(t * p <= 200 * a)
    <3> TAKE t \in Tangents
    <3>1. t \in Nat \ {0}
      BY <2>1
    <3>2. PICK left \in Int, right \in Int : left = t * p /\ right = 200 * a /\ left > 0 /\ right <= 0
      BY <2>2, <3>1
    <3> QED
      BY <3>2
  <2> QED
    BY <2>3
<1> QED
  BY <1>2, <1>3, FS_EmptySet DEF Quantized

(* Felling the trees lowers what was over the ground, and only where a     *)
(* tree stood.                                                             *)
LEMMA FelledIsLower ==
  ASSUME NEW scene \in Scenes
  PROVE  /\ scene.dsm \in [Cells -> Int] /\ Felled(scene) \in [Cells -> Int]
         /\ \A c \in Cells : /\ Felled(scene)[c] <= scene.dsm[c]
                             /\ scene.cover[c] # "vegetation" => Felled(scene)[c] = scene.dsm[c]
  BY MapAssumption DEF Felled

(* A sector whose skyline no tree makes has the same one without trees.    *)
LEMMA FellingOthers ==
  ASSUME NEW scene \in Scenes, NEW cell \in Cells, NEW k \in Sector,
         BlockerOver(scene, Cells, cell, k) # "vegetation"
  PROVE  AngleOver(scene, Felled(scene), Cells, cell, k) = AngleOver(scene, scene.dsm, Cells, cell, k)
<1> DEFINE ray == Ray(Cells, cell, k)
           top == Summit(scene, scene.dsm, ray, cell, k)
           low == Summit(scene, Felled(scene), ray, cell, k)
           R(d) == Rise(scene, scene.dsm, cell, k, d)
           F(d) == Rise(scene, Felled(scene), cell, k, d)
<1>1. CASE ray = {}
  BY <1>1 DEF AngleOver
<1>2. CASE ray # {}
  <2>1. /\ top \in ray
        /\ \A e \in ray : /\ Run(e) \in Nat \ {0} /\ R(e) \in Int
                          /\ R(top) * Run(e) >= R(e) * Run(top)
    BY <1>2, FelledIsLower, SummitIsSteepest
  <2>2. /\ low \in ray
        /\ \A e \in ray : F(e) \in Int /\ F(low) * Run(e) >= F(e) * Run(low)
    BY <1>2, FelledIsLower, SummitIsSteepest
  <2>3. /\ AngleOver(scene, scene.dsm, Cells, cell, k) = Quantized(R(top), Run(top))
        /\ AngleOver(scene, Felled(scene), Cells, cell, k) = Quantized(F(low), Run(low))
    BY <1>2 DEF AngleOver, Run
  <2>4. \A e \in ray : /\ F(e) <= R(e) /\ Along(cell, k, e) \in Cells
                       /\ scene.cover[Along(cell, k, e)] # "vegetation" => F(e) = R(e)
    <3>1. \A e \in ray : Along(cell, k, e) \in Cells
      BY DEF Ray
    <3>2. scene.dtm[cell] + Eye \in Int
      BY MapAssumption, RasterAssumption
    <3> QED
      BY <3>1, <3>2, FelledIsLower DEF Rise
  <2>5. R(top) <= 0 \/ scene.cover[Along(cell, k, top)] # "vegetation"
    BY <1>2 DEF BlockerOver
  <2> HIDE DEF ray, top, low, R, F
  <2> DEFINE a == R(top)  b == F(low)  c == R(low)  p == Run(top)  q == Run(low)
  <2>6. /\ a \in Int /\ b \in Int /\ c \in Int /\ p \in Nat \ {0} /\ q \in Nat \ {0}
        /\ b <= c /\ a * q >= c * p
    BY <2>1, <2>2, <2>4
  <2>7. CASE a <= 0
    <3> HIDE DEF a, b, c, p, q
    <3>1. a * q <= 0
      BY <2>6, <2>7
    <3>2. c > 0 => c * p > 0
      BY <2>6
    <3>3. c * p \in Int /\ a * q \in Int
      BY <2>6
    <3>4. b <= 0
      BY <2>6, <3>1, <3>2, <3>3
    <3>5. Quantized(a, p) = 0 /\ Quantized(b, q) = 0
      BY <2>6, <2>7, <3>4, AngleIsNumber
    <3> QED
      BY <2>3, <3>5 DEF a, b, p, q
  <2>8. CASE scene.cover[Along(cell, k, top)] # "vegetation"
    <3>1. F(top) = a /\ b * p >= F(top) * q
      BY <2>1, <2>2, <2>4, <2>8
    <3> HIDE DEF a, b, c, p, q
    <3>2. c * p >= b * p
      BY <2>6
    <3>3. a * q \in Int /\ b * p \in Int /\ c * p \in Int
      BY <2>6
    <3>4. a * q = b * p
      BY <2>6, <3>1, <3>2, <3>3
    <3>5. Quantized(a, p) = Quantized(b, q)
      BY <2>6, <3>4, SameAngle
    <3> QED
      BY <2>3, <3>5 DEF a, b, p, q
  <2> QED
    BY <2>5, <2>7, <2>8
<1> QED
  BY <1>1, <1>2

(* The drawing was made by day of what was swept, with the cube or not.    *)
MapInv ==
    /\ modern \in BOOLEAN
    /\ drawn # Undrawn =>
         /\ phase = "swept" /\ drawn.sun \in Instants /\ IsUp(drawn.sun)
         /\ drawn.state = [c \in Inner |-> Composed(c, drawn.sun)]

(* Where one class won both sectors beside the sun, the overlay and the    *)
(* point engine say the same of the shade; wherever they differ, what      *)
(* differs is not whether it is there.                                     *)
LEMMA DrawnIsAnswered ==
  ASSUME Shares, MapInv, drawn # Undrawn, NEW c \in Visible
  PROVE  /\ drawn.state[c] = "sun" <=> PointAnswer(c) = Sunny
         /\ (modern /\ Artifact(c).class[Lower(drawn.sun)] = Artifact(c).class[Upper(drawn.sun)])
              => drawn.state[c] = StateOf(PointAnswer(c))
         /\ modern => (drawn.state[c] = "vegetation" <=>
                         PointAnswer(c)[1] = "shade" /\ ~Blocks(FelledSkyline(c), drawn.sun))
<1> DEFINE sun == drawn.sun
           seen == Artifact(c)
           under == c \in Canopy(terrain)
           lower == Lower(sun)  upper == Upper(sun)
           blocker == seen.class[Contributing(seen.angle, sun)]
           shaded == Blocks(seen.angle, sun)
           felled == Blocks(seen.felled, sun)
<1>1. /\ c \in Inner /\ c \in Cells /\ Covered(c) /\ terrain \in Scenes /\ sun \in Instants /\ IsUp(sun)
      /\ drawn.state[c] = RasterState(seen, under, sun)
      /\ PointAnswer(c) = Verdict(seen, under, sun)
  <2>1. c \in Inner /\ ~Roof(c) /\ Covered(c)
    BY DEF Visible
  <2>2. c \in Cells
    BY <2>1, RasterAssumption, SweepAssumption DEF Inner, Cells
  <2> QED
    BY <2>1, <2>2 DEF Shares, MapInv, Composed, PointAnswer
<1>2. cubes[c] = Profile(terrain, Cells, c)
  BY <1>1 DEF Shares, MapInv, TilesLeaveNoTrace, WholeSkyline
<1>3. /\ seen.angle = [k \in Sector |-> AngleOver(terrain, terrain.dsm, Cells, c, k)]
      /\ seen.class = [k \in Sector |-> BlockerOver(terrain, Cells, c, k)]
      /\ modern => seen.felled = FelledSkyline(c)
  BY <1>2 DEF Artifact, Profile, FelledSkyline
<1>4. modern => seen.felled # NoCube
  <2>1. \A k \in Sector : FelledSkyline(c)[k] \in Nat
    <3> TAKE k \in Sector
    <3> DEFINE ray == Ray(Cells, c, k)  top == Summit(terrain, Felled(terrain), ray, c, k)
               angle == AngleOver(terrain, Felled(terrain), Cells, c, k)
    <3>1. FelledSkyline(c)[k] = angle
      BY DEF FelledSkyline
    <3>2. CASE ray = {}
      BY <3>1, <3>2 DEF AngleOver
    <3>3. CASE ray # {}
      <4>1. /\ top \in ray
            /\ \A e \in ray : Run(e) \in Nat \ {0} /\ Rise(terrain, Felled(terrain), c, k, e) \in Int
        BY <1>1, <3>3, FelledIsLower, SummitIsSteepest
      <4>2. angle = Quantized(Rise(terrain, Felled(terrain), c, k, top), Run(top))
        BY <3>3 DEF AngleOver, Run
      <4> HIDE DEF ray, top, angle
      <4> QED
        BY <3>1, <4>1, <4>2, AngleIsNumber
    <3> QED
      BY <3>2, <3>3
  <2>2. FelledSkyline(c) \in [Sector -> Nat]
    <3>1. FelledSkyline(c) = [k \in Sector |-> FelledSkyline(c)[k]]
      BY DEF FelledSkyline
    <3> QED
      BY <2>1, <3>1
  <2> QED
    BY <1>3, <2>2, MapAssumption
<1>5. lower \in Sector /\ upper \in Sector /\ Contributing(seen.angle, sun) \in {lower, upper}
  BY <1>1, MapAssumption, RasterAssumption DEF Lower, Upper, Sector, Sectors, Contributing
<1>6. ASSUME modern, seen.class[lower] = seen.class[upper], blocker # "vegetation"
      PROVE  shaded <=> felled
  <2>1. seen.class[lower] # "vegetation" /\ seen.class[upper] # "vegetation"
    BY <1>5, <1>6
  <2>2. seen.angle[lower] = seen.felled[lower] /\ seen.angle[upper] = seen.felled[upper]
    BY <1>1, <1>3, <1>5, <1>6, <2>1, FellingOthers DEF FelledSkyline
  <2> QED
    BY <2>2 DEF Blocks, HorizonAt
<1> HIDE DEF seen, sun, under, lower, upper, blocker, shaded, felled
<1>7. Holds(seen, sun) <=> seen.felled # NoCube /\ felled
  BY DEF Holds, felled
<1>8. BlockerType(seen, sun) = IF blocker \in {"building", "vegetation"} THEN blocker ELSE "untyped"
  BY DEF BlockerType, blocker
<1>9. drawn.state[c] = "sun" <=> PointAnswer(c) = Sunny
  BY <1>1 DEF RasterState, Verdict, Sunny, shaded, blocker, seen
<1>10. ASSUME modern, seen.class[lower] = seen.class[upper]
       PROVE  RasterState(seen, under, sun) = StateOf(Verdict(seen, under, sun))
  <2>1. CASE under
    BY <1>1, <1>4, <1>7, <1>10, <2>1 DEF RasterState, Verdict, StateOf, felled
  <2>2. CASE ~under /\ ~shaded
    BY <1>1, <2>2 DEF RasterState, Verdict, StateOf, Sunny, shaded
  <2>3. CASE ~under /\ shaded
    <3>1. Verdict(seen, under, sun) = <<"shade", ShadeType(seen, sun)>>
      BY <1>1, <2>3 DEF Verdict, shaded
    <3>2. CASE blocker = "vegetation"
      BY <1>4, <1>7, <1>8, <1>10, <2>3, <3>1, <3>2 DEF RasterState, StateOf, ShadeType, shaded, felled, blocker
    <3>3. CASE blocker # "vegetation"
      BY <1>4, <1>6, <1>7, <1>8, <1>10, <2>3, <3>1, <3>3
         DEF RasterState, StateOf, ShadeType, shaded, felled, blocker
    <3> QED
      BY <3>2, <3>3
  <2> QED
    BY <2>1, <2>2, <2>3
<1>11. ASSUME modern
       PROVE  RasterState(seen, under, sun) = "vegetation" <=>
                Verdict(seen, under, sun)[1] = "shade" /\ ~felled
  <2>1. CASE under
    BY <1>1, <1>4, <1>11, <2>1 DEF RasterState, Verdict, felled
  <2>2. CASE ~under /\ ~shaded
    BY <1>1, <2>2 DEF RasterState, Verdict, Sunny, shaded
  <2>3. CASE ~under /\ shaded
    BY <1>1, <1>4, <1>11, <2>3 DEF RasterState, Verdict, shaded, felled, blocker
  <2> QED
    BY <2>1, <2>2, <2>3
<1> QED
  BY <1>1, <1>3, <1>9, <1>10, <1>11 DEF seen, lower, upper, sun, felled

(* The overlay of a city answers for its points: for every raster and      *)
(* area, however it was cut up and swept, and for any sun.                 *)
THEOREM OverlayIsAlwaysThePoints == MapSpec => []OverlayIsThePoints
<1> DEFINE Inv == Shares /\ MapInv
           Step == \/ SweepNext /\ UNCHANGED mapVars
                   \/ Draw /\ UNCHANGED sweepVars
<1>1. SweepInit /\ MapInit => Inv
  BY InitShares, MapAssumption DEF MapInit, MapInv
<1>2. Inv /\ [Step]_<<sweepVars, mapVars>> => Inv'
  <2> SUFFICES ASSUME Inv, [Step]_<<sweepVars, mapVars>> PROVE Inv'
    OBVIOUS
  <2>1. Shares'
    BY StepShares
  <2>2. MapInv'
    <3>1. CASE UNCHANGED mapVars /\ (SweepNext \/ UNCHANGED sweepVars)
      <4>1. drawn # Undrawn => UNCHANGED sweepVars
        BY <3>1, SweepIsOver DEF MapInv
      <4> QED
        BY <3>1, <4>1 DEF MapInv, mapVars, sweepVars, Composed, Artifact, Roof, Covered
    <3>2. CASE Draw /\ UNCHANGED sweepVars
      BY <3>2 DEF Draw, MapInv, sweepVars, Composed, Artifact, Roof, Covered
    <3> QED
      BY <3>1, <3>2
  <2> QED
    BY <2>1, <2>2
<1>3. Inv => OverlayIsThePoints
  BY DrawnIsAnswered DEF OverlayIsThePoints, MapAgreesOnSun, MapMatchesOneBlocker, VegetationIsWhatTreesMake
<1> QED
  BY <1>1, <1>2, <1>3, PTL DEF MapSpec

=============================================================================
