----------------------------- MODULE SceneReader -----------------------------
(***************************************************************************)
(* The reader of a built city: point queries answered by the threads of a  *)
(* server from aligned blocks of its rasters, the most recent of which are *)
(* kept.  It reads what the Sweep wrote.                                   *)
(*                                                                         *)
(* A point is <<down, right>> in half cells from the north-west corner of  *)
(* the grid; Nowhere is what a projection makes of a point out of its      *)
(* domain, which compares false with everything.                           *)
(***************************************************************************)
EXTENDS Sweep

CONSTANTS
    Threads,
    Points,        \* where it is asked
    Nowhere,
    BlockSize,
    MaxBlocks,
    Outside,       \* the answer for a point without data
    Unanswered,
    Nobody         \* the lock is free

VARIABLES
    asked,     \* thread -> the point it was asked about
    doing,     \* thread -> idle, waiting, reading, answered
    answer,    \* thread -> what it found there
    holder,    \* the thread inside the lock, or Nobody
    blocks,    \* the keys of the blocks kept, the oldest first
    recent     \* the keys asked for, the most recent last: history

(* What a pixel of a city that was swept may hold.                         *)
Pixels ==
    [profile : {OpenSky} \cup {Profile(scene, Cells, c) : scene \in Scenes, c \in Cells},
     under : BOOLEAN]

ASSUME ReaderAssumption ==
    /\ BlockSize \in Nat \ {0} /\ MaxBlocks \in Nat \ {0} /\ Nobody \notin Threads
    /\ Points \subseteq (Int \X Int) \cup {Nowhere} /\ Outside \notin Pixels

readerVars == <<asked, doing, answer, holder, blocks, recent>>

GridRows == Rows - 2 * Margin
GridCols == Cols - 2 * Margin

(* floor, so that a point just off the north or west edge is not cell 0.   *)
RowCol(point) == <<point[1] \div 2, point[2] \div 2>>

(* The cell of the raster a cell of the grid is.                           *)
OnRaster(rc) == <<rc[1] + Margin, rc[2] + Margin>>

OnGrid(point) ==
    /\ point # Nowhere
    /\ 0 <= point[1] /\ point[1] < 2 * GridRows
    /\ 0 <= point[2] /\ point[2] < 2 * GridCols

(* Any point of the grid, holes included.                                  *)
ReaderContainsHoles(point) == OnGrid(point)

(* contains: on the grid, and where something was computed.                *)
ReaderContains(point) == OnGrid(point) /\ Covered(OnRaster(RowCol(point)))

KeyOf(point) == <<RowCol(point)[1] \div BlockSize, RowCol(point)[2] \div BlockSize>>

Smaller(a, b) == IF a < b THEN a ELSE b

(* _load_block: a window cut at the far edges, and its own origin.         *)
Block(key) ==
    LET origin == <<key[1] * BlockSize, key[2] * BlockSize>>
        window == (0..Smaller(BlockSize, GridRows - origin[1]) - 1)
                    \X (0..Smaller(BlockSize, GridCols - origin[2]) - 1)
        raster(rc) == OnRaster(<<origin[1] + rc[1], origin[2] + rc[2]>>)
    IN  [origin |-> origin,
         pixels |-> [rc \in window |-> [profile |-> cubes[raster(rc)],
                                        under   |-> raster(rc) \in Canopy(terrain)]]]

(* The engine finds the pixel again from the block's origin, asked at the  *)
(* centre of the pixel and not at the point.                               *)
Answer(point) ==
    LET block  == Block(KeyOf(point))
        centre == <<2 * RowCol(point)[1] + 1, 2 * RowCol(point)[2] + 1>>
        local  == RowCol(<<centre[1] - 2 * block.origin[1], centre[2] - 2 * block.origin[2]>>)
    IN  block.pixels[local]

Keys(s) == {s[i] : i \in DOMAIN s}

(* move_to_end, those behind it closing up, and the insertion of a key     *)
(* that was not there.                                                     *)
MovedToEnd(s, key) ==
    IF key \notin Keys(s) THEN Append(s, key)
    ELSE LET place == CHOOSE i \in DOMAIN s : s[i] = key
         IN  [i \in DOMAIN s |-> IF i < place THEN s[i]
                                 ELSE IF i < Len(s) THEN s[i + 1] ELSE key]

-----------------------------------------------------------------------------
ReaderInit ==
    /\ asked = [t \in Threads |-> Nowhere]
    /\ doing = [t \in Threads |-> "idle"]
    /\ answer = [t \in Threads |-> Unanswered]
    /\ holder = Nobody /\ blocks = <<>> /\ recent = <<>>

(* A query without data is refused before the lock is asked for.           *)
Query(t) ==
    /\ phase = "swept" /\ doing[t] = "idle"
    /\ \E point \in Points :
         /\ asked' = [asked EXCEPT ![t] = point]
         /\ IF ReaderContains(point)
            THEN doing' = [doing EXCEPT ![t] = "waiting"] /\ UNCHANGED answer
            ELSE /\ doing' = [doing EXCEPT ![t] = "answered"]
                 /\ answer' = [answer EXCEPT ![t] = Outside]
    /\ UNCHANGED <<holder, blocks, recent>>

Answered(t) ==
    /\ doing' = [doing EXCEPT ![t] = "answered"]
    /\ answer' = [answer EXCEPT ![t] = Answer(asked[t])]
    /\ UNCHANGED asked

(* A hit that leaves the block as old as it was.                           *)
HitUnmoved(t) ==
    /\ doing[t] = "waiting" /\ holder = Nobody
    /\ KeyOf(asked[t]) \in Keys(blocks)
    /\ recent' = MovedToEnd(recent, KeyOf(asked[t]))
    /\ Answered(t) /\ UNCHANGED <<holder, blocks>>

(* Warm: the block becomes the youngest.                                   *)
Hit(t) ==
    /\ doing[t] = "waiting" /\ holder = Nobody
    /\ KeyOf(asked[t]) \in Keys(blocks)
    /\ blocks' = MovedToEnd(blocks, KeyOf(asked[t]))
    /\ recent' = MovedToEnd(recent, KeyOf(asked[t]))
    /\ Answered(t) /\ UNCHANGED holder

(* Cold: the datasets are read with the lock held.                         *)
Miss(t) ==
    /\ doing[t] = "waiting" /\ holder = Nobody
    /\ KeyOf(asked[t]) \notin Keys(blocks)
    /\ holder' = t
    /\ doing' = [doing EXCEPT ![t] = "reading"]
    /\ recent' = MovedToEnd(recent, KeyOf(asked[t]))
    /\ UNCHANGED <<asked, answer, blocks>>

(* Nothing is ever let go.                                                 *)
KeepAll(t) ==
    /\ doing[t] = "reading"
    /\ blocks' = Append(blocks, KeyOf(asked[t]))
    /\ holder' = Nobody
    /\ Answered(t) /\ UNCHANGED recent

(* The block is kept and, past the limit, the oldest is let go.            *)
Keep(t) ==
    /\ doing[t] = "reading"
    /\ LET kept == Append(blocks, KeyOf(asked[t]))
       IN  blocks' = IF Len(kept) > MaxBlocks THEN Tail(kept) ELSE kept
    /\ holder' = Nobody
    /\ Answered(t) /\ UNCHANGED recent

(* The answer is used and the thread takes another query.                  *)
Reply(t) ==
    /\ doing[t] = "answered"
    /\ doing' = [doing EXCEPT ![t] = "idle"]
    /\ asked' = [asked EXCEPT ![t] = Nowhere]
    /\ answer' = [answer EXCEPT ![t] = Unanswered]
    /\ UNCHANGED <<holder, blocks, recent>>

ReaderNext ==
    \E t \in Threads : Query(t) \/ Hit(t) \/ Miss(t) \/ Keep(t) \/ Reply(t)

(* The city is swept, and then served.                                     *)
ReaderSpec ==
    /\ SweepInit /\ ReaderInit
    /\ [][\/ SweepNext /\ UNCHANGED readerVars
          \/ ReaderNext /\ UNCHANGED sweepVars]_<<sweepVars, readerVars>>

-----------------------------------------------------------------------------
(* With the lock free, what is kept is what was asked for last: a block is *)
(* read once however many threads want it, and never again while it is one *)
(* of the MaxBlocks most recent.                                           *)
KeepsTheRecent ==
    holder = Nobody =>
        blocks = SubSeq(recent, Len(recent) - Smaller(MaxBlocks, Len(recent)) + 1,
                        Len(recent))

(* Whatever tile swept a pixel, and whatever block it was read in, a       *)
(* thread is told the skyline of the whole raster there; and a hole in the *)
(* area, whose pixels look like an open sky, is never answered.            *)
AnswersTheSkyline ==
    \A t \in Threads : doing[t] = "answered" =>
        IF answer[t] = Outside
        THEN \/ asked[t] = Nowhere \/ OnRaster(RowCol(asked[t])) \notin Inner
             \/ ~Covered(OnRaster(RowCol(asked[t])))
        ELSE LET cell == OnRaster(RowCol(asked[t]))
             IN  /\ Covered(cell)
                 /\ answer[t] = [profile |-> Profile(terrain, Cells, cell),
                                 under   |-> cell \in Canopy(terrain)]

(* The cache and its lock change how long an answer takes, never what it   *)
(* says, and hold what they promise to hold.                               *)
CacheIsUnseen == KeepsTheRecent /\ AnswersTheSkyline
=============================================================================
