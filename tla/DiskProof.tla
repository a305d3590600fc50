------------------------------ MODULE DiskProof ------------------------------
(***************************************************************************)
(* What the pipeline may rely on when it reads its own disk.               *)
(*                                                                         *)
(* With one writer at a time, state.json is a Counter, for any processes,  *)
(* any number of pieces and any number of changes. The invariant says who  *)
(* may touch which inode: the one that state.json names, and those that    *)
(* are being read, are whole and are never the scratch, and only the       *)
(* scratch is written.                                                     *)
(*                                                                         *)
(* The LiDAR of a city, for any size of tile, any context round it, any    *)
(* box, any catalogue and any limit on a session: the tiles it expects     *)
(* cover the ground and no more, half a tile never bears a name, and what  *)
(* was validated stays.                                                    *)
(*                                                                         *)
(* The logs and the history of the runs, of any commands at work: a copy   *)
(* of the records is the file until somebody saves over it, and as long as *)
(* nobody saves one that is not, or ends with logs moved, the record of a  *)
(* step names the last of its logs, which the pruning never takes. What    *)
(* the console says of the work of others: a step owes an announcement     *)
(* only when more came about than was told, and the pane is a log as far   *)
(* as it was read. The form of a new city: its panel is of the polygon it  *)
(* names.                                                                  *)
(*                                                                         *)
(* The folder of a build: what is written so far was read back, the        *)
(* metadata is of this build only when all of it was, and what was         *)
(* verified stays but for the angles that a disk loses.                    *)
(*                                                                         *)
(* The files of a city, for any lines, outlines and settings: every text   *)
(* there is or is about to be has the same comments (Worded); of commands  *)
(* that work alone, where each errand ends is sound (Orderly).             *)
(***************************************************************************)
EXTENDS StateFile, Download, RunHistory, Watching, CityForm, CityFile, Build, Numbers, SequenceTheorems,
        FiniteSetTheorems, TLAPS

Uniform(pieces) == \A k \in Piece : pieces[k] = pieces[1]

(* One writer at a time, and readers that only read.                       *)
Solo ==
    /\ \A p, q \in Writers : pc[p] # "off" /\ pc[q] # "off" => p = q
    /\ \A p \in Readers : pc[p] \in {"off", "reading"}

(* The scratch is apart from what anybody reads.                           *)
Apart ==
    /\ state # Absent => state # scratch /\ Uniform(content[state])
    /\ \A p \in Processes : pc[p] = "reading" /\ fd[p] # Absent =>
         fd[p] # scratch /\ Uniform(content[fd[p]])

(* What has been read is a beginning of the file that was opened.          *)
Reading ==
    \A p \in Processes : pc[p] = "reading" =>
      \A k \in Piece :
        got[p][k] = IF fd[p] # Absent /\ k <= pos[p] THEN content[fd[p]][k] ELSE 0

Fresh ==
    \A p \in Processes : pc[p] # "reading" => got[p] = Empty

(* What has been written is a beginning of the next change.                *)
Written ==
    \A p \in Processes : pc[p] = "writing" =>
      /\ scratch # Absent /\ fd[p] = scratch /\ mine[p] < MaxChanges
      /\ \A k \in Piece : k <= pos[p] => content[scratch][k] = mine[p] + 1

Rested ==
    \A p \in Processes : pc[p] \in {"off", "open"} => fd[p] = Absent /\ pos[p] = 0

(* Who may write has the latest change in hand, or is reading it.          *)
Latest ==
    \A p \in Writers :
      /\ pc[p] = "reading" => fd[p] = state
      /\ pc[p] \in {"open", "writing"} => mine[p] = ReadsAs(state)

IInv ==
    /\ TypeOK /\ Solo /\ Apart /\ Reading /\ Fresh /\ Written /\ Rested /\ Latest

-----------------------------------------------------------------------------
(* A whole file parses as what each of its pieces is from.                 *)
LEMMA ParsedWhole ==
    ASSUME NEW pieces, NEW v, \A k \in Piece : pieces[k] = v
    PROVE  Parsed(pieces) = v /\ Uniform(pieces)
<1>1. 1 \in Piece
  BY FileAssumption DEF Piece
<1> QED
  BY <1>1 DEF Parsed, Uniform

(* Parsing yields a change.                                                *)
LEMMA ParsedType ==
    ASSUME NEW pieces \in [Piece -> Changes]
    PROVE  Parsed(pieces) \in Changes
<1>1. 1 \in Piece
  BY FileAssumption DEF Piece
<1>2. 0 \in Changes
  BY FileAssumption DEF Changes
<1> QED
  BY <1>1, <1>2 DEF Parsed

LEMMA ReadsAsType ==
    ASSUME TypeOK, NEW i \in Inodes \cup {Absent}
    PROVE  ReadsAs(i) \in Changes
<1>1. 0 \in Changes
  BY FileAssumption DEF Changes
<1> QED
  BY <1>1, ParsedType DEF ReadsAs, TypeOK

LEMMA EmptyParsed == Parsed(Empty) = 0 /\ Uniform(Empty)
<1>1. \A k \in Piece : Empty[k] = 0
  BY DEF Empty
<1> QED
  BY <1>1, ParsedWhole

(* A process that reads is about to learn what its descriptor reads as.    *)
LEMMA ReadWhole ==
    ASSUME IInv, NEW p \in Processes, pc[p] = "reading",
           fd[p] = Absent \/ pos[p] = Pieces
    PROVE  Parsed(got[p]) = ReadsAs(fd[p])
<1>1. CASE fd[p] = Absent
  <2>1. \A k \in Piece : got[p][k] = 0
    BY <1>1 DEF IInv, Reading
  <2> QED
    BY <1>1, <2>1, ParsedWhole DEF ReadsAs
<1>2. CASE fd[p] # Absent
  <2>1. \A k \in Piece : k <= pos[p]
    BY <1>2 DEF Piece
  <2>2. \A k \in Piece : got[p][k] = content[fd[p]][k]
    BY <1>2, <2>1 DEF IInv, Reading
  <2>3. 1 \in Piece
    BY FileAssumption DEF Piece
  <2> QED
    BY <1>2, <2>2, <2>3 DEF ReadsAs, Parsed
<1> QED
  BY <1>1, <1>2

(* The file that is about to be renamed in is the next change.             *)
LEMMA WrittenWhole ==
    ASSUME IInv, NEW p \in Processes, pc[p] = "writing", pos[p] = Pieces
    PROVE  Parsed(content[scratch]) = mine[p] + 1 /\ Uniform(content[scratch])
<1>1. \A k \in Piece : k <= pos[p]
  BY DEF Piece
<1>2. \A k \in Piece : content[scratch][k] = mine[p] + 1
  BY <1>1 DEF IInv, Written
<1> QED
  BY <1>2, ParsedWhole

(* The invariant holds of an empty directory.                              *)
LEMMA Initially == Init => IInv
<1> SUFFICES ASSUME Init PROVE IInv
  OBVIOUS
<1>1. 0 \in Changes /\ 0 \in 0..Pieces
  BY FileAssumption DEF Changes
<1>2. Empty \in [Piece -> Changes]
  BY <1>1 DEF Empty
<1>3. TypeOK
  BY <1>1, <1>2 DEF Init, TypeOK
<1>4. Solo /\ Apart /\ Reading /\ Fresh /\ Written /\ Rested /\ Latest
  BY DEF Init, Solo, Apart, Reading, Fresh, Written, Rested, Latest, Processes
<1> QED
  BY <1>3, <1>4 DEF IInv

-----------------------------------------------------------------------------
(* Nothing but the control state of one process changes, and it lets go of *)
(* what it had open.                                                       *)
LEMMA LetsGo ==
    ASSUME IInv, NEW p \in Processes,
           pc' = [pc EXCEPT ![p] = "off"], fd' = [fd EXCEPT ![p] = Absent],
           pos' = [pos EXCEPT ![p] = 0], got' = [got EXCEPT ![p] = Empty],
           UNCHANGED <<files, mine>>
    PROVE  IInv'
<1> USE DEF IInv
<1>1. 0 \in 0..Pieces /\ Empty \in [Piece -> Changes]
  BY FileAssumption DEF Changes, Empty
<1>2. TypeOK'
  BY <1>1 DEF TypeOK, files
<1>3. Solo' /\ Apart'
  BY DEF TypeOK, Solo, Apart, files, Processes, Uniform
<1>4. Reading' /\ Fresh'
  BY DEF TypeOK, Reading, Fresh, files
<1>5. Written' /\ Rested'
  BY DEF TypeOK, Written, Rested, files
<1>6. Latest'
  BY DEF TypeOK, Latest, files, ReadsAs, Parsed, Processes
<1> QED
  BY <1>2, <1>3, <1>4, <1>5, <1>6

LEMMA OpenKeeps ==
    ASSUME IInv, NEW p \in Processes, Open(p), ~MayOverlap
    PROVE  IInv'
<1> USE DEF IInv, Open
<1>1. TypeOK'
  BY DEF TypeOK, files
<1>2. Solo'
  BY DEF TypeOK, Solo, Processes
<1>3. Apart'
  BY DEF TypeOK, Apart, files, Uniform
<1>4. \A k \in Piece : got[p][k] = 0 /\ ~(k <= pos[p])
  <2>1. got[p] = Empty /\ pos[p] = 0
    BY DEF Fresh, Rested
  <2>2. \A k \in Piece : Empty[k] = 0 /\ ~(k <= 0)
    BY DEF Empty, Piece
  <2> QED
    BY <2>1, <2>2
<1>5. Reading' /\ Fresh'
  BY <1>4 DEF TypeOK, Reading, Fresh, files
<1>6. Written' /\ Rested'
  BY DEF TypeOK, Written, Rested, files
<1>7. Latest'
  BY DEF TypeOK, Latest, files, ReadsAs, Parsed, Processes
<1> QED
  BY <1>1, <1>2, <1>3, <1>5, <1>6, <1>7

LEMMA ReadPieceKeeps ==
    ASSUME IInv, NEW p \in Processes, ReadPiece(p)
    PROVE  IInv'
<1> USE DEF IInv, ReadPiece
<1>1. pos[p] + 1 \in Piece /\ pos[p] + 1 \in 0..Pieces
  BY FileAssumption DEF TypeOK, Piece
<1>2. content[fd[p]][pos[p] + 1] \in Changes
  BY <1>1 DEF TypeOK
<1>3. TypeOK'
  BY <1>1, <1>2 DEF TypeOK, files
<1>4. Solo' /\ Apart'
  BY DEF TypeOK, Solo, Apart, files, Uniform
<1>5. Reading'
  <2> SUFFICES ASSUME NEW q \in Processes, pc'[q] = "reading", NEW k \in Piece
               PROVE got'[q][k] = IF fd'[q] # Absent /\ k <= pos'[q]
                                  THEN content'[fd'[q]][k] ELSE 0
    BY DEF Reading
  <2>1. CASE q # p
    BY <2>1 DEF TypeOK, Reading, files
  <2>2. CASE q = p /\ k = pos[p] + 1
    <3>1. got'[p][k] = content[fd[p]][k]
      BY <2>2 DEF TypeOK
    <3>2. pos'[p] = k /\ k <= k
      BY <2>2, <1>1 DEF TypeOK, Piece
    <3>3. fd' = fd /\ content' = content
      BY DEF files
    <3> QED
      BY <2>2, <3>1, <3>2, <3>3
  <2>3. CASE q = p /\ k # pos[p] + 1
    <3>1. got'[p][k] = got[p][k]
      BY <2>3 DEF TypeOK
    <3>2. pos'[p] = pos[p] + 1 /\ (k <= pos'[p] <=> k <= pos[p])
      BY <2>3 DEF TypeOK, Piece
    <3> QED
      BY <2>3, <3>1, <3>2 DEF Reading, files
  <2> QED
    BY <2>1, <2>2, <2>3
<1>6. Fresh' /\ Written' /\ Rested'
  BY DEF TypeOK, Fresh, Written, Rested, files
<1>7. Latest'
  BY DEF TypeOK, Latest, files, ReadsAs, Parsed
<1> QED
  BY <1>3, <1>4, <1>5, <1>6, <1>7

LEMMA ParseKeeps ==
    ASSUME IInv, NEW p \in Processes, Parse(p)
    PROVE  IInv'
<1> USE DEF IInv, Parse
<1>1. 0 \in 0..Pieces /\ Empty \in [Piece -> Changes]
  BY FileAssumption DEF Changes, Empty
<1>2. Parsed(got[p]) = ReadsAs(fd[p]) /\ Parsed(got[p]) \in Changes
  BY ReadWhole, ReadsAsType DEF TypeOK
<1>3. TypeOK'
  BY <1>1, <1>2 DEF TypeOK, files
<1>4. Solo' /\ Apart'
  BY FileAssumption DEF TypeOK, Solo, Apart, files, Uniform, Processes
<1>5. Reading' /\ Fresh'
  BY DEF TypeOK, Reading, Fresh, files
<1>6. Written' /\ Rested'
  BY DEF TypeOK, Written, Rested, files
<1>7. p \in Writers => mine'[p] = ReadsAs(state)
  BY <1>2 DEF TypeOK, Latest
<1>8. Latest'
  BY <1>7 DEF TypeOK, Latest, files, ReadsAs, Parsed, Processes
<1> QED
  BY <1>3, <1>4, <1>5, <1>6, <1>8

LEMMA CloseKeeps ==
    ASSUME IInv, NEW p \in Processes, Close(p)
    PROVE  IInv'
<1> USE DEF IInv, Close
<1>1. TypeOK' /\ Solo' /\ Apart'
  BY DEF TypeOK, Solo, Apart, files, Uniform, Processes
<1>2. Reading' /\ Fresh' /\ Written' /\ Rested'
  BY DEF TypeOK, Reading, Fresh, Written, Rested, files
<1>3. Latest'
  BY DEF TypeOK, Latest, files, ReadsAs, Parsed, Processes
<1> QED
  BY <1>1, <1>2, <1>3

(* The scratch a writer opens is nobody else's: truncating it changes      *)
(* nothing that state.json or a reader can see.                            *)
LEMMA ScratchIsApart ==
    ASSUME IInv, NEW p \in Processes, OpenScratch(p)
    PROVE  \E i \in Inodes :
             /\ scratch' = i /\ fd' = [fd EXCEPT ![p] = i]
             /\ content' = [content EXCEPT ![i] = Empty]
             /\ i # state
             /\ \A q \in Processes : pc[q] = "reading" => fd[q] # i
<1>1. PICK i \in IF scratch # Absent THEN {scratch} ELSE Inodes \ Used :
        /\ scratch' = i /\ fd' = [fd EXCEPT ![p] = i]
        /\ content' = [content EXCEPT ![i] = Empty]
  BY DEF OpenScratch
<1>2. i \in Inodes /\ i # Absent
  BY <1>1, FileAssumption DEF IInv, TypeOK
<1>3. i # state
  BY <1>1, <1>2 DEF IInv, Apart, Used
<1>4. \A q \in Processes : pc[q] = "reading" => fd[q] # i
  BY <1>1, <1>2 DEF IInv, Apart, Used
<1> QED
  BY <1>1, <1>2, <1>3, <1>4

LEMMA OpenScratchKeeps ==
    ASSUME IInv, NEW p \in Processes, OpenScratch(p)
    PROVE  IInv'
<1> USE DEF IInv
<1>1. PICK i \in Inodes :
        /\ scratch' = i /\ fd' = [fd EXCEPT ![p] = i]
        /\ content' = [content EXCEPT ![i] = Empty]
        /\ i # state
        /\ \A q \in Processes : pc[q] = "reading" => fd[q] # i
  BY ScratchIsApart
<1>2. /\ pc[p] = "open" /\ mine[p] < MaxChanges
      /\ pc' = [pc EXCEPT ![p] = "writing"]
      /\ UNCHANGED <<state, pos, got, mine>>
  BY DEF OpenScratch
<1>3. p \in Writers /\ pos[p] = 0
  BY <1>2 DEF Solo, Rested, Processes
<1>4. Empty \in [Piece -> Changes] /\ i # Absent
  BY FileAssumption DEF Changes, Empty
<1>5. TypeOK'
  BY <1>1, <1>2, <1>4 DEF TypeOK
<1>6. Solo'
  BY <1>2, <1>3, FileAssumption DEF TypeOK, Solo, Processes
<1>7. Apart'
  BY <1>1, <1>2 DEF TypeOK, Apart, Uniform
<1>8. Reading' /\ Fresh'
  BY <1>1, <1>2 DEF TypeOK, Reading, Fresh
<1>9. \A k \in Piece : ~(k <= 0)
  BY DEF Piece
<1>10. \A q \in Processes : pc[q] = "writing" => FALSE
  BY <1>2, <1>3 DEF Solo, Processes
<1>11. Written'
  BY <1>1, <1>2, <1>3, <1>4, <1>9, <1>10 DEF TypeOK, Written
<1>12. Rested'
  BY <1>1, <1>2 DEF TypeOK, Rested
<1>13. ReadsAs(state)' = ReadsAs(state)
  BY <1>1, <1>2 DEF TypeOK, ReadsAs, Parsed
<1>14. Latest'
  BY <1>1, <1>2, <1>3, <1>13 DEF TypeOK, Latest, Processes
<1> QED
  BY <1>5, <1>6, <1>7, <1>8, <1>11, <1>12, <1>14

LEMMA WritePieceKeeps ==
    ASSUME IInv, NEW p \in Processes, WritePiece(p)
    PROVE  IInv'
<1> USE DEF IInv
<1>1. /\ pc[p] = "writing" /\ pos[p] < Pieces
      /\ content' = [content EXCEPT ![fd[p]][pos[p] + 1] = mine[p] + 1]
      /\ pos' = [pos EXCEPT ![p] = @ + 1]
      /\ UNCHANGED <<state, scratch, pc, fd, got, mine>>
  BY DEF WritePiece
<1>2. pos[p] + 1 \in Piece /\ pos[p] + 1 \in 0..Pieces
  BY <1>1, FileAssumption DEF TypeOK, Piece
<1>3. mine[p] + 1 \in Changes /\ fd[p] = scratch /\ scratch # Absent
  BY <1>1, FileAssumption DEF TypeOK, Written, Changes
<1>4. scratch \in Inodes
  BY <1>3 DEF TypeOK
<1>5. TypeOK'
  BY <1>1, <1>2, <1>3, <1>4 DEF TypeOK
<1>6. p \in Writers
  BY <1>1 DEF Solo, Processes
<1>7. \A q \in Processes : pc[q] = "writing" => q = p
  BY <1>1, <1>6 DEF Solo, Processes
<1>8. \A i \in Inodes : i # scratch => content'[i] = content[i]
  BY <1>1, <1>3 DEF TypeOK
<1>9. Solo' /\ Fresh' /\ Rested'
  BY <1>1 DEF TypeOK, Solo, Fresh, Rested
<1>10. Apart'
  BY <1>1, <1>8 DEF TypeOK, Apart, Uniform
<1>11. Reading'
  <2> SUFFICES ASSUME NEW q \in Processes, pc[q] = "reading", NEW k \in Piece
               PROVE got[q][k] = IF fd[q] # Absent /\ k <= pos'[q]
                                 THEN content'[fd[q]][k] ELSE 0
    BY <1>1 DEF Reading
  <2>1. pos'[q] = pos[q]
    BY <1>1 DEF TypeOK
  <2>2. fd[q] # Absent => content'[fd[q]] = content[fd[q]]
    BY <1>8 DEF TypeOK, Apart
  <2> QED
    BY <2>1, <2>2 DEF Reading
<1>12. Written'
  <2> SUFFICES ASSUME NEW k \in Piece, k <= pos'[p]
               PROVE content'[scratch][k] = mine[p] + 1
    BY <1>1, <1>3, <1>7 DEF Written
  <2>1. CASE k = pos[p] + 1
    BY <1>1, <1>2, <1>3, <1>4, <2>1 DEF TypeOK
  <2>2. CASE k # pos[p] + 1
    <3>1. k <= pos[p]
      BY <1>1, <2>2 DEF TypeOK, Piece
    <3>2. content'[scratch][k] = content[scratch][k]
      BY <1>1, <1>3, <1>4, <2>2 DEF TypeOK
    <3> QED
      BY <1>1, <3>1, <3>2 DEF Written
  <2> QED
    BY <2>1, <2>2
<1>13. ReadsAs(state)' = ReadsAs(state)
  BY <1>1, <1>8 DEF TypeOK, Apart, ReadsAs, Parsed
<1>14. Latest'
  BY <1>1, <1>13 DEF Latest
<1> QED
  BY <1>5, <1>9, <1>10, <1>11, <1>12, <1>14

(* A writer alone finds its scratch where it left it.                      *)
LEMMA ReplaceFinds ==
    ASSUME IInv, NEW p \in Processes, Replace(p)
    PROVE  /\ p \in Writers /\ scratch \in Inodes /\ mine[p] < MaxChanges
           /\ state' = scratch /\ scratch' = Absent
           /\ pc' = [pc EXCEPT ![p] = "open"]
           /\ mine' = [mine EXCEPT ![p] = @ + 1]
           /\ ReadsAs(state)' = mine[p] + 1 /\ Uniform(content[scratch])
<1>1. pc[p] = "writing" /\ pos[p] = Pieces
  BY DEF Replace
<1>2. p \in Writers
  BY <1>1 DEF IInv, Solo, Processes
<1>3. scratch \in Inodes /\ scratch # Absent /\ mine[p] < MaxChanges
  BY <1>1, FileAssumption DEF IInv, Written, TypeOK
<1>4. Parsed(content[scratch]) = mine[p] + 1 /\ Uniform(content[scratch])
  BY <1>1, WrittenWhole
<1>5. /\ state' = scratch /\ scratch' = Absent /\ content' = content
      /\ pc' = [pc EXCEPT ![p] = "open"]
      /\ mine' = [mine EXCEPT ![p] = @ + 1]
  BY <1>3 DEF Replace
<1> QED
  BY <1>2, <1>3, <1>4, <1>5 DEF ReadsAs, Parsed

LEMMA ReplaceKeeps ==
    ASSUME IInv, NEW p \in Processes, Replace(p)
    PROVE  IInv'
<1> USE DEF IInv
<1>1. /\ p \in Writers /\ scratch \in Inodes /\ mine[p] < MaxChanges
      /\ state' = scratch /\ scratch' = Absent
      /\ pc' = [pc EXCEPT ![p] = "open"]
      /\ mine' = [mine EXCEPT ![p] = @ + 1]
      /\ ReadsAs(state)' = mine[p] + 1 /\ Uniform(content[scratch])
  BY ReplaceFinds
<1>2. /\ pc[p] = "writing" /\ fd' = [fd EXCEPT ![p] = Absent]
      /\ pos' = [pos EXCEPT ![p] = 0]
      /\ UNCHANGED <<content, got>>
  BY DEF Replace
<1>3. mine[p] + 1 \in Changes /\ 0 \in 0..Pieces
  BY <1>1, FileAssumption DEF TypeOK, Changes
<1>4. TypeOK'
  BY <1>1, <1>2, <1>3 DEF TypeOK
<1>5. Solo'
  BY <1>1, <1>2, FileAssumption DEF TypeOK, Solo, Processes
<1>6. \A q \in Writers : pc[q] # "off" => q = p
  BY <1>1, <1>2 DEF Solo
<1>7. Apart'
  BY <1>1, <1>2, FileAssumption DEF TypeOK, Apart, Uniform
<1>8. Reading' /\ Fresh'
  BY <1>1, <1>2 DEF TypeOK, Reading, Fresh
<1>9. Written'
  BY <1>1, <1>2, <1>6 DEF TypeOK, Solo, Written, Processes
<1>10. Rested'
  BY <1>1, <1>2 DEF TypeOK, Rested
<1>11. mine'[p] = mine[p] + 1 /\ pc'[p] = "open" /\ \A q \in Writers : q # p => pc'[q] = "off"
  BY <1>1, <1>2, <1>6 DEF TypeOK, Processes
<1>12. Latest'
  BY <1>1, <1>11 DEF Latest
<1> QED
  BY <1>4, <1>5, <1>7, <1>8, <1>9, <1>10, <1>12

LEMMA DieKeeps ==
    ASSUME IInv, NEW p \in Processes, Die(p)
    PROVE  IInv'
BY LetsGo DEF Die

(* Every step keeps the invariant.                                         *)
LEMMA Keeps ==
    ASSUME IInv, ~MayOverlap, [Next]_vars
    PROVE  IInv'
<1>1. CASE UNCHANGED vars
  BY <1>1 DEF vars, files, IInv, TypeOK, Solo, Apart, Reading, Fresh, Written, Rested,
              Latest, Uniform, ReadsAs, Parsed
<1>2. ASSUME NEW p \in Processes,
             \/ Open(p) \/ ReadPiece(p) \/ Parse(p) \/ Close(p)
             \/ OpenScratch(p) \/ WritePiece(p) \/ Replace(p) \/ Die(p)
      PROVE  IInv'
  BY <1>2, OpenKeeps, ReadPieceKeeps, ParseKeeps, CloseKeeps, OpenScratchKeeps,
     WritePieceKeeps, ReplaceKeeps, DieKeeps
<1> QED
  BY <1>1, <1>2 DEF Next

(* With one writer at a time, state.json and what is being read are whole, *)
(* and nobody but a writer touches the scratch.                            *)
THEOREM FileInvariant == ASSUME ~MayOverlap PROVE Spec => []IInv
<1>1. Init => IInv
  BY Initially
<1>2. IInv /\ [Next]_vars => IInv'
  BY Keeps
<1> QED
  BY <1>1, <1>2, PTL DEF Spec

(* Every variable stays in its type.                                       *)
THEOREM FileTyped == ASSUME ~MayOverlap PROVE Spec => []TypeOK
<1>1. IInv => TypeOK
  BY DEF IInv
<1> QED
  BY <1>1, FileInvariant, PTL

-----------------------------------------------------------------------------
(* The Counter the file stands for.                                        *)
Looked == [p \in Processes |->
             IF pc[p] = "reading" THEN ReadsAs(fd[p]) ELSE MaxChanges + 1]

(* What every file and every descriptor reads as stays the same.           *)
LEMMA LooksTheSame ==
    ASSUME IInv, UNCHANGED <<state, pc, fd, content>>
    PROVE  ReadsAs(state)' = ReadsAs(state) /\ Looked' = Looked
BY DEF Looked, ReadsAs, Parsed

LEMMA Starts == Init => Counter!Init
<1> SUFFICES ASSUME Init PROVE Counter!Init
  OBVIOUS
<1>1. ReadsAs(state) = 0
  BY DEF Init, ReadsAs
<1> QED
  BY <1>1 DEF Init, Counter!Init

(* Each step of the file is one of the Counter, or none.                   *)
LEMMA Maps ==
    ASSUME IInv, IInv', ~MayOverlap, [Next]_vars
    PROVE  [Counter!Next]_<<ReadsAs(state), Looked, mine>>
<1> DEFINE count == ReadsAs(state)
<1>1. count \in Changes /\ \A p \in Processes : ReadsAs(fd[p]) \in Changes
  BY ReadsAsType DEF IInv, TypeOK
<1>2. \A c \in Changes : c # MaxChanges + 1
  BY FileAssumption DEF Changes
<1>3. CASE UNCHANGED vars
  BY <1>3, LooksTheSame DEF vars, files
<1>4. ASSUME NEW p \in Processes, Open(p)
      PROVE  Counter!Look(p)
  <2>1. pc[p] = "off" /\ pc' = [pc EXCEPT ![p] = "reading"]
        /\ fd' = [fd EXCEPT ![p] = state] /\ UNCHANGED <<files, mine>>
    BY <1>4 DEF Open
  <2>2. ReadsAs(state)' = ReadsAs(state)
    BY <2>1 DEF files, ReadsAs, Parsed
  <2>3. Looked' = [Looked EXCEPT ![p] = ReadsAs(state)]
    BY <2>1 DEF Looked, files, ReadsAs, Parsed, IInv, TypeOK
  <2> QED
    BY <2>1, <2>2, <2>3 DEF Counter!Look, Looked
<1>5. ASSUME NEW p \in Processes, Parse(p)
      PROVE  Counter!Learn(p)
  <2>1. /\ pc[p] = "reading" /\ UNCHANGED files
        /\ pc' = [pc EXCEPT ![p] = IF p \in Writers THEN "open" ELSE "off"]
        /\ fd' = [fd EXCEPT ![p] = Absent]
        /\ mine' = [mine EXCEPT ![p] = Parsed(got[p])]
    BY <1>5 DEF Parse
  <2>2. ReadsAs(state)' = ReadsAs(state)
    BY <2>1 DEF files, ReadsAs, Parsed
  <2>3. Looked' = [Looked EXCEPT ![p] = MaxChanges + 1]
    BY <2>1 DEF Looked, files, ReadsAs, Parsed, IInv, TypeOK
  <2>4. Parsed(got[p]) = ReadsAs(fd[p])
    BY <1>5, ReadWhole DEF Parse
  <2>5. Looked[p] = ReadsAs(fd[p]) /\ Looked[p] # MaxChanges + 1
    BY <1>1, <1>2, <2>1 DEF Looked
  <2> QED
    BY <2>1, <2>2, <2>3, <2>4, <2>5 DEF Counter!Learn, Looked
<1>6. ASSUME NEW p \in Processes, Replace(p)
      PROVE  Counter!Change(p)
  <2>1. /\ p \in Writers
        /\ pc' = [pc EXCEPT ![p] = "open"]
        /\ mine' = [mine EXCEPT ![p] = @ + 1]
        /\ ReadsAs(state)' = mine[p] + 1
    BY <1>6, ReplaceFinds
  <2>2. /\ pc[p] = "writing" /\ fd' = [fd EXCEPT ![p] = Absent]
        /\ UNCHANGED content
    BY <1>6 DEF Replace
  <2>3. mine[p] = ReadsAs(state)
    BY <2>1, <2>2 DEF IInv, Latest
  <2>4. Looked' = Looked
    BY <2>1, <2>2 DEF Looked, ReadsAs, Parsed, IInv, TypeOK
  <2>5. mine' = [mine EXCEPT ![p] = ReadsAs(state) + 1]
    BY <2>1, <2>3
  <2> QED
    BY <2>1, <2>3, <2>4, <2>5 DEF Counter!Change, Looked
<1>7. ASSUME NEW p \in Processes, Die(p)
      PROVE  Counter!Abandon(p)
  <2>1. /\ pc' = [pc EXCEPT ![p] = "off"] /\ fd' = [fd EXCEPT ![p] = Absent]
        /\ UNCHANGED <<files, mine>>
    BY <1>7 DEF Die
  <2>2. ReadsAs(state)' = ReadsAs(state)
    BY <2>1 DEF files, ReadsAs, Parsed
  <2>3. Looked' = [Looked EXCEPT ![p] = MaxChanges + 1]
    BY <2>1 DEF Looked, files, ReadsAs, Parsed, IInv, TypeOK
  <2> QED
    BY <2>1, <2>2, <2>3 DEF Counter!Abandon, Looked
<1>8. ASSUME NEW p \in Processes, ReadPiece(p) \/ Close(p)
      PROVE  UNCHANGED <<ReadsAs(state), Looked, mine>>
  <2>1. CASE ReadPiece(p)
    BY <2>1, LooksTheSame DEF ReadPiece, files
  <2>2. CASE Close(p)
    <3>1. Looked' = Looked
      BY <2>2 DEF Close, Looked, files, ReadsAs, Parsed, IInv, TypeOK
    <3>2. ReadsAs(state)' = ReadsAs(state)
      BY <2>2 DEF Close, files, ReadsAs, Parsed
    <3> QED
      BY <2>2, <3>1, <3>2 DEF Close
  <2> QED
    BY <1>8, <2>1, <2>2
<1>9. ASSUME NEW p \in Processes, OpenScratch(p)
      PROVE  UNCHANGED <<ReadsAs(state), Looked, mine>>
  <2>1. PICK i \in Inodes :
          /\ scratch' = i /\ fd' = [fd EXCEPT ![p] = i]
          /\ content' = [content EXCEPT ![i] = Empty]
          /\ i # state
          /\ \A q \in Processes : pc[q] = "reading" => fd[q] # i
    BY <1>9, ScratchIsApart
  <2>2. /\ pc[p] = "open" /\ pc' = [pc EXCEPT ![p] = "writing"]
        /\ UNCHANGED <<state, mine>>
    BY <1>9 DEF OpenScratch
  <2>3. ReadsAs(state)' = ReadsAs(state)
    BY <2>1, <2>2 DEF ReadsAs, Parsed, IInv, TypeOK
  <2>4. Looked' = Looked
    BY <2>1, <2>2 DEF Looked, ReadsAs, Parsed, IInv, TypeOK
  <2> QED
    BY <2>2, <2>3, <2>4
<1>10. ASSUME NEW p \in Processes, WritePiece(p)
       PROVE  UNCHANGED <<ReadsAs(state), Looked, mine>>
  <2>1. /\ pc[p] = "writing" /\ UNCHANGED <<state, pc, fd, mine>>
        /\ \A i \in Inodes : i # fd[p] => content'[i] = content[i]
    BY <1>10 DEF WritePiece, IInv, TypeOK
  <2>2. fd[p] = scratch
    BY <2>1 DEF IInv, Written
  <2>3. ReadsAs(state)' = ReadsAs(state)
    BY <2>1, <2>2 DEF ReadsAs, Parsed, IInv, TypeOK, Apart
  <2>4. \A q \in Processes : pc[q] = "reading" => ReadsAs(fd[q])' = ReadsAs(fd[q])
    BY <2>1, <2>2 DEF ReadsAs, Parsed, IInv, TypeOK, Apart
  <2>5. Looked' = Looked
    BY <2>1, <2>4 DEF Looked
  <2> QED
    BY <2>1, <2>3, <2>5
<1>11. ASSUME NEW p \in Processes,
              Counter!Look(p) \/ Counter!Learn(p) \/ Counter!Change(p) \/ Counter!Abandon(p)
       PROVE  Counter!Next
  BY <1>11 DEF Counter!Next
<1> QED
  BY <1>3, <1>4, <1>5, <1>6, <1>7, <1>8, <1>9, <1>10, <1>11 DEF Next

(* With one writer at a time the file is a Counter: readers see whole      *)
(* versions, of one moment, and no change is lost, whoever is killed when. *)
THEOREM SavesAreAtomic == ASSUME ~MayOverlap PROVE Spec => SavesAtomically
<1>1. Init => Counter!Init
  BY Starts
<1>2. IInv /\ IInv' /\ [Next]_vars => [Counter!Next]_<<ReadsAs(state), Looked, mine>>
  BY Maps
<1>3. Spec => []IInv
  BY FileInvariant
<1> QED
  BY <1>1, <1>2, <1>3, PTL DEF Spec, SavesAtomically, Counter!Spec, Looked

-----------------------------------------------------------------------------
DownloadSpec == DownloadInit /\ [][DownloadNext]_downloadVars

(* What a name may stand for: never half a tile.                           *)
DownloadInv ==
    /\ city \in Boxes
    /\ cache \in [Shelf -> {"none", "laz", "junk"}]

-----------------------------------------------------------------------------
(* A number lies in the tile its quotient names.                           *)
LEMMA InItsTile ==
    ASSUME NEW a \in Int
    PROVE  /\ Floor(a) \in Int
           /\ Floor(a) * TileSide <= a /\ a < Floor(a) * TileSide + TileSide
  BY DownloadAssumption DEF Floor

(* The next tile's border is at or beyond a number, and the last border    *)
(* below it is short of it.                                                *)
LEMMA ToTheNext ==
    ASSUME NEW a \in Int
    PROVE  /\ Ceil(a) \in Int
           /\ a <= Ceil(a) * TileSide /\ (Ceil(a) - 1) * TileSide < a
  BY DownloadAssumption DEF Ceil

(* Further along the axis is the same tile or one further along.           *)
LEMMA TimesSide ==
    ASSUME NEW i \in Int, NEW j \in Int, i <= j
    PROVE  i * TileSide <= j * TileSide
  BY DownloadAssumption

LEMMA FloorGrows ==
    ASSUME NEW i \in Int, NEW j \in Int, i <= j
    PROVE  Floor(i) <= Floor(j)
<1>1. SUFFICES ASSUME Floor(j) + 1 <= Floor(i)
               PROVE  FALSE
  BY InItsTile
<1>2. (Floor(j) + 1) * TileSide <= Floor(i) * TileSide
  BY <1>1, InItsTile, TimesSide
<1>3. (Floor(j) + 1) * TileSide = Floor(j) * TileSide + TileSide
  BY InItsTile, DownloadAssumption
<1> QED
  BY <1>2, <1>3, InItsTile, DownloadAssumption

(* The borders expected from one number to another, the last left out.     *)
LEMMA FloorBelowCeil ==
    ASSUME NEW i \in Int, NEW j \in Int, i < j
    PROVE  Floor(i) <= Ceil(j) - 1
<1>1. SUFFICES ASSUME Ceil(j) <= Floor(i)
               PROVE  FALSE
  BY InItsTile, ToTheNext
<1>2. Ceil(j) * TileSide <= Floor(i) * TileSide
  BY <1>1, InItsTile, ToTheNext, TimesSide
<1> QED
  BY <1>2, InItsTile, ToTheNext, DownloadAssumption

(* Every number of a range lies in one of the tiles expected of the range, *)
(* and every tile expected of it has a number of the range in it.          *)
LEMMA RangeIsCovered ==
    ASSUME NEW lo \in Int, NEW hi \in Int, NEW x \in lo..(hi - 1)
    PROVE  \E k \in Floor(lo)..(Ceil(hi) - 1) :
              x \in (k * TileSide)..(k * TileSide + TileSide - 1)
<1>1. Floor(x) \in Floor(lo)..(Ceil(hi) - 1)
  BY FloorGrows, FloorBelowCeil, InItsTile, ToTheNext
<1>2. x \in (Floor(x) * TileSide)..(Floor(x) * TileSide + TileSide - 1)
  BY InItsTile, DownloadAssumption
<1> QED
  BY <1>1, <1>2

LEMMA NoneIsWasted ==
    ASSUME NEW lo \in Int, NEW hi \in Int, lo < hi,
           NEW k \in Floor(lo)..(Ceil(hi) - 1)
    PROVE  \E x \in lo..(hi - 1) : x \in (k * TileSide)..(k * TileSide + TileSide - 1)
<1>0. k \in Int /\ Floor(lo) \in Int /\ Ceil(hi) \in Int /\ Floor(lo) <= k /\ k <= Ceil(hi) - 1
  BY InItsTile, ToTheNext
<1>1. k * TileSide < hi
  <2>1. k * TileSide <= (Ceil(hi) - 1) * TileSide
    BY <1>0, TimesSide
  <2> QED
    BY <2>1, <1>0, ToTheNext, DownloadAssumption
<1>2. lo < k * TileSide + TileSide
  <2>1. Floor(lo) * TileSide <= k * TileSide
    BY <1>0, TimesSide
  <2>2. lo < Floor(lo) * TileSide + TileSide
    BY InItsTile
  <2>3. Floor(lo) * TileSide \in Int /\ k * TileSide \in Int
    BY <1>0, DownloadAssumption
  <2> QED
    BY <2>1, <2>2, <2>3, DownloadAssumption
<1>3. k * TileSide \in Int
  BY <1>0, DownloadAssumption
<1>4. CASE lo <= k * TileSide
  <2>1. k * TileSide \in lo..(hi - 1)
    BY <1>1, <1>3, <1>4
  <2>2. k * TileSide \in (k * TileSide)..(k * TileSide + TileSide - 1)
    BY <1>3, DownloadAssumption
  <2> QED
    BY <2>1, <2>2
<1>5. CASE k * TileSide < lo
  <2>1. lo \in lo..(hi - 1)
    OBVIOUS
  <2>2. lo \in (k * TileSide)..(k * TileSide + TileSide - 1)
    BY <1>2, <1>3, <1>5, DownloadAssumption
  <2> QED
    BY <2>1, <2>2
<1> QED
  BY <1>3, <1>4, <1>5

-----------------------------------------------------------------------------
(* What is expected covers the padded box of any city, and no tile of it   *)
(* is fetched in vain.                                                     *)
LEMMA TilesAreJustEnough ==
    ASSUME city \in Boxes
    PROVE  ExpectedIsJustEnough
<1> DEFINE w == city.west - Buffer   e == city.east + Buffer
           s == city.south - Buffer  n == city.north + Buffer
<1>1. w \in Int /\ e \in Int /\ s \in Int /\ n \in Int /\ w < e /\ s < n
  BY DownloadAssumption
<1>2. TileSide \in Int
  BY DownloadAssumption
<1>3. Ground(city) = (w..(e - 1)) \X (s..(n - 1))
  <2>1. city.east + Buffer - 1 = e - 1 /\ city.north + Buffer - 1 = n - 1
    BY DownloadAssumption
  <2> QED
    BY <2>1 DEF Ground
<1>4. ASSUME NEW c \in Ground(city)
      PROVE  \E t \in ExpectedTiles(city) : c \in Beneath(t)
  <2>1. c[1] \in w..(e - 1) /\ c[2] \in s..(n - 1) /\ c = <<c[1], c[2]>>
    BY <1>3, <1>4
  <2>2. PICK k \in Floor(w)..(Ceil(e) - 1) :
               c[1] \in (k * TileSide)..(k * TileSide + TileSide - 1)
    BY <1>1, <2>1, RangeIsCovered
  <2>3. PICK l \in Floor(s)..(Ceil(n) - 1) :
               c[2] \in (l * TileSide)..(l * TileSide + TileSide - 1)
    BY <1>1, <2>1, RangeIsCovered
  <2> DEFINE t == <<k * TileSide, (l + 1) * TileSide>>
  <2>4. t \in ExpectedTiles(city)
    BY <2>2, <2>3 DEF ExpectedTiles
  <2>5. (l + 1) * TileSide - TileSide = l * TileSide
    <3>1. l \in Int
      BY <2>3, <1>1, InItsTile, ToTheNext
    <3> QED
      BY <3>1, <1>2
  <2>6. l * TileSide \in Int /\ (l + 1) * TileSide = l * TileSide + TileSide
    BY <2>3, <1>1, <1>2, InItsTile, ToTheNext
  <2>7. c \in Beneath(t)
    <3>1. c[2] \in (t[2] - TileSide)..(t[2] - 1)
      BY <2>3, <2>5, <2>6, <1>2
    <3>2. c[1] \in t[1]..(t[1] + TileSide - 1)
      BY <2>2
    <3> QED
      BY <3>1, <3>2, <2>1 DEF Beneath
  <2> QED
    BY <2>4, <2>7
<1>5. Covers(ExpectedTiles(city), city)
  BY <1>4 DEF Covers
<1>6. ASSUME NEW t \in ExpectedTiles(city)
      PROVE  Beneath(t) \cap Ground(city) # {}
  <2>1. PICK k \in Floor(w)..(Ceil(e) - 1), l \in Floor(s)..(Ceil(n) - 1) :
               t = <<k * TileSide, (l + 1) * TileSide>>
    BY <1>6 DEF ExpectedTiles
  <2>2. PICK x \in w..(e - 1) : x \in (k * TileSide)..(k * TileSide + TileSide - 1)
    BY <1>1, NoneIsWasted
  <2>3. PICK y \in s..(n - 1) : y \in (l * TileSide)..(l * TileSide + TileSide - 1)
    BY <1>1, NoneIsWasted
  <2>4. l * TileSide \in Int /\ (l + 1) * TileSide = l * TileSide + TileSide
    BY <1>1, <1>2, InItsTile, ToTheNext
  <2>5. y \in (t[2] - TileSide)..(t[2] - 1)
    BY <2>1, <2>3, <2>4, <1>2
  <2>6. x \in t[1]..(t[1] + TileSide - 1)
    BY <2>1, <2>2
  <2>7. <<x, y>> \in Beneath(t)
    BY <2>5, <2>6 DEF Beneath
  <2>8. <<x, y>> \in Ground(city)
    BY <1>3, <2>2, <2>3
  <2> QED
    BY <2>7, <2>8
<1> QED
  BY <1>5, <1>6 DEF ExpectedIsJustEnough

-----------------------------------------------------------------------------
(* Every step leaves only whole tiles, what was there before this program  *)
(* and nothing under a name, and the box it was asked for.                 *)
LEMMA StepKeepsNames ==
    ASSUME DownloadInv, [DownloadNext]_downloadVars
    PROVE  DownloadInv'
<1> USE DEF DownloadInv
<1>1. CASE Fetch
  BY <1>1 DEF Fetch
<1>2. CASE ReadPage
  BY <1>2 DEF ReadPage
<1>3. CASE Begin
  BY <1>3 DEF Begin
<1>4. CASE Arrived
  <2>1. cache' = cache \/ cache' = [cache EXCEPT ![coming] = "laz"]
    BY <1>4 DEF Arrived
  <2>2. city' = city
    BY <1>4 DEF Arrived
  <2> QED
    BY <2>1, <2>2
<1>5. CASE Select
  BY <1>5 DEF Select
<1>6. CASE BreakOff
  BY <1>6 DEF BreakOff
<1>7. CASE KillFetch
  BY <1>7 DEF KillFetch
<1>8. CASE UNCHANGED downloadVars
  BY <1>8 DEF downloadVars
<1> QED
  BY <1>1, <1>2, <1>3, <1>4, <1>5, <1>6, <1>7, <1>8 DEF DownloadNext, Progress

(* cnig.py:79, 142, 264: the tiles asked for cover the city and its        *)
(* context and no more, and a file under a tile's name is never half of    *)
(* one that this program fetched.                                          *)
THEOREM CacheIsAlwaysSound == DownloadSpec => []CacheIsSound
<1>1. DownloadInit => DownloadInv
  BY DEF DownloadInit, DownloadInv
<1>2. DownloadInv /\ [DownloadNext]_downloadVars => DownloadInv'
  BY StepKeepsNames
<1>3. DownloadInv => CacheIsSound
  <2>1. DownloadInv => NothingHalfNamed
    BY DEF DownloadInv, NothingHalfNamed
  <2> QED
    BY <2>1, TilesAreJustEnough DEF DownloadInv, CacheIsSound
<1> QED
  BY <1>1, <1>2, <1>3, PTL DEF DownloadSpec

-----------------------------------------------------------------------------
(* No step takes a tile away that was found whole.                         *)
LEMMA StepKeepsTiles ==
    ASSUME DownloadInv, [DownloadNext]_downloadVars,
           NEW t \in Shelf, cache[t] = "laz"
    PROVE  cache'[t] = "laz"
<1>1. CASE Fetch
  <2>1. ValidLaz(cache[t])
    BY DEF ValidLaz
  <2> QED
    BY <1>1, <2>1 DEF Fetch
<1>2. CASE Arrived
  <2>1. cache' = cache \/ cache' = [cache EXCEPT ![coming] = "laz"]
    BY <1>2 DEF Arrived
  <2> QED
    BY <2>1 DEF DownloadInv
<1>3. CASE UNCHANGED cache
  BY <1>3
<1>4. Fetch \/ Arrived \/ UNCHANGED cache
  BY DEF DownloadNext, Progress, ReadPage, Begin, Select, BreakOff, KillFetch, downloadVars
<1> QED
  BY <1>1, <1>2, <1>3, <1>4

(* cnig.py:20: every tile validated into the cache survives, whatever the  *)
(* centre refuses and whenever the command is killed or run again.         *)
THEOREM ValidatedAlwaysSurvive == DownloadSpec => ValidatedSurvives
<1>1. DownloadInit => DownloadInv
  BY DEF DownloadInit, DownloadInv
<1>2. DownloadInv /\ [DownloadNext]_downloadVars => DownloadInv'
  BY StepKeepsNames
<1>3. DownloadInv /\ [DownloadNext]_downloadVars
        => [\A t \in Shelf : cache[t] = "laz" => cache'[t] = "laz"]_cache
  BY StepKeepsTiles
<1> QED
  BY <1>1, <1>2, <1>3, PTL DEF DownloadSpec, ValidatedSurvives

-----------------------------------------------------------------------------
(* The logs there can be, what a record of the state file may be, and a     *)
(* command at its work.                                                    *)
Runs == 1..MaxRuns
Logs == Logged \X Runs
RunEntries == [status : {"pending", "running", "ended"}, run : 0..MaxRuns,
               place : {"none", "flat", "shelf"}]
Stages == {"away", "ready", "moving", "looking", "seeding", "writing", "named", "pruned",
           "begun", "logging", "saved"}
Seats == [at : Stages, step : Logged \cup {"none"}, run : 0..MaxRuns, copy : [Logged -> RunEntries],
          list : SUBSET Logs, moved : SUBSET Logs, behind : BOOLEAN, late : BOOLEAN]

(* No record is of a run that is yet to come.                              *)
Upto(e, n) == \A s \in Logged : e[s].run <= n

(* Only a mover has moved anything; who runs a step has one, and from its  *)
(* naming to its log a run.                                                *)
Fits(c) ==
    /\ c.at # "moving" => c.moved = {}
    /\ c.at \in {"named", "pruned", "begun", "logging", "saved"} => c.step \in Logged
    /\ c.at \in {"named", "pruned", "begun"} => c.run \in Runs
    /\ c.run <= ran /\ Upto(c.copy, ran)

RunsTyped ==
    /\ entry \in [Logged -> RunEntries] /\ ran \in 0..MaxRuns /\ Upto(entry, ran)
    /\ flat \subseteq Logs /\ shelf \subseteq Logs /\ opened \subseteq Logs
    /\ clerk \in [Clerks -> Seats] /\ \A p \in Clerks : Fits(clerk[p])

(* A copy is the file as long as nobody saved over it, and the run named   *)
(* meanwhile is newer than any recorded.                                   *)
CopiesAgree ==
    \A p \in Clerks :
        /\ clerk[p].moved \cap flat = {}
        /\ (clerk[p].at # "away" /\ ~clerk[p].behind) => clerk[p].copy = entry
        /\ (clerk[p].at \in {"named", "pruned"} /\ ~clerk[p].behind)
             => \A s \in Logged : entry[s].run < clerk[p].run

LogsKept == flat \cup shelf \subseteq opened /\ NewestAreKept

(* Short of a mishap a record names the newest log there ever was, where   *)
(* it says or in the hands of who moves it.                                *)
NamesNewest == \A s \in Logged, n \in Runs : <<s, n>> \in opened => n <= entry[s].run
FlatIsThere ==
    \A s \in Logged : entry[s].place = "flat" =>
        <<s, entry[s].run>> \in flat \/ \E q \in Clerks : <<s, entry[s].run>> \in clerk[q].moved
ShelvedIsMoved == \A s \in Logged : entry[s].place = "shelf" => <<s, entry[s].run>> \notin flat
BegunIsNamed ==
    \A q \in Clerks : clerk[q].at = "begun" => clerk[q].run <= entry[clerk[q].step].run
Unharmed == NamesNewest /\ FlatIsThere /\ ShelvedIsMoved /\ BegunIsNamed

RunsInv == RunsTyped /\ CopiesAgree /\ LogsKept /\ (mishaps = {} => Unharmed)

-----------------------------------------------------------------------------
(* Of fewer logs the newest are still among those retained.                *)
LEMMA RetainedOfFewer ==
  ASSUME NEW all \in SUBSET Runs, NEW some \in SUBSET all, NEW n \in some, n \in Retain(all)
  PROVE  n \in Retain(some)
<1> DEFINE above(set) == {m \in set : m > n}
<1>1. IsFiniteSet(above(all))
  <2>1. IsFiniteSet(Runs)
    BY FS_Interval, HistoryAssumption DEF Runs
  <2>2. above(all) \subseteq Runs
    OBVIOUS
  <2> QED
    BY <2>1, <2>2, FS_Subset
<1>2. above(some) \subseteq above(all)
  OBVIOUS
<1> HIDE DEF above
<1>3. /\ IsFiniteSet(above(some)) /\ Cardinality(above(some)) <= Cardinality(above(all))
  BY <1>1, <1>2, FS_Subset
<1>4. Cardinality(above(all)) \in Nat /\ Cardinality(above(some)) \in Nat
  BY <1>1, <1>3, FS_CardinalityType
<1>5. Cardinality(above(all)) < KeepRuns
  BY DEF Retain, above
<1>6. Cardinality(above(some)) < KeepRuns
  BY <1>3, <1>4, <1>5, HistoryAssumption
<1> QED
  BY <1>6 DEF Retain, above

(* The last log of a step is among those retained.                         *)
LEMMA LastIsRetained ==
  ASSUME NEW runs \in SUBSET Runs, NEW n \in runs, \A m \in runs : m <= n
  PROVE  n \in Retain(runs)
<1>1. {m \in runs : m > n} = {}
  <2>1. MaxRuns \in Nat
    BY HistoryAssumption
  <2>2. \A m \in runs : m \in Nat /\ n \in Nat /\ m <= n
    BY <2>1 DEF Runs
  <2>3. \A m \in runs : ~(m > n)
    BY <2>2
  <2> QED
    BY <2>3
<1>2. Cardinality({m \in runs : m > n}) = 0
  BY <1>1, FS_EmptySet
<1> QED
  BY <1>2, HistoryAssumption DEF Retain

(* Nobody is at work without a seat, and who left has none to lose.        *)
LEMMA AwayIsASeat ==
  /\ Away \in Seats /\ Away.at = "away" /\ Away.step = "none" /\ Away.run = 0
  /\ Away.moved = {} /\ Away.behind = FALSE /\ \A s \in Logged : Away.copy[s].run = 0
<1>1. 0 \in 0..MaxRuns
  BY HistoryAssumption
<1>2. Pending \in RunEntries /\ Pending.run = 0
  BY <1>1 DEF Pending, RunEntries
<1>3. [s \in Logged |-> Pending] \in [Logged -> RunEntries]
  BY <1>2
<1>4. "away" \in Stages
  BY DEF Stages
<1> QED
  BY <1>1, <1>2, <1>3, <1>4 DEF Away, Seats

(* What the others are doing stays; and what they hold is the file still,  *)
(* or is not any more.                                                     *)
Same(d, c) ==
    d.at = c.at /\ d.step = c.step /\ d.run = c.run /\ d.copy = c.copy /\ d.moved = c.moved
RestStay(p) ==
    \A q \in Clerks \ {p} : Same(clerk'[q], clerk[q]) /\ clerk'[q].behind = clerk[q].behind
RestFall(p) ==
    \A q \in Clerks \ {p} : Same(clerk'[q], clerk[q]) /\ clerk'[q].behind = (clerk[q].at # "away")

LEMMA Becoming ==
  ASSUME RunsTyped, NEW p \in Clerks, NEW c \in Seats, Becomes(p, c)
  PROVE  clerk' \in [Clerks -> Seats] /\ clerk'[p] = c /\ RestStay(p)
<1>1. clerk \in [Clerks -> Seats] /\ clerk' = [clerk EXCEPT ![p] = c]
  BY DEF RunsTyped, Becomes
<1>2. clerk' \in [Clerks -> Seats] /\ clerk'[p] = c /\ \A q \in Clerks \ {p} : clerk'[q] = clerk[q]
  BY <1>1
<1> QED
  BY <1>2 DEF RestStay, Same

(* What a save and a line of history do to the others.                     *)
LEMMA Saving ==
  ASSUME RunsTyped, NEW p \in Clerks, NEW c \in Seats, Saves(p, c)
  PROVE  /\ clerk' \in [Clerks -> Seats] /\ Same(clerk'[p], c) /\ clerk'[p].behind = FALSE
         /\ entry' = c.copy /\ RestFall(p)
         /\ mishaps' = {} => mishaps = {} /\ ~clerk[p].behind
<1>1. clerk \in [Clerks -> Seats]
  BY DEF RunsTyped
<1> DEFINE fallen(q) == [clerk[q] EXCEPT !.behind = clerk[q].at # "away"]
           own == [c EXCEPT !.behind = FALSE]
<1>2. clerk' = [q \in Clerks |-> IF q = p THEN own ELSE fallen(q)] /\ entry' = c.copy
  BY Zenon DEF Saves
<1>3. own \in Seats /\ Same(own, c) /\ own.behind = FALSE
  BY Zenon DEF Seats, Same
<1>4. ASSUME NEW q \in Clerks
      PROVE  fallen(q) \in Seats /\ Same(fallen(q), clerk[q])
             /\ fallen(q).behind = (clerk[q].at # "away")
  <2>1. clerk[q] \in Seats /\ (clerk[q].at # "away") \in BOOLEAN
    BY <1>1
  <2>2. PICK b \in BOOLEAN : b = (clerk[q].at # "away")
    BY <2>1
  <2>3. [clerk[q] EXCEPT !.behind = b] \in Seats /\ Same([clerk[q] EXCEPT !.behind = b], clerk[q])
        /\ [clerk[q] EXCEPT !.behind = b].behind = b
    BY <2>1, Zenon DEF Seats, Same
  <2> QED
    BY <2>2, <2>3
<1> HIDE DEF fallen, own
<1>5. clerk' \in [Clerks -> Seats] /\ clerk'[p] = own
      /\ \A q \in Clerks \ {p} : clerk'[q] = fallen(q)
  BY <1>2, <1>3, <1>4
<1>6. RestFall(p)
  BY <1>4, <1>5 DEF RestFall
<1>7. mishaps' = {} => mishaps = {} /\ ~clerk[p].behind
  <2>1. mishaps' = mishaps \cup IF clerk[p].behind THEN {"stale copy"} ELSE {}
    BY Zenon DEF Saves
  <2>2. clerk[p].behind => mishaps' # {}
    <3>1. clerk[p].behind => mishaps' = mishaps \cup {"stale copy"}
      BY <2>1, Zenon
    <3> QED
      BY <3>1, Zenon
  <2>3. mishaps' = {} => mishaps = {}
    BY <2>1, Zenon
  <2> QED
    BY <2>2, <2>3, Zenon
<1> QED
  BY <1>2, <1>3, <1>5, <1>6, <1>7

LEMMA NotingDown ==
  ASSUME RunsTyped, NEW p \in Clerks, NEW c \in Seats, NEW h, Writes(p, c, h)
  PROVE  clerk' \in [Clerks -> Seats] /\ clerk'[p] = c /\ RestStay(p)
<1>1. clerk \in [Clerks -> Seats]
  BY DEF RunsTyped
<1> DEFINE later(q) == [clerk[q] EXCEPT !.late = clerk[q].late \/ Seeding(q)]
<1>2. clerk' = [q \in Clerks |-> IF q = p THEN c ELSE later(q)]
  BY DEF Writes
<1>3. ASSUME NEW q \in Clerks
      PROVE  later(q) \in Seats /\ Same(later(q), clerk[q]) /\ later(q).behind = clerk[q].behind
  <2>1. clerk[q] \in Seats
    BY <1>1
  <2>2. PICK b \in BOOLEAN : b = (clerk[q].late \/ Seeding(q))
    OBVIOUS
  <2>3. [clerk[q] EXCEPT !.late = b] \in Seats /\ Same([clerk[q] EXCEPT !.late = b], clerk[q])
        /\ [clerk[q] EXCEPT !.late = b].behind = clerk[q].behind
    BY <2>1, Zenon DEF Seats, Same
  <2> QED
    BY <2>2, <2>3
<1> HIDE DEF later
<1>4. clerk' \in [Clerks -> Seats] /\ clerk'[p] = c /\ \A q \in Clerks \ {p} : clerk'[q] = later(q)
  BY <1>1, <1>2, <1>3
<1> QED
  BY <1>3, <1>4 DEF RestStay

-----------------------------------------------------------------------------
(* A command goes on, or ends, and nothing of the logs and records moves.  *)
Quietly(p) ==
    /\ UNCHANGED <<entry, shelf, flat, ran, opened, mishaps>>
    /\ clerk' \in [Clerks -> Seats] /\ RestStay(p)
    /\ clerk[p].moved = {} /\ clerk'[p].moved = {} /\ clerk'[p].run \in {0, clerk[p].run}
    /\ clerk'[p].at \in {"away", "ready", "moving", "looking", "seeding", "writing"}
    /\ \/ clerk'[p].at = "away" /\ \A s \in Logged : clerk'[p].copy[s].run = 0
       \/ clerk'[p].copy = entry
       \/ /\ clerk'[p].copy = clerk[p].copy /\ clerk'[p].behind = clerk[p].behind
          /\ clerk[p].at # "away"

LEMMA QuietSteps ==
  ASSUME RunsTyped, NEW p \in Clerks,
         \/ ReadState(p) \/ \E s \in Logged \cup {"none"} : ListFlat(p, s)
         \/ LookForHistory(p) \/ OpenHistory(p) \/ SeedHistory(p)
         \/ RefreshLinks(p) \/ RememberRun(p)
  PROVE  Quietly(p)
<1> DEFINE c == clerk[p]
<1>1. c \in Seats /\ (c.at # "moving" => c.moved = {}) /\ entry \in [Logged -> RunEntries]
      /\ flat \in SUBSET Logs
  BY DEF RunsTyped, Fits
<1>2. CASE ReadState(p)
  <2> DEFINE d == [Away EXCEPT !.at = "ready", !.copy = entry]
  <2>1. c.at = "away" /\ Becomes(p, d) /\ UNCHANGED <<entry, shelf, flat, ran, opened, mishaps>>
    BY <1>2, Zenon DEF ReadState
  <2>2. d \in Seats /\ d.at = "ready" /\ d.copy = entry /\ d.moved = {} /\ d.run = 0
    BY <1>1, AwayIsASeat, Zenon DEF Seats, Stages
  <2> HIDE DEF d
  <2> QED
    BY <1>1, <2>1, <2>2, Becoming DEF Quietly
<1>3. ASSUME NEW s \in Logged \cup {"none"}, ListFlat(p, s) PROVE Quietly(p)
  <2> DEFINE d == [c EXCEPT !.at = IF flat = {} THEN "looking" ELSE "moving",
                            !.step = s, !.list = flat]
  <2>1. c.at = "ready" /\ Becomes(p, d) /\ UNCHANGED <<entry, shelf, flat, ran, opened, mishaps>>
    BY <1>3, Zenon DEF ListFlat
  <2>2. d \in Seats /\ d.copy = c.copy /\ d.moved = c.moved /\ d.run = c.run
        /\ d.behind = c.behind
    BY <1>1, Zenon DEF Seats, Stages
  <2>3. d.at \in {"looking", "moving"}
    BY <1>1, Zenon DEF Seats
  <2> HIDE DEF d
  <2> QED
    BY <1>1, <2>1, <2>2, <2>3, Becoming DEF Quietly
<1>4. CASE LookForHistory(p)
  <2> DEFINE d == [c EXCEPT !.at = "seeding"]
  <2>1. c.at = "looking" /\ Becomes(p, d) /\ UNCHANGED <<entry, shelf, flat, ran, opened, mishaps>>
    BY <1>4, Zenon DEF LookForHistory
  <2>2. d \in Seats /\ d.copy = c.copy /\ d.moved = c.moved /\ d.run = c.run
        /\ d.behind = c.behind /\ d.at = "seeding"
    BY <1>1, Zenon DEF Seats, Stages
  <2> HIDE DEF d
  <2> QED
    BY <1>1, <2>1, <2>2, Becoming DEF Quietly
<1>5. CASE OpenHistory(p)
  <2> DEFINE d == [c EXCEPT !.at = "writing"]
  <2>1. PICK h : c.at = "seeding" /\ Writes(p, d, h) /\ UNCHANGED <<entry, shelf, flat, ran, opened, mishaps>>
    BY <1>5, Zenon DEF OpenHistory
  <2>2. d \in Seats /\ d.copy = c.copy /\ d.moved = c.moved /\ d.run = c.run
        /\ d.behind = c.behind /\ d.at = "writing"
    BY <1>1, Zenon DEF Seats, Stages
  <2> HIDE DEF d
  <2> QED
    BY <1>1, <2>1, <2>2, NotingDown DEF Quietly
<1>6. CASE SeedHistory(p)
  <2> DEFINE d == [c EXCEPT !.at = "looking", !.late = FALSE]
  <2>1. PICK h : c.at = "writing" /\ Writes(p, d, h) /\ UNCHANGED <<entry, shelf, flat, ran, opened, mishaps>>
    BY <1>6, Zenon DEF SeedHistory
  <2>2. d \in Seats /\ d.copy = c.copy /\ d.moved = c.moved /\ d.run = c.run
        /\ d.behind = c.behind /\ d.at = "looking"
    BY <1>1, Zenon DEF Seats, Stages
  <2> HIDE DEF d
  <2> QED
    BY <1>1, <2>1, <2>2, NotingDown DEF Quietly
<1>7. CASE RefreshLinks(p)
  <2>1. c.at = "looking" /\ Becomes(p, Away) /\ UNCHANGED <<entry, shelf, flat, ran, opened, mishaps>>
    BY <1>7, Zenon DEF RefreshLinks, Tidied
  <2> QED
    BY <1>1, <2>1, AwayIsASeat, Becoming DEF Quietly
<1>8. CASE RememberRun(p)
  <2> DEFINE d == [c EXCEPT !.at = "ready", !.step = "none", !.run = 0]
  <2>1. PICK h : c.at = "saved" /\ Writes(p, d, h) /\ UNCHANGED <<entry, shelf, flat, ran, opened, mishaps>>
    BY <1>8, Zenon DEF RememberRun
  <2>2. "none" \in Logged \cup {"none"} /\ 0 \in 0..MaxRuns
    BY HistoryAssumption
  <2>3. d \in Seats /\ d.copy = c.copy /\ d.moved = c.moved /\ d.run = 0
        /\ d.behind = c.behind /\ d.at = "ready"
    BY <1>1, <2>2, Zenon DEF Seats, Stages
  <2> HIDE DEF d
  <2> QED
    BY <1>1, <2>1, <2>3, NotingDown DEF Quietly
<1> QED
  BY <1>2, <1>3, <1>4, <1>5, <1>6, <1>7, <1>8

(* A command ends; what it moved and did not save is a mishap.             *)
Leaving(p) ==
    /\ UNCHANGED <<entry, shelf, flat, ran, opened>>
    /\ clerk' \in [Clerks -> Seats] /\ RestStay(p) /\ clerk'[p] = Away
    /\ mishaps' = {} => mishaps = {} /\ clerk[p].moved = {}

LEMMA LeavingSteps ==
  ASSUME RunsTyped, NEW p \in Clerks, GoesAway(p) PROVE Leaving(p)
<1>1. Becomes(p, Away) /\ UNCHANGED <<entry, shelf, flat, ran, opened>>
  BY Zenon DEF GoesAway
<1>2. mishaps' = mishaps \cup IF clerk[p].moved = {} THEN {} ELSE {"half moved"}
  BY Zenon DEF GoesAway
<1>3. clerk[p].moved # {} => mishaps' # {}
  <2>1. clerk[p].moved # {} => mishaps' = mishaps \cup {"half moved"}
    BY <1>2, Zenon
  <2> QED
    BY <2>1, Zenon
<1>4. mishaps' = {} => mishaps = {} /\ clerk[p].moved = {}
  BY <1>2, <1>3, Zenon
<1> QED
  BY <1>1, <1>4, AwayIsASeat, Becoming DEF Leaving

(* One log is moved.                                                       *)
Moving(p, o) ==
    /\ o \in flat /\ flat' = flat \ {o} /\ shelf' = shelf \cup {o}
    /\ UNCHANGED <<entry, ran, opened, mishaps>>
    /\ clerk' \in [Clerks -> Seats] /\ RestStay(p) /\ clerk[p].at = "moving"
    /\ clerk'[p].at = "moving" /\ clerk'[p].run = clerk[p].run /\ clerk'[p].copy = clerk[p].copy
    /\ clerk'[p].behind = clerk[p].behind /\ clerk'[p].moved = clerk[p].moved \cup {o}

LEMMA MovingSteps ==
  ASSUME RunsTyped, NEW p \in Clerks, MoveLog(p) PROVE \E o : Moving(p, o)
<1> DEFINE c == clerk[p]
<1>1. c \in Seats /\ flat \subseteq Logs
  BY DEF RunsTyped
<1>2. PICK o \in c.list \cap flat :
        /\ flat' = flat \ {o} /\ shelf' = shelf \cup {o}
        /\ Becomes(p, [c EXCEPT !.list = @ \ {o}, !.moved = @ \cup {o}])
  BY Zenon DEF MoveLog
<1> DEFINE d == [c EXCEPT !.list = @ \ {o}, !.moved = @ \cup {o}]
<1>3. c.at = "moving" /\ UNCHANGED <<entry, ran, opened, mishaps>>
  BY Zenon DEF MoveLog
<1>4. c.list \ {o} \in SUBSET Logs /\ c.moved \cup {o} \in SUBSET Logs
  BY <1>1, <1>2, Zenon DEF Seats
<1>5. d \in Seats /\ d.at = c.at /\ d.run = c.run /\ d.copy = c.copy /\ d.behind = c.behind
      /\ d.moved = c.moved \cup {o}
  BY <1>1, <1>4, Zenon DEF Seats
<1>6. Becomes(p, d)
  BY <1>2
<1> HIDE DEF d
<1> QED
  BY <1>2, <1>3, <1>5, <1>6, Becoming DEF Moving

(* A save after which the records are of the runs they were of.            *)
Resaving(p, e) ==
    /\ UNCHANGED <<shelf, flat, ran, opened>> /\ entry' = e
    /\ clerk' \in [Clerks -> Seats] /\ RestFall(p)
    /\ clerk'[p].behind = FALSE /\ clerk'[p].copy = e /\ clerk'[p].run = clerk[p].run
    /\ clerk'[p].moved = {} /\ clerk[p].at # "away"
    /\ mishaps' = {} => mishaps = {} /\ ~clerk[p].behind
    /\ e \in [Logged -> RunEntries] /\ \A s \in Logged : e[s].run = clerk[p].copy[s].run

(* ... and only those of what was moved say another place.                 *)
Following(p) ==
    /\ Resaving(p, Follow(clerk[p].copy, clerk[p].moved)) /\ clerk'[p].at = "looking"

LEMMA FollowingSteps ==
  ASSUME RunsTyped, NEW p \in Clerks, SaveMoved(p) PROVE Following(p)
<1> DEFINE c == clerk[p]  e == Follow(c.copy, c.moved)
           d == [c EXCEPT !.at = "looking", !.moved = {}, !.copy = e]
<1>1. c \in Seats /\ c.copy \in [Logged -> RunEntries]
  BY DEF RunsTyped, Seats
<1>2. c.at = "moving" /\ Saves(p, d) /\ UNCHANGED <<shelf, flat, ran, opened>>
  BY Zenon DEF SaveMoved
<1>3. e \in [Logged -> RunEntries] /\ \A s \in Logged : e[s].run = c.copy[s].run
  <2>1. ASSUME NEW s \in Logged
        PROVE  [c.copy[s] EXCEPT !.place = "shelf"] \in RunEntries
               /\ [c.copy[s] EXCEPT !.place = "shelf"].run = c.copy[s].run
    BY <1>1, Zenon DEF RunEntries
  <2> QED
    BY <1>1, <2>1, Zenon DEF Follow
<1> HIDE DEF e
<1>4. d \in Seats /\ d.at = "looking" /\ d.moved = {} /\ d.copy = e /\ d.run = c.run
  BY <1>1, <1>3, Zenon DEF Seats, Stages
<1> HIDE DEF d
<1>5. Resaving(p, e) /\ clerk'[p].at = "looking"
  BY <1>2, <1>3, <1>4, Saving DEF Resaving, Same
<1> QED
  BY <1>5 DEF Following, e

(* The status of a record is saved.                                        *)
Ending(p) ==
    \E e : /\ Resaving(p, e) /\ clerk'[p].at = "saved" /\ clerk'[p].step \in Logged
           /\ clerk[p].moved = {}
           /\ \A s \in Logged : e[s].place = clerk[p].copy[s].place

LEMMA EndingSteps ==
  ASSUME RunsTyped, NEW p \in Clerks, EndRun(p) \/ PurgeUndoes(p) PROVE Ending(p)
<1> DEFINE c == clerk[p]
<1>1. c \in Seats /\ c.copy \in [Logged -> RunEntries] /\ (c.at # "moving" => c.moved = {})
  BY DEF RunsTyped, Seats, Fits
<1>2. c.at = "logging" => c.step \in Logged
  BY DEF RunsTyped, Fits
<1>3. \E s \in Logged, status \in {"ended", "pending"} :
        Saves(p, [c EXCEPT !.at = "saved", !.step = s, !.copy[s].status = status])
  <2>1. CASE EndRun(p)
    <3>1. PICK status \in {"ended", "pending"} :
            Saves(p, [c EXCEPT !.at = "saved", !.copy[c.step].status = status])
      BY <2>1, Zenon DEF EndRun
    <3>2. c.at = "logging"
      BY <2>1, Zenon DEF EndRun
    <3>3. [c EXCEPT !.at = "saved", !.copy[c.step].status = status]
            = [c EXCEPT !.at = "saved", !.step = c.step, !.copy[c.step].status = status]
      BY <1>1, Zenon DEF Seats
    <3> QED
      BY <1>2, <3>1, <3>2, <3>3, Zenon
  <2>2. CASE PurgeUndoes(p)
    BY <2>2, HistoryAssumption, Zenon DEF PurgeUndoes
  <2> QED
    BY <2>1, <2>2, Zenon
<1>4. PICK s \in Logged, status \in {"ended", "pending"} :
        Saves(p, [c EXCEPT !.at = "saved", !.step = s, !.copy[s].status = status])
  BY <1>3, Zenon
<1> DEFINE d == [c EXCEPT !.at = "saved", !.step = s, !.copy[s].status = status]
           e == [c.copy EXCEPT ![s].status = status]
<1>5. c.at \in {"logging", "ready"} /\ UNCHANGED <<shelf, flat, ran, opened>>
  BY Zenon DEF EndRun, PurgeUndoes
<1>6. e \in [Logged -> RunEntries]
      /\ \A t \in Logged : e[t].run = c.copy[t].run /\ e[t].place = c.copy[t].place
  <2>1. [c.copy[s] EXCEPT !.status = status] \in RunEntries
        /\ [c.copy[s] EXCEPT !.status = status].run = c.copy[s].run
        /\ [c.copy[s] EXCEPT !.status = status].place = c.copy[s].place
    BY <1>1, Zenon DEF RunEntries
  <2>2. e = [c.copy EXCEPT ![s] = [c.copy[s] EXCEPT !.status = status]]
    BY Zenon
  <2> QED
    BY <1>1, <2>1, <2>2, Zenon
<1>7. d = [c EXCEPT !.at = "saved", !.step = s, !.copy = e]
  BY Zenon
<1> HIDE DEF e
<1>8. d \in Seats /\ d.at = "saved" /\ d.step = s /\ d.moved = c.moved /\ d.copy = e /\ d.run = c.run
  BY <1>1, <1>6, <1>7, Zenon DEF Seats, Stages
<1>9. Saves(p, d)
  BY <1>4
<1> HIDE DEF d
<1>10. Resaving(p, e) /\ clerk'[p].at = "saved" /\ clerk'[p].step \in Logged
  BY <1>1, <1>5, <1>6, <1>8, <1>9, Saving DEF Resaving, Same
<1> QED
  BY <1>1, <1>5, <1>6, <1>10 DEF Ending
(* A run is named: it is newer than any other.                             *)
Naming(p) ==
    /\ UNCHANGED <<entry, shelf, flat, opened, mishaps>> /\ ran' = ran + 1 /\ ran < MaxRuns
    /\ clerk' \in [Clerks -> Seats] /\ RestStay(p)
    /\ clerk[p].at # "away" /\ clerk[p].moved = {} /\ clerk'[p].moved = {}
    /\ clerk'[p].at = "named" /\ clerk'[p].step \in Logged /\ clerk'[p].run = ran + 1
    /\ clerk'[p].copy = clerk[p].copy /\ clerk'[p].behind = clerk[p].behind

(* Its step is pruned.                                                     *)
Pruning(p) ==
    /\ UNCHANGED <<entry, flat, ran, opened, mishaps>>
    /\ shelf' = {o \in shelf : o[1] = clerk[p].step => o[2] \in Retain(RunsOf(shelf, clerk[p].step))}
    /\ clerk' \in [Clerks -> Seats] /\ RestStay(p)
    /\ clerk[p].at = "named" /\ clerk'[p].at = "pruned" /\ clerk'[p].moved = clerk[p].moved
    /\ clerk'[p].step = clerk[p].step /\ clerk'[p].run = clerk[p].run
    /\ clerk'[p].copy = clerk[p].copy /\ clerk'[p].behind = clerk[p].behind

(* It begins: the record of its step is of it.                             *)
Beginning(p) ==
    /\ UNCHANGED <<shelf, flat, ran, opened>> /\ clerk[p].at = "pruned"
    /\ clerk' \in [Clerks -> Seats] /\ RestFall(p)
    /\ clerk'[p].at = "begun" /\ clerk'[p].step = clerk[p].step /\ clerk'[p].run = clerk[p].run
    /\ clerk'[p].moved = clerk[p].moved /\ clerk'[p].behind = FALSE /\ clerk'[p].copy = entry'
    /\ mishaps' = {} => mishaps = {} /\ ~clerk[p].behind
    /\ entry' \in [Logged -> RunEntries]
    /\ entry'[clerk[p].step].run = clerk[p].run /\ entry'[clerk[p].step].place = "shelf"
    /\ \A s \in Logged \ {clerk[p].step} : entry'[s] = clerk[p].copy[s]

(* Its log is there.                                                       *)
Opening(p) ==
    /\ UNCHANGED <<entry, flat, ran, mishaps>> /\ clerk[p].at = "begun"
    /\ shelf' = shelf \cup {<<clerk[p].step, clerk[p].run>>}
    /\ opened' = opened \cup {<<clerk[p].step, clerk[p].run>>}
    /\ clerk' \in [Clerks -> Seats] /\ RestStay(p)
    /\ clerk'[p].at = "logging" /\ clerk'[p].step = clerk[p].step /\ clerk'[p].run = clerk[p].run
    /\ clerk'[p].moved = clerk[p].moved /\ clerk'[p].copy = clerk[p].copy
    /\ clerk'[p].behind = clerk[p].behind

LEMMA RunningSteps ==
  ASSUME RunsTyped, NEW p \in Clerks
  PROVE  /\ NameLog(p) => Naming(p)
         /\ Prune(p) => Pruning(p)
         /\ BeginRun(p) => Beginning(p)
         /\ OpenLog(p) => Opening(p)
<1> DEFINE c == clerk[p]
<1>1. c \in Seats /\ c.copy \in [Logged -> RunEntries] /\ Fits(c) /\ ran \in 0..MaxRuns
      /\ MaxRuns \in Nat
  BY HistoryAssumption DEF RunsTyped, Seats
<1>2. ASSUME NameLog(p) PROVE Naming(p)
  <2> DEFINE d == [c EXCEPT !.at = "named", !.run = ran + 1]
  <2>1. c.at = "looking" /\ c.step # "none" /\ Becomes(p, d) /\ ran < MaxRuns /\ ran' = ran + 1
        /\ UNCHANGED <<entry, shelf, flat, opened, mishaps>>
    BY <1>2, Zenon DEF NameLog, Tidied
  <2>2. ran + 1 \in 0..MaxRuns /\ c.step \in Logged
    BY <1>1, <2>1 DEF Seats
  <2> DEFINE n == ran + 1
  <2>3. PICK m \in 0..MaxRuns : m = ran + 1
    BY <2>2
  <2>4. [c EXCEPT !.at = "named", !.run = m] \in Seats
    BY <1>1, Zenon DEF Seats, Stages
  <2>5. d.at = "named" /\ d.step = c.step /\ d.moved = c.moved /\ d.copy = c.copy
        /\ d.behind = c.behind /\ d.run = ran + 1
    BY <1>1, Zenon DEF Seats
  <2>6. d \in Seats
    BY <2>3, <2>4
  <2> HIDE DEF d
  <2> QED
    BY <1>1, <2>1, <2>2, <2>5, <2>6, Becoming DEF Naming, Fits
<1>3. ASSUME Prune(p) PROVE Pruning(p)
  <2> DEFINE d == [c EXCEPT !.at = "pruned"]
             kept == Retain(RunsOf(shelf, c.step))
  <2>1. c.at = "named" /\ Becomes(p, d) /\ UNCHANGED <<entry, flat, ran, opened, mishaps>>
        /\ shelf' = {o \in shelf : o[1] = c.step => o[2] \in kept}
    BY <1>3, Zenon DEF Prune
  <2>2. d \in Seats /\ d.at = "pruned" /\ d.step = c.step /\ d.run = c.run /\ d.moved = c.moved
        /\ d.copy = c.copy /\ d.behind = c.behind
    BY <1>1, Zenon DEF Seats, Stages
  <2> HIDE DEF d, kept
  <2>3. clerk' \in [Clerks -> Seats] /\ clerk'[p] = d /\ RestStay(p)
    BY <2>1, <2>2, Becoming
  <2> QED
    BY <2>1, <2>2, <2>3 DEF Pruning, kept
<1>4. ASSUME BeginRun(p) PROVE Beginning(p)
  <2> DEFINE r == [status |-> "running", run |-> c.run, place |-> "shelf"]
             e == [c.copy EXCEPT ![c.step] = r]
             d == [c EXCEPT !.at = "begun", !.copy[c.step] = r]
  <2>1. c.at = "pruned" /\ Saves(p, d) /\ UNCHANGED <<shelf, flat, ran, opened>>
    BY <1>4, Zenon DEF BeginRun
  <2>2. c.step \in Logged /\ c.run \in 0..MaxRuns
    BY <1>1, <2>1 DEF Fits, Seats
  <2>3. r \in RunEntries /\ r.run = c.run /\ r.place = "shelf"
    BY <2>2 DEF RunEntries
  <2> HIDE DEF r
  <2>4. /\ e \in [Logged -> RunEntries] /\ e[c.step] = r
        /\ \A s \in Logged \ {c.step} : e[s] = c.copy[s]
    BY <1>1, <2>2, <2>3
  <2>5. d = [c EXCEPT !.at = "begun", !.copy = e]
    BY Zenon
  <2> HIDE DEF e
  <2>6. d \in Seats /\ d.at = "begun" /\ d.step = c.step /\ d.run = c.run /\ d.moved = c.moved
        /\ d.copy = e
    BY <1>1, <2>4, <2>5, Zenon DEF Seats, Stages
  <2> HIDE DEF d
  <2> QED
    BY <2>1, <2>3, <2>4, <2>6, Saving DEF Beginning, Same
<1>5. ASSUME OpenLog(p) PROVE Opening(p)
  <2> DEFINE d == [c EXCEPT !.at = "logging"]
  <2>1. c.at = "begun" /\ Becomes(p, d) /\ UNCHANGED <<entry, flat, ran, mishaps>>
        /\ shelf' = shelf \cup {<<c.step, c.run>>} /\ opened' = opened \cup {<<c.step, c.run>>}
    BY <1>5, Zenon DEF OpenLog
  <2>2. d \in Seats /\ d.at = "logging" /\ d.step = c.step /\ d.run = c.run /\ d.moved = c.moved
        /\ d.copy = c.copy /\ d.behind = c.behind
    BY <1>1, Zenon DEF Seats, Stages
  <2> HIDE DEF d
  <2>3. clerk' \in [Clerks -> Seats] /\ clerk'[p] = d /\ RestStay(p)
    BY <2>1, <2>2, Becoming
  <2> QED
    BY <2>1, <2>2, <2>3 DEF Opening
<1> QED
  BY <1>2, <1>3, <1>4, <1>5

(* Everything that a step may be, of one command.                          *)
Work(p) ==
    \/ Quietly(p) \/ Leaving(p) \/ \E o : Moving(p, o)
    \/ Following(p) \/ Ending(p)
    \/ Naming(p) \/ Pruning(p) \/ Beginning(p) \/ Opening(p)

LEMMA EveryStep ==
  ASSUME RunsTyped, HistoryNext PROVE \E p \in Clerks : Work(p)
<1>1. PICK p \in Clerks :
        \/ ReadState(p) \/ \E s \in Logged \cup {"none"} : ListFlat(p, s)
        \/ MoveLog(p) \/ MissLog(p) \/ SaveMoved(p)
        \/ LookForHistory(p) \/ OpenHistory(p) \/ SeedHistory(p)
        \/ RefreshLinks(p) \/ NameLog(p) \/ Prune(p) \/ BeginRun(p)
        \/ OpenLog(p) \/ EndRun(p) \/ PurgeUndoes(p) \/ RememberRun(p) \/ ClerkEnds(p)
  BY Zenon DEF HistoryNext
<1>2. MissLog(p) \/ ClerkEnds(p) => Leaving(p)
  BY LeavingSteps DEF MissLog, ClerkEnds
<1> QED
  BY <1>1, <1>2, QuietSteps, MovingSteps, FollowingSteps, EndingSteps, RunningSteps DEF Work

-----------------------------------------------------------------------------
(* Every step leaves the logs, the records and the copies in their types.  *)
LEMMA RunsStayTyped ==
  ASSUME RunsTyped, NEW p \in Clerks, Work(p) PROVE RunsTyped'
<1> DEFINE c == clerk[p]  d == clerk'[p]
<1>0. MaxRuns \in Nat /\ ran \in 0..MaxRuns
  BY HistoryAssumption DEF RunsTyped
<1>1. Fits(c) /\ c \in Seats /\ Upto(entry, ran)
  BY DEF RunsTyped
<1>2. \A q \in Clerks : clerk[q] \in Seats /\ clerk[q].run \in 0..MaxRuns
        /\ clerk[q].copy \in [Logged -> RunEntries] /\ Fits(clerk[q])
  BY DEF RunsTyped, Seats
<1>3. \A q \in Clerks : \A s \in Logged : clerk[q].copy[s].run \in 0..MaxRuns
  BY <1>2 DEF RunEntries
<1>4. ran' \in 0..MaxRuns /\ ran <= ran'
  BY <1>0 DEF Work, Quietly, Leaving, Moving, Following, Ending, Resaving, Naming, Pruning,
              Beginning, Opening
<1>5. ASSUME NEW q \in Clerks \ {p}, Same(clerk'[q], clerk[q]) PROVE Fits(clerk[q])'
  BY <1>0, <1>2, <1>3, <1>4, <1>5 DEF Same, Fits, Upto
<1>6. \A q \in Clerks \ {p} : Same(clerk'[q], clerk[q])
  BY DEF Work, Quietly, Leaving, Moving, Following, Ending, Resaving, Naming, Pruning,
         Beginning, Opening, RestStay, RestFall
<1>7. clerk' \in [Clerks -> Seats]
  BY DEF Work, Quietly, Leaving, Moving, Following, Ending, Resaving, Naming, Pruning,
         Beginning, Opening
<1>8. Fits(clerk[p])' /\ entry' \in [Logged -> RunEntries] /\ Upto(entry, ran)'
  <2>1. CASE Quietly(p)
    BY <1>0, <1>1, <2>1 DEF Quietly, Fits, Upto, RunsTyped
  <2>2. CASE Leaving(p)
    BY <1>0, <1>1, <2>2, AwayIsASeat DEF Leaving, Fits, Upto, RunsTyped
  <2>3. CASE \E o : Moving(p, o)
    BY <1>0, <1>1, <2>3 DEF Moving, Fits, Upto, RunsTyped
  <2>4. CASE Following(p) \/ Ending(p)
    <3>1. PICK e : Resaving(p, e) /\ (d.at = "looking" \/ (d.at = "saved" /\ d.step \in Logged))
      BY <2>4 DEF Following, Ending
    <3> QED
      BY <1>0, <1>1, <3>1 DEF Resaving, Fits, Upto
  <2>5. CASE Naming(p)
    BY <1>0, <1>1, <1>3, <2>5 DEF Naming, Fits, Upto, RunsTyped, Runs, RunEntries
  <2>6. CASE Pruning(p)
    BY <1>0, <1>1, <2>6 DEF Pruning, Fits, Upto, RunsTyped
  <2>7. CASE Beginning(p)
    BY <1>0, <1>1, <2>7 DEF Beginning, Fits, Upto
  <2>8. CASE Opening(p)
    BY <1>0, <1>1, <2>8 DEF Opening, Fits, Upto, RunsTyped
  <2> QED
    BY <2>1, <2>2, <2>3, <2>4, <2>5, <2>6, <2>7, <2>8 DEF Work
<1>9. flat' \subseteq Logs /\ shelf' \subseteq Logs /\ opened' \subseteq Logs
  <2>1. CASE Opening(p)
    <3>1. <<c.step, c.run>> \in Logs
      BY <1>1, <2>1 DEF Opening, Fits, Logs
    <3> QED
      BY <2>1, <3>1 DEF Opening, RunsTyped
  <2>2. CASE ~Opening(p)
    <3>1. flat \subseteq Logs /\ shelf \subseteq Logs /\ opened \subseteq Logs
      BY DEF RunsTyped
    <3> QED
      BY <2>2, <3>1 DEF Work, Quietly, Leaving, Moving, Following, Ending, Resaving, Naming,
                        Pruning, Beginning
  <2> QED
    BY <2>1, <2>2
<1> QED
  BY <1>4, <1>5, <1>6, <1>7, <1>8, <1>9 DEF RunsTyped

(* A copy that nobody saved over is the file, after every step.            *)
LEMMA CopiesStay ==
  ASSUME RunsTyped, CopiesAgree, NEW p \in Clerks, Work(p) PROVE CopiesAgree'
<1> DEFINE Agrees(c, e, f) ==
      /\ c.moved \cap f = {}
      /\ (c.at # "away" /\ ~c.behind) => c.copy = e
      /\ (c.at \in {"named", "pruned"} /\ ~c.behind) => \A s \in Logged : e[s].run < c.run
<1>1. \A q \in Clerks : Agrees(clerk[q], entry, flat)
  BY DEF CopiesAgree
<1>2. flat' \subseteq flat
  BY DEF Work, Quietly, Leaving, Moving, Following, Ending, Resaving, Naming, Pruning,
         Beginning, Opening
<1>3. ASSUME RestStay(p), entry' = entry, NEW q \in Clerks \ {p}
      PROVE  Agrees(clerk'[q], entry', flat')
  BY <1>1, <1>2, <1>3 DEF RestStay, Same
<1>4. ASSUME RestFall(p), NEW q \in Clerks \ {p}
      PROVE  Agrees(clerk'[q], entry', flat')
  <2>1. Same(clerk'[q], clerk[q]) /\ clerk'[q].behind = (clerk[q].at # "away")
    BY <1>4 DEF RestFall
  <2>2. clerk'[q].moved \cap flat' = {}
    BY <1>1, <1>2, <2>1 DEF Same
  <2>3. clerk'[q].at # "away" => clerk'[q].behind
    BY <2>1 DEF Same
  <2> QED
    BY <2>2, <2>3
<1>5. \/ RestStay(p) /\ entry' = entry
      \/ RestFall(p)
  BY DEF Work, Quietly, Leaving, Moving, Following, Ending, Resaving, Naming, Pruning,
         Beginning, Opening
<1>6. Agrees(clerk'[p], entry', flat')
  <2>1. CASE Quietly(p)
    BY <1>1, <1>2, <2>1 DEF Quietly
  <2>2. CASE Leaving(p)
    BY <2>2, AwayIsASeat DEF Leaving
  <2>3. ASSUME NEW o, Moving(p, o) PROVE Agrees(clerk'[p], entry', flat')
    BY <1>1, <2>3 DEF Moving
  <2>4. CASE Following(p) \/ Ending(p)
    BY <2>4 DEF Following, Ending, Resaving
  <2>5. CASE Naming(p)
    <3>1. \A s \in Logged : entry[s].run < ran + 1
      BY DEF RunsTyped, RunEntries, Upto
    <3> QED
      BY <1>1, <2>5, <3>1 DEF Naming
  <2>6. CASE Pruning(p)
    BY <1>1, <2>6 DEF Pruning
  <2>7. CASE Beginning(p)
    BY <1>1, <2>7 DEF Beginning
  <2>8. CASE Opening(p)
    BY <1>1, <2>8 DEF Opening
  <2> QED
    BY <2>1, <2>2, <2>3, <2>4, <2>5, <2>6, <2>7, <2>8 DEF Work
<1>7. \A q \in Clerks : Agrees(clerk'[q], entry', flat')
  BY <1>3, <1>4, <1>5, <1>6
<1> QED
  BY <1>7 DEF CopiesAgree

(* The logs of a step, when some are moved, pruned or added.               *)
LEMMA RunsAreOf ==
  ASSUME NEW logs, NEW s PROVE RunsOf(logs, s) \in SUBSET Runs
  BY DEF RunsOf, Runs

(* Pruning takes none of the newest, and nothing else takes any.           *)
LEMMA LogsStay ==
  ASSUME RunsTyped, LogsKept, NEW p \in Clerks, Work(p) PROVE LogsKept'
<1> DEFINE c == clerk[p]
<1>1. flat \cup shelf \subseteq opened
      /\ \A s \in Logged : Retain(RunsOf(opened, s)) \subseteq RunsOf(shelf \cup flat, s)
  BY DEF LogsKept, NewestAreKept
<1>2. CASE opened' = opened /\ flat' \cup shelf' = flat \cup shelf
  <2>1. shelf' \cup flat' = shelf \cup flat
    BY <1>2
  <2> QED
    BY <1>1, <1>2, <2>1 DEF LogsKept, NewestAreKept
<1>3. CASE Pruning(p)
  <2> DEFINE kept == Retain(RunsOf(shelf, c.step))
  <2>1. opened' = opened /\ flat' = flat /\ shelf' = {o \in shelf : o[1] = c.step => o[2] \in kept}
    BY <1>3 DEF Pruning
  <2> HIDE DEF kept
  <2>2. ASSUME NEW s \in Logged, NEW n \in Retain(RunsOf(opened, s))
        PROVE  n \in RunsOf(shelf' \cup flat', s)
    <3>1. n \in RunsOf(shelf \cup flat, s)
      BY <1>1
    <3>2. CASE <<s, n>> \in flat
      BY <2>1, <3>1, <3>2 DEF RunsOf
    <3>3. CASE <<s, n>> \in shelf /\ s # c.step
      BY <2>1, <3>1, <3>3 DEF RunsOf
    <3>4. CASE <<s, n>> \in shelf /\ s = c.step
      <4>1. RunsOf(shelf, s) \in SUBSET RunsOf(opened, s) /\ n \in RunsOf(shelf, s)
        BY <1>1, <3>1, <3>4 DEF RunsOf
      <4>2. n \in Retain(RunsOf(shelf, s))
        BY <4>1, RunsAreOf, RetainedOfFewer
      <4> QED
        BY <2>1, <3>1, <3>4, <4>2 DEF RunsOf, kept
    <3> QED
      BY <3>1, <3>2, <3>3, <3>4 DEF RunsOf
  <2>3. flat' \cup shelf' \subseteq opened'
    BY <1>1, <2>1
  <2> QED
    BY <2>1, <2>2, <2>3 DEF LogsKept, NewestAreKept
<1>4. CASE Opening(p)
  <2> DEFINE new == <<c.step, c.run>>
  <2>1. opened' = opened \cup {new} /\ shelf' = shelf \cup {new} /\ flat' = flat
    BY <1>4 DEF Opening
  <2>2. ASSUME NEW s \in Logged, NEW n \in Retain(RunsOf(opened', s))
        PROVE  n \in RunsOf(shelf' \cup flat', s)
    <3>1. n \in RunsOf(opened', s) /\ n \in Runs
      BY DEF Retain, RunsOf, Runs
    <3>2. CASE <<s, n>> = new
      BY <2>1, <3>1, <3>2 DEF RunsOf
    <3>3. CASE <<s, n>> # new
      <4>1. n \in RunsOf(opened, s) /\ RunsOf(opened, s) \in SUBSET RunsOf(opened', s)
        BY <2>1, <3>1, <3>3 DEF RunsOf
      <4>2. RunsOf(opened', s) \in SUBSET Runs
        BY DEF RunsOf, Runs
      <4>3. PICK all \in SUBSET Runs : all = RunsOf(opened', s)
        BY <4>2
      <4>4. n \in Retain(RunsOf(opened, s))
        BY <4>1, <4>3, RetainedOfFewer
      <4>5. n \in RunsOf(shelf \cup flat, s)
        BY <1>1, <4>4
      <4> QED
        BY <2>1, <4>5 DEF RunsOf
    <3> QED
      BY <3>2, <3>3
  <2>3. flat' \cup shelf' \subseteq opened'
    BY <1>1, <2>1
  <2> QED
    BY <2>2, <2>3 DEF LogsKept, NewestAreKept
<1>5. Pruning(p) \/ Opening(p) \/ (opened' = opened /\ flat' \cup shelf' = flat \cup shelf)
  BY DEF Work, Quietly, Leaving, Moving, Following, Ending, Resaving, Naming, Beginning
<1> QED
  BY <1>2, <1>3, <1>4, <1>5

(* Records that stay name what stays, or what is moved meanwhile.          *)
LEMMA Undisturbed ==
  ASSUME Unharmed, NEW p \in Clerks, \A q \in Clerks \ {p} : Same(clerk'[q], clerk[q]),
         clerk'[p].at # "begun", flat' \subseteq flat,
         flat \cup clerk[p].moved \subseteq flat' \cup clerk'[p].moved,
         \A s \in Logged : entry'[s].run = entry[s].run /\ entry'[s].place = entry[s].place,
         \A q \in Clerks : clerk[q].at = "begun" => clerk[q].step \in Logged
  PROVE  FlatIsThere' /\ ShelvedIsMoved' /\ BegunIsNamed'
<1>1. ASSUME NEW s \in Logged, entry'[s].place = "flat"
      PROVE  <<s, entry'[s].run>> \in flat' \/ \E q \in Clerks : <<s, entry'[s].run>> \in clerk'[q].moved
  <2> DEFINE o == <<s, entry[s].run>>
  <2>1. <<s, entry'[s].run>> = o /\ (o \in flat \/ \E q \in Clerks : o \in clerk[q].moved)
    BY <1>1 DEF Unharmed, FlatIsThere
  <2> HIDE DEF o
  <2>2. CASE o \in flat \/ o \in clerk[p].moved
    BY <2>1, <2>2
  <2>3. ASSUME NEW q \in Clerks \ {p}, o \in clerk[q].moved
        PROVE  o \in clerk'[q].moved
    BY <2>3 DEF Same
  <2> QED
    BY <2>1, <2>2, <2>3
<1>2. ShelvedIsMoved'
  BY DEF Unharmed, ShelvedIsMoved
<1>3. ASSUME NEW q \in Clerks, clerk'[q].at = "begun"
      PROVE  clerk'[q].run <= entry'[clerk'[q].step].run
  <2>1. q # p /\ Same(clerk'[q], clerk[q])
    BY <1>3
  <2>2. clerk[q].at = "begun" /\ clerk'[q].run = clerk[q].run /\ clerk'[q].step = clerk[q].step
    BY <1>3, <2>1 DEF Same
  <2>3. clerk[q].step \in Logged /\ clerk[q].run <= entry[clerk[q].step].run
    BY <2>2 DEF Unharmed, BegunIsNamed
  <2> QED
    BY <2>2, <2>3
<1> QED
  BY <1>1, <1>2, <1>3 DEF FlatIsThere, BegunIsNamed

(* Short of a mishap, no step takes a log from its record.                 *)
LEMMA UnharmedStays ==
  ASSUME RunsInv, NEW p \in Clerks, Work(p), mishaps' = {} PROVE mishaps = {} /\ Unharmed'
<1> DEFINE c == clerk[p]  d == clerk'[p]
<1>0. MaxRuns \in Nat /\ ran \in 0..MaxRuns
  BY HistoryAssumption DEF RunsInv, RunsTyped
<1>1. mishaps = {}
  BY DEF Work, Quietly, Leaving, Moving, Following, Ending, Resaving, Naming, Pruning,
         Beginning, Opening
<1>2. RunsTyped /\ CopiesAgree /\ Unharmed /\ flat \subseteq opened
  BY <1>1 DEF RunsInv, LogsKept
<1>3. \A q \in Clerks \ {p} : Same(clerk'[q], clerk[q])
  BY DEF Work, Quietly, Leaving, Moving, Following, Ending, Resaving, Naming, Pruning,
         Beginning, Opening, RestStay, RestFall
<1>4. \A s \in Logged : entry[s].run \in 0..MaxRuns
  BY <1>2 DEF RunsTyped, RunEntries
<1>5. \A q \in Clerks : Fits(clerk[q])
  BY <1>2 DEF RunsTyped
<1>6. \A q \in Clerks : clerk[q].at = "begun" => clerk[q].step \in Logged
  BY <1>5 DEF Fits
<1>7. ASSUME UNCHANGED <<entry, opened>>, d.at # "begun", flat' \subseteq flat,
             flat \cup c.moved \subseteq flat' \cup d.moved
      PROVE  Unharmed'
  <2>1. FlatIsThere' /\ ShelvedIsMoved' /\ BegunIsNamed'
    BY <1>2, <1>3, <1>6, <1>7, Undisturbed
  <2>2. NamesNewest'
    BY <1>2, <1>7 DEF Unharmed, NamesNewest
  <2> QED
    BY <2>1, <2>2 DEF Unharmed
<1>8. CASE Quietly(p) \/ Leaving(p) \/ Naming(p) \/ Pruning(p)
  <2>1. UNCHANGED <<entry, flat, opened>> /\ d.at # "begun"
    BY <1>8, AwayIsASeat DEF Quietly, Leaving, Naming, Pruning
  <2>2. c.moved \subseteq d.moved
    BY <1>1, <1>8 DEF Quietly, Leaving, Naming, Pruning
  <2>3. flat' \subseteq flat /\ flat \cup c.moved \subseteq flat' \cup d.moved
    BY <2>1, <2>2
  <2>4. UNCHANGED <<entry, opened>>
    BY <2>1
  <2> QED
    BY <1>1, <1>7, <2>1, <2>3, <2>4
<1>9. ASSUME NEW o, Moving(p, o) PROVE Unharmed'
  BY <1>7, <1>9 DEF Moving
<1>10. CASE Following(p)
  <2> DEFINE e == Follow(c.copy, c.moved)
  <2>1. /\ UNCHANGED <<flat, opened>> /\ entry' = e /\ d.at # "begun" /\ ~c.behind /\ c.at # "away"
    BY <1>10 DEF Following, Resaving
  <2>2. c.copy = entry /\ c.moved \cap flat = {}
    BY <1>2, <2>1 DEF CopiesAgree
  <2>3. ASSUME NEW s \in Logged
        PROVE  /\ entry'[s].run = entry[s].run
               /\ <<s, entry[s].run>> \in c.moved => entry'[s].place = "shelf"
               /\ <<s, entry[s].run>> \notin c.moved => entry'[s].place = entry[s].place
    <3>1. entry[s] \in RunEntries
      BY <1>2 DEF RunsTyped
    <3>2. entry'[s] = IF <<s, entry[s].run>> \in c.moved THEN [entry[s] EXCEPT !.place = "shelf"]
                      ELSE entry[s]
      BY <2>1, <2>2 DEF Follow
    <3> QED
      BY <3>1, <3>2 DEF RunEntries
  <2>4. ShelvedIsMoved'
    BY <1>2, <2>1, <2>2, <2>3 DEF Unharmed, ShelvedIsMoved
  <2>5. ASSUME NEW s \in Logged, entry'[s].place = "flat"
        PROVE  <<s, entry'[s].run>> \in flat'
               \/ \E q \in Clerks : <<s, entry'[s].run>> \in clerk'[q].moved
    <3>1. entry[s].place = "flat" /\ <<s, entry[s].run>> \notin c.moved
      BY <2>3, <2>5
    <3>2. <<s, entry[s].run>> \in flat
          \/ \E q \in Clerks \ {p} : <<s, entry[s].run>> \in clerk[q].moved
      BY <1>2, <3>1 DEF Unharmed, FlatIsThere
    <3> QED
      BY <1>3, <2>1, <2>3, <3>2 DEF Same
  <2>6. NamesNewest'
    BY <1>2, <2>1, <2>3 DEF Unharmed, NamesNewest
  <2>7. ASSUME NEW q \in Clerks, clerk'[q].at = "begun"
        PROVE  clerk'[q].run <= entry'[clerk'[q].step].run
    <3>1. q # p /\ Same(clerk'[q], clerk[q])
      BY <1>3, <2>1, <2>7
    <3>2. clerk[q].at = "begun" /\ clerk'[q].run = clerk[q].run /\ clerk'[q].step = clerk[q].step
      BY <2>7, <3>1 DEF Same
    <3> QED
      BY <1>2, <1>6, <2>3, <3>2 DEF Unharmed, BegunIsNamed
  <2>8. FlatIsThere' /\ BegunIsNamed'
    BY <2>5, <2>7, Zenon DEF FlatIsThere, BegunIsNamed
  <2> QED
    BY <1>1, <2>4, <2>6, <2>8 DEF Unharmed
<1>11. CASE Ending(p)
  <2>1. PICK e : Resaving(p, e) /\ d.at = "saved" /\ \A s \in Logged : e[s].place = c.copy[s].place
    BY <1>11 DEF Ending
  <2>2. /\ UNCHANGED <<flat, opened>> /\ entry' = e /\ ~c.behind /\ c.at # "away"
        /\ \A s \in Logged : e[s].run = c.copy[s].run
    BY <2>1 DEF Resaving
  <2>3. c.copy = entry
    BY <1>2, <2>2 DEF CopiesAgree
  <2>4. \A s \in Logged : entry'[s].run = entry[s].run /\ entry'[s].place = entry[s].place
    BY <2>1, <2>2, <2>3
  <2>5. c.moved = {}
    BY <1>11, <2>1 DEF Ending
  <2>6. FlatIsThere' /\ ShelvedIsMoved' /\ BegunIsNamed'
    BY <1>2, <1>3, <1>6, <2>1, <2>2, <2>4, <2>5, Undisturbed
  <2>7. NamesNewest'
    BY <1>2, <2>2, <2>4 DEF Unharmed, NamesNewest
  <2> QED
    BY <1>1, <2>6, <2>7 DEF Unharmed
<1>12. CASE Beginning(p)
  <2>1. /\ UNCHANGED <<flat, opened>> /\ c.at = "pruned" /\ ~c.behind /\ d.at = "begun"
        /\ d.step = c.step /\ d.run = c.run /\ d.moved = c.moved
        /\ entry'[c.step].run = c.run /\ entry'[c.step].place = "shelf"
        /\ \A s \in Logged \ {c.step} : entry'[s] = c.copy[s]
    BY <1>12 DEF Beginning
  <2>2. c.copy = entry /\ \A s \in Logged : entry[s].run < c.run
    BY <1>2, <2>1 DEF CopiesAgree
  <2>3. c.step \in Logged /\ c.run \in Runs
    BY <1>5, <2>1 DEF Fits
  <2>4. \A s \in Logged : entry[s].run <= entry'[s].run
    BY <1>0, <1>4, <2>1, <2>2, <2>3 DEF Runs
  <2>5. \A s \in Logged : entry'[s].run \in 0..MaxRuns
    BY <1>0, <1>4, <2>1, <2>2, <2>3 DEF Runs
  <2>6. <<c.step, c.run>> \notin flat
    BY <1>0, <1>2, <1>4, <2>2, <2>3 DEF Unharmed, NamesNewest, Runs
  <2>7. NamesNewest'
    BY <1>0, <1>2, <1>4, <2>1, <2>4, <2>5 DEF Unharmed, NamesNewest, Runs
  <2>8. ASSUME NEW q \in Clerks, clerk'[q].at = "begun"
        PROVE  clerk'[q].run <= entry'[clerk'[q].step].run
    <3>1. ASSUME q # p
          PROVE  clerk'[q].run <= entry'[clerk'[q].step].run
      <4>1. clerk[q].at = "begun" /\ clerk'[q].run = clerk[q].run /\ clerk'[q].step = clerk[q].step
        BY <1>3, <2>8, <3>1 DEF Same
      <4>2. clerk[q].step \in Logged /\ clerk[q].run \in Runs
            /\ clerk[q].run <= entry[clerk[q].step].run
        BY <1>2, <1>5, <4>1 DEF Unharmed, BegunIsNamed, Fits
      <4> QED
        BY <1>0, <1>4, <2>4, <2>5, <4>1, <4>2 DEF Runs
    <3>2. c.run <= entry'[c.step].run
      BY <1>0, <2>1, <2>3 DEF Runs
    <3> QED
      BY <2>1, <3>1, <3>2
  <2>9. ShelvedIsMoved'
    BY <1>2, <2>1, <2>2, <2>6 DEF Unharmed, ShelvedIsMoved
  <2>10. ASSUME NEW s \in Logged, entry'[s].place = "flat"
        PROVE  <<s, entry'[s].run>> \in flat'
               \/ \E q \in Clerks : <<s, entry'[s].run>> \in clerk'[q].moved
    <3>1. entry'[s] = entry[s]
      BY <2>1, <2>2, <2>10
    <3>2. \A q \in Clerks : clerk'[q].moved = clerk[q].moved
      BY <1>3, <2>1 DEF Same
    <3> QED
      BY <1>2, <2>1, <2>10, <3>1, <3>2 DEF Unharmed, FlatIsThere
  <2>11. FlatIsThere' /\ BegunIsNamed'
    BY <2>8, <2>10, Zenon DEF FlatIsThere, BegunIsNamed
  <2> QED
    BY <1>1, <2>7, <2>9, <2>11 DEF Unharmed
<1>13. CASE Opening(p)
  <2>1. /\ UNCHANGED <<entry, flat>> /\ c.at = "begun" /\ d.at # "begun" /\ d.moved = c.moved
        /\ opened' = opened \cup {<<c.step, c.run>>}
    BY <1>13 DEF Opening
  <2>2. FlatIsThere' /\ ShelvedIsMoved' /\ BegunIsNamed'
    BY <1>2, <1>3, <1>6, <2>1, Undisturbed
  <2>3. c.run <= entry[c.step].run
    BY <1>2, <2>1 DEF Unharmed, BegunIsNamed
  <2>4. NamesNewest'
    BY <1>2, <2>1, <2>3 DEF Unharmed, NamesNewest
  <2> QED
    BY <1>1, <2>2, <2>4 DEF Unharmed
<1> QED
  BY <1>1, <1>8, <1>9, <1>10, <1>11, <1>12, <1>13 DEF Work

(* The logs, the records and the copies stay as they should be.            *)
LEMMA RunsGoOn == RunsInv /\ [HistoryNext]_historyVars => RunsInv'
<1> SUFFICES ASSUME RunsInv, [HistoryNext]_historyVars PROVE RunsInv'
  OBVIOUS
<1>1. RunsTyped /\ CopiesAgree /\ LogsKept
  BY DEF RunsInv
<1>2. CASE HistoryNext
  <2>1. PICK p \in Clerks : Work(p)
    BY <1>1, <1>2, EveryStep
  <2>2. RunsTyped' /\ CopiesAgree' /\ LogsKept'
    BY <1>1, <2>1, RunsStayTyped, CopiesStay, LogsStay
  <2>3. mishaps' = {} => Unharmed'
    BY <2>1, UnharmedStays
  <2> QED
    BY <2>2, <2>3 DEF RunsInv
<1>3. CASE UNCHANGED historyVars
  <2>1. UNCHANGED <<entry, shelf, flat, clerk, ran, opened, mishaps>>
    BY <1>3 DEF historyVars
  <2>2. RunsTyped'
    BY <1>1, <2>1 DEF RunsTyped, Fits, Upto
  <2>3. CopiesAgree' /\ LogsKept'
    BY <1>1, <2>1 DEF CopiesAgree, LogsKept, NewestAreKept
  <2>4. mishaps' = {} => Unharmed'
    BY <2>1 DEF RunsInv, Unharmed, NamesNewest, FlatIsThere, ShelvedIsMoved, BegunIsNamed
  <2> QED
    BY <2>2, <2>3, <2>4 DEF RunsInv
<1> QED
  BY <1>2, <1>3

(* Of an old layout, too, each record names the last log of its step.      *)
LEMMA RunsBegin == HistoryInit => RunsInv
<1> SUFFICES ASSUME HistoryInit PROVE RunsInv
  OBVIOUS
<1>1. MaxRuns \in Nat
  BY HistoryAssumption
<1>2. PICK old \in SUBSET OldRuns :
        /\ flat = old /\ opened = old
        /\ entry = [s \in Logged |->
               LET theirs == {o \in old : o[1] = s}
               IN IF theirs = {} THEN Pending
                  ELSE [status |-> "ended", run |-> Max({o[2] : o \in theirs}), place |-> "flat"]]
        /\ ran = Max({o[2] : o \in OldRuns} \cup {0})
  BY DEF HistoryInit
<1>3. \A o \in OldRuns : o[1] \in Logged /\ o[2] \in Runs /\ o = <<o[1], o[2]>>
  BY HistoryAssumption DEF Runs
<1>4. ran \in 0..MaxRuns /\ \A o \in OldRuns : o[2] <= ran
  <2> DEFINE all == {o[2] : o \in OldRuns} \cup {0}
  <2>1. all \in SUBSET Nat /\ all # {} /\ \A n \in all : n <= MaxRuns
    BY <1>1, <1>3 DEF Runs
  <2>2. \A o \in OldRuns : o[2] \in all
    OBVIOUS
  <2>3. ran = Max(all)
    BY <1>2
  <2> HIDE DEF all
  <2>4. Max(all) \in all /\ \A n \in all : n <= Max(all)
    BY <1>1, <2>1, Largest
  <2>5. ran \in all /\ \A n \in all : n <= ran
    BY <2>3, <2>4
  <2>6. ran \in Nat /\ ran <= MaxRuns
    BY <2>1, <2>5
  <2> QED
    <3>1. \A o \in OldRuns : o[2] <= ran
      BY <2>2, <2>5
    <3> QED
      BY <1>1, <2>6, <3>1
<1>5. ASSUME NEW s \in Logged
      PROVE  /\ entry[s] \in RunEntries /\ entry[s].place \in {"none", "flat"}
             /\ entry[s].place = "flat" => <<s, entry[s].run>> \in flat
             /\ entry[s].run <= ran
             /\ \A n \in Runs : <<s, n>> \in flat => n <= entry[s].run
  <2> DEFINE ours == {o \in old : o[1] = s}  numbers == {o[2] : o \in ours}
  <2>1. CASE ours = {}
    <3>1. entry[s] = Pending
      BY <1>2, <2>1
    <3>2. \A n \in Runs : <<s, n>> \notin flat
      BY <1>2, <2>1
    <3> QED
      BY <1>1, <1>4, <3>1, <3>2 DEF Pending, RunEntries
  <2>2. CASE ours # {}
    <3>1. entry[s] = [status |-> "ended", run |-> Max(numbers), place |-> "flat"]
      BY <1>2, <2>2
    <3>2. numbers \in SUBSET Nat /\ numbers # {} /\ \A n \in numbers : n <= MaxRuns
      BY <1>1, <1>3, <2>2 DEF Runs
    <3>3. \A n : n \in numbers <=> <<s, n>> \in old
      BY <1>3
    <3> HIDE DEF numbers, ours
    <3>4. Max(numbers) \in numbers /\ \A n \in numbers : n <= Max(numbers)
      BY <1>1, <3>2, Largest
    <3> DEFINE last == Max(numbers)
    <3>5. <<s, last>> \in flat /\ last \in Runs /\ last <= ran
      BY <1>2, <1>3, <1>4, <3>3, <3>4
    <3>6. \A n \in Runs : <<s, n>> \in flat => n <= last
      BY <1>2, <3>3, <3>4
    <3>7. entry[s] = [status |-> "ended", run |-> last, place |-> "flat"]
      BY <3>1
    <3> HIDE DEF last
    <3> QED
      BY <1>1, <3>5, <3>6, <3>7 DEF RunEntries, Runs
  <2> QED
    BY <2>1, <2>2
<1>6. /\ shelf = {} /\ clerk = [p \in Clerks |-> Away] /\ mishaps = {}
      /\ \A p \in Clerks : clerk[p] = Away
  BY DEF HistoryInit
<1>7. RunsTyped
  <2>1. entry \in [Logged -> RunEntries] /\ Upto(entry, ran)
    BY <1>2, <1>5 DEF Upto
  <2>2. flat \subseteq Logs /\ shelf \subseteq Logs /\ opened \subseteq Logs
    BY <1>2, <1>3, <1>6 DEF Runs, Logs
  <2>3. clerk \in [Clerks -> Seats]
    BY <1>6, AwayIsASeat
  <2>4. Fits(Away)
    BY <1>4, AwayIsASeat DEF Fits, Upto
  <2> QED
    BY <1>4, <1>6, <2>1, <2>2, <2>3, <2>4 DEF RunsTyped
<1>8. CopiesAgree
  BY <1>6, AwayIsASeat DEF CopiesAgree
<1>9. LogsKept
  <2>1. flat \cup shelf \subseteq opened /\ shelf \cup flat = opened
    BY <1>2, <1>6
  <2> QED
    BY <2>1 DEF LogsKept, NewestAreKept, Retain
<1>10. Unharmed
  <2>1. NamesNewest
    BY <1>2, <1>5 DEF NamesNewest
  <2>2. FlatIsThere /\ ShelvedIsMoved
    BY <1>5 DEF FlatIsThere, ShelvedIsMoved
  <2>3. BegunIsNamed
    BY <1>6, AwayIsASeat DEF BegunIsNamed
  <2> QED
    BY <2>1, <2>2, <2>3 DEF Unharmed
<1> QED
  BY <1>7, <1>8, <1>9, <1>10 DEF RunsInv

(* The newest log of a step is kept, so that a record which names it finds *)
(* it; and only what is not in the old layout any more is said not to be.  *)
LEMMA NamedIsThere == ASSUME RunsInv PROVE NamedLogIsThere
<1>1. NewestAreKept
  BY DEF RunsInv, LogsKept
<1>2. ASSUME mishaps = {}, NEW s \in Logged, entry[s].place = "flat"
      PROVE  <<s, entry[s].run>> \in flat \cup UNION {clerk[p].moved : p \in Clerks}
  <2>1. <<s, entry[s].run>> \in flat \/ \E q \in Clerks : <<s, entry[s].run>> \in clerk[q].moved
    BY <1>2 DEF RunsInv, Unharmed, FlatIsThere
  <2> QED
    BY <2>1
<1>3. ASSUME mishaps = {}, NEW s \in Logged, entry[s].place = "shelf", <<s, entry[s].run>> \in opened
      PROVE  <<s, entry[s].run>> \in shelf
  <2> DEFINE n == entry[s].run  all == RunsOf(opened, s)
  <2>1. n \in Runs /\ all \in SUBSET Runs /\ n \in all
    BY <1>3, RunsAreOf DEF RunsInv, RunsTyped, Logs, RunsOf, Runs
  <2>2. \A m \in all : m <= n
    BY <1>3, <2>1 DEF RunsInv, Unharmed, NamesNewest, RunsOf
  <2> HIDE DEF n, all
  <2>3. n \in Retain(all)
    BY <2>1, <2>2, LastIsRetained
  <2>4. <<s, n>> \in shelf \cup flat
    BY <1>1, <2>3 DEF NewestAreKept, all, RunsOf
  <2>5. <<s, n>> \notin flat
    BY <1>3 DEF RunsInv, Unharmed, ShelvedIsMoved, n
  <2> QED
    BY <2>4, <2>5 DEF n
<1>4. mishaps = {} => RecordsNameLogs
  BY <1>2, <1>3 DEF RecordsNameLogs
<1> QED
  BY <1>1, <1>4 DEF NamedLogIsThere

(* The newest logs are kept; and short of a command that ends between a    *)
(* move and its save, and of a copy saved over a later one, each record    *)
(* finds the log it names: for any steps, commands, old logs and runs.     *)
THEOREM NamedLogIsAlwaysThere == HistorySpec => []NamedLogIsThere
<1>1. RunsInv => NamedLogIsThere
  BY NamedIsThere
<1> QED
  BY <1>1, RunsBegin, RunsGoOn, PTL DEF HistorySpec

-----------------------------------------------------------------------------
(* A history is lines, and none before there is a file of it.              *)
Chronicle(h) ==
    /\ h.exists \in BOOLEAN
    /\ \E Lines : h.lines \in Seq(Lines)
    /\ ~h.exists => h.lines = <<>>

(* What comes after a history begins with it.                              *)
GrownTo(h, later) ==
    /\ h.exists => later.exists
    /\ IsPrefix(h.lines, later.lines)

(* Who begins a history and was not overtaken finds it as it was.          *)
UpToDate ==
    \A p \in Clerks : ~clerk[p].late =>
        /\ clerk[p].at = "seeding" => ~history.exists
        /\ clerk[p].at = "writing" => history.lines = <<>>

(* Every sequence begins with no line.                                     *)
LEMMA NothingBeginsAll ==
  ASSUME NEW Lines, NEW t \in Seq(Lines) PROVE IsPrefix(<<>>, t)
<1>1. Len(<<>>) = 0 /\ Len(t) \in Nat
  OBVIOUS
<1>2. SubSeq(<<>>, 1, 0) = <<>> /\ SubSeq(t, 1, 0) = <<>>
  OBVIOUS
<1> QED
  BY <1>1, <1>2 DEF IsPrefix

(* A history left alone is a beginning of itself.                          *)
LEMMA StaysGrown == ASSUME NEW h, Chronicle(h) PROVE GrownTo(h, h)
<1>1. PICK Lines : h.lines \in Seq(Lines)
  BY DEF Chronicle
<1>2. IsPrefix(h.lines, h.lines)
  BY <1>1 DEF IsPrefix
<1> QED
  BY <1>2 DEF GrownTo

(* A line more leaves those before it.                                     *)
LEMMA AppendedGrows ==
  ASSUME NEW h, Chronicle(h), NEW line
  PROVE  Chronicle(Appended(h, line)) /\ GrownTo(h, Appended(h, line))
<1>1. PICK Lines : h.lines \in Seq(Lines)
  BY DEF Chronicle
<1> DEFINE old == h.lines  new == Append(old, line)  n == Len(old)
           More == Lines \cup {line}
<1>2. /\ Appended(h, line).exists = TRUE /\ Appended(h, line).lines = new
  BY DEF Appended
<1>3. old \in Seq(More) /\ line \in More /\ n \in Nat
  BY <1>1
<1> HIDE DEF More, old
<1>4. new \in Seq(More) /\ Len(new) = n + 1 /\ \A i \in 1..n : new[i] = old[i]
  BY <1>3
<1> HIDE DEF new, n
<1>5. SubSeq(old, 1, n) = SubSeq(new, 1, n)
  <2>1. /\ SubSeq(old, 1, n) = [i \in 1..n |-> old[i]]
        /\ SubSeq(new, 1, n) = [i \in 1..n |-> new[i]]
    BY <1>3, <1>4 DEF n
  <2> QED
    BY <1>4, <2>1
<1>6. IsPrefix(old, new)
  BY <1>3, <1>4, <1>5 DEF IsPrefix, n
<1> QED
  BY <1>2, <1>4, <1>6 DEF GrownTo, Chronicle, old

(* What a copy remembers is a sequence of lines.                           *)
LEMMA SeedsAreLines == ASSUME NEW copy PROVE \E Lines : Seeds(copy) \in Seq(Lines)
<1> DEFINE known == {t \in Logged : copy[t].run > 0}
           lines == {LineOf(s, copy[s]) : s \in known}
           seeds == InOrder(lines)
<1>1. Cardinality(lines) \in Nat
  <2>1. IsFiniteSet(known)
    BY HistoryAssumption, FS_Subset
  <2> DEFINE write == [s \in known |-> LineOf(s, copy[s])]
  <2>2. write \in Surjection(known, lines)
    BY DEF Surjection
  <2> HIDE DEF known, lines, write
  <2>3. IsFiniteSet(lines)
    BY <2>1, <2>2, FS_Surjection DEF ExistsSurjection
  <2> QED
    BY <2>3, FS_CardinalityType
<1>2. \E Lines : seeds \in Seq(Lines)
  <2> HIDE DEF lines
  <2> DEFINE n == Cardinality(lines)
             Th(i) == CHOOSE line \in lines : Cardinality({l \in lines : l.run < line.run}) = i - 1
  <2>1. seeds = [i \in 1..n |-> Th(i)]
    BY DEF InOrder
  <2> HIDE DEF Th
  <2>2. seeds = [i \in 1..n |-> seeds[i]]
    BY <2>1
  <2> HIDE DEF seeds, n
  <2>3. seeds \in [1..n -> {seeds[i] : i \in 1..n}] /\ n \in Nat
    BY <1>1, <2>2 DEF n
  <2>4. seeds \in Seq({seeds[i] : i \in 1..n})
    BY <2>3
  <2> QED
    BY <2>4
<1> QED
  BY <1>2 DEF Seeds

(* A history begun over another is of lines; over none, it has only more.  *)
LEMMA SeededOver ==
  ASSUME NEW h, Chronicle(h), NEW copy, NEW later, later.exists = TRUE,
         later.lines = Seeds(copy) \o SubSeq(h.lines, Len(Seeds(copy)) + 1, Len(h.lines))
  PROVE  Chronicle(later) /\ (h.lines = <<>> => GrownTo(h, later))
<1>1. PICK Old : h.lines \in Seq(Old)
  BY DEF Chronicle
<1>2. PICK New : Seeds(copy) \in Seq(New)
  BY SeedsAreLines
<1> DEFINE All == Old \cup New  seeds == Seeds(copy)  lines == h.lines
           rest == SubSeq(lines, Len(seeds) + 1, Len(lines))
<1>3. seeds \in Seq(All) /\ lines \in Seq(All) /\ Len(seeds) \in Nat /\ Len(lines) \in Nat
  BY <1>1, <1>2
<1> HIDE DEF All, seeds, lines
<1>4. rest \in Seq(All)
  <2>1. \A i \in Len(seeds) + 1 .. Len(lines) : i \in 1..Len(lines)
    BY <1>3
  <2> QED
    BY <1>3, <2>1, SubSeqProperties
<1>5. later.lines \in Seq(All)
  BY <1>3, <1>4, ConcatProperties DEF seeds, lines
<1>6. IsPrefix(<<>>, later.lines)
  BY <1>5, NothingBeginsAll
<1> QED
  BY <1>5, <1>6 DEF Chronicle, GrownTo, lines

(* What is done beside the history leaves it, and who looks for one.       *)
Beside(p) ==
    /\ UNCHANGED history
    /\ \A q \in Clerks \ {p} : clerk'[q].at = clerk[q].at /\ clerk'[q].late = clerk[q].late
    /\ \/ clerk'[p].at \notin {"seeding", "writing"}
       \/ clerk'[p].at = "seeding" /\ ~history.exists

LEMMA OthersStay ==
  ASSUME RunsTyped, NEW p \in Clerks, NEW c, Becomes(p, c) \/ Saves(p, c)
  PROVE  \A q \in Clerks \ {p} : clerk'[q].at = clerk[q].at /\ clerk'[q].late = clerk[q].late
<1>1. clerk \in [Clerks -> Seats]
  BY DEF RunsTyped
<1>2. CASE Becomes(p, c)
  BY <1>1, <1>2 DEF Becomes
<1>3. CASE Saves(p, c)
  <2> DEFINE fallen(q) == [clerk[q] EXCEPT !.behind = clerk[q].at # "away"]
           own == [c EXCEPT !.behind = FALSE]
  <2>1. clerk' = [q \in Clerks |-> IF q = p THEN own ELSE fallen(q)]
    BY <1>3, Zenon DEF Saves
  <2>2. \A q \in Clerks : fallen(q).at = clerk[q].at /\ fallen(q).late = clerk[q].late
    BY <1>1, Zenon DEF Seats
  <2> HIDE DEF fallen, own
  <2>3. \A q \in Clerks \ {p} : clerk'[q] = fallen(q)
    BY <2>1
  <2> QED
    BY <2>2, <2>3
<1> QED
  BY <1>2, <1>3

(* The others are overtaken by who writes, if they are to write.           *)
LEMMA OthersAreLate ==
  ASSUME RunsTyped, NEW p \in Clerks, NEW c, NEW h, Writes(p, c, h)
  PROVE  /\ history' = h /\ clerk'[p] = c
         /\ \A q \in Clerks \ {p} : clerk'[q].at = clerk[q].at
                                    /\ (clerk'[q].late <=> clerk[q].late \/ Seeding(q))
<1>1. clerk \in [Clerks -> Seats]
  BY DEF RunsTyped
<1> DEFINE later(q) == [clerk[q] EXCEPT !.late = clerk[q].late \/ Seeding(q)]
<1>2. clerk' = [q \in Clerks |-> IF q = p THEN c ELSE later(q)] /\ history' = h
  BY DEF Writes
<1>3. ASSUME NEW q \in Clerks
      PROVE  later(q).at = clerk[q].at /\ (later(q).late <=> clerk[q].late \/ Seeding(q))
  <2>1. PICK b \in BOOLEAN : b = (clerk[q].late \/ Seeding(q))
    OBVIOUS
  <2>2. [clerk[q] EXCEPT !.late = b].at = clerk[q].at /\ [clerk[q] EXCEPT !.late = b].late = b
    BY <1>1, Zenon DEF Seats
  <2> QED
    BY <2>1, <2>2
<1> HIDE DEF later
<1>4. clerk'[p] = c /\ \A q \in Clerks \ {p} : clerk'[q] = later(q)
  BY <1>2
<1> QED
  BY <1>2, <1>3, <1>4

LEMMA StepsBeside ==
  ASSUME RunsTyped, NEW p \in Clerks,
         \/ ReadState(p) \/ \E s \in Logged \cup {"none"} : ListFlat(p, s)
         \/ MoveLog(p) \/ MissLog(p) \/ SaveMoved(p) \/ LookForHistory(p)
         \/ RefreshLinks(p) \/ NameLog(p) \/ Prune(p) \/ BeginRun(p)
         \/ OpenLog(p) \/ EndRun(p) \/ PurgeUndoes(p) \/ ClerkEnds(p)
  PROVE  Beside(p)
<1> DEFINE c == clerk[p]
<1>1. c \in Seats /\ Away.at = "away"
  BY AwayIsASeat DEF RunsTyped
<1>2. UNCHANGED history /\ \E d : Becomes(p, d) \/ Saves(p, d)
  BY Zenon DEF ReadState, ListFlat, MoveLog, MissLog, SaveMoved, LookForHistory, RefreshLinks,
       NameLog, Prune, BeginRun, OpenLog, EndRun, PurgeUndoes, ClerkEnds, GoesAway
<1>3. \A q \in Clerks \ {p} : clerk'[q].at = clerk[q].at /\ clerk'[q].late = clerk[q].late
  BY <1>2, OthersStay
<1>4. ASSUME NEW d, Becomes(p, d) PROVE clerk'[p] = d
  BY <1>4 DEF Becomes, RunsTyped
<1>5. CASE MoveLog(p) \/ MissLog(p) \/ ClerkEnds(p) \/ SaveMoved(p) \/ NameLog(p) \/ Prune(p)
           \/ BeginRun(p) \/ OpenLog(p) \/ EndRun(p) \/ PurgeUndoes(p)
  <2>1. clerk'[p].at \in {"moving", "away", "looking", "named", "pruned", "begun", "logging", "saved"}
    <3>1. CASE MissLog(p) \/ ClerkEnds(p)
      BY <1>1, <3>1, LeavingSteps DEF MissLog, ClerkEnds, Leaving
    <3>2. CASE MoveLog(p) \/ SaveMoved(p) \/ EndRun(p) \/ PurgeUndoes(p)
      BY <3>2, MovingSteps, FollowingSteps, EndingSteps DEF Moving, Following, Ending
    <3>3. CASE NameLog(p) \/ Prune(p) \/ BeginRun(p) \/ OpenLog(p)
      BY <3>3, RunningSteps DEF Naming, Pruning, Beginning, Opening
    <3> QED
      BY <1>5, <3>1, <3>2, <3>3
  <2> QED
    BY <1>2, <1>3, <2>1 DEF Beside
<1>6. CASE ReadState(p)
  <2> DEFINE d == [Away EXCEPT !.at = "ready", !.copy = entry]
  <2>1. Becomes(p, d)
    BY <1>6, Zenon DEF ReadState
  <2>2. d.at = "ready"
    BY AwayIsASeat, Zenon DEF Seats
  <2> HIDE DEF d
  <2> QED
    BY <1>2, <1>3, <1>4, <2>1, <2>2 DEF Beside
<1>7. ASSUME NEW s \in Logged \cup {"none"}, ListFlat(p, s) PROVE Beside(p)
  <2> DEFINE d == [c EXCEPT !.at = IF flat = {} THEN "looking" ELSE "moving",
                            !.step = s, !.list = flat]
  <2>1. Becomes(p, d)
    BY <1>7, Zenon DEF ListFlat
  <2>2. d.at \in {"looking", "moving"}
    BY <1>1, Zenon DEF Seats
  <2> HIDE DEF d
  <2> QED
    BY <1>2, <1>3, <1>4, <2>1, <2>2 DEF Beside
<1>8. CASE LookForHistory(p)
  <2> DEFINE d == [c EXCEPT !.at = "seeding"]
  <2>1. Becomes(p, d) /\ ~history.exists
    BY <1>8, Zenon DEF LookForHistory, Unseeded
  <2>2. d.at = "seeding"
    BY <1>1, Zenon DEF Seats
  <2> HIDE DEF d
  <2> QED
    BY <1>2, <1>3, <1>4, <2>1, <2>2 DEF Beside
<1>9. CASE RefreshLinks(p)
  <2>1. Becomes(p, Away)
    BY <1>9, Zenon DEF RefreshLinks
  <2> QED
    BY <1>1, <1>2, <1>3, <1>4, <2>1 DEF Beside
<1> QED
  BY <1>5, <1>6, <1>7, <1>8, <1>9

(* No step rewrites a line, or takes the file away, but of who is late.    *)
Grown(p) ==
    /\ Chronicle(history') /\ UpToDate'
    /\ GrownTo(history, history') \/ (clerk[p].late /\ clerk'[p] # clerk[p])

LEMMA StepGrows ==
  ASSUME RunsTyped, Chronicle(history), UpToDate, NEW p \in Clerks,
         Beside(p) \/ OpenHistory(p) \/ SeedHistory(p) \/ RememberRun(p)
  PROVE  Grown(p)
<1> DEFINE c == clerk[p]
<1>1. c \in Seats
  BY DEF RunsTyped
<1>2. CASE Beside(p)
  <2>1. history' = history
    BY <1>2 DEF Beside
  <2>2. UpToDate'
    BY <1>2, <2>1 DEF Beside, UpToDate
  <2> QED
    BY <2>1, <2>2, StaysGrown DEF Grown
<1>3. ASSUME NEW d, NEW h, Writes(p, d, h), d.at \in {"looking", "ready"} \/ (d.at = "writing" /\ h.lines = <<>>)
      PROVE  history' = h /\ clerk'[p] = d /\ UpToDate'
  BY <1>3, OthersAreLate DEF UpToDate, Seeding
<1>4. CASE OpenHistory(p)
  <2> DEFINE d == [c EXCEPT !.at = "writing"]  h == [exists |-> TRUE, lines |-> <<>>]
  <2>1. c.at = "seeding" /\ Writes(p, d, h)
    BY <1>4, Zenon DEF OpenHistory
  <2>2. d.at = "writing" /\ h.lines = <<>> /\ h.exists = TRUE
    BY <1>1, Zenon DEF Seats
  <2> HIDE DEF d, h
  <2>3. history' = h /\ clerk'[p] = d /\ UpToDate'
    BY <1>3, <2>1, <2>2
  <2>4. Chronicle(h)
    <3>1. <<>> \in Seq({})
      OBVIOUS
    <3> QED
      BY <2>2, <3>1, Zenon DEF Chronicle
  <2>5. ~c.late => GrownTo(history, h)
    <3>1. ~c.late => ~history.exists /\ history.lines = <<>>
      BY <2>1 DEF UpToDate, Chronicle
    <3>2. IsPrefix(<<>>, h.lines)
      BY <2>4, NothingBeginsAll DEF Chronicle
    <3> QED
      BY <3>1, <3>2 DEF GrownTo
  <2> QED
    BY <2>1, <2>2, <2>3, <2>4, <2>5 DEF Grown
<1>5. CASE SeedHistory(p)
  <2> DEFINE d == [c EXCEPT !.at = "looking", !.late = FALSE]  seeds == Seeds(c.copy)
             h == [exists |-> TRUE,
                   lines |-> seeds \o SubSeq(history.lines, Len(seeds) + 1, Len(history.lines))]
  <2>1. c.at = "writing" /\ Writes(p, d, h)
    BY <1>5, Zenon DEF SeedHistory
  <2>2. /\ d.at = "looking" /\ h.exists = TRUE
        /\ h.lines = seeds \o SubSeq(history.lines, Len(seeds) + 1, Len(history.lines))
    BY <1>1, Zenon DEF Seats
  <2> HIDE DEF d, h
  <2>3. history' = h /\ clerk'[p] = d /\ UpToDate'
    BY <1>3, <2>1, <2>2
  <2>4. Chronicle(h) /\ (history.lines = <<>> => GrownTo(history, h))
    BY <2>2, SeededOver
  <2>5. ~c.late => history.lines = <<>>
    BY <2>1 DEF UpToDate
  <2> QED
    BY <2>1, <2>2, <2>3, <2>4, <2>5 DEF Grown
<1>6. CASE RememberRun(p)
  <2> DEFINE d == [c EXCEPT !.at = "ready", !.step = "none", !.run = 0]
             line == LineOf(c.step, c.copy[c.step])
  <2>1. Writes(p, d, Appended(history, line))
    BY <1>6, Zenon DEF RememberRun
  <2>2. d.at = "ready"
    BY <1>1, Zenon DEF Seats
  <2> HIDE DEF d, line
  <2>3. history' = Appended(history, line) /\ UpToDate'
    BY <1>3, <2>1, <2>2
  <2> QED
    BY <2>3, AppendedGrows DEF Grown
<1> QED
  BY <1>2, <1>4, <1>5, <1>6

LEMMA EveryStepGrows ==
  ASSUME RunsTyped, Chronicle(history), UpToDate, HistoryNext PROVE \E p \in Clerks : Grown(p)
<1>1. PICK p \in Clerks :
        \/ ReadState(p) \/ \E s \in Logged \cup {"none"} : ListFlat(p, s)
        \/ MoveLog(p) \/ MissLog(p) \/ SaveMoved(p)
        \/ LookForHistory(p) \/ OpenHistory(p) \/ SeedHistory(p)
        \/ RefreshLinks(p) \/ NameLog(p) \/ Prune(p) \/ BeginRun(p)
        \/ OpenLog(p) \/ EndRun(p) \/ PurgeUndoes(p) \/ RememberRun(p) \/ ClerkEnds(p)
  BY Zenon DEF HistoryNext
<1> QED
  BY <1>1, StepsBeside, StepGrows

(* The history is append-only, whoever runs, dies, purges or reads, but    *)
(* for who was overtaken while about to begin it.                          *)
THEOREM HistoryAlwaysGrows == HistorySpec => HistoryGrows
<1> DEFINE Inv == RunsInv /\ Chronicle(history) /\ UpToDate
<1>1. HistoryInit => Inv
  <2>1. HistoryInit => Chronicle(history)
    BY DEF HistoryInit, Chronicle
  <2>2. HistoryInit => UpToDate
    BY AwayIsASeat DEF HistoryInit, UpToDate
  <2> QED
    BY <2>1, <2>2, RunsBegin
<1>2. Inv /\ [HistoryNext]_historyVars => Inv'
  <2> SUFFICES ASSUME Inv, [HistoryNext]_historyVars PROVE Inv'
    OBVIOUS
  <2>1. CASE HistoryNext
    BY <2>1, RunsGoOn, EveryStepGrows DEF RunsInv, Grown
  <2>2. CASE UNCHANGED historyVars
    BY <2>2, RunsGoOn DEF historyVars, Chronicle, UpToDate
  <2> QED
    BY <2>1, <2>2
<1>3. Inv /\ [HistoryNext]_historyVars
        => [\/ /\ history.exists => history'.exists
               /\ IsPrefix(history.lines, history'.lines)
            \/ \E p \in Clerks : clerk[p].late /\ clerk'[p] # clerk[p]]_historyVars
  BY EveryStepGrows DEF RunsInv, Grown, GrownTo
<1> QED
  BY <1>1, <1>2, <1>3, PTL DEF HistorySpec, HistoryGrows

-----------------------------------------------------------------------------
(* What a step may stand as.                                               *)
Statuses == {"pending", "running", "done", "failed", "stale"}

(* An outcome that is still to be announced has come about since the last  *)
(* one announced.                                                          *)
Owed(s) ==
    /\ (noticed[s] # Unsaid /\ noticed[s] = "running" /\ stands[s] \in {"done", "stale"})
         => told[s]["done"] < happened[s]["done"]
    /\ (noticed[s] # Unsaid /\ noticed[s] # "failed" /\ stands[s] = "failed")
         => told[s]["failed"] < happened[s]["failed"]

(* Nothing is announced that did not happen, or twice.                     *)
NewsInv ==
    /\ stands \in [Jobs -> Statuses] /\ noticed \in [Jobs -> Statuses \cup {Unsaid}]
    /\ told \in [Jobs -> [Outcomes -> Nat]] /\ happened \in [Jobs -> [Outcomes -> Nat]]
    /\ AnnouncedIsNews
    /\ \A s \in Jobs : Owed(s)

(* What is in the pane was read, up to where it was read.                  *)
PaneInv ==
    /\ log \in Seq([pieces : Nat, exists : BOOLEAN])
    /\ following \in 0..Len(log) /\ offset \in Nat
    /\ PaneIsTheLog

(* The news, the pane and the answer of the server, side by side.          *)
WatchingInv == NewsInv /\ PaneInv /\ SilenceIsNotNo

(* Neither what the engine does nor what the console announces makes an    *)
(* outcome said more often than it was.                                    *)
LEMMA NewsGoOn == ASSUME NewsInv, NewsNext PROVE NewsInv'
<1> USE DEF NewsInv
<1>1. ASSUME NEW s \in Jobs, StepMoves(s) PROVE NewsInv'
  <2>1. UNCHANGED <<noticed, told>>
    BY <1>1 DEF StepMoves
  <2>2. stands' \in [Jobs -> Statuses] /\ happened' \in [Jobs -> [Outcomes -> Nat]]
    BY <1>1 DEF StepMoves, Statuses, Outcomes
  <2>3. \A t \in Jobs : /\ t # s => stands'[t] = stands[t] /\ happened'[t] = happened[t]
                        /\ \A o \in Outcomes : happened[t][o] <= happened'[t][o]
    BY <1>1 DEF StepMoves
  <2>4. AnnouncedIsNews'
    BY <2>1, <2>2, <2>3 DEF AnnouncedIsNews
  <2>5. Owed(s)'
    <3>1. CASE stands[s] = "running" /\ \E o \in Outcomes :
                   /\ stands' = [stands EXCEPT ![s] = o]
                   /\ happened' = [happened EXCEPT ![s][o] = @ + 1]
      BY <2>1, <3>1 DEF Owed, Outcomes, AnnouncedIsNews
    <3>2. CASE UNCHANGED happened /\ stands' = [stands EXCEPT ![s] = "running"]
      BY <2>1, <3>2 DEF Owed
    <3>3. CASE UNCHANGED happened /\ stands' = [stands EXCEPT ![s] = "pending"]
      BY <2>1, <3>3 DEF Owed
    <3>4. CASE /\ UNCHANGED happened /\ stands[s] \in {"done", "stale"}
               /\ stands' = [stands EXCEPT ![s] = IF @ = "done" THEN "stale" ELSE "done"]
      BY <2>1, <3>4 DEF Owed
    <3> QED
      BY <1>1, <3>1, <3>2, <3>3, <3>4 DEF StepMoves
  <2>6. \A t \in Jobs : Owed(t)'
    BY <2>1, <2>3, <2>5 DEF Owed
  <2> QED
    BY <2>1, <2>2, <2>4, <2>6
<1>2. CASE SaveByHalves
  BY <1>2 DEF SaveByHalves, AnnouncedIsNews, Owed
<1>3. CASE RefreshRows
  <2>1. noticed' = stands /\ UNCHANGED <<stands, happened>>
    BY <1>3 DEF RefreshRows
  <2>2. \A s \in Jobs, o \in Outcomes :
          told'[s][o] = told[s][o] + IF stands[s] = o /\ IsNews(noticed[s], o) THEN 1 ELSE 0
    BY <1>3 DEF RefreshRows
  <2>3. told' \in [Jobs -> [Outcomes -> Nat]]
    BY <1>3 DEF RefreshRows
  <2>4. AnnouncedIsNews'
    <3> SUFFICES ASSUME NEW s \in Jobs, NEW o \in Outcomes
                 PROVE  told'[s][o] <= happened[s][o]
      BY <2>1 DEF AnnouncedIsNews
    <3>1. told[s][o] \in Nat /\ happened[s][o] \in Nat /\ told[s][o] <= happened[s][o]
      BY DEF AnnouncedIsNews
    <3>2. CASE stands[s] = o /\ IsNews(noticed[s], o)
      BY <2>2, <3>1, <3>2 DEF IsNews, Owed, Outcomes
    <3> QED
      BY <2>2, <3>1, <3>2
  <2>5. \A s \in Jobs : Owed(s)'
    BY <2>1 DEF Owed
  <2>6. noticed' \in [Jobs -> Statuses \cup {Unsaid}]
    BY <2>1
  <2> QED
    BY <2>1, <2>3, <2>4, <2>5, <2>6
<1> QED
  BY <1>1, <1>2, <1>3, NewsNext DEF NewsNext

(* The pane is read on, or begun again with another log.                   *)
LEMMA PaneGoesOn == ASSUME PaneInv, PaneNext PROVE PaneInv'
<1> DEFINE Shown(run, upto) == [i \in 1..upto |-> <<run, i>>]
           Entry == [pieces : Nat, exists : BOOLEAN]
<1>a. /\ log \in Seq(Entry) /\ following \in 0..Len(log) /\ offset \in Nat
      /\ pane = Shown(following, offset)
  BY DEF PaneInv, PaneIsTheLog
<1> HIDE DEF Entry, Shown
<1>b. DOMAIN log = 1..Len(log) /\ Len(log) \in Nat /\ \A r \in 1..Len(log) : log[r] \in Entry
  BY <1>a
<1>c. \A e \in Entry : /\ e.pieces \in Nat /\ [e EXCEPT !.exists = TRUE] \in Entry
                       /\ [e EXCEPT !.exists = FALSE] \in Entry
                       /\ [e EXCEPT !.pieces = @ + 1] \in Entry
  <2> TAKE e \in Entry
  <2>1. e.pieces \in Nat
    BY DEF Entry
  <2>2. [e EXCEPT !.exists = TRUE] \in Entry
    BY DEF Entry
  <2>3. [e EXCEPT !.exists = FALSE] \in Entry
    BY DEF Entry
  <2>4. [e EXCEPT !.pieces = @ + 1] \in Entry
    BY <2>1 DEF Entry
  <2> QED
    BY <2>1, <2>2, <2>3, <2>4
<1>d. ASSUME log' \in Seq(Entry), following' \in 0..Len(log'), offset' \in Nat,
             pane' = Shown(following', offset')
      PROVE  PaneInv'
  BY <1>d DEF PaneInv, PaneIsTheLog, Entry, Shown
<1>1. CASE RunBegins \/ RunWrites \/ RunPruned
  <2>1. UNCHANGED <<following, offset, pane>>
    BY <1>1 DEF RunBegins, RunWrites, RunPruned
  <2>2. log' \in Seq(Entry) /\ Len(log') \in Nat /\ Len(log) <= Len(log')
    <3>1. CASE RunBegins
      <4>1. log' = Append(log, [pieces |-> 0, exists |-> FALSE])
            /\ [pieces |-> 0, exists |-> FALSE] \in Entry
        BY <3>1 DEF RunBegins, Entry
      <4> QED
        BY <1>a, <4>1
    <3>2. CASE RunWrites \/ RunPruned
      <4>1. PICK r \in 1..Len(log) :
              \/ log' = [log EXCEPT ![r] = [log[r] EXCEPT !.pieces = @ + 1]]
              \/ log' = [log EXCEPT ![r] = [log[r] EXCEPT !.exists = TRUE]]
              \/ log' = [log EXCEPT ![r] = [log[r] EXCEPT !.exists = FALSE]]
        BY <1>b, <3>2 DEF RunWrites, RunPruned
      <4>2. PICK e \in Entry : log' = [log EXCEPT ![r] = e]
        BY <1>b, <1>c, <4>1
      <4> QED
        BY <1>a, <1>b, <4>2, ExceptSeq
    <3> QED
      BY <1>1, <3>1, <3>2
  <2> QED
    BY <1>a, <1>b, <1>d, <2>1, <2>2
<1>2. CASE FollowNewest
  <2>1. following' \in 1..Len(log) /\ offset' = 0 /\ pane' = <<>> /\ log' = log
    BY <1>b, <1>2 DEF FollowNewest, Newest
  <2>2. Shown(following', 0) = <<>>
    BY DEF Shown
  <2> QED
    BY <1>a, <1>b, <1>d, <2>1, <2>2
<1>3. CASE TailLog
  <2> DEFINE upto == log[following].pieces
             more == [i \in 1..(upto - offset) |-> <<following, offset + i>>]
  <2>1. /\ following \in 1..Len(log) /\ offset < upto /\ offset' = upto
        /\ pane' = pane \o more /\ UNCHANGED <<log, following>>
    BY <1>a, <1>b, <1>3 DEF TailLog
  <2>2. upto \in Nat
    BY <1>b, <1>c, <2>1
  <2> HIDE DEF upto
  <2>3. pane \o more = Shown(following, upto)
    <3>1. /\ pane = Shown(following, offset) /\ offset \in Nat /\ upto \in Nat /\ offset < upto
          /\ Len(pane) = offset /\ Len(more) = upto - offset
      BY <1>a, <2>1, <2>2 DEF Shown
    <3>2. \A i \in 1..upto : (pane \o more)[i] = <<following, i>>
      <4> TAKE i \in 1..upto
      <4>1. CASE i <= offset
        BY <3>1, <4>1 DEF Shown
      <4>2. CASE offset < i
        BY <3>1, <4>2 DEF Shown
      <4>3. i <= offset \/ offset < i
        BY <3>1
      <4> QED
        BY <4>1, <4>2, <4>3
    <3>3. DOMAIN (pane \o more) = 1..upto /\ pane \o more = [i \in 1..upto |-> (pane \o more)[i]]
      BY <3>1
    <3> QED
      BY <3>2, <3>3 DEF Shown
  <2> QED
    BY <1>a, <1>b, <1>d, <2>1, <2>2, <2>3
<1> QED
  BY <1>1, <1>2, <1>3, PaneNext DEF PaneNext

(* The console says of the work of others only what happened: for any      *)
(* steps, any number of outcomes, logs of any length, and any builds here  *)
(* and on the server.                                                      *)
THEOREM AlwaysSaysWhatHappened == WatchingSpec => []SaysWhatHappened
<1>1. WatchingInit => WatchingInv
  <2> SUFFICES ASSUME WatchingInit PROVE WatchingInv
    OBVIOUS
  <2>1. NewsInv
    BY DEF WatchingInit, NewsInit, NewsInv, Owed, AnnouncedIsNews, NoCount, Statuses, Outcomes
  <2>2. PaneInv
    <3>1. [i \in 1..0 |-> <<0, i>>] = <<>>
      OBVIOUS
    <3> QED
      BY <3>1 DEF WatchingInit, PaneInit, PaneInv, PaneIsTheLog
  <2> QED
    BY <2>1, <2>2 DEF WatchingInit, ServerInit, WatchingInv, SilenceIsNotNo
<1>2. WatchingInv /\ [WatchingNext]_watchingVars => WatchingInv'
  <2> SUFFICES ASSUME WatchingInv, [WatchingNext]_watchingVars PROVE WatchingInv'
    OBVIOUS
  <2>1. NewsInv'
    <3>1. CASE UNCHANGED newsVars
      BY <3>1 DEF newsVars, WatchingInv, NewsInv, Owed, AnnouncedIsNews
    <3> QED
      BY <3>1, NewsGoOn DEF WatchingInv, WatchingNext, watchingVars
  <2>2. PaneInv'
    <3>1. CASE UNCHANGED paneVars
      BY <3>1 DEF paneVars, WatchingInv, PaneInv, PaneIsTheLog
    <3> QED
      BY <3>1, PaneGoesOn DEF WatchingInv, WatchingNext, watchingVars
  <2>3. SilenceIsNotNo'
    <3>1. CASE ServerAnswers
      BY <3>1 DEF ServerAnswers, Compare, SilenceIsNotNo
    <3>2. CASE UNCHANGED <<verdict, heard>>
      BY <3>2 DEF WatchingInv, SilenceIsNotNo
    <3> QED
      BY <3>1, <3>2 DEF WatchingNext, watchingVars, serverVars, ServerNext, BuildHere, ServeThere,
           AskServer
  <2> QED
    BY <2>1, <2>2, <2>3 DEF WatchingInv
<1>3. WatchingInv => SaysWhatHappened
  BY DEF WatchingInv, NewsInv, PaneInv, SaysWhatHappened
<1> QED
  BY <1>1, <1>2, <1>3, PTL DEF WatchingSpec

-----------------------------------------------------------------------------
(* Nothing typed changes what fields there are.                            *)
FormShape ==
    /\ DOMAIN form = {"id", "clock", "path", "point"} /\ DOMAIN disk = Paths
    /\ \/ saving = NotSaving
       \/ DOMAIN saving = {"at", "zone", "box", "held"} /\ saving.at \in {"draft", "city", "area"}
    /\ \/ town = Blank
       \/ DOMAIN town = {"zone", "box", "measured", "area", "held"}

(* What has been written is of what the file in hand held meanwhile.       *)
ZonesOf(held) == {Zone(Middle(d)) : d \in held}
TownSound ==
    /\ {town.zone, town.measured} \subseteq ZonesOf(town.held)
    /\ town.box \in town.held /\ InUse(town.box, town.measured)
    /\ town.area # Blank => town.area \in town.held
TownInv == town # Blank => TownSound

(* A save has read what the file held since it began.                      *)
SavingInv ==
    saving # NotSaving =>
      /\ polygon # Blank /\ disk[polygon].drawing \in saving.held
      /\ saving.zone \in ZonesOf(saving.held)
      /\ saving.at \in {"city", "area"} =>
           saving.box \in saving.held /\ InUse(saving.box, saving.zone)
      /\ saving.at = "area" =>
           /\ DOMAIN town = {"zone", "box", "measured", "area", "held"}
           /\ TownSound /\ town.held \subseteq saving.held

FormInv == FormShape /\ SavingInv /\ TownInv /\ PriceIsOfTheNamed

(* A price stands for the polygon it was asked of.                         *)
LEMMA PriceIsOf ==
  ASSUME NEW f, NEW poly, NEW dsk, PanelOf(f, poly, dsk).kind = "price"
  PROVE  PanelOf(f, poly, dsk).path = poly
<1>1. DraftOf(f, poly, dsk).why # "price" \/ DraftOf(f, poly, dsk).why = Blank
  BY DEF DraftOf, CityCrs, Because, Found, NothingYet, Objection
<1> QED
  BY <1>1 DEF PanelOf

(* A town found in its zones is written in its zone.                       *)
LEMMA TownIsWritten == TownInv => WrittenInItsZone
<1> SUFFICES ASSUME TownInv, town # Blank PROVE WrittenInItsZone
  BY DEF WrittenInItsZone
<1>1. \A z \in ZonesOf(town.held) : \E d \in town.held : z = Zone(Middle(d))
  BY DEF ZonesOf
<1>2. PICK d \in town.held : town.zone = Zone(Middle(d))
  BY <1>1 DEF TownInv, TownSound
<1>3. PICK e \in town.held : town.measured = Zone(Middle(e))
  BY <1>1 DEF TownInv, TownSound
<1>4. ASSUME \A x, y \in town.held : x = y
      PROVE  town.measured = town.zone /\ (town.area # Blank => InUse(town.area, town.zone))
  <2>1. d = e /\ (town.area # Blank => town.area = town.box)
    BY <1>4 DEF TownInv, TownSound
  <2>2. town.measured = town.zone
    BY <1>2, <1>3, <2>1
  <2> QED
    BY <2>1, <2>2 DEF TownInv, TownSound
<1> QED
  BY <1>2, <1>4 DEF WrittenInItsZone, TownInv, TownSound

(* A file written over is one more drawing held.                           *)
LEMMA HeldGrows ==
  ASSUME FormInv, SaveElsewhere
  PROVE  FormShape' /\ SavingInv'
<1>1. PICK path \in TypedPaths \cup {Export}, d \in Drawings :
        /\ Newer(path, d)
        /\ saving' = [saving EXCEPT !.held =
                        IF saving # NotSaving /\ path = polygon THEN @ \cup {d} ELSE @]
  BY DEF SaveElsewhere
<1>2. UNCHANGED <<form, polygon, town>> /\ path \in Paths
  BY DEF SaveElsewhere, Paths
<1>3. PICK stamp : disk' = [disk EXCEPT ![path] = [stamp |-> stamp, drawing |-> d]]
  BY <1>1 DEF Newer
<1>4. /\ DOMAIN disk' = Paths /\ disk'[path].drawing = d
      /\ polygon # path => disk'[polygon] = disk[polygon]
  BY <1>2, <1>3 DEF FormInv, FormShape
<1>5. CASE saving = NotSaving
  <2>1. saving' = NotSaving
    BY <1>1, <1>5 DEF NotSaving
  <2> QED
    BY <1>2, <1>4, <2>1 DEF FormInv, FormShape, SavingInv
<1>6. CASE saving # NotSaving
  <2>1. /\ DOMAIN saving' = DOMAIN saving /\ saving'.at = saving.at /\ saving'.zone = saving.zone
        /\ saving'.box = saving.box
        /\ saving'.held = IF path = polygon THEN saving.held \cup {d} ELSE saving.held
    BY <1>1, <1>6 DEF FormInv, FormShape
  <2>2. saving.held \subseteq saving'.held
    BY <2>1
  <2>3. ZonesOf(saving.held) \subseteq ZonesOf(saving'.held)
    BY <2>2 DEF ZonesOf
  <2>4. disk'[polygon].drawing \in saving'.held
    BY <1>4, <1>6, <2>1 DEF FormInv, SavingInv
  <2>5. FormShape'
    BY <1>2, <1>4, <1>6, <2>1 DEF FormInv, FormShape
  <2>6. SavingInv'
    BY <1>2, <1>6, <2>1, <2>2, <2>3, <2>4 DEF FormInv, SavingInv, TownSound, InUse
  <2> QED
    BY <2>5, <2>6
<1> QED
  BY <1>5, <1>6

(* The steps of a save.                                                    *)
LEMMA SaveGoesOn ==
  ASSUME FormInv, Save \/ DraftSaved \/ WriteTown \/ WriteArea
  PROVE  FormShape' /\ SavingInv' /\ TownInv'
<1>1. UNCHANGED <<form, polygon, disk>>
  BY DEF Save, DraftSaved, WriteTown, WriteArea
<1>2. FormShape /\ SavingInv /\ TownInv
  BY DEF FormInv
<1>3. CASE UNCHANGED town /\ saving' = NotSaving
  BY <1>1, <1>2, <1>3 DEF FormShape, SavingInv, TownInv, TownSound, InUse
<1>4. CASE UNCHANGED <<town, saving>>
  BY <1>1, <1>2, <1>4 DEF FormShape, SavingInv, TownInv, TownSound, InUse
<1>5. polygon # Blank => CityCrs(form, polygon, disk).zone \in {Blank, Zone(Middle(disk[polygon].drawing))}
  BY DEF CityCrs, Found, Because
<1>6. CASE Save
  <2>1. CASE form.id /\ polygon # Blank /\ CityCrs(form, polygon, disk).zone # Blank
    <3>1. PICK z, d : z = Zone(Middle(d)) /\ d = disk[polygon].drawing
      OBVIOUS
    <3>2. saving' = [at |-> "draft", zone |-> z, box |-> Blank, held |-> {d}] /\ town' = town
      BY <1>5, <1>6, <2>1, <3>1 DEF Save
    <3>3. /\ DOMAIN saving' = {"at", "zone", "box", "held"} /\ saving'.at = "draft"
          /\ saving'.zone = z /\ saving'.held = {d}
      BY <3>2
    <3>4. z \in ZonesOf({d})
      BY <3>1 DEF ZonesOf
    <3> QED
      BY <1>1, <1>2, <2>1, <3>1, <3>2, <3>3, <3>4 DEF FormShape, SavingInv, TownInv, TownSound, InUse
  <2>2. CASE ~(form.id /\ polygon # Blank /\ CityCrs(form, polygon, disk).zone # Blank)
    BY <1>4, <1>6, <2>2 DEF Save
  <2> QED
    BY <2>1, <2>2
<1>7. CASE DraftSaved
  <2>1. saving.at = "draft" /\ saving # NotSaving
    BY <1>7 DEF DraftSaved, NotSaving
  <2>2. CASE Objection(form, polygon, disk, saving.zone) # "none"
    BY <1>3, <1>7, <2>2 DEF DraftSaved, GiveUp
  <2>3. CASE Objection(form, polygon, disk, saving.zone) = "none"
    <3>1. PICK d : d = disk[polygon].drawing
      OBVIOUS
    <3>2. saving' = [saving EXCEPT !.at = "city", !.box = d] /\ town' = town
      BY <1>7, <2>3, <3>1 DEF DraftSaved
    <3>3. InUse(d, saving.zone)
      BY <2>3, <3>1 DEF Objection
    <3>4. /\ DOMAIN saving' = {"at", "zone", "box", "held"} /\ saving'.at = "city" /\ saving'.box = d
          /\ saving'.zone = saving.zone /\ saving'.held = saving.held
      BY <1>2, <2>1, <3>2 DEF FormShape
    <3> QED
      BY <1>1, <1>2, <2>1, <3>1, <3>2, <3>3, <3>4 DEF FormShape, SavingInv, TownInv, TownSound, InUse
  <2> QED
    BY <2>2, <2>3
<1>8. CASE WriteTown
  <2>1. saving.at = "city" /\ saving # NotSaving
    BY <1>8 DEF WriteTown, NotSaving
  <2>2. CASE CityCrs(form, polygon, disk).zone = Blank \/ town # Blank
    BY <1>3, <1>8, <2>2 DEF WriteTown, GiveUp
  <2>3. CASE ~(CityCrs(form, polygon, disk).zone = Blank \/ town # Blank)
    <3>1. PICK z, d : z = Zone(Middle(d)) /\ d = disk[polygon].drawing
      OBVIOUS
    <3>2. /\ town' = [zone |-> z, box |-> saving.box, measured |-> saving.zone, area |-> Blank,
                      held |-> saving.held]
          /\ saving' = [saving EXCEPT !.at = "area"]
      BY <1>2, <1>5, <1>8, <2>1, <2>3, <3>1 DEF WriteTown, SavingInv
    <3>3. /\ DOMAIN saving' = {"at", "zone", "box", "held"} /\ saving'.at = "area"
          /\ saving'.box = saving.box /\ saving'.zone = saving.zone /\ saving'.held = saving.held
      BY <1>2, <2>1, <3>2 DEF FormShape
    <3>4. z \in ZonesOf(saving.held)
      BY <1>2, <2>1, <3>1 DEF ZonesOf, SavingInv
    <3>5. /\ DOMAIN town' = {"zone", "box", "measured", "area", "held"}
          /\ town'.zone = z /\ town'.box = saving.box /\ town'.measured = saving.zone
          /\ town'.area = Blank /\ town'.held = saving.held
      BY <3>2
    <3>6. TownSound'
      BY <1>2, <2>1, <3>4, <3>5 DEF SavingInv, TownSound, InUse
    <3>7. FormShape' /\ TownInv'
      BY <1>1, <1>2, <2>1, <3>3, <3>5, <3>6 DEF FormShape, TownInv
    <3>8. SavingInv'
      BY <1>1, <1>2, <2>1, <3>3, <3>5, <3>6 DEF SavingInv, InUse
    <3> QED
      BY <3>7, <3>8
  <2> QED
    BY <2>2, <2>3
<1>9. CASE WriteArea
  <2>1. saving.at = "area" /\ saving # NotSaving
    BY <1>9 DEF WriteArea, NotSaving
  <2>2. CASE ~Reads(disk, polygon)
    BY <1>3, <1>9, <2>2 DEF WriteArea, GiveUp
  <2>3. CASE Reads(disk, polygon)
    <3>1. PICK d, held : d = disk[polygon].drawing /\ held = saving.held
      OBVIOUS
    <3>2. town' = [town EXCEPT !.area = d, !.held = held] /\ saving' = NotSaving
      BY <1>9, <2>3, <3>1 DEF WriteArea
    <3>3. /\ TownSound /\ town.held \subseteq held /\ d \in held
          /\ DOMAIN town = {"zone", "box", "measured", "area", "held"}
      BY <1>2, <2>1, <3>1 DEF SavingInv
    <3>4. /\ DOMAIN town' = {"zone", "box", "measured", "area", "held"}
          /\ town'.zone = town.zone /\ town'.box = town.box /\ town'.measured = town.measured
          /\ town'.area = d /\ town'.held = held
      BY <3>2, <3>3
    <3>5. ZonesOf(town.held) \subseteq ZonesOf(held)
      BY <3>3 DEF ZonesOf
    <3> QED
      BY <1>1, <1>2, <3>2, <3>3, <3>4, <3>5 DEF FormShape, SavingInv, TownInv, TownSound, InUse
  <2> QED
    BY <2>2, <2>3
<1> QED
  BY <1>6, <1>7, <1>8, <1>9

(* Typing, pasting, waiting, saving and looking again keep the form believed. *)
LEMMA FormGoesOn ==
  ASSUME FormInv, [FormNext]_formVars PROVE FormInv'
<1> USE DEF FormInv
<1>1. FormShape' /\ SavingInv' /\ TownInv'
  <2>1. CASE SaveElsewhere
    <3>1. TownInv'
      BY <2>1 DEF SaveElsewhere, TownInv, TownSound, InUse
    <3> QED
      BY <2>1, <3>1, HeldGrows
  <2>2. CASE Save \/ DraftSaved \/ WriteTown \/ WriteArea
    BY <2>2, SaveGoesOn
  <2>3. ASSUME saving = NotSaving, UNCHANGED <<saving, town>>,
               DOMAIN form' = DOMAIN form, DOMAIN disk' = DOMAIN disk
        PROVE  FormShape' /\ SavingInv' /\ TownInv'
    BY <2>3 DEF FormShape, SavingInv, TownInv, TownSound, InUse
  <2>4. CASE TypeId \/ TypeClock \/ TypePoint \/ TypePath \/ Debounced \/ LookForPolygon \/ Paste
    <3>1. saving = NotSaving /\ UNCHANGED <<saving, town>>
      BY <2>4 DEF TypeId, TypeClock, TypePoint, TypePath, Debounced, LookForPolygon, Paste, AtRest
    <3>2. DOMAIN form' = DOMAIN form
      BY <2>4 DEF TypeId, TypeClock, TypePoint, TypePath, Debounced, LookForPolygon, Paste, SetPath
    <3>3. DOMAIN disk' = DOMAIN disk
      BY <2>4 DEF TypeId, TypeClock, TypePoint, TypePath, Debounced, LookForPolygon, Paste, Newer
    <3> QED
      BY <2>3, <3>1, <3>2, <3>3
  <2>5. CASE UNCHANGED formVars
    BY <2>5 DEF formVars, FormShape, SavingInv, TownInv, TownSound, InUse
  <2> QED
    BY <2>1, <2>2, <2>4, <2>5 DEF FormNext
<1>2. PriceIsOfTheNamed'
  <2>1. CASE UNCHANGED <<form, polygon, due, panel>>
    BY <2>1 DEF PriceIsOfTheNamed
  <2>2. CASE TypeId \/ TypeClock
    <3>1. UNCHANGED <<polygon, due, panel>>
      BY <2>2 DEF TypeId, TypeClock
    <3>2. \/ \E id : form' = [form EXCEPT !.id = id]
          \/ \E clock : form' = [form EXCEPT !.clock = clock]
      BY <2>2, Zenon DEF TypeId, TypeClock
    <3>3. form'.path = form.path
      BY <3>2 DEF FormShape
    <3> QED
      BY <3>1, <3>3 DEF PriceIsOfTheNamed
  <2>3. CASE TypePoint
    <3>1. form'.path = form.path /\ UNCHANGED <<polygon, due>> /\ panel' = PanelOf(form', polygon, disk)
      BY <2>3 DEF TypePoint
    <3> QED
      BY <3>1, PriceIsOf DEF PriceIsOfTheNamed
  <2>4. ASSUME NEW path, SetPath(path), panel' = panel PROVE PriceIsOfTheNamed'
    <3>1. form'.path = path /\ polygon' = path /\ due' = TRUE
      BY <2>4 DEF SetPath
    <3> QED
      BY <3>1 DEF PriceIsOfTheNamed
  <2>5. CASE Debounced
    BY <2>5, PriceIsOf DEF Debounced, PriceIsOfTheNamed
  <2>6. CASE LookForPolygon
    BY <2>6, PriceIsOf DEF LookForPolygon, PriceIsOfTheNamed
  <2> QED
    BY <2>1, <2>2, <2>3, <2>4, <2>5, <2>6
       DEF FormNext, formVars, TypePath, SaveElsewhere, Paste, Save, DraftSaved, WriteTown, WriteArea
<1> QED
  BY <1>1, <1>2

(* A price stands for the polygon it names, and what is written is of the  *)
(* drawings its file held while it was saved -- of one, in its own zone:   *)
(* for any polygons and drawings, and in any order of keys and timers.     *)
THEOREM FormIsAlwaysBelieved == FormSpec => []FormIsBelieved
<1>1. FormInit => FormInv
  BY DEF FormInit, FormInv, FormShape, SavingInv, TownInv, PriceIsOfTheNamed
<1>2. FormInv => FormIsBelieved
  BY TownIsWritten DEF FormInv, FormIsBelieved
<1> QED
  BY <1>1, <1>2, FormGoesOn, PTL DEF FormSpec

-----------------------------------------------------------------------------
(* The files there may be.                                                 *)
LEMMA TheFiles ==
  /\ ToSet(Needed) = {"horizon", "blocker", "noveg", "dsm", "dtm", "landcover", "canopy"}
  /\ Files = {"horizon", "blocker", "noveg", "dsm", "dtm", "landcover", "canopy", "trees", "coverage"}
<1>1. ToSet(Needed) = {"horizon", "blocker", "noveg", "dsm", "dtm", "landcover", "canopy"}
  BY DEF ToSet, Needed
<1> QED
  BY <1>1 DEF Files

(* One name more at the end of a list of names.                            *)
LEMMA OneMore ==
  ASSUME NEW S, NEW s \in Seq(S), NEW t \in S, NEW more, more = s \o <<t>>
  PROVE  /\ more \in Seq(S) /\ Len(more) = Len(s) + 1
         /\ \A i \in 1..Len(s) : more[i] = s[i]
         /\ more[Len(s) + 1] = t
<1>1. PICK u : u = <<t>>
  OBVIOUS
<1>2. u \in Seq(S) /\ Len(u) = 1 /\ u[1] = t /\ Len(s) \in Nat
  BY <1>1
<1>3. /\ s \o u \in Seq(S) /\ Len(s \o u) = Len(s) + Len(u)
      /\ \A i \in 1 .. Len(s) + Len(u) : (s \o u)[i] = IF i <= Len(s) THEN s[i] ELSE u[i - Len(s)]
  BY <1>2, ConcatProperties
<1>4. \A i \in 1..Len(s) : (s \o u)[i] = s[i]
  BY <1>2, <1>3
<1>5. (s \o u)[Len(s) + 1] = t
  BY <1>2, <1>3
<1>6. more = s \o u
  BY <1>1
<1> QED
  BY <1>2, <1>3, <1>4, <1>5, <1>6

(* A plan comes to seven files, and the trees and the coverage where it    *)
(* has them: each once.                                                    *)
LEMMA TheRasters ==
  ASSUME NEW pl
  PROVE  /\ Len(Rasters(pl)) \in Nat /\ DOMAIN Rasters(pl) = 1..Len(Rasters(pl))
         /\ \A i \in 1..Len(Rasters(pl)) : Rasters(pl)[i] \in Files
         /\ \A i, j \in 1..Len(Rasters(pl)) : Rasters(pl)[i] = Rasters(pl)[j] => i = j
         /\ \A file \in ToSet(Needed) : \E i \in 1..Len(Rasters(pl)) : Rasters(pl)[i] = file
         /\ pl.area # pl.grid => \E i \in 1..Len(Rasters(pl)) : Rasters(pl)[i] = "coverage"
<1> DEFINE n == Needed
           nt == n \o (IF pl.trees THEN <<"trees">> ELSE <<>>)
           all == nt \o (IF pl.area # pl.grid THEN <<"coverage">> ELSE <<>>)
<1>1. n \in Seq(Files) /\ Len(n) = 7
  <2>1. n = <<"horizon", "blocker", "noveg", "dsm", "dtm", "landcover", "canopy">>
    BY DEF Needed
  <2>2. PICK k \in Nat : k = 7
    OBVIOUS
  <2>3. n \in [1..k -> Files]
    <3>1. DOMAIN n = 1..7 /\ \A i \in 1..7 : n[i] \in Files
      BY <2>1, TheFiles
    <3> QED
      BY <2>1, <2>2, <3>1
  <2>4. Len(n) = 7
    BY <2>1
  <2> HIDE DEF n
  <2>5. n \in Seq(Files)
    BY <2>3
  <2> QED
    BY <2>4, <2>5
<1>2. /\ n[1] = "horizon" /\ n[2] = "blocker" /\ n[3] = "noveg" /\ n[4] = "dsm"
      /\ n[5] = "dtm" /\ n[6] = "landcover" /\ n[7] = "canopy"
  BY DEF Needed
<1>3. Rasters(pl) = all
  BY DEF Rasters
<1> HIDE DEF n
<1>4. /\ nt \in Seq(Files) /\ Len(nt) = 7 + (IF pl.trees THEN 1 ELSE 0)
      /\ \A i \in 1..7 : nt[i] = n[i]
      /\ pl.trees => nt[8] = "trees"
  <2>1. CASE pl.trees
    <3>0. PICK t \in Files : t = "trees"
      BY TheFiles
    <3>1. nt = n \o <<t>>
      BY <2>1, <3>0
    <3> HIDE DEF nt
    <3>2. /\ nt \in Seq(Files) /\ Len(nt) = Len(n) + 1 /\ nt[Len(n) + 1] = "trees"
          /\ \A i \in 1..Len(n) : nt[i] = n[i]
      <4>1. \A s \in Seq(Files) : \A more : more = s \o <<t>> =>
              /\ more \in Seq(Files) /\ Len(more) = Len(s) + 1 /\ more[Len(s) + 1] = t
              /\ \A i \in 1..Len(s) : more[i] = s[i]
        BY OneMore
      <4> QED
        BY <1>1, <3>0, <3>1, <4>1
    <3> QED
      BY <1>1, <2>1, <3>1, <3>2
  <2>2. CASE ~pl.trees
    <3>1. nt = n \o <<>>
      BY <2>2
    <3> HIDE DEF nt
    <3>2. nt = n
      BY <1>1, <3>1, ConcatEmptySeq
    <3> QED
      BY <1>1, <2>2, <3>2
  <2> QED
    BY <2>1, <2>2
<1> HIDE DEF nt
<1> DEFINE k == Len(nt)
<1>5. /\ all \in Seq(Files) /\ Len(all) = k + (IF pl.area # pl.grid THEN 1 ELSE 0)
      /\ \A i \in 1..k : all[i] = nt[i]
      /\ pl.area # pl.grid => all[k + 1] = "coverage"
  <2>1. CASE pl.area # pl.grid
    <3>0. PICK t \in Files : t = "coverage"
      BY TheFiles
    <3>1. all = nt \o <<t>>
      BY <2>1, <3>0
    <3> HIDE DEF all
    <3>2. /\ all \in Seq(Files) /\ Len(all) = Len(nt) + 1 /\ all[Len(nt) + 1] = "coverage"
          /\ \A i \in 1..Len(nt) : all[i] = nt[i]
      <4>1. \A s \in Seq(Files) : \A more : more = s \o <<t>> =>
              /\ more \in Seq(Files) /\ Len(more) = Len(s) + 1 /\ more[Len(s) + 1] = t
              /\ \A i \in 1..Len(s) : more[i] = s[i]
        BY OneMore
      <4> QED
        BY <1>4, <3>0, <3>1, <4>1
    <3> QED
      BY <1>4, <2>1, <3>1, <3>2
  <2>2. CASE pl.area = pl.grid
    <3>1. all = nt \o <<>>
      BY <2>2
    <3> HIDE DEF all
    <3>2. all = nt
      BY <1>4, <3>1, ConcatEmptySeq
    <3> QED
      BY <1>4, <2>2, <3>2
  <2> QED
    BY <2>1, <2>2
<1> HIDE DEF all
<1>6. DOMAIN all = 1..Len(all) /\ Len(all) \in Nat /\ (k = 7 \/ k = 8)
  BY <1>4, <1>5
<1>7. \A i \in 1..7 : all[i] = n[i]
  BY <1>4, <1>5
<1>8. \A i \in 1..Len(all) : i \in 1..7
         \/ (i = 8 /\ k = 8 /\ all[i] = "trees") \/ (i = k + 1 /\ all[i] = "coverage")
  BY <1>4, <1>5, <1>6
<1>9. \A i \in 1..7 : i = 1 \/ i = 2 \/ i = 3 \/ i = 4 \/ i = 5 \/ i = 6 \/ i = 7
  OBVIOUS
<1>10. \A i \in 1..Len(all) : all[i] \in Files
  BY <1>2, <1>7, <1>8, <1>9, TheFiles
<1>11. \A i, j \in 1..Len(all) : all[i] = all[j] => i = j
  BY <1>2, <1>6, <1>7, <1>8, <1>9
<1>12. \A file \in ToSet(Needed) : \E i \in 1..Len(all) : all[i] = file
  <2>1. \A file \in ToSet(Needed) : \E i \in {1, 2, 3, 4, 5, 6, 7} : n[i] = file
    BY <1>2, TheFiles
  <2>2. \A i \in {1, 2, 3, 4, 5, 6, 7} : i \in 1..7 /\ i \in 1..Len(all)
    <3>1. PICK l \in Nat, m \in Nat : l = Len(all) /\ m = k
      BY <1>6
    <3>2. m = 7 \/ m = 8
      BY <1>6, <3>1
    <3>3. l = m \/ l = m + 1
      BY <1>5, <3>1
    <3>4. l >= 7
      BY <3>2, <3>3
    <3> QED
      BY <3>1, <3>4
  <2> QED
    BY <1>7, <2>1, <2>2
<1>13. pl.area # pl.grid => \E i \in 1..Len(all) : all[i] = "coverage"
  BY <1>5, <1>6
<1> QED
  BY <1>3, <1>6, <1>10, <1>11, <1>12, <1>13

(* What is computed is of the plan's grid.                                 *)
LEMMA ValuesAreMarks ==
  ASSUME NEW pl \in Plans, NEW file \in Files
  PROVE  Values(pl, file) \in [pl.grid -> Marks]
<1>1. \A p \in pl.grid :
        /\ pl.scene.angle[p] \in Nat /\ pl.scene.free[p] \in Nat
        /\ pl.scene.dsm[p] \in Int /\ pl.scene.dtm[p] \in Int
        /\ pl.scene.class[p] \in Landcover \cup {"none"}
        /\ pl.scene.label[p] \in Landcover /\ pl.scene.zone[p] \in TreeZones
  BY BuildAssumption
<1>2. CASE file = "horizon"
  BY <1>1, <1>2 DEF Values, Marks, Landcover, TreeZones
<1>3. CASE file = "blocker"
  <2>1. "none" \in Marks /\ \A p \in pl.grid : pl.scene.class[p] \in Marks
    BY <1>1, Zenon DEF Marks, Landcover, TreeZones
  <2> DEFINE class(p) == IF p \in pl.area THEN pl.scene.class[p] ELSE "none"
  <2>2. Values(pl, file) = [p \in pl.grid |-> class(p)]
    BY <1>3 DEF Values
  <2>3. \A p \in pl.grid : class(p) \in Marks
    BY <2>1
  <2> QED
    BY <2>2, <2>3
<1>4. CASE file = "noveg"
  BY <1>1, <1>4 DEF Values, Marks, Landcover, TreeZones
<1>5. CASE file = "dsm"
  BY <1>1, <1>5 DEF Values, Marks, Landcover, TreeZones
<1>6. CASE file = "dtm"
  BY <1>1, <1>6 DEF Values, Marks, Landcover, TreeZones
<1>7. CASE file = "landcover"
  BY <1>1, <1>7 DEF Values, Marks, Landcover, TreeZones
<1>8. CASE file = "canopy"
  BY <1>8 DEF Values, Marks, Landcover, TreeZones, IsCrown
<1>9. CASE file = "trees"
  BY <1>1, <1>9 DEF Values, Marks, Landcover, TreeZones
<1>10. CASE file = "coverage"
  BY <1>10 DEF Values, Marks, Landcover, TreeZones
<1> QED
  BY <1>2, <1>3, <1>4, <1>5, <1>6, <1>7, <1>8, <1>9, <1>10, TheFiles

(* A build, and a value for each plot of a plan.                           *)
LEMMA ContentOf ==
  ASSUME NEW pl \in Plans, NEW b \in Nat, NEW v \in [pl.grid -> Marks]
  PROVE  [build |-> b, value |-> v] \in Contents
  BY DEF Contents

(* A file that lost pages is one that a disk may have.                     *)
LEMMA LostIsContent ==
  ASSUME NEW pl \in Plans, NEW b \in Nat, NEW file \in Files, NEW v \in [pl.grid -> Marks], NEW plots
  PROVE  LET lost == Lost(file, [build |-> b, value |-> v], plots)
         IN  /\ lost \in Contents /\ lost.build = b
             /\ lost.value = [p \in pl.grid |-> IF p \in plots THEN Zero[file] ELSE v[p]]
<1> DEFINE w == [p \in pl.grid |-> IF p \in plots THEN Zero[file] ELSE v[p]]
<1>1. Zero[file] \in Marks
  <2>1. 0 \in Marks
    BY DEF Marks
  <2>2. "ground" \in Marks /\ "none" \in Marks
    BY Zenon DEF Marks, Landcover, TreeZones
  <2>3. FALSE \in Marks
    BY Zenon DEF Marks, Landcover, TreeZones
  <2> QED
    <3>1. CASE file \in {"canopy", "coverage"}
      <4>1. Zero["canopy"] = FALSE /\ Zero["coverage"] = FALSE
        BY DEF Zero
      <4> QED
        BY <2>3, <3>1, <4>1, Zenon
    <3>2. CASE file \in {"horizon", "noveg", "dsm", "dtm"}
      BY <2>1, <3>2 DEF Zero
    <3>3. CASE file \in {"blocker", "landcover", "trees"}
      BY <2>2, <3>3 DEF Zero
    <3> QED
      BY <3>1, <3>2, <3>3, TheFiles
<1>2. w \in [pl.grid -> Marks]
  BY <1>1
<1>3. Lost(file, [build |-> b, value |-> v], plots) = [build |-> b, value |-> w]
  BY DEF Lost
<1> HIDE DEF w
<1>4. [build |-> b, value |-> w] \in Contents
  BY <1>2, ContentOf
<1> QED
  BY <1>3, <1>4 DEF w

(* The file is of the build there is, as it was computed.                  *)
Made(file) == folder[file] = [build |-> begun, value |-> Values(plan, file)]

(* The type of a build; only a finished folder rots.                       *)
BuildTyped ==
    /\ plan \in Plans /\ begun \in Nat /\ written \in 0..Len(Rasters(plan))
    /\ doing \in {"idle", "fetching", "writing", "checking", "verifying", "done", "failed"}
    /\ rotten \in BOOLEAN /\ (rotten => doing = "done")
    /\ DOMAIN folder = Files \cup {"metadata"}
    /\ \A file \in Files : folder[file] \in Contents \cup {NoFile, Torn}
    /\ HasFile(folder, "metadata") =>
         folder["metadata"].build \in Nat /\ folder["metadata"].build <= begun

(* Each file is checked before the next, and the metadata is still of a    *)
(* build before this one.                                                  *)
SoFar ==
    /\ doing \in {"writing", "checking", "verifying"} =>
         \A i \in 1..written : Made(Rasters(plan)[i])
    /\ doing = "fetching" => written = 0
    /\ doing = "checking" =>
         /\ written < Len(Rasters(plan))
         /\ \E v : folder[NextFile] = [build |-> begun, value |-> v]
    /\ doing \in {"fetching", "writing", "checking"} =>
         ~(HasFile(folder, "metadata") /\ folder["metadata"].build = begun)

(* The metadata describes the plan.                                        *)
Described ==
    /\ HasFile(folder, "metadata") /\ folder["metadata"].grid = Grid
    /\ folder["metadata"].covered = IF plan.area # Grid THEN Cardinality(plan.area) ELSE NoFile

(* What was verified stays, but for the angles that the disk loses.        *)
Verified ==
    /\ doing = "verifying" => written = Len(Rasters(plan)) /\ Described
    /\ doing = "done" =>
         /\ Described /\ Answered(folder) \subseteq plan.area
         /\ Made("blocker") /\ DOMAIN folder["horizon"].value = Grid
         /\ \A p \in plan.area : plan.scene.angle[p] > 0 => plan.scene.class[p] # "none"
         /\ ~rotten => \A i \in 1..Len(Rasters(plan)) : Made(Rasters(plan)[i])

(* The folder of a build, at every one of its steps.                       *)
BuildInv == BuildTyped /\ SoFar /\ Verified /\ MetadataComesLast /\ TornInventoryStops

(* One file changes and the others stay.                                   *)
LEMMA OneFile ==
  ASSUME BuildTyped, NEW file \in Files \cup {"metadata"}, NEW c,
         folder' = [folder EXCEPT ![file] = c]
  PROVE  /\ DOMAIN folder' = Files \cup {"metadata"} /\ folder'[file] = c
         /\ \A f \in Files \cup {"metadata"} : f # file => folder'[f] = folder[f]
  BY DEF BuildTyped

(* What was computed for a plan is a content, and no file is not.          *)
LEMMA MadeIsContent ==
  ASSUME NEW pl \in Plans, NEW b \in Nat, NEW file \in Files, NEW c,
         c = [build |-> b, value |-> Values(pl, file)]
  PROVE  c \in Contents /\ c # NoFile /\ c.build = b /\ c.value = Values(pl, file)
<1>1. c \in Contents
  BY ValuesAreMarks, ContentOf
<1> QED
  BY <1>1, BuildAssumption

(* A folder whose angles are lost over more than the share tolerated does  *)
(* not pass.                                                               *)
LEMMA LossIsFound ==
  ASSUME plan \in Plans, Verified, doing = "done"
  PROVE  LostAnglesAreFound
<1> DEFINE angle == folder["horizon"].value
           class == folder["blocker"].value
           gone == {p \in plan.area : plan.scene.angle[p] > 0 /\ angle[p] = 0}
           dead == {p \in DOMAIN angle : angle[p] = 0 /\ class[p] # "none"}
           ng == Cardinality(gone)  nd == Cardinality(dead)
<1>1. /\ DOMAIN angle = plan.grid /\ plan.area \subseteq plan.grid /\ IsFiniteSet(plan.grid)
      /\ MostZero \in Nat \X Nat
  BY BuildAssumption DEF Verified, Grid
<1>2. \A p \in plan.area : class[p] = plan.scene.class[p]
  <2>1. class = Values(plan, "blocker")
    BY DEF Verified, Made
  <2> QED
    BY <1>1, <2>1 DEF Values
<1>3. gone \subseteq dead
  BY <1>1, <1>2 DEF Verified
<1>4. IsFiniteSet(dead) /\ IsFiniteSet(plan.area)
  BY <1>1, FS_Subset
<1>5. ng \in Nat /\ nd \in Nat /\ ng <= nd /\ Cardinality(plan.area) \in Nat
  BY <1>3, <1>4, FS_Subset, FS_CardinalityType
<1>6. Computed(folder) = Cardinality(plan.area)
  <2>1. CASE plan.area = Grid
    BY <2>1 DEF Verified, Described, Computed
  <2>2. CASE plan.area # Grid
    <3>1. folder["metadata"].covered = Cardinality(plan.area)
      BY <2>2 DEF Verified, Described
    <3>2. Cardinality(plan.area) # NoFile
      BY <1>5, BuildAssumption
    <3> QED
      BY <3>1, <3>2 DEF Computed
  <2> QED
    BY <2>1, <2>2
<1> HIDE DEF gone, dead, ng, nd
<1>7. SUFFICES ASSUME ng * MostZero[2] > MostZero[1] * Cardinality(plan.area), Passes(folder)
               PROVE  FALSE
  BY DEF LostAnglesAreFound, gone, ng, angle
<1>8. nd * MostZero[2] <= MostZero[1] * Computed(folder)
  BY <1>7 DEF Passes, HorizonBlocker, nd, dead
<1>9. PICK m \in Nat, k \in Nat, a \in Nat :
        m = MostZero[1] /\ k = MostZero[2] /\ a = Cardinality(plan.area)
  BY <1>1, <1>5
<1>10. ng * k <= nd * k
  BY <1>5, <1>9, TimesGrows
<1>11. /\ ng * k > m * a /\ nd * k <= m * a
  BY <1>6, <1>7, <1>8, <1>9
<1>12. ng * k \in Nat /\ nd * k \in Nat /\ m * a \in Nat
  BY <1>5, <1>9
<1> QED
  BY <1>10, <1>11, <1>12

(* A folder that passes as its plan was computed is true of its area.      *)
LEMMA PassedIsTrue ==
  ASSUME BuildTyped, Described, Passes(folder),
         \A i \in 1..Len(Rasters(plan)) : Made(Rasters(plan)[i])
  PROVE  /\ Answered(folder) \subseteq plan.area
         /\ Made("blocker") /\ DOMAIN folder["horizon"].value = Grid
         /\ \A p \in plan.area : plan.scene.angle[p] > 0 => plan.scene.class[p] # "none"
<1>1. plan \in Plans /\ begun \in Nat /\ plan.area \subseteq plan.grid
  BY BuildAssumption DEF BuildTyped
<1>2. Made("blocker") /\ Made("horizon")
  <2>1. \A file \in ToSet(Needed) : \E i \in 1..Len(Rasters(plan)) : Rasters(plan)[i] = file
    BY TheRasters
  <2> QED
    BY <2>1, TheFiles
<1>3. /\ folder["horizon"].value = Values(plan, "horizon")
      /\ folder["blocker"].value = Values(plan, "blocker")
  BY <1>2 DEF Made
<1>4. /\ DOMAIN folder["horizon"].value = plan.grid
      /\ \A p \in plan.area : /\ folder["horizon"].value[p] = plan.scene.angle[p]
                              /\ folder["blocker"].value[p] = plan.scene.class[p]
  BY <1>1, <1>3 DEF Values
<1>5. \A p \in plan.area : plan.scene.angle[p] > 0 => plan.scene.class[p] # "none"
  <2>1. \A p \in plan.grid : folder["horizon"].value[p] > 0 => folder["blocker"].value[p] # "none"
    BY <1>4 DEF Passes, HorizonBlocker
  <2> QED
    BY <1>1, <1>4, <2>1
<1>6. Answered(folder) \subseteq plan.area
  <2>1. CASE plan.area # plan.grid
    <3>1. Made("coverage")
      BY <2>1, TheRasters
    <3>2. PICK c : c = folder["coverage"] /\ c = [build |-> begun, value |-> Values(plan, "coverage")]
      BY <3>1 DEF Made
    <3>3. c # NoFile /\ c.value = Values(plan, "coverage")
      BY <1>1, <3>2, MadeIsContent, TheFiles
    <3>4. Values(plan, "coverage") = [p \in plan.grid |-> p \in plan.area]
      BY DEF Values
    <3>5. Answered(folder) = {p \in plan.grid : p \in plan.area}
      <4>1. Answered(folder) = {p \in DOMAIN c.value : c.value[p]}
        BY <3>2, <3>3 DEF Answered, HasFile
      <4>2. DOMAIN c.value = plan.grid /\ \A p \in plan.grid : c.value[p] <=> p \in plan.area
        BY <3>3, <3>4, Zenon
      <4> QED
        BY <4>1, <4>2, Zenon
    <3> QED
      BY <3>5
  <2>2. CASE plan.area = plan.grid
    <3>1. CASE HasFile(folder, "coverage")
      BY <2>2, <3>1 DEF Passes, Coverage, Described, Answered, Grid
    <3>2. CASE ~HasFile(folder, "coverage")
      BY <2>2, <3>2 DEF Described, Answered, Grid
    <3> QED
      BY <3>1, <3>2
  <2> QED
    BY <2>1, <2>2
<1> QED
  BY <1>2, <1>4, <1>5, <1>6 DEF Grid

(* A build that begins, fetches, is verified or ends touches no file.      *)
LEMMA FolderLeft ==
  ASSUME BuildInv, BeginBuild \/ FetchInputs \/ Verify PROVE BuildInv'
<1>1. CASE BeginBuild
  <2>1. /\ plan' \in Plans /\ begun' = begun + 1 /\ written' = 0 /\ doing' \in {"failed", "fetching"}
        /\ ~rotten /\ UNCHANGED <<folder, rotten>>
    BY <1>1 DEF BeginBuild
  <2>2. Len(Rasters(plan')) \in Nat
    BY TheRasters
  <2>3. BuildTyped'
    BY <2>1, <2>2 DEF BuildInv, BuildTyped, HasFile
  <2>4. HasFile(folder, "metadata") => folder["metadata"].build # begun'
    BY <2>1 DEF BuildInv, BuildTyped
  <2> QED
    BY <2>1, <2>3, <2>4 DEF BuildInv, SoFar, Verified, MetadataComesLast, TornInventoryStops, HasFile
<1>2. CASE FetchInputs
  <2>1. /\ doing = "fetching" /\ doing' \in {"writing", "failed"}
        /\ doing' = "writing" /\ plan.trees => inventory' = "whole"
        /\ UNCHANGED <<plan, begun, written, folder, rotten>>
    BY <1>2 DEF FetchInputs
  <2>2. written = 0
    BY <2>1 DEF BuildInv, SoFar
  <2>3. BuildTyped'
    BY <2>1 DEF BuildInv, BuildTyped, HasFile
  <2> QED
    BY <2>1, <2>2, <2>3 DEF BuildInv, SoFar, Verified, MetadataComesLast, TornInventoryStops, HasFile
<1>3. CASE Verify
  <2>1. /\ doing = "verifying" /\ doing' = IF Passes(folder) THEN "done" ELSE "failed"
        /\ UNCHANGED <<plan, begun, written, folder, litter, inventory, rotten>> /\ ~rotten
    BY <1>3 DEF Verify, BuildInv, BuildTyped
  <2>2. BuildTyped'
    BY <2>1 DEF BuildInv, BuildTyped, HasFile
  <2>3. Described /\ \A i \in 1..Len(Rasters(plan)) : Made(Rasters(plan)[i])
    BY <2>1 DEF BuildInv, SoFar, Verified
  <2>4. Verified'
    <3>1. CASE Passes(folder)
      <4>1. /\ Answered(folder) \subseteq plan.area
            /\ Made("blocker") /\ DOMAIN folder["horizon"].value = Grid
            /\ \A p \in plan.area : plan.scene.angle[p] > 0 => plan.scene.class[p] # "none"
        BY <2>3, <3>1, PassedIsTrue DEF BuildInv
      <4> QED
        BY <2>1, <2>3, <3>1, <4>1 DEF Verified, Described, Made, Answered, Grid, HasFile
    <3>2. CASE ~Passes(folder)
      BY <2>1, <3>2 DEF Verified
    <3> QED
      BY <3>1, <3>2
  <2> QED
    BY <2>1, <2>2, <2>4 DEF BuildInv, SoFar, MetadataComesLast, TornInventoryStops, HasFile
<1> QED
  BY <1>1, <1>2, <1>3

(* While files are written, no other than the next of the plan changes.    *)
LEMMA NextIsWritten ==
  ASSUME BuildInv, doing \in {"writing", "checking"}, written < Len(Rasters(plan)),
         NEW c \in Contents \cup {Torn}, folder' = [folder EXCEPT ![NextFile] = c],
         UNCHANGED <<plan, begun, written, rotten>>,
         doing' \in {"checking", "failed"},
         doing' = "checking" => \E v : c = [build |-> begun, value |-> v]
  PROVE  BuildTyped' /\ SoFar' /\ Verified' /\ MetadataComesLast'
<1>1. /\ Len(Rasters(plan)) \in Nat /\ written \in 0..Len(Rasters(plan)) /\ plan \in Plans
      /\ "metadata" \notin Files /\ BuildTyped
  BY TheRasters, TheFiles DEF BuildInv, BuildTyped
<1>2. PICK n \in 1..Len(Rasters(plan)) : n = written + 1 /\ NextFile = Rasters(plan)[n]
  BY <1>1 DEF NextFile
<1>3. NextFile \in Files /\ \A i \in 1..written : Rasters(plan)[i] # NextFile /\ Rasters(plan)[i] \in Files
  <2>1. /\ \A i \in 1..Len(Rasters(plan)) : Rasters(plan)[i] \in Files
        /\ \A i, j \in 1..Len(Rasters(plan)) : Rasters(plan)[i] = Rasters(plan)[j] => i = j
    BY TheRasters
  <2>2. \A i \in 1..written : i \in 1..Len(Rasters(plan)) /\ i # n
    BY <1>1, <1>2
  <2> QED
    BY <1>2, <2>1, <2>2
<1>4. /\ DOMAIN folder' = Files \cup {"metadata"} /\ folder'[NextFile] = c
      /\ \A f \in Files \cup {"metadata"} : f # NextFile => folder'[f] = folder[f]
  BY <1>1, <1>3, OneFile
<1>5. folder'["metadata"] = folder["metadata"]
  BY <1>1, <1>3, <1>4
<1>6. BuildTyped'
  BY <1>1, <1>3, <1>4, <1>5 DEF BuildTyped, HasFile, BuildInv
<1>7. SoFar'
  <2>1. \A i \in 1..written : Made(Rasters(plan)[i])'
    BY <1>3, <1>4 DEF BuildInv, SoFar, Made
  <2>2. NextFile' = NextFile
    BY DEF NextFile
  <2> QED
    BY <1>4, <1>5, <2>1, <2>2 DEF BuildInv, SoFar, HasFile
<1>8. MetadataComesLast'
  BY <1>5 DEF BuildInv, SoFar, MetadataComesLast, HasFile
<1> QED
  BY <1>6, <1>7, <1>8 DEF Verified

(* A copy that is checked before the next keeps the build true.            *)
LEMMA WritingKeeps ==
  ASSUME BuildInv, CopyRaster \/ ReadBack \/ KillBuild PROVE BuildInv'
<1>1. CASE CopyRaster
  <2> DEFINE whole == [build |-> begun, value |-> Values(plan, NextFile)]
  <2>1. PICK plots \in {{}, Grid} : folder' = [folder EXCEPT ![NextFile] = Lost(NextFile, whole, plots)]
    BY <1>1 DEF CopyRaster
  <2>2. /\ doing = "writing" /\ written < Len(Rasters(plan)) /\ doing' = "checking"
        /\ UNCHANGED <<plan, begun, written, litter, inventory, rotten>>
    BY <1>1 DEF CopyRaster
  <2>3. NextFile \in Files /\ plan \in Plans /\ begun \in Nat
    BY <2>2, TheRasters DEF BuildInv, BuildTyped, NextFile
  <2>4. PICK c \in Contents : c = Lost(NextFile, whole, plots) /\ \E v : c = [build |-> begun, value |-> v]
    <3>1. Lost(NextFile, whole, plots) \in Contents
      BY <2>3, ValuesAreMarks, LostIsContent
    <3>2. \E v : Lost(NextFile, whole, plots) = [build |-> begun, value |-> v]
      BY DEF Lost
    <3> QED
      BY <3>1, <3>2
  <2> HIDE DEF whole
  <2>5. folder' = [folder EXCEPT ![NextFile] = c]
    BY <2>1, <2>4
  <2>6. TornInventoryStops'
    BY <2>2 DEF BuildInv, TornInventoryStops
  <2> QED
    BY <2>2, <2>4, <2>5, <2>6, NextIsWritten DEF BuildInv
<1>2. CASE ReadBack
  <2>1. /\ doing = "checking" /\ UNCHANGED <<plan, begun, folder, inventory, rotten>>
        /\ \/ folder[NextFile].value = Values(plan, NextFile) /\ doing' = "writing" /\ written' = written + 1
           \/ doing' = "failed" /\ written' = written
    BY <1>2 DEF ReadBack
  <2>2. /\ written \in 0..Len(Rasters(plan)) /\ written < Len(Rasters(plan)) /\ Len(Rasters(plan)) \in Nat
    BY <2>1, TheRasters DEF BuildInv, BuildTyped, SoFar
  <2>3. BuildTyped'
    BY <2>1, <2>2 DEF BuildInv, BuildTyped, HasFile
  <2>4. SoFar'
    <3>1. CASE doing' = "failed"
      BY <2>1, <3>1 DEF SoFar
    <3>2. CASE doing' = "writing"
      <4>1. folder[NextFile].value = Values(plan, NextFile) /\ written' = written + 1
        BY <2>1, <3>2
      <4>2. Made(NextFile)
        <5>1. PICK v : folder[NextFile] = [build |-> begun, value |-> v]
          BY <2>1 DEF BuildInv, SoFar
        <5> QED
          BY <4>1, <5>1 DEF Made
      <4>3. \A i \in 1..written' : Made(Rasters(plan)[i])
        BY <2>1, <2>2, <4>1, <4>2 DEF BuildInv, SoFar, NextFile
      <4> QED
        BY <2>1, <3>2, <4>3 DEF BuildInv, SoFar, Made, HasFile
    <3> QED
      BY <2>1, <3>1, <3>2
  <2> QED
    BY <2>1, <2>3, <2>4 DEF BuildInv, Verified, MetadataComesLast, TornInventoryStops, HasFile
<1>3. CASE KillBuild
  <2>1. /\ doing \in {"fetching", "writing", "checking", "verifying"} /\ doing' = "failed"
        /\ UNCHANGED <<plan, begun, written, litter, rotten>>
        /\ \/ folder' = folder
           \/ doing = "checking" /\ folder' = [folder EXCEPT ![NextFile] = Torn]
           \/ folder' = [folder EXCEPT !["metadata"] = Torn]
    BY <1>3 DEF KillBuild
  <2>2. TornInventoryStops'
    BY <2>1 DEF TornInventoryStops
  <2>3. CASE folder' = folder
    BY <2>1, <2>2, <2>3 DEF BuildInv, BuildTyped, SoFar, Verified, MetadataComesLast, HasFile
  <2>4. CASE doing = "checking" /\ folder' = [folder EXCEPT ![NextFile] = Torn]
    <3>1. written < Len(Rasters(plan))
      BY <2>4 DEF BuildInv, SoFar
    <3> QED
      BY <2>1, <2>2, <2>4, <3>1, NextIsWritten DEF BuildInv
  <2>5. CASE folder' = [folder EXCEPT !["metadata"] = Torn]
    <3>1. BuildTyped /\ "metadata" \notin Files
      BY TheFiles DEF BuildInv
    <3>2. /\ DOMAIN folder' = Files \cup {"metadata"} /\ folder'["metadata"] = Torn
          /\ \A f \in Files \cup {"metadata"} : f # "metadata" => folder'[f] = folder[f]
      BY <2>5, <3>1, OneFile
    <3>3. Torn.build = 0
      BY DEF Torn
    <3>4. BuildTyped'
      BY <2>1, <3>1, <3>2, <3>3 DEF BuildTyped
    <3> QED
      BY <2>1, <2>2, <3>2, <3>4 DEF BuildInv, SoFar, Verified, MetadataComesLast
  <2> QED
    BY <2>1, <2>3, <2>4, <2>5
<1> QED
  BY <1>1, <1>2, <1>3

(* The metadata comes when every file is there.                            *)
LEMMA DescribedLast == ASSUME BuildInv, WriteMetadata PROVE BuildInv'
<1>1. /\ doing = "writing" /\ written = Len(Rasters(plan)) /\ doing' = "verifying"
      /\ folder' = [folder EXCEPT !["metadata"] = MetadataOf(folder)]
      /\ UNCHANGED <<plan, begun, written, inventory, rotten>>
  BY DEF WriteMetadata
<1> DEFINE met == MetadataOf(folder)
<1>2. /\ met.build = begun /\ met.grid = Grid
      /\ met.covered = IF plan.area # Grid THEN Cardinality(plan.area) ELSE NoFile
  BY DEF MetadataOf
<1>3. met # NoFile
  <2>1. /\ plan \in Plans /\ begun \in Nat /\ IsFiniteSet(plan.grid) /\ plan.area \subseteq plan.grid
    BY BuildAssumption DEF BuildInv, BuildTyped
  <2>2. Cardinality(plan.area) \in Nat
    BY <2>1, FS_Subset, FS_CardinalityType
  <2>3. CrownCounts(folder) \in Nat \X Nat
    <3>1. PICK i \in 1..Len(Rasters(plan)) : Rasters(plan)[i] = "canopy"
      BY TheRasters, TheFiles
    <3>2. Made("canopy")
      BY <1>1, <3>1 DEF BuildInv, SoFar
    <3>5. folder["canopy"].value = Values(plan, "canopy")
      BY <3>2 DEF Made
    <3>3. DOMAIN folder["canopy"].value = plan.grid
      BY <3>5 DEF Values
    <3>4. JudgedIn(folder) \subseteq plan.grid /\ ReachedIn(folder) \subseteq plan.grid
      BY <3>3 DEF JudgedIn, ReachedIn
    <3> QED
      BY <2>1, <3>4, FS_Subset, FS_CardinalityType DEF CrownCounts
  <2>4. met \in Descriptions
    BY <2>1, <2>2, <2>3 DEF MetadataOf, Descriptions, Grid
  <2> QED
    BY <2>4, BuildAssumption
<1> HIDE DEF met
<1>4. BuildTyped /\ "metadata" \notin Files
  BY TheFiles DEF BuildInv
<1>5. /\ DOMAIN folder' = Files \cup {"metadata"} /\ folder'["metadata"] = met
      /\ \A f \in Files : folder'[f] = folder[f]
  BY <1>1, <1>4, OneFile DEF met
<1>6. \A i \in 1..Len(Rasters(plan)) : Rasters(plan)[i] \in Files /\ Made(Rasters(plan)[i])
  BY <1>1, TheRasters DEF BuildInv, SoFar
<1>7. \A i \in 1..Len(Rasters(plan)) : Made(Rasters(plan)[i])'
  BY <1>1, <1>5, <1>6 DEF Made
<1>8. BuildTyped'
  BY <1>1, <1>2, <1>4, <1>5 DEF BuildTyped, HasFile
<1>9. SoFar'
  BY <1>1, <1>7 DEF SoFar
<1>10. Verified'
  BY <1>1, <1>2, <1>3, <1>5 DEF Verified, Described, HasFile, Grid
<1>11. MetadataComesLast'
  <2>1. plan \in Plans /\ begun \in Nat
    BY <1>4 DEF BuildTyped
  <2>2. \A i \in 1..Len(Rasters(plan)) :
          folder[Rasters(plan)[i]] # NoFile /\ folder[Rasters(plan)[i]].build = begun
    <3> TAKE i \in 1..Len(Rasters(plan))
    <3>0. PICK file \in Files : file = Rasters(plan)[i] /\ Made(file)
      BY <1>6
    <3>1. PICK c : c = folder[file]
      OBVIOUS
    <3>2. c = [build |-> begun, value |-> Values(plan, file)]
      BY <3>0, <3>1 DEF Made
    <3>3. c # NoFile /\ c.build = begun
      BY <2>1, <3>2, MadeIsContent
    <3> QED
      BY <3>0, <3>1, <3>3
  <2>3. DOMAIN Rasters(plan) = 1..Len(Rasters(plan))
    BY TheRasters
  <2> QED
    BY <1>1, <1>5, <1>6, <2>2, <2>3 DEF MetadataComesLast, HasFile
<1> QED
  BY <1>1, <1>8, <1>9, <1>10, <1>11 DEF BuildInv, TornInventoryStops

(* The mask drawn once more is the one that was computed.                  *)
LEMMA DerivedAgain == ASSUME BuildInv, DeriveCanopy PROVE BuildInv'
<1> DEFINE dsm == folder["dsm"].value  dtm == folder["dtm"].value
           cover == folder["landcover"].value
           mask == [p \in DOMAIN dsm |-> IsCrown(dsm[p], dtm[p], cover[p])]
<1>1. /\ doing \in {"done", "failed"} /\ ~rotten
      /\ HasFile(folder, "dsm") /\ folder["dsm"] # Torn
      /\ folder' = [folder EXCEPT !["canopy"] = [build |-> folder["dsm"].build, value |-> mask]]
      /\ UNCHANGED <<plan, begun, doing, written, litter, inventory, rotten>>
  BY DEF DeriveCanopy
<1>2. PICK c : c = [build |-> folder["dsm"].build, value |-> mask]
  OBVIOUS
<1>3. c \in Contents /\ c # NoFile /\ c.build = folder["dsm"].build
  <2>1. folder["dsm"] \in Contents
    BY <1>1, TheFiles DEF BuildInv, BuildTyped, HasFile
  <2>2. PICK pl \in Plans : dsm \in [pl.grid -> Marks]
    BY <2>1 DEF Contents
  <2>3. mask \in [pl.grid -> Marks]
    <3>1. \A p \in pl.grid : mask[p] \in BOOLEAN
      BY <2>2 DEF IsCrown
    <3>2. BOOLEAN \subseteq Marks
      BY Zenon DEF Marks
    <3>3. DOMAIN mask = pl.grid /\ mask = [p \in pl.grid |-> mask[p]]
      BY <2>2
    <3> HIDE DEF mask
    <3> QED
      BY <3>1, <3>2, <3>3
  <2>4. folder["dsm"].build \in Nat
    BY <2>1 DEF Contents
  <2>5. c \in Contents
    BY <1>2, <2>3, <2>4, ContentOf
  <2> QED
    BY <1>2, <2>5, BuildAssumption
<1>4. BuildTyped /\ "metadata" \notin Files /\ "canopy" \in Files
  BY TheFiles DEF BuildInv
<1>5. /\ DOMAIN folder' = Files \cup {"metadata"} /\ folder'["canopy"] = c
      /\ \A f \in Files \cup {"metadata"} : f # "canopy" => folder'[f] = folder[f]
  BY <1>1, <1>2, <1>4, OneFile
<1>6. folder'["metadata"] = folder["metadata"] /\ folder'["blocker"] = folder["blocker"]
      /\ folder'["horizon"] = folder["horizon"] /\ folder'["coverage"] = folder["coverage"]
  BY <1>4, <1>5, TheFiles
<1>7. BuildTyped'
  BY <1>1, <1>3, <1>4, <1>5, <1>6 DEF BuildTyped, HasFile
<1>8. \A i \in 1..Len(Rasters(plan)) : Rasters(plan)[i] \in Files
  BY TheRasters
<1>9. Verified'
  <2>1. ASSUME doing = "done" PROVE Made("canopy")'
    <3>1. \A file \in ToSet(Needed) : Made(file)
      <4>1. \A file \in ToSet(Needed) : \E i \in 1..Len(Rasters(plan)) : Rasters(plan)[i] = file
        BY TheRasters
      <4> QED
        BY <1>1, <2>1, <4>1 DEF BuildInv, Verified
    <3>2. Made("dsm") /\ Made("dtm") /\ Made("landcover")
      BY <3>1, TheFiles
    <3>3. /\ folder["dsm"].build = begun
          /\ dsm = [p \in plan.grid |-> plan.scene.dsm[p]]
          /\ dtm = [p \in plan.grid |-> plan.scene.dtm[p]]
          /\ cover = [p \in plan.grid |-> plan.scene.label[p]]
      BY <3>2 DEF Made, Values
    <3>4. mask = [p \in plan.grid |-> IsCrown(plan.scene.dsm[p], plan.scene.dtm[p], plan.scene.label[p])]
      <4>1. DOMAIN dsm = plan.grid /\ \A p \in plan.grid :
              dsm[p] = plan.scene.dsm[p] /\ dtm[p] = plan.scene.dtm[p] /\ cover[p] = plan.scene.label[p]
        BY <3>3
      <4> HIDE DEF dsm, dtm, cover
      <4> QED
        BY <4>1
    <3>5. mask = Values(plan, "canopy")
      BY <3>4 DEF Values
    <3> HIDE DEF mask
    <3> QED
      BY <1>1, <1>2, <1>5, <3>3, <3>5 DEF Made
  <2>2. doing = "done" => \A i \in 1..Len(Rasters(plan)) : Made(Rasters(plan)[i])'
    BY <1>1, <1>5, <1>8, <2>1 DEF BuildInv, Verified, Made
  <2> QED
    BY <1>1, <1>6, <2>2 DEF BuildInv, Verified, Described, HasFile, Made, Answered, Grid
<1>10. MetadataComesLast'
  <2>1. DOMAIN Rasters(plan) = 1..Len(Rasters(plan)) /\ \E i \in 1..Len(Rasters(plan)) : Rasters(plan)[i] = "dsm"
    BY TheRasters, TheFiles
  <2> SUFFICES ASSUME HasFile(folder, "metadata"), folder["metadata"] # Torn,
                      folder["metadata"].build = begun, NEW i \in 1..Len(Rasters(plan))
               PROVE  folder'[Rasters(plan)[i]] # NoFile /\ folder'[Rasters(plan)[i]].build = begun
    BY <1>1, <1>6, <2>1 DEF MetadataComesLast, HasFile
  <2>2. folder["dsm"].build = begun
    BY <2>1 DEF BuildInv, MetadataComesLast
  <2>3. CASE Rasters(plan)[i] = "canopy"
    BY <1>3, <1>5, <2>2, <2>3
  <2>4. CASE Rasters(plan)[i] # "canopy"
    BY <1>5, <1>8, <2>1, <2>4 DEF BuildInv, MetadataComesLast, HasFile
  <2> QED
    BY <2>3, <2>4
<1> QED
  BY <1>1, <1>7, <1>9, <1>10 DEF BuildInv, SoFar, TornInventoryStops

(* A page lost takes angles from the horizon, and nothing else.            *)
LEMMA RotKeeps == ASSUME BuildInv, Rot PROVE BuildInv'
<1>1. PICK plots \in SUBSET Grid :
        folder' = [folder EXCEPT !["horizon"] = Lost("horizon", folder["horizon"], plots)]
  BY DEF Rot
<1>2. /\ doing = "done" /\ ~rotten /\ rotten' = TRUE
      /\ UNCHANGED <<plan, begun, doing, written, litter, inventory>>
  BY DEF Rot
<1>3. plan \in Plans /\ begun \in Nat /\ BuildTyped /\ "metadata" \notin Files /\ "horizon" \in Files
  BY TheFiles DEF BuildInv, BuildTyped
<1>4. folder["horizon"] = [build |-> begun, value |-> Values(plan, "horizon")]
  <2>1. \E i \in 1..Len(Rasters(plan)) : Rasters(plan)[i] = "horizon"
    BY TheRasters, TheFiles
  <2> QED
    BY <1>2, <2>1 DEF BuildInv, Verified, Made
<1>5. PICK c : c = Lost("horizon", folder["horizon"], plots)
  OBVIOUS
<1>6. c \in Contents /\ c # NoFile /\ c.build = begun /\ DOMAIN c.value = plan.grid
  <2>1. Values(plan, "horizon") \in [plan.grid -> Marks]
    BY <1>3, ValuesAreMarks
  <2>2. /\ c \in Contents /\ c.build = begun
        /\ c.value = [p \in plan.grid |-> IF p \in plots THEN Zero["horizon"]
                                          ELSE Values(plan, "horizon")[p]]
    BY <1>3, <1>4, <1>5, <2>1, LostIsContent
  <2> QED
    BY <2>2, BuildAssumption
<1>7. /\ DOMAIN folder' = Files \cup {"metadata"} /\ folder'["horizon"] = c
      /\ \A f \in Files \cup {"metadata"} : f # "horizon" => folder'[f] = folder[f]
  BY <1>1, <1>3, <1>5, OneFile
<1>8. folder'["metadata"] = folder["metadata"] /\ folder'["blocker"] = folder["blocker"]
      /\ folder'["coverage"] = folder["coverage"]
  BY <1>3, <1>7, TheFiles
<1>9. BuildTyped'
  BY <1>2, <1>3, <1>6, <1>7, <1>8 DEF BuildTyped, HasFile
<1>10. Verified'
  BY <1>2, <1>6, <1>7, <1>8 DEF BuildInv, Verified, Described, HasFile, Made, Answered, Grid
<1>11. MetadataComesLast'
  <2>1. DOMAIN Rasters(plan) = 1..Len(Rasters(plan)) /\ \A i \in 1..Len(Rasters(plan)) : Rasters(plan)[i] \in Files
    BY TheRasters
  <2> QED
    BY <1>2, <1>6, <1>7, <1>8, <2>1 DEF BuildInv, MetadataComesLast, HasFile
<1> QED
  BY <1>2, <1>9, <1>10, <1>11 DEF BuildInv, SoFar, TornInventoryStops

(* A folder is true: for any plans, any values of them, and builds killed  *)
(* and begun again in any order.                                           *)
THEOREM FolderIsAlwaysTrue == BuildSpec => []FolderIsTrue
<1>1. BuildInit => BuildInv
  <2> SUFFICES ASSUME BuildInit PROVE BuildInv
    OBVIOUS
  <2>1. Len(Rasters(plan)) \in Nat /\ "metadata" \notin Files
    BY TheRasters, TheFiles
  <2>2. /\ plan \in Plans /\ begun = 0 /\ doing = "idle" /\ written = 0 /\ rotten = FALSE
        /\ DOMAIN folder = Files \cup {"metadata"}
        /\ \A file \in Files \cup {"metadata"} : folder[file] = NoFile
    BY DEF BuildInit
  <2>3. BuildTyped
    <3>1. written \in 0..Len(Rasters(plan))
      BY <2>1, <2>2
    <3>2. \A file \in Files : folder[file] \in Contents \cup {NoFile, Torn}
      BY <2>2
    <3>3. ~HasFile(folder, "metadata") /\ begun \in Nat /\ rotten \in BOOLEAN
      BY <2>2 DEF HasFile
    <3> QED
      BY <2>2, <3>1, <3>2, <3>3, Zenon DEF BuildTyped
  <2> QED
    BY <2>2, <2>3 DEF BuildInv, SoFar, Verified, MetadataComesLast, TornInventoryStops, HasFile
<1>2. BuildInv /\ [BuildNext]_buildVars => BuildInv'
  <2> SUFFICES ASSUME BuildInv, [BuildNext]_buildVars PROVE BuildInv'
    OBVIOUS
  <2>1. CASE UNCHANGED buildVars
    BY <2>1 DEF buildVars, BuildInv, BuildTyped, SoFar, Verified, MetadataComesLast, TornInventoryStops,
         HasFile, Made, Described, Answered, Grid, NextFile
  <2> QED
    BY <2>1, FolderLeft, WritingKeeps, DescribedLast, DerivedAgain, RotKeeps DEF BuildNext
<1>3. BuildInv => FolderIsTrue
  <2> SUFFICES ASSUME BuildInv PROVE FolderIsTrue
    OBVIOUS
  <2>1. ComputedIsShipped
    <3>1. DOMAIN Rasters(plan) = 1..Len(Rasters(plan))
      BY TheRasters
    <3> QED
      <4> SUFFICES ASSUME doing = "done", ~rotten, NEW i \in DOMAIN Rasters(plan)
                   PROVE  folder[Rasters(plan)[i]].value = Values(plan, Rasters(plan)[i])
        BY DEF ComputedIsShipped
      <4>1. Made(Rasters(plan)[i])
        BY <3>1 DEF BuildInv, Verified
      <4> QED
        BY <4>1 DEF Made
  <2>2. OpenSkyIsComputed
    BY DEF BuildInv, Verified, OpenSkyIsComputed
  <2>3. LostAnglesAreFound
    <3>1. CASE doing = "done"
      BY <3>1, LossIsFound DEF BuildInv, BuildTyped
    <3>2. CASE doing # "done"
      BY <3>2 DEF LostAnglesAreFound
    <3> QED
      BY <3>1, <3>2
  <2> QED
    BY <2>1, <2>2, <2>3 DEF BuildInv, FolderIsTrue
<1> QED
  BY <1>1, <1>2, <1>3, PTL DEF BuildSpec

-----------------------------------------------------------------------------
(* The two files of a city.                                                *)

(* The lines a text is made of.                                            *)
Lines ==
    [key : FileKeys \ {"bbox"}, value : FileWords, comment : FileComments]
        \cup [key : {"bbox"}, value : Squares, comment : FileComments]

(* A text is a list of lines, and what is not of the box says a word.      *)
LEMMA TextIs ==
  ASSUME NEW text \in Texts
  PROVE  /\ text \in Seq(Lines) /\ Len(text) \in Nat /\ DOMAIN text = 1..Len(text)
         /\ text # Nowhere
         /\ \A i \in DOMAIN text : text[i] \in Lines
<1>1. text \in Seq(Lines)
  BY DEF Texts, Lines
<1>2. \A i \in 1..Len(text) : text[i] \in Lines
  BY <1>1
<1> QED
  BY <1>1, <1>2, CityAssumption

(* Setting a line leaves every other line, and its own key and comment.    *)
LEMMA Rewritten ==
  ASSUME NEW text \in Texts, NEW k \in FileKeys \cup {"bbox"}, CanRewrite(text, k),
         NEW v, IF k = "bbox" THEN v \in Squares ELSE v \in FileWords,
         NEW text2, text2 = RewriteScalar(text, k, v)
  PROVE  /\ text2 \in Texts /\ Len(text2) = Len(text) /\ text2 # <<>>
         /\ \A i \in DOMAIN text : /\ text2[i].key = text[i].key
                                   /\ text2[i].comment = text[i].comment
                                   /\ text[i].key = k => text2[i].value = v
                                   /\ text[i].key # k => text2[i].value = text[i].value
<1>1. /\ text \in Seq(Lines) /\ Len(text) \in Nat /\ DOMAIN text = 1..Len(text)
      /\ \A i \in DOMAIN text : text[i] \in Lines
  BY TextIs
<1>2. PICK at \in DOMAIN text : LinesOf(text, k) = {at}
  BY DEF CanRewrite
<1>3. text[at].key = k /\ \A i \in DOMAIN text : i # at => text[i].key # k
  BY <1>2 DEF LinesOf
<1>4. text2 = [text EXCEPT ![at].value = v]
  BY <1>2 DEF RewriteScalar
<1> DEFINE line == [text[at] EXCEPT !.value = v]
<1>5. line \in Lines /\ line.key = text[at].key /\ line.comment = text[at].comment /\ line.value = v
  <2>1. CASE k = "bbox"
    <3>1. text[at] \in [key : {"bbox"}, value : Squares, comment : FileComments]
      BY <1>1, <1>3, <2>1 DEF Lines
    <3>2. line \in [key : {"bbox"}, value : Squares, comment : FileComments]
      BY <3>1, <2>1
    <3> QED
      BY <3>1, <3>2 DEF Lines
  <2>2. CASE k # "bbox"
    <3>1. text[at] \in [key : FileKeys \ {"bbox"}, value : FileWords, comment : FileComments]
      BY <1>1, <1>3, <2>2 DEF Lines
    <3>2. line \in [key : FileKeys \ {"bbox"}, value : FileWords, comment : FileComments]
      BY <3>1, <2>2
    <3> QED
      BY <3>1, <3>2 DEF Lines
  <2> QED
    BY <2>1, <2>2
<1>6. text2 = [text EXCEPT ![at] = line]
  BY <1>4
<1> HIDE DEF line
<1>7. text2 \in Seq(Lines) /\ Len(text2) = Len(text) /\ DOMAIN text2 = DOMAIN text
      /\ text2[at] = line /\ \A i \in DOMAIN text : i # at => text2[i] = text[i]
  BY <1>1, <1>5, <1>6, ExceptSeq
<1>8. text2 # <<>>
  BY <1>1, <1>2, <1>7
<1> QED
  BY <1>3, <1>5, <1>7, <1>8 DEF Texts, Lines

(* Putting a line between two leaves the others.                           *)
LEMMA Inserted ==
  ASSUME NEW text \in Texts, NEW at \in Nat, at \in DOMAIN text, NEW line \in Lines,
         NEW text2, text2 = InsertAt(text, at + 1, line)
  PROVE  /\ text2 \in Texts /\ Len(text2) = Len(text) + 1 /\ text2 # <<>>
         /\ \A i \in 1..at : text2[i] = text[i]
         /\ text2[at + 1] = line
         /\ \A i \in at + 1..Len(text) : text2[i + 1] = text[i]
<1>1. text \in Seq(Lines) /\ Len(text) \in Nat /\ at \in 1..Len(text) /\ at >= 1 /\ at <= Len(text)
  BY TextIs
<1> DEFINE n == Len(text)
           before == SubSeq(text, 1, at)  after == SubSeq(text, at + 1, n)  mid == <<line>>
<1>2. /\ before \in Seq(Lines) /\ Len(before) = at
      /\ \A i \in 1..at : before[i] = text[i]
  BY <1>1, SubSeqProperties
<1>3. /\ after \in Seq(Lines) /\ Len(after) = n - at
      /\ \A i \in 1..n - at : after[i] = text[at + i]
  <2>1. CASE at + 1 <= n
    <3>1. after \in Seq(Lines) /\ Len(after) = n - (at + 1) + 1
          /\ \A i \in 1..n - (at + 1) + 1 : after[i] = text[at + 1 + i - 1]
      BY <1>1, <2>1, SubSeqProperties
    <3> QED
      BY <1>1, <3>1
  <2>2. CASE at + 1 > n
    BY <1>1, <2>2, SubSeqProperties
  <2> QED
    BY <1>1, <2>1, <2>2
<1>4. mid \in Seq(Lines) /\ Len(mid) = 1 /\ mid[1] = line
  OBVIOUS
<1>5. text2 = (before \o mid) \o after
  <2>1. (at + 1) - 1 = at
    BY <1>1
  <2>2. text2 = SubSeq(text, 1, (at + 1) - 1) \o <<line>> \o SubSeq(text, at + 1, Len(text))
    BY DEF InsertAt
  <2> QED
    BY <2>1, <2>2
<1> HIDE DEF before, after, mid, n
<1>6. PICK most : most = before \o mid
  OBVIOUS
<1>7. /\ most \in Seq(Lines) /\ Len(most) = at + 1
      /\ \A i \in 1..at : most[i] = text[i]
      /\ most[at + 1] = line
  <2>1. /\ most \in Seq(Lines) /\ Len(most) = Len(before) + Len(mid)
        /\ \A i \in 1..Len(before) + Len(mid) :
             most[i] = IF i <= Len(before) THEN before[i] ELSE mid[i - Len(before)]
    BY <1>2, <1>4, <1>6, ConcatProperties
  <2>2. at + 1 \in 1..at + 1 /\ (at + 1) - at = 1 /\ ~(at + 1 <= at)
    BY <1>1
  <2>3. \A i \in 1..at : i \in 1..at + 1 /\ i <= at
    BY <1>1
  <2> QED
    BY <1>1, <1>2, <1>4, <2>1, <2>2, <2>3
<1>8. /\ text2 \in Seq(Lines) /\ Len(text2) = n + 1
      /\ \A i \in 1..at + 1 : text2[i] = most[i]
      /\ \A i \in 1..n - at : text2[at + 1 + i] = after[i]
  <2>1. /\ text2 \in Seq(Lines) /\ Len(text2) = Len(most) + Len(after)
        /\ \A i \in 1..Len(most) + Len(after) :
             text2[i] = IF i <= Len(most) THEN most[i] ELSE after[i - Len(most)]
    <3>1. text2 = most \o after
      BY <1>5, <1>6
    <3>2. most \in Seq(Lines) /\ after \in Seq(Lines)
      BY <1>3, <1>7
    <3> QED
      BY <3>1, <3>2, ConcatProperties
  <2>2. (at + 1) + (n - at) = n + 1 /\ n \in Nat
    BY <1>1 DEF n
  <2>3. \A i \in 1..at + 1 : i \in 1..n + 1 /\ i <= at + 1
    BY <1>1 DEF n
  <2>4. \A i \in 1..n - at : /\ at + 1 + i \in 1..n + 1 /\ ~(at + 1 + i <= at + 1)
                            /\ (at + 1 + i) - (at + 1) = i
    BY <1>1 DEF n
  <2> QED
    BY <1>3, <1>7, <2>1, <2>2, <2>3, <2>4
<1>9. \A i \in at + 1..n : text2[i + 1] = text[i]
  <2> TAKE i \in at + 1..n
  <2>1. i - at \in 1..n - at /\ at + 1 + (i - at) = i + 1 /\ at + (i - at) = i
    BY <1>1 DEF n
  <2> QED
    BY <1>3, <1>8, <2>1
<1>10. text2 # <<>> /\ text2[at + 1] = line
  BY <1>1, <1>7, <1>8 DEF n
<1> QED
  BY <1>1, <1>7, <1>8, <1>9, <1>10 DEF n, Texts, Lines

(* A text whose lines have the keys and comments of another's has its      *)
(* comments and its lines of every key.                                    *)
LEMMA SameNotes ==
  ASSUME NEW text, NEW text2, DOMAIN text2 = DOMAIN text,
         \A i \in DOMAIN text : text2[i].key = text[i].key /\ text2[i].comment = text[i].comment
  PROVE  NotesOf(text2) = NotesOf(text) /\ \A k : LinesOf(text2, k) = LinesOf(text, k)
<1>1. \A k : LinesOf(text2, k) = LinesOf(text, k)
  BY DEF LinesOf
<1>2. \A pair : pair \in NotesOf(text2) <=> pair \in NotesOf(text)
  BY DEF NotesOf
<1> QED
  BY <1>1, <1>2

(* The one line of a key is the one that counts.                           *)
LEMMA OneLine ==
  ASSUME NEW text, NEW k, NEW at \in Nat, LinesOf(text, k) = {at}
  PROVE  ValueOf(text, k) = text[at].value
<1>1. \A i \in LinesOf(text, k) : i = at
  OBVIOUS
<1>2. at \in LinesOf(text, k) /\ \A j \in LinesOf(text, k) : j <= at
  OBVIOUS
<1>3. (CHOOSE i \in LinesOf(text, k) : \A j \in LinesOf(text, k) : j <= i) = at
  BY <1>1, <1>2
<1> QED
  BY <1>3 DEF ValueOf

(* An edit of one setting: the same comments, the box as it was.           *)
LEMMA Edited ==
  ASSUME NEW text \in Texts, NEW s \in Settings, CanRewrite(text, s[1]),
         NEW text2, text2 = RewriteScalar(text, s[1], s[2])
  PROVE  /\ text2 \in Texts /\ text2 # <<>> /\ text # <<>>
         /\ NotesOf(text2) = NotesOf(text)
         /\ LinesOf(text2, "area") = LinesOf(text, "area")
         /\ LinesOf(text, "bbox") # {} => ValueOf(text2, "bbox") = ValueOf(text, "bbox")
<1>1. PICK k, v : k = s[1] /\ v = s[2]
  OBVIOUS
<1>2. k \notin {"bbox", "area"} /\ v \in FileWords
  BY <1>1, CityAssumption DEF FileWords
<1>3. PICK at \in DOMAIN text : LinesOf(text, k) = {at} /\ text[at].key = k
  BY <1>1 DEF CanRewrite, LinesOf
<1>4. /\ Len(text) \in Nat /\ DOMAIN text = 1..Len(text) /\ text # <<>>
      /\ \A i \in DOMAIN text : text[i] \in Lines
  BY <1>3, TextIs
<1>5. k \in FileKeys
  BY <1>2, <1>3, <1>4 DEF Lines
<1>6. /\ text2 \in Texts /\ Len(text2) = Len(text) /\ text2 # <<>>
      /\ \A i \in DOMAIN text : /\ text2[i].key = text[i].key
                                /\ text2[i].comment = text[i].comment
                                /\ text[i].key # k => text2[i].value = text[i].value
  BY <1>1, <1>2, <1>5, Rewritten
<1>7. DOMAIN text2 = DOMAIN text
  BY <1>4, <1>6, TextIs
<1>8. NotesOf(text2) = NotesOf(text) /\ \A j : LinesOf(text2, j) = LinesOf(text, j)
  BY <1>6, <1>7, SameNotes
<1>9. ASSUME LinesOf(text, "bbox") # {} PROVE ValueOf(text2, "bbox") = ValueOf(text, "bbox")
  <2> DEFINE lines == LinesOf(text, "bbox")
  <2>1. lines \in SUBSET Nat /\ \A i \in lines : i <= Len(text)
    BY <1>4 DEF LinesOf
  <2>2. PICK at2 \in lines : \A j \in lines : j <= at2
    BY <1>4, <1>9, <2>1, Largest
  <2>3. PICK chosen : chosen = CHOOSE i \in lines : \A j \in lines : j <= i
    OBVIOUS
  <2>4. chosen \in lines
    BY <2>2, <2>3
  <2>5. text2[chosen].value = text[chosen].value
    BY <1>2, <1>6, <2>4 DEF LinesOf
  <2> QED
    BY <1>8, <2>3, <2>5 DEF ValueOf
<1> QED
  BY <1>4, <1>6, <1>8, <1>9

(* An area applied: the same comments, the box in its digits, and a city   *)
(* that could be loaded still can.                                         *)
LEMMA Configured ==
  ASSUME NEW text \in Texts, CanRewriteConfig(text), NEW exact,
         NEW box \in Squares, box = BboxLiteral(exact),
         NEW text2, text2 = RewriteConfig(text, exact)
  PROVE  /\ text2 \in Texts /\ text2 # <<>> /\ text # <<>>
         /\ NotesOf(text2) = NotesOf(text)
         /\ ValueOf(text2, "bbox") = box
         /\ LoadCity(text) /\ box \notin Unfit => LoadCity(text2)
<1>1. PICK at \in DOMAIN text : LinesOf(text, "bbox") = {at}
  BY DEF CanRewriteConfig
<1>2. /\ Len(text) \in Nat /\ DOMAIN text = 1..Len(text) /\ at \in Nat /\ text # <<>> /\ text # Nowhere
      /\ \A i \in DOMAIN text : text[i] \in Lines
  BY <1>1, TextIs
<1>3. PICK boxed : boxed = RewriteScalar(text, "bbox", box)
  OBVIOUS
<1>4. CanRewrite(text, "bbox")
  BY <1>1, <1>2 DEF CanRewrite
<1>5. /\ boxed \in Texts /\ Len(boxed) = Len(text)
      /\ \A i \in DOMAIN text : /\ boxed[i].key = text[i].key
                                /\ boxed[i].comment = text[i].comment
                                /\ text[i].key = "bbox" => boxed[i].value = box
                                /\ text[i].key # "bbox" => boxed[i].value = text[i].value
  BY <1>3, <1>4, Rewritten
<1>6. DOMAIN boxed = DOMAIN text
  BY <1>2, <1>5, TextIs
<1>7. NotesOf(boxed) = NotesOf(text) /\ \A k : LinesOf(boxed, k) = LinesOf(text, k)
  BY <1>5, <1>6, SameNotes
<1>8. boxed[at].key = "bbox" /\ boxed[at].value = box
  BY <1>1, <1>5 DEF LinesOf
<1>9. "here" \in FileWords /\ "area" \in FileKeys /\ NoComment \in FileComments
  BY DEF FileWords, FileKeys, FileComments
<1>10. (CHOOSE i \in LinesOf(text, "bbox") : TRUE) = at
  BY <1>1
<1>11. CASE LinesOf(text, "area") # {}
  <2>1. text2 = RewriteScalar(boxed, "area", "here")
    BY <1>3, <1>11 DEF RewriteConfig
  <2>2. CanRewrite(boxed, "area")
    <3>1. PICK i \in LinesOf(text, "area") : LinesOf(text, "area") = {i}
      BY <1>11 DEF CanRewriteConfig
    <3>2. i \in DOMAIN boxed /\ LinesOf(boxed, "area") = {i} /\ boxed # Nowhere
      BY <1>5, <1>6, <1>7, <3>1, TextIs DEF LinesOf
    <3> QED
      BY <3>2 DEF CanRewrite
  <2>3. /\ text2 \in Texts /\ Len(text2) = Len(boxed) /\ text2 # <<>>
        /\ \A i \in DOMAIN boxed : /\ text2[i].key = boxed[i].key
                                   /\ text2[i].comment = boxed[i].comment
                                   /\ boxed[i].key = "area" => text2[i].value = "here"
                                   /\ boxed[i].key # "area" => text2[i].value = boxed[i].value
    BY <1>5, <1>9, <2>1, <2>2, Rewritten
  <2>4. DOMAIN text2 = DOMAIN text
    BY <1>2, <1>5, <2>3, TextIs
  <2>5. NotesOf(text2) = NotesOf(boxed) /\ \A k : LinesOf(text2, k) = LinesOf(boxed, k)
    BY <1>6, <2>3, <2>4, SameNotes
  <2>6. ValueOf(text2, "bbox") = box
    <3>1. LinesOf(text2, "bbox") = {at} /\ text2[at].value = box
      BY <1>1, <1>6, <1>7, <1>8, <2>3, <2>5
    <3> QED
      BY <1>2, <3>1, OneLine
  <2>7. ASSUME LoadCity(text), box \notin Unfit PROVE LoadCity(text2)
    <3>1. text2 # Nowhere /\ \A k \in Required : LinesOf(text2, k) # {}
      BY <1>7, <2>3, <2>5, <2>7, TextIs DEF LoadCity
    <3>2. \A i \in DOMAIN text2 : text2[i].value \in {box, "here", text[i].value}
      BY <1>5, <1>6, <2>3, <2>4
    <3>3. \A i \in DOMAIN text2 : text2[i].value \notin Unfit
      BY <2>4, <2>7, <3>2, CityAssumption DEF LoadCity
    <3> QED
      BY <3>1, <3>3 DEF LoadCity
  <2> QED
    BY <1>2, <1>7, <2>3, <2>5, <2>6, <2>7
<1>12. CASE LinesOf(text, "area") = {}
  <2> DEFINE line == Line("area", "here", NoComment)
  <2>1. text2 = InsertAt(boxed, at + 1, line)
    BY <1>3, <1>10, <1>12 DEF RewriteConfig
  <2>2. line \in Lines /\ line.key = "area" /\ line.value = "here" /\ line.comment = NoComment
    BY <1>9 DEF Line, Lines
  <2> HIDE DEF line
  <2>3. /\ text2 \in Texts /\ Len(text2) = Len(boxed) + 1 /\ text2 # <<>>
        /\ \A i \in 1..at : text2[i] = boxed[i]
        /\ text2[at + 1] = line
        /\ \A i \in at + 1..Len(boxed) : text2[i + 1] = boxed[i]
    <3>1. boxed \in Texts /\ at \in DOMAIN boxed /\ line \in Lines
      BY <1>1, <1>5, <1>6, <2>2
    <3> QED
      BY <2>1, <3>1, Inserted
  <2>4. /\ DOMAIN text2 = 1..Len(text) + 1 /\ DOMAIN boxed = 1..Len(text) /\ at \in 1..Len(text)
        /\ at >= 1 /\ at <= Len(text)
    BY <1>1, <1>2, <1>5, <1>6, <2>3, TextIs
  <2>5. \A i \in DOMAIN boxed : \E j \in DOMAIN text2 : text2[j] = boxed[i]
    <3> TAKE i \in DOMAIN boxed
    <3>1. CASE i <= at
      BY <1>2, <2>3, <2>4, <3>1
    <3>2. CASE ~(i <= at)
      <4>1. i \in at + 1..Len(boxed) /\ i + 1 \in 1..Len(text) + 1
        BY <1>2, <1>5, <2>4, <3>2
      <4> QED
        BY <2>3, <2>4, <4>1
    <3> QED
      BY <3>1, <3>2
  <2>6. \A j \in DOMAIN text2 : j = at \/ text2[j] = line \/ \E i \in DOMAIN boxed : i # at /\ text2[j] = boxed[i]
    <3> TAKE j \in DOMAIN text2
    <3>1. CASE j <= at
      BY <1>2, <2>3, <2>4, <3>1
    <3>2. CASE j = at + 1
      BY <2>3, <3>2
    <3>3. CASE j > at + 1
      <4>1. j - 1 \in at + 1..Len(boxed) /\ (j - 1) + 1 = j /\ j - 1 # at /\ j - 1 \in 1..Len(text)
        BY <1>2, <1>5, <2>4, <3>3
      <4> QED
        BY <2>3, <2>4, <4>1
    <3> QED
      BY <1>2, <2>4, <3>1, <3>2, <3>3
  <2>7. at \in DOMAIN text2 /\ text2[at] = boxed[at]
    BY <1>2, <2>3, <2>4
  <2>8. NotesOf(text2) = NotesOf(boxed)
    <3>1. \A i \in DOMAIN boxed : boxed[i].comment # NoComment =>
              <<boxed[i].key, boxed[i].comment>> \in NotesOf(text2)
      BY <2>5 DEF NotesOf
    <3>2. \A j \in DOMAIN text2 : text2[j].comment # NoComment =>
              \E i \in DOMAIN boxed : text2[j] = boxed[i]
      BY <1>1, <1>6, <2>2, <2>6, <2>7
    <3>3. NotesOf(text2) \subseteq NotesOf(boxed)
      BY <3>2 DEF NotesOf
    <3>4. NotesOf(boxed) \subseteq NotesOf(text2)
      BY <3>1 DEF NotesOf
    <3> QED
      BY <3>3, <3>4
  <2>9. ValueOf(text2, "bbox") = box
    <3>1. \A i \in DOMAIN boxed : boxed[i].key = "bbox" => i = at
      BY <1>1, <1>5, <1>6 DEF LinesOf
    <3>2. \A j \in DOMAIN text2 : text2[j].key = "bbox" => j = at
      BY <2>2, <2>6, <3>1
    <3>3. LinesOf(text2, "bbox") = {at} /\ text2[at].value = box
      BY <1>8, <2>7, <3>2 DEF LinesOf
    <3> QED
      BY <1>2, <3>3, OneLine
  <2>10. ASSUME LoadCity(text), box \notin Unfit PROVE LoadCity(text2)
    <3>1. text2 # Nowhere
      BY <2>3, TextIs
    <3>2. \A k \in Required : LinesOf(text2, k) # {}
      <4> TAKE k \in Required
      <4>1. PICK i \in DOMAIN boxed : boxed[i].key = k
        BY <1>7, <2>10 DEF LoadCity, LinesOf
      <4>2. PICK j \in DOMAIN text2 : text2[j] = boxed[i]
        BY <2>5
      <4> QED
        BY <4>1, <4>2 DEF LinesOf
    <3>3. \A i \in DOMAIN boxed : boxed[i].value \notin Unfit
      <4> TAKE i \in DOMAIN boxed
      <4>1. boxed[i].value \in {box, text[i].value}
        BY <1>5, <1>6
      <4> QED
        BY <1>6, <2>10, <4>1 DEF LoadCity
    <3>4. \A j \in DOMAIN text2 : text2[j].value \notin Unfit
      BY <2>2, <2>6, <2>7, <1>1, <1>6, <3>3, CityAssumption
    <3> QED
      BY <3>1, <3>2, <3>4 DEF LoadCity
  <2> QED
    BY <1>2, <1>7, <2>3, <2>8, <2>9, <2>10
<1> QED
  BY <1>11, <1>12

(* A number written is as far off as half of its last digit, or exact.     *)
LEMMA NumberIsNear ==
  ASSUME NEW v \in Int, NEW half \in Nat \ {0}
  PROVE  /\ Number(v, half) \in Int /\ Number(v, half) <= v + half /\ v <= Number(v, half) + half
         /\ IsWhole(v) => Number(v, half) = v
<1> DEFINE unit == 2 * half  q == v \div unit
<1>1. unit \in Nat \ {0}
  OBVIOUS
<1>2. q \in Int /\ unit * q <= v /\ v < unit * q + unit
  BY <1>1, Quotients
<1>3. PICK low \in Int : low = q * unit /\ low <= v /\ v < low + 2 * half
  BY <1>1, <1>2
<1>4. PICK even \in BOOLEAN : even = (q % 2 = 0)
  OBVIOUS
<1>5. Number(v, half) = IF IsWhole(v) THEN v
                        ELSE IF v - q * unit < half \/ (v - q * unit = half /\ even)
                             THEN q * unit ELSE q * unit + unit
  BY <1>4 DEF Number
<1>6. \/ IsWhole(v) /\ Number(v, half) = v
      \/ ~IsWhole(v) /\ v - low <= half /\ Number(v, half) = low
      \/ ~IsWhole(v) /\ v - low >= half /\ Number(v, half) = low + 2 * half
  BY <1>1, <1>3, <1>5
<1> HIDE DEF unit, q
<1> QED
  BY <1>3, <1>6

(* Whole pixels of whole metres are whole metres.                          *)
LEMMA WholePixels ==
  ASSUME NEW side \in Nat \ {0}, IsWhole(side), NEW h \in Int
  PROVE  IsWhole(h * side)
<1>0. Metre \in Nat \ {0}
  BY CityAssumption
<1>1. PICK m \in Int : m = side \div Metre /\ side = m * Metre
  BY <1>0, Quotients DEF IsWhole
<1>2. PICK k \in Int : k = h * m
  BY <1>1
<1>3. h * side = k * Metre
  BY <1>0, <1>1, <1>2
<1>4. PICK n \in Int : n = k * Metre
  BY <1>0, <1>2
<1>5. PICK q \in Int : q = n \div Metre /\ Metre * q <= n /\ n < Metre * q + Metre
  BY <1>0, <1>4, Quotients
<1>6. PICK r \in Int : r = q * Metre /\ r <= n /\ n < r + Metre
  BY <1>0, <1>5
<1>7. ASSUME q < k PROVE FALSE
  <2>1. (q + 1) * Metre <= k * Metre
    BY <1>0, <1>2, <1>5, <1>7, TimesGrows
  <2>2. (q + 1) * Metre = r + Metre
    BY <1>0, <1>5, <1>6
  <2> QED
    BY <1>0, <1>4, <1>6, <2>1, <2>2
<1>8. ASSUME k < q PROVE FALSE
  <2>1. (k + 1) * Metre <= q * Metre
    BY <1>0, <1>2, <1>5, <1>8, TimesGrows
  <2>2. (k + 1) * Metre = n + Metre
    BY <1>0, <1>2, <1>4
  <2> QED
    BY <1>0, <1>4, <1>6, <2>1, <2>2
<1>9. q = k
  BY <1>2, <1>5, <1>7, <1>8
<1> QED
  BY <1>3, <1>4, <1>5, <1>6, <1>9 DEF IsWhole

(* The box of a drawing holds the polygon saved of it: exactly where a     *)
(* pixel is whole metres, and else but for the digits the box keeps.       *)
LEMMA Snapped ==
  ASSUME NEW d \in Outlines, NEW side \in Sides \cup {Metre}
  PROVE  /\ SnapBbox(d, side) \in Squares /\ AreaGeojson(d) \in Squares
         /\ BboxLiteral(SnapBbox(d, side)) \in Squares
         /\ Holds(SnapBbox(d, side), AreaGeojson(d), Grain, Grain)
         /\ Holds(SnapBbox(d, side), AreaGeojson(d), Grain + HalfEast, Grain + HalfNorth)
         /\ Holds(BboxLiteral(SnapBbox(d, side)), AreaGeojson(d), Grain + HalfEast, Grain + HalfNorth)
         /\ IsWhole(side) => BboxLiteral(SnapBbox(d, side)) = SnapBbox(d, side)
<1> DEFINE below(a) == (a \div side) * side
<1>1. /\ d.west \in Int /\ d.south \in Int /\ d.east \in Int /\ d.north \in Int
      /\ side \in Nat \ {0} /\ Grain \in Nat \ {0}
      /\ HalfEast \in Nat \ {0} /\ HalfNorth \in Nat \ {0}
  BY CityAssumption DEF Squares
<1>2. \A a \in Int :
        /\ below(a) \in Int /\ below(a) <= a /\ a < below(a) + side
        /\ IsWhole(side) => IsWhole(below(a)) /\ IsWhole(-below(a))
  <2> TAKE a \in Int
  <2> DEFINE q == a \div side
  <2>1. q \in Int /\ side * q <= a /\ a < side * q + side
    BY <1>1, Quotients
  <2> HIDE DEF q
  <2>2. PICK m \in Int : m = -q
    BY <2>1
  <2>3. q * side = side * q /\ q * side \in Int /\ m * side = -(q * side)
    BY <1>1, <2>1, <2>2
  <2>4. IsWhole(side) => IsWhole(q * side) /\ IsWhole(m * side)
    BY <1>1, <2>1, <2>2, WholePixels
  <2>5. IsWhole(side) => IsWhole(q * side) /\ IsWhole(-(q * side))
    BY <2>3, <2>4
  <2> QED
    BY <1>1, <2>1, <2>3, <2>5 DEF q
<1>3. \A v \in Int : Rounded(v) \in Int /\ Rounded(v) <= v + Grain /\ v <= Rounded(v) + Grain
  <2> TAKE v \in Int
  <2> DEFINE n == 2 * v + Grain  each == 2 * Grain  q == n \div each
  <2>1. n \in Int /\ each \in Nat \ {0}
    BY <1>1
  <2>2. q \in Int /\ each * q <= n /\ n < each * q + each
    BY <2>1, Quotients
  <2>3. Rounded(v) = q * Grain
    BY DEF Rounded
  <2> HIDE DEF q
  <2>4. PICK r \in Int : r = q * Grain /\ each * q = 2 * r
    BY <1>1, <2>2
  <2> QED
    BY <1>1, <2>2, <2>3, <2>4
<1>4. SnapBbox(d, side) = [west |-> below(d.west), south |-> below(d.south),
                           east |-> -below(-d.east), north |-> -below(-d.north)]
  BY DEF SnapBbox
<1> HIDE DEF below
<1>5. PICK w \in Int, s \in Int, e \in Int, n \in Int :
        /\ w = below(d.west) /\ s = below(d.south) /\ e = -below(-d.east) /\ n = -below(-d.north)
        /\ w <= d.west /\ d.west < w + side /\ s <= d.south
        /\ d.east <= e /\ e <= d.east + side /\ d.north <= n
        /\ IsWhole(side) => IsWhole(w) /\ IsWhole(s) /\ IsWhole(e) /\ IsWhole(n)
  <2>1. -d.east \in Int /\ -d.north \in Int
    BY <1>1
  <2>2. PICK x \in Int, y \in Int : x = -d.east /\ y = -d.north
    BY <2>1
  <2>6. /\ below(x) \in Int /\ below(x) <= x /\ x < below(x) + side
        /\ below(y) \in Int /\ below(y) <= y
        /\ IsWhole(side) => IsWhole(-below(x)) /\ IsWhole(-below(y))
    BY <1>2
  <2>7. /\ below(d.west) \in Int /\ below(d.west) <= d.west /\ d.west < below(d.west) + side
        /\ below(d.south) \in Int /\ below(d.south) <= d.south
        /\ IsWhole(side) => IsWhole(below(d.west)) /\ IsWhole(below(d.south))
    BY <1>1, <1>2
  <2>3. PICK w \in Int, s \in Int, e0 \in Int, n0 \in Int, e \in Int, n \in Int :
          /\ w = below(d.west) /\ s = below(d.south) /\ e0 = below(x) /\ n0 = below(y)
          /\ e = -e0 /\ n = -n0
    BY <2>6, <2>7
  <2>4. /\ w <= d.west /\ d.west < w + side /\ s <= d.south
        /\ d.east <= e /\ e <= d.east + side /\ d.north <= n
    BY <1>1, <2>2, <2>3, <2>6, <2>7
  <2>5. IsWhole(side) => IsWhole(w) /\ IsWhole(s) /\ IsWhole(e) /\ IsWhole(n)
    BY <2>3, <2>6, <2>7
  <2> QED
    BY <2>2, <2>3, <2>4, <2>5
<1>6. SnapBbox(d, side) = [west |-> w, south |-> s, east |-> e, north |-> n]
  BY <1>4, <1>5
<1>7. /\ AreaGeojson(d) = [west |-> Rounded(d.west), south |-> Rounded(d.south),
                           east |-> Rounded(d.east), north |-> Rounded(d.north)]
      /\ AreaGeojson(d) \in Squares
  BY <1>1, <1>3 DEF AreaGeojson, Squares
<1>8. PICK rw \in Int, rs \in Int, re \in Int, rn \in Int :
        rw = Rounded(d.west) /\ rs = Rounded(d.south) /\ re = Rounded(d.east) /\ rn = Rounded(d.north)
  BY <1>1, <1>3
<1>9. /\ rw <= d.west + Grain /\ d.west <= rw + Grain /\ rs <= d.south + Grain /\ d.south <= rs + Grain
      /\ re <= d.east + Grain /\ d.east <= re + Grain /\ rn <= d.north + Grain /\ d.north <= rn + Grain
  BY <1>1, <1>3, <1>8
<1>10. /\ w - Grain <= rw /\ s - Grain <= rs /\ re <= e + Grain /\ rn <= n + Grain
       /\ rw - w <= side + Grain /\ e - re <= side + Grain
  BY <1>1, <1>5, <1>9
<1>11. Holds(SnapBbox(d, side), AreaGeojson(d), Grain, Grain)
  BY <1>6, <1>7, <1>8, <1>10 DEF Holds
<1>18. Holds(SnapBbox(d, side), AreaGeojson(d), Grain + HalfEast, Grain + HalfNorth)
  <2>1. PICK x \in Int, y \in Int : x = Grain + HalfEast /\ y = Grain + HalfNorth
    BY <1>1
  <2>2. /\ w - x <= rw /\ s - y <= rs /\ re <= e + x /\ rn <= n + y
        /\ rw - w <= side + x /\ e - re <= side + x
    BY <1>1, <1>10, <2>1
  <2>3. Holds(SnapBbox(d, side), AreaGeojson(d), x, y)
    BY <1>6, <1>7, <1>8, <2>2 DEF Holds
  <2> QED
    BY <2>1, <2>3
<1>12. PICK lw \in Int, ls \in Int, le \in Int, ln \in Int :
         /\ lw = Number(w, HalfEast) /\ ls = Number(s, HalfNorth)
         /\ le = Number(e, HalfEast) /\ ln = Number(n, HalfNorth)
         /\ lw <= w + HalfEast /\ w <= lw + HalfEast /\ ls <= s + HalfNorth
         /\ e <= le + HalfEast /\ le <= e + HalfEast /\ n <= ln + HalfNorth
  BY <1>1, <1>5, NumberIsNear
<1>13. BboxLiteral(SnapBbox(d, side)) = [west |-> lw, south |-> ls, east |-> le, north |-> ln]
  BY <1>6, <1>12 DEF BboxLiteral
<1>14. PICK x \in Int, y \in Int : x = Grain + HalfEast /\ y = Grain + HalfNorth
  BY <1>1
<1>15. /\ lw - x <= rw /\ ls - y <= rs /\ re <= le + x /\ rn <= ln + y
       /\ rw - lw <= side + x /\ le - re <= side + x
  BY <1>1, <1>5, <1>10, <1>12, <1>14
<1>16. Holds(BboxLiteral(SnapBbox(d, side)), AreaGeojson(d), x, y)
  BY <1>7, <1>8, <1>13, <1>15 DEF Holds
<1>17. IsWhole(side) => lw = w /\ ls = s /\ le = e /\ ln = n
  BY <1>1, <1>5, <1>12, NumberIsNear
<1> QED
  BY <1>6, <1>7, <1>11, <1>13, <1>14, <1>16, <1>17, <1>18 DEF Squares

(* A box of a text that holds a polygon agrees with it.                    *)
LEMMA PairedBy ==
  ASSUME NEW text, NEW area \in Squares, NEW events,
         NEW box, ValueOf(text, "bbox") = box,
         Holds(box, area, Grain + HalfEast, Grain + HalfNorth),
         "coarse" \notin events => Holds(box, area, Grain, Grain)
  PROVE  Paired(text, area, events)
<1>1. Grain + 0 = Grain
  BY CityAssumption
<1>2. area # Nowhere
  BY CityAssumption
<1>3. area # <<>>
  <2>1. DOMAIN area = {"west", "south", "east", "north"}
    BY DEF Squares
  <2>2. "west" \in DOMAIN area /\ "west" \notin DOMAIN <<>>
    BY <2>1
  <2> QED
    BY <2>2
<1> QED
  BY <1>1, <1>2, <1>3 DEF Paired

(* A city registered: the comments of the template, whatever was drawn.    *)
LEMMA Registered ==
  ASSUME NEW d \in Outlines, NEW text, text = NewCityYaml(d)
  PROVE  /\ text \in Texts /\ text # <<>> /\ LoadCity(text) /\ ValueOf(text, "bbox") = SnapBbox(d, Metre)
         /\ \A e \in Outlines : NotesOf(NewCityYaml(e)) = NotesOf(text)
<1>1. /\ {"town", "local", "here"} \subseteq FileWords
      /\ {"name", "timezone", "area"} \subseteq FileKeys
      /\ {NoComment, "IANA", "metres", "inside"} \subseteq FileComments
  BY DEF FileWords, FileKeys, FileComments
<1>2. /\ Line("name", "town", NoComment) \in Lines /\ Line("timezone", "local", "IANA") \in Lines
      /\ Line("area", "here", "inside") \in Lines
      /\ \A e \in Outlines : Line("bbox", SnapBbox(e, Metre), "metres") \in Lines
  BY <1>1, Snapped DEF Line, Lines
<1>3. \A e \in Outlines : NewCityYaml(e) \in Seq(Lines) /\ Len(NewCityYaml(e)) = 4
        /\ NewCityYaml(e)[1] = Line("name", "town", NoComment)
        /\ NewCityYaml(e)[2] = Line("timezone", "local", "IANA")
        /\ NewCityYaml(e)[3] = Line("bbox", SnapBbox(e, Metre), "metres")
        /\ NewCityYaml(e)[4] = Line("area", "here", "inside")
  BY <1>2 DEF NewCityYaml
<1>4. \A e \in Outlines : DOMAIN NewCityYaml(e) = 1..4
  BY <1>3
<1>11. \A e \in Outlines :
         /\ NewCityYaml(e)[1].key = "name" /\ NewCityYaml(e)[1].comment = NoComment
         /\ NewCityYaml(e)[2].key = "timezone" /\ NewCityYaml(e)[2].comment = "IANA"
         /\ NewCityYaml(e)[3].key = "bbox" /\ NewCityYaml(e)[3].comment = "metres"
         /\ NewCityYaml(e)[4].key = "area" /\ NewCityYaml(e)[4].comment = "inside"
         /\ NewCityYaml(e)[1].value = "town" /\ NewCityYaml(e)[2].value = "local"
         /\ NewCityYaml(e)[3].value = SnapBbox(e, Metre) /\ NewCityYaml(e)[4].value = "here"
  <2> TAKE e \in Outlines
  <2>1. PICK y, a, b, c, f : /\ y = NewCityYaml(e) /\ a = y[1] /\ b = y[2] /\ c = y[3] /\ f = y[4]
    OBVIOUS
  <2>2. /\ a = Line("name", "town", NoComment) /\ b = Line("timezone", "local", "IANA")
        /\ c = Line("bbox", SnapBbox(e, Metre), "metres") /\ f = Line("area", "here", "inside")
    BY <1>3, <2>1
  <2>3. /\ a.key = "name" /\ a.comment = NoComment /\ b.key = "timezone" /\ b.comment = "IANA"
        /\ c.key = "bbox" /\ c.comment = "metres" /\ f.key = "area" /\ f.comment = "inside"
        /\ a.value = "town" /\ b.value = "local" /\ c.value = SnapBbox(e, Metre) /\ f.value = "here"
    BY <2>2 DEF Line
  <2> QED
    BY <2>1, <2>3
<1>5. text \in Texts /\ text # <<>> /\ text # Nowhere
  BY <1>3, TextIs DEF Texts, Lines
<1>6. \A e \in Outlines : NotesOf(NewCityYaml(e)) = NotesOf(text)
  <2> TAKE e \in Outlines
  <2>1. \A i \in 1..4 : i = 1 \/ i = 2 \/ i = 3 \/ i = 4
    OBVIOUS
  <2>2. \A i \in 1..4 : /\ NewCityYaml(e)[i].key = text[i].key
                        /\ NewCityYaml(e)[i].comment = text[i].comment
    BY <1>11, <2>1
  <2> QED
    BY <1>4, <2>2, SameNotes
<1>7. \A i \in 1..4 : i = 1 \/ i = 2 \/ i = 3 \/ i = 4
  OBVIOUS
<1>8. LinesOf(text, "bbox") = {3}
  BY <1>4, <1>7, <1>11 DEF LinesOf
<1>9. ValueOf(text, "bbox") = SnapBbox(d, Metre)
  <2>1. PICK at \in Nat : at = 3
    OBVIOUS
  <2>2. ValueOf(text, "bbox") = text[at].value
    BY <1>8, <2>1, OneLine
  <2> QED
    BY <1>11, <2>1, <2>2
<1>10. LoadCity(text)
  <2>1. \A k \in Required : LinesOf(text, k) # {}
    <3>1. 1 \in LinesOf(text, "name") /\ 2 \in LinesOf(text, "timezone")
      BY <1>4, <1>11 DEF LinesOf
    <3> QED
      BY <1>8, <3>1 DEF Required
  <2>2. \A i \in DOMAIN text : text[i].value \in {"town", "local", "here", SnapBbox(d, Metre)}
    BY <1>4, <1>7, <1>11
  <2>3. \A i \in DOMAIN text : text[i].value \notin Unfit
    BY <2>2, Snapped, CityAssumption
  <2> QED
    BY <1>5, <2>1, <2>3 DEF LoadCity
<1> QED
  BY <1>5, <1>6, <1>9, <1>10

(* What is written over another text has its own comments, and perhaps     *)
(* some of the other's; over nothing it is what was written.               *)
LEMMA Overwritten ==
  ASSUME NEW old \in Texts, NEW new \in Texts, new # <<>>, NEW text, text = Over(old, new)
  PROVE  /\ text \in Texts /\ text # <<>>
         /\ NotesOf(new) \subseteq NotesOf(text)
         /\ NotesOf(text) \subseteq NotesOf(new) \cup NotesOf(old)
         /\ old = <<>> => text = new
<1>1. /\ old \in Seq(Lines) /\ Len(old) \in Nat /\ DOMAIN old = 1..Len(old)
      /\ new \in Seq(Lines) /\ Len(new) \in Nat /\ DOMAIN new = 1..Len(new)
      /\ \A i \in DOMAIN old : old[i] \in Lines
  BY TextIs
<1>2. CASE Len(old) <= Len(new)
  BY <1>2 DEF Over
<1>3. CASE ~(Len(old) <= Len(new))
  <2> DEFINE m == Len(new)  n == Len(old)  rest == SubSeq(old, m + 1, n)
  <2>1. /\ rest \in Seq(Lines) /\ Len(rest) = n - m
        /\ \A i \in 1..n - m : rest[i] = old[m + i]
    <3>1. m + 1 <= n /\ m + 1 \in Int /\ n \in Int /\ \A i \in m + 1..n : old[i] \in Lines
      BY <1>1, <1>3
    <3>2. /\ rest \in Seq(Lines) /\ Len(rest) = n - (m + 1) + 1
          /\ \A i \in 1..n - (m + 1) + 1 : rest[i] = old[m + 1 + i - 1]
      BY <3>1, SubSeqProperties
    <3>3. n - (m + 1) + 1 = n - m /\ \A i \in 1..n - m : m + 1 + i - 1 = m + i
      BY <1>1
    <3> QED
      BY <3>2, <3>3
  <2>2. text = new \o rest
    BY <1>3 DEF Over
  <2> HIDE DEF rest
  <2>3. /\ text \in Seq(Lines) /\ Len(text) = Len(new) + Len(rest)
        /\ \A i \in 1..Len(new) + Len(rest) :
             text[i] = IF i <= Len(new) THEN new[i] ELSE rest[i - Len(new)]
    <3>1. new \in Seq(Lines) /\ rest \in Seq(Lines)
      BY <1>1, <2>1
    <3> QED
      BY <2>2, <3>1, ConcatProperties
  <2>4. Len(text) = n /\ DOMAIN text = 1..n /\ m \in Nat /\ n \in Nat /\ m < n
    BY <1>1, <1>3, <2>1, <2>3
  <2>5. \A i \in 1..n : IF i <= m THEN i \in 1..m /\ text[i] = new[i] ELSE text[i] = old[i]
    <3> TAKE i \in 1..n
    <3>1. CASE i <= m
      BY <2>1, <2>3, <2>4, <3>1
    <3>2. CASE ~(i <= m)
      <4>1. i - m \in 1..n - m /\ m + (i - m) = i
        BY <2>4, <3>2
      <4> QED
        BY <2>1, <2>3, <2>4, <3>2, <4>1
    <3> QED
      BY <3>1, <3>2
  <2>6. \A i \in 1..m : i \in 1..n /\ text[i] = new[i]
    BY <2>4, <2>5
  <2>7. NotesOf(new) \subseteq NotesOf(text)
    BY <1>1, <2>4, <2>6 DEF NotesOf
  <2>8. NotesOf(text) \subseteq NotesOf(new) \cup NotesOf(old)
    BY <1>1, <2>4, <2>5 DEF NotesOf
  <2>9. text # <<>> /\ old # <<>>
    BY <1>1, <2>4
  <2> QED
    BY <2>3, <2>7, <2>8, <2>9 DEF Texts, Lines
<1>4. old = <<>> => Len(old) <= Len(new)
  BY <1>1
<1> QED
  BY <1>2, <1>3, <1>4 DEF Over

(* What a command has still to write: the city, the polygon, one after the *)
(* other in either order.                                                  *)
Whole == Texts \ {<<>>}
CityAlone == {<<Write("city", t)>> : t \in Whole}
AreaAlone == {<<Write("area", a)>> : a \in Squares}
AreaFirst == UNION {{<<Write("area", a), Write("city", t)>> : t \in Whole} : a \in Squares}
CityFirst == UNION {{<<Write("city", t), Write("area", a)>> : t \in Whole} : a \in Squares}
Errands == CityAlone \cup AreaAlone \cup AreaFirst \cup CityFirst

(* The texts of the city among them.                                       *)
CityTexts(todo) == {todo[i].what : i \in {j \in DOMAIN todo : todo[j].to = "city"}}

(* What comes first of an errand, and what is left after it.               *)
LEMMA ErrandsAre ==
  ASSUME NEW t \in Whole, NEW a \in Squares
  PROVE  /\ Head(<<Write("city", t)>>) = Write("city", t) /\ Tail(<<Write("city", t)>>) = <<>>
         /\ Head(<<Write("area", a)>>) = Write("area", a) /\ Tail(<<Write("area", a)>>) = <<>>
         /\ Head(<<Write("area", a), Write("city", t)>>) = Write("area", a)
         /\ Tail(<<Write("area", a), Write("city", t)>>) = <<Write("city", t)>>
         /\ Head(<<Write("city", t), Write("area", a)>>) = Write("city", t)
         /\ Tail(<<Write("city", t), Write("area", a)>>) = <<Write("area", a)>>
         /\ Write("city", t).to = "city" /\ Write("city", t).what = t
         /\ Write("area", a).to = "area" /\ Write("area", a).what = a
         /\ CityTexts(<<>>) = {} /\ CityTexts(<<Write("area", a)>>) = {}
         /\ CityTexts(<<Write("city", t)>>) = {t}
         /\ CityTexts(<<Write("area", a), Write("city", t)>>) = {t}
         /\ CityTexts(<<Write("city", t), Write("area", a)>>) = {t}
         /\ <<Write("city", t)>> # <<>> /\ <<Write("area", a)>> # <<>>
<1>1. PICK c, b : c = Write("city", t) /\ b = Write("area", a)
  OBVIOUS
<1>2. c.to = "city" /\ c.what = t /\ b.to = "area" /\ b.what = a
  BY <1>1 DEF Write
<1>3. /\ Head(<<c>>) = c /\ Tail(<<c>>) = <<>> /\ Head(<<b>>) = b /\ Tail(<<b>>) = <<>>
      /\ Head(<<b, c>>) = b /\ Tail(<<b, c>>) = <<c>> /\ Head(<<c, b>>) = c /\ Tail(<<c, b>>) = <<b>>
      /\ <<c>> # <<>> /\ <<b>> # <<>>
  OBVIOUS
<1>4. CityTexts(<<>>) = {} /\ CityTexts(<<b>>) = {} /\ CityTexts(<<c>>) = {t}
  BY <1>2 DEF CityTexts
<1>5. CityTexts(<<b, c>>) = {t}
  <2>1. PICK s : s = <<b, c>>
    OBVIOUS
  <2>2. DOMAIN s = 1..2 /\ s[1] = b /\ s[2] = c
    BY <2>1
  <2>3. \A i \in 1..2 : i = 1 \/ i = 2
    OBVIOUS
  <2> QED
    BY <1>2, <2>1, <2>2, <2>3 DEF CityTexts
<1>6. CityTexts(<<c, b>>) = {t}
  <2>1. PICK s : s = <<c, b>>
    OBVIOUS
  <2>2. DOMAIN s = 1..2 /\ s[1] = c /\ s[2] = b
    BY <2>1
  <2>3. \A i \in 1..2 : i = 1 \/ i = 2
    OBVIOUS
  <2> QED
    BY <1>2, <2>1, <2>2, <2>3 DEF CityTexts
<1> QED
  BY <1>1, <1>2, <1>3, <1>4, <1>5, <1>6

CityTyped ==
    /\ cityText \in Texts \cup {Nowhere} /\ slips \subseteq {"killed", "together", "coarse"}
    /\ hands \in [Commands -> [at : {"idle", "priced", "writing", "opened"},
                               goal : Outlines \cup {Nowhere}, todo : Errands \cup {<<>>}]]
    /\ \A p \in Commands :
         /\ hands[p].at \in {"writing", "opened"} => hands[p].todo \in Errands
         /\ hands[p].at \in {"idle", "priced"} => hands[p].todo = <<>>
         /\ hands[p].at = "priced" => hands[p].goal \in Outlines
         /\ hands[p].at = "opened" /\ Head(hands[p].todo).to = "city" => cityText # Nowhere

(* Every text there is or will be has the same comments.                   *)
Worded(N) ==
    /\ notes \subseteq N
    /\ cityText \notin {Nowhere, <<>>} => NotesOf(cityText) = N
    /\ cityText = Nowhere => \A d \in Outlines : NotesOf(NewCityYaml(d)) = N
    /\ \A p \in Commands : \A t \in CityTexts(hands[p].todo) : NotesOf(t) = N

(* A city that can be loaded, and its box holds its area.                  *)
Sound(text, area, events) == text # Nowhere /\ LoadCity(text) /\ Paired(text, area, events)

(* Where an errand ends, if nobody gets in its way.                        *)
Ends(todo, text, area, events) ==
    \/ \E t \in Whole : todo = <<Write("city", t)>> /\ Sound(t, area, events)
    \/ \E a \in Squares : todo = <<Write("area", a)>> /\ Sound(text, a, events)
    \/ \E a \in Squares, t \in Whole :
         /\ todo \in {<<Write("area", a), Write("city", t)>>, <<Write("city", t), Write("area", a)>>}
         /\ Sound(t, a, events)

(* One command at a time, none killed: what it found was sound, and so     *)
(* will be what it leaves.                                                 *)
Calm(events) == events \subseteq {"coarse"}
Orderly ==
    Calm(slips) =>
      /\ \A p, q \in Commands : ~Resting(p) /\ ~Resting(q) => p = q
      /\ \A p \in Commands :
           /\ hands[p].at = "priced" => Sound(cityText, areaFile, slips)
           /\ hands[p].at \in {"writing", "opened"} => Ends(hands[p].todo, cityText, areaFile, slips)
           /\ hands[p].at = "opened" /\ Head(hands[p].todo).to = "city" => cityText = <<>>
      /\ (\A p \in Commands : Resting(p)) => cityText = Nowhere \/ Sound(cityText, areaFile, slips)

CityInv == CityTyped /\ Orderly /\ \E N : Worded(N)

(* A city one person wrote, or none yet.                                   *)
LEMMA InitCity == CityInit => CityInv
<1> SUFFICES ASSUME CityInit PROVE CityInv
  OBVIOUS
<1>1. hands = [p \in Commands |-> Idle] /\ slips = {}
  BY DEF CityInit
<1>2. \A p \in Commands : /\ hands[p].at = "idle" /\ hands[p].todo = <<>> /\ hands[p].goal = Nowhere
                          /\ Resting(p)
  BY <1>1 DEF Idle, Resting
<1>3. PICK h \in HandFiles \cup {[text |-> Nowhere, area |-> Nowhere]} :
        /\ cityText = h.text /\ areaFile = h.area
        /\ notes = IF h.text = Nowhere THEN {} ELSE NotesOf(h.text)
  BY DEF CityInit
<1>4. (cityText \in Texts /\ Sound(cityText, areaFile, {})) \/ cityText = Nowhere
  BY <1>3, TextIs, CityAssumption DEF Sound
<1>5. CityTyped
  BY <1>1, <1>2, <1>4 DEF CityTyped, Idle
<1>6. Orderly
  BY <1>1, <1>2, <1>4 DEF Orderly
<1>7. \A p \in Commands : CityTexts(hands[p].todo) = {}
  BY <1>2 DEF CityTexts
<1>8. \E N : Worded(N)
  <2>1. CASE cityText # Nowhere
    BY <1>3, <1>7, <2>1 DEF Worded
  <2>2. CASE cityText = Nowhere
    <3>1. CASE Outlines = {}
      BY <1>3, <1>7, <2>2, <3>1 DEF Worded
    <3>2. CASE Outlines # {}
      <4>1. PICK d \in Outlines : TRUE
        BY <3>2
      <4>2. \A e \in Outlines : NotesOf(NewCityYaml(e)) = NotesOf(NewCityYaml(d))
        BY Registered
      <4>3. Worded(NotesOf(NewCityYaml(d)))
        BY <1>3, <1>7, <2>2, <4>2 DEF Worded
      <4> QED
        BY <4>3
    <3> QED
      BY <3>1, <3>2
  <2> QED
    BY <2>1, <2>2
<1> QED
  BY <1>5, <1>6, <1>8 DEF CityInv

(* A command takes up an errand, or drops it, and touches no file.         *)
LEMMA TakesUp ==
  ASSUME CityInv, NEW p \in Commands,
         NEW h \in [at : {"idle", "priced", "writing"}, goal : Outlines \cup {Nowhere},
                    todo : Errands \cup {<<>>}],
         hands' = [hands EXCEPT ![p] = h], UNCHANGED <<cityText, areaFile, notes>>,
         slips' \subseteq {"killed", "together", "coarse"},
         Calm(slips') => Calm(slips) /\ \A q \in Commands \ {p} : Resting(q),
         h.at = "writing" => h.todo \in Errands, h.at # "writing" => h.todo = <<>>,
         h.at = "priced" => h.goal \in Outlines,
         Calm(slips') => CASE h.at = "writing" -> Ends(h.todo, cityText, areaFile, slips')
                          [] h.at = "priced" -> Sound(cityText, areaFile, slips')
                          [] h.at = "idle" -> cityText = Nowhere \/ Sound(cityText, areaFile, slips'),
         \A N : Worded(N) => \A t \in CityTexts(h.todo) : NotesOf(t) = N
  PROVE  CityInv'
<1>1. CityTyped /\ Orderly /\ \E N : Worded(N)
  BY DEF CityInv
<1>2. h.at \in {"idle", "priced", "writing"} /\ h.at # "opened"
  OBVIOUS
<1>3. \A q \in Commands : q # p => hands'[q] = hands[q] /\ Resting(q)' = Resting(q)
  BY <1>1 DEF CityTyped, Resting
<1>4. hands'[p] = h /\ Resting(p)' = (h.at = "idle")
  BY <1>1 DEF CityTyped, Resting
<1>5. CityTyped'
  <2>1. hands' \in [Commands -> [at : {"idle", "priced", "writing", "opened"},
                                 goal : Outlines \cup {Nowhere}, todo : Errands \cup {<<>>}]]
    BY <1>1 DEF CityTyped
  <2>2. ASSUME NEW q \in Commands
        PROVE  /\ hands'[q].at \in {"writing", "opened"} => hands'[q].todo \in Errands
               /\ hands'[q].at \in {"idle", "priced"} => hands'[q].todo = <<>>
               /\ hands'[q].at = "priced" => hands'[q].goal \in Outlines
               /\ hands'[q].at = "opened" /\ Head(hands'[q].todo).to = "city" => cityText' # Nowhere
    BY <1>1, <1>2, <1>3, <1>4 DEF CityTyped
  <2> QED
    BY <1>1, <2>1, <2>2 DEF CityTyped
<1>6. Orderly'
  <2> SUFFICES ASSUME Calm(slips')
               PROVE  /\ \A q, r \in Commands : ~Resting(q)' /\ ~Resting(r)' => q = r
                      /\ \A q \in Commands :
                           /\ hands'[q].at = "priced" => Sound(cityText', areaFile', slips')
                           /\ hands'[q].at \in {"writing", "opened"} => Ends(hands'[q].todo, cityText', areaFile', slips')
                           /\ hands'[q].at = "opened" /\ Head(hands'[q].todo).to = "city" => cityText' = <<>>
                      /\ (\A q \in Commands : Resting(q)') => cityText' = Nowhere \/ Sound(cityText', areaFile', slips')
    BY DEF Orderly
  <2>1. \A q \in Commands : q # p => Resting(q)' /\ hands'[q].at = "idle"
    BY <1>3 DEF Resting
  <2>2. \A q, r \in Commands : ~Resting(q)' /\ ~Resting(r)' => q = r
    BY <2>1
  <2>5. cityText' = cityText /\ areaFile' = areaFile
    OBVIOUS
  <2>6. /\ h.at = "priced" => Sound(cityText', areaFile', slips')
        /\ h.at = "writing" => Ends(h.todo, cityText', areaFile', slips')
        /\ h.at = "idle" => cityText' = Nowhere \/ Sound(cityText', areaFile', slips')
    BY <2>5
  <2>3. ASSUME NEW q \in Commands
        PROVE  /\ hands'[q].at = "priced" => Sound(cityText', areaFile', slips')
               /\ hands'[q].at \in {"writing", "opened"} => Ends(hands'[q].todo, cityText', areaFile', slips')
               /\ hands'[q].at = "opened" /\ Head(hands'[q].todo).to = "city" => cityText' = <<>>
    <3>1. CASE q = p
      BY <1>2, <1>4, <2>6, <3>1
    <3>2. CASE q # p
      BY <2>1, <3>2
    <3> QED
      BY <3>1, <3>2
  <2>4. (\A q \in Commands : Resting(q)') => cityText' = Nowhere \/ Sound(cityText', areaFile', slips')
    BY <1>4, <2>6
  <2> QED
    BY <2>2, <2>3, <2>4
<1>7. (\E N : Worded(N))'
  <2>1. PICK N : Worded(N)
    BY <1>1
  <2>2. \A q \in Commands : \A t \in CityTexts(hands'[q].todo) : NotesOf(t) = N
    BY <1>3, <1>4, <2>1 DEF Worded
  <2>3. Worded(N)'
    BY <2>1, <2>2 DEF Worded
  <2> QED
    BY <2>3
<1> QED
  BY <1>5, <1>6, <1>7 DEF CityInv

(* What a command starts with when nobody else is at work.                 *)
LEMMA StartsAlone ==
  ASSUME CityInv, NEW p \in Commands, Resting(p), Starting(p)
  PROVE  /\ slips' \subseteq {"killed", "together", "coarse"}
         /\ Calm(slips') => /\ Calm(slips) /\ \A q \in Commands \ {p} : Resting(q)
                            /\ cityText = Nowhere \/ Sound(cityText, areaFile, slips')
<1>1. CityTyped /\ Orderly
  BY DEF CityInv
<1>2. slips' = IF \A q \in Commands \ {p} : Resting(q) THEN slips ELSE slips \cup {"together"}
  BY DEF Starting
<1>3. CASE \A q \in Commands \ {p} : Resting(q)
  <2>1. \A q \in Commands : Resting(q)
    BY <1>3
  <2> QED
    BY <1>1, <1>2, <1>3, <2>1 DEF Orderly, CityTyped
<1>4. CASE ~\A q \in Commands \ {p} : Resting(q)
  BY <1>1, <1>2, <1>4 DEF CityTyped, Calm
<1> QED
  BY <1>3, <1>4

(* An errand that starts is one, with the comments the text had.           *)
LEMMA TakesUpTyped ==
  ASSUME NEW todo \in Errands
  PROVE  /\ Writing(todo) \in [at : {"idle", "priced", "writing"}, goal : Outlines \cup {Nowhere},
                               todo : Errands \cup {<<>>}]
         /\ Writing(todo).at = "writing" /\ Writing(todo).todo = todo
  BY DEF Writing

(* One setting edited.                                                     *)
LEMMA EditKeeps ==
  ASSUME CityInv, NEW p \in Commands, EditCity(p)
  PROVE  CityInv'
<1>1. PICK s \in Settings :
        /\ CanRewrite(cityText, s[1])
        /\ LoadCity(RewriteScalar(cityText, s[1], s[2]))
        /\ hands' = [hands EXCEPT ![p] =
             Writing(<<Write("city", RewriteScalar(cityText, s[1], s[2]))>>)]
  BY DEF EditCity
<1>2. cityText \in Texts
  BY <1>1 DEF CityInv, CityTyped, CanRewrite
<1>3. PICK text, text2 : text = cityText /\ text2 = RewriteScalar(text, s[1], s[2])
  OBVIOUS
<1>4. /\ text2 \in Texts /\ text2 # <<>> /\ text # <<>> /\ text # Nowhere
      /\ NotesOf(text2) = NotesOf(text)
      /\ LinesOf(text2, "area") = LinesOf(text, "area")
      /\ LinesOf(text, "bbox") # {} => ValueOf(text2, "bbox") = ValueOf(text, "bbox")
  BY <1>1, <1>2, <1>3, Edited, TextIs
<1>5. PICK todo \in Errands : todo = <<Write("city", text2)>>
  BY <1>4 DEF Errands, CityAlone, Whole
<1>6. CityTexts(todo) = {text2} /\ text2 \in Whole /\ LoadCity(text2)
  <2>1. text2 \in Whole
    BY <1>4 DEF Whole
  <2>2. PICK a \in Squares : TRUE
    <3>1. [west |-> 0, south |-> 0, east |-> 0, north |-> 0] \in Squares
      BY DEF Squares
    <3> QED
      BY <3>1
  <2> QED
    BY <1>1, <1>3, <1>5, <2>1, <2>2, ErrandsAre
<1>7. \A N : Worded(N) => NotesOf(text2) = N
  BY <1>3, <1>4 DEF Worded
<1>8. /\ slips' \subseteq {"killed", "together", "coarse"}
      /\ Calm(slips') => /\ Calm(slips) /\ \A q \in Commands \ {p} : Resting(q)
                         /\ cityText = Nowhere \/ Sound(cityText, areaFile, slips')
  BY StartsAlone DEF EditCity
<1>9. Calm(slips') => Ends(todo, cityText, areaFile, slips')
  <2> SUFFICES ASSUME Calm(slips') PROVE Ends(todo, cityText, areaFile, slips')
    OBVIOUS
  <2>1. Sound(text, areaFile, slips')
    BY <1>3, <1>4, <1>8
  <2>2. LinesOf(text, "bbox") # {}
    BY <2>1 DEF Sound, LoadCity, Required
  <2>3. Sound(text2, areaFile, slips')
    <3>1. Paired(text, areaFile, slips')
      BY <2>1 DEF Sound
    <3>2. Paired(text2, areaFile, slips')
      BY <1>4, <2>2, <3>1 DEF Paired
    <3> QED
      BY <1>4, <1>6, <3>2, TextIs DEF Sound
  <2> QED
    BY <1>5, <1>6, <2>3 DEF Ends
<1>10. PICK h : h = Writing(todo)
  OBVIOUS
<1>11. /\ h \in [at : {"idle", "priced", "writing"}, goal : Outlines \cup {Nowhere},
                 todo : Errands \cup {<<>>}]
       /\ h.at = "writing" /\ h.todo = todo
  BY <1>10, TakesUpTyped
<1>12. hands' = [hands EXCEPT ![p] = h]
  BY <1>1, <1>3, <1>5, <1>10
<1>13. UNCHANGED <<cityText, areaFile, notes>>
  BY DEF EditCity
<1> QED
  BY <1>6, <1>7, <1>8, <1>9, <1>11, <1>12, <1>13, TakesUp

(* An area priced.                                                         *)
LEMMA PriceKeeps ==
  ASSUME CityInv, NEW p \in Commands, PriceArea(p)
  PROVE  CityInv'
<1>1. PICK d \in Outlines : hands' = [hands EXCEPT ![p] = [Idle EXCEPT !.at = "priced", !.goal = d]]
  BY Zenon DEF PriceArea
<1>2. PICK h : h = [Idle EXCEPT !.at = "priced", !.goal = d]
  OBVIOUS
<1>3. /\ h \in [at : {"idle", "priced", "writing"}, goal : Outlines \cup {Nowhere},
                todo : Errands \cup {<<>>}]
      /\ h.at = "priced" /\ h.todo = <<>> /\ h.goal \in Outlines
  BY <1>2 DEF Idle
<1>4. /\ slips' \subseteq {"killed", "together", "coarse"}
      /\ Calm(slips') => /\ Calm(slips) /\ \A q \in Commands \ {p} : Resting(q)
                         /\ cityText = Nowhere \/ Sound(cityText, areaFile, slips')
  BY StartsAlone DEF PriceArea
<1>5. cityText # Nowhere
  BY DEF PriceArea, LoadCity
<1>6. CityTexts(h.todo) = {}
  BY <1>3 DEF CityTexts
<1>7. UNCHANGED <<cityText, areaFile, notes>>
  BY DEF PriceArea
<1> QED
  BY <1>1, <1>2, <1>3, <1>4, <1>5, <1>6, <1>7, TakesUp

(* An area applied, or refused.                                            *)
LEMMA ApplyKeeps ==
  ASSUME CityInv, NEW p \in Commands, ApplyArea(p)
  PROVE  CityInv'
<1>1. PICK d : d = hands[p].goal
  OBVIOUS
<1>2. /\ hands[p].at = "priced" /\ d \in Outlines /\ slips \subseteq {"killed", "together", "coarse"}
      /\ cityText \in Texts \cup {Nowhere}
  BY <1>1 DEF ApplyArea, CityInv, CityTyped
<1>3. Calm(slips) => /\ \A q \in Commands \ {p} : Resting(q)
                     /\ Sound(cityText, areaFile, slips)
  BY <1>2 DEF CityInv, Orderly, Resting
<1>4. UNCHANGED <<cityText, areaFile, notes>>
  BY DEF ApplyArea
<1>5. CASE CanRewriteConfig(cityText)
  <2>0. PICK side \in Sides :
          /\ hands' = [hands EXCEPT ![p] = Writing(
               <<Write("area", AreaGeojson(hands[p].goal)),
                 Write("city", RewriteConfig(cityText, SnapBbox(hands[p].goal, side)))>>)]
          /\ slips' = IF IsWhole(side) THEN slips ELSE slips \cup {"coarse"}
    BY <1>5 DEF ApplyArea
  <2>12. /\ slips' \subseteq {"killed", "together", "coarse"} /\ (Calm(slips') => Calm(slips))
         /\ "coarse" \notin slips' => IsWhole(side)
    BY <1>2, <2>0 DEF Calm
  <2>1. PICK text, text2, exact, box, area :
          /\ text = cityText /\ exact = SnapBbox(d, side) /\ area = AreaGeojson(d)
          /\ box = BboxLiteral(exact) /\ text2 = RewriteConfig(text, exact)
    OBVIOUS
  <2>2. /\ box \in Squares /\ area \in Squares /\ box \notin Unfit
        /\ Holds(box, area, Grain + HalfEast, Grain + HalfNorth)
        /\ "coarse" \notin slips' => Holds(box, area, Grain, Grain)
    BY <1>2, <2>1, <2>12, Snapped, CityAssumption
  <2>3. text \in Texts /\ CanRewriteConfig(text)
    BY <1>2, <1>5, <2>1 DEF CanRewriteConfig
  <2>4. /\ text2 \in Texts /\ text2 # <<>> /\ text # <<>> /\ text # Nowhere
        /\ NotesOf(text2) = NotesOf(text)
        /\ ValueOf(text2, "bbox") = box
        /\ LoadCity(text) => LoadCity(text2)
    BY <2>1, <2>2, <2>3, Configured, TextIs
  <2>5. PICK todo \in Errands : todo = <<Write("area", area), Write("city", text2)>>
    <3>1. area \in Squares /\ text2 \in Whole
      BY <2>2, <2>4 DEF Whole
    <3>2. <<Write("area", area), Write("city", text2)>> \in AreaFirst
      BY <3>1 DEF AreaFirst
    <3> QED
      BY <3>2 DEF Errands
  <2>6. CityTexts(todo) = {text2} /\ text2 \in Whole
    BY <2>2, <2>4, <2>5, ErrandsAre DEF Whole
  <2>7. \A N : Worded(N) => NotesOf(text2) = N
    BY <2>1, <2>4 DEF Worded
  <2>8. Calm(slips') => Ends(todo, cityText, areaFile, slips')
    <3> SUFFICES ASSUME Calm(slips') PROVE Ends(todo, cityText, areaFile, slips')
      OBVIOUS
    <3>1. LoadCity(text2)
      BY <1>3, <2>1, <2>4, <2>12 DEF Sound
    <3>2. Paired(text2, area, slips')
      BY <2>2, <2>4, PairedBy
    <3>3. Sound(text2, area, slips')
      BY <2>4, <3>1, <3>2, TextIs DEF Sound
    <3> QED
      BY <2>2, <2>5, <2>6, <3>3 DEF Ends
  <2>9. PICK h : h = Writing(todo)
    OBVIOUS
  <2>10. /\ h \in [at : {"idle", "priced", "writing"}, goal : Outlines \cup {Nowhere},
                   todo : Errands \cup {<<>>}]
         /\ h.at = "writing" /\ h.todo = todo
    BY <2>9, TakesUpTyped
  <2>11. hands' = [hands EXCEPT ![p] = h]
    BY <1>1, <2>0, <2>1, <2>5, <2>9
  <2> QED
    BY <1>3, <1>4, <2>6, <2>7, <2>8, <2>10, <2>11, <2>12, TakesUp
<1>6. CASE ~CanRewriteConfig(cityText)
  <2>1. PICK h : h = Idle
    OBVIOUS
  <2>2. /\ h \in [at : {"idle", "priced", "writing"}, goal : Outlines \cup {Nowhere},
                  todo : Errands \cup {<<>>}]
        /\ h.at = "idle" /\ h.todo = <<>>
    BY <2>1 DEF Idle
  <2>3. hands' = [hands EXCEPT ![p] = h] /\ slips' = slips
    BY <1>6, <2>1 DEF ApplyArea
  <2>4. CityTexts(h.todo) = {}
    BY <2>2 DEF CityTexts
  <2> QED
    BY <1>2, <1>3, <1>4, <2>2, <2>3, <2>4, TakesUp
<1> QED
  BY <1>5, <1>6

(* A new city.                                                             *)
LEMMA RegisterKeeps ==
  ASSUME CityInv, NEW p \in Commands, Register(p)
  PROVE  CityInv'
<1>1. PICK d \in Outlines :
        hands' = [hands EXCEPT ![p] =
            Writing(<<Write("city", NewCityYaml(d)), Write("area", AreaGeojson(d))>>)]
  BY DEF Register
<1>2. PICK text, area : text = NewCityYaml(d) /\ area = AreaGeojson(d)
  OBVIOUS
<1>3. /\ text \in Texts /\ text # <<>> /\ LoadCity(text) /\ ValueOf(text, "bbox") = SnapBbox(d, Metre)
      /\ area \in Squares /\ Holds(SnapBbox(d, Metre), area, Grain, Grain)
      /\ Holds(SnapBbox(d, Metre), area, Grain + HalfEast, Grain + HalfNorth)
  BY <1>2, Registered, Snapped
<1>4. PICK todo \in Errands : todo = <<Write("city", text), Write("area", area)>>
  <2>1. area \in Squares /\ text \in Whole
    BY <1>3 DEF Whole
  <2>2. <<Write("city", text), Write("area", area)>> \in CityFirst
    BY <2>1 DEF CityFirst
  <2> QED
    BY <2>2 DEF Errands
<1>5. CityTexts(todo) = {text} /\ text \in Whole
  BY <1>3, <1>4, ErrandsAre DEF Whole
<1>6. \A N : Worded(N) => NotesOf(text) = N
  BY <1>2 DEF Worded, Register
<1>7. /\ slips' \subseteq {"killed", "together", "coarse"}
      /\ Calm(slips') => Calm(slips) /\ \A q \in Commands \ {p} : Resting(q)
  BY StartsAlone DEF Register
<1>8. Ends(todo, cityText, areaFile, slips')
  <2>1. Paired(text, area, slips')
    BY <1>3, PairedBy
  <2>3. Sound(text, area, slips')
    BY <1>3, <2>1, TextIs DEF Sound
  <2> QED
    BY <1>3, <1>4, <1>5, <2>3 DEF Ends
<1>9. PICK h : h = Writing(todo)
  OBVIOUS
<1>10. /\ h \in [at : {"idle", "priced", "writing"}, goal : Outlines \cup {Nowhere},
                 todo : Errands \cup {<<>>}]
       /\ h.at = "writing" /\ h.todo = todo
  BY <1>9, TakesUpTyped
<1>11. hands' = [hands EXCEPT ![p] = h]
  BY <1>1, <1>2, <1>4, <1>9
<1>12. UNCHANGED <<cityText, areaFile, notes>>
  BY DEF Register
<1> QED
  BY <1>5, <1>6, <1>7, <1>8, <1>10, <1>11, <1>12, TakesUp

(* A command killed: what it leaves is not promised to be sound.           *)
LEMMA KillKeeps ==
  ASSUME CityInv, NEW p \in Commands, KillCommand(p)
  PROVE  CityInv'
<1>1. PICK h : h = Idle
  OBVIOUS
<1>2. /\ h \in [at : {"idle", "priced", "writing"}, goal : Outlines \cup {Nowhere},
                todo : Errands \cup {<<>>}]
      /\ h.at = "idle" /\ h.todo = <<>>
  BY <1>1 DEF Idle
<1>3. hands' = [hands EXCEPT ![p] = h]
  BY <1>1 DEF KillCommand
<1>4. CityTexts(h.todo) = {}
  BY <1>2 DEF CityTexts
<1>5. slips' \subseteq {"killed", "together", "coarse"} /\ ~Calm(slips')
  BY DEF KillCommand, CityInv, CityTyped, Calm
<1>6. UNCHANGED <<cityText, areaFile, notes>>
  BY DEF KillCommand
<1> QED
  BY <1>2, <1>3, <1>4, <1>5, <1>6, TakesUp

(* A command goes on with its errand, and touches a file.                  *)
LEMMA GoesOn ==
  ASSUME CityInv, NEW p \in Commands, ~Resting(p),
         NEW h \in [at : {"idle", "writing", "opened"}, goal : Outlines \cup {Nowhere},
                    todo : Errands \cup {<<>>}],
         hands' = [hands EXCEPT ![p] = h], slips' = slips,
         cityText' \in Texts \cup {Nowhere}, cityText' = Nowhere => cityText = Nowhere,
         h.at # "idle" => h.todo \in Errands, h.at = "idle" => h.todo = <<>>,
         h.at = "opened" /\ Head(h.todo).to = "city" => cityText' = <<>>,
         Calm(slips) /\ h.at # "idle" => Ends(h.todo, cityText', areaFile', slips),
         Calm(slips) /\ h.at = "idle" => Sound(cityText', areaFile', slips),
         CityTexts(h.todo) \subseteq CityTexts(hands[p].todo),
         \A N : Worded(N) => /\ notes' \subseteq N
                             /\ cityText' \notin {Nowhere, <<>>} => NotesOf(cityText') = N
  PROVE  CityInv'
<1>1. CityTyped /\ Orderly /\ \E N : Worded(N)
  BY DEF CityInv
<1>2. h.at \in {"idle", "writing", "opened"} /\ h.at # "priced"
  OBVIOUS
<1>3. \A q \in Commands : q # p => hands'[q] = hands[q] /\ Resting(q)' = Resting(q)
  BY <1>1 DEF CityTyped, Resting
<1>4. hands'[p] = h /\ Resting(p)' = (h.at = "idle")
  BY <1>1 DEF CityTyped, Resting
<1>5. <<>> # Nowhere
  <2>1. <<>> \in Texts
    BY EmptySeq DEF Texts
  <2> QED
    BY <2>1, CityAssumption
<1>6. CityTyped'
  <2>1. hands' \in [Commands -> [at : {"idle", "priced", "writing", "opened"},
                                 goal : Outlines \cup {Nowhere}, todo : Errands \cup {<<>>}]]
    BY <1>1 DEF CityTyped
  <2>2. ASSUME NEW q \in Commands
        PROVE  /\ hands'[q].at \in {"writing", "opened"} => hands'[q].todo \in Errands
               /\ hands'[q].at \in {"idle", "priced"} => hands'[q].todo = <<>>
               /\ hands'[q].at = "priced" => hands'[q].goal \in Outlines
               /\ hands'[q].at = "opened" /\ Head(hands'[q].todo).to = "city" => cityText' # Nowhere
    <3>1. CASE q = p
      BY <1>2, <1>4, <1>5, <3>1
    <3>2. CASE q # p
      BY <1>1, <1>3, <3>2 DEF CityTyped
    <3> QED
      BY <3>1, <3>2
  <2> QED
    BY <1>1, <2>1, <2>2 DEF CityTyped
<1>7. Orderly'
  <2> SUFFICES ASSUME Calm(slips)
               PROVE  /\ \A q, r \in Commands : ~Resting(q)' /\ ~Resting(r)' => q = r
                      /\ \A q \in Commands :
                           /\ hands'[q].at = "priced" => Sound(cityText', areaFile', slips)
                           /\ hands'[q].at \in {"writing", "opened"} => Ends(hands'[q].todo, cityText', areaFile', slips)
                           /\ hands'[q].at = "opened" /\ Head(hands'[q].todo).to = "city" => cityText' = <<>>
                      /\ (\A q \in Commands : Resting(q)') => cityText' = Nowhere \/ Sound(cityText', areaFile', slips)
    BY DEF Orderly
  <2>1. \A q \in Commands : q # p => Resting(q)' /\ hands'[q].at = "idle"
    BY <1>1, <1>3 DEF Orderly, Resting
  <2>2. \A q, r \in Commands : ~Resting(q)' /\ ~Resting(r)' => q = r
    BY <2>1
  <2>3. ASSUME NEW q \in Commands
        PROVE  /\ hands'[q].at = "priced" => Sound(cityText', areaFile', slips)
               /\ hands'[q].at \in {"writing", "opened"} => Ends(hands'[q].todo, cityText', areaFile', slips)
               /\ hands'[q].at = "opened" /\ Head(hands'[q].todo).to = "city" => cityText' = <<>>
    BY <1>2, <1>4, <2>1
  <2>4. (\A q \in Commands : Resting(q)') => cityText' = Nowhere \/ Sound(cityText', areaFile', slips)
    BY <1>4
  <2> QED
    BY <2>2, <2>3, <2>4
<1>8. (\E N : Worded(N))'
  <2>1. PICK N : Worded(N)
    BY <1>1
  <2>2. \A q \in Commands : \A t \in CityTexts(hands'[q].todo) : NotesOf(t) = N
    BY <1>3, <1>4, <2>1 DEF Worded
  <2>3. Worded(N)'
    BY <2>1, <2>2 DEF Worded
  <2> QED
    BY <2>3
<1> QED
  BY <1>6, <1>7, <1>8 DEF CityInv

(* Of two errands that are the same list, what is written is the same.     *)
LEMMA ErrandsDiffer ==
  ASSUME NEW t \in Whole, NEW t2 \in Whole, NEW a \in Squares, NEW a2 \in Squares
  PROVE  /\ <<Write("city", t)>> # <<Write("area", a)>>
         /\ <<Write("city", t)>> # <<Write("area", a), Write("city", t2)>>
         /\ <<Write("city", t)>> # <<Write("city", t2), Write("area", a)>>
         /\ <<Write("area", a)>> # <<Write("area", a2), Write("city", t)>>
         /\ <<Write("area", a)>> # <<Write("city", t), Write("area", a2)>>
         /\ <<Write("area", a), Write("city", t)>> # <<Write("city", t2), Write("area", a2)>>
         /\ <<Write("city", t)>> = <<Write("city", t2)>> => t = t2
         /\ <<Write("area", a)>> = <<Write("area", a2)>> => a = a2
         /\ <<Write("area", a), Write("city", t)>> = <<Write("area", a2), Write("city", t2)>> => t = t2 /\ a = a2
         /\ <<Write("city", t), Write("area", a)>> = <<Write("city", t2), Write("area", a2)>> => t = t2 /\ a = a2
<1>1. PICK c, c2, b, b2 : /\ c = Write("city", t) /\ c2 = Write("city", t2)
                          /\ b = Write("area", a) /\ b2 = Write("area", a2)
  OBVIOUS
<1>2. c # b /\ c # b2 /\ c2 # b /\ c2 # b2 /\ (c = c2 => t = t2) /\ (b = b2 => a = a2)
  <2>1. /\ c.to = "city" /\ c2.to = "city" /\ b.to = "area" /\ b2.to = "area"
        /\ c.what = t /\ c2.what = t2 /\ b.what = a /\ b2.what = a2
    BY <1>1 DEF Write
  <2> QED
    BY <2>1
<1>3. /\ <<c>> # <<b>> /\ <<c>> # <<b, c2>> /\ <<c>> # <<c2, b>> /\ <<b>> # <<b2, c>> /\ <<b>> # <<c, b2>>
      /\ <<b, c>> # <<c2, b2>> /\ (<<c>> = <<c2>> => c = c2) /\ (<<b>> = <<b2>> => b = b2)
      /\ (<<b, c>> = <<b2, c2>> => b = b2 /\ c = c2) /\ (<<c, b>> = <<c2, b2>> => b = b2 /\ c = c2)
  BY <1>2
<1> QED
  BY <1>1, <1>2, <1>3

(* An errand ends in the texts that it writes, and in what it leaves.      *)
LEMMA EndsAre ==
  ASSUME NEW t \in Whole, NEW a \in Squares, NEW text, NEW area, NEW events
  PROVE  /\ Ends(<<Write("city", t)>>, text, area, events) <=> Sound(t, area, events)
         /\ Ends(<<Write("area", a)>>, text, area, events) <=> Sound(text, a, events)
         /\ Ends(<<Write("area", a), Write("city", t)>>, text, area, events) <=> Sound(t, a, events)
         /\ Ends(<<Write("city", t), Write("area", a)>>, text, area, events) <=> Sound(t, a, events)
  BY ErrandsDiffer DEF Ends

(* An errand is one of the four.                                           *)
LEMMA EveryErrand ==
  ASSUME NEW todo \in Errands
  PROVE  \E t \in Whole, a \in Squares :
           \/ todo = <<Write("city", t)>>
           \/ todo = <<Write("area", a)>>
           \/ todo = <<Write("area", a), Write("city", t)>>
           \/ todo = <<Write("city", t), Write("area", a)>>
<1>1. PICK a0 \in Squares : TRUE
  <2>1. [west |-> 0, south |-> 0, east |-> 0, north |-> 0] \in Squares
    BY DEF Squares
  <2> QED
    BY <2>1
<1>2. PICK t0 \in Whole : TRUE
  <2>1. PICK line : line \in Lines
    <3>1. Line("name", "town", NoComment) \in Lines
      BY DEF Line, Lines, FileKeys, FileWords, FileComments
    <3> QED
      BY <3>1
  <2>2. <<line>> \in Whole
    BY <2>1 DEF Whole, Texts, Lines
  <2> QED
    BY <2>2
<1>3. CASE todo \in CityAlone
  BY <1>1, <1>3 DEF CityAlone
<1>4. CASE todo \in AreaAlone
  BY <1>2, <1>4 DEF AreaAlone
<1>5. CASE todo \in AreaFirst
  BY <1>5 DEF AreaFirst
<1>6. CASE todo \in CityFirst
  BY <1>6 DEF CityFirst
<1> QED
  BY <1>3, <1>4, <1>5, <1>6 DEF Errands

(* A file opened is empty.                                                 *)
LEMMA OpenedKeeps ==
  ASSUME CityInv, NEW p \in Commands, OpenToWrite(p)
  PROVE  CityInv'
<1>1. CityTyped /\ Orderly
  BY DEF CityInv
<1>2. PICK todo : todo = hands[p].todo
  OBVIOUS
<1>3. /\ hands[p].at = "writing" /\ todo \in Errands /\ ~Resting(p)
      /\ hands[p] \in [at : {"idle", "priced", "writing", "opened"},
                       goal : Outlines \cup {Nowhere}, todo : Errands \cup {<<>>}]
  BY <1>1, <1>2 DEF OpenToWrite, CityTyped, Resting
<1>4. PICK h : h = [hands[p] EXCEPT !.at = "opened"]
  OBVIOUS
<1>5. /\ h \in [at : {"idle", "writing", "opened"}, goal : Outlines \cup {Nowhere},
                todo : Errands \cup {<<>>}]
      /\ h.at = "opened" /\ h.todo = todo
  BY <1>2, <1>3, <1>4
<1>6. hands' = [hands EXCEPT ![p] = h] /\ UNCHANGED <<notes, slips>>
  BY <1>4 DEF OpenToWrite
<1>7. IF Head(todo).to = "city" THEN cityText' = <<>> /\ areaFile' = areaFile
                                ELSE areaFile' = <<>> /\ cityText' = cityText
  BY <1>2 DEF OpenToWrite
<1>8. <<>> \in Texts
  BY EmptySeq DEF Texts
<1>9. cityText' \in Texts \cup {Nowhere} /\ (cityText' = Nowhere => cityText = Nowhere)
  BY <1>1, <1>7, <1>8, CityAssumption DEF CityTyped
<1>10. Calm(slips) => Ends(todo, cityText', areaFile', slips)
  <2> SUFFICES ASSUME Calm(slips) PROVE Ends(todo, cityText', areaFile', slips)
    OBVIOUS
  <2>1. Ends(todo, cityText, areaFile, slips)
    BY <1>1, <1>2, <1>3 DEF Orderly
  <2>2. PICK t \in Whole, a \in Squares :
          \/ todo = <<Write("city", t)>>
          \/ todo = <<Write("area", a)>>
          \/ todo = <<Write("area", a), Write("city", t)>>
          \/ todo = <<Write("city", t), Write("area", a)>>
    BY <1>3, EveryErrand
  <2>3. PICK text, area, text2, area2 :
          text = cityText /\ area = areaFile /\ text2 = cityText' /\ area2 = areaFile'
    OBVIOUS
  <2>4. CASE todo = <<Write("city", t)>>
    <3>1. area2 = area
      <4>1. Head(<<Write("city", t)>>) = Write("city", t) /\ Write("city", t).to = "city"
        BY ErrandsAre
      <4> QED
        BY <1>7, <2>3, <2>4, <4>1
    <3> QED
      BY <2>1, <2>3, <2>4, <3>1, EndsAre
  <2>5. CASE todo = <<Write("area", a)>>
    <3>1. text2 = text
      BY <1>7, <2>3, <2>5, ErrandsAre
    <3> QED
      BY <2>1, <2>3, <2>5, <3>1, EndsAre
  <2>6. CASE todo = <<Write("area", a), Write("city", t)>>
    BY <2>1, <2>3, <2>6, EndsAre
  <2>7. CASE todo = <<Write("city", t), Write("area", a)>>
    BY <2>1, <2>3, <2>7, EndsAre
  <2> QED
    BY <2>2, <2>4, <2>5, <2>6, <2>7
<1>11. \A N : Worded(N) => notes' \subseteq N /\ (cityText' \notin {Nowhere, <<>>} => NotesOf(cityText') = N)
  BY <1>6, <1>7 DEF Worded
<1>12. CityTexts(h.todo) \subseteq CityTexts(hands[p].todo)
  BY <1>2, <1>5
<1>13. h.at = "opened" /\ Head(h.todo).to = "city" => cityText' = <<>>
  BY <1>5, <1>7
<1>14. h.at # "idle" => h.todo \in Errands
  BY <1>3, <1>5
<1> QED
  BY <1>3, <1>5, <1>6, <1>9, <1>10, <1>11, <1>12, <1>13, <1>14, GoesOn

(* A file closed has what was meant for it.                                *)
LEMMA FillKeeps ==
  ASSUME CityInv, NEW p \in Commands, FillIn(p)
  PROVE  CityInv'
<1>1. CityTyped /\ Orderly /\ \E N : Worded(N)
  BY DEF CityInv
<1>2. PICK todo, text, area : todo = hands[p].todo /\ text = cityText /\ area = areaFile
  OBVIOUS
<1>3. hands[p].at = "opened" /\ todo \in Errands /\ ~Resting(p)
  BY <1>1, <1>2 DEF FillIn, CityTyped, Resting
<1>4. PICK t \in Whole, a \in Squares :
        \/ todo = <<Write("city", t)>>
        \/ todo = <<Write("area", a)>>
        \/ todo = <<Write("area", a), Write("city", t)>>
        \/ todo = <<Write("city", t), Write("area", a)>>
  BY <1>3, EveryErrand
<1>5. PICK h : h = IF Tail(todo) = <<>> THEN Idle ELSE Writing(Tail(todo))
  OBVIOUS
<1>6. hands' = [hands EXCEPT ![p] = h] /\ slips' = slips
  BY <1>2, <1>5 DEF FillIn
<1>7. IF Head(todo).to = "city"
        THEN /\ cityText' = Over(cityText, Head(todo).what)
             /\ notes' = IF notes = {} THEN NotesOf(Head(todo).what) ELSE notes
             /\ areaFile' = areaFile
        ELSE areaFile' = Head(todo).what /\ cityText' = cityText /\ notes' = notes
  BY <1>2 DEF FillIn
<1>8. Calm(slips) => Ends(todo, text, area, slips)
  BY <1>1, <1>2, <1>3 DEF Orderly
<1>9. t \in Texts /\ t # <<>>
  BY DEF Whole
<1>10. /\ <<Write("city", t)>> \in Errands /\ <<Write("area", a)>> \in Errands
  BY DEF Errands, CityAlone, AreaAlone
<1>11. /\ Idle \in [at : {"idle", "writing", "opened"}, goal : Outlines \cup {Nowhere}, todo : Errands \cup {<<>>}]
       /\ Idle.at = "idle" /\ Idle.todo = <<>>
  BY DEF Idle
<1>12. ASSUME NEW rest \in Errands
       PROVE  /\ Writing(rest) \in [at : {"idle", "writing", "opened"}, goal : Outlines \cup {Nowhere},
                                    todo : Errands \cup {<<>>}]
              /\ Writing(rest).at = "writing" /\ Writing(rest).todo = rest
  BY DEF Writing
<1>13. CASE todo = <<Write("city", t)>> \/ todo = <<Write("city", t), Write("area", a)>>
  <2>1. Head(todo).to = "city" /\ Head(todo).what = t /\ CityTexts(todo) = {t}
    <3>1. /\ Head(<<Write("city", t)>>) = Write("city", t)
          /\ Head(<<Write("city", t), Write("area", a)>>) = Write("city", t)
          /\ Write("city", t).to = "city" /\ Write("city", t).what = t
          /\ CityTexts(<<Write("city", t)>>) = {t}
          /\ CityTexts(<<Write("city", t), Write("area", a)>>) = {t}
      BY ErrandsAre
    <3> QED
      BY <1>13, <3>1
  <2>2. text \in Texts /\ (Calm(slips) => text = <<>>)
    BY <1>1, <1>2, <1>3, <2>1 DEF CityTyped, Orderly
  <2>3. PICK text2 : text2 = Over(text, t)
    OBVIOUS
  <2>4. /\ text2 \in Texts /\ text2 # <<>>
        /\ NotesOf(t) \subseteq NotesOf(text2)
        /\ NotesOf(text2) \subseteq NotesOf(t) \cup NotesOf(text)
        /\ text = <<>> => text2 = t
    BY <1>9, <2>2, <2>3, Overwritten
  <2>5. /\ cityText' = text2 /\ areaFile' = area
        /\ notes' = IF notes = {} THEN NotesOf(t) ELSE notes
    BY <1>2, <1>7, <2>1, <2>3
  <2>6. ASSUME NEW N, Worded(N)
        PROVE  notes' \subseteq N /\ NotesOf(text2) = N
    <3>1. NotesOf(t) = N
      BY <1>2, <2>1, <2>6 DEF Worded
    <3>2. text # <<>> => NotesOf(text) = N
      BY <1>2, <2>2, <2>6, TextIs DEF Worded
    <3>3. text # <<>> => NotesOf(text2) = N
      BY <2>4, <3>1, <3>2
    <3>4. text = <<>> => NotesOf(text2) = N
      BY <2>4, <3>1
    <3> QED
      BY <2>5, <2>6, <3>1, <3>3, <3>4 DEF Worded
  <2>7. text2 # Nowhere
    BY <2>4, TextIs
  <2>8. CASE todo = <<Write("city", t)>>
    <3>1. h = Idle
      BY <1>5, <2>8, ErrandsAre
    <3>2. Calm(slips) => Sound(text2, area, slips)
      BY <1>8, <2>2, <2>4, <2>8, EndsAre
    <3>3. CityTexts(h.todo) = {}
      BY <1>11, <3>1 DEF CityTexts
    <3>4. h.at = "idle" /\ h.todo = <<>>
      BY <1>11, <3>1
    <3> QED
      BY <1>3, <1>6, <1>11, <2>4, <2>5, <2>6, <2>7, <3>1, <3>2, <3>3, <3>4, GoesOn
  <2>9. CASE todo = <<Write("city", t), Write("area", a)>>
    <3>1. h = Writing(<<Write("area", a)>>)
      BY <1>5, <2>9, ErrandsAre
    <3>2. Calm(slips) => Ends(<<Write("area", a)>>, text2, area, slips)
      BY <1>8, <2>2, <2>4, <2>9, EndsAre
    <3>3. /\ h \in [at : {"idle", "writing", "opened"}, goal : Outlines \cup {Nowhere},
                    todo : Errands \cup {<<>>}]
          /\ h.at = "writing" /\ h.todo = <<Write("area", a)>> /\ h.todo \in Errands
      BY <1>10, <1>12, <3>1
    <3>4. CityTexts(h.todo) = {}
      BY <3>3, ErrandsAre
    <3> QED
      BY <1>3, <1>6, <2>4, <2>5, <2>6, <2>7, <3>2, <3>3, <3>4, GoesOn
  <2> QED
    BY <1>13, <2>8, <2>9
<1>14. CASE todo = <<Write("area", a)>> \/ todo = <<Write("area", a), Write("city", t)>>
  <2>1. Head(todo).to = "area" /\ Head(todo).what = a
    <3>1. /\ Head(<<Write("area", a)>>) = Write("area", a)
          /\ Head(<<Write("area", a), Write("city", t)>>) = Write("area", a)
          /\ Write("area", a).to = "area" /\ Write("area", a).what = a
      BY Zenon, ErrandsAre
    <3> QED
      BY <1>14, <3>1
  <2>2. areaFile' = a /\ cityText' = text /\ notes' = notes
    BY <1>2, <1>7, <2>1
  <2>3. text \in Texts \cup {Nowhere}
    BY <1>1, <1>2 DEF CityTyped
  <2>4. \A N : Worded(N) => /\ notes' \subseteq N
                            /\ cityText' \notin {Nowhere, <<>>} => NotesOf(cityText') = N
    BY <1>2, <2>2 DEF Worded
  <2>5. CASE todo = <<Write("area", a)>>
    <3>1. h = Idle
      BY <1>5, <2>5, ErrandsAre
    <3>2. Calm(slips) => Sound(text, a, slips)
      BY <1>8, <2>5, EndsAre
    <3>3. CityTexts(h.todo) = {}
      BY <1>11, <3>1 DEF CityTexts
    <3>4. h.at = "idle" /\ h.todo = <<>>
      BY <1>11, <3>1
    <3> QED
      BY <1>2, <1>3, <1>6, <1>11, <2>2, <2>3, <2>4, <3>1, <3>2, <3>3, <3>4, GoesOn
  <2>6. CASE todo = <<Write("area", a), Write("city", t)>>
    <3>1. h = Writing(<<Write("city", t)>>)
      BY <1>5, <2>6, ErrandsAre
    <3>2. Calm(slips) => Ends(<<Write("city", t)>>, text, a, slips)
      BY <1>8, <2>6, EndsAre
    <3>3. /\ h \in [at : {"idle", "writing", "opened"}, goal : Outlines \cup {Nowhere},
                    todo : Errands \cup {<<>>}]
          /\ h.at = "writing" /\ h.todo = <<Write("city", t)>> /\ h.todo \in Errands
      BY <1>10, <1>12, <3>1
    <3>4. CityTexts(h.todo) \subseteq CityTexts(hands[p].todo)
      <4>1. /\ CityTexts(<<Write("city", t)>>) = {t}
            /\ CityTexts(<<Write("area", a), Write("city", t)>>) = {t}
        BY ErrandsAre
      <4> QED
        BY <1>2, <2>6, <3>3, <4>1
    <3> QED
      BY <1>2, <1>3, <1>6, <2>2, <2>3, <2>4, <3>2, <3>3, <3>4, GoesOn
  <2> QED
    BY <1>14, <2>5, <2>6
<1> QED
  BY <1>4, <1>13, <1>14

(* The comments of a city's file outlive every edit, area and              *)
(* registration, killed or crossed as they may be; and while commands run  *)
(* one after another to their end, the city can be loaded and its box      *)
(* holds its polygon: for any files, outlines and settings.                *)
THEOREM FileAlwaysStaysTrue == CitySpec => []FileStaysTrue
<1>1. CityInit => CityInv
  BY InitCity
<1>2. CityInv /\ [CityNext]_cityVars => CityInv'
  <2> SUFFICES ASSUME CityInv, [CityNext]_cityVars PROVE CityInv'
    OBVIOUS
  <2>1. CASE UNCHANGED cityVars
    BY <2>1 DEF CityInv, CityTyped, Orderly, Worded, Resting, cityVars
  <2>2. ASSUME NEW p \in Commands, EditCity(p) PROVE CityInv'
    BY <2>2, EditKeeps
  <2>3. ASSUME NEW p \in Commands, PriceArea(p) PROVE CityInv'
    BY <2>3, PriceKeeps
  <2>4. ASSUME NEW p \in Commands, ApplyArea(p) PROVE CityInv'
    BY <2>4, ApplyKeeps
  <2>5. ASSUME NEW p \in Commands, Register(p) PROVE CityInv'
    BY <2>5, RegisterKeeps
  <2>6. ASSUME NEW p \in Commands, OpenToWrite(p) PROVE CityInv'
    BY <2>6, OpenedKeeps
  <2>7. ASSUME NEW p \in Commands, FillIn(p) PROVE CityInv'
    BY <2>7, FillKeeps
  <2>8. ASSUME NEW p \in Commands, KillCommand(p) PROVE CityInv'
    BY <2>8, KillKeeps
  <2> QED
    BY <2>1, <2>2, <2>3, <2>4, <2>5, <2>6, <2>7, <2>8 DEF CityNext
<1>3. CityInv => FileStaysTrue
  <2> SUFFICES ASSUME CityInv PROVE FileStaysTrue
    OBVIOUS
  <2>1. CommentsSurvive
    BY DEF CityInv, Worded, CommentsSurvive
  <2>2. StaysReadable /\ BoxHoldsArea
    BY DEF CityInv, Orderly, StaysReadable, BoxHoldsArea, AtPeace, Calm, Sound
  <2> QED
    BY <2>1, <2>2 DEF FileStaysTrue
<1> QED
  BY <1>1, <1>2, <1>3, PTL DEF CitySpec

=============================================================================
