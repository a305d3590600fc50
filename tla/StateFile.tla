----------------------------- MODULE StateFile ------------------------------
(***************************************************************************)
(* state.json at the grain of single calls to the file system.  A process  *)
(* reads the whole file when it opens the state; every change it makes is  *)
(* written, piece by piece, to a scratch file whose name all share, which  *)
(* is then renamed over the real one.  A process may be killed anywhere.   *)
(*                                                                         *)
(* A file is an inode: renaming moves a name, and whoever had the old      *)
(* inode open goes on reading it.  What is written is its number in the    *)
(* sequence of changes, which is all that is needed to tell one from       *)
(* another and to see that one builds on the one before.                   *)
(***************************************************************************)
EXTENDS Naturals, FiniteSets

CONSTANTS
    Writers,     \* processes that change the state: chains, previews, ...
    Readers,     \* processes that only look: the console polling
    Inodes,      \* inodes the file system may allocate
    Absent,      \* no inode
    Pieces,      \* writes it takes to write the file
    MayOverlap,  \* two writers may be open at once
    MaxChanges   \* bound: changes made by the writers

Processes == Writers \cup Readers

ASSUME FileAssumption ==
    /\ Writers \cap Readers = {}
    /\ IsFiniteSet(Inodes) /\ Absent \notin Inodes
    /\ Pieces \in Nat \ {0}
    /\ MayOverlap \in BOOLEAN
    /\ MaxChanges \in Nat

VARIABLES
    state,    \* the inode named state.json, or Absent
    scratch,  \* the inode named state.json.tmp, or Absent
    content,  \* per inode, which change each of its pieces is from, 0: nothing
    pc,       \* what a process is doing
    fd,       \* the inode it reads or writes
    pos,      \* how many pieces it has read or written
    got,      \* the pieces it has read
    mine      \* the change its copy of the state is at

files == <<state, scratch, content>>
vars == <<files, pc, fd, pos, got, mine>>

-----------------------------------------------------------------------------
Changes == 0..MaxChanges
Piece   == 1..Pieces
Empty   == [k \in Piece |-> 0]

(* model_validate_json: a file that is not whole reads as a blank state.   *)
Parsed(pieces) ==
    IF \A k \in Piece : pieces[k] = pieces[1] THEN pieces[1] ELSE 0

TypeOK ==
    /\ state \in Inodes \cup {Absent} /\ scratch \in Inodes \cup {Absent}
    /\ content \in [Inodes -> [Piece -> Changes]]
    /\ pc \in [Processes -> {"off", "reading", "open", "writing"}]
    /\ fd \in [Processes -> Inodes \cup {Absent}]
    /\ pos \in [Processes -> 0..Pieces]
    /\ got \in [Processes -> [Piece -> Changes]]
    /\ mine \in [Processes -> Changes]

Init ==
    /\ state = Absent /\ scratch = Absent
    /\ content = [i \in Inodes |-> Empty]
    /\ pc = [p \in Processes |-> "off"]
    /\ fd = [p \in Processes |-> Absent]
    /\ pos = [p \in Processes |-> 0]
    /\ got = [p \in Processes |-> Empty]
    /\ mine = [p \in Processes |-> 0]

-----------------------------------------------------------------------------
(* RunState.__init__, _read: the name is looked up once.                   *)
Open(p) ==
    /\ pc[p] = "off"
    /\ p \in Writers /\ ~MayOverlap => \A q \in Writers : pc[q] = "off"
    /\ pc' = [pc EXCEPT ![p] = "reading"]
    /\ fd' = [fd EXCEPT ![p] = state]
    /\ UNCHANGED <<files, pos, got, mine>>

ReadPiece(p) ==
    /\ pc[p] = "reading" /\ fd[p] # Absent /\ pos[p] < Pieces
    /\ pos' = [pos EXCEPT ![p] = @ + 1]
    /\ got' = [got EXCEPT ![p][pos[p] + 1] = content[fd[p]][pos[p] + 1]]
    /\ UNCHANGED <<files, pc, fd, mine>>

(* Without a file the state is blank too.                                  *)
Parse(p) ==
    /\ pc[p] = "reading" /\ (fd[p] = Absent \/ pos[p] = Pieces)
    /\ pc' = [pc EXCEPT ![p] = IF p \in Writers THEN "open" ELSE "off"]
    /\ fd' = [fd EXCEPT ![p] = Absent]
    /\ mine' = [mine EXCEPT ![p] = Parsed(got[p])]
    /\ pos' = [pos EXCEPT ![p] = 0] /\ got' = [got EXCEPT ![p] = Empty]
    /\ UNCHANGED files

Close(p) ==
    /\ pc[p] = "open"
    /\ pc' = [pc EXCEPT ![p] = "off"]
    /\ UNCHANGED <<files, fd, pos, got, mine>>

-----------------------------------------------------------------------------
Used == {state, scratch} \cup {fd[p] : p \in Processes}

(* save that opens the state file itself.                                  *)
OpenState(p) ==
    /\ pc[p] = "open" /\ mine[p] < MaxChanges
    /\ \E i \in IF state # Absent THEN {state} ELSE Inodes \ Used :
         /\ scratch' = i
         /\ fd' = [fd EXCEPT ![p] = i]
         /\ content' = [content EXCEPT ![i] = Empty]
    /\ pc' = [pc EXCEPT ![p] = "writing"]
    /\ UNCHANGED <<state, pos, got, mine>>

(* save: write_text opens the scratch, which truncates it if it is there.  *)
OpenScratch(p) ==
    /\ pc[p] = "open" /\ mine[p] < MaxChanges
    /\ \E i \in IF scratch # Absent THEN {scratch} ELSE Inodes \ Used :
         /\ scratch' = i
         /\ fd' = [fd EXCEPT ![p] = i]
         /\ content' = [content EXCEPT ![i] = Empty]
    /\ pc' = [pc EXCEPT ![p] = "writing"]
    /\ UNCHANGED <<state, pos, got, mine>>

WritePiece(p) ==
    /\ pc[p] = "writing" /\ pos[p] < Pieces
    /\ content' = [content EXCEPT ![fd[p]][pos[p] + 1] = mine[p] + 1]
    /\ pos' = [pos EXCEPT ![p] = @ + 1]
    /\ UNCHANGED <<state, scratch, pc, fd, got, mine>>

(* replace: whatever the scratch name stands for; an error if for nothing, *)
(* which ends the process.                                                 *)
Replace(p) ==
    /\ pc[p] = "writing" /\ pos[p] = Pieces
    /\ fd' = [fd EXCEPT ![p] = Absent] /\ pos' = [pos EXCEPT ![p] = 0]
    /\ IF scratch = Absent
       THEN /\ pc' = [pc EXCEPT ![p] = "off"]
            /\ UNCHANGED <<state, scratch, mine>>
       ELSE /\ state' = scratch /\ scratch' = Absent
            /\ pc' = [pc EXCEPT ![p] = "open"]
            /\ mine' = [mine EXCEPT ![p] = @ + 1]
    /\ UNCHANGED <<content, got>>

Die(p) ==
    /\ pc[p] # "off"
    /\ pc' = [pc EXCEPT ![p] = "off"]
    /\ fd' = [fd EXCEPT ![p] = Absent]
    /\ pos' = [pos EXCEPT ![p] = 0] /\ got' = [got EXCEPT ![p] = Empty]
    /\ UNCHANGED <<files, mine>>

Next ==
    \E p \in Processes :
      \/ Open(p) \/ ReadPiece(p) \/ Parse(p) \/ Close(p)
      \/ OpenScratch(p) \/ WritePiece(p) \/ Replace(p)
      \/ Die(p)

Spec == Init /\ [][Next]_vars

-----------------------------------------------------------------------------
(* What a name or a descriptor would read as.                              *)
ReadsAs(i) == IF i = Absent THEN 0 ELSE Parsed(content[i])

Counter == INSTANCE Counter WITH
    Nothing <- MaxChanges + 1, count <- ReadsAs(state), known <- mine,
    looked <- [p \in Processes |->
                 IF pc[p] = "reading" THEN ReadsAs(fd[p]) ELSE MaxChanges + 1]

(* "Every mutation writes the whole file immediately and atomically", and  *)
(* a reader "must never catch a half-written file": with one writer at a   *)
(* time, killed anywhere, and any readers, the file behaves as a Counter.  *)
SavesAtomically == Counter!Spec
=============================================================================
