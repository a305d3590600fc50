------------------------------ MODULE Counter -------------------------------
(***************************************************************************)
(* What the state file promises to the processes that share it: one count  *)
(* of the changes made.  Who opens it learns the count as it was at one    *)
(* moment while it was opening, and who changes it has the latest count in *)
(* hand, so that no change is ever lost.                                   *)
(***************************************************************************)
EXTENDS Naturals

CONSTANTS Processes, Nothing

VARIABLES
    count,   \* the changes made
    looked,  \* what a process that is opening saw, or Nothing
    known    \* what each process last learned or made

Init ==
    /\ count = 0
    /\ looked = [p \in Processes |-> Nothing]
    /\ known = [p \in Processes |-> 0]

Look(p) ==
    /\ looked[p] = Nothing
    /\ looked' = [looked EXCEPT ![p] = count]
    /\ UNCHANGED <<count, known>>

Learn(p) ==
    /\ looked[p] # Nothing
    /\ looked' = [looked EXCEPT ![p] = Nothing]
    /\ known' = [known EXCEPT ![p] = looked[p]]
    /\ UNCHANGED count

Change(p) ==
    /\ known[p] = count
    /\ count' = count + 1
    /\ known' = [known EXCEPT ![p] = count + 1]
    /\ UNCHANGED looked

Abandon(p) ==
    /\ looked' = [looked EXCEPT ![p] = Nothing]
    /\ UNCHANGED <<count, known>>

Next == \E p \in Processes : Look(p) \/ Learn(p) \/ Change(p) \/ Abandon(p)

Spec == Init /\ [][Next]_<<count, looked, known>>
=============================================================================
