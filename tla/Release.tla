------------------------------ MODULE Release -------------------------------
(***************************************************************************)
(* What a service that is upgraded by restarting it promises: its servers  *)
(* answer from one whole release, the same for all, and change to another  *)
(* only by all going down first.                                           *)
(***************************************************************************)
CONSTANTS
    Servers,
    Whole,      \* the releases fit to be served
    Absent,     \* what a server answers that has none
    Down        \* what nobody answers

VARIABLE on     \* what each server answers from

Init == on = [s \in Servers |-> Absent]

TakeDown == on' = [s \in Servers |-> Down]

(* A server comes back with any whole release, if it is the first, and     *)
(* with what the others answer from if it is not.                          *)
BringUp(s) ==
    /\ on[s] = Down
    /\ \E r \in Whole \cup {Absent} :
         /\ \A t \in Servers : on[t] \in {Down, r}
         /\ on' = [on EXCEPT ![s] = r]

Next == TakeDown \/ \E s \in Servers : BringUp(s)

Spec == Init /\ [][Next]_on
=============================================================================
