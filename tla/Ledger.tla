------------------------------- MODULE Ledger -------------------------------
(***************************************************************************)
(* What a city's state file promises to whoever reads it, with no file and *)
(* no memory in it.  Each step has one entry.  An entry changes only       *)
(* because of a process that is at work on that step, or because what the  *)
(* step produced is taken away while nobody is; and the entries of the     *)
(* other steps stay as they are.                                           *)
(***************************************************************************)
CONSTANTS Steps, Owners, Nowhere, Nobody

VARIABLES
    entry,  \* each step's status and, while it runs, whose run it is
    at      \* the step each owner is inside, or Nowhere

Entry(status, owner) == [status |-> status, owner |-> owner]

Init ==
    /\ \A s \in Steps : entry[s].status = "pending"
    /\ at = [p \in Owners |-> Nowhere]

Enter(p, s) ==
    /\ at[p] = Nowhere
    /\ \A q \in Owners : at[q] # s
    /\ at' = [at EXCEPT ![p] = s]
    /\ entry' = [entry EXCEPT ![s] = Entry("running", p)]

(* It ends: done, failed, or with its result removed.                      *)
Settle(p) ==
    /\ at[p] # Nowhere
    /\ at' = [at EXCEPT ![p] = Nowhere]
    /\ \E outcome \in {"done", "failed", "pending"} :
         entry' = [entry EXCEPT ![at[p]] = Entry(outcome, Nobody)]

(* It dies inside the step: the entry goes on naming it.                   *)
Vanish(p) ==
    /\ at[p] # Nowhere
    /\ at' = [at EXCEPT ![p] = Nowhere]
    /\ UNCHANGED entry

Reset(s) ==
    /\ \A q \in Owners : at[q] # s
    /\ entry' = [entry EXCEPT ![s] = Entry("pending", Nobody)]
    /\ UNCHANGED at

Next ==
    \/ \E p \in Owners : Settle(p) \/ Vanish(p) \/ \E s \in Steps : Enter(p, s)
    \/ \E s \in Steps : Reset(s)

Spec == Init /\ [][Next]_<<entry, at>>
=============================================================================
