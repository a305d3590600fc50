----------------------------- MODULE Supervised -----------------------------
(***************************************************************************)
(* A city under somebody who runs the chain again until everything is done *)
(* -- the resume-instead-of-restart runstate.py and runner.py are for.     *)
(* The commands are those of Commands; only when they are asked for is     *)
(* narrower.                                                               *)
(***************************************************************************)
EXTENDS Commands

AllDone == \A i \in 1..Len(Unattended) : Shown(Unattended[i]) = "done"

Rerun(p) == ~AllDone /\ Launch(p)

SupervisedNext ==
    Edit \/ Upgrade \/ \E p \in Pids : Rerun(p) \/ Advance(p) \/ Mishap(p)

(* The supervisor does not give up, a started process is scheduled, and    *)
(* Mishap, Edit and Upgrade may stop happening at any time.                *)
SupervisedSpec ==
    /\ Init /\ [][SupervisedNext]_vars
    /\ WF_vars(\E p \in Pids : Rerun(p))
    /\ \A p \in Pids : WF_vars(Advance(p))

(* Once the upsets are over, running the chain again reaches a state in    *)
(* which every unattended step is done and stays done: no step is stale    *)
(* the instant it succeeds, no two steps take turns making each other      *)
(* stale (RunState.complete, CityState.status).                            *)
RerunConverges == <>[]AllDone
=============================================================================
