---------------------------- MODULE MCSupervised ----------------------------
EXTENDS Supervised

(* run --to publish, as far as it goes: that step is a gate.               *)
WholeChain == { [cmd |-> "run", steps |-> Unattended \o <<"publish">>, force |-> FALSE] }
=============================================================================
