------------------------------- MODULE MCCity -------------------------------
(***************************************************************************)
(* What is recorded of a city's runs: the state file and what it says of   *)
(* the products, and the directory of logs and history beside it.  A       *)
(* behaviour is of one of them, and the other stands still.                *)
(***************************************************************************)
EXTENDS MCCommands, RunHistory

VARIABLE part

FlatLogs == {<<"build", 1>>, <<"publish", 2>>}

NoHistory ==
    /\ entry = [s \in Logged |-> Pending] /\ shelf = {} /\ flat = {} /\ opened = {}
    /\ latest = [s \in Logged |-> 0] /\ history = [exists |-> FALSE, lines |-> <<>>]
    /\ clerk = [p \in Clerks |-> Away] /\ ran = 0 /\ commands = 0 /\ mishaps = {}

MCInit ==
    /\ part \in {"commands", "runs"} /\ Init
    /\ IF part = "runs" THEN HistoryInit ELSE NoHistory

MCNext ==
    \/ part = "commands" /\ Next /\ UNCHANGED <<part, historyVars>>
    \/ part = "runs" /\ HistoryNext /\ UNCHANGED <<part, vars>>

MCSpec == MCInit /\ [][MCNext]_<<part, vars, historyVars>>
=============================================================================
