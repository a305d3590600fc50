----------------------------- MODULE MCCommands -----------------------------
(***************************************************************************)
(* Instances of Commands for TLC: which requests the users of a run make.  *)
(***************************************************************************)
EXTENDS Commands, TLC

Interchangeable == Permutations(Digests) \union Permutations(Engines)

Run(steps, force) == [cmd |-> "run", steps |-> steps, force |-> force]
Ask(cmd, steps)   == [cmd |-> cmd, steps |-> steps, force |-> FALSE]

(* Everything somebody does to a city: the chain up to its gate, single    *)
(* steps again, the purge, the console writing the state file in between,  *)
(* and what goes to the server and comes back from it.                     *)
CityRequests ==
    { Run(<<"basemap", "build", "graph", "tiles", "publish">>, FALSE),
      Run(<<"build">>, TRUE), Run(<<"tiles">>, FALSE),
      Ask("purge", PurgedSteps), Ask("remember", <<>>), Ask("basemap", <<"basemap">>),
      Ask("publish", <<"publish">>), Ask("unpublish", <<"publish">>),
      Ask("preview", <<"preview">>) }

(* A preview opened while a chain is running.                              *)
PreviewRequests == { Run(<<"build", "tiles">>, FALSE), Ask("preview", <<"preview">>) }

OverlapRequests ==
    { Run(<<"build", "tiles">>, FALSE), Ask("purge", PurgedSteps), Ask("remember", <<>>),
      Ask("direct", <<"tiles">>), Ask("preview", <<"preview">>) }
=============================================================================
