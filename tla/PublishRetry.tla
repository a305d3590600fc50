---------------------------- MODULE PublishRetry ----------------------------
(***************************************************************************)
(* Somebody who publishes again for as long as the last publish failed or  *)
(* what is on the server is not what was built.  Builds, edits and         *)
(* unpublishes may come in between until some moment.                      *)
(***************************************************************************)
EXTENDS Publish

CONSTANT MaxWish    \* bound: no build, edit or unpublish once the clock reads this

ASSUME RetryAssumption == MaxWish \in 1..MaxClock

(* Every worker answers from the latest build, with the YAML as it is, and *)
(* the map is its map.                                                     *)
Deployed ==
    /\ Idle /\ last = "published"
    /\ v1.horizon = local.build /\ v1.metadata = local.build /\ conf = local.yaml
    /\ v1.index = local.tiles /\ v1.shade = local.tiles
    /\ \A w \in Workers : Answers(w) = <<local.build, local.build, local.yaml>>

Retry == ~Deployed /\ StartPublish(TRUE)

RetryNext ==
    \/ clock < MaxWish /\ (Build \/ Edit \/ StartUnpublish)
    \/ Render
    \/ Retry
    \/ Command
    \/ \E w \in Workers : Load(w)
    \/ Trouble

(* The commands of a plan end, the workers come up, builds are rendered    *)
(* and failed publishes are launched again.  Nothing makes anybody build,  *)
(* and nothing makes anything go wrong.                                    *)
RetryFairness ==
    /\ WF_vars(Command)
    /\ \A w \in Workers : WF_vars(Load(w))
    /\ WF_vars(Render)
    /\ WF_vars(Retry)

RetrySpec == Init /\ [][RetryNext]_vars /\ RetryFairness

-----------------------------------------------------------------------------
(* Whatever failed, was interrupted or died before, publishing again is    *)
(* enough: in the end what is ready to be published is deployed, and stays *)
(* so.                                                                     *)
Converges == <>[](Ready => Deployed)
=============================================================================
