------------------------------ MODULE MCRetry -------------------------------
(***************************************************************************)
(* What is started again until it works, and has to be got rid of: a       *)
(* publish, and the preview before it.  A behaviour is of one, and the     *)
(* other stands still.                                                     *)
(***************************************************************************)
EXTENDS PublishRetry, Preview

VARIABLE part

MCInit ==
    /\ part \in {"publish", "preview"}
    /\ Init /\ PreviewInit
    /\ part = "publish" => viewer

MCNext ==
    \/ part = "publish" /\ RetryNext /\ UNCHANGED <<part, previewVars>>
    \/ part = "preview" /\ PreviewNext /\ UNCHANGED <<part, vars>>

MCSpec ==
    /\ MCInit /\ [][MCNext]_<<part, vars, previewVars>>
    /\ part = "publish" => RetryFairness
    /\ PreviewFairness
=============================================================================
