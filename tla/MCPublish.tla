----------------------------- MODULE MCPublish ------------------------------
(* A small server, and a viewer beside it.                                 *)
EXTENDS PublishViewer, TLC

Alike == Permutations(Workers)
=============================================================================
