--------------------------- MODULE MCGitOpsEngine ---------------------------
(* GitOpsEngine on two applications and three jobs. *)
EXTENDS GitOpsEngine, TLC

CONSTANTS auto, manual

\* Jobs are interchangeable, and so are applications.
JobSymmetry == Permutations(Jobs) \cup Permutations(Apps)
=============================================================================
