------------------------- MODULE MCHostedOperation -------------------------
(***************************************************************************)
(* HostedOperation with a few documents and callers.                       *)
(***************************************************************************)
EXTENDS HostedOperation, TLC

\* Documents are interchangeable, and so are callers.
DocumentSymmetry == Permutations(Items) \cup Permutations(Workers)
=============================================================================
