------------------------ MODULE MCProviderConnection ------------------------
(***************************************************************************)
(* ProviderConnection with a few callbacks and workers.                    *)
(***************************************************************************)
EXTENDS ProviderConnection, TLC

\* Attempts are interchangeable, and so are workers.
RequestSymmetry == Permutations(Attempts) \cup Permutations(Workers)
=============================================================================
