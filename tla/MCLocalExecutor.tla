-------------------------- MODULE MCLocalExecutor --------------------------
(***************************************************************************)
(* Finite instances of the local executor.  The cfg files choose how many  *)
(* processes, requests, secrets, versions and preflights there are.        *)
(***************************************************************************)
EXTENDS LocalExecutor, TLC

CONSTANTS t1, t2, p1, p2, r1, r2

\* Two tasks of one process, and two tasks of two processes.
OneProcess == t1 :> p1 @@ t2 :> p1
TwoProcesses == t1 :> p1 @@ t2 :> p2

\* Swapping the processes together with their tasks leaves Home as it is.
ProcessSymmetry ==
    {r @@ s : r \in Permutations({r1, r2}),
              s \in {t1 :> t2 @@ t2 :> t1 @@ p1 :> p2 @@ p2 :> p1,
                     t1 :> t1 @@ t2 :> t2 @@ p1 :> p1 @@ p2 :> p2}}
=============================================================================
