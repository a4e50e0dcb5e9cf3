----------------------------- MODULE MCProgress -----------------------------
(***************************************************************************)
(* Three parts that others wait for.  A behaviour of this module is one of *)
(* OperationLock (two processes, one with two threads), of GeneratedTools  *)
(* or of ProviderCall; the others rest in one of their initial states, and *)
(* fairness is required of the one that runs.                              *)
(***************************************************************************)
EXTENDS OperationLock, GeneratedTools, ProviderCall, TLC

CONSTANTS p1, p2, t1, t2, t3

VARIABLE component     \* the component that runs

Placement == t1 :> p1 @@ t2 :> p1 @@ t3 :> p2

progressVars == <<component, vars, toolsVars, callVars>>

ProgressInit ==
    /\ component \in {"lock", "tools", "call"}
    /\ Init
    /\ component # "lock" => guard
    /\ ToolsInit
    /\ component # "tools" => \A v \in Versions : authority[v] = "enabled"
    /\ CallInit
    /\ component # "call" => op = "read"

ProgressNext ==
    /\ UNCHANGED component
    /\ \/ component = "lock" /\ Next /\ UNCHANGED <<toolsVars, callVars>>
       \/ component = "tools" /\ ToolsNext /\ UNCHANGED <<vars, callVars>>
       \/ component = "call" /\ CallNext /\ UNCHANGED <<vars, toolsVars>>

\* The fairness of each component, in the behaviours that are its own.
Locking(A) == component = "lock" /\ A
Serving(A) == component = "tools" /\ A
Calling(A) == component = "call" /\ A

ProgressFairness ==
    /\ \A t \in Threads : /\ SF_vars(Locking(Proceed(t)))
                          /\ WF_vars(Locking(guard /\ FileLockUnavailable(t)))
    /\ SF_toolsVars(Serving(RefreshBegin)) /\ SF_toolsVars(Serving(LoadCatalog))
    /\ SF_toolsVars(Serving(Demote)) /\ SF_toolsVars(Serving(Reload)) /\ SF_toolsVars(Serving(Publish))
    /\ WF_toolsVars(Serving(Reconcile)) /\ WF_toolsVars(Serving(\E v \in Versions : CheckVersion(v)))
    /\ WF_toolsVars(Serving(PersistFails)) /\ WF_toolsVars(Serving(Notify))
    /\ WF_callVars(Calling(Tick)) /\ WF_callVars(Calling(Authorise)) /\ WF_callVars(Calling(Expire))
    /\ WF_callVars(Calling(Retry \/ GiveUp \/ Return))

ProgressSpec == ProgressInit /\ [][ProgressNext]_progressVars /\ ProgressFairness

\* The generated tools follow the catalog: a version whose schema drifted is not
\* offered unguarded, its quarantine ends, and sessions hear of every change
\* (GeneratedToolPublisher).
ToolsFollowCatalog == []DriftWithdrawn /\ DriftSettles /\ SessionsCatchUp

\* A call to a provider ends, within its deadline, and what it reports and audits
\* is true of the at most one request that was sent (call_bound_provider_tool).
CallAccountedFor ==
    /\ [](CertaintyTruthful /\ SentAtMostOnce)
    /\ component = "call" ~> stage = "ended"
=============================================================================
