-------------------------- MODULE ServerLifecycle --------------------------
(***************************************************************************)
(* The MCP server as a process: which tools its registry offers            *)
(* (configure_v1_tools, switching between the legacy and the V1 surface),  *)
(* the HTTP application built on a copy of that registry, the provider     *)
(* composition it opens, the task that keeps the generated tools of the    *)
(* copy at the catalog, and the shutdown that stops all of it in order.    *)
(***************************************************************************)
EXTENDS Naturals, FiniteSets

CONSTANTS
    LegacyNames,    \* tools of the legacy surface
    V1Names,        \* tools of the V1 surface; a name may be in both
    GeneratedNames, \* tools the capability catalog may project
    MaxToggles,     \* reconfigurations of the registry
    MaxRefreshes    \* catalog states the poller meets

\* No tool is called what the model calls the stash that was never filled.
ASSUME LifecycleAssumption ==
    /\ MaxToggles \in Nat /\ MaxRefreshes \in Nat
    /\ "unset" \notin LegacyNames \cup V1Names

VARIABLES
    v1,          \* the surface the process was configured for
    registry,    \* registry[n]: the surface of the tool registered as n
    contracts,   \* names whose published contract is the V1 union
    stash,       \* the legacy tools kept aside, once they were
    toggles,
    app,         \* the stage of the HTTP application
    guard,       \* the middleware in front of it
    offered,     \* the registry the application serves
    generated,   \* the generated tools it serves
    open,        \* resources of the composition that are open
    task,        \* the polling task
    stopping,    \* its stop event
    refreshes

surfaceVars   == <<v1, registry, contracts, stash, toggles>>
appVars       == <<app, guard, offered, generated, open, task, stopping, refreshes>>
lifecycleVars == <<surfaceVars, appVars>>

ToolNames == LegacyNames \cup V1Names

Resources == {"guard", "state", "connection"}

Registered(surface) == {n \in ToolNames : registry[n] = surface}

LegacyRegistry == [n \in ToolNames |-> IF n \in LegacyNames THEN "legacy" ELSE "none"]

------------------------------------------------------------------------------
(* configure_v1_tools, under the configuration lock. *)

(* Deviation: every enabling stashes what it finds. *)
StashAgain == Registered("legacy")

(* The legacy tools are stashed by the first enabling and never again. *)
Stashed == IF stash = {"unset"} THEN Registered("legacy") ELSE stash

(* The registry without the legacy tools. *)
WithoutLegacy == [n \in ToolNames |-> IF registry[n] = "legacy" THEN "none" ELSE registry[n]]

(* _register_tool: a V1 tool takes its name where no tool has it. *)
RegisterTools(left) ==
    [n \in ToolNames |-> IF n \in V1Names /\ left[n] = "none" THEN "v1" ELSE left[n]]

(* The contracts are published for every V1 name, whoever holds it. *)
EnableV1 ==
    /\ stash' = Stashed
    /\ registry' = RegisterTools(WithoutLegacy)
    /\ contracts' = contracts \cup V1Names

(* V1 tools leave, and the stashed ones come back where the name is free. *)
DisableV1 ==
    LET left == [n \in ToolNames |-> IF registry[n] = "v1" THEN "none" ELSE registry[n]] IN
    /\ registry' = [n \in ToolNames |->
                      IF left[n] = "none" /\ n \in stash THEN "legacy" ELSE left[n]]
    /\ contracts' = contracts \ Registered("v1")
    /\ UNCHANGED stash

Configure(enabled) ==
    /\ toggles < MaxToggles
    /\ toggles' = toggles + 1
    /\ v1' = enabled
    /\ IF enabled THEN EnableV1 ELSE DisableV1
    /\ UNCHANGED appVars

------------------------------------------------------------------------------
(* Building the application. *)

(* _validate: one settings object, resolver, store, vault and network guard shared by    *)
(* every part, clients of its own, no test double.                                      *)
CompositionValid(parts) == parts.shared /\ parts.owned /\ ~parts.test

(* The middleware of the configured surface; the legacy one needs a token or a secret.  *)
GuardFor(enabled, required) == IF enabled THEN "oauth" ELSE IF required THEN "bearer" ELSE "open"

(* The callbacks, the setup routes and the cloud handlers must all be there. *)
DependenciesValid(parts) == parts.complete

(* The clients a build opens stay open when the build then fails. *)
BuildComposition(enabled) == open' = IF enabled THEN Resources ELSE {}

(* The application serves a registry of its own, with the tools of this moment. *)
ServingRegistry == registry

(* create_http_app with settings read now: they must be the surface the process was *)
(* configured for.                                                                  *)
BuildApp(enabled, required, parts) ==
    /\ app = "none"
    /\ IF enabled # v1
         THEN app' = "failed" /\ UNCHANGED <<guard, offered, open>>
         ELSE /\ BuildComposition(enabled)
              /\ IF enabled => CompositionValid(parts) /\ DependenciesValid(parts)
                   THEN /\ app' = "built"
                        /\ guard' = GuardFor(enabled, required)
                        /\ offered' = ServingRegistry
                   ELSE app' = "failed" /\ UNCHANGED <<guard, offered>>
    /\ UNCHANGED <<surfaceVars, generated, task, stopping, refreshes>>

(* The lifespan: the composition starts, the first projection is part of readiness. *)
Startup ==
    /\ app = "built"
    /\ \/ app' = IF open = {} THEN "serving" ELSE "projecting"
       \/ open # {} /\ app' = "clearing"
    /\ UNCHANGED <<surfaceVars, guard, offered, generated, open, task, stopping, refreshes>>

InitialProjection ==
    /\ app = "projecting"
    /\ \/ /\ app' = "serving"
          /\ task' = "loading"
          /\ generated' \in SUBSET GeneratedNames
       \/ app' = "clearing" /\ UNCHANGED <<task, generated>>
    /\ UNCHANGED <<surfaceVars, guard, offered, open, stopping, refreshes>>

------------------------------------------------------------------------------
(* refresh_generated_provider_tools_until_stopped. *)

(* The catalog is read in a thread; an outage is left to the next round. *)
LoadsCatalog ==
    /\ task = "loading"
    /\ refreshes < MaxRefreshes
    /\ refreshes' = refreshes + 1
    /\ task' \in {"publishing", "waiting"}
    /\ UNCHANGED <<surfaceVars, app, guard, offered, generated, open, stopping>>

(* The swap of the tools, and then the sessions are told. *)
PublishesTools ==
    /\ task = "publishing"
    /\ generated' \in SUBSET GeneratedNames
    /\ task' = "telling"
    /\ UNCHANGED <<surfaceVars, app, guard, offered, open, stopping, refreshes>>

TellsSessions ==
    /\ task = "telling"
    /\ task' = "waiting"
    /\ UNCHANGED <<surfaceVars, app, guard, offered, generated, open, stopping, refreshes>>

(* The loop looks at the stop event between two rounds. *)
NextRound ==
    /\ task = "waiting"
    /\ task' = IF stopping THEN "ended" ELSE "loading"
    /\ UNCHANGED <<surfaceVars, app, guard, offered, generated, open, stopping, refreshes>>

(* A cancelled task raises at the await it stands at; a notification may take its time *)
(* before it does.                                                                     *)
TaskCancelled ==
    /\ task \in {"cancelled", "lingering"}
    /\ task' = "ended"
    /\ UNCHANGED <<surfaceVars, app, guard, offered, generated, open, stopping, refreshes>>

------------------------------------------------------------------------------
(* The finally block of the lifespan. *)

CancelTask(t) ==
    IF t \in {"none", "ended"} THEN t ELSE IF t = "telling" THEN "lingering" ELSE "cancelled"

(* The server shuts down: the stop event, then the cancellation of the task. *)
Shutdown ==
    /\ app = "serving"
    /\ stopping' = TRUE
    /\ task' = CancelTask(task)
    /\ app' = IF task = "none" THEN "clearing" ELSE "settling"
    /\ UNCHANGED <<surfaceVars, guard, offered, generated, open, refreshes>>

(* The wait for the task ends with it, or times out or is itself cancelled, and the   *)
(* task is left to end on its own.                                                    *)
TaskSettled ==
    /\ app = "settling"
    /\ app' = "clearing"
    /\ UNCHANGED <<surfaceVars, guard, offered, generated, open, task, stopping, refreshes>>

(* publisher.clear. *)
ClearTools ==
    /\ app = "clearing"
    /\ generated' = {}
    /\ app' = "closing"
    /\ UNCHANGED <<surfaceVars, guard, offered, open, task, stopping, refreshes>>

(* aclose: guard, state client, connection client; the first that fails ends it. *)
CloseComposition ==
    /\ app = "closing"
    /\ \/ /\ open # {}
          /\ LET next == CHOOSE r \in open : r = "guard" \/ ("guard" \notin open /\ (r = "state" \/ open = {r}))
             IN  open' = open \ {next}
          /\ UNCHANGED app
       \/ /\ open = {} \/ "connection" \in open
          /\ app' = "stopped"
          /\ UNCHANGED open
    /\ UNCHANGED <<surfaceVars, guard, offered, generated, task, stopping, refreshes>>

------------------------------------------------------------------------------
LifecycleInit ==
    /\ v1 \in BOOLEAN
    /\ registry = IF v1 THEN [n \in ToolNames |-> IF n \in V1Names THEN "v1" ELSE "none"]
                        ELSE LegacyRegistry
    /\ contracts = IF v1 THEN V1Names ELSE {}
    /\ stash = IF v1 THEN LegacyNames ELSE {"unset"}
    /\ toggles = 0
    /\ app = "none" /\ guard = "none" /\ open = {} /\ generated = {}
    /\ offered = [n \in ToolNames |-> "none"]
    /\ task = "none" /\ stopping = FALSE /\ refreshes = 0

LifecycleNext ==
    \/ \E enabled \in BOOLEAN : Configure(enabled)
    \/ \E enabled, required \in BOOLEAN :
          \E parts \in [{"shared", "owned", "test", "complete"} -> BOOLEAN] :
             BuildApp(enabled, required, parts)
    \/ Startup \/ InitialProjection \/ LoadsCatalog \/ PublishesTools \/ TellsSessions
    \/ NextRound \/ TaskCancelled \/ Shutdown \/ TaskSettled \/ ClearTools \/ CloseComposition

LifecycleSpec == LifecycleInit /\ [][LifecycleNext]_lifecycleVars

------------------------------------------------------------------------------
(* Properties. *)

(* However often the process is switched between the surfaces, the registry holds one  *)
(* surface exactly: all V1 tools under their published contracts and no legacy tool, or *)
(* all legacy tools and no V1 one.                                                      *)
SurfaceExact ==
    IF v1 THEN /\ registry = [n \in ToolNames |-> IF n \in V1Names THEN "v1" ELSE "none"]
               /\ contracts = V1Names
          ELSE registry = LegacyRegistry /\ contracts = {}

(* Once the shutdown has cleared the generated tools none comes back, though the task   *)
(* that publishes them may outlive the wait for it; and the application never runs the  *)
(* polling task on a composition it has begun to close.                                 *)
ClearedStaysCleared ==
    app \in {"closing", "stopped"} =>
        /\ generated = {}
        /\ task \in {"none", "cancelled", "lingering", "ended"}

(* Starting, switching and stopping leave exactly the tools that belong to the process. *)
ToolsExact == SurfaceExact /\ ClearedStaysCleared
=============================================================================
