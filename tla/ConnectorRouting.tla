--------------------------- MODULE ConnectorRouting ---------------------------
(***************************************************************************)
(* How Mercury decides that a connector profile is ready.  The same        *)
(* question is answered by code in three places, each in its own way: the  *)
(* status stored with the profile (db/product.py), the resolution the      *)
(* workspace tools use (mcp/server.py) and the Skill router                *)
(* (skills/routing.py).                                                    *)
(*                                                                         *)
(* One connector and environment.  A host submits validation evidence for  *)
(* a mode of the connector and asks the tools; every tool reads the        *)
(* profiles and answers, which changes nothing but `answer`.               *)
(***************************************************************************)
EXTENDS Naturals, Sequences, FiniteSets

CONSTANTS
    ProviderActionIds,        \* provider actions
    Mutations,      \* the actions whose name has a mutation segment
    Capabilities,   \* capability names a host may use: actions and aliases
    Catalogs,       \* what the connector manifest may declare, per mode
    SkillSet,         \* [required, optional] sets of capabilities
    Observed,       \* states an observation may report
    MaxProfileChanges  \* bound: links and validations

ConnectionModes == {"native_mcp", "api_driver", "local_bridge"}

ASSUME RoutingAssumption ==
    /\ Mutations \subseteq ProviderActionIds /\ ProviderActionIds \subseteq Capabilities
    /\ Observed \subseteq {"observed", "not_authorized", "validation_failed",
                           "provider_unavailable", "environment_mismatch"}
    /\ MaxProfileChanges \in Nat

VARIABLES changes,   \* links and validations so far
          catalog,   \* mode -> [aliases, unavailable, discovered]
          stored,    \* mode -> profile
          evidence,  \* mode -> the observations behind the profile
          answer     \* the last answer of a tool

routingVars == <<changes, catalog, stored, evidence, answer>>

Unset == [a \in ProviderActionIds |-> "unset"]

NotLinked == [linked |-> FALSE, states |-> Unset, validated |-> FALSE,
              server |-> FALSE, status |-> "absent"]

NoAnswer == [tool |-> "none", mode |-> "none", status |-> "none",
             skill |-> [required |-> {}, optional |-> {}], plan |-> {}]

(* ConnectorManifest.provider_capabilities: an alias stands for actions, a *)
(* declared action for itself.                                             *)
ProviderCapabilities(mode, cap) ==
    IF cap \in DOMAIN catalog[mode].aliases THEN catalog[mode].aliases[cap]
    ELSE IF cap \in catalog[mode].declared THEN {cap}
    ELSE {}

(* _profile_provider_actions: a mode that discovers its tools accepts any  *)
(* name.                                                                   *)
ProviderActions(mode, cap) ==
    IF ProviderCapabilities(mode, cap) # {} THEN ProviderCapabilities(mode, cap)
    ELSE IF catalog[mode].discovered THEN {cap} \cap ProviderActionIds ELSE {}

ObservedStates(p) == {p.states[a] : a \in {b \in ProviderActionIds : p.states[b] # "unset"}}

(***************************************************************************)
(* The stored status.                                                      *)
(***************************************************************************)
CatalogBound(mode, p) ==
    \/ catalog[mode].discovered
    \/ \A a \in ProviderActionIds : p.states[a] = "observed" => ProviderCapabilities(mode, a) # {}

ReviewedMutation(mode, p) ==
    /\ mode = "api_driver" /\ ~catalog[mode].discovered
    /\ \E a \in Mutations : /\ p.states[a] = "observed"
                            /\ ProviderCapabilities(mode, a) # {}

StatusOf(mode, p) ==
    IF ~p.validated \/ ObservedStates(p) = {} THEN
        IF mode = "local_bridge" THEN "requires_local_setup" ELSE "needs_validation"
    ELSE IF "not_authorized" \in ObservedStates(p) THEN "requires_authorization"
    ELSE IF ObservedStates(p) # {"observed"} THEN "needs_validation"
    ELSE IF ~CatalogBound(mode, p) THEN "needs_validation"
    ELSE IF mode = "native_mcp" /\ catalog[mode].discovered THEN "ready_read_only"
    ELSE IF mode = "native_mcp" THEN
        IF \E a \in ProviderActionIds \ Mutations : p.states[a] = "observed"
        THEN "ready_read_only" ELSE "needs_validation"
    ELSE IF ReviewedMutation(mode, p) THEN "ready_read_write"
    ELSE "ready_read_only"

ReadyStatus(status) == status \in {"ready_read_only", "ready_read_write"}

(***************************************************************************)
(* _canonical_evidence_capability_states: aliases are expanded, and an     *)
(* action reached twice refuses the evidence.                              *)
(***************************************************************************)
Reached(mode, obs, a) == {i \in 1..Len(obs) : a \in ProviderActions(mode, obs[i].capability)}

(* Deviation: the last of several observations of an action wins.          *)
AcceptedAnyway(mode, obs) ==
    \A i \in 1..Len(obs) : ProviderActions(mode, obs[i].capability) # {}

AcceptsEvidence(mode, obs) ==
    /\ \A i \in 1..Len(obs) : ProviderActions(mode, obs[i].capability) # {}
    /\ \A a \in ProviderActionIds : Cardinality(Reached(mode, obs, a)) <= 1

LastReached(mode, obs, a) ==
    CHOOSE i \in Reached(mode, obs, a) : \A j \in Reached(mode, obs, a) : j <= i

EvidenceStates(mode, obs) ==
    [a \in ProviderActionIds |-> IF Reached(mode, obs, a) = {} THEN "unset"
                       ELSE obs[LastReached(mode, obs, a)].state]

(***************************************************************************)
(* _workspace_connector_resolution.                                        *)
(***************************************************************************)
LinkedModes == {m \in ConnectionModes : stored[m].linked}

RequiredReason(mode, p, cap) ==
    LET acts == ProviderActions(mode, cap)
    IN  IF acts = {} THEN "not_validated"
        ELSE IF acts \cap catalog[mode].unavailable # {} THEN "provider_unavailable"
        ELSE IF \A a \in acts : p.states[a] = "observed" THEN "ready"
        ELSE "not_validated"

ResolveProfile(mode, p, required) ==
    IF ~p.validated THEN
        IF mode = "local_bridge" THEN "local_bridge_required" ELSE "not_validated"
    ELSE IF ObservedStates(p) = {} THEN "not_validated"
    ELSE IF \E a \in ProviderActionIds : p.states[a] = "observed" /\ ProviderActions(mode, a) = {}
    THEN "not_validated"
    ELSE IF ObservedStates(p) # {"observed"} THEN CHOOSE s \in ObservedStates(p) : s # "observed"
    ELSE IF ~ReadyStatus(p.status) THEN "not_validated"
    ELSE IF \E c \in required : RequiredReason(mode, p, c) # "ready"
    THEN RequiredReason(mode, p, CHOOSE c \in required : RequiredReason(mode, p, c) # "ready")
    ELSE "ready"

ResolveMode(mode, required) ==
    IF mode = "any" /\ Cardinality(LinkedModes) # 1 THEN "connection_mode_required"
    ELSE LET m == IF mode = "any" THEN CHOOSE n \in LinkedModes : TRUE ELSE mode
         IN  IF ~stored[m].linked THEN
                 IF m = "local_bridge" THEN "local_bridge_required" ELSE "not_validated"
             ELSE ResolveProfile(m, stored[m], required)

(***************************************************************************)
(* The Skill router.                                                       *)
(***************************************************************************)
RoutedActions(mode, p, cap) ==
    IF ProviderCapabilities(mode, cap) # {} THEN ProviderCapabilities(mode, cap)
    ELSE IF catalog[mode].discovered /\ cap \in ProviderActionIds /\ p.states[cap] # "unset"
    THEN {cap} ELSE {}

CapabilityResolution(mode, p, cap) ==
    LET acts == RoutedActions(mode, p, cap)
    IN  IF acts = {} \/ acts \cap catalog[mode].unavailable # {}
        THEN "provider_capability_unavailable"
        ELSE IF \A a \in acts : p.states[a] = "observed" THEN "observed"
        ELSE IF \E a \in acts : p.states[a] = "provider_unavailable"
        THEN "provider_capability_unavailable"
        ELSE IF \E a \in acts : p.states[a] \in {"not_authorized", "validation_failed"}
        THEN "not_authorized"
        ELSE "not_validated"

AssessProfile(skill, mode) ==
    LET p == stored[mode]
        failed == {c \in skill.required : CapabilityResolution(mode, p, c) # "observed"}
    IN  IF mode = "local_bridge" THEN "local_bridge_required"
        ELSE IF failed # {} THEN CapabilityResolution(mode, p, CHOOSE c \in failed : TRUE)
        ELSE IF mode = "native_mcp" /\ ~p.server THEN "not_validated"
        ELSE IF ~ReadyStatus(p.status) THEN
            IF p.status = "requires_authorization" THEN "not_authorized" ELSE "not_validated"
        ELSE "ready"

(* _host_execution_plan: the required and the observed capabilities.       *)
ExecutionPlan(skill, mode) ==
    skill.required \cup
        {c \in skill.optional : CapabilityResolution(mode, stored[mode], c) = "observed"}

(* resolve_skill_route: never a preference among ready profiles.           *)
SkillRoute(skill, mode) ==
    LET candidates == {m \in LinkedModes : mode = "any" \/ m = mode}
        ready == {m \in candidates : AssessProfile(skill, m) = "ready"}
        bridges == {m \in candidates : AssessProfile(skill, m) = "local_bridge_required"}
        chosen == CHOOSE m \in ready : TRUE
    IN  IF Cardinality(ready) > 1
        THEN [status |-> "connector_selection_required", mode |-> "none", plan |-> {}]
        ELSE IF ready # {}
        THEN [status |-> "ready", mode |-> chosen, plan |-> ExecutionPlan(skill, chosen)]
        ELSE IF bridges # {}
        THEN [status |-> "local_bridge_required", mode |-> "local_bridge", plan |-> {}]
        ELSE [status |-> "unavailable", mode |-> "none", plan |-> {}]

(***************************************************************************)
(* The steps.                                                              *)
(***************************************************************************)
NewProfile(mode) ==
    [NotLinked EXCEPT !.linked = TRUE, !.server = mode = "native_mcp",
                      !.status = StatusOf(mode, NotLinked)]

RoutingInit ==
    /\ changes = 0
    /\ catalog \in Catalogs
    /\ \E linked \in SUBSET ConnectionModes :
          stored = [m \in ConnectionModes |->
                      IF m \in linked THEN NewProfile(m) ELSE NotLinked]
    /\ evidence = [m \in ConnectionModes |-> <<>>]
    /\ answer = NoAnswer

Change == changes < MaxProfileChanges /\ changes' = changes + 1

(* link_connector_profile: native_mcp profiles need a server name.         *)
LinkMode(mode) ==
    /\ Change
    /\ stored' = [stored EXCEPT ![mode] = NewProfile(mode)]
    /\ evidence' = [evidence EXCEPT ![mode] = <<>>]
    /\ answer' = NoAnswer
    /\ UNCHANGED catalog

(* validate_connector_connection, on a linked profile.                     *)
ValidateMode(mode, obs) ==
    /\ Change
    /\ stored[mode].linked
    /\ AcceptsEvidence(mode, obs)
    /\ LET p == [stored[mode] EXCEPT !.states = EvidenceStates(mode, obs), !.validated = TRUE]
       IN  stored' = [stored EXCEPT ![mode] = [p EXCEPT !.status = StatusOf(mode, p)]]
    /\ evidence' = [evidence EXCEPT ![mode] = obs]
    /\ answer' = NoAnswer
    /\ UNCHANGED catalog

(* run_accounting_skill.                                                   *)
RunSkill(skill, mode) ==
    /\ LET route == SkillRoute(skill, mode)
       IN  answer' = [NoAnswer EXCEPT !.tool = "run_accounting_skill", !.skill = skill,
                        !.status = route.status, !.mode = route.mode, !.plan = route.plan]
    /\ UNCHANGED <<changes, catalog, stored, evidence>>

(* connector_capabilities.                                                 *)
ConnectorCapabilities(mode) ==
    /\ answer' = [NoAnswer EXCEPT !.tool = "connector_capabilities", !.mode = mode,
                    !.status = ResolveMode(mode, {})]
    /\ UNCHANGED <<changes, catalog, stored, evidence>>

(* connector_status: ready only with exactly one profile.                  *)
ConnectorStatus ==
    /\ answer' = [NoAnswer EXCEPT !.tool = "connector_status",
                    !.status = IF Cardinality(LinkedModes) > 1 THEN "mode_required"
                               ELSE IF LinkedModes = {} THEN "requires_setup"
                               ELSE ResolveMode("any", {})]
    /\ UNCHANGED <<changes, catalog, stored, evidence>>

(* retrieve_workspace_context_pack: the one active profile, or none.       *)
ContextPack ==
    /\ answer' = [NoAnswer EXCEPT !.tool = "retrieve_workspace_context_pack",
                    !.status = IF Cardinality(LinkedModes) = 1 /\ ResolveMode("any", {}) = "ready"
                               THEN "ok" ELSE "requires_setup"]
    /\ UNCHANGED <<changes, catalog, stored, evidence>>

(* run_mercury_flow of a connector-backed flow.                            *)
RunConnectorFlow(mode, required) ==
    /\ answer' = [NoAnswer EXCEPT !.tool = "run_mercury_flow", !.mode = mode,
                    !.status = IF ResolveMode(mode, required) = "ready" THEN "run"
                               ELSE "not_ready"]
    /\ UNCHANGED <<changes, catalog, stored, evidence>>

ObservationSet == [capability : Capabilities, state : Observed]
Submissions == {<<o>> : o \in ObservationSet} \cup {<<o, q>> : o, q \in ObservationSet}

RoutingNext ==
    \/ \E m \in ConnectionModes :
        \/ LinkMode(m) \/ ConnectorCapabilities(m)
        \/ \E obs \in Submissions : ValidateMode(m, obs)
    \/ \E s \in SkillSet, m \in ConnectionModes \cup {"any"} :
        RunSkill(s, m) \/ RunConnectorFlow(m, s.required)
    \/ ConnectorStatus \/ ContextPack

RoutingSpec == RoutingInit /\ [][RoutingNext]_routingVars

(***************************************************************************)
(* Properties.                                                             *)
(***************************************************************************)

(* The places that decide agree in the direction that matters: a Skill     *)
(* route is ready only on a profile the workspace resolution also holds    *)
(* ready for every capability the Skill requires, and its host plan names  *)
(* only capabilities all of whose provider actions were observed.          *)
RouteIsReady ==
    answer.tool = "run_accounting_skill" /\ answer.status = "ready" =>
        /\ ResolveMode(answer.mode, answer.skill.required) = "ready"
        /\ \A c \in answer.plan : \A a \in ProviderActions(answer.mode, c) :
               stored[answer.mode].states[a] = "observed"

(* What is stored of a validation does not depend on the order in which    *)
(* the host listed its observations: every action's state follows from     *)
(* exactly one observation, aliases expanded.                              *)
EvidenceUnambiguous ==
    \A m \in ConnectionModes, a \in ProviderActionIds :
        Cardinality({evidence[m][i].state :
                        i \in Reached(m, evidence[m], a)}) <= 1

\* Skills are routed by observations, and these can be read one way only.
RoutingSound == RouteIsReady /\ EvidenceUnambiguous
=============================================================================
