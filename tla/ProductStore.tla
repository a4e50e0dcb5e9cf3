----------------------------- MODULE ProductStore -----------------------------
(***************************************************************************)
(* The workspace state of Mercury Connect, src/mercury_tools/db/product.py,*)
(* and the MCP tools that use it, src/mercury_tools/mcp/server.py.         *)
(*                                                                         *)
(* One workspace.  Every store operation is a sequence of separate HTTP    *)
(* requests, so the requests of several clients interleave.  A request     *)
(* that fails because PostgREST does not know the product tables sends the *)
(* whole operation to a second storage, the audit events; the tables may   *)
(* come and go between two requests (schemaUp).  Any request may also fail *)
(* for another reason, which ends the call.                                *)
(***************************************************************************)
EXTENDS Naturals, Sequences, FiniteSets

CONSTANTS Clients,      \* holders of a client token of the workspace
          Registered,   \* the clients connected at the start
          Modes,        \* connection modes of the one connector
          Companies,    \* what company_ref and company_name may name
          Evidence,     \* validation evidence a host may submit
          Outcome,      \* the capability state each evidence observed
          Flows,        \* contents of saved flows
          Ops,          \* the operations clients use
          MaxCalls,     \* bound: calls begun in all
          MaxFlips      \* bound: changes of schemaUp

States == {"observed", "not_authorized", "validation_failed"}

ASSUME ProductAssumption ==
    /\ Registered \subseteq Clients
    /\ Outcome \in [Evidence -> States]
    /\ IsFiniteSet(Flows)
    /\ Ops \subseteq {"connect", "link", "setup", "validate", "unlink",
                      "skill", "invite", "upload", "save", "run"}
    /\ MaxCalls \in Nat /\ MaxFlips \in Nat

VARIABLES
    schemaUp,       \* PostgREST knows the mercury_ tables
    registered,     \* client -> "none", "member", "token": rows written
    member,         \* client -> status of the member row
    profiles,       \* the mercury_connector_profiles rows, by mode
    skills,         \* mercury_skill_catalog/uploads/workspace_skills
    productEvents,  \* mercury_product_events: runs it lists
    auditEvents,    \* mcp_audit_events of the product layer, in order
    calls,          \* client -> its call
    begun, flips,   \* the bounded counters
    saved,          \* flows that calls answered as saved
    recorded,       \* runs answered as recorded: <<number, storage>>
    ran             \* profiles on which a flow was started

productVars == <<schemaUp, registered, member, profiles, skills, productEvents,
                 auditEvents, calls, begun, flips, saved, recorded, ran>>

None == "none"

(* A stored profile.  The validation fields name the evidence they came    *)
(* from; validated stands for evidence_source and validated_at.            *)
Profile(name, ref, states, validated, evidence) ==
    [name |-> name, ref |-> ref, states |-> states,
     validated |-> validated, evidence |-> evidence]

NoProfile == Profile(None, None, None, None, "absent")
Absent(p) == p.evidence = "absent"

(* connector_profile_status: what the validation fields amount to.         *)
ProfileStatus(p) ==
    IF Absent(p) THEN "absent"
    ELSE IF p.validated = None \/ p.states = None THEN "needs_validation"
    ELSE IF Outcome[p.states] = "not_authorized" THEN "requires_authorization"
    ELSE IF Outcome[p.states] # "observed" THEN "needs_validation"
    ELSE "ready"

(***************************************************************************)
(* The profile an operation writes, from the profile it read.  Arguments   *)
(* left out keep what was read, a link resets the validation.              *)
(***************************************************************************)
Given(new, old) == IF new = None THEN old ELSE new

(* Deviation: a link that leaves the evidence reference behind.            *)
StaleReference(call, old) == old.evidence

ResetEvidence(call, old) == IF call.op = "link" THEN None ELSE old.evidence

Kept(p) == IF Absent(p) THEN Profile(None, None, None, None, None) ELSE p

MergedProfile(call) ==
    LET old == Kept(call.seen)
        fresh == IF call.op = "validate" THEN call.arg ELSE None
    IN  [name |-> Given(call.name, old.name),
         ref |-> Given(call.ref, old.ref),
         states |-> IF call.op = "link" THEN None ELSE Given(fresh, old.states),
         validated |-> IF call.op = "link" THEN None ELSE Given(fresh, old.validated),
         evidence |-> Given(fresh, ResetEvidence(call, old))]

(* The upsert merges into the row of now: company_name is only in the      *)
(* payload when the call gives one.                                        *)
UpsertedProfile(call, row) ==
    [MergedProfile(call) EXCEPT !.name = Given(call.name, Kept(row).name)]

(***************************************************************************)
(* The audit-event storage: state is what the events, in order, say.       *)
(* An event is found by the workspace key it carries; record_event falls   *)
(* back to an event keyed by the workspace id unless it was given the key. *)
(***************************************************************************)
StateEvent(key, type, mode, value) ==
    [key |-> key, type |-> type, mode |-> mode, value |-> value]

FallbackEvents == {i \in DOMAIN auditEvents : auditEvents[i].key = "key"}

LastFor(mode) ==
    {i \in FallbackEvents : /\ auditEvents[i].type \in {"configured", "unlinked"}
                            /\ auditEvents[i].mode = mode}

FallbackProfiles ==
    [m \in Modes |->
        IF LastFor(m) = {} THEN NoProfile
        ELSE LET i == CHOOSE k \in LastFor(m) : \A j \in LastFor(m) : j <= k
             IN  IF auditEvents[i].type = "configured" THEN auditEvents[i].value ELSE NoProfile]

EventValues(type) ==
    {auditEvents[i].value : i \in {j \in FallbackEvents : auditEvents[j].type = type}}

FlowsFound == EventValues("flow.saved")

AppendState(type, mode, value) ==
    auditEvents' = Append(auditEvents, StateEvent("key", type, mode, value))

(***************************************************************************)
(* Calls.                                                                  *)
(***************************************************************************)
Idle == [op |-> None, step |-> "idle", mode |-> None, name |-> None,
         ref |-> None, arg |-> None, ctx |-> None, seen |-> NoProfile,
         number |-> 0]

At(c, steps) == calls[c].step \in steps

Go(c, step) == calls' = [calls EXCEPT ![c].step = step]
Finish(c) == calls' = [calls EXCEPT ![c] = Idle]

(* A workspace in use: linked profiles and a saved flow, or none of them.  *)
ProductInit ==
    /\ schemaUp \in BOOLEAN
    /\ registered = [c \in Clients |-> IF c \in Registered THEN "token" ELSE "none"]
    /\ member = [c \in Clients |-> IF c \in Registered THEN "active" ELSE "none"]
    /\ profiles \in [Modes -> {NoProfile} \cup
                               {Profile(n, None, None, None, None) : n \in Companies}]
    /\ skills = [document |-> FALSE, catalog |-> FALSE, uploads |-> 0, enabled |-> FALSE]
    /\ productEvents = {}
    /\ saved \in {{}, Flows}
    /\ auditEvents \in {s \in [1..Cardinality(saved) -> {StateEvent("key", "flow.saved", None, f) : f \in saved}] :
                          \A f \in saved : \E i \in DOMAIN s : s[i].value = f}
    /\ calls = [c \in Clients |-> Idle]
    /\ begun = 0 /\ flips = 0
    /\ recorded = {} /\ ran = {}

SchemaFlips ==
    /\ flips < MaxFlips
    /\ schemaUp' = ~schemaUp
    /\ flips' = flips + 1
    /\ UNCHANGED <<registered, member, profiles, skills, productEvents, auditEvents,
                   calls, begun, saved, recorded, ran>>

Begin(c, call) ==
    /\ call.op \in Ops
    /\ At(c, {"idle"})
    /\ begun < MaxCalls
    /\ begun' = begun + 1
    /\ calls' = [calls EXCEPT ![c] = [call EXCEPT !.number = begun + 1]]
    /\ UNCHANGED <<schemaUp, registered, member, profiles, skills, productEvents,
                   auditEvents, flips, saved, recorded, ran>>

(* connect and create_public_workspace; one workspace name.                *)
Connect(c) == Begin(c, [Idle EXCEPT !.op = "connect", !.step = "workspace"])

(* link_connector_profile: the guards of the tool leave nothing behind; a  *)
(* call names a company, and its ref or not.                               *)
LinkProfile(c) ==
    \E m \in Modes, n \in Companies :
        \E r \in {None, n} :
            Begin(c, [Idle EXCEPT !.op = "link", !.step = "context", !.mode = m,
                                  !.name = n, !.ref = r])

(* start_connector_setup of the HTTP layer: no reset of the validation.    *)
SetupConnector(c) ==
    \E m \in Modes : Begin(c, [Idle EXCEPT !.op = "setup", !.step = "context", !.mode = m])

ValidateConnection(c) ==
    \E m \in Modes, e \in Evidence :
        Begin(c, [Idle EXCEPT !.op = "validate", !.step = "context", !.mode = m, !.arg = e])

UnlinkProfile(c) ==
    \E m \in Modes : Begin(c, [Idle EXCEPT !.op = "unlink", !.step = "context", !.mode = m])

EnableSkill(c) ==
    \E on \in {"on", "off"} :
        Begin(c, [Idle EXCEPT !.op = "skill", !.step = "context", !.arg = on])

InviteMember(c) ==
    \E other \in Clients :
        Begin(c, [Idle EXCEPT !.op = "invite", !.step = "context", !.arg = other])

UploadSkill(c) ==
    Begin(c, [Idle EXCEPT !.op = "upload", !.step = "context0", !.arg = "on"])

SaveFlow(c) ==
    \E f \in Flows : Begin(c, [Idle EXCEPT !.op = "save", !.step = "save", !.arg = f])

(* run_workspace_flow: the mode may be left out.                           *)
RunWorkspaceFlow(c) ==
    \E m \in Modes \cup {None}, f \in Flows :
        Begin(c, [Idle EXCEPT !.op = "run", !.step = "context", !.mode = m, !.arg = f])

(* The flow comes with the request: it is checked against the profiles     *)
(* when it needs a connector, run, and recorded in either case.            *)
RunInlineFlow(c) ==
    \/ \E m \in Modes \cup {None} :
        Begin(c, [Idle EXCEPT !.op = "run", !.step = "context", !.mode = m, !.arg = None])
    \/ Begin(c, [Idle EXCEPT !.op = "run", !.step = "context2", !.arg = None])

(***************************************************************************)
(* workspace_for_token.  The token, workspace and member rows; without the *)
(* tables the context is made up from the token and is always active.      *)
(***************************************************************************)
Admitted(c) == registered[c] = "token" /\ member[c] = "active"

AfterContext(call) ==
    CASE call.op \in {"link", "setup"} -> "read"
      [] call.op = "validate" -> IF call.step = "context" THEN "check" ELSE "read"
      [] call.op = "unlink" -> "delete"
      [] call.op = "skill" -> "enable"
      [] call.op = "invite" -> "invite"
      [] call.op = "upload" -> IF call.step = "context0" THEN "document"
                               ELSE IF call.step = "context" THEN "catalog" ELSE "enable"
      [] call.op = "run" -> IF call.step = "context" THEN "view" ELSE "event"

ResolveContext(c) ==
    /\ At(c, {"context0", "context", "context2"})
    /\ IF schemaUp /\ ~Admitted(c)
       THEN Finish(c)
       ELSE calls' = [calls EXCEPT ![c].ctx = IF schemaUp THEN "tables" ELSE "fallback",
                                   ![c].step = AfterContext(calls[c])]
    /\ UNCHANGED <<schemaUp, registered, member, profiles, skills, productEvents,
                   auditEvents, begun, flips, saved, recorded, ran>>

(* A request to the tables is answered; one that names the made-up         *)
(* workspace id is refused by the uuid column.                             *)
TablesAnswer(c) == schemaUp /\ calls[c].ctx # "fallback"

TableSteps == {"check", "read", "write", "delete", "enable", "invite", "catalog", "insert", "view"}

UnknownWorkspace(c) ==
    /\ At(c, TableSteps)
    /\ schemaUp /\ calls[c].ctx = "fallback"
    /\ Finish(c)
    /\ UNCHANGED <<schemaUp, registered, member, profiles, skills, productEvents,
                   auditEvents, begun, flips, saved, recorded, ran>>

(* upsert_connection: three rows, one request each.                        *)
UpsertConnection(c) ==
    /\ At(c, {"workspace", "member", "token"})
    /\ schemaUp
    /\ CASE At(c, {"workspace"}) -> Go(c, "member") /\ UNCHANGED <<registered, member>>
         [] At(c, {"member"}) ->
              /\ member' = [member EXCEPT ![c] = "active"]
              /\ registered' = [registered EXCEPT ![c] = IF @ = "token" THEN @ ELSE "member"]
              /\ Go(c, "token")
         [] At(c, {"token"}) ->
              /\ registered' = [registered EXCEPT ![c] = "token"]
              /\ Go(c, "event")
              /\ UNCHANGED member
    /\ UNCHANGED <<schemaUp, profiles, skills, productEvents, auditEvents, begun, flips,
                   saved, recorded, ran>>

(* A validation asks whether the profile exists before it sets it.         *)
CheckLinked(c) ==
    /\ At(c, {"check"})
    /\ TablesAnswer(c)
    /\ IF Absent(profiles[calls[c].mode]) THEN Finish(c) ELSE Go(c, "context2")
    /\ UNCHANGED <<schemaUp, registered, member, profiles, skills, productEvents,
                   auditEvents, begun, flips, saved, recorded, ran>>

ReadProfile(c) ==
    /\ At(c, {"read"})
    /\ TablesAnswer(c)
    /\ calls' = [calls EXCEPT ![c].seen = profiles[calls[c].mode], ![c].step = "write"]
    /\ UNCHANGED <<schemaUp, registered, member, profiles, skills, productEvents,
                   auditEvents, begun, flips, saved, recorded, ran>>

UpsertProfile(c) ==
    /\ At(c, {"write"})
    /\ TablesAnswer(c)
    /\ profiles' = [profiles EXCEPT ![calls[c].mode] = UpsertedProfile(calls[c], @)]
    /\ Go(c, "event")
    /\ UNCHANGED <<schemaUp, registered, member, skills, productEvents, auditEvents,
                   begun, flips, saved, recorded, ran>>

DeleteProfile(c) ==
    /\ At(c, {"delete"})
    /\ TablesAnswer(c)
    /\ profiles' = [profiles EXCEPT ![calls[c].mode] = NoProfile]
    /\ Go(c, "event")
    /\ UNCHANGED <<schemaUp, registered, member, skills, productEvents, auditEvents,
                   begun, flips, saved, recorded, ran>>

(* set_skill_enabled, alone or inside an upload; the row refers to the     *)
(* catalog row, without which the database refuses it.                     *)
SetSkillEnabled(c) ==
    /\ At(c, {"enable"})
    /\ TablesAnswer(c)
    /\ IF skills.catalog
       THEN /\ skills' = [skills EXCEPT !.enabled = calls[c].arg # "off"]
            /\ Go(c, "event")
       ELSE Finish(c) /\ UNCHANGED skills
    /\ UNCHANGED <<schemaUp, registered, member, profiles, productEvents, auditEvents,
                   begun, flips, saved, recorded, ran>>

(* invite_member: the upsert also meets the row of a member who is active. *)
InviteRow(c) ==
    /\ At(c, {"invite"})
    /\ TablesAnswer(c)
    /\ member' = [member EXCEPT ![calls[c].arg] = "invited"]
    /\ Go(c, "event")
    /\ UNCHANGED <<schemaUp, registered, profiles, skills, productEvents, auditEvents,
                   begun, flips, saved, recorded, ran>>

(* upload_skill indexes the document before it records the upload.         *)
IndexDocument(c) ==
    /\ At(c, {"document"})
    /\ skills' = [skills EXCEPT !.document = TRUE]
    /\ Go(c, "context")
    /\ UNCHANGED <<schemaUp, registered, member, profiles, productEvents, auditEvents,
                   begun, flips, saved, recorded, ran>>

(* record_uploaded_skill: catalog row, upload row, then set_skill_enabled  *)
(* with a context and an event of its own.                                 *)
RecordUpload(c) ==
    /\ At(c, {"catalog", "insert"})
    /\ TablesAnswer(c)
    /\ IF At(c, {"catalog"})
       THEN /\ skills' = [skills EXCEPT !.catalog = TRUE]
            /\ Go(c, "insert")
       ELSE /\ skills' = [skills EXCEPT !.uploads = @ + 1]
            /\ Go(c, "context2")
    /\ UNCHANGED <<schemaUp, registered, member, profiles, productEvents, auditEvents,
                   begun, flips, saved, recorded, ran>>

(***************************************************************************)
(* The fallbacks.  An operation the tables failed starts again on the      *)
(* audit events; setting a profile reads the events and appends to them.   *)
(***************************************************************************)
ToFallback(c) ==
    /\ ~schemaUp
    /\ \/ At(c, {"check", "read", "write"}) /\ Go(c, "fallback_read")
       \/ /\ At(c, {"workspace", "member", "token", "delete", "invite", "catalog", "insert"})
          /\ Go(c, "fallback_write")
       \/ At(c, {"enable"}) /\ Go(c, "fallback_enable")
    /\ UNCHANGED <<schemaUp, registered, member, profiles, skills, productEvents,
                   auditEvents, begun, flips, saved, recorded, ran>>

FallbackRead(c) ==
    /\ At(c, {"fallback_read"})
    /\ LET call == calls[c]
           old == FallbackProfiles[call.mode]
       IN  IF call.op = "validate" /\ Absent(old)
           THEN Finish(c)
           ELSE calls' = [calls EXCEPT ![c].seen = old, ![c].step = "fallback_write"]
    /\ UNCHANGED <<schemaUp, registered, member, profiles, skills, productEvents,
                   auditEvents, begun, flips, saved, recorded, ran>>

FallbackRow(c, op, type, value) ==
    /\ At(c, {"fallback_write"}) /\ calls[c].op \in op
    /\ AppendState(type, calls[c].mode, value)
    /\ UNCHANGED <<schemaUp, registered, member, profiles, skills, productEvents,
                   begun, flips, saved, recorded, ran>>

FallbackConfigure(c) ==
    /\ FallbackRow(c, {"link", "setup", "validate"}, "configured", MergedProfile(calls[c]))
    /\ Finish(c)

FallbackUnlink(c) == FallbackRow(c, {"unlink"}, "unlinked", None) /\ Finish(c)

FallbackConnect(c) == FallbackRow(c, {"connect"}, "connected", None) /\ Finish(c)

FallbackInvite(c) == FallbackRow(c, {"invite"}, "invited", calls[c].arg) /\ Finish(c)

FallbackUpload(c) ==
    /\ FallbackRow(c, {"upload"}, "uploaded", None)
    /\ calls' = [calls EXCEPT ![c].step = "fallback_enable", ![c].ctx = "uploaded"]

(* The fallback of set_skill_enabled: the end of a call, the end of the    *)
(* fallback of an upload, or a step of an upload the tables served so far. *)
FallbackEnable(c) ==
    /\ At(c, {"fallback_enable"})
    /\ AppendState("skill", None, calls[c].arg)
    /\ IF calls[c].op = "upload" /\ calls[c].ctx # "uploaded"
       THEN calls' = [calls EXCEPT ![c].step = "event", ![c].ctx = "enabled"]
       ELSE Finish(c)
    /\ UNCHANGED <<schemaUp, registered, member, profiles, skills, productEvents,
                   begun, flips, saved, recorded, ran>>

(***************************************************************************)
(* record_event.  Only the run history gives it the workspace key.         *)
(***************************************************************************)
Storage == IF schemaUp THEN "tables" ELSE "audit_fallback"

EventKey(call) == IF call.op = "run" THEN "key" ELSE "id"

EventType(call) == IF call.op = "run" THEN "flow.run_completed" ELSE call.op

RecordEvent(c) ==
    /\ At(c, {"event"})
    /\ LET call == calls[c] IN
         /\ \/ /\ schemaUp /\ call.ctx # "fallback"
               /\ productEvents' = IF call.op = "run" THEN productEvents \cup {call.number}
                                   ELSE productEvents
               /\ UNCHANGED auditEvents
            \/ /\ ~schemaUp
               /\ auditEvents' = Append(auditEvents,
                    StateEvent(EventKey(call), EventType(call), None, call.number))
               /\ UNCHANGED productEvents
         /\ recorded' = IF call.op = "run" THEN recorded \cup {<<call.number, Storage>>} ELSE recorded
         /\ IF call.op = "upload" /\ call.ctx # "enabled"
            THEN calls' = [calls EXCEPT ![c].ctx = "enabled"]
            ELSE Finish(c)
    /\ UNCHANGED <<schemaUp, registered, member, profiles, skills, begun, flips, saved,
                   ran>>

(* save_flow always writes an audit event under the workspace key.         *)
SaveFlowEvent(c) ==
    /\ At(c, {"save"})
    /\ AppendState("flow.saved", None, calls[c].arg)
    /\ saved' = saved \cup {calls[c].arg}
    /\ Finish(c)
    /\ UNCHANGED <<schemaUp, registered, member, profiles, skills, productEvents,
                   begun, flips, recorded, ran>>

(***************************************************************************)
(* dashboard and what run_workspace_flow makes of it.                      *)
(***************************************************************************)
DashboardProfiles == IF schemaUp THEN profiles ELSE FallbackProfiles

(* The runs it shows the twelve latest of: those of the one storage it read. *)
DashboardRuns == IF schemaUp THEN productEvents ELSE EventValues("flow.run_completed")

Selected(mode, view) ==
    {m \in Modes : ~Absent(view[m]) /\ (mode = None \/ m = mode)}

(* _workspace_connector_resolution, its early returns in order.            *)
Resolution(mode, view) ==
    LET found == Selected(mode, view)
        p == view[CHOOSE m \in found : TRUE]
    IN  IF Cardinality(found) # 1 THEN
            IF mode = None THEN "connection_mode_required" ELSE "not_validated"
        ELSE IF p.validated = None THEN "not_validated"
        ELSE IF p.states = None THEN "not_validated"
        ELSE IF Outcome[p.states] # "observed" THEN Outcome[p.states]
        ELSE IF ProfileStatus(p) # "ready" THEN "not_validated"
        ELSE "ready"

ViewDashboard(c) ==
    /\ At(c, {"view"})
    /\ schemaUp => calls[c].ctx # "fallback"
    /\ LET view == DashboardProfiles
           mode == calls[c].mode
       IN  IF Resolution(mode, view) = "ready"
           THEN calls' = [calls EXCEPT ![c].step = "load",
                              ![c].seen = view[CHOOSE m \in Selected(mode, view) : TRUE]]
           ELSE Finish(c)
    /\ UNCHANGED <<schemaUp, registered, member, profiles, skills, productEvents,
                   auditEvents, begun, flips, saved, recorded, ran>>

(* get_flow unless the flow was sent, the run itself (FlowRun) and the     *)
(* request to record it.                                                   *)
RunSavedFlow(c) ==
    /\ At(c, {"load"})
    /\ IF calls[c].arg \in FlowsFound \cup {None}
       THEN /\ ran' = ran \cup {calls[c].seen}
            /\ Go(c, "context2")
       ELSE Finish(c) /\ UNCHANGED ran
    /\ UNCHANGED <<schemaUp, registered, member, profiles, skills, productEvents,
                   auditEvents, begun, flips, saved, recorded>>

(* Any request may fail for a reason other than the schema: the call ends, *)
(* what it wrote stays.                                                    *)
RequestFails(c) ==
    /\ ~At(c, {"idle"})
    /\ Finish(c)
    /\ UNCHANGED <<schemaUp, registered, member, profiles, skills, productEvents,
                   auditEvents, begun, flips, saved, recorded, ran>>

ProductNext ==
    \/ SchemaFlips
    \/ \E c \in Clients :
        \/ Connect(c) \/ LinkProfile(c) \/ SetupConnector(c) \/ ValidateConnection(c)
        \/ UnlinkProfile(c) \/ EnableSkill(c) \/ InviteMember(c) \/ UploadSkill(c)
        \/ SaveFlow(c) \/ RunWorkspaceFlow(c) \/ RunInlineFlow(c)
        \/ ResolveContext(c) \/ UnknownWorkspace(c) \/ UpsertConnection(c)
        \/ CheckLinked(c) \/ ReadProfile(c) \/ UpsertProfile(c) \/ DeleteProfile(c)
        \/ SetSkillEnabled(c) \/ InviteRow(c)
        \/ IndexDocument(c) \/ RecordUpload(c)
        \/ ToFallback(c) \/ FallbackRead(c) \/ FallbackConfigure(c)
        \/ FallbackUnlink(c) \/ FallbackConnect(c) \/ FallbackInvite(c)
        \/ FallbackUpload(c) \/ FallbackEnable(c)
        \/ RecordEvent(c) \/ SaveFlowEvent(c)
        \/ ViewDashboard(c) \/ RunSavedFlow(c) \/ RequestFails(c)

ProductSpec == ProductInit /\ [][ProductNext]_productVars

(***************************************************************************)
(* Properties.                                                             *)
(***************************************************************************)
StoredProfiles == {profiles[m] : m \in Modes} \cup {FallbackProfiles[m] : m \in Modes}

(* Whatever the order of the requests of several clients and wherever the  *)
(* tables come and go, the validation fields of a stored profile all come  *)
(* from one submitted piece of evidence or are all empty: no profile is    *)
(* ready on the states of one validation and the evidence of another.      *)
EvidenceCoherent ==
    \A p \in StoredProfiles :
        Absent(p) \/ (p.states = p.validated /\ p.validated = p.evidence)

(* A flow answered as saved is found by get_flow and by either dashboard from then *)
(* on.  A run answered as recorded is among those the dashboard reads whenever the *)
(* tables are as they were when it was recorded, however often they went and came  *)
(* and wherever its context was resolved; no reader looks at both storages.        *)
AnswersReadable ==
    /\ saved \subseteq FlowsFound
    /\ \A run \in recorded : run[2] = Storage => run[1] \in DashboardRuns

(* A workspace flow is started only on a profile whose evidence, at one    *)
(* moment of one storage, observed the capabilities the flow needs.        *)
RunsOnObservedEvidence ==
    \A p \in ran : /\ p.evidence \in Evidence
                   /\ Outcome[p.evidence] = "observed"
                   /\ p.states = p.evidence

\* The workspace's records can be relied on, whichever storage holds them.
WorkspaceCoherent == EvidenceCoherent /\ AnswersReadable /\ RunsOnObservedEvidence
=============================================================================
