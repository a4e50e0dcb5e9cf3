----------------------------- MODULE SkillTools -----------------------------
(***************************************************************************)
(* The fixed tools of the V1 MCP surface (mcp/v1_tools.py) and the         *)
(* published accounting skill they run.  A call is a coroutine: every      *)
(* await is a step at which memberships, connections, the capability       *)
(* catalog and the reviewed knowledge may change under it, at which a      *)
(* store may fail, and at which the client may cancel it.  A tool is the   *)
(* sequence of its awaits; what it learned at one is what it uses at the   *)
(* next.                                                                   *)
(***************************************************************************)
EXTENDS Naturals, Sequences, FiniteSets

CONSTANTS
    Calls,          \* tool calls in flight
    Tools,          \* the tools the calls name
    Links,          \* provider connections of the workspace
    Entries,        \* capability rows of the catalog (a row is one version)
    CapabilityOf,   \* the normalized capability of a row
    Provider,       \* the provider of a row and of a connection
    SkillSet,       \* published skills: [reads, required, cites]
    MaxWorldChanges \* changes made by others while the calls run

ASSUME SkillToolsAssumption ==
    /\ Provider \in [Links \cup Entries -> {"flowaccount", "peak"}]
    /\ MaxWorldChanges \in Nat
    /\ IsFiniteSet(Links) /\ IsFiniteSet(Entries)
    /\ Tools \subseteq {"start", "list", "status", "listing", "schema", "search", "pack", "skill",
                       "disconnect"}
    /\ \A s \in SkillSet : s.cites \in BOOLEAN /\ s.reads \in Seq(s.required)

VARIABLES
    member,      \* the caller is a member of the workspace
    readiness,   \* readiness[k]: of each provider connection
    resolution,  \* resolution[q]: what the qualification gate answers for a row
    drifted,     \* rows quarantined for a changed schema
    projected,   \* the published projection of the skill matches its source
    knowledge,   \* reviewed knowledge exists for the query
    changed,     \* changes made so far
    tool,        \* tool[c]: the state of a call
    sent,        \* sent[c]: reads the provider received for c, and what it did
    written,     \* written[c]: audit events of c that reached the store
    composition  \* composition[c]: the runtime a thread builds for c

worldVars == <<member, readiness, resolution, drifted, projected, knowledge, changed>>
skillVars == <<worldVars, tool, sent, written, composition>>

(* The awaits of each tool in order. *)
Steps ==
    [start      |-> <<"workspace", "runtime", "begin">>,
     list       |-> <<"workspace", "runtime", "connections">>,
     status     |-> <<"workspace", "runtime", "load", "catalog", "resolve", "audit">>,
     listing    |-> <<"workspace", "runtime", "connections", "load", "catalog", "resolve">>,
     schema     |-> <<"workspace", "runtime", "connections", "scan">>,
     search     |-> <<"workspace", "search", "audit">>,
     pack       |-> <<"workspace", "projection", "search", "audit">>,
     skill      |-> <<"workspace", "projection", "runtime", "load", "catalog", "resolve",
                      "search", "bind", "read", "output", "audit">>,
     disconnect |-> <<"workspace", "runtime", "connections", "end">>]

(* A call nobody made yet. *)
Waiting ==
    [name |-> "none", at |-> "idle", link |-> "none", skill |-> "none", runtime |-> FALSE,
     ready |-> FALSE, queue |-> {}, enabled |-> {}, lacking |-> FALSE,
     found |-> FALSE, reads |-> <<>>, outcomes |-> <<>>, results |-> <<>>, answer |-> "none"]

(* The await after the one a call stands at; the last one closes it. *)
After(call) ==
    LET steps == Steps[call.name]
        here  == CHOOSE i \in DOMAIN steps : steps[i] = call.at
    IN  IF here < Len(steps) THEN steps[here + 1] ELSE "close"

Move(c, call) == tool' = [tool EXCEPT ![c] = [call EXCEPT !.at = After(call)]]
MoveTo(c, call, step) == tool' = [tool EXCEPT ![c] = [call EXCEPT !.at = step]]

(* A skill run is worth an audit once its workspace and skill are known. *)
AuditEligible(call) ==
    /\ call.name = "skill"
    /\ call.at \in {"projection", "runtime", "load", "catalog", "resolve", "search",
                    "bind", "read", "drift", "output"}

(* An error: a skill run is audited with what it read, every other tool only closes. *)
FailWith(c, call, code) ==
    MoveTo(c, [call EXCEPT !.answer = code],
           IF AuditEligible(call) THEN "audit" ELSE "close")

At(c, step) == tool[c].at = step

(* A connection the store shows the caller. *)
Visible == IF member THEN {k \in Links : readiness[k] # "absent"} ELSE {}

Matching(k) == {q \in Entries : Provider[q] = Provider[k]}

SkillToolsInit ==
    /\ member \in BOOLEAN
    /\ readiness \in [Links -> {"ready", "not_ready"}]
    /\ resolution \in [Entries -> {"enabled", "insufficient_evidence"}]
    /\ drifted = {}
    /\ projected = TRUE
    /\ knowledge \in BOOLEAN
    /\ changed = 0
    /\ tool = [c \in Calls |-> Waiting]
    /\ sent = [c \in Calls |-> <<>>]
    /\ written = [c \in Calls |-> <<>>]
    /\ composition = [c \in Calls |-> "none"]

------------------------------------------------------------------------------
(* Others: the owner, the reviewer of the catalog, the publisher of skills. *)

WorldChanges ==
    /\ changed < MaxWorldChanges
    /\ changed' = changed + 1
    /\ \/ /\ member' = ~member
          /\ UNCHANGED <<readiness, resolution, drifted, projected, knowledge>>
       \/ \E k \in Links, r \in {"ready", "not_ready", "absent"} :
             /\ readiness' = [readiness EXCEPT ![k] = r]
             /\ UNCHANGED <<member, resolution, drifted, projected, knowledge>>
       \/ \E q \in Entries, r \in {"enabled", "unreviewed", "insufficient_evidence"} :
             /\ resolution' = [resolution EXCEPT ![q] = r]
             /\ UNCHANGED <<member, readiness, drifted, projected, knowledge>>
       \/ \E q \in Entries :
             /\ drifted' = drifted \cup {q}
             /\ UNCHANGED <<member, readiness, resolution, projected, knowledge>>
       \/ /\ projected' = ~projected
          /\ UNCHANGED <<member, readiness, resolution, drifted, knowledge>>
       \/ /\ knowledge' = ~knowledge
          /\ UNCHANGED <<member, readiness, resolution, drifted, projected>>
    /\ UNCHANGED <<tool, sent, written, composition>>

------------------------------------------------------------------------------
(* The awaits the tools share. *)

(* A client calls a tool; a skill may run without a connection, on host evidence. *)
CallTool(c) ==
    /\ At(c, "idle")
    /\ \E t \in Tools, s \in SkillSet :
         \E k \in CASE t = "schema" -> Entries
                   [] t = "skill" -> Links \cup {"none"}
                   [] t \in {"status", "listing", "disconnect"} -> Links
                   [] OTHER -> {"none"} :
            /\ t # "skill" => s = CHOOSE x \in SkillSet : TRUE
            /\ tool' = [tool EXCEPT ![c] = [Waiting EXCEPT
                  !.name = t, !.at = "workspace", !.link = k, !.skill = s]]
    /\ UNCHANGED <<worldVars, sent, written, composition>>

(* _authenticated_request and the membership check of the workspace service. *)
RequireWorkspace(c) ==
    /\ At(c, "workspace")
    /\ IF member THEN Move(c, tool[c]) ELSE FailWith(c, tool[c], "workspace_access_denied")
    /\ UNCHANGED <<worldVars, sent, written, composition>>

(* A skill without a connection opens no runtime and binds no capability; every other *)
(* call has its own built by a thread, and awaits it.                                 *)
RuntimeFrom(c) ==
    /\ At(c, "runtime") /\ composition[c] = "none"
    /\ \/ /\ tool[c].link = "none" /\ tool[c].name = "skill"
          /\ MoveTo(c, tool[c], "search")
          /\ UNCHANGED composition
       \/ /\ tool[c].link # "none" \/ tool[c].name # "skill"
          /\ composition' = [composition EXCEPT ![c] = "building"]
          /\ UNCHANGED tool
    /\ UNCHANGED <<worldVars, sent, written>>

(* The thread ends, whether or not the call still awaits it: the runtime it built, or  *)
(* its error, goes to the call that does and to nobody otherwise.                      *)
RuntimeBuilt(c) ==
    LET awaited == At(c, "runtime") IN
    /\ composition[c] = "building"
    /\ \/ /\ composition' = [composition EXCEPT ![c] = "open"]
          /\ IF awaited THEN Move(c, [tool[c] EXCEPT !.runtime = TRUE]) ELSE UNCHANGED tool
       \/ /\ composition' = [composition EXCEPT ![c] = "none"]
          /\ IF awaited THEN FailWith(c, tool[c], "temporarily_unavailable") ELSE UNCHANGED tool
    /\ UNCHANGED <<worldVars, sent, written>>

(* _store_list_connections, and _selected_connection for the tools naming one. *)
ListConnections(c) ==
    /\ At(c, "connections")
    /\ IF tool[c].name \in {"listing", "disconnect"} /\ tool[c].link \notin Visible
         THEN FailWith(c, tool[c], "provider_connection_required")
         ELSE Move(c, [tool[c] EXCEPT
                         !.queue = IF tool[c].name = "schema" THEN {k \in Visible : tool[c].link \in Matching(k)}
                                                              ELSE {},
                         !.answer = IF tool[c].name = "list" THEN "ok" ELSE @])
    /\ UNCHANGED <<worldVars, sent, written, composition>>

(* _store_load_connection with the checks of its binding. *)
ReadConnection(c) ==
    /\ At(c, "load")
    /\ IF tool[c].link \in Visible
         THEN Move(c, [tool[c] EXCEPT !.ready = readiness[tool[c].link] = "ready"])
         ELSE FailWith(c, tool[c], "provider_connection_required")
    /\ UNCHANGED <<worldVars, sent, written, composition>>

(* The rows a call goes through after _catalog_qualifications: those of its connection, *)
(* and for a skill those of a capability it declares.                                   *)
CatalogQualifications(c) ==
    LET call == tool[c]
        rows == Matching(call.link)
    IN  /\ At(c, "catalog")
        /\ Move(c, [call EXCEPT !.queue =
              IF call.name = "skill" THEN {q \in rows : CapabilityOf[q] \in call.skill.required}
                                     ELSE rows])
        /\ UNCHANGED <<worldVars, sent, written, composition>>

(* One row through the gate; a row without reviewed output fields is not enabled, and *)
(* the listing reports no row of a connection it loaded unready.                      *)
ResolveQualification(c) ==
    LET call == tool[c] IN
    /\ At(c, "resolve")
    /\ \E q \in call.queue :
         MoveTo(c, [call EXCEPT !.queue = @ \ {q},
                !.enabled = IF resolution[q] = "enabled" /\ (call.name = "listing" => call.ready)
                              THEN @ \cup {q} ELSE @], "resolve")
    /\ UNCHANGED <<worldVars, sent, written, composition>>

QualificationsResolved(c) ==
    LET call == tool[c] IN
    /\ At(c, "resolve")
    /\ call.queue = {}
    /\ Move(c, [call EXCEPT !.answer = IF call.name = "skill" THEN @ ELSE "ok"])
    /\ UNCHANGED <<worldVars, sent, written, composition>>

(* get_capability_schema: the first connection listed for which the row resolves       *)
(* enabled answers; each is loaded again, and one that went away ends the call.        *)
ScanConnections(c) ==
    LET call == tool[c]
        q    == call.link
    IN  /\ At(c, "scan")
        /\ \/ /\ call.queue = {}
              /\ FailWith(c, call, IF call.lacking THEN "insufficient_evidence"
                                                   ELSE "capability_unavailable")
           \/ \E k \in call.queue :
                IF k \notin Visible THEN FailWith(c, call, "provider_connection_required")
                ELSE IF resolution[q] \in {"enabled", "unreviewed"}
                  THEN MoveTo(c, [call EXCEPT !.answer = "ok"], "close")
                  ELSE MoveTo(c, [call EXCEPT !.queue = @ \ {k},
                         !.lacking = @ \/ resolution[q] = "insufficient_evidence"], "scan")
        /\ UNCHANGED <<worldVars, sent, written, composition>>

(* The projection the publisher wrote must be the one this source has. *)
GetProjection(c) ==
    /\ At(c, "projection")
    /\ IF projected THEN Move(c, tool[c]) ELSE FailWith(c, tool[c], "insufficient_evidence")
    /\ UNCHANGED <<worldVars, sent, written, composition>>

(* search_workspace_knowledge: no reviewed result is an error for the search tools; *)
(* a skill that cites nothing does not search.                                       *)
SearchKnowledge(c) ==
    LET call == tool[c] IN
    /\ At(c, "search")
    /\ IF call.name = "skill"
         THEN Move(c, [call EXCEPT !.found = call.skill.cites /\ knowledge])
         ELSE IF knowledge THEN Move(c, [call EXCEPT !.found = TRUE, !.answer = "ok"])
                           ELSE FailWith(c, call, "insufficient_evidence")
    /\ UNCHANGED <<worldVars, sent, written, composition>>

(* Starting a connection and disconnecting one are handed to the provider's service. *)
StartConnection(c) ==
    /\ At(c, "begin")
    /\ Move(c, [tool[c] EXCEPT !.answer = "ok"])
    /\ UNCHANGED <<worldVars, sent, written, composition>>

DisconnectProvider(c) ==
    LET k == tool[c].link IN
    /\ At(c, "end")
    /\ IF k \in Visible
         THEN /\ readiness' = [readiness EXCEPT ![k] = "not_ready"]
              /\ Move(c, [tool[c] EXCEPT !.answer = "ok"])
         ELSE /\ FailWith(c, tool[c], "provider_connection_required")
              /\ UNCHANGED readiness
    /\ UNCHANGED <<member, resolution, drifted, projected, knowledge, changed, sent, written, composition>>

------------------------------------------------------------------------------
(* The skill. *)

(* The rows of a capability found enabled; a capability is bound by exactly one. *)
EnabledFor(call, capability) == {q \in call.enabled : CapabilityOf[q] = capability}
Bound(call, capability) == Cardinality(EnabledFor(call, capability)) = 1
BindingOf(call, capability) == CHOOSE q \in EnabledFor(call, capability) : TRUE

Outcome(q, status) == [row |-> q, status |-> status]

(* resolve_published_skill_route: every required capability, and evidence of each kind. *)
RouteReady(call, facts) ==
    /\ call.link = "none" \/ \A p \in call.skill.required : Bound(call, p)
    /\ call.link = "none" => call.skill.required = {}
    /\ call.skill.cites => call.found
    /\ call.skill.required # {} => facts > 0

(* Each read the skill maps must have its capability bound; the first that has not *)
(* is reported missing.                                                            *)
BindReads(c) ==
    LET call    == tool[c]
        maps    == call.skill.reads
        missing == {i \in DOMAIN maps : ~Bound(call, maps[i])}
        first   == CHOOSE i \in missing : \A j \in missing : i <= j
        bound   == [i \in DOMAIN maps |-> BindingOf(call, maps[i])]
    IN  /\ At(c, "bind")
        /\ IF missing # {}
             THEN FailWith(c, [call EXCEPT !.outcomes = Append(@, Outcome(maps[first], "missing"))],
                           "insufficient_evidence")
           ELSE IF ~RouteReady(call, Len(maps))
             THEN FailWith(c, call, "insufficient_evidence")
             ELSE Move(c, [call EXCEPT !.reads = bound])
        /\ UNCHANGED <<worldVars, sent, written, composition>>

(* What the read service checks before it sends: the connection again, the version    *)
(* still bound to it, no quarantine of the row.                                       *)
ReadAllowed(call, q) ==
    /\ q \notin drifted
    /\ call.link \in Visible
    /\ readiness[call.link] = "ready"
    /\ resolution[q] = "enabled"

ListedRead(call, outcome) == [call EXCEPT !.outcomes = Append(@, outcome)]

ReadDone(c, call, q) ==
    MoveTo(c, [ListedRead(call, Outcome(q, "ok")) EXCEPT
                 !.reads = Tail(@), !.results = Append(@, q)], "read")

CancelRead(c, call) ==
    FailWith(c, ListedRead(call, Outcome(Head(call.reads), "cancelled")), "cancelled")

(* Deviation: the run goes on after the drift was handled. *)
DriftSwallowed(c, call) ==
    MoveTo(c, [call EXCEPT !.reads = Tail(@)], "read")

DriftHandled(c, call) ==
    FailWith(c, call, "provider_schema_changed")

(* One read: refused before it is sent, answered, failed, or answered in a shape the *)
(* reviewed schema does not have, which quarantines the row.                         *)
ExecuteRead(c) ==
    LET call == tool[c]
        q    == Head(call.reads)
        Send(got) == sent' = [sent EXCEPT ![c] = Append(@, Outcome(q, got))]
    IN  /\ At(c, "read")
        /\ call.reads # <<>>
        /\ \/ /\ ~ReadAllowed(call, q)
              /\ FailWith(c, ListedRead(call, Outcome(q, "error")), "capability_unavailable")
              /\ UNCHANGED <<drifted, sent>>
           \/ /\ ReadAllowed(call, q)
              /\ \/ Send("data") /\ ReadDone(c, call, q) /\ UNCHANGED drifted
                 \/ /\ Send("refused")
                    /\ FailWith(c, ListedRead(call, Outcome(q, "error")), "provider_unavailable")
                    /\ UNCHANGED drifted
                 \/ /\ Send("drift")
                    /\ MoveTo(c, ListedRead(call, Outcome(q, "error")), "drift")
                    /\ drifted' = drifted \cup {q}
                 \/ Send("unknown") /\ CancelRead(c, call) /\ UNCHANGED drifted
        /\ UNCHANGED <<member, readiness, resolution, projected, knowledge, changed, written, composition>>

(* handle_schema_change returned, or failed with an error of its own. *)
AfterDrift(c) ==
    /\ At(c, "drift")
    /\ DriftHandled(c, tool[c])
    /\ UNCHANGED <<worldVars, sent, written, composition>>

ReadsFinished(c) ==
    /\ At(c, "read")
    /\ tool[c].reads = <<>>
    /\ Move(c, tool[c])
    /\ UNCHANGED <<worldVars, sent, written, composition>>

(* The route again with what was read, then the output in its published schema. *)
BuildOutput(c) ==
    LET call == tool[c] IN
    /\ At(c, "output")
    /\ \/ /\ RouteReady(call, Len(call.results))
          /\ Move(c, [call EXCEPT !.answer = "ok"])
       \/ FailWith(c, call, "skill_output_invalid")
    /\ UNCHANGED <<worldVars, sent, written, composition>>

------------------------------------------------------------------------------
(* The ends of a call. *)

(* _skill_audit_event and its kin: how the call ended, and the reads it lists. *)
AuditEvent(call) ==
    [status   |-> IF call.answer \in {"ok", "cancelled"} THEN call.answer ELSE "error",
     outcomes |-> call.outcomes]

(* _write_audit: the event of the call as it stands; a store that fails is ignored. *)
WriteAudit(c) ==
    /\ At(c, "audit")
    /\ \/ written' = [written EXCEPT ![c] = Append(@, AuditEvent(tool[c]))]
       \/ UNCHANGED written
    /\ MoveTo(c, tool[c], "close")
    /\ UNCHANGED <<worldVars, sent, composition>>

(* finally: the runtime the call was given is closed, and await_cleanup finishes the *)
(* close even for a cancelled call.  A runtime it was not given it knows nothing of.  *)
CloseRuntime(c) ==
    /\ At(c, "close")
    /\ MoveTo(c, tool[c], "done")
    /\ composition' = IF tool[c].runtime THEN [composition EXCEPT ![c] = "closed"] ELSE composition
    /\ UNCHANGED <<worldVars, sent, written>>

(* A store or the gate fails at an await, or the settings do before a runtime is built. *)
StepFails(c) ==
    LET call == tool[c] IN
    /\ call.at \in {"workspace", "runtime", "connections", "load", "catalog", "resolve",
                    "scan", "projection", "search", "begin", "end"}
    /\ call.at = "runtime" => composition[c] = "none"
    /\ FailWith(c, call, "temporarily_unavailable")
    /\ UNCHANGED <<worldVars, sent, written, composition>>

(* The client goes away.  A cancelled read is listed before the run is audited; a    *)
(* cancelled audit of an answered skill run is followed by the audit of its          *)
(* cancellation, and the thread writing the first may still finish.  So does the     *)
(* thread building a runtime, unless it had not started.                             *)
Cancelled(c) ==
    LET call == tool[c] IN
    /\ call.at \notin {"idle", "close", "done", "bind", "output"}
    /\ CASE call.at = "read"  -> call.reads # <<>> /\ CancelRead(c, call)
         [] call.at = "audit" -> MoveTo(c, [call EXCEPT !.answer = "cancelled"],
                IF call.name = "skill" /\ call.answer = "ok" THEN "audit" ELSE "close")
         [] OTHER -> FailWith(c, call, "cancelled")
    /\ \/ UNCHANGED written
       \/ /\ call.at = "audit"
          /\ written' = [written EXCEPT ![c] = Append(@, AuditEvent(call))]
    /\ \/ UNCHANGED composition
       \/ /\ call.at = "runtime"
          /\ composition' = [composition EXCEPT ![c] = "none"]
    /\ UNCHANGED <<worldVars, sent>>

SkillToolsNext ==
    \/ WorldChanges
    \/ \E c \in Calls :
         \/ CallTool(c) \/ RequireWorkspace(c) \/ RuntimeFrom(c) \/ RuntimeBuilt(c)
         \/ ListConnections(c)
         \/ ReadConnection(c) \/ CatalogQualifications(c) \/ ResolveQualification(c)
         \/ QualificationsResolved(c) \/ ScanConnections(c) \/ GetProjection(c) \/ SearchKnowledge(c)
         \/ StartConnection(c) \/ DisconnectProvider(c) \/ BindReads(c) \/ ExecuteRead(c)
         \/ AfterDrift(c) \/ ReadsFinished(c) \/ BuildOutput(c) \/ WriteAudit(c)
         \/ CloseRuntime(c) \/ StepFails(c) \/ Cancelled(c)

SkillToolsSpec == SkillToolsInit /\ [][SkillToolsNext]_skillVars

------------------------------------------------------------------------------
(* Properties. *)

(* What an outcome may say of what became of the read at the provider. *)
Says(outcome, fate) ==
    /\ outcome.row = fate.row
    /\ outcome.status = (CASE fate.status = "data" -> "ok"
                           [] fate.status = "unknown" -> "cancelled"
                           [] OTHER -> "error")

(* Every audit event of a skill run written after its last read names every read the  *)
(* provider received, in order and with what became of it, and claims data for no     *)
(* read that brought none: run_accounting_skill appends an outcome on each of the      *)
(* paths out of a read before it audits.                                               *)
AuditTellsReads ==
    \A c \in Calls : \A i \in DOMAIN written[c] :
        LET listed == written[c][i].outcomes IN
        /\ Len(sent[c]) <= Len(listed)
        /\ \A j \in DOMAIN sent[c] : Says(listed[j], sent[c][j])
        /\ \A j \in DOMAIN listed : listed[j].status = "ok" => j \in DOMAIN sent[c]

(* A skill run that answered read every capability its definition maps, each from the *)
(* one row found enabled for it, and every one of those reads brought data: a drift,  *)
(* a refusal or a cancellation of one read never ends in an answer on the others.     *)
AnswerComplete ==
    \A c \in Calls :
        tool[c].name = "skill" /\ tool[c].answer = "ok" =>
            /\ Len(tool[c].results) = Len(tool[c].skill.reads)
            /\ \A i \in DOMAIN tool[c].results :
                  /\ EnabledFor(tool[c], tool[c].skill.reads[i]) = {tool[c].results[i]}
                  /\ sent[c][i] = Outcome(tool[c].results[i], "data")
            /\ tool[c].skill.cites => tool[c].found

(* A runtime outlives its call only when the call was cancelled while a thread built  *)
(* it and so was never given it: every runtime a call was given is closed in the      *)
(* finally block, whatever await the call failed or was cancelled at.                 *)
RuntimesReleased ==
    \A c \in Calls :
        tool[c].at = "done" /\ composition[c] \in {"building", "open"} =>
            ~tool[c].runtime /\ tool[c].answer = "cancelled"

(* What a skill run answers and what it leaves in the audit agree with what the        *)
(* provider was asked, and no runtime it was given stays open.                         *)
SkillRunsHonest == AuditTellsReads /\ AnswerComplete /\ RuntimesReleased
=============================================================================
