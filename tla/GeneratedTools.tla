--------------------------- MODULE GeneratedTools ---------------------------
(***************************************************************************)
(* The provider reads that the hosted server offers as tools               *)
(* (mcp/generated_tools.py and its projection in mcp/v1_tools.py): a loop  *)
(* publishes the versions the catalog enables, calls that find a changed   *)
(* schema withdraw a version, and the sessions of clients are told that    *)
(* the list of tools changed.  All of it runs on one event loop; whoever   *)
(* holds _authority_lock has a job, which awaits the catalog in between.   *)
(***************************************************************************)
EXTENDS Naturals, FiniteSets, SequencesExt

CONSTANTS
    Versions,       \* _qualification_version_identity
    Sessions,       \* sessions of MCP clients
    Readers,        \* calls of generated tools in progress
    MaxSessions,    \* _MAX_REFRESH_SESSIONS
    MaxChanges      \* bound on the changes others make to the catalog

ASSUME ToolsAssumption == MaxSessions \in Nat /\ MaxChanges \in Nat

VARIABLES
    authority,      \* state of each version in the catalog
    changes,        \* changes made by others so far
    renewed,        \* ghost: versions somebody has enabled anew
    published,      \* versions behind the registered tools
    quarantine,     \* _quarantined_versions: the certainty of the drift
    tombstones,     \* _dispatch_tombstones
    generation,     \* _committed_generation
    retained,       \* _refresh_sessions, least recently used first
    told,           \* notified_generation of each entry
    detached,       \* generation of the notification task left running, if any
    job,            \* what the holder of _authority_lock does
    read,           \* the call each reader serves
    stopped         \* _notification_retention_closed

catalogVars == <<authority, changes, renewed>>
sessionVars == <<retained, told, detached>>
toolVars == <<published, quarantine, tombstones, generation, job, read, stopped>>
toolsVars == <<catalogVars, sessionVars, toolVars>>

States == {"enabled", "disabled", "schema_changed"}
Certainties == <<"not_applicable", "not_dispatched", "unknown", "dispatched">>

NoJob == [kind |-> "none", pc |-> "none", version |-> "none", by |-> "none",
          current |-> [v \in Versions |-> "disabled"], todo |-> {}, release |-> {}, sending |-> {}]
NoRead == [pc |-> "idle", version |-> "none", certainty |-> "none"]

ToolsInit ==
    /\ authority \in [Versions -> {"enabled", "disabled"}]
    /\ changes = 0
    /\ renewed = {}
    /\ published = {v \in Versions : authority[v] = "enabled"}
    /\ quarantine = [v \in Versions |-> "none"]
    /\ tombstones = {}
    /\ generation = 0
    /\ retained = <<>>
    /\ told = [s \in Sessions |-> 0]
    /\ detached = [s \in Sessions |-> 0]
    /\ job = NoJob
    /\ read = [c \in Readers |-> NoRead]
    /\ stopped = FALSE

-----------------------------------------------------------------------------
(***************************************************************************)
(* Sessions                                                                *)
(***************************************************************************)
Active == {s \in Sessions : detached[s] # 0}

\* Entries are removed; the generation they had been told of goes with them.
Forget(gone) ==
    /\ retained' = SelectSeq(retained, LAMBDA s : s \notin gone)
    /\ told' = [s \in Sessions |-> IF s \in gone THEN 0 ELSE told[s]]

\* _remember_session: refreshes an entry, or adds one and evicts the oldest.
Remember(s) ==
    IF stopped \/ s \in Active \/ MaxSessions = 0 THEN UNCHANGED <<retained, told>>
    ELSE IF s \in Range(retained)
    THEN retained' = Append(Remove(retained, s), s) /\ UNCHANGED told
    ELSE LET kept == IF Len(retained) >= MaxSessions THEN Tail(retained) ELSE retained
         IN /\ retained' = Append(kept, s)
            /\ told' = [t \in Sessions |-> IF t = s THEN generation
                                         ELSE IF t \in Range(kept) THEN told[t] ELSE 0]

\* list_tools, and every call of a tool the server has besides these.
ListTools(s) ==
    /\ Remember(s)
    /\ UNCHANGED <<catalogVars, toolVars, detached>>

\* _prune_refresh_sessions: the session ended or was idle for too long.
SessionGone(s) ==
    /\ s \in Range(retained)
    /\ Forget({s})
    /\ UNCHANGED <<catalogVars, toolVars, detached>>

Pending(seq, gen) == {s \in Range(seq) : told[s] < gen}

\* _finish_detached_notification: cancelled, delivered after all, or failed.
DetachedEnds(s) ==
    /\ s \in Active
    /\ detached' = [detached EXCEPT ![s] = 0]
    /\ \/ UNCHANGED <<retained, told>>
       \/ /\ s \in Range(retained) /\ ~stopped
          /\ told' = [told EXCEPT ![s] = IF detached[s] > @ THEN detached[s] ELSE @]
          /\ UNCHANGED retained
       \/ /\ s \in Range(retained) /\ ~stopped
          /\ Forget({s})
    /\ UNCHANGED <<catalogVars, toolVars>>

-----------------------------------------------------------------------------
(***************************************************************************)
(* Calls of the generated tools                                            *)
(***************************************************************************)
\* ensure_dispatch_allowed
DispatchAllowed(v) == quarantine[v] = "none" /\ v \notin tombstones

\* generated_read_tool up to the hosted read service.
CallTool(c, s, v) ==
    /\ read[c] = NoRead
    /\ v \in published
    /\ Remember(s)
    /\ DispatchAllowed(v)
    /\ read' = [read EXCEPT ![c] = [NoRead EXCEPT !.pc = "guard", !.version = v]]
    /\ UNCHANGED <<catalogVars, detached, published, quarantine, tombstones, generation, job,
                   stopped>>

\* The service asks again right before each attempt; it may fail elsewhere.
ReadGuard(c) ==
    /\ read[c].pc = "guard"
    /\ read' = [read EXCEPT ![c] =
          IF DispatchAllowed(read[c].version) THEN [@ EXCEPT !.pc = "send"] ELSE NoRead]
    /\ UNCHANGED <<catalogVars, sessionVars, published, quarantine, tombstones, generation, job,
                   stopped>>

\* The call returns data or an error that is none of the schema.
ReadEnds(c) ==
    /\ read[c].pc = "send"
    /\ read' = [read EXCEPT ![c] = NoRead]
    /\ UNCHANGED <<catalogVars, sessionVars, published, quarantine, tombstones, generation, job,
                   stopped>>

\* _stronger_dispatch_certainty, from the least on
Rank(x) == CHOOSE i \in 0 .. Len(Certainties) :
              IF x = "none" THEN i = 0 ELSE i > 0 /\ Certainties[i] = x

Stronger(x, y) == IF Rank(y) > Rank(x) THEN y ELSE x

\* _quarantine
Quarantined(v, certainty) ==
    /\ tombstones' = tombstones \cup {v}
    /\ quarantine' = [quarantine EXCEPT ![v] = Stronger(@, certainty)]

\* ProviderSchemaChanged: the version is quarantined before anything is awaited.
ReadDrifts(c, certainty) ==
    /\ read[c].pc = "send"
    /\ Quarantined(read[c].version, certainty)
    /\ read' = [read EXCEPT ![c].pc = "drifted", ![c].certainty = certainty]
    /\ UNCHANGED <<catalogVars, sessionVars, published, generation, job, stopped>>

\* The call gets the lock and demotes its version (handle_schema_change).
DriftBegin(c) ==
    /\ read[c].pc = "drifted"
    /\ job = NoJob
    /\ Quarantined(read[c].version, read[c].certainty)
    /\ job' = [NoJob EXCEPT !.kind = "drift", !.pc = "disable", !.version = read[c].version,
                            !.by = c]
    /\ UNCHANGED <<catalogVars, sessionVars, published, generation, read, stopped>>

-----------------------------------------------------------------------------
(***************************************************************************)
(* Jobs under the lock                                                     *)
(***************************************************************************)
\* The job is over, and so is the call it was for.
EndJob ==
    /\ job' = NoJob
    /\ read' = IF job.kind = "drift" THEN [read EXCEPT ![job.by] = NoRead] ELSE read

\* refresh, from the polling loop
RefreshBegin ==
    /\ job = NoJob /\ ~stopped
    /\ job' = [NoJob EXCEPT !.kind = "refresh", !.pc = "load"]
    /\ UNCHANGED <<catalogVars, sessionVars, published, quarantine, tombstones, generation, read,
                   stopped>>

\* _catalog_qualifications
LoadCatalog ==
    /\ job.pc = "load"
    /\ job' = [job EXCEPT !.pc = "reconcile", !.current = authority]
    /\ UNCHANGED <<catalogVars, sessionVars, published, quarantine, tombstones, generation, read,
                   stopped>>

\* reconcile takes the quarantined versions as they are now ...
Reconcile ==
    /\ job.pc = "reconcile"
    /\ job' = [job EXCEPT !.pc = "check", !.todo = {v \in Versions : quarantine[v] # "none"}]
    /\ UNCHANGED <<catalogVars, sessionVars, published, quarantine, tombstones, generation, read,
                   stopped>>

\* _schema_change_is_persisted
Persisted(current, v) == current[v] = "schema_changed"

\* ... and goes through them: released, to be demoted again, or left alone.
CheckVersion(v) ==
    /\ job.pc = "check"
    /\ v \in job.todo
    /\ job' = IF Persisted(job.current, v)
              THEN [job EXCEPT !.todo = @ \ {v}, !.release = @ \cup {v}]
              ELSE IF job.current[v] = "enabled"
              THEN [job EXCEPT !.pc = "disable", !.version = v]
              ELSE [job EXCEPT !.todo = @ \ {v}]
    /\ UNCHANGED <<catalogVars, sessionVars, published, quarantine, tombstones, generation, read,
                   stopped>>

\* disable_provider_mcp_capability_version refuses rows in another state.
Demote ==
    /\ job.pc = "disable"
    /\ authority[job.version] \in {"enabled", "schema_changed"}
    /\ authority' = [authority EXCEPT ![job.version] = "schema_changed"]
    /\ job' = [job EXCEPT !.pc = "reload"]
    /\ UNCHANGED <<changes, renewed, sessionVars, published, quarantine, tombstones, generation,
                   read, stopped>>

\* Reload after the demotion; the rows must show it.
Reload ==
    /\ job.pc = "reload"
    /\ Persisted(authority, job.version)
    /\ job' = [job EXCEPT !.pc = IF job.kind = "drift" THEN "publish" ELSE "check",
                          !.current = authority,
                          !.todo = @ \ {job.version}, !.release = @ \cup {job.version}]
    /\ UNCHANGED <<catalogVars, sessionVars, published, quarantine, tombstones, generation, read,
                   stopped>>

\* The catalog is down, its answer is lost or it does not show the demotion: an
\* alert is sent, the version stays quarantined.
PersistFails ==
    /\ job.pc \in {"disable", "reload"}
    /\ IF job.kind = "refresh"
       THEN job' = [job EXCEPT !.pc = "check", !.todo = @ \ {job.version}] /\ UNCHANGED read
       ELSE EndJob
    /\ UNCHANGED <<catalogVars, sessionVars, published, quarantine, tombstones, generation,
                   stopped>>

\* Sessions that are told now; notification tasks still running take their room.
Admitted(seq, gen) ==
    {s \in Pending(seq, gen) \ Active :
        Cardinality({t \in Pending(seq, gen) \ Active :
                        \E i, j \in DOMAIN seq : i < j /\ seq[i] = t /\ seq[j] = s})
            < MaxSessions - Cardinality(Active)}

\* Deviation: only a change of the tools makes publish look for sessions.
NotifyIfChanged(target, gen) == IF target # published THEN Admitted(retained, gen) ELSE {}

\* publish notifies after a change, and also the sessions an earlier call left.
ToNotify(target, gen) == IF stopped THEN {} ELSE Admitted(retained, gen)

\* publish with _stage and _swap
Publish ==
    /\ job.pc = "publish" \/ (job.pc = "check" /\ job.todo = {})
    /\ LET target == {v \in Versions : job.current[v] = "enabled"}
           gen == IF target # published THEN generation + 1 ELSE generation
           sending == ToNotify(target, gen)
       IN /\ published' = target
          /\ generation' = gen
          /\ quarantine' = [v \in Versions |-> IF v \in job.release THEN "none" ELSE quarantine[v]]
          /\ IF sending = {} THEN EndJob
             ELSE /\ job' = [NoJob EXCEPT !.kind = job.kind, !.by = job.by, !.pc = "notify",
                                          !.sending = sending]
                  /\ UNCHANGED read
    /\ UNCHANGED <<catalogVars, sessionVars, tombstones, stopped>>

\* Staging or registering raises: _swap has put everything back.
JobFails ==
    /\ job.pc \in {"load", "publish"} \/ (job.pc = "check" /\ job.todo = {})
    /\ EndJob
    /\ UNCHANGED <<catalogVars, sessionVars, published, quarantine, tombstones, generation,
                   stopped>>

\* _record_notification_results and _detach_notification_tasks
Notified(ok, failed, slow, evicted) ==
    /\ retained' = SelectSeq(retained, LAMBDA s : s \notin failed \cup evicted)
    /\ told' = [s \in Sessions |-> IF s \in failed \cup evicted THEN 0
          ELSE IF s \in ok /\ s \in Range(retained) THEN generation ELSE told[s]]
    /\ detached' = [s \in Sessions |->
          IF s \in slow /\ ~stopped THEN generation ELSE detached[s]]

\* _notify_refresh_sessions: within its deadline some are told, some fail and
\* some are neither, and those are given up.
Notify ==
    /\ job.pc = "notify"
    /\ \E ok \in SUBSET job.sending, failed \in SUBSET job.sending :
          /\ ok \cap failed = {}
          /\ LET slow == job.sending \ (ok \cup failed) IN Notified(ok, failed, slow, slow)
    /\ EndJob
    /\ UNCHANGED <<catalogVars, published, quarantine, tombstones, generation, stopped>>

\* The caller is cancelled while it waits: those not told yet stay pending.
NotifyCancelled ==
    /\ job.pc = "notify"
    /\ job.kind = "drift" \/ stopped
    /\ \E ok \in SUBSET job.sending, failed \in SUBSET job.sending :
          /\ ok \cap failed = {}
          /\ Notified(ok, failed, job.sending \ (ok \cup failed), {})
    /\ EndJob
    /\ UNCHANGED <<catalogVars, published, quarantine, tombstones, generation, stopped>>

\* The client of a drifted call goes away, waiting for the lock or holding it;
\* the polling loop is cancelled when the server stops.
Cancel(c) ==
    /\ read[c].pc = "drifted"
    /\ job.by = c => job.pc # "notify"
    /\ job' = IF job.by = c THEN NoJob ELSE job
    /\ read' = [read EXCEPT ![c] = NoRead]
    /\ UNCHANGED <<catalogVars, sessionVars, published, quarantine, tombstones, generation,
                   stopped>>

\* clear, at shutdown, when the polling loop was cancelled
Clear ==
    /\ ~stopped
    /\ stopped' = TRUE
    /\ published' = {}
    /\ Forget(Sessions)
    /\ detached' = [s \in Sessions |-> 0]
    /\ job' = IF job.kind = "refresh" /\ job.pc # "notify" THEN NoJob ELSE job
    /\ UNCHANGED <<catalogVars, quarantine, tombstones, generation, read>>

-----------------------------------------------------------------------------
\* Another server demotes a version, an operator disables or requalifies it.
CatalogChanges(v, state) ==
    /\ changes < MaxChanges
    /\ authority[v] # state
    /\ authority' = [authority EXCEPT ![v] = state]
    /\ changes' = changes + 1
    /\ renewed' = IF state = "enabled" THEN renewed \cup {v} ELSE renewed
    /\ UNCHANGED <<sessionVars, toolVars>>

ToolsNext ==
    \/ \E v \in Versions, state \in States : CatalogChanges(v, state)
    \/ \E s \in Sessions : ListTools(s) \/ SessionGone(s) \/ DetachedEnds(s)
    \/ \E c \in Readers :
          \/ \E s \in Sessions, v \in Versions : CallTool(c, s, v)
          \/ ReadGuard(c) \/ ReadEnds(c)
          \/ \E certainty \in {"not_dispatched", "unknown", "dispatched"} : ReadDrifts(c, certainty)
          \/ DriftBegin(c) \/ Cancel(c)
    \/ RefreshBegin \/ LoadCatalog \/ Reconcile \/ \E v \in Versions : CheckVersion(v)
    \/ Demote \/ Reload \/ PersistFails \/ Publish \/ JobFails \/ Notify \/ NotifyCancelled
    \/ Clear

\* The polling loop comes round and gets the lock, which is first come, first
\* served; the catalog is not down for good; waiting is bounded.
ToolsFairness ==
    /\ SF_toolsVars(RefreshBegin) /\ SF_toolsVars(LoadCatalog) /\ WF_toolsVars(Reconcile)
    /\ WF_toolsVars(\E v \in Versions : CheckVersion(v))
    /\ SF_toolsVars(Demote) /\ SF_toolsVars(Reload) /\ SF_toolsVars(Publish)
    /\ WF_toolsVars(PersistFails) /\ WF_toolsVars(Notify)

ToolsSpec == ToolsInit /\ [][ToolsNext]_toolsVars /\ ToolsFairness

-----------------------------------------------------------------------------
(***************************************************************************)
(* Properties                                                              *)
(***************************************************************************)
\* A version whose schema drifted in this process is offered again only while it
\* is quarantined, or if the catalog enabled it once more (publish releases a
\* quarantine together with the withdrawal, reconcile repeats failed ones).
DriftWithdrawn ==
    \A v \in tombstones \cap published : quarantine[v] # "none" \/ v \in renewed

\* A drift is not forgotten: whatever fails or is cancelled on the way, the
\* catalog stops enabling the version while the server runs, unless someone
\* enables it once more in the meantime.
DriftSettles ==
    \A v \in Versions :
        (quarantine[v] # "none") ~> (authority[v] # "enabled" \/ v \in renewed \/ stopped)

\* A retained session that has not been told of the current tools is told or given
\* up, also when the call that should have told it was cancelled, unless a
\* notification that resists its cancellation holds the room for it.
SessionsCatchUp ==
    \A s \in Sessions :
        (s \in Range(retained) /\ told[s] < generation)
            ~> (s \notin Range(retained) \/ told[s] = generation \/ Active # {})
=============================================================================
