--------------------------- MODULE LocalExecutor ---------------------------
(***************************************************************************)
(* ERPExecutor (execution/executor.py) over the request store: preview,    *)
(* approval, dispatch and status resolution of mutations, run by the tasks *)
(* of several processes that share one repository.                         *)
(*                                                                         *)
(* Granularity.  Each call of the request store or of the credential store *)
(* takes the repository lock on its own, so other processes may interleave *)
(* between any two calls: each is a step.  Tasks of one process share an   *)
(* event loop and the in-memory catalog, and interleave only at an await:  *)
(* a step that leaves an await needs the loop to be free.                  *)
(*                                                                         *)
(* The provider and the network are external: wire[r] says how far the     *)
(* bytes of request r got.                                                 *)
(***************************************************************************)
EXTENDS RequestStore

CONSTANTS
    Procs,          \* processes using the repository
    Tasks,          \* asyncio tasks
    Home,           \* the process each task runs in
    Payloads,       \* what the user asked to write: action, inputs, target
    Secrets,        \* contents of the credential file for the profile
    Versions,       \* catalog version ids
    Preflights,     \* number of preflight actions of the mutation
    MaxRestarts,    \* bound on restarts: no process restarts once one did so often
    Cancellable,    \* the awaits at which callers cancel tasks
    None            \* no value

\* Action 0 is the mutation, 1..Preflights are its preflight reads.
Actions == 0 .. Preflights

\* _credential_generation keys its digest with a key drawn when the process
\* starts: the same secret has a different revision in every process lifetime.
Revisions == [proc : Procs, key : 0 .. MaxRestarts, secret : Secrets]

Bindings == [mutation_class : Classes, connector_id : Connectors,
             environment : Environments, payload : Payloads,
             versions : [Actions -> Versions], revision : Revisions]

ASSUME ExecutorAssumption ==
    /\ Home \in [Tasks -> Procs]
    /\ Preflights \in Nat
    /\ MaxRestarts \in Nat
    /\ Cancellable \subseteq {"auth", "probing", "sending", "status"}
    /\ Hashes = Bindings
    /\ None \notin RequestIds \cup Bindings \cup Secrets

VARIABLES
    catalog,        \* active version of each action, per process
    key,            \* generation of each process's credential key
    secret,         \* contents of the shared credential file
    pc,             \* where each task is
    frame,          \* the local variables of each task
    wire,           \* external: how far the bytes of each request got
    ledger          \* the audit ledger: pairs of event and request

worldVars == <<catalog, key, secret>>
taskVars == <<pc, frame>>
vars == <<requests, now, catalog, key, secret, pc, frame, wire, ledger>>

\* Where a task gives up the event loop, and where it holds it.
Awaiting == {"idle", "auth", "probing", "sending", "status"}
Auditing == {"audit_preview", "audit_confirmation", "audit_approval"}
Running == Auditing \cup
           {"preview", "confirm", "execute", "validate", "snapshot", "preflight",
            "recheck", "starting", "audit_dispatch", "complete", "fail",
            "invalidate", "resolve"}

WireStates == {"unsent", "in_flight", "applied", "rejected"}
Events == {"preview_created", "confirmation_recorded", "approval_recorded",
           "dispatch_started"}

Frame == [job : RequestIds \cup {None},     \* the request worked on
          draft : Bindings \cup {None},     \* the binding preview_write computed
          auth : Secrets \cup {None},       \* the secret the snapshot returned
          step : Nat,                       \* the preflight under way
          plan : {"none"} \cup Outcomes \cup InvalidationReasons]

EmptyFrame == [job |-> None, draft |-> None, auth |-> None, step |-> 0, plan |-> "none"]

-----------------------------------------------------------------------------
\* The event loop of process p runs no task other than t.
LoopFree(p, t) == \A u \in Tasks \ {t} : Home[u] = p => pc[u] \in Awaiting

\* A task takes up something new.
Ready(t) == pc[t] = "idle" /\ LoopFree(Home[t], t)

\* The await the task is at ends.
Resumes(t, label) == pc[t] = label /\ LoopFree(Home[t], t)

Job(t) == frame[t].job
Bound(t) == requests[Job(t)].payload_hash

Revision(p) == [proc |-> p, key |-> key[p], secret |-> secret]
ActionsActive(t, A) == \A a \in A : catalog[Home[t]][a] = Bound(t).versions[a]
CredentialsUnchanged(t) == Revision(Home[t]) = Bound(t).revision

Move(t, label, f) ==
    /\ pc' = [pc EXCEPT ![t] = label]
    /\ frame' = [frame EXCEPT ![t] = f]
GoTo(t, label) == Move(t, label, frame[t])
Start(t, label, r) == Move(t, label, [EmptyFrame EXCEPT !.job = r])
Plan(t, label, what) == Move(t, label, [frame[t] EXCEPT !.plan = what])
Return(t) == Move(t, "idle", EmptyFrame)

\* The records that gate a later step.  The ones written once a row is final
\* gate nothing: their failure propagates with nothing left to undo, and they
\* are left out.
Record(event, r) == ledger' = ledger \cup {<<event, r>>}

-----------------------------------------------------------------------------
(***************************************************************************)
(* preview_write                                                           *)
(***************************************************************************)
Draft(p, payload, c, connector, environment) ==
    [mutation_class |-> c, connector_id |-> connector, environment |-> environment,
     payload |-> payload, versions |-> catalog[p], revision |-> Revision(p)]

\* The request id is drawn here too; drawn ids never collide.
PreviewBegin(t, r, payload, c, connector, environment) ==
    /\ Ready(t)
    /\ r \notin Stored /\ \A u \in Tasks : Job(u) # r
    /\ Move(t, "preview",
            [EmptyFrame EXCEPT
                !.job = r,
                !.draft = Draft(Home[t], payload, c, connector, environment)])
    /\ UNCHANGED <<storeVars, worldVars, wire, ledger>>

\* assert_replay_allowed and create_preview; either may refuse and raise.
PreviewCreate(t) ==
    /\ pc[t] = "preview"
    /\ \/ /\ CreatePreview(Job(t), frame[t].draft)
          /\ Start(t, "audit_preview", Job(t))
       \/ /\ ~ReplayAllowed(frame[t].draft, {})
          /\ Return(t) /\ UNCHANGED storeVars
    /\ UNCHANGED <<worldVars, wire, ledger>>

(***************************************************************************)
(* confirm_write and approve_and_execute                                   *)
(***************************************************************************)
ConfirmBegin(t, r) ==
    /\ Ready(t)
    /\ Get(r)
    /\ Start(t, "confirm", r)
    /\ UNCHANGED <<worldVars, wire, ledger>>

ConfirmApprove(t) ==
    /\ pc[t] = "confirm"
    /\ \/ /\ Approve(Job(t), Bound(t), Bound(t).mutation_class)
          /\ GoTo(t, "audit_confirmation")
       \/ /\ ~ApprovalCandidate(Job(t), Bound(t), Bound(t).mutation_class)
          /\ Return(t) /\ UNCHANGED storeVars
    /\ UNCHANGED <<worldVars, wire, ledger>>

ApproveAndExecute(t, r, h, expected) ==
    /\ Ready(t)
    /\ Approve(r, h, expected)
    /\ Start(t, "audit_approval", r)
    /\ UNCHANGED <<worldVars, wire, ledger>>

(***************************************************************************)
(* The audit record that must follow a preview or an approval.  When the   *)
(* ledger refuses it, the request is invalidated.                          *)
(***************************************************************************)
AuditEvent(label) ==
    CASE label = "audit_preview"      -> "preview_created"
      [] label = "audit_confirmation" -> "confirmation_recorded"
      [] label = "audit_approval"     -> "approval_recorded"

AuditRequest(t) ==
    /\ pc[t] \in Auditing
    /\ \/ /\ Record(AuditEvent(pc[t]), Job(t))
          /\ IF pc[t] = "audit_approval" THEN GoTo(t, "execute") ELSE Return(t)
       \/ Plan(t, "invalidate", "audit_failed") /\ UNCHANGED ledger
    /\ UNCHANGED <<storeVars, worldVars, wire>>

(***************************************************************************)
(* execute_write up to the point of no return.  It is called on its own or *)
(* by approve_and_execute, and begins with require_ready.                  *)
(***************************************************************************)
ExecuteBegin(t, r) ==
    /\ Ready(t)
    /\ RequireReady(r)
    /\ Start(t, "validate", r)
    /\ UNCHANGED <<storeVars, worldVars, wire, ledger>>

ExecuteApproved(t) ==
    /\ pc[t] = "execute"
    /\ IF RequireReady(Job(t)) THEN GoTo(t, "validate") ELSE Return(t)
    /\ UNCHANGED <<storeVars, worldVars, wire, ledger>>

\* _active_for_prepared, _active_preflight_actions, and the rebuilt request:
\* its target may be refused by the network policy or differ from the bound
\* one, and the driver's configuration may raise; the model leaves both open.
ExecuteValidate(t) ==
    /\ pc[t] = "validate"
    /\ \/ ActionsActive(t, Actions) /\ GoTo(t, "snapshot")
       \/ Plan(t, "invalidate", "preview_invalidated")
       \/ Return(t)
    /\ UNCHANGED <<storeVars, worldVars, wire, ledger>>

\* _credential_snapshot
ExecuteSnapshot(t) ==
    /\ pc[t] = "snapshot"
    /\ IF CredentialsUnchanged(t)
       THEN Move(t, "auth", [frame[t] EXCEPT !.auth = secret])
       ELSE Plan(t, "invalidate", "preview_invalidated")
    /\ UNCHANGED <<storeVars, worldVars, wire, ledger>>

\* prepare_auth: the token exchange succeeds, fails, or raises what
\* execute_write does not catch.
ExecuteAuth(t) ==
    /\ Resumes(t, "auth")
    /\ \/ Move(t, IF Preflights = 0 THEN "recheck" ELSE "preflight",
               [frame[t] EXCEPT !.step = 1])
       \/ GoTo(t, "fail")
       \/ Return(t)
    /\ UNCHANGED <<storeVars, worldVars, wire, ledger>>

\* One turn of _run_preflights up to its await: preflight versions, target and
\* credential revision are checked again before each send.
PreflightSend(t) ==
    /\ pc[t] = "preflight"
    /\ \/ /\ ActionsActive(t, Actions \ {0})
          /\ CredentialsUnchanged(t)
          /\ GoTo(t, "probing")
       \/ Plan(t, "invalidate", "preview_invalidated")
       \/ GoTo(t, "fail")
    /\ UNCHANGED <<storeVars, worldVars, wire, ledger>>

\* The preflight answered: go on, fail on an error or a found duplicate, or let
\* an audit failure propagate.
PreflightAnswer(t) ==
    /\ Resumes(t, "probing")
    /\ \/ IF frame[t].step < Preflights
          THEN Move(t, "preflight", [frame[t] EXCEPT !.step = @ + 1])
          ELSE GoTo(t, "recheck")
       \/ GoTo(t, "fail")
       \/ Return(t)
    /\ UNCHANGED <<storeVars, worldVars, wire, ledger>>

\* Deviation: what was checked before the awaits is not checked again.
ExecuteRecheckSkipped(t) ==
    /\ pc[t] = "recheck"
    /\ GoTo(t, "starting") \/ GoTo(t, "fail")
    /\ UNCHANGED <<storeVars, worldVars, wire, ledger>>

\* The request is rendered, which may fail, and the versions, the credential
\* revision and the target are checked a last time.
ExecuteRecheck(t) ==
    /\ pc[t] = "recheck"
    /\ \/ /\ ActionsActive(t, Actions)
          /\ CredentialsUnchanged(t)
          /\ GoTo(t, "starting")
       \/ Plan(t, "invalidate", "preview_invalidated")
       \/ GoTo(t, "fail")
    /\ UNCHANGED <<storeVars, worldVars, wire, ledger>>

ExecuteStart(t) ==
    /\ pc[t] = "starting"
    /\ \/ StartExecution(Job(t)) /\ GoTo(t, "audit_dispatch")
       \/ /\ ~(RequireReady(Job(t)) /\ ReplayAllowed(Bound(t), {Job(t)}))
          /\ Return(t) /\ UNCHANGED storeVars
    /\ UNCHANGED <<worldVars, wire, ledger>>

\* Deviation: the mutation is sent even if the ledger refuses the record.
AuditDispatchFailOpen(t) ==
    /\ pc[t] = "audit_dispatch"
    /\ Record("dispatch_started", Job(t)) \/ UNCHANGED ledger
    /\ GoTo(t, "sending")
    /\ UNCHANGED <<storeVars, worldVars, wire>>

\* Without a dispatch_started record nothing is sent.
AuditDispatch(t) ==
    /\ pc[t] = "audit_dispatch"
    /\ \/ Record("dispatch_started", Job(t)) /\ GoTo(t, "sending")
       \/ Plan(t, "complete", "failed") /\ UNCHANGED ledger
    /\ UNCHANGED <<storeVars, worldVars, wire>>

(***************************************************************************)
(* client.send and what its result is taken to mean                        *)
(***************************************************************************)
\* External: the bytes leave for the provider.
Transmit(t) ==
    /\ pc[t] = "sending"
    /\ wire[Job(t)] = "unsent"
    /\ wire' = [wire EXCEPT ![Job(t)] = "in_flight"]
    /\ UNCHANGED <<storeVars, worldVars, taskVars, ledger>>

\* External: the provider takes its decision, perhaps long after the sender
\* gave up.
ProviderDecides(r) ==
    /\ wire[r] = "in_flight"
    /\ \E decision \in {"applied", "rejected"} : wire' = [wire EXCEPT ![r] = decision]
    /\ UNCHANGED <<storeVars, worldVars, taskVars, ledger>>

\* Deviations: a timeout counts as a failure, or is never reported.
SendOutcomesWithTimeout(w, timeout) ==
    CASE w = "unsent"    -> {"failed", "outcome_unknown"}
      [] w = "in_flight" -> timeout
      [] w = "applied"   -> {"succeeded"}
      [] w = "rejected"  -> {"failed"}
TimeoutIsFailure(w) == SendOutcomesWithTimeout(w, {"failed"})
TimeoutNeverReported(w) == SendOutcomesWithTimeout(w, {})

\* What a send may come back as, given how far the bytes got: connect and pool
\* errors and request-side policy errors only before anything was sent; an
\* interpreted 2xx or 4xx only as the provider decided; read errors, timeouts,
\* 5xx and uninterpretable or unverified responses at any time.
SendOutcomes(w) ==
    CASE w = "unsent"    -> {"failed", "outcome_unknown"}
      [] w = "in_flight" -> {"outcome_unknown"}
      [] w = "applied"   -> {"succeeded", "outcome_unknown"}
      [] w = "rejected"  -> {"failed", "outcome_unknown"}

SendReturns(t) ==
    /\ Resumes(t, "sending")
    /\ \E outcome \in SendOutcomes(wire[Job(t)]) : Plan(t, "complete", outcome)
    /\ UNCHANGED <<storeVars, worldVars, wire, ledger>>

\* An exception that is neither a TransportError nor a NetworkPolicyError, such
\* as httpx.DecodingError while the body is read, passes through execute_write.
SendRaises(t) ==
    /\ Resumes(t, "sending")
    /\ wire[Job(t)] \in {"applied", "rejected"}
    /\ Return(t)
    /\ UNCHANGED <<storeVars, worldVars, wire, ledger>>

\* _complete_failed, _complete_unknown and _complete_result.
ExecuteComplete(t) ==
    /\ pc[t] = "complete"
    /\ Complete(Job(t), frame[t].plan)
    /\ Return(t)
    /\ UNCHANGED <<worldVars, wire, ledger>>

(***************************************************************************)
(* The two ways an execution ends before it is dispatched.  The store may  *)
(* refuse either, and the task then just raises.                           *)
(***************************************************************************)
ExecuteFail(t) ==
    /\ pc[t] = "fail"
    /\ \/ FailBeforeDispatch(Job(t))
       \/ ~RequireReady(Job(t)) /\ UNCHANGED storeVars
    /\ Return(t)
    /\ UNCHANGED <<worldVars, wire, ledger>>

TaskInvalidate(t) ==
    /\ pc[t] = "invalidate"
    /\ \/ Invalidate(Job(t), frame[t].plan)
       \/ ~Live(Job(t), PendingStates) /\ UNCHANGED storeVars
    /\ Return(t)
    /\ UNCHANGED <<worldVars, wire, ledger>>

(***************************************************************************)
(* resolve_unknown_with_status                                             *)
(***************************************************************************)
ResolveBegin(t, r) ==
    /\ Ready(t)
    /\ r \in Stored /\ requests[r].state = "outcome_unknown"
    /\ catalog[Home[t]][0] = requests[r].payload_hash.versions[0]
    /\ Start(t, "status", r)
    /\ UNCHANGED <<storeVars, worldVars, wire, ledger>>

\* Deviation: a record the provider does not know yet counts as not created.
StatusOutcomesAbsentIsFailure(w) == IF w = "applied" THEN {"succeeded"} ELSE {"failed"}

\* External: what the provider's status read says of the request, if anything.
\* An assumption: the read is made with the status_inputs of the action, which
\* say nothing of this request, and is taken to answer for the very request.
StatusOutcomes(w) ==
    CASE w = "applied"  -> {"succeeded"}
      [] w = "rejected" -> {"failed"}
      [] OTHER          -> {}

StatusAnswer(t) ==
    /\ Resumes(t, "status")
    /\ \/ \E outcome \in StatusOutcomes(wire[Job(t)]) : Plan(t, "resolve", outcome)
       \/ Return(t)
    /\ UNCHANGED <<storeVars, worldVars, wire, ledger>>

ResolveRecord(t) ==
    /\ pc[t] = "resolve"
    /\ \/ ResolveOutcomeUnknown(Job(t), frame[t].plan)
       \/ requests[Job(t)].state # "outcome_unknown" /\ UNCHANGED storeVars
    /\ Return(t)
    /\ UNCHANGED <<worldVars, wire, ledger>>

-----------------------------------------------------------------------------
(***************************************************************************)
(* What happens around the tasks.                                          *)
(***************************************************************************)
\* get_request_status, invalidate_pending and the clock.
StoreCall ==
    /\ \/ \E r \in Stored : Get(r)
       \/ \E C \in Scopes(Connectors), E \in Scopes(Environments) : InvalidatePending(C, E)
       \/ Tick
    /\ UNCHANGED <<worldVars, taskVars, wire, ledger>>

\* LocalActionCatalog.replace, from a refresh task of the process.
ReplaceCatalog(p) ==
    /\ \A t \in Tasks : Home[t] = p => pc[t] \in Awaiting
    /\ \E versions \in [Actions -> Versions] : catalog' = [catalog EXCEPT ![p] = versions]
    /\ UNCHANGED <<storeVars, key, secret, taskVars, wire, ledger>>

\* LocalCredentialStore.save or clear, from any process.
SaveCredentials ==
    /\ \E s \in Secrets : secret' = s
    /\ UNCHANGED <<storeVars, catalog, key, taskVars, wire, ledger>>

\* A caller gives up on a task: CancelledError leaves it at an await.
Cancel(t) ==
    /\ pc[t] \in Cancellable /\ LoopFree(Home[t], t)
    /\ Return(t)
    /\ UNCHANGED <<storeVars, worldVars, wire, ledger>>

\* A process dies and is started again: its tasks are gone, its generation key
\* is new, the store and the ledger are as they were.
Restart(p) ==
    /\ \A q \in Procs : key[q] < MaxRestarts
    /\ key' = [key EXCEPT ![p] = @ + 1]
    /\ pc' = [t \in Tasks |-> IF Home[t] = p THEN "idle" ELSE pc[t]]
    /\ frame' = [t \in Tasks |-> IF Home[t] = p THEN EmptyFrame ELSE frame[t]]
    /\ UNCHANGED <<storeVars, catalog, secret, wire, ledger>>

-----------------------------------------------------------------------------
Init ==
    /\ StoreInit
    /\ catalog \in [Procs -> [Actions -> Versions]]
    /\ key = [p \in Procs |-> 0]
    /\ secret \in Secrets
    /\ pc = [t \in Tasks |-> "idle"]
    /\ frame = [t \in Tasks |-> EmptyFrame]
    /\ wire = [r \in RequestIds |-> "unsent"]
    /\ ledger = {}

\* What a task starts on behalf of a caller.
Begin(t) ==
    \/ \E r \in RequestIds, p \in Payloads, c \in Classes,
          x \in Connectors, e \in Environments : PreviewBegin(t, r, p, c, x, e)
    \/ \E r \in Stored : ConfirmBegin(t, r)
    \/ \E r \in Stored : ApproveAndExecute(t, r, requests[r].payload_hash,
                                         requests[r].payload_hash.mutation_class)
    \/ \E r \in Stored : ExecuteBegin(t, r)
    \/ \E r \in Stored : ResolveBegin(t, r)

\* What a task does by itself once started.
Continue(t) ==
    \/ PreviewCreate(t)   \/ ConfirmApprove(t)  \/ AuditRequest(t)
    \/ ExecuteApproved(t) \/ ExecuteValidate(t) \/ ExecuteSnapshot(t)
    \/ ExecuteAuth(t)     \/ PreflightSend(t)   \/ PreflightAnswer(t)
    \/ ExecuteRecheck(t)  \/ ExecuteStart(t)    \/ AuditDispatch(t)
    \/ SendReturns(t)     \/ SendRaises(t)      \/ ExecuteComplete(t)
    \/ ExecuteFail(t)     \/ TaskInvalidate(t)  \/ StatusAnswer(t)
    \/ ResolveRecord(t)

Next ==
    \/ \E t \in Tasks : Begin(t) \/ Continue(t) \/ Transmit(t) \/ Cancel(t)
    \/ \E r \in RequestIds : ProviderDecides(r)
    \/ \E p \in Procs : ReplaceCatalog(p) \/ Restart(p)
    \/ StoreCall
    \/ SaveCredentials

Spec == Init /\ [][Next]_vars

\* The event loop is first-in first-out and every await is bounded by the HTTP
\* client's timeouts, so a task that can go on again and again does go on.
Fairness == \A t \in Tasks : SF_vars(Continue(t))

FairSpec == Spec /\ Fairness

-----------------------------------------------------------------------------
(***************************************************************************)
(* Properties.                                                             *)
(***************************************************************************)

\* Every variable has its type.
ExecutorTypeOK ==
    /\ TypeOK
    /\ catalog \in [Procs -> [Actions -> Versions]]
    /\ key \in [Procs -> 0 .. MaxRestarts]
    /\ secret \in Secrets
    /\ pc \in [Tasks -> Awaiting \cup Running]
    /\ frame \in [Tasks -> Frame]
    /\ wire \in [RequestIds -> WireStates]
    /\ ledger \subseteq Events \X RequestIds

PossiblySent(r) == wire[r] \in {"in_flight", "applied"}

\* A mutation whose bytes may have reached the provider is never sent again
\* under the same payload hash, whatever the interleaving of tasks, processes,
\* crashes, cancellations, late provider decisions and status reads.
NoReplayAfterPossibleDispatch ==
    \A r, s \in Stored :
        /\ requests[r].payload_hash = requests[s].payload_hash
        /\ PossiblySent(r) /\ PossiblySent(s)
        => r = s

\* What the store says of a request agrees with what happened to it: a failed
\* or still pending request was not applied and never will be, a succeeded one
\* was applied.  A request that may still be decided either way is executing or
\* of unknown outcome.
OutcomeTruthful ==
    \A r \in Stored :
        /\ requests[r].state \in PendingStates => wire[r] = "unsent"
        /\ requests[r].state = "failed" => wire[r] \in {"unsent", "rejected"}
        /\ requests[r].state = "succeeded" => wire[r] = "applied"

Dispatching == {"audit_dispatch", "sending", "complete"}

\* A task past start_execution owns its row: the row is executing and no other
\* task is past start_execution for it, so complete is never refused and the
\* mutation is never sent by two tasks.
ExecutionOwned ==
    \A t \in Tasks : pc[t] \in Dispatching =>
        /\ Job(t) \in Stored /\ requests[Job(t)].state = "executing"
        /\ \A u \in Tasks \ {t} : pc[u] \in Dispatching => Job(u) # Job(t)

\* What is sent is what was approved: the task runs in the very process life
\* that computed the hash, holds the secret the hash was computed from, and,
\* when it commits to sending, every bound catalog version is still active.
DispatchFenced ==
    \A t \in Tasks : pc[t] \in Dispatching =>
        /\ Bound(t).revision.proc = Home[t]
        /\ Bound(t).revision.key = key[Home[t]]
        /\ frame[t].auth = Bound(t).revision.secret
        /\ pc[t] = "audit_dispatch" => ActionsActive(t, Actions)

\* Nothing reaches the wire whose preview and whose dispatch the audit ledger
\* does not hold, although the preview is stored before its record is written
\* and may be approved by another process in between.
DispatchAudited ==
    \A r \in RequestIds : wire[r] # "unsent" =>
        {<<"preview_created", r>>, <<"dispatch_started", r>>} \subseteq ledger

\* Every preview, confirmation, execution or status resolution that was begun
\* comes to an end, whatever the other tasks and processes do.
TasksReturn == \A t \in Tasks : pc[t] # "idle" ~> pc[t] = "idle"

\* Within one process, nothing reaches the wire whose approval the ledger does
\* not hold, although execute_write may be called on a request as soon as its
\* approval is stored.
ApprovalAudited ==
    \A r \in RequestIds : wire[r] # "unsent" =>
        <<"confirmation_recorded", r>> \in ledger \/ <<"approval_recorded", r>> \in ledger

\* A task that is about to send, or has sent, owns the row, sends what was
\* approved, and its approval is on record.
ExecutionGuarded == ExecutionOwned /\ DispatchFenced /\ ApprovalAudited

\* "Mutations are sent once": what the user asked to write is never sent again
\* after it may have reached the provider.
PayloadSentOnce ==
    \A r, s \in Stored :
        /\ requests[r].payload_hash.payload = requests[s].payload_hash.payload
        /\ PossiblySent(r) /\ PossiblySent(s)
        => r = s

\* "After timeout, ... or malformed provider response, Mercury records
\* outcome_unknown": an execution that was begun is eventually settled.
ExecutionSettles ==
    \A r \in RequestIds :
        (r \in Stored /\ requests[r].state = "executing")
            ~> (r \in Stored /\ requests[r].state # "executing")
=============================================================================
