-------------------------- MODULE QualificationRun --------------------------
(***************************************************************************)
(* Qualifying the actions of a provider in its sandbox (qualification/     *)
(* flowaccount.py), with the fixtures it must clean up (fixtures.py) and   *)
(* the state file of the run (run_store.py).  One process runs at a time;  *)
(* it may die anywhere, and the run may be opened again under its id.      *)
(***************************************************************************)
EXTENDS Naturals, Sequences, FiniteSets, FiniteSetsExt, SequencesExt

CONSTANTS
    Actions,            \* catalog identities, in their order: numbers
    Fixtures,           \* fixture handles, in their order: numbers
    Manifests,          \* reviewed manifests the run may be given
    Registries,         \* what the registered fixtures may depend on
    MaxTotalRequests,   \* limits.max_total_requests
    MaxMutations,       \* limits.max_mutation_attempts
    MaxReadAttempts,    \* limits.max_read_attempts
    MaxOpenings         \* bound: processes that open the run

\* SandboxActionPolicy: disposition, with the method of its action
Dispositions == {"get", "write", "contract_only"}

ASSUME QualificationAssumption ==
    /\ Actions \subseteq Nat /\ IsFiniteSet(Actions)
    /\ Fixtures \subseteq Nat /\ IsFiniteSet(Fixtures)
    /\ Manifests \subseteq [disposition : [Actions -> Dispositions], prerequisites : [Actions -> SUBSET Actions]]
    /\ Registries \subseteq UNION {[F -> SUBSET F] : F \in SUBSET Fixtures}
    /\ {MaxTotalRequests, MaxMutations, MaxReadAttempts, MaxOpenings} \subseteq Nat \ {0}

VARIABLES
    policy,     \* the reviewed manifest: disposition, method and prerequisites
    depends,    \* fixtures each registered fixture depends on
    runDisk,    \* the state file of the run
    runner,     \* the process: its step, its copy of the state, what it answers
    transport,  \* _BoundedTransport
    cleanups,   \* ghost: fixtures the cleanup adapter was called for
    dispatched, \* ghost: requests sent for each action by this process
    abandoned,  \* ghost: a process left the run unfinished
    openings    \* bound: processes so far

qualificationVars ==
    <<policy, depends, runDisk, runner, transport, cleanups, dispatched, abandoned, openings>>

NoRunFile == [state |-> "none", fixtures |-> <<>>]
NewRun == [state |-> "failed", fixtures |-> <<>>]
FreshTransport == [requests |-> 0, mutations |-> 0, exhausted |-> FALSE, limited |-> FALSE]

\* A process before qualify_all: registry and store are its own.
NewRunner ==
    [pc |-> "new", dry |-> FALSE, reads |-> FALSE, store |-> "none", memory |-> NoRunFile,
     granted |-> FALSE, bound |-> TRUE, claimed |-> {}, halted |-> FALSE, failure |-> "none",
     at |-> 1, attempt |-> 0, wanted |-> "none", reached |-> {}, records |-> [a \in Actions |-> "none"],
     answer |-> "none"]

QualificationInit ==
    /\ policy \in Manifests
    /\ depends \in Registries
    /\ runDisk = NoRunFile
    /\ \E d, r \in BOOLEAN : runner = [NewRunner EXCEPT !.dry = d, !.reads = r]
    /\ transport = FreshTransport
    /\ cleanups = <<>>
    /\ dispatched = [a \in Actions |-> 0]
    /\ abandoned = FALSE
    /\ openings = 1

-----------------------------------------------------------------------------
\* dependency_order and stable_topological_sort: of what is ready, always the
\* least; a cycle leaves something out.
Sorted(nodes, before) ==
    LET order[n \in 0..Cardinality(nodes)] ==
            IF n = 0 THEN <<>>
            ELSE LET placed == ToSet(order[n - 1])
                     ready == {x \in nodes \ placed : before[x] \subseteq placed}
                 IN IF ready = {} THEN order[n - 1] ELSE Append(order[n - 1], Min(ready))
    IN order[Cardinality(nodes)]

Acyclic(nodes, before) == Len(Sorted(nodes, before)) = Cardinality(nodes)

\* plan_fixture_dependencies
ExecutionOrder == Sorted(Actions, policy.prerequisites)

\* CleanupCoordinator.cleanup goes through the fixtures backwards.
CleanupOrder == Reverse(Sorted(DOMAIN depends, depends))

Executable(a) == policy.disposition[a] \in {"get", "write"}

-----------------------------------------------------------------------------
\* _write_state: written, refused before the rename, or reported as failed after it.
WriteOutcomes == {"written", "refused", "torn"}

\* What a failed write is answered with: while the fixtures are cleaned the run is
\* quarantined first.
AfterFailure == IF runner.pc \in {"cleanup", "clean"} THEN "cleanup_failed" ELSE "failing"

\* _replace: the process believes in the new record only when all went well, and
\* no longer trusts a directory that was exchanged; r is what else changes.
Replace(r, candidate, outcome, lostBinding) ==
    /\ r.bound
    /\ lostBinding => outcome # "written"
    /\ runDisk' = IF outcome = "refused" THEN runDisk ELSE candidate
    /\ runner' = [r EXCEPT !.granted = FALSE,
                           !.memory = IF outcome = "written" THEN candidate ELSE @,
                           !.bound = ~lostBinding,
                           !.pc = IF outcome = "written" THEN @ ELSE AfterFailure]

Quarantined(record) == [record EXCEPT !.state = "quarantined"]

\* quarantine: nothing is written for a run that is quarantined already.
Quarantine(r, outcome, lostBinding) ==
    IF r.store = "ephemeral" \/ r.memory.state = "quarantined"
    THEN /\ runner' = [r EXCEPT !.memory = Quarantined(@)]
         /\ UNCHANGED runDisk
    ELSE Replace(r, Quarantined(r.memory), outcome, lostBinding)

\* Deviation: the next process goes on where the lost one stopped.
TakenOver(record) == record

\* QualificationRunStore.__init__: a new file, or the one a process left; what a
\* lost process left unfinished is quarantined.
Recovered(record) == IF record.state = "failed" THEN Quarantined(record) ELSE record

\* _select_run_store and the early failure of qualify_all.
SelectStore(outcome) ==
    /\ runner.pc = "new"
    /\ IF runner.dry
       THEN /\ runner' = [runner EXCEPT !.pc = "contracts", !.store = "ephemeral", !.memory = NewRun]
            /\ UNCHANGED runDisk
       ELSE LET wanted == IF runDisk = NoRunFile THEN NewRun ELSE Recovered(runDisk)
            IN IF outcome = "written" \/ wanted = runDisk
               THEN /\ runDisk' = wanted
                    /\ runner' = [runner EXCEPT !.pc = "origin", !.store = "file", !.memory = wanted]
               ELSE /\ runDisk' = IF outcome = "torn" THEN wanted ELSE runDisk
                    /\ runner' = [runner EXCEPT !.pc = "failing"]
    /\ UNCHANGED <<policy, depends, transport, cleanups, dispatched, abandoned, openings>>

-----------------------------------------------------------------------------
\* _qualify_live before the first request: the origin and the credentials.
Preflight(failure) ==
    /\ runner.pc = "origin"
    /\ runner' = IF failure = "none" THEN [runner EXCEPT !.pc = "auth"]
                 ELSE [runner EXCEPT !.pc = "fill", !.failure = failure]
    /\ UNCHANGED <<policy, depends, runDisk, transport, cleanups, dispatched, abandoned, openings>>

PreflightFailures == {"none", "origin_invalid", "missing_credentials"}

\* _account_attempt
Account(mutation) == [transport EXCEPT !.requests = @ + 1, !.mutations = @ + mutation]

\* prepare_sandbox_auth_and_probe and require_verified_sandbox_tenant: the token
\* and the probe are requests; an unexpected error after one of them ends the run.
Authenticate(sent, verified) ==
    /\ runner.pc = "auth"
    /\ sent <= MaxTotalRequests
    /\ verified => sent = 2
    /\ transport' = [transport EXCEPT !.requests = @ + sent]
    /\ runner' = IF verified THEN [runner EXCEPT !.pc = "contracts"]
                 ELSE [runner EXCEPT !.pc = "fill", !.failure = "tenant_or_auth_failed"]
    /\ UNCHANGED <<policy, depends, runDisk, cleanups, dispatched, abandoned, openings>>

\* _load_contracts: catalog, manifest, semantics and an acyclic plan.
LoadContracts(readable) ==
    /\ runner.pc = "contracts"
    /\ runner' = IF readable /\ Acyclic(Actions, policy.prerequisites)
                 THEN [runner EXCEPT !.pc = IF runner.dry THEN "fill" ELSE "actions"]
                 ELSE [runner EXCEPT !.pc = "fill", !.failure = "contract_invalid"]
    /\ UNCHANGED <<policy, depends, runDisk, transport, cleanups, dispatched, abandoned, openings>>

Current == ExecutionOrder[runner.at]

\* The record of the action at hand; the next one is looked at.
Recorded(r, status) == [r EXCEPT !.records[Current] = status, !.at = @ + 1, !.attempt = 0, !.pc = "actions"]

\* _policy_record
PolicyStatus(a) ==
    IF policy.disposition[a] = "contract_only" THEN "contract_validated" ELSE "blocked"

\* _execute_actions: an action that is not to be sent gets its record at once.
NextAction ==
    /\ runner.pc = "actions"
    /\ runner.at <= Len(ExecutionOrder)
    /\ runner' = IF ~Executable(Current) THEN Recorded(runner, PolicyStatus(Current))
                 ELSE IF runner.failure # "none" \/ ~runner.reads \/ policy.disposition[Current] # "get"
                      THEN Recorded(runner, "blocked")
                      ELSE [runner EXCEPT !.pc = "attempt"]
    /\ UNCHANGED <<policy, depends, runDisk, transport, cleanups, dispatched, abandoned, openings>>

ActionsDone ==
    /\ runner.pc = "actions"
    /\ runner.at > Len(ExecutionOrder)
    /\ runner' = [runner EXCEPT !.pc = "fill"]
    /\ UNCHANGED <<policy, depends, runDisk, transport, cleanups, dispatched, abandoned, openings>>

\* _dispatch_safe_read: what keeps an attempt from being sent is tried once more.
NotSent ==
    /\ runner.pc = "attempt"
    /\ runner' = IF runner.attempt + 1 < MaxReadAttempts
                 THEN [runner EXCEPT !.attempt = @ + 1]
                 ELSE [runner EXCEPT !.pc = "audit", !.wanted = "live_failed"]
    /\ UNCHANGED <<policy, depends, runDisk, transport, cleanups, dispatched, abandoned, openings>>

\* The budget is spent: the action is blocked and so are all that follow.
BudgetExhausted ==
    /\ runner.pc = "attempt"
    /\ transport.requests >= MaxTotalRequests
    /\ transport' = [transport EXCEPT !.exhausted = TRUE]
    /\ runner' = [Recorded(runner, "blocked") EXCEPT !.failure = "request_budget_exhausted"]
    /\ UNCHANGED <<policy, depends, runDisk, cleanups, dispatched, abandoned, openings>>

Statuses == {"live_success", "live_failed", "outcome_unknown"}

\* handle_async_request and interpret_response: a request that was sent is not
\* repeated, whatever became of it.
Sent(status, limited) ==
    /\ runner.pc = "attempt"
    /\ transport.requests < MaxTotalRequests
    /\ transport' = [Account(0) EXCEPT !.limited = @ \/ limited]
    /\ dispatched' = [dispatched EXCEPT ![Current] = @ + 1]
    /\ runner' = [runner EXCEPT !.pc = "audit", !.wanted = status, !.reached = @ \cup {Current}]
    /\ UNCHANGED <<policy, depends, runDisk, cleanups, abandoned, openings>>

\* The record and the audit event of the read; then what stops the others.
AuditRead ==
    /\ runner.pc = "audit"
    /\ runner.wanted # "outcome_unknown"
    /\ runner' = [Recorded(runner, runner.wanted) EXCEPT
                    !.failure = IF transport.limited THEN "rate_limited" ELSE @]
    /\ UNCHANGED <<policy, depends, runDisk, transport, cleanups, dispatched, abandoned, openings>>

\* The outcome, or its audit event, is lost: the run is quarantined.
OutcomeUnknown(outcome, lostBinding) ==
    Quarantine([Recorded(runner, "outcome_unknown") EXCEPT !.failure = "outcome_unknown"],
               outcome, lostBinding)

AuditLost(outcome, lostBinding) ==
    /\ runner.pc = "audit"
    /\ OutcomeUnknown(outcome, lostBinding)
    /\ UNCHANGED <<policy, depends, transport, cleanups, dispatched, abandoned, openings>>

-----------------------------------------------------------------------------
\* _preflight_status
FailureStatus ==
    IF runner.failure = "missing_credentials" THEN "blocked_credentials" ELSE "blocked"

\* _fill_unvalidated_records and _fill_terminal_records: no action stays without.
Filled ==
    [a \in Actions |->
        IF runner.records[a] # "none" THEN runner.records[a]
        ELSE IF runner.failure = "contract_invalid" THEN "blocked"
        ELSE IF ~Executable(a) THEN PolicyStatus(a)
        ELSE IF runner.dry /\ runner.failure = "none" THEN "contract_validated" ELSE FailureStatus]

\* _qualify_selected_run up to the cleanup, which a run that was stopped skips.
FillRecords ==
    /\ runner.pc = "fill"
    /\ runner' = [runner EXCEPT !.records = Filled,
                                !.pc = IF runner.failure # "none" THEN "report"
                                       ELSE IF runner.dry THEN "persist" ELSE "cleanup"]
    /\ UNCHANGED <<policy, depends, runDisk, transport, cleanups, dispatched, abandoned, openings>>

\* cleanup on a run that is quarantined or completed only reports.
CleanupNotNeeded ==
    /\ runner.pc = "cleanup"
    /\ runner.halted \/ runner.memory.state # "failed"
    /\ runner' = [runner EXCEPT !.pc = IF runner.memory.state = "completed" THEN "persist" ELSE "report"]
    /\ UNCHANGED <<policy, depends, runDisk, transport, cleanups, dispatched, abandoned, openings>>

\* record_fixtures: every registered fixture is known to the file as pending first.
RecordFixtures(outcome, lostBinding) ==
    /\ runner.pc = "cleanup"
    /\ ~runner.halted /\ runner.memory.state = "failed"
    /\ Acyclic(DOMAIN depends, depends)
    /\ IF depends = <<>>
       THEN runner' = [runner EXCEPT !.pc = "clean"] /\ UNCHANGED runDisk
       ELSE Replace([runner EXCEPT !.pc = "clean"],
                    [runner.memory EXCEPT !.fixtures = [f \in DOMAIN depends |-> "pending"]],
                    outcome, lostBinding)
    /\ UNCHANGED <<policy, depends, transport, cleanups, dispatched, abandoned, openings>>

\* The registry knows a cycle.
CleanupRefused ==
    /\ runner.pc = "cleanup"
    /\ ~runner.halted /\ runner.memory.state = "failed"
    /\ ~Acyclic(DOMAIN depends, depends)
    /\ runner' = [runner EXCEPT !.pc = "cleanup_failed"]
    /\ UNCHANGED <<policy, depends, runDisk, transport, cleanups, dispatched, abandoned, openings>>

\* _cleanup_before_terminal_report: a cleanup that raised quarantines the run, which
\* cannot be written to a directory that is no longer trusted.
QuarantineCleanup(outcome, lostBinding) ==
    /\ runner.pc = "cleanup_failed"
    /\ IF runner.bound THEN Quarantine([runner EXCEPT !.pc = "report"], outcome, lostBinding)
       ELSE runner' = [runner EXCEPT !.pc = "failing"] /\ UNCHANGED runDisk
    /\ UNCHANGED <<policy, depends, transport, cleanups, dispatched, abandoned, openings>>

\* claim_cleanup: a fixture is claimed once, before the adapter is called.
Claimable ==
    {i \in DOMAIN CleanupOrder : /\ runner.memory.fixtures[CleanupOrder[i]] = "pending"
                                 /\ CleanupOrder[i] \notin runner.claimed}
NextFixture == CleanupOrder[Min(Claimable)]

\* _BoundedCleanupAdapter: the attempt is accounted, and may be refused.
CleanupAllowed ==
    /\ transport.requests < MaxTotalRequests
    /\ ~transport.limited
    /\ transport.mutations < MaxMutations

\* mark_cleanup, or halt_cleanup and quarantine_cleanup
Settled(f, result, outcome, lostBinding) ==
    LET now == [runner EXCEPT !.claimed = @ \cup {f}]
        marked == [runner.memory EXCEPT !.fixtures[f] = result]
    IN IF result = "cleaned"
       THEN Replace([now EXCEPT !.halted = outcome # "written"], marked, outcome, lostBinding)
       ELSE Replace([now EXCEPT !.halted = TRUE, !.pc = "report"], Quarantined(marked), outcome, lostBinding)

CleanFixture(result, outcome, lostBinding) ==
    /\ runner.pc = "clean"
    /\ Claimable # {}
    /\ IF CleanupAllowed
       THEN /\ transport' = Account(1)
            /\ cleanups' = Append(cleanups, NextFixture)
            /\ Settled(NextFixture, result, outcome, lostBinding)
       ELSE /\ result = "failed"
            /\ UNCHANGED <<transport, cleanups>>
            /\ Settled(NextFixture, "failed", outcome, lostBinding)
    /\ UNCHANGED <<policy, depends, dispatched, abandoned, openings>>

\* complete of the deferred store: only the report decides when it is written.
CleanupDone ==
    /\ runner.pc = "clean"
    /\ Claimable = {}
    /\ runner' = [runner EXCEPT !.pc = "persist"]
    /\ UNCHANGED <<policy, depends, runDisk, transport, cleanups, dispatched, abandoned, openings>>

\* complete: not when quarantined, and with every fixture cleaned.
MayComplete(record) ==
    /\ record.state # "quarantined"
    /\ \A f \in DOMAIN record.fixtures : record.fixtures[f] = "cleaned"

\* _persist_completion, after the report was built: publication is granted to the
\* process that writes the completed state, and no run is completed twice.
PersistCompletion(outcome, lostBinding) ==
    /\ runner.pc = "persist"
    /\ IF runner.store = "ephemeral"
       THEN /\ runner' = [runner EXCEPT !.memory.state = "completed", !.granted = TRUE,
                                        !.pc = "done", !.answer = "completed"]
            /\ UNCHANGED runDisk
       ELSE IF runner.memory.state = "failed" /\ MayComplete(runner.memory)
       THEN LET candidate == [runner.memory EXCEPT !.state = "completed"]
            IN IF outcome = "written"
               THEN /\ runDisk' = candidate
                    /\ runner' = [runner EXCEPT !.memory = candidate, !.granted = TRUE,
                                                !.pc = "done", !.answer = "completed"]
               ELSE Replace([runner EXCEPT !.halted = TRUE], candidate, outcome, lostBinding)
       ELSE /\ runner' = [runner EXCEPT !.halted = TRUE, !.pc = "failing"]
            /\ UNCHANGED runDisk
    /\ UNCHANGED <<policy, depends, transport, cleanups, dispatched, abandoned, openings>>

\* The report of a run that does not complete.
Report ==
    /\ runner.pc = "report"
    /\ runner' = [runner EXCEPT !.pc = "done", !.answer = runner.memory.state]
    /\ UNCHANGED <<policy, depends, runDisk, transport, cleanups, dispatched, abandoned, openings>>

-----------------------------------------------------------------------------
\* Anything unexpected ends in the except clauses of qualify_all.
UnexpectedError ==
    /\ runner.pc \in {"auth", "actions", "attempt", "audit", "fill", "report"}
    /\ runner' = [runner EXCEPT !.pc = "failing"]
    /\ UNCHANGED <<policy, depends, runDisk, transport, cleanups, dispatched, abandoned, openings>>

\* _runner_failure_records: what was sent has an unknown outcome.
FailureRecords ==
    [a \in Actions |->
        IF a \in runner.reached THEN "outcome_unknown"
        ELSE IF Executable(a) THEN "blocked" ELSE PolicyStatus(a)]

\* _terminalize_runner_failure: once a request was sent the run is quarantined, and
\* when that cannot be written qualify_all raises.
Terminalize(outcome, lostBinding) ==
    LET sent == transport.requests > 0
        answered == [runner EXCEPT !.pc = "done", !.records = FailureRecords,
                                   !.answer = IF sent THEN "quarantined" ELSE "failed",
                                   !.halted = @ \/ sent]
    IN /\ runner.pc = "failing"
       /\ IF ~sent \/ runner.store = "none"
          THEN runner' = answered /\ UNCHANGED runDisk
          ELSE IF runner.bound /\ (outcome = "written" \/ runner.memory.state = "quarantined")
          THEN Quarantine(answered, outcome, FALSE)
          ELSE /\ runDisk' = IF runner.bound /\ outcome = "torn" THEN Quarantined(runner.memory) ELSE runDisk
               /\ runner' = [runner EXCEPT !.pc = "done", !.answer = "raised", !.granted = FALSE]
       /\ UNCHANGED <<policy, depends, transport, cleanups, dispatched, abandoned, openings>>

\* The process dies, or is through; the run may be opened by another one.
Reopen(reads) ==
    /\ runner.pc # "new"
    /\ openings < MaxOpenings
    /\ openings' = openings + 1
    /\ abandoned' = (abandoned \/ runDisk.state = "failed")
    /\ runner' = [NewRunner EXCEPT !.reads = reads]
    /\ transport' = FreshTransport
    /\ cleanups' = <<>>
    /\ dispatched' = [a \in Actions |-> 0]
    /\ UNCHANGED <<policy, depends, runDisk>>

QualificationNext ==
    \/ \E outcome \in WriteOutcomes : SelectStore(outcome)
    \/ \E failure \in PreflightFailures : Preflight(failure)
    \/ \E sent \in 0..2, verified \in BOOLEAN : Authenticate(sent, verified)
    \/ \E readable \in BOOLEAN : LoadContracts(readable)
    \/ NextAction \/ ActionsDone \/ NotSent \/ BudgetExhausted \/ AuditRead
    \/ \E status \in Statuses, limited \in BOOLEAN : Sent(status, limited)
    \/ \E outcome \in WriteOutcomes, lostBinding \in BOOLEAN :
          \/ AuditLost(outcome, lostBinding) \/ RecordFixtures(outcome, lostBinding)
          \/ QuarantineCleanup(outcome, lostBinding) \/ PersistCompletion(outcome, lostBinding)
          \/ Terminalize(outcome, lostBinding)
          \/ \E result \in {"cleaned", "failed", "outcome_unknown"} : CleanFixture(result, outcome, lostBinding)
    \/ FillRecords \/ CleanupNotNeeded \/ CleanupRefused \/ CleanupDone \/ Report \/ UnexpectedError
    \/ \E reads \in BOOLEAN : Reopen(reads)

QualificationSpec == QualificationInit /\ [][QualificationNext]_qualificationVars

-----------------------------------------------------------------------------
\* What a run publishes is earned: the process that may publish, and no other,
\* completed the file, cleaned every fixture it registered, and knows and has
\* audited the outcome of every read it sent, each of them sent once.
PublicationEarned ==
    /\ runner.granted /\ runner.bound /\ runner.store = "file" =>
          /\ runDisk.state = "completed"
          /\ \A f \in DOMAIN depends : runDisk.fixtures[f] = "cleaned"
          /\ \A a \in Actions : dispatched[a] > 0 => runner.records[a] \in {"live_success", "live_failed"}
    /\ \A a \in Actions : dispatched[a] <= 1
    /\ runner.pc = "done" /\ runner.answer = "completed" => \A a \in Actions : runner.records[a] # "none"

\* A fixture is cleaned up once, and only after all that depend on it are clean.
FixturesCleanedInOrder ==
    \A i \in 1..Len(cleanups) :
        /\ \A j \in 1..Len(cleanups) : cleanups[i] = cleanups[j] => i = j
        /\ \A f \in DOMAIN depends : cleanups[i] \in depends[f] => \E j \in 1..(i - 1) : cleanups[j] = f

\* A quarantined run stays so for every process that opens it, and one that a
\* process left unfinished is never completed: it is quarantined by the next.
QuarantineIsFinal ==
    [][/\ runDisk.state = "quarantined" => runDisk'.state = "quarantined"
       /\ runDisk'.state = "completed" => ~abandoned
       /\ runner'.answer = "quarantined" /\ runner'.store = "file" => runDisk'.state = "quarantined"
      ]_qualificationVars

\* A qualification run is worth what it says: it publishes what it earned, leaves
\* the fixtures in order, and its quarantine holds.
QualificationSound == []PublicationEarned /\ []FixturesCleanedInOrder /\ QuarantineIsFinal
=============================================================================
