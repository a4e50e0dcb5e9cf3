---------------------------- MODULE RequestStore ----------------------------
(***************************************************************************)
(* LocalRequestStore (execution/store.py): the SQLite table of prepared    *)
(* mutations of one repository.  Every method runs under the repository    *)
(* lock and in one immediate transaction, so a method is one action.  A    *)
(* method that raises rolls its transaction back, including an expiry it   *)
(* had already written: only get and invalidate_pending make an expiry     *)
(* durable.  A call that is refused changes nothing and is not an action.  *)
(*                                                                         *)
(* A payload hash is the SHA-256 of the approval binding, so a hash is     *)
(* modelled by the binding it digests (no collisions): a record with at    *)
(* least the mutation class, the connector and the environment.            *)
(***************************************************************************)
EXTENDS Integers

CONSTANTS
    RequestIds,     \* "req_" + secrets.token_hex(16): never drawn twice
    Hashes,         \* approval bindings
    Classes,        \* MutationClass
    Connectors,
    Environments,
    TTL,            \* PREVIEW_TTL in clock units
    MaxTime         \* bound on the clock

ASSUME StoreAssumption ==
    /\ TTL \in Nat \ {0}
    /\ MaxTime \in Nat
    /\ \A h \in Hashes : /\ h.mutation_class \in Classes
                         /\ h.connector_id \in Connectors
                         /\ h.environment \in Environments

VARIABLES
    requests,       \* the table: a function from the stored ids to rows
    now             \* datetime.now(UTC)

storeVars == <<requests, now>>

PendingStates == {"previewed", "awaiting_confirmation", "ready_to_execute"}
ReplayBlockingStates == {"executing", "succeeded", "outcome_unknown"}
RequestState == PendingStates \cup ReplayBlockingStates \cup {"failed"}

(***************************************************************************)
(* The reasons a row is failed with.  "preview_invalidated" stands for the *)
(* five preview_... reasons the executor passes to invalidate.             *)
(***************************************************************************)
InvalidationReasons == {"audit_failed", "preview_invalidated"}
FailureReasons ==
    InvalidationReasons \cup
    {"none", "preview_expired", "credentials_cleared", "pre_dispatch_failed",
     "execution_failed", "outcome_unknown"}

Row == [payload_hash : Hashes, state : RequestState, expires_at : Nat,
        approval_count : {0, 1}, failure_reason : FailureReasons]

Stored == DOMAIN requests

-----------------------------------------------------------------------------
(***************************************************************************)
(* The private helpers the methods share.                                  *)
(***************************************************************************)
Expired(row) == row.state \in PendingStates /\ row.expires_at <= now

Failed(row, reason) == [row EXCEPT !.state = "failed", !.failure_reason = reason]

ExpireIfNeeded(row) == IF Expired(row) THEN Failed(row, "preview_expired") ELSE row

\* Deviation: the state is checked without looking at the clock.
LiveIgnoringExpiry(r, states) == r \in Stored /\ requests[r].state \in states

\* What _require_state sees: the row after a possible expiry.
Live(r, states) == r \in Stored /\ ExpireIfNeeded(requests[r]).state \in states

\* Deviation: an unknown outcome does not block a replay.
ReplayAllowedAfterUnknown(h, excluding) ==
    \A r \in Stored \ excluding :
        requests[r].payload_hash = h => requests[r].state \notin {"executing", "succeeded"}

\* _assert_replay_allowed, and the unique partial index on payload_hash that
\* makes the same refusal when the row is written.
ReplayAllowed(h, excluding) ==
    \A r \in Stored \ excluding :
        requests[r].payload_hash = h => requests[r].state \notin ReplayBlockingStates

Store(r, row) == requests' = [requests EXCEPT ![r] = row]

-----------------------------------------------------------------------------
(***************************************************************************)
(* The methods.                                                            *)
(***************************************************************************)
CreatePreview(r, h) ==
    /\ r \in RequestIds \ Stored
    /\ ReplayAllowed(h, {})
    /\ requests' = [x \in Stored \cup {r} |->
                      IF x = r
                      THEN [payload_hash |-> h, state |-> "awaiting_confirmation",
                            expires_at |-> now + TTL, approval_count |-> 0,
                            failure_reason |-> "none"]
                      ELSE requests[x]]
    /\ UNCHANGED now

Get(r) ==
    /\ r \in Stored
    /\ Store(r, ExpireIfNeeded(requests[r]))
    /\ UNCHANGED now

ApprovalCandidate(r, h, expected) ==
    /\ Live(r, {"awaiting_confirmation"})
    /\ requests[r].payload_hash = h
    /\ h.mutation_class = expected

Approve(r, h, expected) ==
    /\ ApprovalCandidate(r, h, expected)
    /\ Store(r, [requests[r] EXCEPT !.state = "ready_to_execute",
                                    !.approval_count = 1])
    /\ UNCHANGED now

\* Deviation: a finished request can be invalidated too.
InvalidateFinished(r, reason) ==
    /\ Live(r, PendingStates \cup {"succeeded"})
    /\ Store(r, Failed(requests[r], reason))
    /\ UNCHANGED now

Invalidate(r, reason) ==
    /\ Live(r, PendingStates)
    /\ Store(r, Failed(requests[r], reason))
    /\ UNCHANGED now

RequireReady(r) == Live(r, {"ready_to_execute"})

FailBeforeDispatch(r) ==
    /\ RequireReady(r)
    /\ Store(r, Failed(requests[r], "pre_dispatch_failed"))
    /\ UNCHANGED now

\* Deviation: start_execution relies on the check made at preview time.
StartExecutionUnchecked(r) ==
    /\ RequireReady(r)
    /\ Store(r, [requests[r] EXCEPT !.state = "executing"])
    /\ UNCHANGED now

StartExecution(r) ==
    /\ RequireReady(r)
    /\ ReplayAllowed(requests[r].payload_hash, {r})
    /\ Store(r, [requests[r] EXCEPT !.state = "executing"])
    /\ UNCHANGED now

CompletionReason(outcome) ==
    CASE outcome = "failed"          -> "execution_failed"
      [] outcome = "outcome_unknown" -> "outcome_unknown"
      [] OTHER                       -> "none"

Outcomes == {"succeeded", "failed", "outcome_unknown"}

\* complete does not look at the clock: an execution may end after its TTL.
Complete(r, outcome) ==
    /\ r \in Stored
    /\ requests[r].state = "executing"
    /\ Store(r, [requests[r] EXCEPT !.state = outcome,
                                    !.failure_reason = CompletionReason(outcome)])
    /\ UNCHANGED now

ResolveOutcomeUnknown(r, outcome) ==
    /\ r \in Stored
    /\ requests[r].state = "outcome_unknown"
    /\ outcome \in {"succeeded", "failed"}
    /\ Store(r, [requests[r] EXCEPT !.state = outcome,
                                    !.failure_reason = CompletionReason(outcome)])
    /\ UNCHANGED now

\* connectors and environments are singletons, or everything when the caller
\* leaves the argument out.
InScope(row, connectors, environments) ==
    /\ row.payload_hash.connector_id \in connectors
    /\ row.payload_hash.environment \in environments

InvalidatePending(connectors, environments) ==
    /\ requests' = [r \in Stored |->
         LET row == ExpireIfNeeded(requests[r])
         IN  IF row.state \in PendingStates /\ InScope(row, connectors, environments)
             THEN Failed(row, "credentials_cleared")
             ELSE row]
    /\ UNCHANGED now

Tick ==
    /\ now < MaxTime
    /\ now' = now + 1
    /\ UNCHANGED requests

-----------------------------------------------------------------------------
StoreInit == requests = [r \in {} |-> 0] /\ now = 0

Scopes(S) == {S} \cup {{x} : x \in S}

StoreOp ==
    \/ \E r \in RequestIds, h \in Hashes : CreatePreview(r, h)
    \/ \E r \in Stored : Get(r)
    \/ \E r \in Stored, h \in Hashes, c \in Classes : Approve(r, h, c)
    \/ \E r \in Stored, reason \in InvalidationReasons : Invalidate(r, reason)
    \/ \E r \in Stored : FailBeforeDispatch(r)
    \/ \E r \in Stored : StartExecution(r)
    \/ \E r \in Stored, o \in Outcomes : Complete(r, o)
    \/ \E r \in Stored, o \in Outcomes : ResolveOutcomeUnknown(r, o)
    \/ \E C \in Scopes(Connectors), E \in Scopes(Environments) : InvalidatePending(C, E)

StoreNext == StoreOp \/ Tick

StoreSpec == StoreInit /\ [][StoreNext]_storeVars
-----------------------------------------------------------------------------
(***************************************************************************)
(* Properties.                                                             *)
(***************************************************************************)

\* Every stored row is a well-formed row, and the clock is a natural number.
TypeOK ==
    /\ Stored \subseteq RequestIds
    /\ requests \in [Stored -> Row]
    /\ now \in Nat

\* PreparedRequest revalidates its state fields on every update; this is the
\* stronger fact the whole life cycle guarantees: nothing is executed without
\* its one approval, only a row that is not pending carries a reason, and a
\* success carries none.
StateFieldsValid ==
    \A r \in Stored :
        LET row == requests[r]
        IN  /\ row.state \in {"previewed", "awaiting_confirmation"} =>
                  row.approval_count = 0
            /\ row.state \in ReplayBlockingStates \cup {"ready_to_execute"} =>
                  row.approval_count = 1
            /\ (row.failure_reason = "none") <=>
                  (row.state \notin {"failed", "outcome_unknown"})

\* At most one request of a payload hash is executing, succeeded or of unknown
\* outcome.  It holds although create_preview lets several previews of one hash
\* coexist, and it is why the unique partial index never rejects a complete, a
\* resolve_outcome_unknown or an invalidate, which do not expect it to.
OneBlockingRequestPerHash ==
    \A r, s \in Stored :
        /\ requests[r].payload_hash = requests[s].payload_hash
        /\ requests[r].state \in ReplayBlockingStates
        /\ requests[s].state \in ReplayBlockingStates
        => r = s

\* A preview past its TTL is inert although most methods roll its expiry back
\* and leave it pending on disk: the only thing that ever happens to it is that
\* some later call records a failure.
ExpiredIsInert ==
    [][\A r \in Stored :
          Expired(requests[r]) =>
              requests'[r] = requests[r] \/ requests'[r].state = "failed"]_storeVars

\* A finished request is history: no call changes a succeeded or failed row or
\* removes any row, and no row changes its hash or its deadline.
HistoryIsImmutable ==
    [][\A r \in Stored :
          /\ r \in Stored'
          /\ requests[r].state \in {"succeeded", "failed"} => requests'[r] = requests[r]
          /\ requests'[r].payload_hash = requests[r].payload_hash
          /\ requests'[r].expires_at = requests[r].expires_at]_storeVars

(***************************************************************************)
(* The claims of the abstract write ledger are the replay-blocking rows.   *)
(***************************************************************************)
BlockingRows == {r \in Stored : requests[r].state \in ReplayBlockingStates}

AsClaim(r) == [request |-> r, hash |-> requests[r].payload_hash,
               state |-> requests[r].state]

Ledger == INSTANCE WriteLedger WITH claims <- {AsClaim(r) : r \in BlockingRows}

\* The store keeps the ledger's promise: a hash is claimed by one request at a
\* time, from before it is sent until a definite failure.
ImplementsLedger == Ledger!Spec
=============================================================================
