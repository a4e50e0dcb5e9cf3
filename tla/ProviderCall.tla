----------------------------- MODULE ProviderCall -----------------------------
(***************************************************************************)
(* One call to an accounting provider, from the hosted read service        *)
(* (execution/hosted/read_service.py) through the driver of the provider   *)
(* (providers/peak.py, flowaccount.py) to the MCP session of               *)
(* providers/streamable_mcp.py.  The request may be lost on the way or its *)
(* answer on the way back, the deadline may pass and the caller may be     *)
(* cancelled at every await; what is reported must say whether the         *)
(* provider may have seen the request.                                     *)
(***************************************************************************)
EXTENDS Naturals

CONSTANTS
    MaxAttempts,    \* _MAX_SAFE_READ_ATTEMPTS
    RetryDelay,     \* _RETRY_DELAYS
    Seconds         \* operation_seconds of the timeout class

ASSUME CallAssumption == MaxAttempts \in Nat /\ RetryDelay \in Nat /\ Seconds \in Nat

VARIABLES
    op,             \* what is called: a read of the service, a create, or the other methods
    stage,          \* where the call is
    attempt,        \* attempts of the read service so far
    now,            \* time since the deadline was set
    possible,       \* possible_dispatch of the running attempt
    known,          \* certainty of dispatch_state
    outcome,        \* status class and certainty of the result or error
    audited,        \* certainty in the audit event
    arrived         \* ghost: calls of the tool that reached the provider

callVars == <<op, stage, attempt, now, possible, known, outcome, audited, arrived>>

NotYet == [status |-> "none", certainty |-> "not_dispatched"]

CallInit ==
    /\ op \in {"read", "create", "validate", "discover"}
    /\ stage = "authorise"
    /\ attempt = 1
    /\ now = 0
    /\ possible = FALSE
    /\ known = "not_dispatched"
    /\ outcome = NotYet
    /\ audited = "none"
    /\ arrived = 0

Error(status, certainty) == [status |-> status, certainty |-> certainty]

Expired == now >= Seconds

\* Causes an attempt fails with: an HTTP status that wants new credentials, an
\* answer that is no MCP, a timeout, or anything else.
Causes == {"auth", "protocol", "timeout", "transport"}

\* _predispatch_error
PredispatchError(cause) ==
    Error([auth |-> "auth_required", protocol |-> "schema_changed", timeout |-> "timeout",
           transport |-> "unavailable"][cause], "not_dispatched")

\* _dispatched_read_error
DispatchedReadError(cause) ==
    Error([auth |-> "auth_required", protocol |-> "schema_changed", timeout |-> "unavailable",
           transport |-> "unavailable"][cause], "dispatched")

\* The handlers at the end of call: nobody knows what became of a create.
Failure(cause) ==
    IF ~possible THEN PredispatchError(cause)
    ELSE IF op = "create" THEN Error("outcome_unknown", "unknown")
    ELSE DispatchedReadError(cause)

\* _closed_runtime_error keeps an error that says itself whether it was sent.
OwnFailure(status, certainty) ==
    IF possible /\ op = "create" THEN Error("outcome_unknown", "unknown")
    ELSE Error(status, certainty)

\* PeakMCPDriver.validate_connection answers whatever else goes wrong so.
Invalid == Error("response_invalid", "not_dispatched")

-----------------------------------------------------------------------------
\* The stages of a call of the driver.
InCall == {"bind", "validate", "resource", "verify", "schemas", "serialise", "headers",
           "connect", "send", "answer", "answered", "close"}

Fails(error) ==
    /\ stage' = "failed"
    /\ outcome' = error
    /\ UNCHANGED <<op, attempt, now, known, audited>>

\* One stage of the way: the next one follows, or the error is what it is.
Step(from, to, statuses) ==
    /\ stage = from
    /\ \/ /\ ~Expired
          /\ stage' = to
          /\ UNCHANGED <<op, attempt, now, known, outcome, audited>>
       \/ \E status \in statuses : Fails(OwnFailure(status, "not_dispatched"))
    /\ UNCHANGED <<possible, arrived>>

\* The read ends before the provider's driver is asked.
Refused(status) ==
    /\ stage' = "ended"
    /\ outcome' = Error(status, known)
    /\ audited' = known
    /\ UNCHANGED <<op, attempt, now, possible, known, arrived>>

\* execute: membership, connection and the exact version that is asked for.
Authorise ==
    /\ stage = "authorise"
    /\ IF op = "read" /\ Expired THEN Refused("validation_failed")
       ELSE \/ stage' = "guard" /\ UNCHANGED <<op, attempt, now, possible, known, outcome,
                                               audited, arrived>>
            \/ op = "read" /\ \E status \in {"validation_failed", "capability_unavailable"} :
                                  Refused(status)

\* _call_read looks at the clock and whether the version was withdrawn meanwhile.
GuardCall ==
    /\ stage = "guard"
    /\ \/ /\ ~Expired
          /\ stage' = "bind"
          /\ possible' = FALSE
          /\ UNCHANGED <<op, attempt, now, known, outcome, audited, arrived>>
       \/ op = "read" /\ Refused("capability_unavailable")

\* The provider's own driver asserts the binding and adds its deadline.
AssertBinding == Step("bind", "validate", {"response_invalid"})

ValidateBinding == Step("validate", "resource", {"response_invalid", "auth_required"})

ResolveResource ==
    Step("resource", IF op = "discover" THEN "headers" ELSE "verify", {"unavailable"})

VerifyRuntimeBinding == Step("verify", "schemas", {"response_invalid"})

ResolveSchemas == Step("schemas", "serialise", {"response_invalid"})

SerialiseArguments == Step("serialise", "headers", {"response_invalid"})

RequestHeaders == Step("headers", "connect", {"auth_required"})

\* The session is opened and initialised; the protocol must be the manifest's.  What
\* opens it, and the list of tools a discovery asks for, are no call of a tool: the
\* certainty that is reported does not speak of them.
OpenSession ==
    Step("connect", IF op = "discover" THEN "answered" ELSE "send",
         {"schema_changed", "response_invalid"})

ConnectFails ==
    /\ stage = "connect"
    /\ \E cause \in Causes : Fails(Failure(cause))
    /\ UNCHANGED <<possible, arrived>>

\* possible_dispatch is set before call_tool; the request arrives or is lost.
Send ==
    /\ stage = "send"
    /\ ~Expired
    /\ stage' = "answer"
    /\ possible' = TRUE
    /\ arrived' \in {arrived, arrived + 1}
    /\ UNCHANGED <<op, attempt, now, known, outcome, audited>>

\* The provider answers, or the transport fails while the call waits.
Answer ==
    /\ stage = "answer"
    /\ arrived > 0
    /\ ~Expired
    /\ stage' = "answered"
    /\ UNCHANGED <<op, attempt, now, possible, known, outcome, audited, arrived>>

AnswerFails ==
    /\ stage = "answer"
    /\ \E cause \in Causes : Fails(Failure(cause))
    /\ UNCHANGED <<possible, arrived>>

\* _normalize_call or _normalize_discovery accepts the answer.
Normalise ==
    /\ stage = "answered"
    /\ ~Expired
    /\ stage' = "close"
    /\ outcome' = Error("success", IF op \in {"validate", "discover"} THEN "not_applicable"
                                   ELSE "dispatched")
    /\ UNCHANGED <<op, attempt, now, possible, known, audited, arrived>>

NormaliseFails(status) ==
    /\ stage = "answered"
    /\ \/ Fails(OwnFailure(status, IF op = "discover" THEN "not_dispatched" ELSE "dispatched"))
       \/ op = "validate" /\ Fails(Invalid)
    /\ UNCHANGED <<possible, arrived>>

\* The session is closed and the headers wiped, with a last look at the clock.
Close ==
    /\ stage = "close"
    /\ ~Expired
    /\ stage' = "returned"
    /\ UNCHANGED <<op, attempt, now, possible, known, outcome, audited, arrived>>

CloseFails ==
    /\ stage = "close"
    /\ \E cause \in Causes : Fails(Failure(cause))
    /\ UNCHANGED <<possible, arrived>>

\* Deviation: nothing bounds the wait for an answer.
ExpireElsewhere ==
    /\ Expired
    /\ \/ stage \in InCall \ {"answer"} /\ Fails(Failure("timeout"))
       \/ stage = "guard" /\ stage' = "ended" /\ outcome' = Error("validation_failed", known)
          /\ audited' = known /\ UNCHANGED <<op, attempt, now, known>>
    /\ UNCHANGED <<possible, arrived>>

\* asyncio.timeout_at or deadline.check, wherever the call is; at the head of
\* an attempt of the service the error is not the provider's.
Expire ==
    /\ Expired
    /\ \/ stage \in InCall /\ Fails(Failure("timeout"))
       \/ stage = "guard" /\ stage' = "ended" /\ outcome' = Error("validation_failed", known)
          /\ audited' = known /\ UNCHANGED <<op, attempt, now, known>>
    /\ UNCHANGED <<possible, arrived>>

-----------------------------------------------------------------------------
(***************************************************************************)
(* The read service                                                        *)
(***************************************************************************)
Strength(certainty) ==
    [not_applicable |-> 0, not_dispatched |-> 1, unknown |-> 2, dispatched |-> 3][certainty]

StrongerCertainty(x, y) == IF Strength(y) > Strength(x) THEN y ELSE x

\* _retryable_read_failure
Retryable(error) ==
    error.certainty = "not_dispatched" /\ error.status \in {"unavailable", "timeout"}

\* The service waits and tries again while there is time for it.
Retry ==
    /\ stage = "failed" /\ op = "read"
    /\ attempt < MaxAttempts
    /\ Retryable(outcome)
    /\ now + RetryDelay < Seconds
    /\ stage' = "guard"
    /\ attempt' = attempt + 1
    /\ known' = StrongerCertainty(known, outcome.certainty)
    /\ outcome' = NotYet
    /\ now' = now + RetryDelay
    /\ UNCHANGED <<op, possible, audited, arrived>>

\* The error is raised and audited with its own certainty (_terminal_status).
GiveUp ==
    /\ stage = "failed"
    /\ op = "read" =>
          attempt = MaxAttempts \/ ~Retryable(outcome) \/ now + RetryDelay >= Seconds
    /\ stage' = "ended"
    /\ known' = StrongerCertainty(known, outcome.certainty)
    /\ audited' = outcome.certainty
    /\ UNCHANGED <<op, attempt, now, possible, outcome, arrived>>

\* The result satisfies the catalog's schema and is projected.
Return ==
    /\ stage = "returned"
    /\ stage' = "ended"
    /\ known' = IF op = "read" THEN "dispatched" ELSE StrongerCertainty(known, outcome.certainty)
    /\ audited' = IF op = "read" THEN "dispatched" ELSE outcome.certainty
    /\ UNCHANGED <<op, attempt, now, possible, outcome, arrived>>

\* It does not: ProviderSchemaChanged, with what is known of the dispatch.
ReturnRejected ==
    /\ stage = "returned" /\ op = "read"
    /\ stage' = "ended"
    /\ known' = "dispatched"
    /\ outcome' = Error("schema_changed", "dispatched")
    /\ audited' = "dispatched"
    /\ UNCHANGED <<op, attempt, now, possible, arrived>>

\* Waiting for another attempt, nothing is under way.
CancelCertainty ==
    IF stage = "guard" THEN known ELSE StrongerCertainty(known, "unknown")

\* The caller is cancelled at an await: a create that may be out is answered
\* for all the same, everything else lets the cancellation through.
Cancelled ==
    /\ stage \in InCall \cup {"guard"}
    /\ IF op = "create" /\ possible
       THEN Fails(Error("outcome_unknown", "unknown"))
       ELSE /\ stage' = "ended"
            /\ outcome' = Error("cancelled", CancelCertainty)
            /\ known' = CancelCertainty
            /\ audited' = CancelCertainty
            /\ UNCHANGED <<op, attempt, now>>
    /\ UNCHANGED <<possible, arrived>>

Tick ==
    /\ ~Expired /\ stage # "ended"
    /\ now' = now + 1
    /\ UNCHANGED <<op, stage, attempt, possible, known, outcome, audited, arrived>>

CallNext ==
    \/ Authorise \/ GuardCall \/ AssertBinding \/ ValidateBinding \/ ResolveResource
    \/ VerifyRuntimeBinding \/ ResolveSchemas \/ SerialiseArguments \/ RequestHeaders
    \/ OpenSession \/ ConnectFails \/ Send \/ Answer \/ AnswerFails \/ Normalise
    \/ \E status \in {"response_invalid", "schema_changed"} : NormaliseFails(status)
    \/ Close \/ CloseFails \/ Expire
    \/ Retry \/ GiveUp \/ Return \/ ReturnRejected \/ Cancelled \/ Tick

\* Time passes and what the service does by itself is done; the catalog, the
\* network and the provider owe nothing.
CallFairness ==
    WF_callVars(Tick) /\ WF_callVars(Authorise) /\ WF_callVars(Expire) /\ WF_callVars(Retry \/ GiveUp \/ Return)

CallSpec == CallInit /\ [][CallNext]_callVars /\ CallFairness

-----------------------------------------------------------------------------
(***************************************************************************)
(* Properties                                                              *)
(***************************************************************************)
\* What a read or a create reports and what is audited never claims that nothing
\* was dispatched after the provider received the call, and a failed or cancelled
\* create that may have arrived is never reported as settled.
CertaintyTruthful ==
    stage = "ended" /\ op \in {"read", "create"} =>
        /\ arrived > 0 => /\ outcome.certainty \in {"unknown", "dispatched"}
                          /\ audited \in {"unknown", "dispatched"}
        /\ arrived > 0 /\ op = "create" => outcome.status \in {"success", "outcome_unknown"}

\* A retry of a read never calls the tool a second time: at most one call reaches
\* the provider, whatever times out in between.
SentAtMostOnce == arrived <= 1
=============================================================================
