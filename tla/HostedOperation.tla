-------------------------- MODULE HostedOperation --------------------------
(***************************************************************************)
(* A confirmed operation of the hosted server (execution/hosted/store.py   *)
(* over the functions of the operations migration): a parent row, one row  *)
(* for each document and an event for each transition.  Every transition   *)
(* is one transaction that compares the version its caller read; callers   *)
(* run concurrently, and an answer may be lost after the commit.           *)
(*                                                                         *)
(* A row is read back through the Python models, which check it: children  *)
(* must suit the parent, and the last event of each subject, in the order  *)
(* (occurred_at, id), must be the one of its present version.  Of times    *)
(* and event ids the model keeps what that check depends on: whether the   *)
(* last event of a subject bears the time of the operation's last update,  *)
(* and which version's event sorts last.                                   *)
(***************************************************************************)
EXTENDS Naturals, FiniteSets, OperationStates

CONSTANTS
    Items,          \* the documents of the operation
    Parent,         \* names the operation itself as the subject of a transition
    Workers,        \* callers of the store
    Idle,           \* the plan of a caller that has none
    Ties            \* whether a transition may bear the occurred_at of the one before

ASSUME OperationAssumption ==
    /\ Items # {}
    /\ Parent \notin Items
    /\ Ties \in (SUBSET BOOLEAN) \ {{}}

VARIABLES
    row,            \* state and version of the parent and of each item
    latest,         \* the version whose event sorts last among the subject's, 0: no event
    fresh,          \* the subjects whose last event has the time updated_at
    authority,      \* the connection and the qualification of the preview are current
    plan,           \* what each caller has read and decided
    dispatches      \* how often each item has entered dispatching

vars == <<row, latest, fresh, authority, plan, dispatches>>

Subjects == Items \cup {Parent}

Children == {row[i].state : i \in Items}

\* HostedOperation.from_preview, saved by save_mercury_operation: no item has
\* an event yet.
Init ==
    /\ row = [s \in Subjects |-> [state |-> "awaiting_confirmation", version |-> 1]]
    /\ latest = [s \in Subjects |-> IF s = Parent THEN 1 ELSE 0]
    /\ fresh = {Parent}
    /\ authority = TRUE
    /\ plan = [w \in Workers |-> Idle]
    /\ dispatches = [i \in Items |-> 0]

Allowed(s, t) ==
    IF s = Parent THEN SqlParentTransition(row[s].state, t, Children)
                  ELSE SqlItemTransition(row[s].state, t, row[Parent].state)

\* get_operation, and the caller's decision to move a subject it has seen: the
\* store takes any target.
Decide(w, s, t) ==
    /\ plan[w] = Idle
    /\ t # row[s].state /\ (s = Parent => t \in ParentStates)
    /\ plan' = [plan EXCEPT ![w] = [subject |-> s, expected |-> row[s].version,
                                    seen |-> row[s].state, target |-> t]]
    /\ UNCHANGED <<row, latest, fresh, authority, dispatches>>

\* The event of a transition: it sorts last, unless an event of the subject has
\* the same time and a greater id.
Record(s) ==
    \E tie \in Ties :
        /\ latest' \in {[latest EXCEPT ![s] = row[s].version + 1]}
                       \cup (IF tie /\ s \in fresh THEN {latest} ELSE {})
        /\ fresh' = {s} \cup (IF tie THEN fresh ELSE {})

\* Deviation: the version is not compared.
GuardsWithoutVersion(p) ==
    /\ p.subject = Parent /\ p.target = "dispatching" => authority
    /\ Allowed(p.subject, p.target)

\* Deviation: the authority was checked at the confirmation and is not again.
GuardsWithoutAuthority(p) ==
    /\ row[p.subject].version = p.expected
    /\ Allowed(p.subject, p.target)

Guards(p) ==
    /\ row[p.subject].version = p.expected
    /\ p.subject = Parent /\ p.target = "dispatching" => authority
    /\ Allowed(p.subject, p.target)

Moved(p) == [row EXCEPT ![p.subject] = [state |-> p.target, version |-> @.version + 1]]

\* transition_mercury_operation and transition_mercury_operation_item.  The
\* caller is answered, or it is not and tries the same call again.
Transition(w) ==
    /\ plan[w] # Idle
    /\ Guards(plan[w])
    /\ row' = Moved(plan[w])
    /\ Record(plan[w].subject)
    /\ dispatches' = [i \in Items |->
          IF i = plan[w].subject /\ plan[w].target = "dispatching"
          THEN dispatches[i] + 1 ELSE dispatches[i]]
    /\ plan' \in {plan, [plan EXCEPT ![w] = Idle]}
    /\ UNCHANGED authority

\* operation_state_stale, operation_transition_invalid or preview_binding_changed.
Refused(w) ==
    /\ plan[w] # Idle
    /\ ~Guards(plan[w])
    /\ plan' = [plan EXCEPT ![w] = Idle]
    /\ UNCHANGED <<row, latest, fresh, authority, dispatches>>

\* The caller dies or gives up.
Abandon(w) ==
    /\ plan[w] # Idle
    /\ plan' = [plan EXCEPT ![w] = Idle]
    /\ UNCHANGED <<row, latest, fresh, authority, dispatches>>

\* The connection is replaced, revoked or repaired, or the evidence of the
\* qualification runs out or is renewed.
AuthorityChanges ==
    /\ authority' = ~authority
    /\ UNCHANGED <<row, latest, fresh, plan, dispatches>>

Next ==
    \/ \E w \in Workers : \/ \E s \in Subjects, t \in ItemStates : Decide(w, s, t)
                          \/ Transition(w) \/ Refused(w) \/ Abandon(w)
    \/ AuthorityChanges

Spec == Init /\ [][Next]_vars

-----------------------------------------------------------------------------
(***************************************************************************)
(* Properties                                                              *)
(***************************************************************************)
\* What a caller can have in hand.
Plans == [subject : Subjects, expected : Nat, seen : ItemStates, target : ItemStates]

\* Every variable has its type.
OperationTypeOK ==
    /\ row \in [Subjects -> [state : ItemStates, version : Nat]]
    /\ row[Parent].state \in ParentStates
    /\ latest \in [Subjects -> Nat]
    /\ fresh \subseteq Subjects
    /\ authority \in BOOLEAN
    /\ plan \in [Workers -> Plans \cup {Idle}]
    /\ dispatches \in [Items -> Nat]

\* The functions of the migration do not look at the children when an item
\* moves, yet whatever they let callers store, the Python models can read: the
\* children always suit the parent.
OperationReadable == ChildrenCompatible(row[Parent].state, Children)

\* A document is handed to the provider at most once, whatever callers do at
\* once, retry or lose, and never before the parent was dispatched.
DispatchedOnce ==
    \A i \in Items :
        /\ dispatches[i] <= 1
        /\ row[i].state = "dispatching" => row[Parent].state = "dispatching"
        /\ row[i].state \in {"succeeded", "provider_rejected", "outcome_unknown",
                             "needs_manual_review"} => dispatches[i] = 1
        /\ row[i].state \in {"not_dispatched", "expired", "cancelled"} => dispatches[i] = 0

\* A transition is only made by a caller that has seen the very state it
\* replaces: none is made twice for one decision, and none on stale grounds.
DecidedOnSeenState ==
    [][\A s \in Subjects : row'[s] # row[s] =>
          \E w \in Workers :
             /\ plan[w] # Idle
             /\ plan[w].subject = s
             /\ plan[w].seen = row[s].state
             /\ plan[w].target = row'[s].state]_vars

\* Every dispatch of the operation, the one after a failure before dispatch
\* included, happens under the authority the preview was made with.
DispatchUnderAuthority ==
    [][row'[Parent].state = "dispatching" /\ row[Parent].state # "dispatching" => authority]_vars

\* The database and the Python models, hence the unit tests' store, decide the
\* same about every transition of every operation that can arise.
ContractsAgree ==
    \A t \in ItemStates :
        /\ SqlParentTransition(row[Parent].state, t, Children)
              <=> ParentTransitionAllowed(row[Parent].state, t, Children)
        /\ \A i \in Items : SqlItemTransition(row[i].state, t, row[Parent].state)
              <=> ItemTransitionAllowed(row[i].state, t, row[Parent].state)

\* InMemoryHostedPreviewStore is "Production-equivalent": what it returns after
\* a transition can be read from the tables as well, so the last event of every
\* subject is the one of its present version.
LatestEventCurrent ==
    \A s \in Subjects : latest[s] \in {0, row[s].version}
=============================================================================
