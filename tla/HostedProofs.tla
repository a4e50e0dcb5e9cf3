---------------------------- MODULE HostedProofs ----------------------------
(***************************************************************************)
(* What holds of hosted operations and of hosted previews, for any number  *)
(* of documents, callers, clients, requests, previews and operations.      *)
(***************************************************************************)
EXTENDS HostedOperation, HostedPreview, TLAPS

(***************************************************************************)
(* Hosted operations.                                                      *)
(***************************************************************************)

\* The rule for operations in the migration is the one in transitions.py, for
\* every pair of states and every set of children.
THEOREM ParentContractsAgree ==
    ASSUME NEW s \in ParentStates, NEW t \in ItemStates, NEW C \in SUBSET ItemStates
    PROVE  SqlParentTransition(s, t, C) <=> ParentTransitionAllowed(s, t, C)
BY DEF SqlParentTransition, ParentTransitionAllowed, ParentTransition, ParentStates, ItemStates,
       ItemTerminal

\* The rule for documents in the migration is the one in transitions.py.
THEOREM ItemContractsAgree ==
    ASSUME NEW s \in ItemStates, NEW t \in ItemStates, NEW parent \in ParentStates
    PROVE  SqlItemTransition(s, t, parent) <=> ItemTransitionAllowed(s, t, parent)
BY DEF SqlItemTransition, ItemTransitionAllowed, ItemTransition, ParentStates, ItemStates
-----------------------------------------------------------------------------
(***************************************************************************)
(* The inductive invariant.  Readable children are preserved only together *)
(* with the types; that no document is sent twice follows from counting a  *)
(* dispatch exactly in the states after it; and a caller whose version is  *)
(* still the present one has seen the present state.                       *)
(***************************************************************************)
SentStates ==
    {"dispatching", "succeeded", "provider_rejected", "outcome_unknown", "needs_manual_review"}

SentOnce ==
    \A i \in Items : dispatches[i] = IF row[i].state \in SentStates THEN 1 ELSE 0

PlansSound ==
    \A w \in Workers : plan[w] # Idle =>
        /\ plan[w].expected <= row[plan[w].subject].version
        /\ plan[w].expected = row[plan[w].subject].version =>
              plan[w].seen = row[plan[w].subject].state
        /\ plan[w].subject = Parent => plan[w].target \in ParentStates

OperationInv == OperationTypeOK /\ OperationReadable /\ SentOnce /\ PlansSound

LEMMA InitInv == Init => OperationInv
<1> SUFFICES ASSUME Init PROVE OperationInv
  OBVIOUS
<1> USE OperationAssumption
<1>1. OperationTypeOK
  BY DEF Init, OperationTypeOK, Subjects, ParentStates, ItemStates
<1>2. Children = {"awaiting_confirmation"}
  BY DEF Init, Children, Subjects
<1>3. OperationReadable
  <2>1. row[Parent].state = "awaiting_confirmation"
    BY DEF Init, Subjects
  <2> QED
    BY <1>2, <2>1 DEF OperationReadable, ChildrenCompatible, ParentStates
<1>4. SentOnce
  BY DEF Init, SentOnce, SentStates, Subjects
<1>5. PlansSound
  BY DEF Init, PlansSound
<1> QED
  BY <1>1, <1>3, <1>4, <1>5 DEF OperationInv

\* A move of the parent that the migration allows keeps the children suited.
LEMMA ParentMoveReadable ==
    ASSUME NEW s \in ParentStates, NEW t \in ParentStates, NEW C \in SUBSET ItemStates,
           C # {}, SqlParentTransition(s, t, C)
    PROVE  ChildrenCompatible(t, C)
BY DEF SqlParentTransition, ChildrenCompatible, ParentStates, ItemStates, ItemTerminal,
       DispatchRecovery

\* So does a move of one document, although the migration looks at no other.
LEMMA ItemMoveReadable ==
    ASSUME NEW p \in ParentStates, NEW s \in ItemStates, NEW t \in ItemStates,
           NEW C \in SUBSET ItemStates, NEW D \in SUBSET ItemStates,
           ChildrenCompatible(p, C), SqlItemTransition(s, t, p),
           D \subseteq C \cup {t}, t \in D
    PROVE  ChildrenCompatible(p, D)
<1>1. CASE p = "prepared" BY <1>1 DEF SqlItemTransition, ChildrenCompatible
<1>2. CASE p = "awaiting_confirmation" BY <1>2 DEF SqlItemTransition, ChildrenCompatible
<1>3. CASE p = "failed_pre_dispatch" BY <1>3 DEF SqlItemTransition, ChildrenCompatible
<1>4. CASE p = "dispatching"
  BY <1>4 DEF SqlItemTransition, ChildrenCompatible, DispatchRecovery
<1>5. CASE p = "outcome_unknown"
  BY <1>5 DEF SqlItemTransition, ChildrenCompatible, ItemTerminal
<1>6. CASE p \notin {"prepared", "awaiting_confirmation", "failed_pre_dispatch", "dispatching",
                     "outcome_unknown"}
  BY <1>6 DEF SqlItemTransition
<1> QED
  BY <1>1, <1>2, <1>3, <1>4, <1>5, <1>6

\* What Transition does to the rows, whatever the subject.
Effect(w) ==
    /\ plan[w] \in Plans
    /\ plan[w].subject \in Subjects
    /\ plan[w].target \in ItemStates
    /\ plan[w].seen = row[plan[w].subject].state
    /\ plan[w].subject = Parent => plan[w].target \in ParentStates
    /\ Allowed(plan[w].subject, plan[w].target)
    /\ row'[plan[w].subject] =
          [state |-> plan[w].target, version |-> row[plan[w].subject].version + 1]
    /\ \A u \in Subjects : u # plan[w].subject => row'[u] = row[u]
    /\ row' \in [Subjects -> [state : ItemStates, version : Nat]]

LEMMA TransitionMoves ==
    ASSUME OperationTypeOK, PlansSound, NEW w \in Workers, Transition(w)
    PROVE  Effect(w)
<1> DEFINE s == plan[w].subject
<1>1. plan[w] \in Plans
  BY DEF Transition, OperationTypeOK
<1>2. row[s].version = plan[w].expected /\ Allowed(s, plan[w].target)
  BY DEF Transition, Guards
<1>3. plan[w].seen = row[s].state /\ (s = Parent => plan[w].target \in ParentStates)
  BY <1>2 DEF PlansSound, Transition
<1>4. s \in Subjects /\ plan[w].target \in ItemStates
  BY <1>1 DEF Plans
<1>5. row[s] \in [state : ItemStates, version : Nat]
  BY <1>4 DEF OperationTypeOK
<1>6. row' = [row EXCEPT ![s] = [state |-> plan[w].target, version |-> row[s].version + 1]]
  BY <1>4 DEF Transition, Moved, OperationTypeOK
<1>7. [state |-> plan[w].target, version |-> row[s].version + 1] \in
         [state : ItemStates, version : Nat]
  BY <1>4, <1>5
<1>8. row' \in [Subjects -> [state : ItemStates, version : Nat]]
  BY <1>4, <1>6, <1>7 DEF OperationTypeOK
<1>9. row'[s] = [state |-> plan[w].target, version |-> row[s].version + 1]
  BY <1>4, <1>6 DEF OperationTypeOK
<1>10. \A u \in Subjects : u # s => row'[u] = row[u]
  BY <1>6 DEF OperationTypeOK
<1> QED
  BY <1>1, <1>2, <1>3, <1>4, <1>8, <1>9, <1>10 DEF Effect

LEMMA TransitionType ==
    ASSUME OperationTypeOK, PlansSound, NEW w \in Workers, Transition(w)
    PROVE  OperationTypeOK'
<1> DEFINE s == plan[w].subject
<1> USE OperationAssumption
<1>0. Effect(w)
  BY TransitionMoves
<1>1. s \in Subjects
  BY <1>0 DEF Effect
<1>2. row' \in [Subjects -> [state : ItemStates, version : Nat]]
  BY <1>0 DEF Effect
<1>3. row'[Parent].state \in ParentStates
  <2>1. CASE s = Parent
    <3>1. row'[Parent] = [state |-> plan[w].target, version |-> row[Parent].version + 1]
      BY <2>1, <1>0 DEF Effect
    <3> QED BY <3>1, <2>1, <1>0 DEF Effect
  <2>2. CASE s # Parent
    <3>1. row'[Parent] = row[Parent]
      BY <2>2, <1>0 DEF Effect, Subjects
    <3> QED BY <3>1 DEF OperationTypeOK
  <2> QED BY <2>1, <2>2
<1>4. row[s].version + 1 \in Nat
  BY <1>1 DEF OperationTypeOK
<1>5. latest' \in [Subjects -> Nat] /\ fresh' \subseteq Subjects
  BY <1>1, <1>4 DEF Transition, Record, OperationTypeOK
<1>6. dispatches' \in [Items -> Nat]
  BY DEF Transition, OperationTypeOK
<1>7. plan' \in [Workers -> Plans \cup {Idle}]
  BY DEF Transition, OperationTypeOK
<1> QED
  BY <1>2, <1>3, <1>5, <1>6, <1>7 DEF OperationTypeOK, Transition

LEMMA TransitionReadable ==
    ASSUME OperationInv, NEW w \in Workers, Transition(w)
    PROVE  OperationReadable'
<1> DEFINE s == plan[w].subject
           t == plan[w].target
<1> USE OperationAssumption
<1>0. OperationTypeOK /\ PlansSound
  BY DEF OperationInv
<1>e. Effect(w)
  BY <1>0, TransitionMoves
<1>1. s \in Subjects /\ t \in ItemStates
  BY <1>e DEF Effect
<1>2. row'[s].state = t /\ \A u \in Subjects \ {s} : row'[u] = row[u]
  BY <1>e DEF Effect
<1>3. Children \in SUBSET ItemStates /\ Children' \in SUBSET ItemStates
  <2>1. row \in [Subjects -> [state : ItemStates, version : Nat]]
    BY <1>0 DEF OperationTypeOK
  <2>2. row' \in [Subjects -> [state : ItemStates, version : Nat]]
    BY <1>e DEF Effect
  <2> QED BY <2>1, <2>2 DEF Children, Subjects
<1>4. row[Parent].state \in ParentStates /\ row[s].state \in ItemStates
  BY <1>0, <1>1 DEF OperationTypeOK
<1>5. CASE s = Parent
  <2>1. Children' = Children
    BY <1>2, <1>5 DEF Children, Subjects
  <2>2. SqlParentTransition(row[Parent].state, t, Children)
    BY <1>e, <1>5 DEF Effect, Allowed
  <2>3. t \in ParentStates /\ Children # {}
    BY <1>e, <1>5 DEF Effect, Children
  <2>4. ChildrenCompatible(t, Children)
    BY <1>3, <1>4, <2>2, <2>3, ParentMoveReadable
  <2> QED
    BY <1>2, <1>5, <2>1, <2>4 DEF OperationReadable
<1>6. CASE s # Parent
  <2>1. s \in Items
    BY <1>1, <1>6 DEF Subjects
  <2>2. row'[Parent] = row[Parent]
    BY <1>2, <1>6 DEF Subjects
  <2>3. SqlItemTransition(row[s].state, t, row[Parent].state)
    BY <1>e, <1>6 DEF Effect, Allowed
  <2>4. Children' \subseteq Children \cup {t} /\ t \in Children'
    BY <1>2, <2>1 DEF Children, Subjects
  <2>5. ChildrenCompatible(row[Parent].state, Children)
    BY DEF OperationInv, OperationReadable
  <2>6. ChildrenCompatible(row[Parent].state, Children')
    BY <1>1, <1>3, <1>4, <2>3, <2>4, <2>5, ItemMoveReadable
  <2> QED
    BY <2>2, <2>6 DEF OperationReadable
<1> QED
  BY <1>5, <1>6

LEMMA TransitionSentOnce ==
    ASSUME OperationInv, NEW w \in Workers, Transition(w)
    PROVE  SentOnce'
<1> DEFINE s == plan[w].subject
           t == plan[w].target
<1> USE OperationAssumption
<1>0. OperationTypeOK /\ PlansSound /\ SentOnce
  BY DEF OperationInv
<1>e. Effect(w)
  BY <1>0, TransitionMoves
<1>1. s \in Subjects
  BY <1>e DEF Effect
<1>2. row'[s].state = t /\ \A u \in Subjects \ {s} : row'[u] = row[u]
  BY <1>e DEF Effect
<1>3. SUFFICES ASSUME NEW i \in Items
               PROVE  dispatches'[i] = IF row'[i].state \in SentStates THEN 1 ELSE 0
  BY DEF SentOnce
<1>4. CASE i # s
  <2>1. row'[i] = row[i] /\ dispatches'[i] = dispatches[i]
    BY <1>2, <1>4 DEF Transition, Subjects
  <2> QED BY <2>1, <1>0 DEF SentOnce
<1>5. CASE i = s
  <2>1. SqlItemTransition(row[i].state, t, row[Parent].state)
    BY <1>e, <1>5 DEF Effect, Allowed
  <2>2. dispatches'[i] = IF t = "dispatching" THEN dispatches[i] + 1 ELSE dispatches[i]
    BY <1>5 DEF Transition
  <2>3. dispatches[i] = IF row[i].state \in SentStates THEN 1 ELSE 0
    BY <1>0 DEF SentOnce
  <2>4. t = "dispatching" => row[i].state \notin SentStates
    BY <2>1 DEF SqlItemTransition, SentStates
  <2>5. t # "dispatching" => (t \in SentStates <=> row[i].state \in SentStates)
    BY <2>1 DEF SqlItemTransition, SentStates
  <2>6. "dispatching" \in SentStates
    BY DEF SentStates
  <2> QED BY <1>2, <1>5, <2>2, <2>3, <2>4, <2>5, <2>6
<1> QED
  BY <1>4, <1>5

LEMMA TransitionPlans ==
    ASSUME OperationInv, NEW w \in Workers, Transition(w)
    PROVE  PlansSound'
<1> DEFINE s == plan[w].subject
<1>0. OperationTypeOK /\ PlansSound
  BY DEF OperationInv
<1>e. Effect(w)
  BY <1>0, TransitionMoves
<1>1. s \in Subjects
  BY <1>e DEF Effect
<1>2. row'[s].version = row[s].version + 1 /\ \A u \in Subjects \ {s} : row'[u] = row[u]
  BY <1>e DEF Effect
<1>3. SUFFICES ASSUME NEW v \in Workers, plan'[v] # Idle
               PROVE  /\ plan'[v].expected <= row'[plan'[v].subject].version
                      /\ plan'[v].expected = row'[plan'[v].subject].version =>
                            plan'[v].seen = row'[plan'[v].subject].state
                      /\ plan'[v].subject = Parent => plan'[v].target \in ParentStates
  BY DEF PlansSound
<1>4. plan'[v] = plan[v] /\ plan[v] # Idle /\ plan[v] \in Plans
  BY <1>0, <1>3 DEF Transition, OperationTypeOK
<1>5. plan[v].subject \in Subjects /\ plan[v].expected \in Nat
  BY <1>4 DEF Plans
<1>6. /\ plan[v].expected <= row[plan[v].subject].version
      /\ plan[v].expected = row[plan[v].subject].version =>
            plan[v].seen = row[plan[v].subject].state
      /\ plan[v].subject = Parent => plan[v].target \in ParentStates
  BY <1>0, <1>4 DEF PlansSound
<1>7. row[s].version \in Nat
  BY <1>0, <1>1 DEF OperationTypeOK
<1>8. CASE plan[v].subject = s
  BY <1>2, <1>4, <1>5, <1>6, <1>7, <1>8
<1>9. CASE plan[v].subject # s
  BY <1>2, <1>4, <1>5, <1>6, <1>9
<1> QED
  BY <1>8, <1>9

LEMMA NextInv == OperationInv /\ [Next]_vars => OperationInv'
<1> SUFFICES ASSUME OperationInv, [Next]_vars PROVE OperationInv'
  OBVIOUS
<1>0. OperationTypeOK /\ OperationReadable /\ SentOnce /\ PlansSound
  BY DEF OperationInv
<1>1. ASSUME NEW w \in Workers, NEW s \in Subjects, NEW t \in ItemStates, Decide(w, s, t)
      PROVE  OperationInv'
  <2> DEFINE p == [subject |-> s, expected |-> row[s].version, seen |-> row[s].state, target |-> t]
  <2>1. row[s] \in [state : ItemStates, version : Nat]
    BY <1>0 DEF OperationTypeOK
  <2>2. p \in Plans
    BY <2>1 DEF Plans
  <2>3. plan' = [plan EXCEPT ![w] = p] /\ row' = row /\ dispatches' = dispatches
    BY <1>1 DEF Decide
  <2>4. OperationTypeOK'
    BY <1>0, <1>1, <2>2, <2>3 DEF Decide, OperationTypeOK
  <2>5. OperationReadable' /\ SentOnce'
    BY <1>0, <2>3 DEF OperationReadable, Children, SentOnce
  <2>6. PlansSound'
    <3>1. SUFFICES ASSUME NEW v \in Workers, plan'[v] # Idle
                   PROVE  /\ plan'[v].expected <= row[plan'[v].subject].version
                          /\ plan'[v].expected = row[plan'[v].subject].version =>
                                plan'[v].seen = row[plan'[v].subject].state
                          /\ plan'[v].subject = Parent => plan'[v].target \in ParentStates
      BY <2>3 DEF PlansSound
    <3>2. CASE v = w
      <4>1. plan'[v] = p
        BY <3>2, <2>3, <1>0 DEF OperationTypeOK
      <4>2. s = Parent => t \in ParentStates
        BY <1>1 DEF Decide
      <4> QED BY <4>1, <4>2, <2>1
    <3>3. CASE v # w
      <4>1. plan'[v] = plan[v]
        BY <3>3, <2>3, <1>0 DEF OperationTypeOK
      <4> QED BY <4>1, <3>1, <1>0 DEF PlansSound
    <3> QED BY <3>2, <3>3
  <2> QED BY <2>4, <2>5, <2>6 DEF OperationInv
<1>2. ASSUME NEW w \in Workers, Transition(w) PROVE OperationInv'
  BY <1>0, <1>2, TransitionType, TransitionReadable, TransitionSentOnce, TransitionPlans
     DEF OperationInv
<1>3. ASSUME NEW w \in Workers, Refused(w) \/ Abandon(w) PROVE OperationInv'
  <2>1. plan' = [plan EXCEPT ![w] = Idle] /\ UNCHANGED <<row, latest, fresh, authority, dispatches>>
    BY <1>3 DEF Refused, Abandon
  <2>2. OperationTypeOK' /\ OperationReadable' /\ SentOnce'
    BY <1>0, <2>1 DEF OperationTypeOK, OperationReadable, Children, SentOnce
  <2>3. PlansSound'
    BY <1>0, <2>1 DEF PlansSound, OperationTypeOK
  <2> QED BY <2>2, <2>3 DEF OperationInv
<1>4. CASE AuthorityChanges
  BY <1>0, <1>4 DEF AuthorityChanges, OperationInv, OperationTypeOK, OperationReadable, Children,
                    SentOnce, PlansSound
<1>5. CASE UNCHANGED vars
  BY <1>0, <1>5 DEF vars, OperationInv, OperationTypeOK, OperationReadable, Children,
                    SentOnce, PlansSound
<1> QED
  BY <1>1, <1>2, <1>3, <1>4, <1>5 DEF Next

LEMMA OperationInvHolds == Spec => []OperationInv
BY InitInv, NextInv, PTL DEF Spec

-----------------------------------------------------------------------------
\* Every variable keeps its type in every run of the store.
THEOREM OperationTypes == Spec => []OperationTypeOK
BY OperationInvHolds, PTL DEF OperationInv

\* Whatever callers store through the migration's functions, the Python models
\* accept the parent and its children when they read it.
THEOREM OperationsReadable == Spec => []OperationReadable
BY OperationInvHolds, PTL DEF OperationInv

\* No document enters dispatching twice or outside a dispatched operation.
THEOREM DocumentsDispatchedOnce == Spec => []DispatchedOnce
<1>1. OperationInv => DispatchedOnce
  <2> SUFFICES ASSUME OperationInv, NEW i \in Items
               PROVE  /\ dispatches[i] <= 1
                      /\ row[i].state = "dispatching" => row[Parent].state = "dispatching"
                      /\ row[i].state \in {"succeeded", "provider_rejected", "outcome_unknown",
                                           "needs_manual_review"} => dispatches[i] = 1
                      /\ row[i].state \in {"not_dispatched", "expired", "cancelled"} =>
                            dispatches[i] = 0
    BY DEF DispatchedOnce
  <2>1. dispatches[i] = IF row[i].state \in SentStates THEN 1 ELSE 0
    BY DEF OperationInv, SentOnce
  <2>2. row[i].state \in Children
    BY DEF Children
  <2>3. ChildrenCompatible(row[Parent].state, Children)
    BY DEF OperationInv, OperationReadable
  <2>4. row[i].state = "dispatching" => row[Parent].state = "dispatching"
    BY <2>2, <2>3 DEF ChildrenCompatible, ParentStates, ItemTerminal
  <2> QED
    BY <2>1, <2>4 DEF SentStates
<1> QED
  BY <1>1, OperationInvHolds, PTL

\* The database and the Python models agree on every transition of every
\* operation that can arise.
THEOREM ContractsAgreeAlways == Spec => []ContractsAgree
<1>1. OperationInv => ContractsAgree
  <2> SUFFICES ASSUME OperationInv, NEW t \in ItemStates
               PROVE  /\ SqlParentTransition(row[Parent].state, t, Children)
                            <=> ParentTransitionAllowed(row[Parent].state, t, Children)
                      /\ \A i \in Items :
                            SqlItemTransition(row[i].state, t, row[Parent].state)
                               <=> ItemTransitionAllowed(row[i].state, t, row[Parent].state)
    BY DEF ContractsAgree
  <2>1. row[Parent].state \in ParentStates /\ \A i \in Items : row[i].state \in ItemStates
    BY DEF OperationInv, OperationTypeOK, Subjects
  <2>2. Children \in SUBSET ItemStates
    BY <2>1 DEF Children
  <2> QED
    BY <2>1, <2>2, ParentContractsAgree, ItemContractsAgree
<1> QED
  BY <1>1, OperationInvHolds, PTL

\* A transition is only made by a caller that has seen the state it replaces.
THEOREM DecisionsOnSeenState == Spec => DecidedOnSeenState
<1> DEFINE Decided == \A s \in Subjects : row'[s] # row[s] =>
                         \E w \in Workers :
                            /\ plan[w] # Idle
                            /\ plan[w].subject = s
                            /\ plan[w].seen = row[s].state
                            /\ plan[w].target = row'[s].state
<1>1. OperationInv /\ [Next]_vars => [Decided]_vars
  <2> SUFFICES ASSUME OperationInv, Next PROVE Decided
    OBVIOUS
  <2>1. CASE \E w \in Workers : Transition(w)
    <3>1. PICK w \in Workers : Transition(w)
      BY <2>1
    <3>2. Effect(w)
      BY <3>1, TransitionMoves DEF OperationInv
    <3>3. plan[w] # Idle
      BY <3>1 DEF Transition
    <3> QED
      BY <3>2, <3>3 DEF Effect
  <2>2. CASE row' = row
    BY <2>2
  <2> QED
    BY <2>1, <2>2 DEF Next, Decide, Refused, Abandon, AuthorityChanges
<1> QED
  BY <1>1, OperationInvHolds, PTL DEF Spec, DecidedOnSeenState

\* Every dispatch of the operation, a second one after a failure before dispatch
\* included, is made while the authority of its preview holds.
THEOREM DispatchesAuthorised == Spec => DispatchUnderAuthority
<1> DEFINE HeldAuthority ==
      row'[Parent].state = "dispatching" /\ row[Parent].state # "dispatching" => authority
<1>1. OperationInv /\ [Next]_vars => [HeldAuthority]_vars
  <2> SUFFICES ASSUME OperationInv, Next PROVE HeldAuthority
    OBVIOUS
  <2>1. CASE \E w \in Workers : Transition(w)
    <3>1. PICK w \in Workers : Transition(w)
      BY <2>1
    <3>2. Effect(w) /\ Guards(plan[w])
      BY <3>1, TransitionMoves DEF OperationInv, Transition
    <3> QED
      BY <3>2 DEF Effect, Guards, Subjects
  <2>2. CASE row' = row
    BY <2>2
  <2> QED
    BY <2>1, <2>2 DEF Next, Decide, Refused, Abandon, AuthorityChanges
<1> QED
  BY <1>1, OperationInvHolds, PTL DEF Spec, DispatchUnderAuthority

(***************************************************************************)
(* Hosted previews.                                                        *)
(***************************************************************************)

TaskType == [pc : {"idle", "find", "create", "recover", "confirm", "close"},
             request : Requests \cup {Missing}, revision : 0 .. MaxConnectionRevision,
             id : Previews \cup {Missing}, version : 0 .. 2,
             target : {"none", "expired", "cancelled"}, op : Operations \cup {Missing}]

\* What a client request being served knows.
TaskKnows(w) ==
    /\ task[w].pc \in {"find", "create", "recover"} =>
          task[w].request \in Requests /\ task[w].revision \in 1 .. MaxConnectionRevision
    /\ task[w].pc = "create" => task[w].id \in Previews /\ preview[task[w].id] = Missing
    /\ task[w].pc \in {"confirm", "close"} => task[w].id \in Stored
    /\ task[w].pc = "close" => task[w].target \in {"expired", "cancelled"}
    /\ task[w].pc = "confirm" => task[w].op \in Operations

\* The ids two workers draw differ, and an operation id drawn for a preview is
\* the operation of no other.
IdsApart ==
    /\ \A v, w \in Clients :
          /\ task[v].pc = "create" /\ task[w].pc = "create" /\ task[v].id = task[w].id => v = w
          /\ task[v].pc = "confirm" /\ task[w].pc = "confirm" /\ task[v].op = task[w].op => v = w
    /\ \A w \in Clients, p \in Previews :
          task[w].pc = "confirm" /\ operation[p] = task[w].op => p = task[w].id

PreviewInv ==
    /\ PreviewTypeOK
    /\ task \in [Clients -> TaskType]
    /\ \A w \in Clients : TaskKnows(w)
    /\ IdsApart
    /\ DocumentPreviewedOnce
    /\ AnswersAgree

LEMMA PreviewInvInit == PreviewInit => PreviewInv
  <1> SUFFICES ASSUME PreviewInit PROVE PreviewInv
    OBVIOUS
  <1> USE PreviewAssumption DEF PreviewInit
  <1>1. PreviewTypeOK
    BY DEF PreviewTypeOK, Stored
  <1>2. task \in [Clients -> TaskType]
    BY DEF NoTask, TaskType
  <1>3. \A w \in Clients : TaskKnows(w)
    BY DEF TaskKnows, NoTask
  <1>4. IdsApart
    BY DEF IdsApart, NoTask
  <1>5. DocumentPreviewedOnce /\ AnswersAgree
    BY DEF DocumentPreviewedOnce, AnswersAgree, AnswerIsWhatWasAsked, OneOperationPerPreview, Stored
  <1> QED BY <1>1, <1>2, <1>3, <1>4, <1>5 DEF PreviewInv

\* Steps that change no table: what the tasks know is all that can be disturbed.
LEMMA TablesKept ==
    ASSUME PreviewInv, UNCHANGED <<preview, operation>>,
           past \subseteq past', past' \subseteq Stored,
           revision' \in 1 .. MaxConnectionRevision, usable' \in BOOLEAN,
           task' \in [Clients -> TaskType],
           \A w \in Clients : TaskKnows(w)', IdsApart',
           prepared' \subseteq Requests \X Previews,
           \A a \in prepared' : a \in prepared \/ (a[2] \in Stored /\ preview[a[2]].request = a[1]),
           confirmed' \subseteq Previews \X Operations,
           \A c \in confirmed' : c \in confirmed \/ operation[c[1]] = c[2]
    PROVE  PreviewInv'
  <1>1. Stored' = Stored
    BY DEF Stored
  <1>2. PreviewTypeOK'
    BY <1>1 DEF PreviewInv, PreviewTypeOK
  <1>3. DocumentPreviewedOnce'
    BY <1>1 DEF PreviewInv, DocumentPreviewedOnce
  <1>4. AnswersAgree'
    BY <1>1 DEF PreviewInv, AnswersAgree, AnswerIsWhatWasAsked, OneOperationPerPreview
  <1> QED BY <1>2, <1>3, <1>4 DEF PreviewInv

LEMMA TaskForms ==
    ASSUME PreviewInv, NEW w \in Clients
    PROVE  /\ NoTask \in TaskType /\ NoTask.pc = "idle"
           /\ Done(w) => /\ task' \in [Clients -> TaskType] /\ task'[w] = NoTask
                         /\ \A v \in Clients \ {w} : task'[v] = task[v]
           /\ GoesTo(w, "recover") =>
                 /\ task' \in [Clients -> TaskType]
                 /\ task'[w].pc = "recover" /\ task'[w].request = task[w].request
                 /\ task'[w].revision = task[w].revision
                 /\ \A v \in Clients \ {w} : task'[v] = task[v]
  <1>1. task \in [Clients -> TaskType] /\ task[w] \in TaskType
    BY DEF PreviewInv
  <1>2. NoTask \in TaskType /\ NoTask.pc = "idle"
    BY PreviewAssumption DEF NoTask, TaskType
  <1>3. GoesTo(w, "recover") =>
                 /\ task' \in [Clients -> TaskType]
                 /\ task'[w].pc = "recover" /\ task'[w].request = task[w].request
                 /\ task'[w].revision = task[w].revision
                 /\ \A v \in Clients \ {w} : task'[v] = task[v]
    BY <1>1 DEF GoesTo, TaskType
  <1> QED BY <1>1, <1>2, <1>3 DEF Done

\* A task that is done knows nothing, so nothing it knew can be wrong.
LEMMA DoneKeeps ==
    ASSUME PreviewInv, NEW w \in Clients, Done(w), UNCHANGED <<preview, operation>>
    PROVE  /\ task' \in [Clients -> TaskType]
           /\ \A v \in Clients : TaskKnows(v)'
           /\ IdsApart'
  <1>1. /\ task' \in [Clients -> TaskType] /\ task'[w].pc = "idle"
        /\ \A v \in Clients \ {w} : task'[v] = task[v]
    BY TaskForms
  <1>2. Stored' = Stored
    BY DEF Stored
  <1>3. \A v \in Clients : TaskKnows(v)'
    BY <1>1, <1>2 DEF PreviewInv, TaskKnows
  <1>4. IdsApart'
    BY <1>1 DEF PreviewInv, IdsApart
  <1> QED BY <1>1, <1>3, <1>4

\* A task that goes on to look for what another stored.
LEMMA RecoverKeeps ==
    ASSUME PreviewInv, NEW w \in Clients, task[w].pc = "create", GoesTo(w, "recover"),
           UNCHANGED <<preview, operation>>
    PROVE  /\ task' \in [Clients -> TaskType]
           /\ \A v \in Clients : TaskKnows(v)'
           /\ IdsApart'
  <1>1. /\ task' \in [Clients -> TaskType]
        /\ task'[w].pc = "recover" /\ task'[w].request = task[w].request
        /\ task'[w].revision = task[w].revision
        /\ \A v \in Clients \ {w} : task'[v] = task[v]
    BY TaskForms
  <1>2. Stored' = Stored
    BY DEF Stored
  <1>3. \A v \in Clients : TaskKnows(v)'
    BY <1>1, <1>2 DEF PreviewInv, TaskKnows
  <1>4. IdsApart'
    BY <1>1 DEF PreviewInv, IdsApart
  <1> QED BY <1>1, <1>3, <1>4

\* Every answer from a stored preview, found before, in or after the insertion.
LEMMA AnswerExistingKeeps ==
    ASSUME PreviewInv, NEW w \in Clients, task[w].pc \in {"find", "create", "recover"},
           NEW p \in Existing(task[w].request), AnswerExisting(w, p)
    PROVE  PreviewInv'
  <1>1. /\ task' \in [Clients -> TaskType]
        /\ \A v \in Clients : TaskKnows(v)'
        /\ IdsApart'
    BY DoneKeeps DEF AnswerExisting
  <1>2. task[w].request \in Requests /\ p \in Stored /\ p \in Previews
    BY DEF PreviewInv, TaskKnows, Existing, Stored
  <1>3. /\ prepared' \subseteq Requests \X Previews
        /\ \A a \in prepared' : a \in prepared \/ (a[2] \in Stored /\ preview[a[2]].request = a[1])
    BY <1>2 DEF AnswerExisting, Recovered, PreviewInv, PreviewTypeOK
  <1>4. /\ past' = past /\ past \subseteq Stored /\ revision' = revision /\ usable' = usable
        /\ UNCHANGED <<preview, operation>> /\ confirmed' = confirmed
        /\ confirmed \subseteq Previews \X Operations
        /\ revision \in 1 .. MaxConnectionRevision /\ usable \in BOOLEAN
    BY DEF AnswerExisting, PreviewInv, PreviewTypeOK
  <1> QED BY <1>1, <1>3, <1>4, TablesKept

\* A task that begins is told what the tables say, and draws a fresh operation id.
LEMMA BeginKeeps ==
    ASSUME PreviewInv, NEW w \in Clients, NEW k \in TaskType, task[w] = NoTask,
           task' = [task EXCEPT ![w] = k],
           UNCHANGED <<preview, past, operation, revision, usable, prepared, confirmed>>,
           \/ /\ k.pc = "find" /\ k.request \in Requests /\ k.revision \in 1 .. MaxConnectionRevision
           \/ /\ k.pc = "confirm" /\ k.id \in Stored /\ k.op \in Unused
           \/ /\ k.pc = "close" /\ k.id \in Stored /\ k.target \in {"expired", "cancelled"}
    PROVE  PreviewInv'
  <1>1. task \in [Clients -> TaskType]
    BY DEF PreviewInv
  <1>2. task' \in [Clients -> TaskType] /\ task'[w] = k /\ \A v \in Clients \ {w} : task'[v] = task[v]
    BY <1>1
  <1>3. Stored' = Stored
    BY DEF Stored
  <1>4. \A v \in Clients : TaskKnows(v)'
    BY <1>2, <1>3 DEF PreviewInv, TaskKnows, Unused
  <1>5. IdsApart'
    BY <1>2 DEF PreviewInv, IdsApart, Unused
  <1>6. /\ past \subseteq Stored /\ prepared \subseteq Requests \X Previews
        /\ confirmed \subseteq Previews \X Operations
        /\ revision \in 1 .. MaxConnectionRevision /\ usable \in BOOLEAN
    BY DEF PreviewInv, PreviewTypeOK
  <1> QED BY <1>2, <1>4, <1>5, <1>6, TablesKept

LEMMA CreatePreviewKeeps ==
    ASSUME PreviewInv, NEW w \in Clients, CreatePreview(w)
    PROVE  PreviewInv'
  <1> DEFINE id == task[w].id
             made == [request |-> task[w].request, state |-> "awaiting_confirmation", version |-> 1,
                      revision |-> task[w].revision]
  <1>1. /\ task \in [Clients -> TaskType] /\ task[w].pc = "create"
        /\ task[w].request \in Requests /\ task[w].revision \in 1 .. MaxConnectionRevision
        /\ id \in Previews /\ preview[id] = Missing
    BY DEF PreviewInv, TaskKnows, CreatePreview
  <1>2. made \in Rows /\ made # Missing
    BY <1>1, PreviewAssumption DEF Rows
  <1>3. /\ preview' = [preview EXCEPT ![id] = made]
        /\ UNCHANGED <<past, operation, revision, usable, confirmed>>
        /\ ~Conflicts(task[w].request)
    BY DEF CreatePreview
  <1>4. /\ preview \in [Previews -> Rows \cup {Missing}]
        /\ preview' \in [Previews -> Rows \cup {Missing}] /\ preview'[id] = made
        /\ \A p \in Previews \ {id} : preview'[p] = preview[p]
    <2>1. preview \in [Previews -> Rows \cup {Missing}]
      BY DEF PreviewInv, PreviewTypeOK
    <2> QED BY <1>1, <1>2, <1>3, <2>1
  <1>5. Stored' = Stored \cup {id} /\ id \notin Stored
    <2> HIDE DEF made
    <2> QED BY <1>1, <1>2, <1>4 DEF Stored
  <1>6. made.request = task[w].request /\ made.state = "awaiting_confirmation" /\ made.version = 1
    OBVIOUS
  <1>7. \A p \in Stored : preview'[p] = preview[p]
    BY <1>4, <1>5 DEF Stored
  <1> HIDE DEF made
  <1>8. /\ task' \in [Clients -> TaskType]
        /\ \A v \in Clients \ {w} : task'[v] = task[v]
        /\ \/ task'[w].pc = "idle"
           \/ /\ task'[w].pc = "recover" /\ task'[w].request = task[w].request
              /\ task'[w].revision = task[w].revision
    BY TaskForms DEF CreatePreview
  <1>9. \A v \in Clients : TaskKnows(v)'
    <2> SUFFICES ASSUME NEW v \in Clients PROVE TaskKnows(v)'
      OBVIOUS
    <2>1. CASE v = w
      BY <1>1, <1>8, <2>1 DEF TaskKnows
    <2>2. CASE v # w
      <3>1. task'[v] = task[v] /\ TaskKnows(v)
        BY <1>8, <2>2 DEF PreviewInv
      <3>2. task[v].pc = "create" => task[v].id # id
        BY <1>1, <2>2 DEF PreviewInv, IdsApart
      <3> QED BY <1>4, <1>5, <3>1, <3>2 DEF TaskKnows
    <2> QED BY <2>1, <2>2
  <1>10. IdsApart'
    BY <1>3, <1>8 DEF PreviewInv, IdsApart
  <1>11. prepared' \subseteq prepared \cup {<<task[w].request, id>>}
    BY DEF CreatePreview
  <1>12. PreviewTypeOK'
    <2>1. \A p \in Stored' : preview'[p].version = 1 <=> preview'[p].state = "awaiting_confirmation"
      BY <1>4, <1>5, <1>6, <1>7 DEF PreviewInv, PreviewTypeOK
    <2>2. prepared' \subseteq Requests \X Previews
      BY <1>1, <1>11 DEF PreviewInv, PreviewTypeOK
    <2> QED BY <1>3, <1>4, <1>5, <1>8, <2>1, <2>2 DEF PreviewInv, PreviewTypeOK
  <1>13. DocumentPreviewedOnce'
    <2>1. \A p \in Stored : Docs[preview[p].request] \cap Docs[task[w].request] = {}
      BY <1>3 DEF Conflicts
    <2> QED BY <1>4, <1>5, <1>6, <1>7, <2>1 DEF PreviewInv, DocumentPreviewedOnce
  <1>14. AnswersAgree'
    <2>1. AnswerIsWhatWasAsked'
      BY <1>4, <1>5, <1>6, <1>7, <1>11 DEF PreviewInv, AnswersAgree, AnswerIsWhatWasAsked
    <2>2. operation[id] = Missing
      BY <1>1, <1>5 DEF PreviewInv, AnswersAgree, OneOperationPerPreview
    <2>3. OneOperationPerPreview'
      BY <1>3, <1>4, <1>5, <1>6, <1>7, <2>2 DEF PreviewInv, AnswersAgree, OneOperationPerPreview
    <2> QED BY <2>1, <2>3 DEF AnswersAgree
  <1> QED BY <1>8, <1>9, <1>10, <1>12, <1>13, <1>14 DEF PreviewInv

\* Writing state and version of a stored row moves no request and no other row.
LEMMA RowMoved ==
    ASSUME PreviewInv, NEW id \in Stored, preview[id].state = "awaiting_confirmation",
           NEW s \in {"confirmed", "expired", "cancelled"},
           preview' = [preview EXCEPT ![id].state = s, ![id].version = @ + 1]
    PROVE  /\ preview' \in [Previews -> Rows \cup {Missing}]
           /\ Stored' = Stored
           /\ preview'[id].state = s /\ preview'[id].version = 2
           /\ \A p \in Previews \ {id} : preview'[p] = preview[p]
           /\ \A p \in Stored : preview'[p].request = preview[p].request
  <1>1. /\ preview \in [Previews -> Rows \cup {Missing}] /\ id \in Previews
        /\ preview[id] # Missing /\ preview[id].version = 1
    BY DEF PreviewInv, PreviewTypeOK, Stored
  <1>2. preview[id] \in Rows
    BY <1>1
  <1>3. preview'[id] = [preview[id] EXCEPT !.state = s, !.version = @ + 1]
    BY <1>1
  <1>4. /\ preview'[id] \in Rows /\ preview'[id].state = s /\ preview'[id].version = 2
        /\ preview'[id].request = preview[id].request
    BY <1>1, <1>2, <1>3 DEF Rows
  <1>5. \A p \in Previews \ {id} : preview'[p] = preview[p]
    BY <1>1
  <1>6. preview' \in [Previews -> Rows \cup {Missing}]
    BY <1>1, <1>4, <1>5
  <1>7. Stored' = Stored
    BY <1>1, <1>4, <1>5, PreviewAssumption DEF Stored
  <1> QED BY <1>4, <1>5, <1>6, <1>7 DEF Stored

LEMMA CreateOperationKeeps ==
    ASSUME PreviewInv, NEW w \in Clients, CreateOperation(w)
    PROVE  PreviewInv'
  <1> DEFINE id == task[w].id
  <1>1. /\ task \in [Clients -> TaskType] /\ task[w].pc = "confirm"
        /\ id \in Stored /\ id \in Previews /\ task[w].op \in Operations
    BY DEF PreviewInv, TaskKnows, CreateOperation, Stored
  <1>2. task' = task \/ (task' \in [Clients -> TaskType] /\ task'[w].pc = "idle"
                           /\ \A v \in Clients \ {w} : task'[v] = task[v])
    BY TaskForms DEF CreateOperation, AnswerOperation
  <1>3. /\ UNCHANGED <<past, revision, usable, prepared>>
        /\ past \subseteq Stored /\ prepared \subseteq Requests \X Previews
        /\ confirmed \subseteq Previews \X Operations
        /\ revision \in 1 .. MaxConnectionRevision /\ usable \in BOOLEAN
        /\ operation \in [Previews -> Operations \cup {Missing}]
    BY DEF CreateOperation, PreviewInv, PreviewTypeOK
  <1>4. CASE /\ operation[id] # Missing
             /\ AnswerOperation(w, ExistingOperation(w))
             /\ UNCHANGED <<preview, operation>>
    <2>1. Stored' = Stored
      BY <1>4 DEF Stored
    <2>2. /\ task' \in [Clients -> TaskType]
          /\ \A v \in Clients : TaskKnows(v)'
          /\ IdsApart'
      BY <1>1, <1>2, <1>4, <2>1 DEF PreviewInv, TaskKnows, IdsApart
    <2>3. /\ confirmed' \subseteq Previews \X Operations
          /\ \A c \in confirmed' : c \in confirmed \/ operation[c[1]] = c[2]
      BY <1>1, <1>3, <1>4 DEF AnswerOperation, ExistingOperation
    <2> QED BY <1>3, <1>4, <2>2, <2>3, TablesKept
  <1>5. CASE /\ operation[id] = Missing
             /\ Confirmable(w)
             /\ preview' = [preview EXCEPT ![id].state = "confirmed", ![id].version = @ + 1]
             /\ operation' = [operation EXCEPT ![id] = task[w].op]
             /\ AnswerOperation(w, task[w].op)
    <2>1. preview[id].state = "awaiting_confirmation"
      BY <1>5 DEF Confirmable
    <2>2. /\ preview' \in [Previews -> Rows \cup {Missing}]
          /\ Stored' = Stored
          /\ preview'[id].state = "confirmed" /\ preview'[id].version = 2
          /\ \A p \in Previews \ {id} : preview'[p] = preview[p]
          /\ \A p \in Stored : preview'[p].request = preview[p].request
      BY <1>1, <1>5, <2>1, RowMoved
    <2>3. /\ operation' \in [Previews -> Operations \cup {Missing}]
          /\ operation'[id] = task[w].op /\ task[w].op # Missing
          /\ \A p \in Previews \ {id} : operation'[p] = operation[p]
      BY <1>1, <1>3, <1>5, PreviewAssumption
    <2>4. \A p \in Previews : operation[p] # task[w].op
      BY <1>1, <1>5, <2>3 DEF PreviewInv, IdsApart
    <2>5. \A v \in Clients : TaskKnows(v)'
      <3> SUFFICES ASSUME NEW v \in Clients PROVE TaskKnows(v)'
        OBVIOUS
      <3>1. task'[v] = task[v] \/ task'[v].pc = "idle"
        BY <1>2
      <3>2. TaskKnows(v)
        BY DEF PreviewInv
      <3>3. task[v].pc = "create" => preview'[task[v].id] = preview[task[v].id]
        BY <1>1, <2>2, <3>2 DEF TaskKnows, Stored
      <3> QED BY <2>2, <3>1, <3>2, <3>3 DEF TaskKnows
    <2>6. IdsApart'
      BY <1>1, <1>2, <2>3 DEF PreviewInv, IdsApart
    <2>7. confirmed' \subseteq confirmed \cup {<<id, task[w].op>>}
      BY <1>5 DEF AnswerOperation
    <2>8. PreviewTypeOK'
      <3>1. \A p \in Stored' : preview'[p].version = 1 <=> preview'[p].state = "awaiting_confirmation"
        BY <2>2 DEF PreviewInv, PreviewTypeOK, Stored
      <3>2. confirmed' \subseteq Previews \X Operations
        BY <1>1, <1>3, <2>7
      <3>3. DOMAIN task' = Clients
        BY <1>1, <1>2
      <3> QED BY <1>3, <2>2, <2>3, <3>1, <3>2, <3>3 DEF PreviewTypeOK
    <2>9. DocumentPreviewedOnce'
      BY <2>2 DEF PreviewInv, DocumentPreviewedOnce
    <2>10. AnswersAgree'
      <3>1. AnswerIsWhatWasAsked'
        BY <1>3, <2>2 DEF PreviewInv, AnswersAgree, AnswerIsWhatWasAsked
      <3>2. \A c \in confirmed' : operation'[c[1]] = c[2]
        <4> SUFFICES ASSUME NEW c \in confirmed' PROVE operation'[c[1]] = c[2]
          OBVIOUS
        <4>1. CASE c = <<id, task[w].op>>
          BY <2>3, <4>1
        <4>2. CASE c \in confirmed
          <5>1. c[1] \in Previews /\ c[2] \in Operations /\ operation[c[1]] = c[2]
            BY <1>3, <4>2 DEF PreviewInv, AnswersAgree, OneOperationPerPreview
          <5>2. c[1] # id
            BY <1>5, <5>1, PreviewAssumption
          <5> QED BY <2>3, <5>1, <5>2
        <4> QED BY <2>7, <4>1, <4>2
      <3>3. \A p \in Previews :
               operation'[p] # Missing <=> p \in Stored' /\ preview'[p].state = "confirmed"
        BY <1>1, <2>2, <2>3 DEF PreviewInv, AnswersAgree, OneOperationPerPreview
      <3>4. \A p, q \in Previews : operation'[p] = operation'[q] /\ p # q => operation'[p] = Missing
        BY <2>3, <2>4 DEF PreviewInv, AnswersAgree, OneOperationPerPreview
      <3> QED BY <3>1, <3>2, <3>3, <3>4 DEF AnswersAgree, OneOperationPerPreview
    <2> QED BY <1>1, <1>2, <2>5, <2>6, <2>8, <2>9, <2>10 DEF PreviewInv
  <1> QED BY <1>4, <1>5 DEF CreateOperation

LEMMA TransitionPreviewKeeps ==
    ASSUME PreviewInv, NEW w \in Clients, TransitionPreview(w)
    PROVE  PreviewInv'
  <1> DEFINE id == task[w].id
  <1>1. /\ task \in [Clients -> TaskType] /\ task[w].pc = "close"
        /\ id \in Stored /\ id \in Previews /\ task[w].target \in {"expired", "cancelled"}
        /\ preview[id].state = "awaiting_confirmation"
    BY DEF PreviewInv, TaskKnows, TransitionPreview, PreviewTransitions, Stored
  <1>2. task' = task \/ (task' \in [Clients -> TaskType] /\ task'[w].pc = "idle"
                           /\ \A v \in Clients \ {w} : task'[v] = task[v])
    BY TaskForms DEF TransitionPreview
  <1>3. UNCHANGED <<past, operation, revision, usable, prepared, confirmed>>
    BY DEF TransitionPreview
  <1>4. /\ preview' \in [Previews -> Rows \cup {Missing}]
        /\ Stored' = Stored
        /\ preview'[id].state = task[w].target /\ preview'[id].version = 2
        /\ \A p \in Previews \ {id} : preview'[p] = preview[p]
        /\ \A p \in Stored : preview'[p].request = preview[p].request
    <2>1. preview' = [preview EXCEPT ![id].state = task[w].target, ![id].version = @ + 1]
      BY DEF TransitionPreview
    <2> QED BY <1>1, <2>1, RowMoved
  <1>5. \A v \in Clients : TaskKnows(v)'
    <2> SUFFICES ASSUME NEW v \in Clients PROVE TaskKnows(v)'
      OBVIOUS
    <2>1. task'[v] = task[v] \/ task'[v].pc = "idle"
      BY <1>2
    <2>2. TaskKnows(v)
      BY DEF PreviewInv
    <2>3. task[v].pc = "create" => preview'[task[v].id] = preview[task[v].id]
      BY <1>1, <1>4, <2>2 DEF TaskKnows, Stored
    <2> QED BY <1>4, <2>1, <2>2, <2>3 DEF TaskKnows
  <1>6. IdsApart'
    BY <1>1, <1>2, <1>3 DEF PreviewInv, IdsApart
  <1>7. PreviewTypeOK'
    <2>1. \A p \in Stored' : preview'[p].version = 1 <=> preview'[p].state = "awaiting_confirmation"
      BY <1>1, <1>4 DEF PreviewInv, PreviewTypeOK, Stored
    <2>2. DOMAIN task' = Clients
      BY <1>1, <1>2
    <2> QED BY <1>3, <1>4, <2>1, <2>2 DEF PreviewInv, PreviewTypeOK
  <1>8. DocumentPreviewedOnce'
    BY <1>4 DEF PreviewInv, DocumentPreviewedOnce
  <1>9. AnswersAgree'
    <2>1. AnswerIsWhatWasAsked'
      BY <1>3, <1>4 DEF PreviewInv, AnswersAgree, AnswerIsWhatWasAsked
    <2>2. \A p \in Previews :
               operation'[p] # Missing <=> p \in Stored' /\ preview'[p].state = "confirmed"
      BY <1>1, <1>3, <1>4 DEF PreviewInv, AnswersAgree, OneOperationPerPreview
    <2> QED BY <1>3, <2>1, <2>2 DEF PreviewInv, AnswersAgree, OneOperationPerPreview
  <1> QED BY <1>1, <1>2, <1>5, <1>6, <1>7, <1>8, <1>9 DEF PreviewInv

\* Every step keeps the inductive invariant.
LEMMA PreviewInvNext == PreviewInv /\ [PreviewNext]_previewVars => PreviewInv'
  <1> SUFFICES ASSUME PreviewInv, [PreviewNext]_previewVars PROVE PreviewInv'
    OBVIOUS
  <1>1. /\ past \subseteq Stored /\ prepared \subseteq Requests \X Previews
        /\ confirmed \subseteq Previews \X Operations
        /\ revision \in 1 .. MaxConnectionRevision /\ usable \in BOOLEAN
        /\ task \in [Clients -> TaskType]
    BY DEF PreviewInv, PreviewTypeOK
  <1>2. ASSUME UNCHANGED <<preview, operation, task>>
        PROVE  (\A w \in Clients : TaskKnows(w)') /\ IdsApart'
    BY <1>2 DEF PreviewInv, TaskKnows, IdsApart, Stored
  <1>3. ASSUME NEW w \in Clients, NEW r \in Requests, PrepareBegin(w, r) PROVE PreviewInv'
    <2> DEFINE k == [NoTask EXCEPT !.pc = "find", !.request = r, !.revision = revision]
    <2>1. /\ k \in TaskType /\ k.pc = "find" /\ k.request \in Requests
          /\ k.revision \in 1 .. MaxConnectionRevision
      <3> DEFINE a == [NoTask EXCEPT !.pc = "find", !.request = r]
      <3>1. /\ a \in TaskType /\ a.pc = "find" /\ a.request = r
            /\ k = [a EXCEPT !.revision = revision]
        BY TaskForms DEF TaskType
      <3>2. revision \in 0 .. MaxConnectionRevision
        BY <1>1, PreviewAssumption
      <3> HIDE DEF a, k
      <3> QED BY <1>1, PreviewAssumption, <3>1, <3>2 DEF TaskType
    <2>2. /\ task[w] = NoTask /\ task' = [task EXCEPT ![w] = k]
          /\ UNCHANGED <<preview, past, operation, revision, usable, prepared, confirmed>>
      BY <1>3 DEF PrepareBegin
    <2> HIDE DEF k
    <2> QED BY <2>1, <2>2, BeginKeeps
  <1>4. ASSUME NEW w \in Clients, FindExisting(w) PROVE PreviewInv'
    BY <1>4, AnswerExistingKeeps DEF FindExisting
  <1>5. ASSUME NEW w \in Clients, NEW p \in Previews, FindNothing(w, p) PROVE PreviewInv'
    <2>1. /\ task[w].pc = "find" /\ preview[p] = Missing
          /\ \A u \in Clients : task[u].pc = "create" => task[u].id # p
          /\ task' = [task EXCEPT ![w].pc = "create", ![w].id = p]
          /\ UNCHANGED <<preview, past, operation, revision, usable, prepared, confirmed>>
      BY <1>5 DEF FindNothing
    <2>2. task[w] \in TaskType /\ task'[w] = [task[w] EXCEPT !.pc = "create", !.id = p]
      BY <1>1, <2>1
    <2>3. /\ task'[w] \in TaskType /\ task'[w].pc = "create" /\ task'[w].id = p
          /\ task'[w].request = task[w].request /\ task'[w].revision = task[w].revision
      BY <2>2 DEF TaskType
    <2>4. \A v \in Clients \ {w} : task'[v] = task[v]
      BY <1>1, <2>1
    <2>5. task' \in [Clients -> TaskType]
      BY <1>1, <2>1, <2>3, <2>4
    <2>6. Stored' = Stored
      BY <2>1 DEF Stored
    <2>7. \A v \in Clients : TaskKnows(v)'
      BY <2>1, <2>3, <2>4, <2>6 DEF PreviewInv, TaskKnows
    <2>8. IdsApart'
      BY <2>1, <2>3, <2>4 DEF PreviewInv, IdsApart
    <2> QED BY <1>1, <2>1, <2>5, <2>7, <2>8, TablesKept
  <1>6. ASSUME NEW w \in Clients, CreateReturnsExisting(w) PROVE PreviewInv'
    BY <1>6, AnswerExistingKeeps DEF CreateReturnsExisting
  <1>7. ASSUME NEW w \in Clients, CreateFails(w) PROVE PreviewInv'
    BY <1>1, <1>7, RecoverKeeps, TablesKept DEF CreateFails
  <1>8. ASSUME NEW w \in Clients, RecoverPreview(w) PROVE PreviewInv'
    BY <1>8, AnswerExistingKeeps DEF RecoverPreview
  <1>9. ASSUME NEW w \in Clients, AbandonCall(w) PROVE PreviewInv'
    BY <1>1, <1>9, DoneKeeps, TablesKept DEF AbandonCall
  <1>10. ASSUME NEW w \in Clients, NEW p \in Previews, NEW o \in Operations,
                LoadConfirmable(w, p, o)
         PROVE  PreviewInv'
    <2> DEFINE k == [NoTask EXCEPT !.pc = "confirm", !.id = p, !.op = o,
                                   !.version = preview[p].version]
    <2>1. /\ p \in Stored /\ o \in Unused /\ task[w] = NoTask
          /\ task' = [task EXCEPT ![w] = k]
          /\ UNCHANGED <<preview, past, operation, revision, usable, prepared, confirmed>>
      BY <1>10 DEF LoadConfirmable
    <2>2. preview[p].version \in 1 .. 2
      BY <2>1 DEF PreviewInv, PreviewTypeOK, Rows, Stored
    <2>3. k \in TaskType /\ k.pc = "confirm" /\ k.id = p /\ k.op = o
      <3> DEFINE a == [NoTask EXCEPT !.pc = "confirm", !.id = p]
      <3>1. /\ a \in TaskType /\ a.pc = "confirm" /\ a.id = p
            /\ k = [a EXCEPT !.op = o, !.version = preview[p].version]
        BY TaskForms DEF TaskType
      <3>2. preview[p].version \in 0 .. 2
        BY <2>2
      <3> HIDE DEF a, k
      <3> QED BY <2>2, <3>1, <3>2 DEF TaskType
    <2> HIDE DEF k
    <2> QED BY <2>1, <2>3, BeginKeeps
  <1>11. ASSUME NEW w \in Clients, NEW p \in Previews, NEW t \in {"expired", "cancelled"},
                CloseBegin(w, p, t)
         PROVE  PreviewInv'
    <2> DEFINE k == [NoTask EXCEPT !.pc = "close", !.id = p, !.target = t,
                                   !.version = preview[p].version]
    <2>1. /\ p \in Stored /\ task[w] = NoTask
          /\ task' = [task EXCEPT ![w] = k]
          /\ UNCHANGED <<preview, past, operation, revision, usable, prepared, confirmed>>
      BY <1>11 DEF CloseBegin
    <2>2. preview[p].version \in 1 .. 2
      BY <2>1 DEF PreviewInv, PreviewTypeOK, Rows, Stored
    <2>3. k \in TaskType /\ k.pc = "close" /\ k.id = p /\ k.target = t
      <3> DEFINE a == [NoTask EXCEPT !.pc = "close", !.id = p]
      <3>1. /\ a \in TaskType /\ a.pc = "close" /\ a.id = p
            /\ k = [a EXCEPT !.target = t, !.version = preview[p].version]
        BY TaskForms DEF TaskType
      <3>2. preview[p].version \in 0 .. 2
        BY <2>2
      <3> HIDE DEF a, k
      <3> QED BY <2>2, <3>1, <3>2 DEF TaskType
    <2> HIDE DEF k
    <2> QED BY <2>1, <2>3, BeginKeeps
  <1>12. ASSUME NEW p \in Previews, LifetimeEnds(p) PROVE PreviewInv'
    BY <1>1, <1>2, <1>12, TablesKept DEF LifetimeEnds
  <1>13. CASE Reconnect
    <2>1. /\ UNCHANGED <<preview, past, operation, usable, task, prepared, confirmed>>
          /\ revision' \in 1 .. MaxConnectionRevision
      BY <1>1, <1>13, PreviewAssumption DEF Reconnect
    <2> QED BY <1>1, <1>2, <2>1, TablesKept
  <1>14. CASE UsabilityChanges
    <2>1. /\ UNCHANGED <<preview, past, operation, revision, task, prepared, confirmed>>
          /\ usable' \in BOOLEAN
      BY <1>14 DEF UsabilityChanges
    <2> QED BY <1>1, <1>2, <2>1, TablesKept
  <1>15. CASE UNCHANGED previewVars
    BY <1>1, <1>2, <1>15, TablesKept DEF previewVars
  <1> QED
    BY <1>3, <1>4, <1>5, <1>6, <1>7, <1>8, <1>9, <1>10, <1>11, <1>12, <1>13, <1>14, <1>15,
       CreatePreviewKeeps, CreateOperationKeeps, TransitionPreviewKeeps DEF PreviewNext

\* The inductive invariant holds in every reachable state.
THEOREM PreviewInvHolds == PreviewSpec => []PreviewInv
  BY PreviewInvInit, PreviewInvNext, PTL DEF PreviewSpec

\* Every variable of the previews keeps its type, and a row leaves version 1
\* exactly when it leaves awaiting_confirmation.
THEOREM PreviewTypeCorrect == PreviewSpec => []PreviewTypeOK
  <1>1. PreviewInv => PreviewTypeOK
    BY DEF PreviewInv
  <1> QED BY <1>1, PreviewInvHolds, PTL

\* No document is ever in two previews, whatever batches clients ask for and
\* however their transactions race (save_mercury_document_preview).
THEOREM DocumentsArePreviewedOnce == PreviewSpec => []DocumentPreviewedOnce
  <1>1. PreviewInv => DocumentPreviewedOnce
    BY DEF PreviewInv
  <1> QED BY <1>1, PreviewInvHolds, PTL

\* A client is answered with a preview of exactly what it asked for, and every
\* confirmation of a preview with its one operation, also after lost answers
\* (_recover_existing, save_mercury_operation).
THEOREM ClientsAreAnsweredAlike == PreviewSpec => []AnswersAgree
  <1>1. PreviewInv => AnswersAgree
    BY DEF PreviewInv
  <1> QED BY <1>1, PreviewInvHolds, PTL

\* An operation comes into being only from a preview that is alive, on a usable
\* connection of the revision the preview was prepared under.
THEOREM ConfirmationsAreAuthorised == PreviewSpec => ConfirmedUnderAuthority
  <1> DEFINE A == \A p \in Previews : operation'[p] # operation[p] =>
                      /\ p \notin past
                      /\ usable
                      /\ preview[p].revision = revision
  <1>1. PreviewInv /\ [PreviewNext]_previewVars => [A]_previewVars
    <2> SUFFICES ASSUME PreviewInv, PreviewNext PROVE A
      OBVIOUS
    <2>1. ASSUME NEW w \in Clients, CreateOperation(w) PROVE A
      <3>1. /\ operation \in [Previews -> Operations \cup {Missing}]
            /\ task[w].id \in Previews
        BY <2>1 DEF PreviewInv, PreviewTypeOK, TaskKnows, CreateOperation, Stored
      <3> QED BY <2>1, <3>1 DEF CreateOperation, Confirmable, Authorised
    <2>2. CASE UNCHANGED operation
      BY <2>2
    <2> QED
      BY <2>1, <2>2
         DEF PreviewNext, PrepareBegin, FindExisting, FindNothing, CreatePreview,
             CreateReturnsExisting, CreateFails, RecoverPreview, AbandonCall, AnswerExisting,
             LoadConfirmable, CloseBegin, TransitionPreview, LifetimeEnds, Reconnect,
             UsabilityChanges
  <1> QED BY <1>1, PreviewInvHolds, PTL DEF PreviewSpec, ConfirmedUnderAuthority

=============================================================================
