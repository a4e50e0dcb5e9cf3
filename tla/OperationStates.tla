-------------------------- MODULE OperationStates --------------------------
(***************************************************************************)
(* The state contracts of a hosted operation and of the documents in it,   *)
(* written twice in the repository: execution/hosted/transitions.py for    *)
(* the Python models and two functions of the migration that creates the   *)
(* operation tables.  Children are given by the set of their states.       *)
(***************************************************************************)

ItemTerminal ==
    {"succeeded", "provider_rejected", "outcome_unknown", "needs_manual_review",
     "not_dispatched", "expired", "cancelled"}

ParentStates ==
    {"prepared", "awaiting_confirmation", "dispatching", "succeeded", "failed_pre_dispatch",
     "provider_rejected", "outcome_unknown", "needs_manual_review", "expired", "cancelled"}

ItemStates == ParentStates \cup {"not_dispatched"}

DispatchRecovery ==
    {"succeeded", "provider_rejected", "outcome_unknown", "needs_manual_review",
     "not_dispatched"}

-----------------------------------------------------------------------------
(***************************************************************************)
(* transitions.py                                                          *)
(***************************************************************************)
ParentTransition(s, t) ==
    \/ s = "prepared" /\ t \in {"awaiting_confirmation", "expired", "cancelled"}
    \/ /\ s = "awaiting_confirmation"
       /\ t \in {"dispatching", "failed_pre_dispatch", "expired", "cancelled"}
    \/ s = "failed_pre_dispatch" /\ t \in {"dispatching", "cancelled"}
    \/ /\ s = "dispatching"
       /\ t \in {"succeeded", "provider_rejected", "outcome_unknown", "needs_manual_review"}
    \/ s = "outcome_unknown" /\ t \in {"succeeded", "needs_manual_review"}

ItemTransition(s, t) ==
    \/ s = "prepared" /\ t \in {"awaiting_confirmation", "expired", "cancelled"}
    \/ /\ s = "awaiting_confirmation"
       /\ t \in {"dispatching", "failed_pre_dispatch", "not_dispatched", "cancelled", "expired"}
    \/ s = "failed_pre_dispatch" /\ t \in {"dispatching", "cancelled"}
    \/ s = "dispatching" /\ t \in {"succeeded", "provider_rejected", "outcome_unknown"}
    \/ s = "outcome_unknown" /\ t \in {"succeeded", "needs_manual_review"}

\* parent_operation_transition_allowed
ParentTransitionAllowed(s, t, children) ==
    /\ ParentTransition(s, t)
    /\ t = "awaiting_confirmation" => children \subseteq {"prepared"}
    /\ t = "dispatching" => children \subseteq {"awaiting_confirmation", "failed_pre_dispatch"}
    /\ t \notin {"awaiting_confirmation", "dispatching"} => children # {}
    /\ t = "failed_pre_dispatch" => children \subseteq {"failed_pre_dispatch", "not_dispatched"}
    /\ t \in {"succeeded", "expired"} => children \subseteq {t}
    /\ t \in {"provider_rejected", "outcome_unknown"} =>
          children \subseteq ItemTerminal /\ t \in children
    /\ t = "needs_manual_review" =>
          /\ children \subseteq ItemTerminal
          /\ children \cap {"needs_manual_review", "outcome_unknown"} # {}
    /\ t = "cancelled" => children \subseteq {"cancelled", "not_dispatched"}

\* parent_operation_children_compatible: what a stored operation must satisfy
\* to be read.
ChildrenCompatible(s, children) ==
    /\ s \in ParentStates
    /\ children # {}
    /\ s = "prepared" => children \subseteq {"prepared", "cancelled", "expired"}
    /\ s = "awaiting_confirmation" =>
          children \subseteq {"prepared", "awaiting_confirmation", "failed_pre_dispatch",
                              "not_dispatched", "expired", "cancelled"}
    /\ s = "failed_pre_dispatch" =>
          children \subseteq {"failed_pre_dispatch", "not_dispatched", "cancelled"}
    /\ s = "dispatching" =>
          children \subseteq {"awaiting_confirmation", "failed_pre_dispatch", "dispatching"}
                               \cup DispatchRecovery
    /\ s \in {"succeeded", "expired"} => children \subseteq {s}
    /\ s = "provider_rejected" => children \subseteq ItemTerminal /\ s \in children
    /\ s = "outcome_unknown" =>
          /\ children \subseteq ItemTerminal
          /\ children \cap {"succeeded", "outcome_unknown", "needs_manual_review"} # {}
    /\ s = "needs_manual_review" =>
          /\ children \subseteq ItemTerminal
          /\ children \cap {"needs_manual_review", "outcome_unknown"} # {}
    /\ s = "cancelled" => children \subseteq {"cancelled", "not_dispatched"}

\* item_operation_transition_allowed
ItemTransitionAllowed(s, t, parent) ==
    /\ ItemTransition(s, t)
    /\ s = "prepared" =>
          parent = IF t = "awaiting_confirmation" THEN t ELSE "prepared"
    /\ s = "awaiting_confirmation" =>
          \/ t \in {"dispatching", "not_dispatched"} /\ parent = "dispatching"
          \/ t # "dispatching" /\ parent = "awaiting_confirmation"
    /\ s = "failed_pre_dispatch" =>
          parent = IF t = "dispatching" THEN t ELSE "failed_pre_dispatch"
    /\ s \in {"dispatching", "outcome_unknown"} => parent = s

-----------------------------------------------------------------------------
(***************************************************************************)
(* The migration                                                           *)
(***************************************************************************)
\* mercury_parent_operation_transition_is_allowed; the states of no children
\* are the null array, of which nothing is an element.
SqlParentTransition(s, t, children) ==
    LET count == children # {}
        Only(S) == ~ \E c \in children : c \notin S
        allTerminal == count /\ Only(ItemTerminal)
        review == "needs_manual_review" \in children \/ "outcome_unknown" \in children
    IN  \/ s = "prepared" /\ t = "awaiting_confirmation" /\ Only({"prepared"})
        \/ s \in {"prepared", "awaiting_confirmation"} /\ t = "expired" /\ count /\ Only({t})
        \/ /\ s \in {"prepared", "awaiting_confirmation", "failed_pre_dispatch"}
           /\ t = "cancelled" /\ count /\ Only({"cancelled", "not_dispatched"})
        \/ /\ s \in {"awaiting_confirmation", "failed_pre_dispatch"}
           /\ t = "dispatching" /\ Only({"awaiting_confirmation", "failed_pre_dispatch"})
        \/ /\ s = "awaiting_confirmation" /\ t = "failed_pre_dispatch"
           /\ count /\ Only({"failed_pre_dispatch", "not_dispatched"})
        \/ s \in {"outcome_unknown", "dispatching"} /\ t = "succeeded" /\ count /\ Only({t})
        \/ /\ s \in {"outcome_unknown", "dispatching"} /\ t = "needs_manual_review"
           /\ allTerminal /\ review
        \/ /\ s = "dispatching" /\ t \in {"provider_rejected", "outcome_unknown"}
           /\ allTerminal /\ t \in children

\* Deviation: a document whose outcome is unknown may be sent again.
SqlItemTransitionReplaying(s, t, parent) ==
    \/ /\ s = "awaiting_confirmation"
       /\ \/ t = "dispatching" /\ parent = "dispatching"
          \/ t = "not_dispatched" /\ parent \in {"awaiting_confirmation", "dispatching"}
    \/ /\ s = "dispatching" /\ parent = "dispatching"
       /\ t \in {"succeeded", "provider_rejected", "outcome_unknown"}
    \/ /\ s = "outcome_unknown" /\ t = "dispatching"
       /\ parent \in {"dispatching", "outcome_unknown"}

\* Deviation: a document may fail before dispatch although others were sent.
SqlItemTransitionFailing(s, t, parent) ==
    \/ /\ s = "awaiting_confirmation"
       /\ \/ t = "dispatching" /\ parent = "dispatching"
          \/ t \in {"not_dispatched", "failed_pre_dispatch", "cancelled"}
    \/ /\ s = "dispatching" /\ parent = "dispatching"
       /\ t \in {"succeeded", "provider_rejected", "outcome_unknown"}

\* mercury_item_operation_transition_is_allowed
SqlItemTransition(s, t, parent) ==
    \/ /\ s = "prepared"
       /\ \/ t = "awaiting_confirmation" /\ parent = "awaiting_confirmation"
          \/ t \in {"expired", "cancelled"} /\ parent = "prepared"
    \/ /\ s = "awaiting_confirmation"
       /\ \/ t = "dispatching" /\ parent = "dispatching"
          \/ t = "not_dispatched" /\ parent \in {"awaiting_confirmation", "dispatching"}
          \/ /\ t \in {"failed_pre_dispatch", "cancelled", "expired"}
             /\ parent = "awaiting_confirmation"
    \/ /\ s = "failed_pre_dispatch"
       /\ \/ t = "dispatching" /\ parent = "dispatching"
          \/ t = "cancelled" /\ parent = "failed_pre_dispatch"
    \/ /\ s = "dispatching" /\ parent = "dispatching"
       /\ t \in {"succeeded", "provider_rejected", "outcome_unknown"}
    \/ /\ s = "outcome_unknown" /\ parent = "outcome_unknown"
       /\ t \in {"succeeded", "needs_manual_review"}
=============================================================================
