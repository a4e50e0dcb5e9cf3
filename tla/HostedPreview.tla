--------------------------- MODULE HostedPreview ---------------------------
(***************************************************************************)
(* Previews of document creation on the hosted server: preparing, editing, *)
(* closing and confirming them (execution/hosted/preview_service.py and    *)
(* store.py over the functions of the operations migration).  Each call of *)
(* the store is a transaction; between them a request of a client may be   *)
(* overtaken by others, lose its answer, or find that the connection, the  *)
(* qualification or the lifetime of the preview is over.                   *)
(*                                                                         *)
(* A request is a batch of documents with the review notes shown to the    *)
(* user: its provider_call_hash is determined by the documents, its        *)
(* preview_integrity_hash by the whole request.  A document stands for its *)
(* own provider_call_hash: the arguments of one call under one version of  *)
(* the capability and its schema, on one connection.                       *)
(***************************************************************************)
EXTENDS Naturals, FiniteSets

CONSTANTS
    Requests,       \* what clients may ask for
    Documents,      \* provider_call_hash of a single document
    Docs,           \* the documents of each request
    Previews,       \* preview ids
    Operations,     \* operation ids
    Clients,        \* client requests being served
    Missing,
    MaxConnectionRevision     \* bound on the revisions of the connection

\* A row of mercury_document_previews.
Rows == [request : Requests, revision : 1 .. MaxConnectionRevision, version : 1 .. 2,
         state : {"awaiting_confirmation", "confirmed", "expired", "cancelled"}]

ASSUME PreviewAssumption ==
    /\ Docs \in [Requests -> (SUBSET Documents) \ {{}}]
    /\ Missing \notin Requests \cup Previews \cup Operations \cup Rows
    /\ MaxConnectionRevision \in Nat \ {0}

VARIABLES
    preview,        \* the rows of mercury_document_previews, Missing if there is none
    past,           \* previews whose expires_at has passed
    operation,      \* the operation of each preview
    revision,       \* revision of the provider connection
    usable,         \* it is ready and the capability is qualified
    task,           \* the call each worker serves
    prepared,       \* answers of prepare_document_create: request and preview
    confirmed       \* answers of create_operation: preview and operation

previewVars == <<preview, past, operation, revision, usable, task, prepared, confirmed>>

Stored == {p \in Previews : preview[p] # Missing}

Unused == {o \in Operations : /\ \A p \in Previews : operation[p] # o
                              /\ \A w \in Clients : task[w].op # o}

NoTask == [pc |-> "idle", request |-> Missing, revision |-> 0, id |-> Missing,
           version |-> 0, target |-> "none", op |-> Missing]

PreviewInit ==
    /\ preview = [p \in Previews |-> Missing]
    /\ past = {}
    /\ operation = [p \in Previews |-> Missing]
    /\ revision = 1
    /\ usable = TRUE
    /\ task = [w \in Clients |-> NoTask]
    /\ prepared = {}
    /\ confirmed = {}

\* The store's view of one call: unique (workspace, connection, provider_call_hash).
SameCall(p, r) == Docs[preview[p].request] = Docs[r]

Existing(r) == {p \in Stored : SameCall(p, r)}

Done(w) == task' = [task EXCEPT ![w] = NoTask]

GoesTo(w, label) == task' = [task EXCEPT ![w].pc = label]

-----------------------------------------------------------------------------
(***************************************************************************)
(* prepare_document_create; edit_document_preview reads the preview it     *)
(* supersedes and then is the same call.                                   *)
(***************************************************************************)
PrepareBegin(w, r) ==
    /\ task[w] = NoTask
    /\ usable
    /\ task' = [task EXCEPT ![w] = [NoTask EXCEPT !.pc = "find", !.request = r,
                                                  !.revision = revision]]
    /\ UNCHANGED <<preview, past, operation, revision, usable, prepared, confirmed>>

\* Deviation: whatever has the same provider call is what the client asked for.
RecoveredBlindly(w, p) == TRUE

\* _recover_existing: the stored preview must show what this request would.
Recovered(w, p) == preview[p].request = task[w].request

\* Another preview of the same call exists.
AnswerExisting(w, p) ==
    /\ prepared' = IF Recovered(w, p) THEN prepared \cup {<<task[w].request, p>>} ELSE prepared
    /\ Done(w)
    /\ UNCHANGED <<preview, past, operation, revision, usable, confirmed>>

FindExisting(w) ==
    /\ task[w].pc = "find"
    /\ \E p \in Existing(task[w].request) : AnswerExisting(w, p)

\* None is found, or the lookup failed with an error that is not the store's
\* own, which counts as none; _build_preview draws the identity of a new one.
FindNothing(w, p) ==
    /\ task[w].pc = "find"
    /\ preview[p] = Missing /\ \A u \in Clients : task[u].pc = "create" => task[u].id # p
    /\ task' = [task EXCEPT ![w].pc = "create", ![w].id = p]
    /\ UNCHANGED <<preview, past, operation, revision, usable, prepared, confirmed>>

Authorised(rev) == usable /\ revision = rev

\* Deviation: only the call of the whole batch is unique.
ConflictsByCall(r) == Existing(r) # {}

\* Unique are the call of the batch and that of each document.
Conflicts(r) == \E p \in Stored : Docs[preview[p].request] \cap Docs[r] # {}

\* save_mercury_document_preview inserts; the answer may be lost.
CreatePreview(w) ==
    /\ task[w].pc = "create"
    /\ Authorised(task[w].revision)
    /\ ~Conflicts(task[w].request)
    /\ preview' = [preview EXCEPT ![task[w].id] =
          [request |-> task[w].request, state |-> "awaiting_confirmation", version |-> 1,
           revision |-> task[w].revision]]
    /\ \/ prepared' = prepared \cup {<<task[w].request, task[w].id>>} /\ Done(w)
       \/ prepared' = prepared /\ GoesTo(w, "recover")
    /\ UNCHANGED <<past, operation, revision, usable, confirmed>>

\* It returns the preview of the same request that is there already.
CreateReturnsExisting(w) ==
    /\ task[w].pc = "create"
    /\ Authorised(task[w].revision)
    /\ \E p \in Existing(task[w].request) :
          preview[p].request = task[w].request /\ AnswerExisting(w, p)

\* duplicate_provider_call, from the comparison or from a unique index when
\* another transaction got there first; or preview_store_unavailable.
CreateFails(w) ==
    /\ task[w].pc = "create"
    /\ GoesTo(w, "recover")
    /\ UNCHANGED <<preview, past, operation, revision, usable, prepared, confirmed>>

RecoverPreview(w) ==
    /\ task[w].pc = "recover"
    /\ \E p \in Existing(task[w].request) : AnswerExisting(w, p)

\* The call raises: the authority changed, the store is down, nothing is found,
\* or the client goes away.
AbandonCall(w) ==
    /\ task[w] # NoTask
    /\ Done(w)
    /\ UNCHANGED <<preview, past, operation, revision, usable, prepared, confirmed>>

-----------------------------------------------------------------------------
(***************************************************************************)
(* Confirming and closing                                                  *)
(***************************************************************************)
\* load_confirmable and HostedOperation.from_preview
LoadConfirmable(w, p, o) ==
    /\ task[w] = NoTask
    /\ p \in Stored
    /\ preview[p].state = "awaiting_confirmation"
    /\ p \notin past
    /\ Authorised(preview[p].revision)
    /\ o \in Unused
    /\ task' = [task EXCEPT ![w] = [NoTask EXCEPT !.pc = "confirm", !.id = p, !.op = o,
                                                  !.version = preview[p].version]]
    /\ UNCHANGED <<preview, past, operation, revision, usable, prepared, confirmed>>

\* The caller is answered, or the answer is lost and it sends the call again.
AnswerOperation(w, o) ==
    \/ confirmed' = confirmed \cup {<<task[w].id, o>>} /\ Done(w)
    \/ UNCHANGED <<confirmed, task>>

ExistingOperation(w) == operation[task[w].id]

\* Deviation: what load_confirmable checked is not checked again.
ConfirmableLoaded(w) ==
    /\ preview[task[w].id].state = "awaiting_confirmation"
    /\ preview[task[w].id].version = task[w].version

Confirmable(w) ==
    /\ Authorised(preview[task[w].id].revision)
    /\ preview[task[w].id].version = task[w].version
    /\ preview[task[w].id].state = "awaiting_confirmation"
    /\ task[w].id \notin past

\* save_mercury_operation
CreateOperation(w) ==
    /\ task[w].pc = "confirm"
    /\ \/ /\ operation[task[w].id] # Missing
          /\ AnswerOperation(w, ExistingOperation(w))
          /\ UNCHANGED <<preview, operation>>
       \/ /\ operation[task[w].id] = Missing
          /\ Confirmable(w)
          /\ preview' = [preview EXCEPT ![task[w].id].state = "confirmed",
                                        ![task[w].id].version = @ + 1]
          /\ operation' = [operation EXCEPT ![task[w].id] = task[w].op]
          /\ AnswerOperation(w, task[w].op)
    /\ UNCHANGED <<past, revision, usable, prepared>>

\* A caller reads a preview and decides to close it.
CloseBegin(w, p, t) ==
    /\ task[w] = NoTask
    /\ p \in Stored
    /\ task' = [task EXCEPT ![w] = [NoTask EXCEPT !.pc = "close", !.id = p, !.target = t,
                                                  !.version = preview[p].version]]
    /\ UNCHANGED <<preview, past, operation, revision, usable, prepared, confirmed>>

PreviewTransitions(s) ==
    IF s = "awaiting_confirmation" THEN {"confirmed", "expired", "cancelled"} ELSE {}

\* transition_mercury_document_preview; confirmed is not a target of it.
TransitionPreview(w) ==
    /\ task[w].pc = "close"
    /\ preview[task[w].id].version = task[w].version
    /\ task[w].target \in PreviewTransitions(preview[task[w].id].state)
    /\ task[w].target = "expired" => task[w].id \in past
    /\ preview' = [preview EXCEPT ![task[w].id].state = task[w].target,
                                  ![task[w].id].version = @ + 1]
    /\ Done(w) \/ UNCHANGED task
    /\ UNCHANGED <<past, operation, revision, usable, prepared, confirmed>>

-----------------------------------------------------------------------------
\* expires_at of a preview passes.
LifetimeEnds(p) ==
    /\ p \in Stored \ past
    /\ past' = past \cup {p}
    /\ UNCHANGED <<preview, operation, revision, usable, task, prepared, confirmed>>

\* The connection is authorised anew: its revision advances.
Reconnect ==
    /\ revision < MaxConnectionRevision
    /\ revision' = revision + 1
    /\ UNCHANGED <<preview, past, operation, usable, task, prepared, confirmed>>

\* The connection stops being ready or becomes so; evidence runs out or is renewed.
UsabilityChanges ==
    /\ usable' = ~usable
    /\ UNCHANGED <<preview, past, operation, revision, task, prepared, confirmed>>

PreviewNext ==
    \/ \E w \in Clients :
          \/ \E r \in Requests : PrepareBegin(w, r)
          \/ FindExisting(w)
          \/ \E p \in Previews : FindNothing(w, p)
          \/ CreatePreview(w) \/ CreateReturnsExisting(w) \/ CreateFails(w)
          \/ RecoverPreview(w) \/ AbandonCall(w)
          \/ \E p \in Previews, o \in Operations : LoadConfirmable(w, p, o)
          \/ CreateOperation(w)
          \/ \E p \in Previews, t \in {"expired", "cancelled"} : CloseBegin(w, p, t)
          \/ TransitionPreview(w)
    \/ \E p \in Previews : LifetimeEnds(p)
    \/ Reconnect \/ UsabilityChanges

PreviewSpec == PreviewInit /\ [][PreviewNext]_previewVars

-----------------------------------------------------------------------------
(***************************************************************************)
(* Properties                                                              *)
(***************************************************************************)
\* Every variable has its type; awaiting previews have version 1, others 2.
PreviewTypeOK ==
    /\ preview \in [Previews -> Rows \cup {Missing}]
    /\ \A p \in Stored : preview[p].version = 1 <=> preview[p].state = "awaiting_confirmation"
    /\ past \subseteq Stored
    /\ operation \in [Previews -> Operations \cup {Missing}]
    /\ revision \in 1 .. MaxConnectionRevision
    /\ usable \in BOOLEAN
    /\ DOMAIN task = Clients
    /\ prepared \subseteq Requests \X Previews
    /\ confirmed \subseteq Previews \X Operations

\* No document is ever in two previews, alone or in batches, so two
\* confirmations can never send it twice (unique_violation in
\* save_mercury_document_preview, also when two transactions race).
DocumentPreviewedOnce ==
    \A p, q \in Stored : p # q => Docs[preview[p].request] \cap Docs[preview[q].request] = {}

\* A client is only ever answered with a stored preview that shows exactly what
\* it asked for, also when the answer to the insertion was lost or another
\* client with other review notes was faster.
AnswerIsWhatWasAsked ==
    \A a \in prepared : a[2] \in Stored /\ preview[a[2]].request = a[1]

\* Repeated and concurrent confirmations of one preview are all answered with
\* the one operation it has, and a preview has one exactly if it is confirmed.
OneOperationPerPreview ==
    /\ \A c \in confirmed : operation[c[1]] = c[2]
    /\ \A p \in Previews : operation[p] # Missing <=> p \in Stored /\ preview[p].state = "confirmed"
    /\ \A p, q \in Previews : operation[p] = operation[q] /\ p # q => operation[p] = Missing

\* An operation comes into being only while the preview lives and everything it
\* was prepared under still holds.
ConfirmedUnderAuthority ==
    [][\A p \in Previews : operation'[p] # operation[p] =>
          /\ p \notin past
          /\ usable
          /\ preview[p].revision = revision]_previewVars

\* What clients are answered agrees with the tables: the preview is the one they
\* asked for, and all confirmations of a preview name its one operation.
AnswersAgree == AnswerIsWhatWasAsked /\ OneOperationPerPreview
=============================================================================
