---------------------------- MODULE LocalCatalog ----------------------------
(***************************************************************************)
(* The catalog of a local runtime (mcp/local_runtime.py): a snapshot of    *)
(* the cloud's actions kept in a cache under an ETag (cloud/client.py,     *)
(* catalog/cache.py), an overlay of actions imported from specifications   *)
(* (catalog/local_store.py, catalog/importers/service.py), and for every   *)
(* action the qualification evidence the cloud selects for it.             *)
(*                                                                         *)
(* A runtime works through a request one await at a time; the import is    *)
(* several file system calls, any of which may fail or be the last one of  *)
(* its process.  Requests of other runtimes run meanwhile.                 *)
(***************************************************************************)
EXTENDS Naturals, Sequences, FiniteSets, SequencesExt

CONSTANTS
    Runtimes,
    Actions,         \* action_ids
    Versions,        \* version_ids of every action
    Snapshots,       \* catalogs the cloud may serve: functions from actions to versions
    Imports,         \* specifications: sequences of <<action, version>> pairs
    LiveEnvironments,
    Contracts,       \* the (action, version) pairs with a checked-in semantic contract
    BatchSize,       \* _VALIDATION_BATCH_SIZE
    MaxChunks,       \* MAX_SPEC_BYTES, counted in chunks
    Deadline,        \* REMOTE_IMPORT_DEADLINE_SECONDS, in steps of the remote read
    EvidenceLives,   \* instants at which evidence may expire
    LastInstant, MaxRequests, MaxPublications

ASSUME CatalogAssumption ==
    /\ Contracts \subseteq Actions \X Versions /\ IsFiniteSet(Contracts)
    /\ \A s \in Snapshots : DOMAIN s \subseteq Actions /\ s \in [DOMAIN s -> Versions]
    /\ \A i \in Imports : i \in Seq(Actions \X Versions)
    /\ {BatchSize, Deadline} \subseteq Nat \ {0}
    /\ {MaxChunks, LastInstant, MaxRequests, MaxPublications} \subseteq Nat

VARIABLES
    cloud,       \* the catalog the cloud serves now
    cache,       \* catalog.sqlite: the rows and the ETag, <<>> before the first
    overlay,     \* catalog/actions: the version in each action's file
    litter,      \* temporary files in catalog/actions
    whole,       \* the overlay as the last complete import left it
    damaged,     \* TRUE: a rollback failed, or the synchronisation after a last rename
    view,        \* LocalActionCatalog of each runtime
    work,        \* what each runtime is doing
    contexts,    \* the action contexts each runtime answered last
    config,      \* environments configured and validated in config.json
    instant,     \* the time
    left         \* requests and publications to come

catalogVars == <<cloud, cache, overlay, litter, whole, damaged, view, work, contexts,
                 config, instant, left>>

NoSnapshot == <<>>
NoEvidence == [scope |-> <<>>, expires |-> 0]

AtRest == [at |-> "idle", etag |-> NoSnapshot, fetched |-> NoSnapshot, plan |-> <<>>,
           done |-> 0, backup |-> <<>>, time |-> 0, chunks |-> 0, id |-> 0,
           pending |-> <<>>, answer |-> <<>>]

Set(r, record) == work' = [work EXCEPT ![r] = record]

Step(r, label) == Set(r, [work[r] EXCEPT !.at = label])

\* The request ends, with an answer or an error.
Finishes(r) == Set(r, AtRest)

\* merge_actions: the local overlay wins over the global snapshot.
MergeActions(global, local) ==
    [a \in DOMAIN global \cup DOMAIN local |->
        IF a \in DOMAIN local THEN local[a] ELSE global[a]]

\* list_actions of the overlay refuses a directory with any other file in it.
Listable == litter = {}

----------------------------------------------------------------------------
(* CloudBrainClient.list_actions and refresh_catalog.                      *)

Accept(r, first) ==
    /\ work[r].at = "idle"
    /\ left.requests > 0
    /\ left' = [left EXCEPT !.requests = @ - 1]
    /\ Set(r, [AtRest EXCEPT !.at = first, !.id = left.requests])

\* refresh_catalog, search_actions: the ETag is read from the cache ...
RefreshCatalog(r) ==
    /\ work[r].at = "idle"
    /\ left.requests > 0
    /\ left' = [left EXCEPT !.requests = @ - 1]
    /\ Set(r, [AtRest EXCEPT !.at = "request", !.etag = cache])
    /\ UNCHANGED <<cloud, cache, overlay, litter, whole, damaged, view, contexts, config, instant>>

\* ... and sent: the cloud answers 304, a new catalog, or not at all.  A 4xx or
\* an answer that does not validate ends the request (Abandon).
CloudAnswers(r) ==
    /\ work[r].at = "request"
    /\ \/ Step(r, "cached")
       \/ /\ work[r].etag # <<cloud>>
          /\ Set(r, [work[r] EXCEPT !.fetched = cloud, !.at = "store"])
    /\ UNCHANGED <<cloud, cache, overlay, litter, whole, damaged, view, contexts, config, instant, left>>

\* CatalogCache.replace_global: rows and ETag in one transaction.
ReplaceGlobal(r) ==
    /\ work[r].at = "store"
    /\ cache' = <<work[r].fetched>>
    /\ Step(r, "local")
    /\ UNCHANGED <<cloud, overlay, litter, whole, damaged, view, contexts, config, instant, left>>

\* _cached_actions, refresh_overlay: CatalogCache.list_global.
ListGlobal(r) ==
    /\ work[r].at = "cached"
    /\ Set(r, [work[r] EXCEPT !.fetched = IF cache = NoSnapshot THEN <<>> ELSE cache[1],
                              !.at = "local"])
    /\ UNCHANGED <<cloud, cache, overlay, litter, whole, damaged, view, contexts, config, instant, left>>

\* LocalCatalogStore.list_actions, then LocalActionCatalog.replace.
ReplaceView(r) ==
    /\ work[r].at = "local"
    /\ view' = IF Listable THEN [view EXCEPT ![r] = MergeActions(work[r].fetched, overlay)]
               ELSE view
    /\ Finishes(r)
    /\ UNCHANGED <<cloud, cache, overlay, litter, whole, damaged, contexts, config, instant, left>>

----------------------------------------------------------------------------
(* import_spec: the specification is read, locally or from the network ... *)

\* Imports of one repository are made one at a time here; nothing in the code
\* keeps two processes from importing together.
NobodyImports ==
    \A r \in Runtimes : work[r].at \notin
        {"read", "resolve", "send", "peer", "chunk", "parse", "stage", "backup", "commit", "sync",
         "rollback", "clean", "give up"}

ImportSpec(r) ==
    /\ NobodyImports
    /\ \E first \in {"resolve", "read"} : Accept(r, first)
    /\ UNCHANGED <<cloud, cache, overlay, litter, whole, damaged, view, contexts, config, instant>>

\* _read_local_source: every component of the path is opened below the one
\* before it and no link is followed; a path that leaves the root, a file that
\* is not regular or too large, and a root replaced meanwhile are refused
\* (Abandon).
ReadLocalSource(r) ==
    /\ work[r].at = "read"
    /\ Step(r, "parse")
    /\ UNCHANGED <<cloud, cache, overlay, litter, whole, damaged, view, contexts, config, instant, left>>

\* _call_with_deadline: the operation runs in a thread and is given the time
\* that is left; whatever it answers later is dropped.
InTime(r) == work[r].time < Deadline

\* NetworkPolicy().resolve_https_target, client.send, _verify_response_peer: a
\* redirect, an error status or another peer ends the import (Abandon).
RemoteStep(r) ==
    /\ InTime(r)
    /\ \/ work[r].at = "resolve" /\ Set(r, [work[r] EXCEPT !.at = "send", !.time = @ + 1])
       \/ work[r].at = "send" /\ Set(r, [work[r] EXCEPT !.at = "peer", !.time = @ + 1])
       \/ work[r].at = "peer" /\ Set(r, [work[r] EXCEPT !.at = "chunk"])
    /\ UNCHANGED <<cloud, cache, overlay, litter, whole, damaged, view, contexts, config, instant, left>>

\* response.iter_bytes: chunk after chunk, no more than MAX_SPEC_BYTES.
RemoteChunk(r) ==
    /\ work[r].at = "chunk"
    /\ InTime(r)
    /\ \/ /\ work[r].chunks < MaxChunks
          /\ Set(r, [work[r] EXCEPT !.chunks = @ + 1, !.time = @ + 1])
       \/ Step(r, "parse")
    /\ UNCHANGED <<cloud, cache, overlay, litter, whole, damaged, view, contexts, config, instant, left>>

\* The document is parsed and sanitised; _prepare_import validates every action
\* before a file is touched.  Two actions with one identity are refused.
Unique(plan) == \A i, j \in 1 .. Len(plan) : plan[i][1] = plan[j][1] => i = j

Prepare(r) ==
    /\ work[r].at = "parse"
    /\ \E plan \in Imports :
          IF Unique(plan) THEN Set(r, [work[r] EXCEPT !.plan = plan, !.at = "stage"])
          ELSE Finishes(r)
    /\ UNCHANGED <<cloud, cache, overlay, litter, whole, damaged, view, contexts, config, instant, left>>

----------------------------------------------------------------------------
(* ... and written: LocalCatalogStore.write_import.                        *)

\* _stage_bytes: names of temporary files, no two alike; the import's own.
Staged(r, i) == <<"staged", work[r].id, i>>
Backup(r, i) == <<"backup", work[r].id, i>>

\* _stage_import: a temporary file beside every destination, ...
StageImport(r) ==
    /\ work[r].at = "stage"
    /\ litter' = litter \cup {Staged(r, i) : i \in 1 .. Len(work[r].plan)}
    /\ Step(r, "backup")
    /\ UNCHANGED <<cloud, cache, overlay, whole, damaged, view, contexts, config, instant, left>>

Existing(plan) == {i \in 1 .. Len(plan) : plan[i][1] \in DOMAIN overlay}

\* ... then a copy of every file that is there already.
BackUp(r) ==
    /\ work[r].at = "backup"
    /\ litter' = litter \cup {Backup(r, i) : i \in Existing(work[r].plan)}
    /\ Set(r, [work[r] EXCEPT !.at = "commit", !.backup = overlay])
    /\ UNCHANGED <<cloud, cache, overlay, whole, damaged, view, contexts, config, instant, left>>

Put(files, action, version) ==
    [a \in DOMAIN files \cup {action} |-> IF a = action THEN version ELSE files[a]]

\* _commit_import: the next file is renamed into place.
CommitOne(r) ==
    /\ work[r].at = "commit"
    /\ work[r].done < Len(work[r].plan)
    /\ LET i == work[r].done + 1
       IN  /\ overlay' = Put(overlay, work[r].plan[i][1], work[r].plan[i][2])
           /\ litter' = litter \ {Staged(r, i)}
           /\ whole' = IF i = Len(work[r].plan) THEN overlay' ELSE whole
           /\ Set(r, [work[r] EXCEPT !.done = i, !.at = "sync"])
    /\ UNCHANGED <<cloud, cache, damaged, view, contexts, config, instant, left>>

\* _fsync_directory after each rename.
SyncOne(r) ==
    /\ work[r].at = "sync"
    /\ Step(r, IF work[r].done = Len(work[r].plan) THEN "clean" ELSE "commit")
    /\ UNCHANGED <<cloud, cache, overlay, litter, whole, damaged, view, contexts, config, instant, left>>

\* A rename or an fsync fails: what was committed is rolled back.
CommitFails(r) ==
    /\ work[r].at \in {"commit", "sync"}
    /\ damaged' = (damaged \/ (work[r].at = "sync" /\ work[r].done = Len(work[r].plan)))
    /\ Step(r, "rollback")
    /\ UNCHANGED <<cloud, cache, overlay, litter, whole, view, contexts, config, instant, left>>

Without(files, action) == [a \in DOMAIN files \ {action} |-> files[a]]

\* What the rollback makes of the i-th file: the backup, or no file.
RolledBack(r, i) ==
    LET a == work[r].plan[i][1]
    IN  IF a \in DOMAIN work[r].backup THEN Put(overlay, a, work[r].backup[a])
        ELSE Without(overlay, a)

\* _rollback_import: in reverse order.
RollBackOne(r) ==
    /\ work[r].at = "rollback"
    /\ IF work[r].done = 0
       THEN Step(r, "give up") /\ UNCHANGED <<overlay, litter>>
       ELSE /\ overlay' = RolledBack(r, work[r].done)
            /\ litter' = litter \ {Backup(r, work[r].done)}
            /\ Set(r, [work[r] EXCEPT !.done = @ - 1])
    /\ UNCHANGED <<cloud, cache, whole, damaged, view, contexts, config, instant, left>>

\* A rename, an unlink or an fsync of the rollback fails: no file before it is
\* restored any more, and the backups are about to be removed.
RollBackFails(r) ==
    /\ work[r].at = "rollback"
    /\ work[r].done > 0
    /\ \/ UNCHANGED <<overlay, litter>>
       \/ /\ overlay' = RolledBack(r, work[r].done)
          /\ litter' = litter \ {Backup(r, work[r].done)}
    /\ damaged' = TRUE
    /\ Step(r, "give up")
    /\ UNCHANGED <<cloud, cache, whole, view, contexts, config, instant, left>>

\* A backup cannot be made.
StagingFails(r) ==
    /\ work[r].at = "backup"
    /\ Step(r, "give up")
    /\ UNCHANGED <<cloud, cache, overlay, litter, whole, damaged, view, contexts, config, instant, left>>

\* The temporary files of the first n files of the import.
Temporaries(r, n) == {Staged(r, i) : i \in 1 .. n} \cup {Backup(r, i) : i \in 1 .. n}

\* finally: the temporary files are removed, file by file; refresh_overlay follows
\* an import that succeeded.
CleanUp(r) ==
    /\ work[r].at \in {"clean", "give up"}
    /\ litter' = litter \ Temporaries(r, Len(work[r].plan))
    /\ Set(r, [AtRest EXCEPT !.at = IF work[r].at = "clean" THEN "cached" ELSE "idle"])
    /\ UNCHANGED <<cloud, cache, overlay, whole, damaged, view, contexts, config, instant, left>>

\* One of them cannot be removed: it and those after it stay.
CleanUpFails(r) ==
    /\ work[r].at \in {"clean", "give up"}
    /\ \E i \in 1 .. Len(work[r].plan) :
          \/ /\ Staged(r, i) \in litter
             /\ litter' = litter \ Temporaries(r, i - 1)
          \/ /\ Backup(r, i) \in litter
             /\ litter' = litter \ (Temporaries(r, i - 1) \cup {Staged(r, i)})
    /\ Finishes(r)
    /\ UNCHANGED <<cloud, cache, overlay, whole, damaged, view, contexts, config, instant, left>>

\* Anything that is refused or fails before a temporary file is made.
Abandon(r) ==
    /\ work[r].at \notin {"idle", "backup", "commit", "sync", "rollback", "clean", "give up"}
    /\ Finishes(r)
    /\ UNCHANGED <<cloud, cache, overlay, litter, whole, damaged, view, contexts, config, instant, left>>

\* The process dies; its files stay as they are, its catalog is gone.
RuntimeDies(r) ==
    /\ work[r].at # "idle"
    /\ Finishes(r)
    /\ view' = [view EXCEPT ![r] = <<>>]
    /\ contexts' = [contexts EXCEPT ![r] = {}]
    /\ UNCHANGED <<cloud, cache, overlay, litter, whole, damaged, config, instant, left>>

----------------------------------------------------------------------------
(* _scoped_action_contexts: evidence for the actions of the catalog.       *)

\* _validated_repository_environment: the one environment that qualifies.
ValidatedEnvironment ==
    IF \E e \in LiveEnvironments : config = {e} THEN CHOOSE e \in LiveEnvironments : config = {e}
    ELSE "none"

\* A scope is asked about when its action has a semantic contract and an
\* environment; the others are answered at once, blocked.
EvidenceScopes(r, environment) ==
    {<<a, view[r][a], environment>> : a \in {b \in DOMAIN view[r] : <<b, view[r][b]>> \in Contracts}}

\* action_contexts, enriched_connector_summaries
AskContexts(r) ==
    /\ work[r].at = "idle"
    /\ left.requests > 0
    /\ left' = [left EXCEPT !.requests = @ - 1]
    /\ \E requested \in LiveEnvironments \cup {"none"} :
          LET environment == IF requested = "none" THEN ValidatedEnvironment ELSE requested
              asked == IF environment = "none" THEN {} ELSE EvidenceScopes(r, environment)
          IN  Set(r, [AtRest EXCEPT !.at = "resolve evidence",
                                  !.pending = SetToSeq(asked)])
    /\ contexts' = [contexts EXCEPT ![r] = {}]
    /\ UNCHANGED <<cloud, cache, overlay, litter, whole, damaged, view, config, instant>>

\* pending[offset : offset + _VALIDATION_BATCH_SIZE]: the next ones still to ask about.
Batch(r) ==
    LET pending == work[r].pending
    IN  SubSeq(pending, 1, IF Len(pending) < BatchSize THEN Len(pending) ELSE BatchSize)

\* What the cloud may select for a scope.
Selections ==
    {NoEvidence} \cup [scope : Actions \X Versions \X LiveEnvironments, expires : EvidenceLives]

\* A batch of scopes is sent to the cloud, which selects evidence for each, or
\* none; what it selects is not trusted.
ResolveValidations(r) ==
    /\ work[r].at = "resolve evidence"
    /\ work[r].pending # <<>>
    /\ \E answer \in [1 .. Len(Batch(r)) -> Selections] :
          Set(r, [work[r] EXCEPT !.answer = answer, !.at = "client check"])
    /\ UNCHANGED <<cloud, cache, overlay, litter, whole, damaged, view, contexts, config, instant, left>>

\* is_admissible_at
Admissible(evidence, now) == now < evidence.expires

\* CloudBrainClient.resolve_validations: one foreign selection spoils the batch,
\* an inadmissible one becomes "unavailable".
ClientCheck(r) ==
    /\ work[r].at = "client check"
    /\ LET batch == Batch(r)
           foreign == \E i \in 1 .. Len(batch) :
                         work[r].answer[i] # NoEvidence /\ work[r].answer[i].scope # batch[i]
       IN  Set(r, [work[r] EXCEPT
              !.answer = [i \in 1 .. Len(batch) |->
                             IF foreign \/ ~Admissible(@[i], instant) THEN NoEvidence ELSE @[i]],
              !.at = "runtime check"])
    /\ UNCHANGED <<cloud, cache, overlay, litter, whole, damaged, view, contexts, config, instant, left>>

\* Deviation: the runtime relies on the client's check of the time.
SelectionHoldsTimeless(evidence, scope, now) == evidence.scope = scope

\* _validate_runtime_selection: its own scope, its own contract, and in time.
SelectionHolds(evidence, scope, now) ==
    evidence.scope = scope /\ Admissible(evidence, now)

\* The runtime checks every selection again with its own clock.
RuntimeCheck(r) ==
    /\ work[r].at = "runtime check"
    /\ LET batch == Batch(r)
           held  == {i \in 1 .. Len(batch) : SelectionHolds(work[r].answer[i], batch[i], instant)}
       IN  contexts' = [contexts EXCEPT ![r] = @ \cup
              {[scope |-> batch[i], evidence |-> IF i \in held THEN work[r].answer[i] ELSE NoEvidence,
                at |-> instant] : i \in 1 .. Len(batch)}]
    /\ Set(r, [work[r] EXCEPT !.pending = SubSeq(@, BatchSize + 1, Len(@)), !.answer = <<>>,
                              !.at = "resolve evidence"])
    /\ UNCHANGED <<cloud, cache, overlay, litter, whole, damaged, view, config, instant, left>>

\* All batches answered: the contexts, or the counts made of them, are returned.
AnswerContexts(r) ==
    /\ work[r].at = "resolve evidence"
    /\ work[r].pending = <<>>
    /\ Finishes(r)
    /\ UNCHANGED <<cloud, cache, overlay, litter, whole, damaged, view, contexts, config, instant, left>>

----------------------------------------------------------------------------

\* The cloud publishes another catalog.
Publish ==
    /\ left.publications > 0
    /\ left' = [left EXCEPT !.publications = @ - 1]
    /\ \E s \in Snapshots \ {cloud} : cloud' = s
    /\ UNCHANGED <<cache, overlay, litter, whole, damaged, view, work, contexts, config, instant>>

TimePasses ==
    /\ instant < LastInstant
    /\ instant' = instant + 1
    /\ UNCHANGED <<cloud, cache, overlay, litter, whole, damaged, view, work, contexts, config, left>>

CatalogInit ==
    /\ cloud \in Snapshots
    /\ cache = NoSnapshot
    /\ overlay \in {<<>>} \cup Snapshots
    /\ litter = {}
    /\ whole = overlay
    /\ damaged = FALSE
    /\ view = [r \in Runtimes |-> overlay]
    /\ work = [r \in Runtimes |-> AtRest]
    /\ contexts = [r \in Runtimes |-> {}]
    /\ config \in SUBSET LiveEnvironments
    /\ instant = 0
    /\ left = [requests |-> MaxRequests, publications |-> MaxPublications]

CatalogStep(r) ==
    \/ RefreshCatalog(r) \/ CloudAnswers(r) \/ ReplaceGlobal(r) \/ ListGlobal(r)
    \/ ReplaceView(r)
    \/ ImportSpec(r) \/ ReadLocalSource(r) \/ RemoteStep(r) \/ RemoteChunk(r) \/ Prepare(r) \/ StageImport(r)
    \/ BackUp(r) \/ CommitOne(r) \/ SyncOne(r) \/ CommitFails(r) \/ RollBackOne(r)
    \/ RollBackFails(r) \/ StagingFails(r) \/ CleanUp(r) \/ CleanUpFails(r) \/ Abandon(r) \/ RuntimeDies(r)
    \/ AskContexts(r) \/ ResolveValidations(r) \/ ClientCheck(r) \/ RuntimeCheck(r)
    \/ AnswerContexts(r)

CatalogNext == (\E r \in Runtimes : CatalogStep(r)) \/ Publish \/ TimePasses

CatalogSpec == CatalogInit /\ [][CatalogNext]_catalogVars

----------------------------------------------------------------------------

(* An overlay that an interrupted or failed import left half written is      *)
(* never taken for the catalog: when nobody is importing, the files are      *)
(* those of the last complete import, or list_actions refuses the directory  *)
(* for what the import left in it.  There are two exceptions: a rollback     *)
(* that fails, after which the backups are removed and half an import looks  *)
(* like a whole one; and an fsync that fails after the last rename, when a   *)
(* crash during the rollback may leave half an import and no temporary file. *)
HalfImportsAreRefused ==
    NobodyImports /\ ~damaged => overlay = whole \/ ~Listable

(* Evidence shown with an action is evidence for that action, version and    *)
(* environment, under the semantic contract checked in for it, and was still *)
(* admissible when the runtime showed it: whatever the cloud answers, in     *)
(* whatever order, and however long the answer took.                         *)
EvidenceIsTheActions ==
    \A r \in Runtimes : \A c \in contexts[r] :
        /\ <<c.scope[1], c.scope[2]>> \in Contracts
        /\ c.evidence # NoEvidence => c.evidence.scope = c.scope /\ c.at < c.evidence.expires

\* What the runtime takes from its catalog is whole, and what it takes from the
\* cloud is about what it shows.
CatalogSound == HalfImportsAreRefused /\ EvidenceIsTheActions
=============================================================================
