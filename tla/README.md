# Mercury: a TLA+ development

Mercury connects an agent to Thai accounting systems (FlowAccount, PEAK). It runs
as a local runtime beside a repository of the user, and as a hosted MCP server
over a Supabase database. This directory models the parts of it in which an
ordering, a failure or a limit can make a financial write happen twice, happen
unapproved, be lost, or be reported wrongly, and the parts that decide what may
be called, by whom and on which evidence. Unless they begin with `supabase/` or
`scripts/`, paths are relative to `src/mercury_tools/`.

## 1. Inventory

| Component | State | Operations | Hard behaviour | Module |
|---|---|---|---|---|
| Request store (`execution/store.py`, `models.py`) | SQLite table of prepared requests | create_preview, get, approve, invalidate, require_ready, fail_before_dispatch, start_execution, complete, resolve_outcome_unknown, invalidate_pending | expiry written in a transaction that rolls back; several previews of one hash; several processes | WriteLedger, RequestStore |
| Executor (`execution/executor.py`, `request_builder.py`) | local variables of asyncio tasks | preview_write, confirm_write, approve_and_execute, execute_write, resolve_unknown_with_status | awaits between check and use; timeouts after the bytes left; cancellation; crash; refused audit records | LocalExecutor |
| Audit ledger (`local/audit.py`) | JSONL file and an SQLite index without journal | record, get | death between the two writes, short writes, half-applied transactions | AuditLedger |
| Operation lock (`local/operation_lock.py`) | re-entrant thread lock, file lock, depth | repository_locked | nesting, threads and processes, leaked locks | OperationLock |
| Repository and credentials (`local/repository.py`, `local/credentials.py`) | `.mercury`, config.json, secrets | bootstrap, configure, record and clear validations, save, clear, snapshot, load | directories replaced by links under a call; two processes; death at any system call | LocalRepository |
| Local catalog (`mcp/local_runtime.py`, `catalog/`, `cloud/client.py`) | snapshot under an ETag, overlay of imported actions, contexts | refresh, import, list, resolve | half an import, stale evidence, 304 after a replacement | LocalCatalog |
| Hosted previews (`execution/hosted/preview_service.py`, `store.py`) | preview and item rows | prepare, edit, load_confirmable, create_operation, transition_preview | lost answers, overlapping batches, authority that ends while the user reads | HostedPreview |
| Hosted operations (`execution/hosted/transitions.py`, `models.py`, `supabase/migrations/20260726105000_*`) | operation, item and event rows | transition_operation, transition_operation_item | contracts kept twice; compare-and-set by concurrent callers; retries | OperationStates, HostedOperation |
| Provider authorisation (`providers/oauth.py`, `store.py`, `flowaccount.py`) | OAuth states, attempts, connections, generations, envelopes | start, callback, refresh, fail, disconnect, revoke | crash between provider and store, duplicate callbacks, concurrent refresh | ProviderConnection |
| PEAK setup (`providers/peak_setup.py`) | setup attempts, sessions, cookies | issue, exchange, form, submit, disconnect | single use, two tabs, a target that moves | PeakSetup |
| Provider call (`providers/streamable_mcp.py`, `peak.py`, `execution/hosted/read_service.py`) | MCP session, deadline, certainty of dispatch | discover, validate, call, read with retries | lost request or answer, cancellation at every await | ProviderCall |
| Capability gate (`qualification/provider_mcp.py`, `artifacts.py`, `db/catalog.py`) | qualification rows, artifacts | discover, qualify, enable, retire, bind, verify | authority that changes between binding and dispatch | CapabilityGate |
| Generated tools (`mcp/generated_tools.py`) | published versions, quarantine, sessions | refresh, reconcile, call, demote, notify | schema drift, failing notifications, evicted sessions | GeneratedTools |
| V1 tools (`mcp/v1_tools.py`) | coroutines | the nine fixed tools, skill runs | the world changes at every await; cancellation; audit of what was read | SkillTools |
| Server (`mcp/server.py`, `providers/production.py`) | registry, HTTP application, polling task | configure, build, start, stop | switching surfaces; shutdown with a task that lingers | ServerLifecycle |
| Workspace store and tools (`db/product.py`, `mcp/server.py`) | product tables, audit events | connect, link, set up, validate, unlink, skills, members, flows, runs | two storages, requests without transactions | ProductStore |
| Readiness (`skills/routing.py`, `connectors/catalog.py`, `mcp/server.py`) | profiles and observations | link, validate, status, route | the same question answered in three places | ConnectorRouting |
| Identity (`auth/`) | key cache, cookies, authorizations | resolve a key, sign in, consent | stale keys, queue for a lock, two tabs | TokenKeys, Consent |
| Flow runner (`flows/`) | variables, marks, nested runs | commands, child flows, repeat, retry, suites | ERP data on its way to the cloud; previews in retries | FlowRun |
| Qualification run (`qualification/flowaccount.py`, `run_store.py`, `fixtures.py`) | run file, fixtures, request budget | run, clean up, recover, quarantine | death anywhere, unknown outcomes, order of clean-up | QualificationRun |
| Evidence (`qualification/publisher.py`, `selection.py`, `db/validation.py`, `rag/ingest.py`, `scripts/`) | evidence table, search index | review, publish, index, select | batches that fail, edited files, conflicting records | EvidencePublication |
| Reconciliation (`reconciliation/`) | none: a function | match_transactions | optimality of a flow with folded costs | Reconciliation |
| Readiness gate (`aws/readiness.py`, `identity.py`, `scripts/`) | probe files, decision, report file | record a probe, decide, check tools, account and services, finalise | the run is started again, roles and evidence change between two commands | IdentityProof, Wave0Gate |
| Risk policy, vault, drivers, orchestration models, safety, command line | none, or formats | see `PROJECT.json` | | none |

How they interact. Locally, an MCP tool calls the runtime, which calls the
executor; the executor calls the request store, the credential store and the
audit ledger, each call taking the repository's operation lock on its own, and
awaits the provider over HTTP. Other processes that share the repository run
between any two of these calls; tasks of the same process only at an await. The
runtime's catalog comes from the cloud and from imports, its evidence from the
cloud. On the hosted side the server authenticates a request (TokenKeys), runs a
tool as a coroutine (SkillTools, the publisher of GeneratedTools, the workspace
tools of ProductStore), asks the gate for authority (CapabilityGate) and calls
the provider with the tokens of a connection (ProviderCall; ProviderConnection,
PeakSetup). A preview is prepared and confirmed by functions of the database,
each of them one transaction (HostedPreview); a confirmation makes an operation,
whose documents move by compare-and-set (HostedOperation). Evidence for the gate
and for the cloud's selection is made by qualification runs and published by
operators (QualificationRun, EvidencePublication).

What makes them correct: a write is sent at most once for what was approved, is
sent only as approved and audited, and what is stored of it agrees with what the
provider did; evidence is never damaged, and is served only while it stands;
locks exclude and are not leaked; secrets stay where they belong; a preview is
confirmed at most once and only while all it was prepared under still holds; the
copies of a rule that exist twice say the same; tokens the provider honours are
in use or owed; ERP data does not reach the cloud through a flow.

## 2. Modules and how they correspond to the code

`PROJECT.json` maps every definition to the lines it stands for. A step of a
model is one transaction, one system call, one request or one stretch of code
between two awaits, whichever the code can be interrupted at.

Local side

* **WriteLedger**: abstract. Claims on payload hashes: one request at a time
  holds a hash, from before it is sent until a definite failure.
* **RequestStore**: `requests` is the table, `now` the clock. One action per
  public method, each a transaction; a method that raises after writing changes
  nothing. `Ledger` maps replay-blocking rows to claims: the refinement of
  WriteLedger.
* **LocalExecutor** extends RequestStore with processes, tasks, the catalog in
  memory, credentials, the audit records and `wire`, which says how far the bytes
  of a request got (external). `Cancel` and `Restart` end tasks. The payload hash
  is a record of what it is computed from.
* **AuditLedger**: `rows` is the JSONL file, `index` the SQLite file. `Mixtures`
  is what a transaction without a journal leaves when it does not commit.
* **OperationLock**: `owner` and `depth` per process, `file` the file lock;
  `guard` says whether the platform has flock or only the guard directory.
* **LocalRepository**: directories are known by their identity, as in the code;
  `name` and `entry` say what the paths lead to at the moment and `files` what a
  directory holds. Renames and links by others, and death, are steps between the
  system calls of bootstrap, configure, save, clear and load. The lock file belongs
  to the directory it was opened in: `holder` has a lock for each of them, and
  `crossed` remembers that a writer opened its lock in one and its file in another.
* **LocalCatalog**: `cloud`, `cache`, `overlay` and `view` are the four places a
  catalog is in. An import is a sequence of writes and renames with its rollback;
  each of them may fail, also in the rollback and in the removal of temporary files
  (`litter`); `damaged` remembers that a rollback or an fsync did. `contexts` are
  the answers with the evidence the cloud selected for them.

Hosted side

* **OperationStates**: the contracts of `transitions.py` and those of the
  migration, translated separately. **HostedOperation**: the rows of one
  operation, callers with what they read (`plan`), lost answers, an authority
  that comes and goes. **HostedPreview**: preview rows, the calls being served
  (`task`), lifetimes, the revision and usability of the connection; a document
  is its own `provider_call_hash`.
* **ProviderConnection**: `state` and `attempt` are the OAuth states and
  attempts, `conn` the row of the one company, `grant` what the provider honours
  (external), `pc` and `job` the requests being served. Lost answers are retried
  once, as `_finalize_oauth_attempt` and its siblings do; `Abandon` is the death
  of a worker.
* **PeakSetup**: setup attempts with their browser session, cookies, membership
  and the connection of each user and merchant; a submission awaits membership,
  the provider and the store.
* **ProviderCall**: one call through the read service, the driver and the
  session; `known` is the certainty the code has of the dispatch, `arrived` how many
  calls of the tool really reached the provider. The requests that open a session
  or list its tools are not counted: no certainty is about them.
* **CapabilityGate**: `rows` and `artifacts` change by the reviewers' functions;
  `call` holds the snapshot each operation reads, the artifacts it could read
  (`files`: any may be missing or unreadable at any time) and what it bound and
  verified.
* **GeneratedTools**: one event loop; whoever holds `_authority_lock` has a
  `job`. `authority` is the catalog, `retained` and `told` the sessions.
* **SkillTools**: a call is a sequence of awaits (`tool`), `sent` what the
  provider received, `written` the audit events that reached the store,
  `composition` the runtime a thread builds for the call, whether or not the call
  still awaits it.
* **ServerLifecycle**: the registry of tools, the application on a copy of it,
  its composition and polling task, from configuration to shutdown.
* **TokenKeys**: the key set that rotates, the cache and the queue for
  `_refresh_lock`. **Consent**: the cookies of the two paths in a browser's
  `jar`, what each tab shows, and the ruling of the authorization server
  (external).

Around both

* **ProductStore**: a workspace in two storages; every request of an operation is
  a step, and the tables come and go. **ConnectorRouting**: profiles, the
  observations behind them, and the answers of the tools that read them.
* **FlowRun**: `frames` is the stack of running flows. The flow is not fixed:
  every command that may come next may come. Values are told apart by whether an
  ERP read returned them. The code's marks go with variables, outputs and keys of
  env; what a value holds though no mark stands for it is `loose` (summaries of
  steps, messages of failed attempts, the condition of a repeat), and `escaped` says
  that such a value, a value saved as env or an env that is one template went on
  without a mark. **QualificationRun**: `policy` is
  the reviewed manifest, `runDisk` the run file, `runner` the process.
* **EvidencePublication**: `table` is append-only, `index` the search index,
  `worker` the publishing processes, `lookup` a request for evidence. A reviewed
  file holds records and the reports they were made from, and either may be edited
  before it is published; `accepted` are the reports of the files that revalidated.
* **IdentityProof**: the raw evidence and probe files, the decide command, which
  reads the probes file by file, and the decision with the digests it holds.
  **Wave0Gate** extends it with the script that builds the readiness report and
  finalises it command by command (`gate`), which reads probes and evidence file by
  file too; the report file, which stores the digest of the decision; the steps of
  the pinned workflow (`.github/workflows/aws-wave0-oidc-smoke.yml`); and what GitHub
  and the cloud answer meanwhile (external).
* **Reconciliation**: one call of match_transactions, with its network, residual
  edges, potentials and search as state.

**MC...** modules fix finite instances. MCLocal, MCHosted, MCGateway, MCProgress
and MCWorkshop each hold several components that share a subject and no state: a
behaviour belongs to the one named by `component`, chosen initially, while the
others rest in an initial state. Their state space is the sum, not the product,
of the components', and a property of one component holds in all behaviours
trivially except its own. ***Proofs** modules hold the theorems.

Definitions named as a deviation are the plausible mistakes the properties are
validated against: each property fails when a deviation replaces the definition
it deviates from (`mutants` in `PROJECT.json`).

## 3. Runs

| Run | Instance | Shows |
|---|---|---|
| `local` | store: 3 requests over 2 bindings, TTL 1, clock to 1; ledger: 2 processes, 3 ids, 4 rows; repository: 2 processes, 2 directories and one outside, 2 profiles, 2 calls, 1 act of meddling; catalog: 2 runtimes, 2 actions in 2 versions, 2 requests, 1 publication | one blocking row per hash, expiry is final, history is immutable, the table implements WriteLedger; the ledger can be relied on after any death; secrets stay inside `.mercury` and go to named hosts only, and who was told that a credential is stored finds it unless a writer's lock and file lay in different directories (one property, `SecretsGuarded`); unless a rollback or an fsync failed half an import is refused, and evidence is about the action it is shown with |
| `executor_processes` | 2 processes with a task each, 2 requests of one payload, a restart of each | no replay after a possible dispatch; every dispatch is audited; what is stored is true |
| `executor_loop` | 2 tasks of one process, 2 secrets, 2 catalog versions, a preflight, expiry, a fair loop | what is sent is owned, approved and audited as approved; every call returns |
| `hosted` | operation: 2 documents, 2 callers, lost answers; preview: 4 requests over 2 documents, 2 clients, 2 revisions | rows stay readable for the Python models; a document is dispatched once, on seen state and under authority; documents are previewed once, answers agree, confirmations happen under authority |
| `provider_connection` | 2 authorisations of a company, 3 workers, refreshes below revision 4 | tokens are in use or owed until handed over; one worker handles a callback and the connection in use holds working tokens of its own generation; late failures and repeated disconnects disturb nothing |
| `gateway` | 2 users with 2 setups, merchants and submissions; 2 rows, companies and artifacts; a skill of 2 reads over 3 rows and 2 connections; 3 switches of the surface and 2 polls; 2 keys, 2 rotations and 2 verifications over 3 seconds; 2 tabs, 2 sign-ins | a setup makes one connection and overwrites none; what is called is what was bound, on evidence that counts and can be read; skill runs audit and answer what the provider was asked, and close the runtime they were given; the tools are those of the surface and stay cleared; withdrawn keys die in time and fetches are spaced; tabs and pages agree with the recorded ruling |
| `progress` | lock: 3 threads in 2 processes, one nested call; tools: one version, 2 sessions of which one is remembered, one reader, 2 changes; call: 3 attempts, deadline 4 | exclusion and no stale flock; callers are answered; a drifted version is withdrawn, its quarantine ends and sessions hear of changes; a call ends and reports the truth about its dispatch |
| `workshop` | flows of 3 commands nested twice, one repetition and retry; 3 actions, 2 fixtures, 4 requests, 2 openings; 2 clients with 2 calls and one loss or return of the tables; 2 profile changes over 3 modes; 406 inputs of up to three rows against up to three under 2 policies; 2 publishers, 4 reports, one mishap; 2 attempts of a GitHub run, 2 accounts, 2 probes, edits and outside events on top of settled ones | a workspace's evidence is of one piece, and a flow or run it was told of can be read where it was put; skills are routed on observations only, whatever their order; the matching is the best there is and accounts for every row; what is published follows from the reports of a file that revalidated, what is served stands; ERP data stays local as far as the marks follow it and a preview is the last step; a qualification run publishes what it earned, cleans up in order, and its quarantine is final; the gate is reported ready only on evidence of one attempt and account, and blocked only for its cause |
| `payload_replayed`, `execution_stuck`, `event_tie`, `revocation_forgotten` | the smallest instances that show them | section 4 |

Bounds. Two requests of one payload are enough for a replay, three for the
symmetric cases of the store; a deadline of one tick has a row before, at and
after it. One restart separates two lives of a process. Four rows let two calls
fail and two succeed around them in the ledger. One act of meddling puts a link or
another directory at every point of a call, and two calls are a writer and
somebody it can disturb. Two documents give a document every state its siblings
can be in. The four preview requests are a document, the same with other notes,
another document and the batch of both; the connection is replaced only while at
most one preview is stored (`ReconnectBound`), since a second one meets the same
checks. Two authorisations are an older and a newer generation, three workers a
callback, a refresh and a disconnect at once, and revision 4 lets a generation be
finalised, acknowledged and refreshed twice. In the gate an evidence life of one
tick expires between any two steps; one change of the world during a skill run can
fall on every await. Three switches of the surface return to each once. Three
seconds hold a cache life and the fetch before it with one to spare, and a
cool-down. One remembered session of two forces an eviction. A flow of three
commands can read, pass on and send; a depth of two passes a value through a child
and back. `MaxCommands` counts the commands of a flow with those of the flow that
waits for it, and the outputs of ERP reads and child flows only are saved as env
(`EnvSavers`); those are the ones with something to lose. Two openings are a run
and its resumption. A workspace begins with a linked profile and a saved flow, or
with neither. Time passes for requests of evidence only, which alone read the
clock, and no step follows an answer about connectors, which changes nothing: both
leave out interleavings, not answers. The inputs of the matching contain ties,
duplicates, rows that are refused, and a cycle of pairs in which augmenting must
take pairs back. Symmetry is used for documents, workers, attempts, tasks and
pairs of interchangeable values, never in a run with a liveness property.

Deadlock is not reported where a system that has used up its requests, rows,
calls or ids may stop; `TasksReturn`, `CallersServed` and `CallAccountedFor` say
of the running parts that they come to an end.

Fairness. `executor_loop` and `execution_stuck`: strong fairness of each task's
continuation, because the event loop is first-in first-out and every await is
bounded by the timeouts of the HTTP client. In `progress`, each for the behaviours
of its component: strong fairness of taking and leaving the lock (methods end,
and a lock that is free again and again is obtained) and, for the guard
directory only, weak fairness of the end of the wait, which has a deadline of
five seconds; of the polling loop, strong fairness of the steps that await the
catalog (a catalog that answers again and again is read) and weak fairness of
those that do not; of a call, weak fairness of the clock, of the deadline and of
the read service's own steps. Errors, crashes, cancellations, lost messages and
the decisions of providers, users and reviewers are never fair.

## 4. Disagreements between the code and what is said of it

* `payload_replayed`: the hash that blocks a replay includes a revision keyed by
  a per-process key, so after a restart the same write with the same secret is
  not blocked by the unknown outcome of the first.
* `execution_stuck`: an exception of `client.send` other than a transport or
  policy error leaves the row executing for ever.
* `event_tie`: events are read in the order of (time, random id), the models
  take the last one for current, and equal times are accepted: a committed
  operation may be unreadable.
* `revocation_forgotten`: the header factory seals refreshed tokens without the
  revocation endpoint, so a disconnect after a refresh deletes tokens that still
  work and neither revokes them nor notes that it should.

## 5. Proofs

All theorems hold for every value of the constants that satisfies the named
assumptions of the modules: any number of processes, tasks, workers, tabs, rows
and requests, and any value of the bounds. The assumptions say that bounds are
numbers, that sentinels (None, Missing, Absent, "link", "free" ...) are no members
of the sets they stand beside, and that sets over which the code iterates are
finite. Each theorem `Spec => []P` has the same shape: an inductive invariant
that TLC also checked on the instance of the run, one lemma for each action (or
for each shape of an action), and a temporal step.

* **LocalExecutorProofs**. First the request store alone: `StoreTypeCorrect`,
  `FieldsAlwaysValid`, `ReplayBlocked`, `ExpiryIsFinal`, `HistoryKept`,
  `StoreImplementsLedger`. The inductive invariant is StoreInv = types, valid
  fields and one blocking row per hash. Field validity is needed because a row
  becomes blocking from ready_to_execute only, and its type because rows are
  updated field by field. `StepShapes` reduces every method to three shapes
  (nothing, one row changed in an allowed way, one row added) and the theorems are
  proved over the shapes; the refinement maps each shape to a ledger step or a
  stutter. Then the executor, each of whose steps on the table is a call of
  RequestStore (lemma TypeNext), so the invariant of the store carries over.
  `ExecutionsAreOwned`: a task past start_execution has its row to itself.
  `DispatchIsFenced`: binding, secret and catalog versions of what is sent are
  those of the approval. `OutcomesAreTruthful`, `NeverReplayed` and
  `DispatchesAreAudited` relate the stored state, the wire and the audit records.
  The invariant says of each label of a task what it knows of its row, of the wire
  and of the ledger; truthful outcomes alone are not inductive, because between
  the send and the write of its outcome the only witness is the task, and after a
  crash there is none. `ExecutionsAreGuarded` is about one process (its hypothesis
  `SingleProcess`): with two, an approval can be executed before its audit record
  is written (section 7).
* **LocalProofs**. `LedgerStaysTrustworthy`: the index may lack rows after a
  crash, but no entry it has is wrong whatever a half-applied transaction mixed,
  and an index as long as the file without a wrong entry covers the file
  (`TrustedIndexCovers`, a counting argument). `CatalogStaysSound`: an import in
  progress has left the old files, or a trace that makes the next reader refuse,
  as long as no rollback or fsync failed; evidence is followed from the batch it
  was asked in to the context it is shown with. `SecretsStayGuarded`: what each
  process knows of its directory at each of its system calls (ProcFits): once a
  directory is opened under its own identity, renames and links move names only,
  never what is written to; and a writer whose lock lies in the directory it
  writes to is alone there.
* **OperationLockProofs**: `LockTypes`, `LockExclusive`, `LockNeverStale` and
  their conjunction `LockIsSound`, from LockInv = types, custody and NoStaleLock.
  Custody relates the four places the lock is recorded in: a thread past the
  thread lock owns it, a thread inside has its process on the file and a depth of
  at least one, and depth is zero otherwise. Exclusion alone is not inductive.
* **HostedProofs**. Operations: `ParentContractsAgree` and `ItemContractsAgree`
  prove the SQL and Python contracts equal for all arguments, and from them
  `ContractsAgreeAlways`. `OperationsReadable`, `DocumentsDispatchedOnce`,
  `DecisionsOnSeenState` and `DispatchesAuthorised` follow from OperationInv =
  types, readability, SentOnce (a document that was dispatched once is in a state
  from which it cannot be dispatched again) and PlansSound (a plan with the
  present version has seen the present state). Previews:
  `DocumentsArePreviewedOnce`, `ClientsAreAnsweredAlike` and
  `ConfirmationsAreAuthorised` from PreviewInv, which adds what each call being
  served has read (TaskKnows) and that the ids two calls have drawn differ
  (IdsApart).
* **ProviderConnectionProofs**: `PendingGrantsStayOwed`, `ConnectionStaysCoherent`
  and `ConnectionStaysUndisturbed` from ConnectionInv: what a worker at each label
  knows (Knows), what the row of an attempt says of the provider's grant (Ledger),
  and that the connection's generation is an attempt that was handed over to it
  (ConnectionOwned).
* **GatewayProofs**: `ToolsStayExact`, `ConsentStaysCoherent`, `SetupStaysSafe`,
  `KeysStayCurrent`, `CallsStayAsBound` and `RunsStayHonest`, each from an
  invariant that adds what a request in flight knows: the stash of legacy tools is
  whole or untouched; a tab that decides has an authorization and a decision; a
  connection was made by a setup that is spent; a set of keys on its way was
  published after it was asked for, and a cache does not outlive its keys' last
  publication by more than a cache life and a fetch; a row and every snapshot of
  it carry evidence exactly in the states that need it; and, for RunsInv, at each
  await of a tool call the reads sent, the outcomes collected and the audit events
  written are those of the steps behind it (CallSound), cancelled or not. HeldInv,
  beside it, says of the thread that builds a runtime and of the call which of them
  knows it.
* **WorkshopProofs**. `RoutingTheorem`, from RoutingInv: a stored status is the
  one its observations amount to, only evidence the connector accepts was kept,
  and a routed skill finds what it requires in what was observed.
  `WorkspaceTheorem`, from ProductInv: every profile stored, read or put into an
  event is coherent, a call that runs a flow has read a validated one, what was
  answered to be saved is in the events, and a run answered as recorded is in the
  storage that took it. `EvidenceTheorem`, from EvidenceInv: each row of the table
  follows from a reviewable report of a file that was accepted, a publisher in the
  middle of its batches and an indexer in the middle of a document have written
  exactly what their position says (WorkerSound), and a lookup in progress has
  counted only rows that were there (LookupSound). `GateTheorem`, from GateInv: at
  each phase the readiness script knows certain things of the run, the role and
  the probes (ScriptSound); checks are made in the expected order; what the pinned
  workflow uploads is the truth about its attempt, however the run is repeated
  (AttemptsKept); recorded probes are finitely many and fit their mode
  (IdentityKept).
* **RunProofs**. `QualificationTheorem`, from QualificationInv: requests go out in
  the order of the plan, one for an action at most (SentInOrder); unless the run
  was stopped, what was sent has its outcome on record or is about to
  (OutcomesRecorded); a process knows its file as long as it trusts it, and a run
  that was left is quarantined or will be (FileKnown); fixtures were cleaned in the
  coordinator's order (CleanedInOrder); and only a process that is through has
  answered (AnswersEarned). The plan, a topological
  order computed by repetition, is characterised by lemmas on the least element of
  a set of numbers, from the library's theorem that such an element exists (WFMin)
  instead of its induction theorems.
  `FlowTheorem`, from FlowInv: wherever a value of an ERP read lies in the frames
  of nested flows (env, saved variables, artifacts, the env given to a child, what
  a repeat has seen) a mark can be seen there, until a value goes where marks do not
  follow it (FlowMarked, `escaped`); every frame below a retry knows of it
  (RetryKnown); and after a preview the flow is returning its confirmation or raising
  past frames none of which retries (Previewed). Marks alone do not
  bound what may happen: a `loose` value is marked only when something it is saved
  with is, so the invariant stops at the step that saves it without (SavedUnmarked)
  or hands env on past the marks (Unlooked).
  `RowsTheorem`, from RowsInv: of the rows with one duplicate key exactly one is
  kept, the least, and every row is kept or set aside, never both (Partitioned);
  candidates are pairs of kept rows; so whatever pairs the search assigns, the
  groups of the result account for every row (Accounted). It is the part
  `RowsAccounted` of ReconciliationExact, for any rows and policy.

What the proofs changed. Proving CatalogSound for every batch size showed that
`Batch` took too much when fewer scopes than a batch are left; it takes the rest
now. KeysCurrent was stated of every accepted token and is not true of one that
waits for the refresh lock, however long the wait: the age of a key counts from
when the token's key is looked up, and section 7 notes the wait.

A flow runner is assumed to have ERP callbacks or a capability gate, not both
(FlowAssumption). No caller in the repository builds one with both; with both the
theorem would be false, because the result of a flow that a capability blocked
carries its variables without saying that they are marked (`CapabilityResult`).
The other assumptions the proofs added to the workshop modules say what the code
takes for granted: rows are given in finite sequences with comparable identifiers,
reports and flows are finite sets, checks have distinct names,
there is a service to check, accounts are not called "none", and evidence that was
there before is evidence of a reviewable report.

Only model-checked: the part `MatchingOptimal` of `ReconciliationExact`, because
that repeated shortest augmenting paths end in a matching of least cost is an
induction over the paths and over folds of sums, which no installed prover can
carry out; that the pairs share no row rests on the same paths. Out of the
prover's reach as well are the liveness properties (`TasksReturn`,
`CallersServed`, the second halves of `ToolsFollowCatalog` and
`CallAccountedFor`), and what the violation runs show. GeneratedTools and
ProviderCall, whose properties are mostly of that kind, and the order of a suite of
flows (`OrderedSelected`), about which no property speaks, have no theorem.

## 6. What is not modelled

* Of the local side: the upgrade of the request table from schema 1; clocks that
  go backwards; a provider whose status read answers from a stale replica, and
  status inputs that name another write (`status_inputs` are static inputs of the
  request, `execution/executor.py:518`: the model takes the read they make to
  answer for the very request that was sent); the variant of the repository code
  for systems without `dir_fd`; two importers at once; parsing of specifications.
* Of the hosted side: the dispatcher of operations, which no code of the
  repository contains yet, so callers ask for any transition, and the authority is
  re-checked for the parent only; the preview state `prepared`, which the database
  does not let anyone store; a call hash includes the capability version and
  uniqueness is per connection, so a document prepared under a new version or on
  another connection is another document.
* Of provider authorisation: discovery of endpoints and the network guard; the
  row of the setup attempt that `create` also writes; the in-memory stores, which
  repeat the SQL functions; comparisons of `target_revision`, which hold whenever
  the generation does; a provider without a revocation endpoint, whose obligations
  stay on record.
* Of qualification: the PEAK run, which keeps no state file; `record_observation`
  and the coverage report; shapes of responses.
* Of flows: template syntax, comparison operators, report texts; names given to
  saveAs or to env that contain dots, and a key of env named "env"; what a flow
  tells by which commands it ran. The ERP callbacks are taken to raise fixed codes.
* Exchange of `cache/` or `operation.lock` inside a `.mercury` that stays, which
  separates two writers just as an exchange of `.mercury` does. The other models of
  the local side make a locked method one step, and OperationLock has one lock file:
  both suppose that the directory of the lock stays.
* Of the workspace tools: `import_workspace_flows`, which repeats `save_flow` for
  each of its flows; the tools that only read.
* Formats, amounts, redaction, encryption, signatures and SQL privileges
  throughout: they are data to the properties.
* Components without a module, with reasons, are listed in `PROJECT.json`.

By design, and visible in the models: a fragment left in the audit file makes
every later call refuse (it fails closed); a guard directory left by a crash
makes every caller time out; an expired or cancelled preview keeps its call hash.

## 7. Also visible in the models, without a run of their own

No document or test of the repository says otherwise of these, so no property
claims it.

Local side

* An approval is durable before its audit record is written; in between another
  process may execute it, so a refused record can come after the write was sent.
* A crash during an import leaves `.catalog-*.tmp` behind, and list_actions raises
  until it is removed; a failing fsync followed by a crash in the rollback leaves
  half an import. So does a rollback that fails: `write_import` removes the
  backups then, and nothing tells the half import from a whole one
  (`catalog/local_store.py:47`, `:150`). A 304 is answered from the cache as
  another runtime left it.
* The lock file lies in `.mercury` (`local/operation_lock.py:121`). When the directory
  is exchanged between a writer's opening of the lock and of credentials.env, two
  writers hold different locks at one file, and the credential one of them was told
  is stored may be lost (`crossed`).
* The default config is renamed over one that was written meanwhile; configure,
  record and clear of validations read, change and rewrite config.json without
  the lock; configure keeps the validations of the old record.

Operations, previews and connections

* Sets of children under which an operation has no transition left: under
  outcome_unknown, succeeded with not_dispatched or with provider_rejected; under
  dispatching, succeeded with not_dispatched, or all not_dispatched; under
  awaiting_confirmation, expired with failed_pre_dispatch. A failed_pre_dispatch
  operation with a not_dispatched child can be cancelled, not retried. An
  operation closed as provider_rejected keeps an unknown document unknown.
* A worker that dies between finalise and acknowledge leaves a connection in
  requires_validation that cannot be loaded, disconnected or reconnected; a
  revocation that failed once blocks reconnection and is not tried again. A
  disconnect that loaded generation A, and runs on after another worker
  disconnected A and reconnected B, deletes B's tokens, revokes A's and clears the
  obligation it had noted for B.
* After a disconnect `provider_revocation_required` stays set, so a PEAK merchant
  cannot be connected again by the same user; a membership that is lost after the
  exchange leaves the setup spent.

Calls, tools and server

* A PEAK validate_connection reports NOT_DISPATCHED for an invalid profile after
  the read that fetched it was dispatched.
* Exact binding asks all rows of a version to be equivalent
  (`qualification/provider_mcp.py:656`), so renewed evidence makes it unavailable
  until the older row is retired. A row whose artifact is missing or cannot be read
  does not count (`:494`), so of two enabled rows that exclude one another the other
  one is bound meanwhile. Disabling a version fails on rows that are
  neither enabled nor disabled for a schema change.
* A catalog snapshot loaded before a drift can release the quarantine of a drift
  found after the version was enabled anew; the tombstone still blocks it. A
  session that was evicted after a failed notification and is remembered again is
  not told of the change it missed; a notification that resists cancellation holds
  its place.
* A token that queues for the refresh of an unknown key may find its key in a set
  that expired while it waited, which is then used without asking for its age.
* A runtime that a thread builds for a call is never closed when the call is
  cancelled before it is given the runtime (`mcp/v1_tools.py:191`, `:1716`).
* The audit of a skill run that is cancelled while it writes may hold both events;
  get_capability_schema fails as a whole when one listed connection disappears;
  two enabled versions of a capability make its skills unavailable.
* A composition that fails half-way leaves HTTP clients open, and aclose stops at
  the first resource that fails.

Workshop

* ERP data leaves the marks of a flow by five routes: the summaries of the steps of a
  child that marked nothing (`${child.steps}`: an ERP read that is not saved shows in
  them, `flows/runner.py:509`, `:875`); a value saved as env, which the marks of a
  child do not look up (`:86`, `:820`); an env that is one template; the messages of
  the failed attempts of a retry; and the condition of a repeat. Branches on ERP data
  are not tracked; a child blocked by a capability returns unmarked and counts as ok.
* A clean-up that fails is quarantined as cleanup_failed before the run is reported.
  A qualification run stopped by a rate limit or its budget skips the clean-up; a
  read that was never sent is recorded as live_failed.
* validate checks that a profile is linked and then upserts it, so an unlink in
  between is undone; inviting an active member resets it to invited; an event of
  the fallback without a workspace key is never found; profiles in the two
  storages diverge when the tables come back, and a run recorded in one of them is
  not shown by a dashboard that reads the other; a dashboard lists the twelve latest
  runs only; relinking without a company keeps
  the old one.
* Revalidation reviews the reports in the reviewed file and compares the records with
  the result (`qualification/publisher.py:186`): a file in which both are changed
  alike, or whose reviewer role is, is published as changed. The model edits
  statuses, which stand for every field.
* QUARANTINE is unreachable for published evidence; a live_failed record without
  expiry blocks its scope for ever; a failed update of an indexed page deletes its
  chunks and keeps its hash, so that a text which is changed back is skipped and
  cannot be found (`db/supabase.py:239`, `rag/ingest.py:32`).

## 8. Plan

1. Done: the modules of section 2 with their runs, and the proofs of section 5.
2. Later: an abstract specification of the provider connection ("at most one
   generation of tokens is in use and none is lost") and its composition with
   HostedPreview, whose Reconnect and UsabilityChanges it explains; a theorem about
   the order of a suite of flows.
