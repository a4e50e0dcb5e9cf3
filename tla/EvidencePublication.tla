------------------------- MODULE EvidencePublication -------------------------
(***************************************************************************)
(* How endpoint validation evidence becomes public.  A qualification       *)
(* report is reviewed (scripts/review_validation_knowledge.py and          *)
(* qualification/publisher.py), the reviewed file is published             *)
(* (scripts/publish_validation_knowledge.py, db/validation.py), its        *)
(* documents and the wiki are indexed for search (rag/ingest.py and        *)
(* db/supabase.py), and the cloud selects evidence for a request           *)
(* (qualification/selection.py, cloud/api.py).  Operators publish from     *)
(* several machines, requests to the database fail or lose their answer,   *)
(* and a publication may be started again.  One connector in one           *)
(* environment; the evidence table is append-only.                         *)
(***************************************************************************)
EXTENDS Integers, FiniteSets, Sequences, SequencesExt

CONSTANTS
    Publishers,  \* operators' processes
    Catalog,     \* the action versions of the connector, numbered
    Reports,     \* qualification reports, one of which a process reviews
    Earlier,     \* reports that may be public from the start
    Roles,       \* reviewer roles an operator may name
    BatchSize,   \* VALIDATION_PUBLISH_BATCH_SIZE
    Pieces,      \* chunk batches of a document
    Texts,       \* texts the wiki page may have
    LastInstant, MaxMishaps, MaxTasks

REVIEWER_ROLES == {"release_reviewer", "accountant_reviewer"}
RecordStatuses == {"live_success", "contract_validated", "live_failed", "blocked", "outcome_unknown"}
BLOCKING_STATUSES == {"live_failed", "blocked", "outcome_unknown"}

(* A record as a run reports it, nobody having approved it; it expires at  *)
(* no instant or at one.                                                   *)
RunStates == {"completed", "failed", "quarantined"}
Findings ==
    [action : Nat, run : Nat, status : RecordStatuses, state : RunStates,
     evaluated : Nat, expires : SUBSET Nat, approved : {FALSE}, reviewer : {"none"}]

ASSUME EvidenceAssumption ==
    /\ BatchSize \in Nat \ {0}
    /\ Pieces \in Nat \ {0}
    /\ {LastInstant, MaxMishaps, MaxTasks} \subseteq Nat
    /\ Catalog \subseteq Nat /\ Texts # {}
    /\ Reports \subseteq [run : Nat, state : RunStates, records : SUBSET Findings]
    /\ \A report \in Reports : IsFiniteSet(report.records)

VARIABLES
    clock,
    table,     \* erp_action_validation_knowledge
    index,     \* index[uri]: the recorded hash and the chunks of a document
    page,      \* the text of the wiki page
    worker,    \* worker[p]: the process of a publisher
    accepted,  \* history: the reports in files that were accepted for publication
    lookup,    \* a request to resolve evidence and its answer
    budget     \* failures and edits, and calls left

evidenceVars == <<clock, table, index, page, worker, accepted, lookup, budget>>

WikiUri == <<"wiki">>

Unemployed == [at |-> "idle", reports |-> {}, role |-> "none", records |-> {}, known |-> {},
         todo |-> <<>>, created |-> {}, document |-> <<>>, piece |-> 0]
NoSelection == [selected |-> {}, blockers |-> {}]
NoLookup == [at |-> "idle", action |-> "none", instant |-> 0, before |-> {}, records |-> {},
             selection |-> NoSelection, selected |-> {}, blockers |-> {}]
NoDocument == [hash |-> <<"none">>, chunks |-> {}]

Uris == {WikiUri} \union {<<r.action, r.run>> : r \in UNION {report.records : report \in Reports}}

Spend(what) == budget[what] > 0 /\ budget' = [budget EXCEPT ![what] = @ - 1]

-----------------------------------------------------------------------------
(* Review *)

(* review_validation_report: only a completed run whose records cover the  *)
(* catalog exactly, none of unknown outcome, is reviewable.                *)
Reviewable(report, role) ==
    /\ role \in REVIEWER_ROLES
    /\ report.state = "completed"
    /\ \A r \in report.records : /\ r.state = "completed"
                                 /\ r.status # "outcome_unknown"
                                 /\ r.run = report.run
    /\ {r.action : r \in report.records} = Catalog
    /\ Cardinality(report.records) = Cardinality(Catalog)

(* A report that was published before passed its review. *)
ASSUME EarlierAssumption ==
    /\ Earlier \subseteq Reports
    /\ \A report \in Earlier : Reviewable(report, "release_reviewer")

Promote(record, role) == [record EXCEPT !.approved = TRUE, !.reviewer = role]

Promoted(reports, role) ==
    {Promote(r, role) : r \in UNION {report.records : report \in reports}}

(* Nothing, or reports reviewed earlier, are public. *)
EvidenceInit ==
    /\ clock = 0
    /\ accepted \in SUBSET Earlier
    /\ table = Promoted(accepted, "release_reviewer")
    /\ index = [u \in Uris |-> NoDocument]
    /\ page = CHOOSE text \in Texts : TRUE
    /\ worker = [p \in Publishers |-> Unemployed]
    /\ lookup = NoLookup
    /\ budget = [mishaps |-> MaxMishaps, calls |-> MaxTasks]

(* review_inputs and write_reviewed_report: the reviewed file holds the    *)
(* promoted records and the report they come from.                         *)
Review(p) ==
    /\ worker[p].at = "idle"
    /\ Spend("calls")
    /\ \E report \in Reports, role \in Roles :
          IF Reviewable(report, role)
          THEN worker' = [worker EXCEPT ![p] = [Unemployed EXCEPT !.at = "reviewed", !.role = role,
                             !.reports = {report}, !.records = Promoted({report}, role)]]
          ELSE UNCHANGED worker
    /\ UNCHANGED <<clock, table, index, page, accepted, lookup>>

(* The reviewed file is a file: before it is published a status may be     *)
(* changed in its records, in the report embedded in it, or in both alike. *)
EditReviewedFile(p) ==
    /\ worker[p].at = "reviewed"
    /\ Spend("mishaps")
    /\ \E report \in worker[p].reports : \E f \in report.records, s \in RecordStatuses :
          LET w == worker[p]
              g == [f EXCEPT !.status = s]
              records == (w.records \ {Promote(f, w.role)}) \union {Promote(g, w.role)}
              reports == (w.reports \ {report})
                         \union {[report EXCEPT !.records = (@ \ {f}) \union {g}]}
          IN  \/ worker' = [worker EXCEPT ![p].records = records]
              \/ worker' = [worker EXCEPT ![p].reports = reports]
              \/ worker' = [worker EXCEPT ![p].records = records, ![p].reports = reports]
    /\ UNCHANGED <<clock, table, index, page, accepted, lookup>>

(* revalidate_reviewed_report: the reports embedded in the file are        *)
(* reviewed again and must give its records.                               *)
Revalidated(w) ==
    /\ w.role \in REVIEWER_ROLES
    /\ w.reports # {}
    /\ \A r \in w.records : r.approved
    /\ \A report \in w.reports : Reviewable(report, w.role)
    /\ Promoted(w.reports, w.role) = w.records

-----------------------------------------------------------------------------
(* Publication *)

Identity(record) == <<record.action, record.run>>

(* _validation_batches, in the order of identities. *)
Batches(records) ==
    LET before(r) == Cardinality({other \in records : other.action < r.action})
    IN  [i \in 1..((Cardinality(records) + BatchSize - 1) \div BatchSize) |->
            {r \in records : before(r) \div BatchSize = i - 1}]

(* _validation_get_batches: the identities one request can name. *)
GetBatches(records) == Batches(records)

(* _validated_validation and _validated_publish_batch: evidence that       *)
(* expires lives for some time, and two records of one identity are one    *)
(* record.                                                                 *)
WellFormed(record) == \A t \in record.expires : record.evaluated < t

Coherent(records) ==
    /\ \A r \in records : WellFormed(r)
    /\ \A r, other \in records : Identity(r) = Identity(other) => r = other

(* publish_reviewed_report up to the store: a file that does not           *)
(* revalidate is refused.                                                  *)
StartPublication(p) ==
    /\ worker[p].at = "reviewed"
    /\ LET w == worker[p]
       IN  IF Revalidated(w) /\ Coherent(w.records)
           THEN /\ worker' = [worker EXCEPT ![p] =
                      [w EXCEPT !.at = "existing", !.known = {}, !.created = {},
                                !.todo = GetBatches(w.records)]]
                /\ accepted' = accepted \union w.reports
           ELSE /\ worker' = [worker EXCEPT ![p].at = "failed"]
                /\ UNCHANGED accepted
    /\ UNCHANGED <<clock, table, index, page, lookup, budget>>

Matching(records) == {row \in table : \E r \in records : Identity(row) = Identity(r)}

(* _existing_validations, a batch at a time. *)
ReadExisting(p) ==
    /\ worker[p].at = "existing"
    /\ worker[p].todo # <<>>
    /\ worker' = [worker EXCEPT ![p].known = @ \union Matching(Head(worker[p].todo)),
                                ![p].todo = Tail(@)]
    /\ UNCHANGED <<clock, table, index, page, accepted, lookup, budget>>

Conflict(known, records) ==
    \E row \in known, r \in records : Identity(row) = Identity(r) /\ row # r

(* A record that is there must be the same; the others are pending. *)
ChoosePending(p) ==
    LET w == worker[p]
        pending == {r \in w.records : \A row \in w.known : Identity(row) # Identity(r)}
    IN  /\ w.at = "existing"
        /\ w.todo = <<>>
        /\ worker' = [worker EXCEPT ![p] =
                        IF Conflict(w.known, w.records) THEN [w EXCEPT !.at = "failed"]
                        ELSE [w EXCEPT !.at = "posting", !.todo = Batches(pending)]]
        /\ UNCHANGED <<clock, table, index, page, accepted, lookup, budget>>

(* One POST: rows whose identity is taken are ignored, the others are      *)
(* inserted and returned.                                                  *)
PostBatch(p) ==
    LET w == worker[p]
        new == {r \in Head(w.todo) : Matching({r}) = {}}
    IN  /\ w.at = "posting"
        /\ w.todo # <<>>
        /\ table' = table \union new
        /\ worker' = [worker EXCEPT ![p].todo = Tail(@), ![p].created = @ \union new]
        /\ UNCHANGED <<clock, index, page, accepted, lookup, budget>>

(* Deviation: a row another publisher inserted first is taken for ours. *)
NobodyElse(w) == {}

(* The records of the batches posted that came back neither now nor in the *)
(* first look.                                                             *)
Unresolved(w) == {r \in w.records : r \notin w.created /\ r \notin w.known}

(* The rows the posts ignored are read again and compared. *)
Recheck(p) ==
    LET w == worker[p]
        unresolved == Unresolved(w)
    IN  /\ w.at = "posting"
        /\ w.todo = <<>>
        /\ worker' = [worker EXCEPT ![p] =
                        IF \A r \in unresolved : r \in table
                        THEN [w EXCEPT !.at = "published"] ELSE [w EXCEPT !.at = "failed"]]
        /\ UNCHANGED <<clock, table, index, page, accepted, lookup, budget>>

-----------------------------------------------------------------------------
(* Indexing *)

(* The hash of a document and the chunks it is cut into. *)
Hash(text) == <<"done", text>>
Incomplete(hash) == <<"incomplete", hash[2]>>

Document(uri, text) == [uri |-> uri, hash |-> Hash(text)]

(* validation_documents: one document for an approved, completed record. *)
DocumentsOf(records) ==
    SetToSeq({Document(Identity(r), r.status) :
                r \in {x \in records : x.approved /\ x.state = "completed"}})

(* publish_reviewed_report with --ingest-rag, or without. *)
IngestPublished(p) ==
    /\ worker[p].at = "published"
    /\ \/ worker' = [worker EXCEPT ![p] = [@ EXCEPT !.at = "compare",
                                               !.todo = DocumentsOf(worker[p].records)]]
       \/ worker' = [worker EXCEPT ![p] = Unemployed]
    /\ UNCHANGED <<clock, table, index, page, accepted, lookup, budget>>

(* ingest_wiki *)
IngestWiki(p) ==
    /\ worker[p].at = "idle"
    /\ Spend("calls")
    /\ worker' = [worker EXCEPT ![p] = [Unemployed EXCEPT !.at = "compare",
                                           !.todo = <<Document(WikiUri, page)>>]]
    /\ UNCHANGED <<clock, table, index, page, accepted, lookup>>

(* ingest_documents: the recorded hash is that of the document. *)
Unchanged(recorded, document) == recorded.hash = document.hash

Skip(p) ==
    LET w == worker[p]
        document == Head(w.todo)
    IN  /\ w.at = "compare"
        /\ w.todo # <<>>
        /\ Unchanged(index[document.uri], document)
        /\ worker' = [worker EXCEPT ![p].todo = Tail(@)]
        /\ UNCHANGED <<clock, table, index, page, accepted, lookup, budget>>

(* The document is chunked and embedded, its source is upserted. *)
UpsertSource(p) ==
    LET w == worker[p]
    IN  /\ w.at = "compare"
        /\ w.todo # <<>>
        /\ ~ Unchanged(index[Head(w.todo).uri], Head(w.todo))
        /\ worker' = [worker EXCEPT ![p] = [@ EXCEPT !.at = "lookup", !.document = Head(w.todo),
                                               !.todo = Tail(w.todo)]]
        /\ UNCHANGED <<clock, table, index, page, accepted, lookup, budget>>

(* upsert_document_with_chunks: a document that exists keeps its row ...   *)
LookUpDocument(p) ==
    /\ worker[p].at = "lookup"
    /\ worker' = [worker EXCEPT ![p].at =
                     IF index[worker[p].document.uri] = NoDocument THEN "create" ELSE "delete"]
    /\ UNCHANGED <<clock, table, index, page, accepted, lookup, budget>>

(* ... and one that did not is upserted as incomplete, which overwrites    *)
(* the row of a publisher that created it in the meantime.                 *)
CreateDocument(p) ==
    LET document == worker[p].document
    IN  /\ worker[p].at = "create"
        /\ index' = [index EXCEPT ![document.uri].hash = Incomplete(document.hash)]
        /\ worker' = [worker EXCEPT ![p].at = "delete"]
        /\ UNCHANGED <<clock, table, page, accepted, lookup, budget>>

DeleteChunks(p) ==
    /\ worker[p].at = "delete"
    /\ index' = [index EXCEPT ![worker[p].document.uri].chunks = {}]
    /\ worker' = [worker EXCEPT ![p] = [@ EXCEPT !.at = "insert", !.piece = 1]]
    /\ UNCHANGED <<clock, table, page, accepted, lookup, budget>>

(* A batch of chunks; an index number that is taken makes the POST fail. *)
InsertChunks(p) ==
    LET w == worker[p]
        taken == \E c \in index[w.document.uri].chunks : c[2] = w.piece
    IN  /\ w.at = "insert"
        /\ w.piece <= Pieces
        /\ IF taken
           THEN /\ worker' = [worker EXCEPT ![p].at = "failed"]
                /\ UNCHANGED index
           ELSE /\ index' = [index EXCEPT ![w.document.uri].chunks =
                                @ \union {<<w.document.hash[2], w.piece>>}]
                /\ worker' = [worker EXCEPT ![p].piece = @ + 1]
        /\ UNCHANGED <<clock, table, page, accepted, lookup, budget>>

(* The final upsert records the hash of the document. *)
FinishDocument(p) ==
    LET w == worker[p]
    IN  /\ w.at = "insert"
        /\ w.piece > Pieces
        /\ index' = [index EXCEPT ![w.document.uri].hash = w.document.hash]
        /\ worker' = [worker EXCEPT ![p].at = "compare"]
        /\ UNCHANGED <<clock, table, page, accepted, lookup, budget>>

IngestEnds(p) ==
    /\ worker[p].at = "compare"
    /\ worker[p].todo = <<>>
    /\ worker' = [worker EXCEPT ![p] = Unemployed]
    /\ UNCHANGED <<clock, table, index, page, accepted, lookup, budget>>

-----------------------------------------------------------------------------
(* Failures *)

Requesting == {"existing", "posting", "compare", "lookup", "create", "delete", "insert"}

(* A request fails before it reaches the database, or the process ends. *)
WriteFails(p) ==
    /\ worker[p].at \in Requesting
    /\ Spend("mishaps")
    /\ worker' = [worker EXCEPT ![p].at = "failed"]
    /\ UNCHANGED <<clock, table, index, page, accepted, lookup>>

(* The database commits the rows and the answer is lost. *)
AnswerLost(p) ==
    LET w == worker[p]
    IN  /\ w.at = "posting"
        /\ w.todo # <<>>
        /\ Spend("mishaps")
        /\ table' = table \union {r \in Head(w.todo) : Matching({r}) = {}}
        /\ worker' = [worker EXCEPT ![p].at = "failed"]
        /\ UNCHANGED <<clock, index, page, accepted, lookup>>

(* main reports the error; the operator runs the script on the file again, *)
(* or gives up.                                                            *)
Failed(p) ==
    /\ worker[p].at = "failed"
    /\ \/ /\ worker[p].records # {}
          /\ Spend("calls")
          /\ worker' = [worker EXCEPT ![p].at = "reviewed", ![p].document = <<>>, ![p].piece = 0]
       \/ /\ worker' = [worker EXCEPT ![p] = Unemployed]
          /\ UNCHANGED budget
    /\ UNCHANGED <<clock, table, index, page, accepted, lookup>>

EditPage ==
    /\ Spend("mishaps")
    /\ page' \in Texts \ {page}
    /\ UNCHANGED <<clock, table, index, worker, accepted, lookup>>

ClockTicks ==
    /\ clock < LastInstant
    /\ clock' = clock + 1
    /\ UNCHANGED <<table, index, page, worker, accepted, lookup, budget>>

-----------------------------------------------------------------------------
(* Selection *)

InForce(r, instant) == r.evaluated <= instant /\ \A t \in r.expires : t > instant

(* Records that count at an instant; the database leaves out those that    *)
(* were evaluated later.                                                   *)
CurrentRecords(records, instant) == {r \in records : r.approved /\ InForce(r, instant)}

Newer(a, b) == a.evaluated > b.evaluated \/ (a.evaluated = b.evaluated /\ a.run > b.run)
Newest(records) == {r \in records : \A other \in records : other # r => Newer(r, other)}

(* _blocking_conditions *)
BlockingConditions(records) ==
    {r.status : r \in {x \in records : x.status \in BLOCKING_STATUSES}}
    \union (IF \E r \in records : r.status \notin BLOCKING_STATUSES /\ r.state = "failed"
            THEN {"run_state_failed"} ELSE {})

(* select_evidence: a quarantined run, then any blocker, then the newest   *)
(* live success, then the newest contract.                                 *)
SelectEvidence(records, instant) ==
    LET current == CurrentRecords(records, instant)
        blockers == BlockingConditions(current)
        of(status) == Newest({r \in current : r.status = status})
    IN  IF \E r \in current : r.state = "quarantined"
        THEN [selected |-> {}, blockers |-> {"quarantine"}]
        ELSE IF blockers # {} THEN [selected |-> {}, blockers |-> blockers]
        ELSE [selected |-> IF of("live_success") # {} THEN of("live_success")
                           ELSE of("contract_validated"),
              blockers |-> {}]

(* resolve_validation takes the time first. *)
AskEvidence ==
    /\ lookup.at = "idle"
    /\ Spend("calls")
    /\ \E a \in Catalog :
          lookup' = [NoLookup EXCEPT !.at = "asked", !.action = a, !.instant = clock,
                                     !.before = {r \in table : r.action = a}]
    /\ UNCHANGED <<clock, table, index, page, accepted, worker>>

(* is_admissible_at: in force, and a contract or a live success; the level *)
(* and the eligibility, which go with the status of a published run, are   *)
(* left out.                                                               *)
AdmissibleAt(r, instant) ==
    /\ InForce(r, instant)
    /\ r.status \in {"contract_validated", "live_success"}

(* The database answers with the records in force at that time, and the    *)
(* store selects.                                                          *)
ResolveEvidence ==
    LET records == CurrentRecords({r \in table : r.action = lookup.action}, lookup.instant)
    IN  /\ lookup.at = "asked"
        /\ lookup' = [lookup EXCEPT !.at = "resolved", !.records = records,
                                    !.selection = SelectEvidence(records, lookup.instant)]
        /\ UNCHANGED <<clock, table, index, page, accepted, worker, budget>>

(* _public_evidence_selection: an inadmissible selection becomes none. *)
PublicSelection(selection, instant) ==
    LET selected == {r \in selection.selected : AdmissibleAt(r, instant)}
    IN  [selected |-> selected,
         blockers |-> IF selected # {} THEN {}
                      ELSE IF selection.blockers # {} THEN selection.blockers
                      ELSE {"validation_unavailable"}]

(* _ordered_public_evidence_selections: the API selects again from the     *)
(* records of the answer; anything else than the store's selection is a    *)
(* service failure.                                                        *)
AnswerEvidence ==
    /\ lookup.at = "resolved"
    /\ lookup' = IF SelectEvidence(lookup.records, lookup.instant) = lookup.selection
                 THEN LET answer == PublicSelection(lookup.selection, lookup.instant)
                      IN  [lookup EXCEPT !.at = "answered", !.selected = answer.selected,
                                         !.blockers = answer.blockers]
                 ELSE NoLookup
    /\ UNCHANGED <<clock, table, index, page, accepted, worker, budget>>

ForgetAnswer ==
    /\ lookup.at = "answered"
    /\ lookup' = NoLookup
    /\ UNCHANGED <<clock, table, index, page, accepted, worker, budget>>

PublisherStep(p) ==
    \/ Review(p) \/ EditReviewedFile(p) \/ StartPublication(p) \/ ReadExisting(p)
    \/ ChoosePending(p) \/ PostBatch(p) \/ Recheck(p) \/ IngestPublished(p) \/ IngestWiki(p)
    \/ Skip(p) \/ UpsertSource(p) \/ LookUpDocument(p) \/ CreateDocument(p)
    \/ DeleteChunks(p) \/ InsertChunks(p) \/ FinishDocument(p) \/ IngestEnds(p) \/ WriteFails(p) \/ AnswerLost(p) \/ Failed(p)

EvidenceNext ==
    \/ \E p \in Publishers : PublisherStep(p)
    \/ EditPage \/ ClockTicks \/ AskEvidence \/ ResolveEvidence
    \/ AnswerEvidence \/ ForgetAnswer

EvidenceSpec == EvidenceInit /\ [][EvidenceNext]_evidenceVars

-----------------------------------------------------------------------------
(* Every public record is one that a whole, reviewable report says: the    *)
(* report was embedded in a file accepted for publication, which has to    *)
(* give the records of the file, so that changing one of the two publishes *)
(* nothing.  And a publication that reports success has put every record   *)
(* of its file in the table as it is there: whichever batch of an earlier  *)
(* attempt got through, and whoever published the same run with other      *)
(* findings in the meantime (revalidate_reviewed_report and                *)
(* SupabaseValidationStore.publish).  A file whose records and report are  *)
(* changed alike is published as changed.                                  *)
PublishedAsReviewed ==
    /\ \A row \in table : \E report \in accepted :
          Reviewable(report, row.reviewer) /\ row \in Promoted({report}, row.reviewer)
    /\ \A p \in Publishers : worker[p].at = "published" => worker[p].records \subseteq table

(* Evidence the cloud serves stands: it is public, in force at the time of *)
(* the request, and no record of the same action that was public and in    *)
(* force when the request arrived speaks against it, however new the       *)
(* served one is (select_evidence, resolve_validation).                    *)
ServedEvidenceStands ==
    \A r \in lookup.selected :
        /\ r \in table /\ r.approved
        /\ InForce(r, lookup.instant)
        /\ \A other \in CurrentRecords(lookup.before, lookup.instant) :
              other.status \notin BLOCKING_STATUSES

(* A search finds no evidence that is not public: what is recorded or cut  *)
(* up of an evidence document comes from a record in the table, also when  *)
(* publications of the same run with other findings fail and are repeated. *)
IndexedAsPublished ==
    \A u \in {v \in Uris \ {WikiUri} : index[v] # NoDocument} :
        \A text \in {index[u].hash[2]} \union {c[1] : c \in index[u].chunks} :
            \E r \in table : Identity(r) = u /\ r.status = text

\* What is published is what accepted reports say, what is served stands, and what can be
\* found was published.
EvidenceStands == PublishedAsReviewed /\ ServedEvidenceStands /\ IndexedAsPublished
=============================================================================
