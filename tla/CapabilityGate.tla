--------------------------- MODULE CapabilityGate ---------------------------
(***************************************************************************)
(* The authority to call a provider's tool: catalog rows that reviewers    *)
(* advance with evidence (qualification/provider_mcp.py, artifacts.py,     *)
(* catalog/models.py, db/catalog.py) and the resolver that each provider   *)
(* operation consults.  An operation looks at one snapshot of the catalog  *)
(* and of the clock; what it was bound to earlier is verified again under  *)
(* the snapshot it dispatches with, while rows and evidence go on changing.*)
(***************************************************************************)
EXTENDS Naturals, FiniteSets

CONSTANTS
    Rows,           \* rows of mercury_provider_capability_qualifications
    Schemas,        \* input and output schema, permissions and shape of a tool
    Companies,      \* company_sha256: the accounts evidence was gathered with
    Operations,          \* provider operations
    EvidenceLife,   \* evidence_expires_at - evidence_evaluated_at
    MaxArtifacts,   \* bound: artifacts written
    MaxTime         \* bound: the clock

\* "oauth-pending" stands for a company that is yet to be asked for.
ASSUME GateAssumption ==
    /\ EvidenceLife \in Nat \ {0} /\ {MaxTime, MaxArtifacts} \subseteq Nat
    /\ IsFiniteSet(Rows)
    /\ "oauth-pending" \notin Companies

VARIABLES
    rows,       \* the catalog
    artifacts,    \* artifacts on disk: named by their content, never changed
    clock,      \* now
    call        \* what each operation has read, bound and verified

gateVars == <<rows, artifacts, clock, call>>

Environments == {"sandbox", "production"}

\* An artifact is known by what it says (environment, schema, company, time of
\* evaluation, verdict): its revision is its hash.
NoArtifact == [env |-> "none"]
Expires(artifact) == artifact.evaluated + EvidenceLife

\* discovered: a row without evidence
NewRow(env, schema) ==
    [env |-> env, schema |-> schema, state |-> "discovered_unreviewed", artifact |-> NoArtifact,
     reference |-> NoArtifact, canary |-> FALSE]
NoRow == [NewRow("none", "none") EXCEPT !.state = "none"]

NoView == [rows |-> {}, now |-> 0]
NoCall == [pc |-> "idle", env |-> "none", company |-> "none", view |-> NoView, binding |-> NoArtifact,
           verified |-> NoRow, files |-> {}]

GateInit ==
    /\ rows = [q \in Rows |-> NoRow]
    /\ artifacts = {}
    /\ clock = 0
    /\ call = [o \in Operations |-> NoCall]

-----------------------------------------------------------------------------
\* build_qualification_artifact and write_qualification_artifact: a second writer
\* of the same artifact finds it and is content.
WriteArtifact(q, company, passed) ==
    /\ rows[q].state # "none"
    /\ Cardinality(artifacts) < MaxArtifacts
    /\ artifacts' = artifacts \cup {[env |-> rows[q].env, schema |-> rows[q].schema, company |-> company,
                                 evaluated |-> clock, passed |-> passed]}
    /\ UNCHANGED <<rows, clock, call>>

\* require_valid_for: evidence about this very capability, passed, not of the
\* future, not expired, and of the company the row was qualified with.
ValidFor(artifact, row, now) ==
    /\ artifact.evaluated <= now /\ now < Expires(artifact)
    /\ artifact.env = row.env /\ artifact.schema = row.schema
    /\ row.artifact # NoArtifact => artifact = row.artifact
    /\ artifact.passed

\* _has_current_evidence, _artifact_for: the artifact the row names, still valid.
\* files are the artifacts at hand: a file that is missing or cannot be read is
\* as good as none (within one resolution it is read or it is not).
HasCurrentEvidence(row, files, now) ==
    row.artifact # NoArtifact /\ row.artifact \in files /\ ValidFor(row.artifact, row, now)

\* _same_cross_environment_capability
SameCapability(production, row) == row.env # "production" /\ row.schema = production.schema

\* _require_nonproduction_evidence: the rows of another environment that count
NonproductionRows(catalog, production, files, now) ==
    {row \in catalog :
        /\ row.state \in {"nonproduction_qualified", "enabled"}
        /\ SameCapability(production, row)
        /\ HasCurrentEvidence(row, files, now)}

Catalog == {rows[q] : q \in Rows}

\* publish_provider_mcp_qualification: the row moves on from the state it has.
Publish(q, row) == rows' = [rows EXCEPT ![q] = row] /\ UNCHANGED <<artifacts, clock, call>>

Discover(q, env, schema) ==
    /\ rows[q] = NoRow
    /\ Publish(q, NewRow(env, schema))

\* transition_qualification, one action for each target state.
ValidateSchema(q) ==
    /\ rows[q].state = "discovered_unreviewed"
    /\ Publish(q, [rows[q] EXCEPT !.state = "schema_validated"])

\* A production row names the one nonproduction row it rests on, among those
\* whose artifacts the reviewer hands in.
QualifyNonproduction(q, artifact, files) ==
    LET resting == NonproductionRows(Catalog, rows[q], files, clock)
        qualified == [rows[q] EXCEPT !.state = "nonproduction_qualified", !.artifact = artifact]
    IN /\ rows[q].state = "schema_validated"
       /\ ValidFor(artifact, rows[q], clock)
       /\ IF rows[q].env = "production"
          THEN /\ Cardinality({p \in Rows : rows[p] \in resting}) = 1
               /\ \E row \in resting : Publish(q, [qualified EXCEPT !.reference = row.artifact])
          ELSE Publish(q, qualified)

\* Enabled by the same evidence; in production on the owner's authority as well.
EnableRow(q, canary, files) ==
    LET resting == NonproductionRows(Catalog, rows[q], files, clock)
    IN /\ rows[q].state = "nonproduction_qualified"
       /\ HasCurrentEvidence(rows[q], files, clock)
       /\ IF rows[q].env = "production"
          THEN /\ canary
               /\ Cardinality({p \in Rows : rows[p] \in resting}) = 1
               /\ \A row \in resting : rows[q].reference = row.artifact
          ELSE ~canary
       /\ Publish(q, [rows[q] EXCEPT !.state = "enabled", !.canary = canary])

\* disabled or superseded, for a reason; nothing leads back.
Retire(q, state) ==
    /\ rows[q].state = "enabled"
    /\ Publish(q, [rows[q] EXCEPT !.state = state])

\* disable_provider_mcp_capability_version: every enabled row of the version, but
\* none when the version has a row that is neither enabled nor so disabled.
DisableVersion(q) ==
    LET version == {p \in Rows : rows[p].env = rows[q].env /\ rows[p].schema = rows[q].schema}
    IN /\ rows[q].state = "enabled"
       /\ \A p \in version : rows[p].state \in {"enabled", "disabled"}
       /\ rows' = [p \in Rows |-> IF p \in version THEN [rows[p] EXCEPT !.state = "disabled"] ELSE rows[p]]
       /\ UNCHANGED <<artifacts, clock, call>>

-----------------------------------------------------------------------------

\* _has_current_nonproduction_reference: exactly one row, at every resolution.
HasReference(catalog, production, files, now) ==
    Cardinality({row \in NonproductionRows(catalog, production, files, now) :
                    row.artifact = production.reference}) = 1

\* _is_current_enabled
IsCurrentEnabled(catalog, row, company, files, now) ==
    /\ row.state = "enabled"
    /\ HasCurrentEvidence(row, files, now)
    /\ row.artifact.company = company
    /\ row.env = "production" => row.canary /\ HasReference(catalog, row, files, now)

\* _one_equivalent_qualification: rows that differ only in their id are one.
OneEquivalent(valid) == Cardinality(valid) = 1

\* resolve_current and _resolve_matches: what is enabled for this tool, if it is one
Resolved(view, env, company, files) ==
    LET valid == {row \in view.rows :
                     row.env = env /\ IsCurrentEnabled(view.rows, row, company, files, view.now)}
    IN IF OneEquivalent(valid) THEN valid ELSE {}

\* bind_exact_for_connection: the rows of the version have to be one, retired or not.
ResolvedExact(view, env, schema, company, files) ==
    LET version == {row \in view.rows : row.env = env /\ row.schema = schema}
    IN {row \in version :
           OneEquivalent(version) /\ IsCurrentEnabled(view.rows, row, company, files, view.now)}

\* _resolve_flowaccount_oauth_profile_bootstrap: a connection whose company is yet
\* to be asked for may read its profile on the evidence of any one company.
ResolvedBootstrap(view, env, files) ==
    LET valid == {row \in view.rows :
                     /\ row.env = env /\ row.artifact # NoArtifact
                     /\ IsCurrentEnabled(view.rows, row, row.artifact.company, files, view.now)}
    IN IF OneEquivalent(valid) THEN valid ELSE {}

\* _is_exact_flowaccount_oauth_profile_bootstrap
Pending == "oauth-pending"

\* What a binding of this connection may rest on.
Authority(view, env, company, files) ==
    IF company = Pending THEN ResolvedBootstrap(view, env, files)
    ELSE Resolved(view, env, company, files)

\* open_snapshot: one view for one operation; without the catalog nothing is enabled.
OpenSnapshot(o, readable) ==
    /\ call[o].pc \in {"begun", "resumed"}
    /\ call' = [call EXCEPT ![o].pc = IF call[o].pc = "begun" THEN "bind" ELSE "verify",
                            ![o].view = [rows |-> IF readable THEN Catalog \ {NoRow} ELSE {}, now |-> clock]]
    /\ UNCHANGED <<rows, artifacts, clock>>

BeginCall(o, env, company) ==
    /\ call[o] = NoCall
    /\ call' = [call EXCEPT ![o] = [NoCall EXCEPT !.pc = "begun", !.env = env, !.company = company]]
    /\ UNCHANGED <<rows, artifacts, clock>>

\* _binding_from_resolution: a binding names the evidence revision it rests on.
RowsBoundTo(o, found) ==
    /\ call' = [call EXCEPT ![o] =
          IF found = {} THEN NoCall
          ELSE [call[o] EXCEPT !.pc = "resumed", !.view = NoView,
                               !.binding = (CHOOSE row \in found : TRUE).artifact]]
    /\ UNCHANGED <<rows, artifacts, clock>>

\* bind_for_connection, bind_bootstrap
Bind(o, files) ==
    /\ call[o].pc = "bind"
    /\ RowsBoundTo(o, Authority(call[o].view, call[o].env, call[o].company, files))

BindExact(o, schema, files) ==
    /\ call[o].pc = "bind"
    /\ call[o].company # Pending
    /\ RowsBoundTo(o, ResolvedExact(call[o].view, call[o].env, schema, call[o].company, files))

\* Deviation: what is enabled now will do.
BindingExists(row, binding) == TRUE

\* _assert_binding: what is enabled now is what was bound.
BindingHolds(row, binding) == row.artifact = binding

\* verify_binding: the binding is resolved again under the operation's snapshot;
\* the artifacts are read again.  (It is resolved twice: files are those of the
\* second time.)
VerifyBinding(o, files) ==
    LET found == {row \in Authority(call[o].view, call[o].env, call[o].company, files) :
                     BindingHolds(row, call[o].binding)}
    IN /\ call[o].pc = "verify"
       /\ call' = [call EXCEPT ![o] =
             IF found = {} THEN NoCall
             ELSE [call[o] EXCEPT !.pc = "verified", !.files = files,
                                  !.verified = CHOOSE row \in found : TRUE]]
       /\ UNCHANGED <<rows, artifacts, clock>>

\* wire_model_for_binding: the models of the request and of its answer come from
\* the enabled row with the revision that was verified.
WireModels(o) ==
    {row.schema : row \in {r \in call[o].view.rows :
        r.state = "enabled" /\ r.env = call[o].env /\ r.artifact = call[o].binding}}

\* The provider has answered.
CallDone(o) ==
    /\ call[o].pc = "verified"
    /\ call' = [call EXCEPT ![o] = NoCall]
    /\ UNCHANGED <<rows, artifacts, clock>>

Tick ==
    /\ clock < MaxTime
    /\ clock' = clock + 1
    /\ UNCHANGED <<rows, artifacts, call>>

GateNext ==
    \/ \E q \in Rows :
          \/ \E env \in Environments, schema \in Schemas : Discover(q, env, schema)
          \/ \E company \in Companies, passed \in BOOLEAN : WriteArtifact(q, company, passed)
          \/ ValidateSchema(q) \/ DisableVersion(q)
          \/ \E artifact \in artifacts, files \in SUBSET artifacts : QualifyNonproduction(q, artifact, files)
          \/ \E canary \in BOOLEAN, files \in SUBSET artifacts : EnableRow(q, canary, files)
          \/ \E state \in {"disabled", "superseded"} : Retire(q, state)
    \/ \E o \in Operations :
          \/ \E env \in Environments, company \in Companies \cup {Pending} : BeginCall(o, env, company)
          \/ \E readable \in BOOLEAN : OpenSnapshot(o, readable)
          \/ \E files \in SUBSET artifacts :
                \/ Bind(o, files) \/ VerifyBinding(o, files)
                \/ \E schema \in Schemas : BindExact(o, schema, files)
          \/ CallDone(o)
    \/ Tick

GateSpec == GateInit /\ [][GateNext]_gateVars

-----------------------------------------------------------------------------
\* Nothing is called on outdated authority: a verified call has, in the snapshot
\* it was verified with, passed and unexpired evidence of its own company, and in
\* production also unexpired evidence from another environment for the very same
\* capability, on a row that was not retired since; the artifacts of both were
\* read again when it was verified.
VerifiedOnCurrentEvidence ==
    \A o \in Operations :
        call[o].pc = "verified" =>
            LET row == call[o].verified
                now == call[o].view.now
            IN /\ row.artifact \in call[o].files
               /\ row.artifact.passed /\ row.artifact.evaluated <= now /\ now < Expires(row.artifact)
               /\ call[o].company \in {row.artifact.company, Pending} /\ row.env = call[o].env
               /\ row.env = "production" =>
                     \E other \in call[o].view.rows :
                         /\ other.env # "production" /\ other.schema = row.schema
                         /\ other.state \notin {"disabled", "superseded"}
                         /\ other.artifact \in call[o].files
                         /\ other.artifact.passed /\ now < Expires(other.artifact)

\* What is verified is what was bound: the schemas a call is checked with are those
\* of the evidence its preview was bound to, whatever was enabled in between; and a
\* sandbox call goes on only if no enabled row of its company has other evidence
\* that is in time and could be read.
VerifiedWhatWasBound ==
    \A o \in Operations :
        call[o].pc = "verified" =>
            /\ call[o].verified.artifact = call[o].binding
            /\ WireModels(o) = {call[o].binding.schema}
            /\ \A row \in call[o].view.rows :
                  row.state = "enabled" /\ row.env = "sandbox" /\ call[o].env = "sandbox"
                  /\ row.artifact \in call[o].files
                  /\ row.artifact.company = call[o].company /\ call[o].view.now < Expires(row.artifact)
                  => row.artifact = call[o].binding

\* What is called is what was bound, on evidence that still counts.
VerifiedAsBound == VerifiedOnCurrentEvidence /\ VerifiedWhatWasBound
=============================================================================
