----------------------------- MODULE MCWorkshop -----------------------------
(***************************************************************************)
(* The parts in which flows, connectors, rules and evidence are prepared   *)
(* and used.  A behaviour of this module is one of its components; the     *)
(* others rest in one of their initial states.                             *)
(***************************************************************************)
EXTENDS FlowRun, QualificationRun, ProductStore, ConnectorRouting,
        Reconciliation, EvidencePublication, Wave0Gate, TLC

VARIABLE component     \* the component that runs

\* A runner with ERP reads, one whose capabilities are gated, and one that only plans.
MCRunners ==
    {[dry |-> FALSE, erp |-> TRUE, gate |-> FALSE], [dry |-> FALSE, erp |-> FALSE, gate |-> TRUE],
     [dry |-> TRUE, erp |-> FALSE, gate |-> FALSE]}

MCOrders == {<<>>}

\* Actions all of which are read, or one of which is a contract and one a write,
\* with and without prerequisites.
MCManifests ==
    {[disposition |-> d, prerequisites |-> p] :
        d \in {<<"get", "get", "get">>, <<"contract_only", "get", "write">>},
        p \in {<<{2}, {}, {}>>, <<{2}, {1}, {}>>}}

MCRegistries == {<<>>, <<{}>>, <<{}, {1}>>, <<{2}, {1}>>}

MCOutcome == [e \in Evidence |-> IF e = "good" THEN "observed" ELSE "not_authorized"]

\* Two catalogs: an alias for both actions, discovered or not; in the second the
\* write is unavailable.
MCCatalogs ==
    {[m \in ConnectionModes |->
        [declared |-> {"a", "w"}, aliases |-> "x" :> {"a", "w"}, unavailable |-> c.unavailable,
         discovered |-> m = "native_mcp" /\ c.discovered]] :
        c \in {[unavailable |-> {}, discovered |-> TRUE], [unavailable |-> {"w"}, discovered |-> FALSE]}}

MCSkillSet == {[required |-> {"a"}, optional |-> {"w"}], [required |-> {"x"}, optional |-> {}]}

\* Rows of transactions: near and far in amount, date, reference and party.
Row(a, d, r, p) ==
    [source |-> "b", amount |-> a, currency |-> "a", date |-> d, reference |-> r,
     counterparty |-> p, state |-> "b"]
Few == {Row(10, 0, "a", ""), Row(20, 0, "", "b"), Row(31, 1, "a", "b")}
Odd == {Row(10, 0, "bad", ""), Row(10, 0, "", ""), Row(10, 0, "A", "")}

WithId(row, i) == [id |-> i] @@ row
Numbered(rs) == [i \in DOMAIN rs |-> WithId(rs[i], i)]

\* Three rows with two, repeated and bad ones, and a cycle of pairs that costs
\* the same as another.
MCInputs ==
    {<<Numbered(l), Numbered(r)>> : l \in [1..3 -> Few], r \in [1..2 -> Few]}
        \cup {<<Reverse(Numbered(l)), <<WithId(k, 1), WithId(j, i)>>>> :
                 l \in [1..2 -> Few], k \in Few, j \in Odd, i \in {1, 2}}
        \cup {<<Numbered(<<Row(10, 0, "a", "a"), Row(20, 0, "b", "b"), Row(30, 0, "c", "c")>>),
                Numbered(<<Row(10, 0, "c", "c"), Row(20, 0, "a", "a"), Row(30, 0, "b", "b")>>)>>}

MCPolicies ==
    {[amount |-> 0, difference |-> 15, days |-> 1, stateMatch |-> TRUE, identityMatch |-> TRUE],
     [amount |-> 10, difference |-> 20, days |-> 1, stateMatch |-> TRUE, identityMatch |-> FALSE]}

Letters == {"a", "A", "b", "c", "", "bad"}
MCClean == [t \in Letters |-> t]
MCFold == [t \in Letters |-> IF t = "A" THEN "a" ELSE t]

\* Reports of a run that succeeded, failed in part, overlaps with another, and
\* was quarantined.
Finding(a, run, s, e, x) ==
    [action |-> a, run |-> run, status |-> s, state |-> "completed", evaluated |-> e,
     expires |-> x, approved |-> FALSE, reviewer |-> "none"]
ReportOf(run, s, findings) == [run |-> run, state |-> s, records |-> findings]
Second == ReportOf(2, "completed", {Finding(1, 2, "contract_validated", 1, {3}),
                                    Finding(2, 2, "live_success", 0, {})})
MCReports ==
    {ReportOf(1, "completed", {Finding(1, 1, "live_success", 0, {2}), Finding(2, 1, "live_failed", 0, {1})}),
     ReportOf(1, "completed", {Finding(1, 1, "live_success", 0, {2}), Finding(2, 1, "live_success", 0, {1})}),
     Second, ReportOf(3, "quarantined", {})}
MCEarlier == {Second}

\* Trials of two hosts: with cognito, and with two external issuers.
Trial(h, m, r, i, f) == [host |-> h, mode |-> m, result |-> r, issuer |-> i, file |-> f]
MCTrials ==
    {Trial("codex", "pre_registered", "pass", "cognito", "f1"), Trial("codex", "dcr", "pass", "i1", "f1"),
     Trial("claude", "pre_registered", "fail", "cognito", "f2"), Trial("claude", "dcr", "pass", "i1", "f2"),
     Trial("claude", "dcr", "pass", "i2", "f2")}

MCTools == <<"node">>
MCServices == <<"aurora_postgresql">>

\* The gate runs in two settings: with the identity settled and the GitHub run
\* moving, and with the run settled and the identity evidence moving.
SettledProbe(h, c) ==
    [host |-> h, mode |-> "pre_registered", result |-> "pass", issuer |-> "cognito", at |-> 0, digest |-> c]
IdentitySettled ==
    /\ probeFiles = {SettledProbe("codex", "c1"), SettledProbe("claude", "c2")}
    /\ decided = {[mode |-> "pre_registered", issuer |-> "cognito"]}
    /\ commit.path = "smoke" /\ (commit.event = "push" => commit.source = "other")
    /\ attempts = <<FreshAttempt>>
RunSettled ==
    /\ probeFiles = {SettledProbe("codex", "c1"),
                     [SettledProbe("codex", "c1") EXCEPT !.mode = "dcr", !.issuer = "i1"]}
    /\ decided = {}
    /\ commit = [event |-> "workflow_dispatch", path |-> "smoke", source |-> "pinned"]
    /\ attempts = <<[FreshAttempt EXCEPT !.state = "success", !.proof = {[attempt |-> 1, account |-> role]}]>>

Wave0Init ==
    /\ rawFiles = [f \in RawFiles |-> IF f = "f1" THEN "c1" ELSE "c2"]
    /\ deciding = FALSE /\ unread = {} /\ loaded = {} /\ hour = 0 /\ outside = 0
    /\ role \in Accounts /\ commit \in Commits
    /\ gate = IdleGate /\ gateFile = {}
    /\ IF component = "gate" THEN IdentitySettled ELSE RunSettled /\ role = "a1"

\* Bounds: one report is written; what the script does not read until later moves
\* before it starts or when it is read; and the checks all pass once something has
\* happened outside.
Smooth == gate'.tries = 1 /\ \A i \in DOMAIN gate'.checks : gate'.checks[i].state = "pass"
Wave0Next ==
    /\ gateFile = {}
    /\ GateNext
    /\ component = "gate" =>
          /\ UNCHANGED <<rawFiles, probeFiles, decideVars, decided, hour>>
          /\ outside' <= MaxOutside /\ (outside > 0 => Smooth)
          /\ UNCHANGED githubVars \/ gate.phase \in {"idle"} \cup OidcPhases
    /\ component = "identity" =>
          /\ UNCHANGED githubVars
          /\ Smooth /\ gate'.account \in {"none", role}
          /\ UNCHANGED identityVars \/ gate.phase \in {"idle", "identity", "evidence"}

\* Where a component that does not run rests.
FirstRunner == CHOOSE r \in Runners : TRUE
FirstManifest == CHOOSE p \in Manifests : TRUE
FirstCatalog == CHOOSE c \in Catalogs : TRUE
FirstCall == CHOOSE c \in [rows : Inputs, policy : Policies] : TRUE

\* An answer about connectors changes nothing, so no step needs to follow it.  Only a
\* request for evidence reads the clock, so that time need not pass before others.
TimeForRequests ==
    /\ clock' # clock => budget.calls > 0
    /\ clock > 0 /\ budget'.calls < budget.calls => lookup'.at # lookup.at

WorkshopInit ==
    /\ component \in {"flow", "qualification", "product", "routing", "reconciliation", "evidence",
                     "gate", "identity"}
    /\ FlowInit
    /\ component # "flow" => built = FirstRunner
    /\ QualificationInit
    /\ component # "qualification" =>
          /\ policy = FirstManifest
          /\ depends = <<>>
          /\ ~runner.dry /\ ~runner.reads
    /\ ProductInit
    /\ IF component = "product" THEN saved = {} <=> \A m \in Modes : profiles[m] = NoProfile
       ELSE schemaUp /\ saved = {} /\ \A m \in Modes : profiles[m] = NoProfile
    /\ RoutingInit
    /\ component # "routing" =>
          /\ catalog = FirstCatalog
          /\ \A m \in ConnectionModes : stored[m] = NotLinked
    /\ ReconciliationInit
    /\ component # "reconciliation" => call = FirstCall
    /\ EvidenceInit
    /\ component # "evidence" => accepted = {}
    /\ Wave0Init
    /\ component # "gate" => role = "a1"

WorkshopNext ==
    /\ UNCHANGED component
    /\ \/ /\ component = "flow" /\ FlowNext
          /\ UNCHANGED <<qualificationVars, productVars, routingVars, reconciliationVars,
                        evidenceVars, gateVars>>
       \/ /\ component = "qualification" /\ QualificationNext
          /\ UNCHANGED <<flowVars, productVars, routingVars, reconciliationVars,
                        evidenceVars, gateVars>>
       \/ /\ component = "product" /\ ProductNext
          /\ UNCHANGED <<flowVars, qualificationVars, routingVars, reconciliationVars,
                        evidenceVars, gateVars>>
       \/ /\ component = "routing" /\ answer = NoAnswer /\ RoutingNext
          /\ UNCHANGED <<flowVars, qualificationVars, productVars, reconciliationVars,
                        evidenceVars, gateVars>>
       \/ /\ component = "reconciliation" /\ ReconciliationNext
          /\ UNCHANGED <<flowVars, qualificationVars, productVars, routingVars,
                        evidenceVars, gateVars>>
       \/ /\ component = "evidence" /\ EvidenceNext /\ TimeForRequests
          /\ UNCHANGED <<flowVars, qualificationVars, productVars, routingVars,
                        reconciliationVars, gateVars>>
       \/ /\ component \in {"gate", "identity"} /\ Wave0Next
          /\ UNCHANGED <<flowVars, qualificationVars, productVars, routingVars,
                        reconciliationVars, evidenceVars>>

WorkshopSpec ==
    WorkshopInit /\ [][WorkshopNext]_<<component, flowVars, qualificationVars, productVars,
                                       routingVars, reconciliationVars, evidenceVars, gateVars>>
=============================================================================
