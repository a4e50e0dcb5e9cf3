----------------------------- MODULE Wave0Gate -----------------------------
(***************************************************************************)
(* The readiness gate of AWS Wave 0 (scripts/check_aws_readiness.py over   *)
(* aws/readiness.py): local tools, the AWS account and its services are    *)
(* checked, a report is built, and the gate is finalised by verifying a    *)
(* GitHub run, the identity evidence and the absence of a disposable stack *)
(* one command at a time, while the run may be started again, the role it  *)
(* assumes may be changed and the evidence may be replaced.                *)
(*                                                                         *)
(* There is one environment, nonprod, and one run of the smoke workflow.   *)
(* An account stands for its fingerprint.                                  *)
(***************************************************************************)
EXTENDS IdentityProof, Sequences

CONSTANTS
    Tools,          \* the local tools, in order
    Services,       \* the service probes, in order
    Accounts,       \* AWS accounts
    MaxAttempts     \* attempts of the run

OtherChecks == {"account", "aws_live_checks", "wave0_evidence_inventory"}

ASSUME GateAssumption ==
    /\ Tools \in Seq(STRING) /\ Services \in Seq(STRING) /\ Services # <<>>
    /\ \A i, j \in DOMAIN Tools : Tools[i] = Tools[j] => i = j
    /\ \A i, j \in DOMAIN Services : Services[i] = Services[j] => i = j
    /\ \A i \in DOMAIN Tools, j \in DOMAIN Services : Tools[i] # Services[j]
    /\ \A i \in DOMAIN Tools : Tools[i] \notin OtherChecks
    /\ \A i \in DOMAIN Services : Services[i] \notin OtherChecks
    /\ "none" \notin Accounts
    /\ MaxAttempts \in Nat

VARIABLES
    commit,      \* external: the run's event, workflow file and its source
    attempts,    \* external: the attempts of the run
    role,        \* external: the account the workflow's role is in
    gate,        \* the local variables of the running script
    gateFile     \* the report file: empty, or one report

githubVars == <<commit, attempts, role>>
gateVars == <<identityVars, githubVars, gate, gateFile>>

------------------------------------------------------------------------------
(* External: GitHub.  A re-run keeps the commit and adds an attempt.  The pinned workflow *)
(* (.github/workflows/aws-wave0-oidc-smoke.yml) assumes the role of the moment, uploads a *)
(* proof of the attempt and its account, and then goes on to its probes; of another       *)
(* source nothing is known.                                                               *)
Latest == Len(attempts)

FreshAttempt == [state |-> "running", account |-> role, proof |-> {}]

Rerun ==
    /\ Happens
    /\ attempts[Latest].state # "running"
    /\ Latest < MaxAttempts
    /\ attempts' = Append(attempts, FreshAttempt)
    /\ UNCHANGED <<rawFiles, probeFiles, decideVars, decided, hour, commit, role, gate, gateFile>>

Proofs(n) ==
    IF commit.source = "pinned" THEN {[attempt |-> n, account |-> attempts[n].account]}
                                ELSE [attempt : 1 .. MaxAttempts, account : Accounts]

Upload ==
    /\ attempts[Latest].state = "running" /\ attempts[Latest].proof = {}
    /\ \E p \in Proofs(Latest) : attempts' = [attempts EXCEPT ![Latest].proof = {p}]
    /\ UNCHANGED <<identityVars, commit, role, gate, gateFile>>

RunConcludes ==
    /\ attempts[Latest].state = "running"
    /\ \/ attempts[Latest].proof # {} /\ attempts' = [attempts EXCEPT ![Latest].state = "success"]
       \/ attempts' = [attempts EXCEPT ![Latest].state = "failure"]
    /\ UNCHANGED <<identityVars, commit, role, gate, gateFile>>

ExpireArtifact(n) ==
    /\ Happens
    /\ attempts[n].proof # {}
    /\ attempts' = [attempts EXCEPT ![n].proof = {}]
    /\ UNCHANGED <<rawFiles, probeFiles, decideVars, decided, hour, commit, role, gate, gateFile>>

ChangeRole ==
    /\ Happens
    /\ role' \in Accounts \ {role}
    /\ UNCHANGED <<rawFiles, probeFiles, decideVars, decided, hour, commit, attempts, gate, gateFile>>

(* What a listing of the run's artifacts may hold and a download may fetch: a proof of *)
(* the latest attempt, or of an earlier one.                                           *)
Artifacts == UNION {attempts[n].proof : n \in 1 .. Latest}

------------------------------------------------------------------------------
(* Checks and what they add up to. *)
ToolChecks == {Tools[i] : i \in DOMAIN Tools}
ServiceChecks == {Services[i] : i \in DOMAIN Services}
ExpectedChecks == ToolChecks \cup {"account"} \cup ServiceChecks

AccountCodes == {"aws_account_access_blocked", "aws_account_response_invalid",
                 "aws_profile_not_short_lived", "aws_live_checks_skipped"}
RegionCodes == {"aws_service_probe_failed", "aws_service_response_invalid",
                "aws_service_throttled", "unavailable"}

Check(name, state, code) == [name |-> name, state |-> state, code |-> code]
Blocked(name, code) == Check(name, "blocked", code)

Counted(checks, name) == Cardinality({i \in DOMAIN checks : checks[i].name = name})
GroupInvalid(checks, group) == \E name \in group : Counted(checks, name) # 1
Exact(checks) ==
    ~GroupInvalid(checks, ExpectedChecks) /\ \A i \in DOMAIN checks : checks[i].name \in ExpectedChecks

(* aggregate_gate: what is blocked, and then what is missing or foreign, in the order *)
(* tools, account, services, anything else.                                           *)
AggregateGate(checks) ==
    LET blocked == {checks[i] : i \in {j \in DOMAIN checks :
                       checks[j].state # "pass" /\ checks[j].code # "wave0_evidence_inventory_invalid"}}
    IN  IF \E c \in blocked : c.name \in ToolChecks          THEN "blocked_tooling"
        ELSE IF \E c \in blocked : c.code \in AccountCodes   THEN "blocked_account_access"
        ELSE IF \E c \in blocked : c.code \in RegionCodes    THEN "blocked_region_service"
        ELSE IF blocked # {}                                 THEN "blocked_identity_compatibility"
        ELSE IF GroupInvalid(checks, ToolChecks)             THEN "blocked_tooling"
        ELSE IF GroupInvalid(checks, {"account"})            THEN "blocked_account_access"
        ELSE IF GroupInvalid(checks, ServiceChecks)          THEN "blocked_region_service"
        ELSE IF ~Exact(checks)                               THEN "blocked_identity_compatibility"
        ELSE "ready"

------------------------------------------------------------------------------
(* The script, a command or a file at a time. *)
IdleGate ==
    [phase |-> "idle", checks |-> <<>>, tries |-> 1, account |-> "none", at |-> 0,
     status |-> "none", decision |-> {}, attempt |-> 0, evidence |-> {}, proofs |-> {},
     hashed |-> {}]

Script(next) == gate' = next /\ UNCHANGED <<identityVars, githubVars, gateFile>>
Proceed(phase) == Script([gate EXCEPT !.phase = phase])
Checked(c, phase) == Script([gate EXCEPT !.checks = Append(@, c), !.phase = phase, !.tries = 1])
Finalised(status, evidence, proofs) ==
    Script([gate EXCEPT !.phase = "write", !.status = status, !.evidence = evidence, !.proofs = proofs,
                     !.hashed = {}])

StartGate == gate.phase = "idle" /\ Script([IdleGate EXCEPT !.phase = "tools"])

(* check_local_toolchain. *)
CheckLocalToolchain(supported) ==
    /\ gate.phase = "tools"
    /\ Script([gate EXCEPT
                 !.phase = "account",
                 !.checks = [i \in DOMAIN Tools |->
                               IF supported[i] THEN Check(Tools[i], "pass", "tool_version_verified")
                                               ELSE Blocked(Tools[i], "tool_version_unsupported")]])

(* inspect_short_lived_profile: no credentials in the environment, a section of the     *)
(* configuration without static keys and with exactly one short-lived source, and no    *)
(* static keys in the credentials file either.                                          *)
ShortLived(profile) ==
    /\ ~profile.environment
    /\ profile.config = "section" /\ ~profile.static
    /\ Cardinality(profile.sources) = 1
    /\ profile.credentials \in {"missing", "clean"}

ProfileSettings ==
    [environment : BOOLEAN, config : {"unreadable", "other", "section"}, static : BOOLEAN,
     sources : SUBSET {"login_session", "sso_session"},
     credentials : {"missing", "unreadable", "clean", "static"}]

CheckAwsAccounts(profile) ==
    /\ gate.phase = "account"
    /\ \/ ~ShortLived(profile) /\ Checked(Blocked("account", "aws_profile_not_short_lived"), "services")
       \/ /\ ShortLived(profile)
          /\ \/ Checked(Blocked("account", "aws_account_access_blocked"), "services")
             \/ Checked(Blocked("account", "aws_account_response_invalid"), "services")
             \/ \E a \in Accounts :
                   Script([gate EXCEPT !.phase = "services", !.account = a,
                             !.checks = Append(@, Check("account", "pass", "aws_account_verified"))])

SkipLiveChecks ==
    /\ gate.phase = "account"
    /\ Checked(Blocked("aws_live_checks", "aws_live_checks_skipped"), "report")

(* check_region_services: the next probe, run up to three times while it is throttled.  *)
ProbedService == Services[Len(gate.checks) - Len(Tools)]
AfterProbe == IF Len(gate.checks) - Len(Tools) = Len(Services) THEN "report" ELSE "services"

ProbeCodes(service) ==
    [failed |-> "aws_service_probe_failed", throttled |-> "aws_service_throttled",
     malformed |-> "aws_service_response_invalid",
     lacking |-> IF service \in {"aurora_postgresql", "agentcore_quotas"} THEN "unavailable" ELSE "none"]

CheckRegionService(result) ==
    /\ gate.phase = "services"
    /\ \/ /\ result = "throttled" /\ gate.tries < 3
          /\ Script([gate EXCEPT !.tries = @ + 1])
       \/ /\ result = "ok"
          /\ Checked(Check(ProbedService, "pass", "aws_service_available"), AfterProbe)
       \/ /\ result # "ok" /\ (result = "throttled" => gate.tries = 3)
          /\ ProbeCodes(ProbedService)[result] # "none"
          /\ Checked(Blocked(ProbedService, ProbeCodes(ProbedService)[result]), AfterProbe)

(* build_readiness_report. *)
Inventoried(checks) ==
    IF Exact(checks) THEN checks
    ELSE Append(checks, Blocked("wave0_evidence_inventory", "wave0_evidence_inventory_invalid"))

BuildReport ==
    /\ gate.phase = "report"
    /\ Script([gate EXCEPT !.phase = "decision", !.at = hour, !.checks = Inventoried(@),
                           !.status = AggregateGate(Inventoried(gate.checks))])

(* The decision file is read; one that cannot be read ends the script, and so do proofs *)
(* that are named without a decision.                                                   *)
ReadIdentityDecision ==
    /\ gate.phase = "decision"
    /\ \/ Script([gate EXCEPT !.phase = "local", !.decision = decided])
       \/ Script(IdleGate)

------------------------------------------------------------------------------
(* finalize_wave0_gate. *)
Passed(name) == \A i \in DOMAIN gate.checks : gate.checks[i].name = name => gate.checks[i].state = "pass"
FinalGroup(group) == ~GroupInvalid(gate.checks, group) /\ \A name \in group : Passed(name)

FinalToolingValid == FinalGroup(ToolChecks)
FinalAccountsValid == FinalGroup({"account"}) /\ gate.account \in Accounts
FinalRegionServicesValid == FinalGroup(ServiceChecks)

FinalizeLocal ==
    /\ gate.phase = "local"
    /\ IF ~FinalToolingValid \/ gate.status = "blocked_tooling"
         THEN Finalised("blocked_tooling", {}, {})
       ELSE IF ~FinalAccountsValid \/ gate.status = "blocked_account_access"
         THEN Finalised("blocked_account_access", {}, {})
       ELSE Proceed("run")

(* _verify_oidc_run: any command that fails, and any answer that does not match, ends   *)
(* the verification.                                                                    *)
OidcPhases == {"run", "workflow", "jobs", "source", "artifacts", "download"}

OidcUnverified ==
    /\ gate.phase \in OidcPhases
    /\ Finalised("blocked_account_access", {}, {})

ReadRun ==
    /\ gate.phase = "run"
    /\ commit.event = "workflow_dispatch" /\ commit.path = "smoke"
    /\ attempts[Latest].state = "success"
    /\ Script([gate EXCEPT !.phase = "workflow", !.attempt = Latest])

ReadWorkflow == gate.phase = "workflow" /\ commit.path = "smoke" /\ Proceed("jobs")

(* The jobs of the latest attempt, which need not be the one that was read. *)
ReadJobs ==
    /\ gate.phase = "jobs"
    /\ attempts[Latest].state = "success"
    /\ Latest = gate.attempt
    /\ Proceed("source")

ReadSource == gate.phase = "source" /\ commit.source = "pinned" /\ Proceed("artifacts")

ListArtifacts == gate.phase = "artifacts" /\ Artifacts # {} /\ Proceed("download")

(* Deviation: a proof of another attempt will do. *)
ProofOfAnyAttempt(p) == p.account = gate.account

(* _verified_oidc_account_proof: the attempt that was read, and the account of the report. *)
AccountProven(p) == p.attempt = gate.attempt /\ p.account = gate.account

(* OidcRunEvidence: closed under its own digest. *)
RunEvidence(p) == [attempt |-> gate.attempt, account |-> p.account]

DownloadAccountProof ==
    /\ gate.phase = "download"
    /\ \E p \in Artifacts :
          /\ AccountProven(p)
          /\ Script([gate EXCEPT !.phase = "region", !.evidence = {RunEvidence(p)}])

FinalizeRegion ==
    /\ gate.phase = "region"
    /\ IF FinalRegionServicesValid /\ gate.status # "blocked_region_service"
         THEN Script([gate EXCEPT !.phase = "identity", !.proofs = {}, !.hashed = {}])
         ELSE Finalised("blocked_region_service", gate.evidence, {})

(* _final_report_contract_valid and _final_identity_valid, with one named probe and one *)
(* raw file for each host, read one after another: the probe is current, and it holds   *)
(* the digest of the raw file as that is found afterwards, which no other probe holds.  *)
ReadProof ==
    /\ gate.phase = "identity" /\ gate.decision # {} /\ Exact(gate.checks)
    /\ \E p \in probeFiles :
          /\ \A q \in gate.proofs : q.host # p.host
          /\ ProofCurrent(p, gate.at)
          /\ Script([gate EXCEPT !.phase = "evidence", !.proofs = @ \cup {p}])

HashEvidence(f) ==
    /\ gate.phase = "evidence"
    /\ \A e \in gate.hashed : e.file # f
    /\ \E p \in gate.proofs :
          /\ \A e \in gate.hashed : e.host # p.host
          /\ p.digest \in Digest(f)
          /\ \A q \in gate.proofs : q # p => q.digest # p.digest
          /\ Script([gate EXCEPT !.phase = "identity",
                        !.hashed = @ \cup {[host |-> p.host, file |-> f]}])

(* verify_identity_proof: the probes lead to the decision that was read. *)
FinalizeIdentity ==
    /\ gate.phase = "identity"
    /\ gate.decision # {} /\ DecideIdentity(gate.proofs) = gate.decision
    /\ Script([gate EXCEPT !.phase = "stack", !.hashed = {}])

(* No proof was named, or one does not hold. *)
IdentityUnproven ==
    /\ gate.phase \in {"identity", "evidence"}
    /\ Finalised("blocked_identity_compatibility", gate.evidence, {})

(* _cognito_stack_absent. *)
CheckStack(absent) ==
    /\ gate.phase = "stack"
    /\ Finalised(IF absent /\ gate.status = "ready" THEN "ready" ELSE "blocked_identity_compatibility",
                 gate.evidence, gate.proofs)

(* The report with its final status, and the digests of the evidence of the run and of  *)
(* the decision file, which stand here for what was digested; the latter is stored      *)
(* whenever the file was read.  History: the proofs that were verified, which the       *)
(* report does not name.                                                                *)
MachineReport ==
    [status |-> gate.status, checks |-> gate.checks, account |-> gate.account, at |-> gate.at,
     evidence |-> gate.evidence, decision |-> gate.decision, proofs |-> gate.proofs]

(* write_readiness_report: the report is replaced by a rename, or the output is refused *)
(* or a write fails, the temporary file goes and the old report stays.                  *)
WriteReport ==
    /\ gate.phase = "write"
    /\ gateFile' = {MachineReport} \/ UNCHANGED gateFile
    /\ gate' = IdleGate
    /\ UNCHANGED <<identityVars, githubVars>>

(* The script is interrupted. *)
Interrupt == gate.phase # "idle" /\ Script(IdleGate)

------------------------------------------------------------------------------
Commits == [event : {"workflow_dispatch", "push"}, path : {"smoke", "other"}, source : {"pinned", "other"}]

GateInit ==
    /\ IdentityInit
    /\ commit \in Commits
    /\ role \in Accounts
    /\ attempts = <<FreshAttempt>>
    /\ gate = IdleGate
    /\ gateFile = {}

GateNext ==
    \/ IdentityNext /\ UNCHANGED <<githubVars, gate, gateFile>>
    \/ Rerun \/ Upload \/ RunConcludes \/ ChangeRole
    \/ \E n \in 1 .. Latest : ExpireArtifact(n)
    \/ StartGate \/ \E supported \in [DOMAIN Tools -> BOOLEAN] : CheckLocalToolchain(supported)
    \/ \E profile \in ProfileSettings : CheckAwsAccounts(profile)
    \/ SkipLiveChecks
    \/ \E result \in {"ok", "throttled", "failed", "malformed", "lacking"} : CheckRegionService(result)
    \/ BuildReport \/ ReadIdentityDecision \/ FinalizeLocal
    \/ ReadRun \/ ReadWorkflow \/ ReadJobs \/ ReadSource \/ ListArtifacts
    \/ DownloadAccountProof \/ OidcUnverified
    \/ FinalizeRegion \/ ReadProof \/ \E f \in RawFiles : HashEvidence(f)
    \/ FinalizeIdentity \/ IdentityUnproven \/ \E absent \in BOOLEAN : CheckStack(absent)
    \/ WriteReport \/ Interrupt

GateSpec == GateInit /\ [][GateNext]_gateVars

------------------------------------------------------------------------------
(* Properties. *)

(* A report that says ready rests on evidence that belongs together: every expected     *)
(* check was made once and passed; one attempt of the pinned workflow succeeded while   *)
(* it held the very account the report verified, however the run was repeated and its   *)
(* role changed between the commands (verify_oidc_runs); and the hosts passed their     *)
(* trials in one mode with one issuer, within a day of the report, and lead to the very *)
(* decision whose digest the report stores, however probes and decision are replaced    *)
(* while they are read (verify_identity_proof, _machine_report).                        *)
ReadyOnEvidence ==
    \A r \in gateFile : r.status = "ready" =>
        /\ Exact(r.checks) /\ \A i \in DOMAIN r.checks : r.checks[i].state = "pass"
        /\ commit.source = "pinned"
        /\ \E e \in r.evidence : /\ attempts[e.attempt].state = "success"
                                 /\ attempts[e.attempt].account = r.account
        /\ AllHostsPass(r.proofs) /\ r.decision = DecideIdentity(r.proofs)
        /\ \A p, q \in r.proofs : p.mode = q.mode /\ p.issuer = q.issuer
        /\ \A p \in r.proofs : p.at <= r.at /\ r.at - p.at <= MaxAge

(* A report that says blocked names the first thing in the way: the tools, then the     *)
(* account and its run, then the services, and the identity only when nothing of these  *)
(* is (finalize_wave0_gate); and evidence of a run is stored only behind a verified     *)
(* account.                                                                             *)
AllPass(r, group) == \A i \in DOMAIN r.checks : r.checks[i].name \in group => r.checks[i].state = "pass"
BlockedForCause ==
    \A r \in gateFile :
        /\ r.status = "blocked_tooling" <=> ~AllPass(r, ToolChecks)
        /\ r.status = "blocked_region_service" =>
              /\ ~AllPass(r, ServiceChecks) /\ AllPass(r, {"account"}) /\ r.evidence # {}
        /\ r.status = "blocked_identity_compatibility" =>
              /\ \A i \in DOMAIN r.checks : r.checks[i].state = "pass"
              /\ r.evidence # {}
        /\ r.evidence # {} => r.account # "none" /\ AllPass(r, ToolChecks \cup {"account"})

(* The report of the gate can be relied on. *)
GateSound == ReadyOnEvidence /\ BlockedForCause
=============================================================================
