--------------------------- MODULE IdentityProof ---------------------------
(***************************************************************************)
(* The identity evidence of AWS Wave 0 (aws/identity.py and                *)
(* scripts/record_identity_probe.py): trials of the hosts are recorded as  *)
(* probe files that hold the digest of a raw evidence file, an issuer      *)
(* strategy is decided from them, and the decision is verified anew from   *)
(* the files when the gate is finalised.                                   *)
(*                                                                         *)
(* A digest stands for the contents it is taken of.  Every file is written *)
(* to a temporary name and renamed, so that it is seen whole or not at     *)
(* all.                                                                    *)
(***************************************************************************)
EXTENDS Naturals, FiniteSets

CONSTANTS
    Hosts,          \* the required hosts
    Issuers,        \* origins of external issuers
    RawFiles,       \* paths of raw evidence files
    Contents,       \* what such a file may hold
    Trials,         \* the trials that are recorded: host, mode, result, issuer, file
    MaxAge,         \* hours for which a probe is current
    MaxHour,        \* bound on the clock
    MaxOutside      \* bound on trials, edits and outside events

Modes0 == {"pre_registered", "dcr"}

ASSUME IdentityAssumption ==
    /\ MaxAge \in Nat /\ MaxHour \in Nat /\ MaxOutside \in Nat
    /\ "cognito" \notin Issuers
    /\ Trials \subseteq [host : Hosts, mode : Modes0, result : {"pass", "fail"},
                         issuer : Issuers \cup {"cognito"}, file : RawFiles]

VARIABLES
    rawFiles,    \* contents of the raw evidence files
    probeFiles,  \* the recorded probes, at most one for each host and mode
    deciding,    \* whether a decide command runs
    unread,      \* the probe files it has listed and not read
    loaded,      \* the probes it has read
    decided,     \* the decision file: empty, or one decision
    hour,
    outside

decideVars == <<deciding, unread, loaded>>
identityVars == <<rawFiles, probeFiles, decideVars, decided, hour, outside>>

NoFile == "none"

Happens == outside < MaxOutside /\ outside' = outside + 1

------------------------------------------------------------------------------
(* HostIdentityProbe and IdentityDecision: cognito with pre-registration, an external *)
(* issuer with dynamic registration.                                                  *)
IssuerFits(p) == (p.issuer = "cognito") <=> (p.mode = "pre_registered")

(* _sha256_file: the digest of a file that can be read. *)
Digest(f) == {rawFiles[f]} \ {NoFile}

(* The file of a probe is named for its host and mode, and replaced by a rename. *)
WithProbe(probe) ==
    {p \in probeFiles : p.host # probe.host \/ p.mode # probe.mode} \cup {probe}

(* The record command: the probe is stamped and bound to the evidence file. *)
RecordHostProbe(t) ==
    /\ Happens
    /\ IssuerFits(t)
    /\ \E digest \in Digest(t.file) :
          probeFiles' = WithProbe([host |-> t.host, mode |-> t.mode, result |-> t.result,
                                   issuer |-> t.issuer, at |-> hour, digest |-> digest])
    /\ UNCHANGED <<rawFiles, decideVars, decided, hour>>

InMode(ps, m) == {p \in ps : p.mode = m}
AllHostsPass(ps) == {p.host : p \in ps} = Hosts /\ \A p \in ps : p.result = "pass"

(* decide_identity: the decision the probes lead to, if they lead to one. *)
DecideIdentity(ps) ==
    LET dcr == InMode(ps, "dcr")
        possible == {p.host : p \in ps} = Hosts
                    /\ \A p, q \in ps : p.host = q.host /\ p.mode = q.mode => p = q
    IN  CASE possible /\ AllHostsPass(InMode(ps, "pre_registered")) ->
                {[mode |-> "pre_registered", issuer |-> "cognito"]}
          [] possible /\ ~AllHostsPass(InMode(ps, "pre_registered"))
                      /\ AllHostsPass(dcr) /\ Cardinality({p.issuer : p \in dcr}) = 1 ->
                {[mode |-> "dcr", issuer |-> p.issuer] : p \in dcr}
          [] OTHER -> {}

(* The decide command lists the probe files, reads one after another and writes what    *)
(* follows from them; a probe may be replaced or added in between.  The model reads     *)
(* them in every order, the command in that of their names.                             *)
FileName(p) == [host |-> p.host, mode |-> p.mode]

ListProbes ==
    /\ ~deciding
    /\ deciding' = TRUE /\ unread' = {FileName(p) : p \in probeFiles} /\ loaded' = {}
    /\ UNCHANGED <<rawFiles, probeFiles, decided, hour, outside>>

LoadProbe ==
    /\ \E p \in probeFiles :
          /\ FileName(p) \in unread
          /\ unread' = unread \ {FileName(p)} /\ loaded' = loaded \cup {p}
    /\ UNCHANGED <<rawFiles, probeFiles, deciding, decided, hour, outside>>

WriteIdentityDecision ==
    /\ deciding /\ unread = {}
    /\ deciding' = FALSE /\ loaded' = {} /\ unread' = {}
    /\ decided' = IF DecideIdentity(loaded) = {} THEN decided ELSE DecideIdentity(loaded)
    /\ UNCHANGED <<rawFiles, probeFiles, hour, outside>>

------------------------------------------------------------------------------
(* No probe of the future, none older than a day. *)
ProofCurrent(p, verifiedAt) == p.at <= verifiedAt /\ verifiedAt - p.at <= MaxAge

------------------------------------------------------------------------------
(* External: the raw evidence is edited or removed, and time passes. *)
EditRawFile(f) ==
    /\ Happens
    /\ rawFiles' \in {[rawFiles EXCEPT ![f] = c] : c \in Contents \cup {NoFile}}
    /\ UNCHANGED <<probeFiles, decideVars, decided, hour>>

HourPasses ==
    /\ hour < MaxHour
    /\ hour' = hour + 1
    /\ UNCHANGED <<rawFiles, probeFiles, decideVars, decided, outside>>

IdentityInit ==
    /\ rawFiles \in [RawFiles -> Contents]
    /\ \A f, g \in RawFiles : f # g => rawFiles[f] # rawFiles[g]
    /\ probeFiles = {} /\ decided = {}
    /\ deciding = FALSE /\ unread = {} /\ loaded = {}
    /\ hour = 0
    /\ outside = 0

IdentityNext ==
    \/ \E t \in Trials : RecordHostProbe(t)
    \/ ListProbes \/ LoadProbe \/ WriteIdentityDecision
    \/ \E f \in RawFiles : EditRawFile(f)
    \/ HourPasses
=============================================================================
