-------------------------- MODULE LocalRepository --------------------------
(***************************************************************************)
(* The files of one repository: .mercury and what is under it              *)
(* (local/repository.py) and the credentials kept there                    *)
(* (local/credentials.py).  Processes bootstrap the directory, configure   *)
(* connectors and save or clear credentials, each as a sequence of system  *)
(* calls; meanwhile somebody may rename the repository or .mercury, or put *)
(* a symbolic link in their place, and a process may die at any call.      *)
(*                                                                         *)
(* A directory is known by its identity (st_dev, st_ino).  Outside is the  *)
(* directory symbolic links lead to.  Files are replaced by rename, so a   *)
(* file is one value here; the temporary file beside it is left out.  The  *)
(* POSIX code is modelled; the variant for other systems, which works on   *)
(* paths, is not.                                                          *)
(*                                                                         *)
(* The file of repository_operation_lock lies in the cache of the .mercury *)
(* that is there when the lock is asked for.  A writer of credentials opens*)
(* .mercury once more when it has the lock, and nothing compares the two:  *)
(* crossed says that some writer wrote into another .mercury than the one  *)
(* it had locked.                                                          *)
(***************************************************************************)
EXTENDS Naturals, Sequences, Functions

CONSTANTS
    Processes,
    Roots,           \* directories that may be found under the repository's name
    Dirs,            \* directories that may be found as .mercury
    Outside,         \* the directory a symbolic link leads to
    Profiles,        \* (connector, environment) pairs
    PrivateProfiles, \* those whose environment is local or gateway
    Fields,          \* credential fields
    EnvName,         \* credential_env_name of each profile and field
    Secrets,         \* values of credentials; none of them is empty
    Empty,           \* the empty value, which removes a field
    Records,         \* connector records somebody may ask for or write by hand
    PrivateHosts, MetadataHosts, InvalidHosts,
    Ops,             \* the operations of this instance
    MaxMeddling,     \* bound on renames and edits by others
    MaxCalls

ASSUME RepositoryAssumption ==
    /\ PrivateProfiles \subseteq Profiles
    /\ EnvName \in [Profiles \X Fields -> STRING]
    /\ Outside \in Dirs /\ \E d \in Dirs : d # Outside
    /\ {"link", "absent", "nowhere"} \cap (Dirs \cup Roots) = {}
    /\ "free" \notin Processes
    /\ Empty \notin Secrets
    /\ {MaxMeddling, MaxCalls} \subseteq Nat

VARIABLES
    name,        \* what the repository's path names: a root, or "link"
    entry,       \* what .mercury is in each root: a directory, "link" or "absent"
    files,       \* the contents of each directory
    ignored,     \* roots whose .gitignore has the required rules
    holder,      \* the process that has locked the lock file of each directory
    proc,        \* what each process is doing
    runtime,     \* the configuration each process loaded for its runtime
    told,        \* the credentials somebody was told are stored
    crossed,     \* history: a writer wrote where it held no lock
    budget       \* renames and edits by others, and calls, still to come

repositoryVars ==
    <<name, entry, files, ignored, holder, proc, runtime, told, crossed, budget>>

Subs == <<"catalog", "cache", "audit">>
Nowhere == "nowhere"
Free == "free"
NoFile == {}              \* a file is the set of its content, empty if missing

----------------------------------------------------------------------------
(* The configuration: connectors, the hosts trusted for them, validations. *)

\* RepositoryConfig(): the defaults.
DefaultConfig == [connectors |-> <<>>, hosts |-> <<>>, validated |-> {}]

\* _is_private_network_host: localhost, .local, .internal, .lan, private addresses.
PrivateNetworkHost(host) == host \in PrivateHosts

\* _is_valid_trusted_host: no metadata service, no numeric alias of an address.
ValidTrustedHost(host) == host \notin MetadataHosts \cup InvalidHosts

\* _validate_endpoint_url: syntax, no credential in it, no metadata service,
\* the private network and plain http only where they are allowed.
ValidateEndpoint(url, profile, private) ==
    /\ url.clean
    /\ ValidTrustedHost(url.host)
    /\ PrivateNetworkHost(url.host) => private /\ profile \in PrivateProfiles
    /\ url.scheme # "https" =>
          private /\ profile \in PrivateProfiles /\ PrivateNetworkHost(url.host)

\* The endpoints of a record: its base URL and, if set, its token URL.
Endpoints(record) == {record.base} \cup record.token

\* _normalize_network_policy
PolicyHolds(record, profile) == record.private => profile \in PrivateProfiles

\* _sanitize_auth_settings: known names, and no credential among the values.
AuthSettingsHold(record) == record.auth = "names"

\* _normalize_connector_record accepts the record.
Normalizes(record, profile) ==
    /\ PolicyHolds(record, profile)
    /\ AuthSettingsHold(record)
    /\ \A url \in Endpoints(record) : ValidateEndpoint(url, profile, record.private)

\* ... and returns these hosts.
HostsOf(record) == {url.host : url \in Endpoints(record)}

\* _load_trusted_hosts: nonempty lists of valid hosts.
LoadTrustedHosts(hosts) ==
    \A p \in DOMAIN hosts :
        hosts[p] # {} /\ \A host \in hosts[p] : ValidTrustedHost(host)

\* _load_connectors: every record is normal, and the hosts are exactly its own.
LoadConnectors(config) ==
    /\ DOMAIN config.hosts = DOMAIN config.connectors
    /\ \A p \in DOMAIN config.connectors :
          /\ Normalizes(config.connectors[p], p)
          /\ config.hosts[p] = HostsOf(config.connectors[p])

\* _load_validations, _load_validation_record: each record names its own place.
LoadValidations(config) == config.validated \subseteq Profiles

\* load_repository_config, _validated_repository_config
Loads(config) ==
    LoadTrustedHosts(config.hosts) /\ LoadConnectors(config) /\ LoadValidations(config)

\* allow_private_network of the configuration a runtime loaded.
AllowPrivateNetwork(config, p) ==
    p \in DOMAIN config.connectors /\ config.connectors[p].private

----------------------------------------------------------------------------
(* The credentials: a document maps (profile, field) pairs to values.      *)

EmptyDocument == <<>>

\* The profile that owns an environment name in a document.
Owners(doc, envName) == {slot[1] : slot \in {s \in DOMAIN doc : EnvName[s] = envName}}

\* _owned_environment_names: one owner for each name.
OwnedNames(doc) == \A s, t \in DOMAIN doc : EnvName[s] = EnvName[t] => s = t

\* save: the document with the given values; an empty value removes a field.
Saved(doc, profile, values) ==
    LET removed == {<<profile, f>> : f \in {g \in DOMAIN values : values[g] = Empty}}
        given   == {<<profile, f>> : f \in {g \in DOMAIN values : values[g] # Empty}}
    IN  [s \in (DOMAIN doc \ removed) \cup given |->
            IF s \in given THEN values[s[2]] ELSE doc[s]]

\* save refuses a name that another profile owns.
Ambiguous(doc, profile, values) ==
    \E f \in DOMAIN values : Owners(doc, EnvName[<<profile, f>>]) \ {profile} # {}

\* _profile_matches: a scope of clear is a set of profiles.
Cleared(doc, scope) == Restrict(doc, {s \in DOMAIN doc : s[1] \notin scope})

\* _status_from_document: the fields present of one profile.
PresentFields(doc, profile) == {f \in Fields : <<profile, f>> \in DOMAIN doc}

----------------------------------------------------------------------------
(* The file system as a process sees it.                                   *)

Idle == [at |-> "idle", op |-> "none", root |-> Nowhere, dir |-> Nowhere, lock |-> Nowhere,
         read |-> EmptyDocument, config |-> DefaultConfig,
         profile |-> CHOOSE p \in Profiles : TRUE, arg |-> "none"]

Now(p, label) == proc' = [proc EXCEPT ![p].at = label]

\* The call ends, by an error or otherwise: descriptors are closed, the lock left.
Ends(p) ==
    /\ proc' = [proc EXCEPT ![p] = Idle]
    /\ holder' = [d \in Dirs |-> IF holder[d] = p THEN Free ELSE holder[d]]

\* Deviation: the link is followed.
OpensFollowing(e) == IF e = "link" THEN Outside ELSE e

\* What open with O_NOFOLLOW finds at an entry: never what a link leads to.
OpensAs(e) == e

IsDirectory(e) == e \in Dirs

NewDirectory == [subs |-> <<>>, config |-> NoFile, rules |-> FALSE, creds |-> EmptyDocument]

Bootstrapped == [subs |-> Subs, config |-> {DefaultConfig}, rules |-> TRUE,
                 creds |-> EmptyDocument]

\* A directory nobody has used yet, for mkdir.
Fresh(d) ==
    /\ d # Outside
    /\ \A q \in Roots : entry[q] # d
    /\ files[d] = NewDirectory

Rest == UNCHANGED <<name, entry, files, ignored, runtime, told, crossed, budget>>

\* Any step of a call may meet an OSError or a bad argument.
Fails(p) ==
    /\ proc[p].at # "idle"
    /\ Ends(p)
    /\ Rest

\* The process dies: the system releases its lock; what it renamed stays.
Dies(p) ==
    /\ proc[p].at # "idle"
    /\ Ends(p)
    /\ runtime' = [runtime EXCEPT ![p] = NoFile]
    /\ UNCHANGED <<name, entry, files, ignored, told, crossed, budget>>

Calls(p, op) ==
    /\ op \in Ops
    /\ proc[p].at = "idle"
    /\ budget.calls > 0
    /\ budget' = [budget EXCEPT !.calls = @ - 1]
    /\ UNCHANGED <<name, entry, files, ignored, holder, runtime, told, crossed>>

----------------------------------------------------------------------------
(* ensure_repository_state on POSIX.                                       *)

\* resolve_repository_root, then _bootstrap_repository_posix begins.
Bootstrap(p) ==
    /\ Calls(p, "bootstrap")
    /\ proc' = [proc EXCEPT ![p] = [Idle EXCEPT !.op = "bootstrap", !.at = "lstat root"]]

\* _open_repository_root_fd: lstat.
LstatRoot(p) ==
    /\ proc[p].at = "lstat root"
    /\ IF name \in Roots
       THEN /\ proc' = [proc EXCEPT ![p].root = name, ![p].at = "open root"]
            /\ UNCHANGED holder
       ELSE Ends(p)
    /\ Rest

\* ... and open, refused when what was opened is not what was examined.
OpenRoot(p) ==
    /\ proc[p].at = "open root"
    /\ IF name = proc[p].root
       THEN Now(p, "mkdir") /\ UNCHANGED holder
       ELSE Ends(p)
    /\ Rest

\* _ensure_directory_entry for .mercury: mkdir, then it must be a directory.
EnsureMercury(p) ==
    /\ proc[p].at = "mkdir"
    /\ LET r == proc[p].root
       IN  \/ /\ entry[r] = "absent"
              /\ \E d \in Dirs : Fresh(d) /\ entry' = [entry EXCEPT ![r] = d]
              /\ Now(p, "open mercury")
              /\ UNCHANGED holder
           \/ /\ entry[r] # "absent"
              /\ IF IsDirectory(entry[r])
                 THEN Now(p, "open mercury") /\ UNCHANGED holder
                 ELSE Ends(p)
              /\ UNCHANGED entry
    /\ UNCHANGED <<name, files, ignored, runtime, told, crossed, budget>>

\* _open_repository_mercury_fd: open by the entry, which is looked at again.
OpenMercury(p) ==
    /\ proc[p].at = "open mercury"
    /\ LET d == OpensAs(entry[proc[p].root])
       IN  IF IsDirectory(d)
           THEN /\ proc' = [proc EXCEPT ![p].dir = d, ![p].at = "subs"]
                /\ UNCHANGED holder
           ELSE Ends(p)
    /\ Rest

\* _ensure_open_directory_fd of catalog, cache and audit, one after another.
EnsureSub(p) ==
    /\ proc[p].at = "subs"
    /\ LET d == proc[p].dir
       IN  IF files[d].subs = Subs
           THEN Now(p, "config") /\ UNCHANGED files
           ELSE /\ files' = [files EXCEPT ![d].subs = SubSeq(Subs, 1, Len(@) + 1)]
                /\ UNCHANGED proc
    /\ UNCHANGED <<name, entry, ignored, holder, runtime, told, crossed, budget>>

\* _ensure_repository_config_at: the file is looked for ...
SeekConfig(p) ==
    /\ proc[p].at = "config"
    /\ Now(p, IF files[proc[p].dir].config = NoFile THEN "default" ELSE "root rules")
    /\ UNCHANGED holder
    /\ Rest

\* ... and, if it was missing, the default renamed over whatever is there now.
WriteDefault(p) ==
    /\ proc[p].at = "default"
    /\ files' = [files EXCEPT ![proc[p].dir].config = {DefaultConfig}]
    /\ Now(p, "root rules")
    /\ UNCHANGED <<name, entry, ignored, holder, runtime, told, crossed, budget>>

\* _ensure_gitignore_rules_at in the repository's own directory.
RootRules(p) ==
    /\ proc[p].at = "root rules"
    /\ ignored' = ignored \cup {proc[p].root}
    /\ Now(p, "mercury rules")
    /\ UNCHANGED <<name, entry, files, holder, runtime, told, crossed, budget>>

\* _ensure_gitignore_rules_at in .mercury.
MercuryRules(p) ==
    /\ proc[p].at = "mercury rules"
    /\ files' = [files EXCEPT ![proc[p].dir].rules = TRUE]
    /\ Now(p, "entry")
    /\ UNCHANGED <<name, entry, ignored, holder, runtime, told, crossed, budget>>

\* _validate_open_directory_entry of .mercury
RecheckEntry(p) ==
    /\ proc[p].at = "entry"
    /\ IF entry[proc[p].root] = proc[p].dir
       THEN Now(p, "root again") /\ UNCHANGED holder
       ELSE Ends(p)
    /\ Rest

\* _validate_root_descriptor; the context is returned and its runtime may start.
RecheckRoot(p) ==
    /\ proc[p].at = "root again"
    /\ IF name = proc[p].root
       THEN proc' = [proc EXCEPT ![p].at = "runtime"] /\ UNCHANGED holder
       ELSE Ends(p)
    /\ Rest

\* The directory a path leads to: unlike the descriptors, a path follows links.
ByPath == IF name \notin Roots \/ entry[name] = "link" THEN Outside ELSE entry[name]

\* load_repository_config: a missing file is the default configuration.
ConfigByPath ==
    IF ByPath \notin Dirs \/ files[ByPath].config = NoFile
    THEN DefaultConfig ELSE CHOOSE c \in files[ByPath].config : TRUE

\* LocalMercuryRuntime.for_repository loads the configuration by its path ...
LoadForRuntime(p) ==
    /\ proc[p].at = "runtime"
    /\ IF Loads(ConfigByPath)
       THEN /\ proc' = [proc EXCEPT ![p].config = ConfigByPath, ![p].at = "stores"]
            /\ UNCHANGED holder
       ELSE Ends(p)
    /\ Rest

\* ... and needs a CredentialStore, whose parent must be a directory.
ForRepository(p) ==
    /\ proc[p].at = "stores"
    /\ runtime' = IF name \in Roots /\ IsDirectory(OpensAs(entry[name]))
                  THEN [runtime EXCEPT ![p] = {proc[p].config}] ELSE runtime
    /\ Ends(p)
    /\ UNCHANGED <<name, entry, files, ignored, told, crossed, budget>>

----------------------------------------------------------------------------
(* Configuring connectors: the file is read, changed and written by path,  *)
(* without repository_operation_lock.                                      *)

\* configure_connector: prepare_connector_configuration, then load.
Configure(p) ==
    /\ \E profile \in Profiles, record \in Records :
          /\ Normalizes(record, profile)
          /\ proc' = [proc EXCEPT ![p] =
                [Idle EXCEPT !.op = "configure", !.at = "load config",
                             !.profile = profile, !.arg = record]]
    /\ Calls(p, "configure")

\* record_connector_validation after a probe succeeded.
RecordValidation(p) ==
    /\ \E profile \in Profiles :
          proc' = [proc EXCEPT ![p] =
             [Idle EXCEPT !.op = "validate", !.at = "load config", !.profile = profile]]
    /\ Calls(p, "validate")

\* clear_connector_validations of one profile.
ClearValidations(p) ==
    /\ \E profile \in Profiles :
          proc' = [proc EXCEPT ![p] =
             [Idle EXCEPT !.op = "unvalidate", !.at = "load config", !.profile = profile]]
    /\ Calls(p, "unvalidate")

\* load_repository_config at the start of each of the three.
LoadConfig(p) ==
    /\ proc[p].at = "load config"
    /\ IF Loads(ConfigByPath)
       THEN /\ proc' = [proc EXCEPT ![p].config = ConfigByPath, ![p].at = "write config"]
            /\ UNCHANGED holder
       ELSE Ends(p)
    /\ Rest

\* The configuration configure_connector writes; it keeps the validations.
Configured(config, profile, record) ==
    [config EXCEPT
        !.connectors = [q \in DOMAIN @ \cup {profile} |->
                           IF q = profile THEN record ELSE @[q]],
        !.hosts = [q \in DOMAIN @ \cup {profile} |->
                      IF q = profile THEN HostsOf(record) ELSE @[q]]]

\* What each of the three writes.
Rewritten(w) ==
    IF w.op = "configure" THEN Configured(w.config, w.profile, w.arg)
    ELSE IF w.op = "validate" THEN [w.config EXCEPT !.validated = @ \cup {w.profile}]
    ELSE [w.config EXCEPT !.validated = @ \ {w.profile}]

\* _write_config_atomic makes a missing .mercury; clear_connector_validations
\* writes nothing if nothing changed.
WriteConfig(p) ==
    /\ proc[p].at = "write config"
    /\ LET w == proc[p]
       IN  \/ /\ w.op = "unvalidate" /\ Rewritten(w) = w.config
              /\ UNCHANGED <<entry, files>>
           \/ /\ ~(w.op = "unvalidate" /\ Rewritten(w) = w.config)
              /\ ByPath \in Dirs
              /\ files' = [files EXCEPT ![ByPath].config = {Rewritten(w)}]
              /\ UNCHANGED entry
           \/ /\ ~(w.op = "unvalidate" /\ Rewritten(w) = w.config)
              /\ ByPath = "absent"
              /\ \E d \in Dirs : /\ Fresh(d)
                                 /\ entry' = [entry EXCEPT ![name] = d]
                                 /\ files' = [files EXCEPT ![d].config = {Rewritten(w)}]
    /\ Ends(p)
    /\ UNCHANGED <<name, ignored, runtime, told, crossed, budget>>

----------------------------------------------------------------------------
(* Credentials: CredentialStore, whose writers hold the repository lock.   *)

\* _credential_locked: the parent is validated once before the lock is asked for.
Credential(p, op, arg, profile) ==
    /\ proc' = [proc EXCEPT ![p] =
          [Idle EXCEPT !.op = op, !.arg = arg, !.profile = profile, !.at = "parent"]]
    /\ Calls(p, op)

Save(p) ==
    \E profile \in Profiles, f \in Fields, v \in Secrets \cup {Empty} :
        Credential(p, "save", [g \in {f} |-> v], profile)

Clear(p) ==
    \E profile \in Profiles : Credential(p, "clear", {profile}, profile)

ClearAll(p) == Credential(p, "clear", Profiles, CHOOSE q \in Profiles : TRUE)

Snapshot(p) == \E profile \in Profiles : Credential(p, "snapshot", "none", profile)

\* load and status take no lock.
Load(p) ==
    /\ \E profile \in Profiles :
          proc' = [proc EXCEPT ![p] =
             [Idle EXCEPT !.op = "load", !.at = "open parent", !.profile = profile]]
    /\ Calls(p, "load")

\* _validated_parent_fd around nothing.
ValidateParent(p) ==
    /\ proc[p].at = "parent"
    /\ IF name \in Roots /\ IsDirectory(OpensAs(entry[name]))
       THEN Now(p, "lock") /\ UNCHANGED holder
       ELSE Ends(p)
    /\ Rest

\* _validated_cache_directory and _open_lock_file_posix: no link followed, the
\* lock file is made or opened in the cache of the .mercury that is there now.
OpenLock(p) ==
    /\ proc[p].at = "lock"
    /\ IF name \in Roots /\ IsDirectory(OpensAs(entry[name]))
           /\ "cache" \in Range(files[OpensAs(entry[name])].subs)
       THEN /\ proc' = [proc EXCEPT ![p].lock = OpensAs(entry[name]), ![p].at = "flock"]
            /\ UNCHANGED holder
       ELSE Ends(p)
    /\ Rest

\* _acquire_process_lock: the file is locked, wherever it has been moved since.
TakeLock(p) ==
    /\ proc[p].at = "flock"
    /\ holder[proc[p].lock] = Free
    /\ holder' = [holder EXCEPT ![proc[p].lock] = p]
    /\ Now(p, "open parent")
    /\ Rest

\* _validated_parent_fd: the repository and .mercury are opened, no link followed ...
OpenParent(p) ==
    /\ proc[p].at = "open parent"
    /\ IF name \in Roots /\ IsDirectory(OpensAs(entry[name]))
       THEN /\ proc' = [proc EXCEPT ![p].root = name, ![p].dir = OpensAs(entry[name]),
                                    ![p].at = "validate"]
            /\ UNCHANGED holder
       ELSE Ends(p)
    /\ Rest

\* _validate_repository_descriptors: what was opened is what the names still name.
DescriptorsHold(p) == name = proc[p].root /\ entry[name] = proc[p].dir

ValidateDescriptors(p) ==
    /\ proc[p].at = "validate"
    /\ IF DescriptorsHold(p) THEN Now(p, "read") /\ UNCHANGED holder ELSE Ends(p)
    /\ Rest

\* _parse_dotenv_text: the index in the file accounts for exactly its values.
Parses(doc) == OwnedNames(doc) /\ \A s \in DOMAIN doc : doc[s] \in Secrets

\* _read_document: the file is opened, no link followed, read and parsed.
Read(p) ==
    /\ proc[p].at = "read"
    /\ LET doc == files[proc[p].dir].creds
       IN  IF Parses(doc)
           THEN /\ proc' = [proc EXCEPT ![p].read = doc,
                       ![p].at = IF proc[p].op \in {"save", "clear"} THEN "write" ELSE "close"]
                /\ UNCHANGED holder
           ELSE Ends(p)
    /\ Rest

\* The document a writer makes of the one it read.
NextDocument(w) ==
    IF w.op = "save" THEN Saved(w.read, w.profile, w.arg) ELSE Cleared(w.read, w.arg)

\* The slots a writer speaks about.
Touched(w) ==
    IF w.op = "save" THEN {w.profile} \X DOMAIN w.arg ELSE w.arg \X Fields

\* _write, _atomic_write or _unlink_credentials: one rename or unlink.
Write(p) ==
    /\ proc[p].at = "write"
    /\ LET w == proc[p]
       IN  IF w.op = "save" /\ Ambiguous(w.read, w.profile, w.arg)
           THEN Ends(p) /\ UNCHANGED <<files, told, crossed>>
           ELSE /\ files' = [files EXCEPT ![w.dir].creds = NextDocument(w)]
                /\ told' = [s \in DOMAIN told \ Touched(w) |-> told[s]]
                /\ crossed' = (crossed \/ w.lock # w.dir)
                /\ Now(p, IF w.op = "save" THEN "verify" ELSE "close")
                /\ UNCHANGED holder
    /\ UNCHANGED <<name, entry, ignored, runtime, budget>>

\* save reads back what it wrote, and answers from that.
Verify(p) ==
    /\ proc[p].at = "verify"
    /\ proc' = [proc EXCEPT ![p].read = files[proc[p].dir].creds, ![p].at = "close"]
    /\ UNCHANGED holder
    /\ Rest

\* What the caller of a writer is told of the slots it spoke about.
Answer(w) ==
    [s \in Touched(w) |-> IF w.op = "clear" THEN Empty
                          ELSE IF s[2] \in PresentFields(w.read, w.profile)
                               THEN w.read[s] ELSE Empty]

\* The with-block ends: the descriptors are validated again before the answer.
Close(p) ==
    /\ proc[p].at = "close"
    /\ told' = IF DescriptorsHold(p) /\ proc[p].op \in {"save", "clear"}
               THEN [s \in DOMAIN told \cup Touched(proc[p]) |->
                        IF s \in Touched(proc[p]) THEN Answer(proc[p])[s] ELSE told[s]]
               ELSE told
    /\ Ends(p)
    /\ UNCHANGED <<name, entry, files, ignored, runtime, budget, crossed>>

----------------------------------------------------------------------------
(* Everybody else.                                                         *)

\* Somebody renames .mercury away, back, or puts a link in its place.
SwapMercury ==
    /\ budget.meddling > 0
    /\ \E r \in Roots, e \in (Dirs \ {Outside}) \cup {"link", "absent"} :
          /\ e # entry[r]
          /\ \A q \in Roots : e \in Dirs => entry[q] # e
          /\ entry' = [entry EXCEPT ![r] = e]
    /\ budget' = [budget EXCEPT !.meddling = @ - 1]
    /\ told' = <<>>
    /\ UNCHANGED <<name, files, ignored, holder, proc, runtime, crossed>>

\* ... or the repository itself.
SwapRoot ==
    /\ budget.meddling > 0
    /\ \E r \in (Roots \cup {"link"}) \ {name} : name' = r
    /\ budget' = [budget EXCEPT !.meddling = @ - 1]
    /\ told' = <<>>
    /\ UNCHANGED <<entry, files, ignored, holder, proc, runtime, crossed>>

\* Somebody edits config.json by hand.
EditConfig ==
    /\ budget.meddling > 0
    /\ name \in Roots
    /\ \E d \in {entry[name]} \cap Dirs, p \in Profiles, record \in Records,
         hosts \in {HostsOf(r) : r \in Records} :
          files' = [files EXCEPT ![d].config =
                       {[DefaultConfig EXCEPT !.connectors = [q \in {p} |-> record],
                                              !.hosts = [q \in {p} |-> hosts]]}]
    /\ budget' = [budget EXCEPT !.meddling = @ - 1]
    /\ UNCHANGED <<name, entry, ignored, holder, proc, runtime, told, crossed>>

RepositoryInit ==
    /\ name \in Roots
    /\ \/ /\ entry = [r \in Roots |-> "absent"]
          /\ files = [d \in Dirs |-> NewDirectory]
          /\ ignored = {}
       \/ LET d == CHOOSE d \in Dirs : d # Outside    \* bootstrapped earlier
          IN /\ entry = [r \in Roots |-> IF r = name THEN d ELSE "absent"]
             /\ files = [e \in Dirs |-> IF e = d THEN Bootstrapped ELSE NewDirectory]
             /\ ignored = {name}
       \/ LET d == CHOOSE d \in Dirs : d # Outside    \* ... and copied since
          IN /\ entry = [r \in Roots |-> IF r = name THEN d ELSE "absent"]
             /\ files = [e \in Dirs |-> IF e = Outside THEN NewDirectory ELSE Bootstrapped]
             /\ ignored = {name}
    /\ holder = [d \in Dirs |-> Free]
    /\ proc = [p \in Processes |-> Idle]
    /\ runtime = [p \in Processes |-> NoFile]
    /\ told = <<>>
    /\ crossed = FALSE
    /\ budget = [meddling |-> MaxMeddling, calls |-> MaxCalls]

RepositoryStep(p) ==
    \/ Bootstrap(p) \/ LstatRoot(p) \/ OpenRoot(p) \/ EnsureMercury(p)
    \/ OpenMercury(p) \/ EnsureSub(p) \/ SeekConfig(p) \/ WriteDefault(p)
    \/ RootRules(p) \/ MercuryRules(p) \/ RecheckEntry(p) \/ RecheckRoot(p)
    \/ LoadForRuntime(p) \/ ForRepository(p)
    \/ Configure(p) \/ RecordValidation(p) \/ ClearValidations(p)
    \/ LoadConfig(p) \/ WriteConfig(p)
    \/ Save(p) \/ Clear(p) \/ ClearAll(p) \/ Snapshot(p) \/ Load(p)
    \/ ValidateParent(p) \/ OpenLock(p) \/ TakeLock(p) \/ OpenParent(p) \/ ValidateDescriptors(p)
    \/ Read(p) \/ Write(p) \/ Verify(p) \/ Close(p)
    \/ Fails(p) \/ Dies(p)

RepositoryNext ==
    \/ \E p \in Processes : RepositoryStep(p)
    \/ SwapMercury \/ SwapRoot \/ EditConfig

RepositorySpec == RepositoryInit /\ [][RepositoryNext]_repositoryVars

----------------------------------------------------------------------------

(* Nothing that bootstraps the repository or stores a credential ever does  *)
(* so behind a symbolic link, whenever the link is put in place: neither    *)
(* the working directories nor credentials.env appear outside.              *)
SecretsStayInside ==
    /\ files[Outside].subs = <<>>
    /\ files[Outside].creds = EmptyDocument

(* A caller who was told that a credential is stored, or gone, finds it so   *)
(* in the repository's .mercury until somebody writes that field again,      *)
(* whatever other profiles and fields were saved at the same time, whichever *)
(* directories came and went during the call, and wherever others died.      *)
(* The exception: once a .mercury was exchanged while a writer was between   *)
(* opening the lock and opening .mercury, and that writer wrote all the      *)
(* same, two writers may have been at one file and one may be lost.          *)
CredentialsKept ==
    told # <<>> =>
        /\ name \in Roots /\ entry[name] \in Dirs
        /\ ~crossed => \A s \in DOMAIN told :
              LET doc == files[entry[name]].creds
              IN  IF told[s] = Empty THEN s \notin DOMAIN doc
                  ELSE s \in DOMAIN doc /\ doc[s] = told[s]

(* A runtime trusts exactly the hosts of the connectors it was given, and    *)
(* reaches the private network or plain http only from an environment that   *)
(* may, although the file is rewritten without a lock and edited by hand.    *)
RuntimeTrustsItsConnectors ==
    \A p \in Processes : \A config \in runtime[p] :
        /\ DOMAIN config.connectors = DOMAIN config.hosts
        /\ \A q \in DOMAIN config.connectors :
              /\ config.hosts[q] = HostsOf(config.connectors[q])
              /\ \A url \in Endpoints(config.connectors[q]) :
                    /\ url.scheme # "https" => url.host \in PrivateHosts
                    /\ url.host \in PrivateHosts =>
                          q \in PrivateProfiles /\ AllowPrivateNetwork(config, q)

(* Neither a link nor a damaged configuration carries secrets away, and none *)
(* that a caller was told of gets lost: they are written only inside         *)
(* .mercury, a runtime sends them only where it may, and what was            *)
(* acknowledged stays.                                                       *)
SecretsGuarded == SecretsStayInside /\ RuntimeTrustsItsConnectors /\ CredentialsKept
=============================================================================
