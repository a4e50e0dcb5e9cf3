------------------------------ MODULE MCLocal ------------------------------
(***************************************************************************)
(* The files and tables of a local installation.  A behaviour of this      *)
(* module is one of RequestStore, of AuditLedger, of LocalRepository or of *)
(* LocalCatalog; the others rest in one of their initial states.           *)
(*                                                                         *)
(* Store: three requests over two bindings that differ in class, connector *)
(* and environment.  Repository: a profile of the public network and one   *)
(* of the local network, and connector records that suit neither, one or   *)
(* the other.  Catalog: an import that adds or replaces two actions, and   *)
(* one that names an action twice.                                         *)
(***************************************************************************)
EXTENDS RequestStore, AuditLedger, LocalRepository, LocalCatalog, TLC

CONSTANTS r1, r2, r3, peak, flowaccount

VARIABLE component     \* the component that runs

MCHashes ==
    {[mutation_class |-> "create", connector_id |-> peak, environment |-> "sandbox"],
     [mutation_class |-> "sensitive", connector_id |-> flowaccount,
      environment |-> "production"]}

MCEnvName == [s \in Profiles \X Fields |-> s[1] \o s[2]]

Url(scheme, host) == [scheme |-> scheme, host |-> host, clean |-> TRUE]

MCRecords ==
    {[base |-> Url("https", "pub"), token |-> {}, private |-> FALSE, auth |-> "names"],
     [base |-> Url("http", "lan"), token |-> {Url("https", "pub")}, private |-> TRUE, auth |-> "names"],
     [base |-> Url("http", "pub"), token |-> {}, private |-> TRUE, auth |-> "names"]}

MCSnapshots == {"a" :> "v1", "a" :> "v1" @@ "b" :> "v1"}

MCImports == {<<<<"b", "v2">>, <<"a", "v2">>>>, <<<<"a", "v1">>, <<"a", "v2">>>>}

MCContracts == {<<"a", "v1">>, <<"b", "v1">>}

LocalInit ==
    /\ component \in {"store", "audit", "repository", "catalog"}
    /\ StoreInit
    /\ Init
    /\ RepositoryInit
    /\ component # "repository" => ignored = {}
    /\ CatalogInit
    /\ component # "catalog" =>
          overlay = <<>> /\ config = {} /\ cloud = CHOOSE s \in Snapshots : TRUE

LocalNext ==
    /\ UNCHANGED component
    /\ \/ component = "store" /\ StoreNext /\ UNCHANGED <<vars, repositoryVars, catalogVars>>
       \/ component = "audit" /\ Next /\ UNCHANGED <<storeVars, repositoryVars, catalogVars>>
       \/ component = "repository" /\ RepositoryNext /\ UNCHANGED <<storeVars, vars, catalogVars>>
       \/ component = "catalog" /\ CatalogNext /\ UNCHANGED <<storeVars, vars, repositoryVars>>

LocalSpec ==
    LocalInit /\ [][LocalNext]_<<component, storeVars, vars, repositoryVars, catalogVars>>
=============================================================================
