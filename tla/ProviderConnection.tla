------------------------- MODULE ProviderConnection -------------------------
(***************************************************************************)
(* The authorisation of a FlowAccount company (providers/oauth.py,         *)
(* providers/store.py, migrations 20260726101000 to 20260730100000).  The  *)
(* browser's callback turns a single-use OAuth state into an attempt, the  *)
(* attempt into tokens, and the tokens into the present generation of the  *)
(* company's connection; calls refresh the tokens; a disconnect deletes    *)
(* and revokes them.  Every function of the database is one transaction;   *)
(* between two of them other workers run, and a worker may die.            *)
(*                                                                         *)
(* Tokens are told apart by their grant, and a grant by the attempt that   *)
(* obtained it.  There is one company, hence one connection, and the       *)
(* provider has a revocation endpoint.                                     *)
(***************************************************************************)
EXTENDS Naturals

CONSTANTS
    Attempts,       \* the OAuth states, each of which becomes an attempt
    Workers,        \* requests being served
    None,
    MaxRevision     \* bound: tokens are refreshed below this revision

ASSUME ConnectionAssumption ==
    /\ None \notin Attempts
    /\ MaxRevision \in Nat

VARIABLES
    state,          \* mercury_provider_oauth_states: is it open, consumed or expired
    attempt,        \* mercury_provider_oauth_attempts
    conn,           \* the company's row of mercury_provider_connections
    grant,          \* what the provider has issued for each attempt
    pc,             \* where each worker is
    job             \* its local variables

vars == <<state, attempt, conn, grant, pc, job>>
records == <<attempt, conn>>

\* revocation is provider_revocation_required, held the grant of the stored
\* envelopes, target whether target_connection_id is set, material the
\* material_revision, acked whether acknowledged_at is set.
NoAttempt == [status |-> "none", revocation |-> FALSE, held |-> None,
              target |-> FALSE, material |-> 0, acked |-> FALSE]

\* sealed is the revision that wrote the envelopes (their ids are new each
\* time), endpoint whether their bundle names a revocation endpoint.
NoConnection == [readiness |-> "absent", revision |-> 0, generation |-> None,
                 envelopes |-> None, sealed |-> 0, endpoint |-> FALSE, revocation |-> FALSE]

NoJob == [attempt |-> None, tries |-> 0, revision |-> 0,
          sealed |-> 0, material |-> None, endpoint |-> FALSE]

Init ==
    /\ state = [a \in Attempts |-> "none"]
    /\ attempt = [a \in Attempts |-> NoAttempt]
    /\ conn = NoConnection
    /\ grant = [a \in Attempts |-> "none"]
    /\ pc = [w \in Workers |-> "idle"]
    /\ job = [w \in Workers |-> NoJob]

Mine(w) == job[w].attempt

Goes(w, label) ==
    /\ pc' = [pc EXCEPT ![w] = label]
    /\ job' = [job EXCEPT ![w] = IF label = "idle" THEN NoJob ELSE [@ EXCEPT !.tries = 0]]

\* provider_store_unavailable: the call is made once more, then given up.
Unanswered(w, fallback) ==
    \/ /\ job[w].tries = 0
       /\ job' = [job EXCEPT ![w].tries = 1]
       /\ UNCHANGED pc
    \/ /\ job[w].tries = 1
       /\ Goes(w, fallback)

-----------------------------------------------------------------------------
(***************************************************************************)
(* The OAuth state                                                         *)
(***************************************************************************)

\* start_authorization: the provider's metadata is read and a client registered
\* with it ...
Start(a) ==
    /\ state[a] = "none"
    /\ state' = [state EXCEPT ![a] = "authorizing"]
    /\ UNCHANGED <<records, grant, pc, job>>

\* ... create leaves a state for the browser to come back with ...
CreateState(a) ==
    /\ state[a] = "authorizing"
    /\ state' = [state EXCEPT ![a] = "open"]
    /\ UNCHANGED <<records, grant, pc, job>>

\* ... or start is refused, by the membership, the provider or the store, or its
\* answer is lost and nobody knows the state.
StartRefused(a) ==
    /\ state[a] = "authorizing"
    /\ state' = [state EXCEPT ![a] = "none"]
    /\ UNCHANGED <<records, grant, pc, job>>

\* Its ten minutes pass; cleanup_expired only clears what nobody can use.
Expire(a) ==
    /\ state[a] = "open"
    /\ state' = [state EXCEPT ![a] = "expired"]
    /\ UNCHANGED <<records, grant, pc, job>>

\* The state has been neither used nor cancelled and is not too old.
Consumable(a) == state[a] = "open"

\* complete_callback: the browser, or a second copy of its request, arrives.
Peek(w, a) ==
    /\ pc[w] = "idle"
    /\ Consumable(a)
    /\ pc' = [pc EXCEPT ![w] = "peeked"]
    /\ job' = [job EXCEPT ![w].attempt = a]
    /\ UNCHANGED <<state, records, grant>>

\* The user refused at the provider: the state is cancelled.
CancelState(w) ==
    /\ pc[w] = "peeked"
    /\ state' = IF Consumable(Mine(w)) THEN [state EXCEPT ![Mine(w)] = "consumed"] ELSE state
    /\ Goes(w, "idle")
    /\ UNCHANGED <<records, grant>>

Consume(w) ==
    /\ pc[w] = "peeked"
    /\ \/ /\ Consumable(Mine(w))
          /\ state' = [state EXCEPT ![Mine(w)] = "consumed"]
          /\ Goes(w, "begin")
       \/ /\ ~Consumable(Mine(w))
          /\ Goes(w, "idle")
          /\ UNCHANGED state
    /\ UNCHANGED <<records, grant>>

-----------------------------------------------------------------------------
(***************************************************************************)
(* The attempt, from the code to the acknowledged generation               *)
(***************************************************************************)

\* Deviation: the obligation is recorded with the tokens, not before them.
BeginUnbound(w) ==
    /\ pc[w] = "begin"
    /\ attempt' = [attempt EXCEPT ![Mine(w)].status = "exchange_pending"]
    /\ Goes(w, "exchange")
    /\ UNCHANGED <<state, conn, grant>>

\* begin_oauth_attempt: the obligation to revoke is on record before the
\* provider is asked for tokens.
Begun(a) == [attempt[a] EXCEPT !.status = "exchange_pending", !.revocation = TRUE]

Begin(w) ==
    /\ pc[w] = "begin"
    /\ attempt' = [attempt EXCEPT ![Mine(w)] = Begun(Mine(w))]
    /\ Goes(w, "exchange")
    /\ UNCHANGED <<state, conn, grant>>

\* exchange_code: granted, or granted with an answer that is lost or refused,
\* or not granted.
Exchange(w) ==
    /\ pc[w] = "exchange"
    /\ \/ /\ grant' = [grant EXCEPT ![Mine(w)] = "live"]
          /\ Goes(w, "attach") \/ Goes(w, "idle")
       \/ Goes(w, "idle") /\ UNCHANGED grant
    /\ UNCHANGED <<state, records>>

\* attach_oauth_attempt
Attached(a) ==
    [attempt[a] EXCEPT !.status = "material_attached", !.held = a, !.material = 1]

\* From here on every failure leads to Fail.
Attach(w) ==
    /\ pc[w] = "attach"
    /\ \/ /\ attempt' = [attempt EXCEPT ![Mine(w)] = Attached(Mine(w))]
          /\ Goes(w, "validate") \/ Goes(w, "fail")
       \/ Goes(w, "fail") /\ UNCHANGED attempt
    /\ UNCHANGED <<state, conn, grant>>

\* replace_oauth_attempt_envelopes: the material must be what the caller read.
Replaceable(a, revision) ==
    attempt[a].status = "material_attached" /\ attempt[a].material = revision

\* The driver may find the tokens expired and replace the envelopes; the
\* caller's connection keeps material revision 1, so a second replacement is
\* refused.
RefreshMaterial(w) ==
    /\ pc[w] = "validate"
    /\ Replaceable(Mine(w), 1)
    /\ attempt' = [attempt EXCEPT ![Mine(w)].material = @ + 1]
    /\ UNCHANGED <<state, conn, grant, pc, job>>

\* discover and validate_connection, then the tokens are loaded once more.
Validate(w) ==
    /\ pc[w] = "validate"
    /\ Goes(w, "resolve") \/ Goes(w, "fail")
    /\ UNCHANGED <<state, records, grant>>

\* resolve_connection_target: the company has no connection, or one that is
\* disconnected and owes the provider nothing.
Resolvable ==
    \/ conn.readiness = "absent"
    \/ conn.readiness = "disconnected" /\ conn.envelopes = None /\ ~conn.revocation

Resolve(w) ==
    /\ pc[w] = "resolve"
    /\ \/ /\ Resolvable
          /\ pc' = [pc EXCEPT ![w] = "finalize"]
          /\ job' = [job EXCEPT ![w].revision = conn.revision + 1]
       \/ Goes(w, "fail")
    /\ UNCHANGED <<state, records, grant>>

\* The connection is still what the finalised attempt made of it.  In SQL a
\* missing generation does not compare as different.
StillCurrent(a) ==
    /\ attempt[a].status = "finalized"
    /\ conn.generation \in {a, None}
    /\ ~conn.revocation /\ conn.envelopes # None
    /\ conn.readiness = IF attempt[a].acked THEN "ready" ELSE "requires_validation"

\* save_mercury_provider_connection compares revisions only.
Saveable(revision) == revision = conn.revision + 1

\* finalize_oauth_attempt: the connection takes the tokens over from the attempt.
Finalized(a, revision) ==
    /\ conn' = [readiness |-> "requires_validation", revision |-> revision, generation |-> a,
                envelopes |-> a, sealed |-> revision, endpoint |-> TRUE, revocation |-> FALSE]
    /\ attempt' = [attempt EXCEPT ![a] = [@ EXCEPT !.status = "finalized", !.held = None,
                        !.target = TRUE, !.acked = FALSE, !.revocation = FALSE]]

\* _finalize_oauth_attempt: it does so now, or had done so when the answer was lost.
Finalize(w) ==
    LET a == Mine(w)
        first == /\ attempt[a].status = "material_attached" /\ attempt[a].revocation
                 /\ Saveable(job[w].revision)
    IN /\ pc[w] = "finalize"
       /\ \/ /\ first
             /\ Finalized(a, job[w].revision)
             /\ Goes(w, "ack") \/ Unanswered(w, "fail")
          \/ /\ StillCurrent(a)
             /\ Goes(w, "ack") /\ UNCHANGED records
          \/ /\ ~first /\ ~StillCurrent(a)
             /\ Goes(w, "fail") /\ UNCHANGED records
          \/ Unanswered(w, "fail") /\ UNCHANGED records
       /\ UNCHANGED <<state, grant>>

\* acknowledge_oauth_attempt: the generation becomes usable.
Acknowledged(a) ==
    /\ conn' = [conn EXCEPT !.readiness = "ready", !.revision = @ + 1]
    /\ attempt' = [attempt EXCEPT ![a].acked = TRUE]

Acknowledge(w) ==
    LET a == Mine(w)
    IN /\ pc[w] = "ack"
       /\ \/ /\ StillCurrent(a) /\ ~attempt[a].acked
             /\ Acknowledged(a)
             /\ Goes(w, "idle") \/ Unanswered(w, "fail")
          \/ /\ StillCurrent(a) /\ attempt[a].acked
             /\ Goes(w, "idle") /\ UNCHANGED records
          \/ /\ ~StillCurrent(a)
             /\ Goes(w, "fail") /\ UNCHANGED records
          \/ Unanswered(w, "fail") /\ UNCHANGED records
       /\ UNCHANGED <<state, grant>>

-----------------------------------------------------------------------------
(***************************************************************************)
(* The failed attempt                                                      *)
(***************************************************************************)

\* disconnect_mercury_provider_connection.  A repeated one changes nothing.
Disconnected(required) ==
    IF conn.readiness = "disconnected" THEN [conn EXCEPT !.envelopes = None]
    ELSE [conn EXCEPT !.readiness = "disconnected", !.revision = @ + 1, !.envelopes = None,
                      !.revocation = @ \/ required]

\* Deviation: whichever generation the connection has is taken down.
OwnsAnyway(a) == attempt[a].target

Owns(a) == attempt[a].target /\ conn.generation = a

\* fail_oauth_attempt: a generation the attempt still owns is disconnected and
\* its tokens come back to the attempt.
Failed(a) ==
    LET live == Owns(a) /\ conn.readiness # "disconnected"
    IN /\ attempt' = [attempt EXCEPT ![a] = [@ EXCEPT !.status = "failed", !.revocation = TRUE,
                           !.held = IF live THEN conn.envelopes ELSE attempt[a].held]]
       /\ conn' = IF live THEN Disconnected(TRUE) ELSE conn

\* _fail_oauth_attempt tries twice.
Fail(w) ==
    LET a == Mine(w)
    IN /\ pc[w] = "fail"
       /\ \/ /\ attempt[a].status \notin {"failed", "revoked"}
             /\ Failed(a)
             /\ Goes(w, "recover") \/ Unanswered(w, "idle")
          \/ /\ attempt[a].status = "failed"
             /\ Goes(w, "recover") /\ UNCHANGED records
          \/ Unanswered(w, "idle") /\ UNCHANGED records
       /\ UNCHANGED <<state, grant>>

\* load_oauth_attempt_envelopes
Recoverable(a) ==
    /\ attempt[a].status \in {"material_attached", "failed"}
    /\ attempt[a].revocation /\ attempt[a].held # None

\* _load_oauth_attempt_tokens
Recover(w) ==
    /\ pc[w] = "recover"
    /\ \/ /\ Recoverable(Mine(w))
          /\ pc' = [pc EXCEPT ![w] = "revoke"]
          /\ job' = [job EXCEPT ![w].material = attempt[Mine(w)].held]
       \/ Goes(w, "idle")
    /\ UNCHANGED <<state, records, grant>>

\* revoke, for a failed attempt and for a disconnected connection.
Revoke(w) ==
    /\ pc[w] \in {"revoke", "revoke_conn"}
    /\ \/ /\ grant' = [grant EXCEPT ![job[w].material] = "revoked"]
          /\ \/ Goes(w, IF pc[w] = "revoke" THEN "complete" ELSE "complete_conn")
             \/ Goes(w, "idle")
       \/ Goes(w, "idle") /\ UNCHANGED grant
    /\ UNCHANGED <<state, records>>

\* complete_revocation refuses a connection that still has credentials.
Settleable == conn.readiness = "disconnected" /\ conn.envelopes = None

\* complete_oauth_attempt_revocation
Completed(a) ==
    /\ attempt[a].status = "failed" /\ attempt[a].revocation
    /\ Owns(a) => Settleable
    /\ conn' = IF Owns(a) THEN [conn EXCEPT !.revocation = FALSE, !.generation = None] ELSE conn
    /\ attempt' = [attempt EXCEPT ![a] = [@ EXCEPT
                       !.status = "revoked", !.held = None, !.revocation = FALSE]]

CompleteAttempt(w) ==
    /\ pc[w] = "complete"
    /\ Completed(Mine(w))
    /\ Goes(w, "idle")
    /\ UNCHANGED <<state, grant>>

-----------------------------------------------------------------------------
(***************************************************************************)
(* Use and disconnection of the connection                                 *)
(***************************************************************************)

\* _connection_generation_is_dispatchable; without a generation the connection
\* was not made by OAuth, or its generation has been revoked.
Dispatchable ==
    conn.generation # None =>
        attempt[conn.generation].status = "finalized" /\ attempt[conn.generation].acked

\* load_connection
Loadable == conn.readiness # "absent" /\ Dispatchable

\* FlowAccountOAuthHeaderFactory finds the access token expired.
LoadExpired(w) ==
    /\ pc[w] = "idle"
    /\ Loadable /\ conn.readiness = "ready"
    /\ conn.revision < MaxRevision
    /\ pc' = [pc EXCEPT ![w] = "save"]
    /\ job' = [job EXCEPT ![w].revision = conn.revision + 1, ![w].material = conn.envelopes]
    /\ UNCHANGED <<state, records, grant>>

\* The refreshed tokens are sealed, without the revocation endpoint, and saved
\* by replace_envelopes unless the connection has changed meanwhile.
SaveRefreshed(w) ==
    /\ pc[w] = "save"
    /\ \/ /\ Saveable(job[w].revision)
          /\ conn' = [conn EXCEPT !.readiness = "ready", !.revision = job[w].revision,
                                  !.envelopes = job[w].material, !.sealed = job[w].revision,
                                  !.endpoint = FALSE, !.revocation = FALSE]
       \/ ~Saveable(job[w].revision) /\ UNCHANGED conn
    /\ Goes(w, "idle")
    /\ UNCHANGED <<state, attempt, grant>>

\* disconnect loads the connection ...
LoadConnection(w) ==
    /\ pc[w] = "idle"
    /\ Loadable /\ conn.readiness # "disconnected"
    /\ pc' = [pc EXCEPT ![w] = "material"]
    /\ job' = [job EXCEPT ![w].sealed = conn.sealed]
    /\ UNCHANGED <<state, records, grant>>

\* load_envelopes: of a connection that is still what the caller loaded.
EnvelopesReadable(sealed) ==
    /\ Loadable /\ conn.readiness # "disconnected"
    /\ conn.sealed = sealed

\* ... and what it needs to revoke the tokens, if they are still the same ...
LoadMaterial(w) ==
    /\ pc[w] = "material"
    /\ pc' = [pc EXCEPT ![w] = "disconnect"]
    /\ \/ /\ EnvelopesReadable(job[w].sealed)
          /\ job' = [job EXCEPT ![w].material = conn.envelopes, ![w].endpoint = conn.endpoint]
       \/ UNCHANGED job
    /\ UNCHANGED <<state, records, grant>>

\* Deviation: the tokens are revoked first.
RevokeThenDisconnect(w) ==
    /\ pc[w] = "disconnect"
    /\ \/ /\ job[w].material # None /\ grant[job[w].material] = "live"
          /\ grant' = [grant EXCEPT ![job[w].material] = "revoked"]
          /\ UNCHANGED <<conn, pc, job>>
       \/ /\ conn' = Disconnected(FALSE)
          /\ Goes(w, "idle")
          /\ UNCHANGED grant
    /\ UNCHANGED <<state, attempt>>

\* ... deletes the envelopes, whatever they are by now, and notes that a
\* revocation is owed unless the bundle has no endpoint for it.
Disconnect(w) ==
    LET unsupported == job[w].material # None /\ ~job[w].endpoint
    IN /\ pc[w] = "disconnect"
       /\ conn' = Disconnected(~unsupported)
       /\ Goes(w, IF job[w].material # None /\ job[w].endpoint THEN "revoke_conn" ELSE "idle")
       /\ UNCHANGED <<state, attempt, grant>>

\* complete_revocation, after the provider confirmed.
CompleteRevocation(w) ==
    /\ pc[w] = "complete_conn"
    /\ conn' = IF Settleable
               THEN [conn EXCEPT !.revocation = FALSE] ELSE conn
    /\ Goes(w, "idle")
    /\ UNCHANGED <<state, attempt, grant>>

\* The worker dies, or an error or a cancellation outside the guarded part ends
\* its call; a call of the store may have been carried out before.
Abandon(w) ==
    /\ pc[w] # "idle"
    /\ Goes(w, "idle")
    /\ UNCHANGED <<state, records, grant>>

Next ==
    \/ \E a \in Attempts : Start(a) \/ CreateState(a) \/ StartRefused(a) \/ Expire(a)
    \/ \E w \in Workers :
          \/ \E a \in Attempts : Peek(w, a)
          \/ CancelState(w) \/ Consume(w) \/ Begin(w) \/ Exchange(w) \/ Attach(w)
          \/ RefreshMaterial(w) \/ Validate(w) \/ Resolve(w) \/ Finalize(w) \/ Acknowledge(w)
          \/ Fail(w) \/ Recover(w) \/ Revoke(w) \/ CompleteAttempt(w)
          \/ LoadExpired(w) \/ SaveRefreshed(w)
          \/ LoadConnection(w) \/ LoadMaterial(w) \/ Disconnect(w) \/ CompleteRevocation(w)
          \/ Abandon(w)

Spec == Init /\ [][Next]_vars

-----------------------------------------------------------------------------
Maybe == Attempts \cup {None}

\* Every variable has its type.
ConnectionTypeOK ==
    /\ state \in [Attempts -> {"none", "authorizing", "open", "consumed", "expired"}]
    /\ attempt \in [Attempts ->
          [status : {"none", "exchange_pending", "material_attached", "finalized", "failed", "revoked"},
           revocation : BOOLEAN, held : Maybe, target : BOOLEAN, material : 0 .. 2, acked : BOOLEAN]]
    /\ conn \in [readiness : {"absent", "requires_validation", "ready", "disconnected"},
                 revision : Nat, generation : Maybe, envelopes : Maybe, sealed : Nat,
                 endpoint : BOOLEAN, revocation : BOOLEAN]
    /\ grant \in [Attempts -> {"none", "live", "revoked"}]
    /\ pc \in [Workers -> {"idle", "peeked", "begin", "exchange", "attach", "validate", "resolve",
                           "finalize", "ack", "fail", "recover", "revoke", "complete", "save",
                           "material", "disconnect", "revoke_conn", "complete_conn"}]
    /\ job \in [Workers -> [attempt : Maybe, tries : 0 .. 1, revision : Nat,
                            sealed : Nat, material : Maybe, endpoint : BOOLEAN]]

CallbackSteps == {"begin", "exchange", "attach", "validate", "resolve", "finalize", "ack",
                  "fail", "recover", "revoke", "complete"}

\* However often the browser delivers a callback, one worker acts on it: a code
\* is exchanged once, and an attempt has one owner at every later step.
CallbackHandledOnce ==
    \A v, w \in Workers :
        pc[v] \in CallbackSteps /\ pc[w] \in CallbackSteps /\ Mine(v) = Mine(w) => v = w

\* Until a callback has handed its tokens to the connection, and after it has
\* taken them back, tokens that work are on record as to be revoked: no death,
\* lost answer or failure in between makes the database forget them.
PendingGrantsOwed ==
    \A a \in Attempts :
        grant[a] = "live" /\ attempt[a].status # "finalized" => attempt[a].revocation

\* A connection that is not disconnected holds the tokens of its own generation,
\* is ready exactly if the callback that made it was acknowledged, and no attempt
\* holds the same tokens.
GenerationCoherent ==
    /\ conn.readiness \in {"requires_validation", "ready"} =>
          /\ conn.generation # None /\ conn.envelopes = conn.generation
          /\ attempt[conn.generation].status = "finalized"
          /\ conn.readiness = "ready" <=> attempt[conn.generation].acked
    /\ \A a \in Attempts : attempt[a].held = a => conn.envelopes # a

\* Mercury never revokes the tokens of a connection it still uses, whichever
\* disconnects, refreshes and failing callbacks overlap.
ConnectionUsable == conn.envelopes # None => grant[conn.envelopes] = "live"

\* A connection in use loses its tokens to a disconnect or to the failure of the
\* callback that made it, never to an older attempt that fails late.
NewerGenerationUndisturbed ==
    [][conn.envelopes # None /\ conn'.envelopes # conn.envelopes =>
          \/ \E w \in Workers : pc[w] = "disconnect"
          \/ attempt'[conn.envelopes].status = "failed"]_vars

\* A completed revocation is final for the generation: a worker that had loaded
\* the connection while it was ready does not bring the obligation back.
RevocationStaysComplete ==
    [][conn.readiness = "disconnected" /\ ~conn.revocation => ~conn'.revocation]_vars

\* Whatever the provider honours and the database has forgotten is revoked: a
\* grant is in use, or on record as owed, or gone.
GrantsAccounted ==
    \A a \in Attempts :
        grant[a] = "live" => attempt[a].revocation \/ conn.envelopes = a \/ conn.revocation

\* What is stored of a connection can be used: one worker handles a callback, the
\* tokens are those of the connection's own generation, and they work.
ConnectionCoherent == CallbackHandledOnce /\ GenerationCoherent /\ ConnectionUsable

\* Late and repeated calls change nothing that newer ones settled.
ConnectionUndisturbed == NewerGenerationUndisturbed /\ RevocationStaysComplete
=============================================================================
