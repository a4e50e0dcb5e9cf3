----------------------------- MODULE PeakSetup -----------------------------
(***************************************************************************)
(* Connecting a PEAK merchant with keys the user types into a form of the  *)
(* server (providers/peak_setup.py, the routes of cloud/api.py and         *)
(* auth/middleware.py).  A setup link is exchanged once for a browser      *)
(* session; the form of that session may be submitted from several tabs    *)
(* at a time; each submission awaits the provider and the store, and the   *)
(* store changes only inside its transactions.                             *)
(***************************************************************************)
EXTENDS Naturals, FiniteSets

CONSTANTS
    Users,          \* auth_user_id: members of the workspace
    Setups,         \* setup attempts, each with the session it is exchanged for
    Requests,       \* submissions in progress
    Merchants       \* merchants the provider may answer for some keys

VARIABLES
    qualified,      \* the provider contract is qualified (_contract is not None)
    setup,          \* mercury_provider_setup_attempts with their peak session
    forms,          \* setups whose form and csrf token some browser received
    cookie,         \* the binding cookie in each user's browser
    members,        \* users that are members of the workspace
    peakConnection, \* the connection of each user and merchant
    request,        \* the submission each request serves
    made            \* ghost: connections written, with the setup that did it

peakVars == <<qualified, setup, forms, cookie, members, peakConnection, request, made>>

NoSetup == [user |-> "none", exchanged |-> FALSE, consumed |-> FALSE, expired |-> FALSE]
NoPeakConnection == [readiness |-> "none", revision |-> 0, owed |-> FALSE]
NoRequest == [pc |-> "idle", user |-> "none", setup |-> "none", merchant |-> "none", revision |-> 0]

PeakInit ==
    /\ qualified \in BOOLEAN
    /\ setup = [t \in Setups |-> NoSetup]
    /\ forms = {}
    /\ cookie = [u \in Users |-> "none"]
    /\ members = Users
    /\ peakConnection = [u \in Users |-> [m \in Merchants |-> NoPeakConnection]]
    /\ request = [r \in Requests |-> NoRequest]
    /\ made = {}

-----------------------------------------------------------------------------
\* create_attempt: what start leaves in the store
CreateAttempt(t, u) == setup' = [setup EXCEPT ![t] = [NoSetup EXCEPT !.user = u]]

\* start: the member gets a link with the setup token, valid for ten minutes.
StartSetup(t, u) ==
    /\ setup[t] = NoSetup
    /\ u \in members
    /\ CreateAttempt(t, u)
    /\ UNCHANGED <<qualified, forms, cookie, members, peakConnection, request, made>>

\* exchange_attempt: of this user, unexpired, unconsumed and not exchanged yet.
Exchangeable(t, u) ==
    /\ setup[t].user = u
    /\ ~setup[t].consumed /\ ~setup[t].expired /\ ~setup[t].exchanged

\* _rpc_one: the transaction of a call commits and its answer may be lost.
Answers == {TRUE, FALSE}

\* seal_binding: the browser is bound to the session it has just been given.
SealBinding(t, u) == cookie' = [cookie EXCEPT ![u] = t]

\* peak_setup_exchange: the browser is given the form of the session.
OfferForm(t, u) == forms' = forms \cup {t} /\ SealBinding(t, u)

\* exchange: the page sent the token of its link.  The membership is required
\* after the session exists, and then the attempt is spent all the same.
ExchangeSetup(t, u, answered) ==
    /\ setup[t].user # "none"
    /\ Exchangeable(t, u)
    /\ setup' = [setup EXCEPT ![t].exchanged = TRUE]
    /\ IF answered /\ u \in members
       THEN OfferForm(t, u)
       ELSE UNCHANGED <<forms, cookie>>
    /\ UNCHANGED <<qualified, members, peakConnection, request, made>>

\* authenticate fails (no session, or it has ended): the cookies are cleared.
BrowserRefused(u) ==
    /\ cookie[u] # "none"
    /\ cookie' = [cookie EXCEPT ![u] = "none"]
    /\ UNCHANGED <<qualified, setup, forms, members, peakConnection, request, made>>

-----------------------------------------------------------------------------
\* authenticate_bound and matches: the cookie is of this user, of the session
\* that is submitted, and has not run out.
BoundTo(u, t) == cookie[u] = t /\ ~setup[t].expired

\* peak_setup_submit hands the keys over to complete.
Submit(r, u, t) ==
    /\ request[r].pc = "idle"
    /\ t \in forms
    /\ BoundTo(u, t)
    /\ request' = [request EXCEPT ![r] =
          [NoRequest EXCEPT !.pc = "peek", !.user = u, !.setup = t]]
    /\ UNCHANGED <<qualified, setup, forms, cookie, members, peakConnection, made>>

\* The request is answered with an error; the keys are forgotten.
Answered(r) == request' = [request EXCEPT ![r] = NoRequest]

\* peek_session
Peekable(u, t) ==
    /\ setup[t].user = u /\ setup[t].exchanged
    /\ ~setup[t].consumed /\ ~setup[t].expired

PeekSession(r) ==
    /\ request[r].pc = "peek"
    /\ IF Peekable(request[r].user, request[r].setup)
       THEN request' = [request EXCEPT ![r].pc = "member"]
       ELSE Answered(r)
    /\ UNCHANGED <<qualified, setup, forms, cookie, members, peakConnection, made>>

\* require_workspace, then peak_provider_contract_unqualified
RequireMember(r) ==
    /\ request[r].pc = "member"
    /\ IF request[r].user \in members /\ qualified
       THEN request' = [request EXCEPT ![r].pc = "validate"]
       ELSE Answered(r)
    /\ UNCHANGED <<qualified, setup, forms, cookie, members, peakConnection, made>>

\* _validated_profile: the provider says whose keys these are.
ValidatedProfile(r, m) ==
    /\ request[r].pc = "validate"
    /\ request' = [request EXCEPT ![r].pc = "resolve", ![r].merchant = m]
    /\ UNCHANGED <<qualified, setup, forms, cookie, members, peakConnection, made>>

\* peak_setup_validation_failed: the form is shown again, for the same session.
ValidationFails(r) ==
    /\ request[r].pc = "validate"
    /\ Answered(r)
    /\ UNCHANGED <<qualified, setup, forms, cookie, members, peakConnection, made>>

\* Deviation: the target is resolved whatever state the connection is in.
ResolveAnyTarget(r) ==
    /\ request[r].pc = "resolve"
    /\ request' = [request EXCEPT ![r].pc = "finalize", ![r].revision =
          peakConnection[request[r].user][request[r].merchant].revision + 1]
    /\ UNCHANGED <<qualified, setup, forms, cookie, members, peakConnection, made>>

\* resolve_connection_target: a new connection, or one that was disconnected
\* and whose credentials need not be revoked at the provider.
ResolveTarget(r) ==
    LET current == peakConnection[request[r].user][request[r].merchant]
    IN /\ request[r].pc = "resolve"
       /\ IF current.readiness = "none" \/ (current.readiness = "disconnected" /\ ~current.owed)
          THEN request' = [request EXCEPT ![r].pc = "finalize", ![r].revision = current.revision + 1]
          ELSE Answered(r)
       /\ UNCHANGED <<qualified, setup, forms, cookie, members, peakConnection, made>>

\* finalize looks at the session and its attempt again, in its transaction.
StillOpen(u, t) == Peekable(u, t)

\* save_connection compares the revision the target was resolved with.
TargetUnchanged(current, revision) == revision = current.revision + 1

\* _connection: what validated keys amount to
ReadyConnection(revision) == [readiness |-> "ready", revision |-> revision, owed |-> FALSE]

\* finalize: connection, keys, attempt and session in one transaction; when the
\* connection cannot be saved nothing is.
FinalizeSetup(r, answered) ==
    LET u == request[r].user
        t == request[r].setup
        m == request[r].merchant
    IN /\ request[r].pc = "finalize"
       /\ IF StillOpen(u, t) /\ TargetUnchanged(peakConnection[u][m], request[r].revision)
          THEN /\ setup' = [setup EXCEPT ![t].consumed = TRUE]
               /\ peakConnection' = [peakConnection EXCEPT ![u][m] =
                     ReadyConnection(request[r].revision)]
               /\ made' = made \cup {[setup |-> t, user |-> u, merchant |-> m,
                                      revision |-> request[r].revision]}
               /\ cookie' = IF answered THEN [cookie EXCEPT ![u] = "none"] ELSE cookie
          ELSE UNCHANGED <<setup, peakConnection, made, cookie>>
       /\ Answered(r)
       /\ UNCHANGED <<qualified, forms, members>>

-----------------------------------------------------------------------------
\* list_for_workspace finds the connection, then disconnect: the keys are
\* deleted here and the user is asked to revoke them in PEAK.
DisconnectPeak(u, m) ==
    /\ u \in members
    /\ peakConnection[u][m].readiness = "ready"
    /\ peakConnection' = [peakConnection EXCEPT ![u][m] =
          [readiness |-> "disconnected", revision |-> @.revision + 1, owed |-> TRUE]]
    /\ UNCHANGED <<qualified, setup, forms, cookie, members, request, made>>

\* PEAK_SETUP_LIFETIME has passed.
SetupExpires(t) ==
    /\ setup[t].user # "none" /\ ~setup[t].expired
    /\ setup' = [setup EXCEPT ![t].expired = TRUE]
    /\ UNCHANGED <<qualified, forms, cookie, members, peakConnection, request, made>>

LeavesWorkspace(u) ==
    /\ u \in members
    /\ members' = members \ {u}
    /\ UNCHANGED <<qualified, setup, forms, cookie, peakConnection, request, made>>

PeakNext ==
    \/ \E t \in Setups :
          \/ \E u \in Users : StartSetup(t, u)
          \/ \E u \in Users, answered \in Answers : ExchangeSetup(t, u, answered)
          \/ SetupExpires(t)
    \/ \E u \in Users : BrowserRefused(u) \/ LeavesWorkspace(u)
    \/ \E u \in Users, m \in Merchants : DisconnectPeak(u, m)
    \/ \E r \in Requests :
          \/ \E u \in Users, t \in Setups : Submit(r, u, t)
          \/ PeekSession(r) \/ RequireMember(r) \/ ValidationFails(r) \/ ResolveTarget(r)
          \/ \E m \in Merchants : ValidatedProfile(r, m)
          \/ \E answered \in Answers : FinalizeSetup(r, answered)

PeakSpec == PeakInit /\ [][PeakNext]_peakVars

-----------------------------------------------------------------------------
\* A setup link makes at most one connection, and each revision of a connection
\* comes from one setup, its owner's: submissions of the same form from two tabs,
\* or of forms for the same merchant, race from peek_session to finalize.
SetupSingleUse ==
    \A x, y \in made :
        /\ x.setup = y.setup => x = y
        /\ x.user = y.user /\ x.merchant = y.merchant /\ x.revision = y.revision => x = y
        /\ setup[x.setup].user = x.user

\* Keys in use are never overwritten: a connection that is ready changes only by
\* being disconnected, and one whose keys are still to be revoked at the provider
\* stays as it is, also for a submission that was resolved before that.
KeysNotOverwritten ==
    [][\A u \in Users, m \in Merchants :
          LET now == peakConnection[u][m]
              next == peakConnection'[u][m]
          IN next # now => /\ now.readiness = "ready" => next.readiness = "disconnected"
                           /\ ~now.owed]_peakVars

\* A setup makes one connection and disturbs no other.
SetupSafe == []SetupSingleUse /\ KeysNotOverwritten
=============================================================================
