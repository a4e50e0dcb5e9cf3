------------------------------- MODULE Consent -------------------------------
(***************************************************************************)
(* Sign-in and consent in the browser (auth/consent.py) and the browser    *)
(* session the Peak setup pages share with it (auth/middleware.py).  A     *)
(* sign-in seals the user's access token into a short-lived cookie set on  *)
(* two paths; the consent pages relay the user's decision on an            *)
(* authorization to the authorization server, which is external and        *)
(* decides an authorization once.  A decision takes two requests to it,    *)
(* and a user may have several tabs.                                       *)
(***************************************************************************)
EXTENDS Naturals, FiniteSets

CONSTANTS
    Browsers, Tabs,  \* tabs of one browser share its cookies
    Accounts,        \* users who can sign in
    Authorizations,  \* authorization requests of clients
    SessionLife,     \* OAUTH_SESSION_TTL_SECONDS
    TokenLives,      \* lifetimes the authorization server gives a token
    LastInstant, MaxSignIns

ASSUME ConsentAssumption ==
    /\ SessionLife \in Nat /\ TokenLives \subseteq Nat \ {0}
    /\ LastInstant \in Nat /\ MaxSignIns \in Nat

VARIABLES
    instant,
    ruling,     \* ruling[a]: what the authorization server recorded
    jar,        \* jar[b]: the session cookie of each path
    view,       \* view[t]: what a tab shows or waits for
    signIns

consentVars == <<instant, ruling, jar, view, signIns>>

Paths     == {"oauth", "setup"}
NoCookie  == [user |-> "none", sealed |-> 0, keep |-> 0, valid |-> 0]
EmptyJar  == [p \in Paths |-> NoCookie]
Blank     == [page |-> "blank", about |-> "none", decision |-> "none", session |-> NoCookie]
Window(t) == t[1]

AllTabs == Browsers \X Tabs

ConsentInit ==
    /\ instant = 0
    /\ ruling = [a \in Authorizations |-> "pending"]
    /\ jar = [b \in Browsers |-> EmptyJar]
    /\ view = [t \in AllTabs |-> Blank]
    /\ signIns = 0

(* Time passes; a browser drops a cookie past its max-age. *)
InstantPasses ==
    /\ instant < LastInstant
    /\ instant' = instant + 1
    /\ jar' = [b \in Browsers |-> [p \in Paths |->
                 IF jar[b][p].keep < instant + 1 THEN NoCookie ELSE jar[b][p]]]
    /\ UNCHANGED <<ruling, view, signIns>>

(* OAuthSessionCookie.open: a cookie sealed no longer ago than the session lives. *)
Opens(cookie) == cookie # NoCookie /\ instant - cookie.sealed <= SessionLife

(* The authorization server takes the token inside. *)
TokenTaken(cookie) == instant <= cookie.valid

(* A request relayed to the authorization server under the session of its cookie. *)
Relayed(cookie) == Opens(cookie) /\ TokenTaken(cookie)

(* seal: the access token and the moment, authenticated together, kept no longer than *)
(* the token is valid.                                                                *)
Sealed(user, life) ==
    [user |-> user, sealed |-> instant, valid |-> instant + life,
     keep |-> instant + (IF life < SessionLife THEN life ELSE SessionLife)]

ErrorPage == [Blank EXCEPT !.page = "error"]

(* Deviation: only the cookie of the consent pages is cleared. *)
ClearConsentPath(b) == [jar EXCEPT ![b]["oauth"] = NoCookie]

(* _sign_in_redirect clears the cookie on every path it was set on. *)
ClearSession(b) == [jar EXCEPT ![b] = EmptyJar]

SignInNeeded(t, a) ==
    /\ jar' = ClearSession(Window(t))
    /\ view' = [view EXCEPT ![t] = [Blank EXCEPT !.page = "sign_in", !.about = a]]

(* get_authorization_details: to be decided, or the redirect of what was. *)
Details(a) ==
    IF ruling[a] = "pending" THEN [Blank EXCEPT !.page = "consent", !.about = a]
                             ELSE [Blank EXCEPT !.page = "redirected", !.about = a]

(* Open the consent page of an authorization. *)
Show(t, a) ==
    /\ view[t].page # "deciding"
    /\ IF Relayed(jar[Window(t)]["oauth"])
         THEN view' = [view EXCEPT ![t] = Details(a)] /\ UNCHANGED jar
         ELSE SignInNeeded(t, a)
    /\ UNCHANGED <<instant, ruling, signIns>>

(* A form posted from another origin, or one that is not well formed. *)
PostRefused(t) ==
    /\ view[t].page \in {"sign_in", "consent"}
    /\ view' = [view EXCEPT ![t] = ErrorPage]
    /\ UNCHANGED <<instant, ruling, jar, signIns>>

(* sign_in: one session, set on both paths; wrong credentials leave the page as it is. *)
SignIn(t, user, life) ==
    /\ view[t].page = "sign_in"
    /\ signIns < MaxSignIns
    /\ signIns' = signIns + 1
    /\ jar' = [jar EXCEPT ![Window(t)] = [p \in Paths |-> Sealed(user, life)]]
    /\ view' = [view EXCEPT ![t].page = "blank"]
    /\ UNCHANGED <<instant, ruling>>

(* decide goes on only with details; the redirect of a decided authorization is an error. *)
AlreadyDecided(v, decision) == ErrorPage

(* The first request of a decision: the details again, with the cookie of this request. *)
DecideBegin(t, decision) ==
    LET cookie == jar[Window(t)]["oauth"]
        a      == view[t].about
    IN  /\ view[t].page = "consent"
        /\ IF ~Relayed(cookie)
             THEN SignInNeeded(t, a)
             ELSE /\ view' = [view EXCEPT ![t] =
                       IF ruling[a] # "pending"
                         THEN AlreadyDecided(@, decision)
                         ELSE [@ EXCEPT !.page = "deciding", !.decision = decision,
                                        !.session = cookie]]
                  /\ UNCHANGED jar
        /\ UNCHANGED <<instant, ruling, signIns>>

(* _redirect_matches: the answer goes where the client registered, or nowhere. *)
AnswerFor(v, matches) == IF matches THEN [v EXCEPT !.page = "answered"] ELSE ErrorPage

(* The second opens the cookie of the request once more: it may have grown too old     *)
(* meanwhile.  The authorization server rules once, for a token it still takes.        *)
DecideSubmit(t) ==
    LET v == view[t]
        a == v.about
    IN  /\ v.page = "deciding"
        /\ IF ~Relayed(v.session) THEN SignInNeeded(t, a) /\ UNCHANGED ruling
           ELSE /\ IF ruling[a] # "pending"
                     THEN view' = [view EXCEPT ![t] = ErrorPage] /\ UNCHANGED ruling
                     ELSE /\ ruling' = [ruling EXCEPT ![a] = v.decision]
                          /\ \E matches \in BOOLEAN :
                               view' = [view EXCEPT ![t] = AnswerFor(v, matches)]
                /\ UNCHANGED jar
        /\ UNCHANGED <<instant, signIns>>

(* The authorization server is not reached. *)
RelayFails(t) ==
    /\ view[t].page \in {"consent", "deciding"}
    /\ view' = [view EXCEPT ![t] = ErrorPage]
    /\ UNCHANGED <<instant, ruling, jar, signIns>>

ClearSetupPath(b) == [jar EXCEPT ![b]["setup"] = NoCookie]

(* A Peak setup page posts with the cookie of its own path.  The middleware refuses a   *)
(* session it cannot use, an unknown browser binding, and any of them when the identity *)
(* cannot be resolved: it clears the cookie then, on that path only.  A principal       *)
(* without the scopes is refused and keeps the cookie.                                  *)
SetupRequest(t) ==
    LET b      == Window(t)
        cookie == jar[b]["setup"]
        page   == [Blank EXCEPT !.page = "setup", !.session = cookie]
    IN  /\ view[t].page \in {"blank", "setup"}
        /\ \/ Relayed(cookie) /\ view' = [view EXCEPT ![t] = page] /\ UNCHANGED jar
           \/ Relayed(cookie) /\ view' = [view EXCEPT ![t] = Blank] /\ UNCHANGED jar
           \/ jar' = ClearSetupPath(b) /\ view' = [view EXCEPT ![t] = Blank]
        /\ UNCHANGED <<instant, ruling, signIns>>

ConsentNext ==
    \/ InstantPasses
    \/ \E t \in AllTabs :
         \/ \E a \in Authorizations : Show(t, a)
         \/ \E user \in Accounts, life \in TokenLives : SignIn(t, user, life)
         \/ \E decision \in {"approve", "deny"} : DecideBegin(t, decision)
         \/ DecideSubmit(t) \/ RelayFails(t) \/ PostRefused(t) \/ SetupRequest(t)

ConsentSpec == ConsentInit /\ [][ConsentNext]_consentVars

------------------------------------------------------------------------------
(* Properties. *)

(* The setup pages never act for another session than the consent pages: whenever the     *)
(* cookie of the setup path is there, it is the one of the consent path, through every    *)
(* sign-in, expiry and refusal in any tab.                                                *)
SessionsAgree ==
    \A b \in Browsers : jar[b]["setup"] # NoCookie => jar[b]["setup"] = jar[b]["oauth"]

(* A tab sent back to the client from its decision carries the ruling that was recorded,  *)
(* and its own: of two tabs that decide one authorization differently, the second is not  *)
(* answered with the ruling of the first.                                                 *)
AnswerIsTheRuling ==
    \A t \in AllTabs : view[t].page = "answered" => ruling[view[t].about] = view[t].decision

(* Neither tabs nor the pages of one browser answer for one another. *)
ConsentCoherent == SessionsAgree /\ AnswerIsTheRuling
=============================================================================
