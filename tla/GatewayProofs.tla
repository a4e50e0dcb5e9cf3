---------------------------- MODULE GatewayProofs ----------------------------
(***************************************************************************)
(* Proofs about the hosted gateway, one part for each of its components:   *)
(* the tools of the server process, the browser sessions and consent, the  *)
(* setup by keys, the verification keys, the authority of a call and the   *)
(* skill runs.                                                             *)
(***************************************************************************)
EXTENDS ServerLifecycle, Consent, PeakSetup, TokenKeys, CapabilityGate, SkillTools,
        FiniteSetTheorems, WellFoundedInduction, TLAPS

(* The server as a process. *)

V1Registry == [n \in ToolNames |-> IF n \in V1Names THEN "v1" ELSE "none"]

\* The polling task, once it cannot publish any more.
Harmless == {"none", "cancelled", "lingering", "ended"}

\* The stash is what makes the way back exact; it is filled whenever the
\* process has been on the V1 surface.
StashKept ==
    /\ v1 \in BOOLEAN
    /\ stash \in {{"unset"}, LegacyNames}
    /\ v1 => stash = LegacyNames

\* The polling task exists only while the application serves.
TaskFollowsApp ==
    /\ app \in {"none", "failed", "built", "projecting"} => task = "none"
    /\ app \in {"settling", "clearing", "closing", "stopped"} => task \in Harmless
    /\ app \in {"closing", "stopped"} => generated = {}

LifecycleInv == StashKept /\ SurfaceExact /\ TaskFollowsApp

(* configure_v1_tools moves between the two exact surfaces. *)
LEMMA ConfigureKeepsSurface ==
    ASSUME StashKept, SurfaceExact, NEW enabled \in BOOLEAN, Configure(enabled)
    PROVE  StashKept' /\ SurfaceExact'
  <1> USE LifecycleAssumption
  <1> USE DEF ToolNames
  <1>1. CASE enabled
    <2>1. v1' = TRUE /\ EnableV1
      BY <1>1 DEF Configure
    <2>2. stash' = LegacyNames
      <3>1. CASE v1
        BY <2>1, <3>1 DEF EnableV1, Stashed, StashKept
      <3>2. CASE ~v1
        <4>1. Registered("legacy") = LegacyNames
          BY <3>2 DEF Registered, SurfaceExact, LegacyRegistry
        <4> QED
          BY <2>1, <4>1 DEF EnableV1, Stashed, StashKept
      <3> QED
        BY <3>1, <3>2
    <2>3. WithoutLegacy = IF v1 THEN V1Registry ELSE [n \in ToolNames |-> "none"]
      BY DEF WithoutLegacy, SurfaceExact, LegacyRegistry, V1Registry, StashKept
    <2>4. RegisterTools(WithoutLegacy) = V1Registry
      BY <2>3 DEF RegisterTools, V1Registry
    <2>5. contracts' = V1Names
      BY <2>1 DEF EnableV1, SurfaceExact
    <2> QED
      BY <2>1, <2>2, <2>4, <2>5 DEF EnableV1, StashKept, SurfaceExact, V1Registry
  <1>2. CASE ~enabled
    <2>1. v1' = FALSE /\ DisableV1
      BY <1>2 DEF Configure
    <2> DEFINE left == [n \in ToolNames |-> IF registry[n] = "v1" THEN "none" ELSE registry[n]]
    <2>2. left = IF v1 THEN [n \in ToolNames |-> "none"] ELSE LegacyRegistry
      BY DEF SurfaceExact, LegacyRegistry
    <2>3. registry' = [n \in ToolNames |->
                         IF left[n] = "none" /\ n \in stash THEN "legacy" ELSE left[n]]
      BY <2>1 DEF DisableV1
    <2> HIDE DEF left
    <2>4. registry' = LegacyRegistry
      <3>1. CASE v1
        BY <2>2, <2>3, <3>1 DEF LegacyRegistry, StashKept
      <3>2. CASE ~v1
        BY <2>2, <2>3, <3>2 DEF LegacyRegistry, StashKept, LifecycleAssumption
      <3> QED
        BY <3>1, <3>2
    <2>5. contracts' = {}
      BY <2>1 DEF DisableV1, Registered, SurfaceExact
    <2> QED
      BY <2>1, <2>4, <2>5 DEF DisableV1, StashKept, SurfaceExact
  <1> QED
    BY <1>1, <1>2

(* The application does not touch the registry of the process. *)
LEMMA SurfaceUntouched ==
    ASSUME StashKept, SurfaceExact, UNCHANGED surfaceVars
    PROVE  StashKept' /\ SurfaceExact'
  BY DEF StashKept, SurfaceExact, surfaceVars

(* Every step of the process keeps the inductive invariant. *)
LEMMA LifecycleStep == LifecycleInv /\ [LifecycleNext]_lifecycleVars => LifecycleInv'
  <1> SUFFICES ASSUME LifecycleInv, [LifecycleNext]_lifecycleVars
               PROVE  LifecycleInv'
    OBVIOUS
  <1>0. StashKept /\ SurfaceExact /\ TaskFollowsApp
    BY DEF LifecycleInv
  <1>1. ASSUME NEW enabled \in BOOLEAN, Configure(enabled)
        PROVE  LifecycleInv'
    BY <1>0, <1>1, ConfigureKeepsSurface DEF Configure, appVars, LifecycleInv, TaskFollowsApp
  <1>2. ASSUME NEW enabled \in BOOLEAN, NEW required \in BOOLEAN, NEW parts,
               BuildApp(enabled, required, parts)
        PROVE  LifecycleInv'
    <2>1. app = "none" /\ app' \in {"failed", "built"} /\ UNCHANGED <<surfaceVars, generated, task>>
      BY <1>2 DEF BuildApp
    <2> QED
      BY <1>0, <2>1, SurfaceUntouched DEF LifecycleInv, TaskFollowsApp
  <1>3. CASE Startup
    BY <1>0, <1>3, SurfaceUntouched DEF Startup, LifecycleInv, TaskFollowsApp, Harmless
  <1>4. CASE InitialProjection
    BY <1>0, <1>4, SurfaceUntouched DEF InitialProjection, LifecycleInv, TaskFollowsApp, Harmless
  <1>5. CASE LoadsCatalog
    BY <1>0, <1>5, SurfaceUntouched DEF LoadsCatalog, LifecycleInv, TaskFollowsApp, Harmless
  <1>6. CASE PublishesTools
    BY <1>0, <1>6, SurfaceUntouched DEF PublishesTools, LifecycleInv, TaskFollowsApp, Harmless
  <1>7. CASE TellsSessions
    BY <1>0, <1>7, SurfaceUntouched DEF TellsSessions, LifecycleInv, TaskFollowsApp, Harmless
  <1>8. CASE NextRound
    BY <1>0, <1>8, SurfaceUntouched DEF NextRound, LifecycleInv, TaskFollowsApp, Harmless
  <1>9. CASE TaskCancelled
    BY <1>0, <1>9, SurfaceUntouched DEF TaskCancelled, LifecycleInv, TaskFollowsApp, Harmless
  <1>10. CASE Shutdown
    <2>1. task' \in Harmless
      BY <1>10 DEF Shutdown, CancelTask, Harmless
    <2> QED
      BY <1>0, <1>10, <2>1, SurfaceUntouched DEF Shutdown, LifecycleInv, TaskFollowsApp
  <1>11. CASE TaskSettled
    BY <1>0, <1>11, SurfaceUntouched DEF TaskSettled, LifecycleInv, TaskFollowsApp, Harmless
  <1>12. CASE ClearTools
    BY <1>0, <1>12, SurfaceUntouched DEF ClearTools, LifecycleInv, TaskFollowsApp, Harmless
  <1>13. CASE CloseComposition
    <2>1. app' \in {"closing", "stopped"} /\ app = "closing"
          /\ UNCHANGED <<surfaceVars, generated, task>>
      BY <1>13 DEF CloseComposition
    <2> QED
      BY <1>0, <2>1, SurfaceUntouched DEF LifecycleInv, TaskFollowsApp, Harmless
  <1>14. CASE UNCHANGED lifecycleVars
    BY <1>0, <1>14, SurfaceUntouched DEF lifecycleVars, appVars, LifecycleInv, TaskFollowsApp
  <1> QED
    BY <1>1, <1>2, <1>3, <1>4, <1>5, <1>6, <1>7, <1>8, <1>9, <1>10, <1>11, <1>12, <1>13, <1>14
       DEF LifecycleNext

\* However often the process switches surfaces the registry is exactly one of
\* them, and a shutdown leaves no generated tool behind (configure_v1_tools and
\* the lifespan of the application).
THEOREM ToolsStayExact == LifecycleSpec => []ToolsExact
  <1>1. LifecycleInit => LifecycleInv
    BY DEF LifecycleInit, LifecycleInv, StashKept, SurfaceExact, TaskFollowsApp, ToolNames
  <1>2. LifecycleInv => ToolsExact
    BY DEF LifecycleInv, ToolsExact, ClearedStaysCleared, TaskFollowsApp, Harmless
  <1> QED
    BY <1>1, <1>2, LifecycleStep, PTL DEF LifecycleSpec

------------------------------------------------------------------------------
(* Sign-in and consent. *)

Cookies == [user : Accounts \cup {"none"}, sealed : Nat, keep : Nat, valid : Nat]

Views == [page : {"blank", "error", "sign_in", "consent", "redirected", "deciding",
                  "answered", "setup"},
          about : Authorizations \cup {"none"}, decision : {"none", "approve", "deny"},
          session : Cookies]

ConsentTypeOK ==
    /\ instant \in Nat
    /\ ruling \in [Authorizations -> {"pending", "approve", "deny"}]
    /\ jar \in [Browsers -> [Paths -> Cookies]]
    /\ view \in [AllTabs -> Views]

\* What a tab knows of the authorization its page is about: a decision under
\* way has one, and the two cannot part on the way to the answer.
TabKnows ==
    \A t \in AllTabs :
        /\ view[t].page \in {"sign_in", "consent", "deciding", "answered"} =>
              view[t].about \in Authorizations
        /\ view[t].page \in {"deciding", "answered"} => view[t].decision \in {"approve", "deny"}

ConsentInv == ConsentTypeOK /\ TabKnows /\ ConsentCoherent

(* The constant pages and cookies have their types. *)
LEMMA ViewShapes ==
    /\ NoCookie \in Cookies /\ EmptyJar \in [Paths -> Cookies]
    /\ Blank \in Views /\ Blank.page = "blank"
    /\ ErrorPage \in Views /\ ErrorPage.page = "error"
  BY DEF NoCookie, Cookies, EmptyJar, Blank, Views, ErrorPage

(* A step that leaves the rulings alone and moves one tab to a page that carries *)
(* no answer keeps what the tabs know.                                           *)
LEMMA TabMoves ==
    ASSUME ConsentInv, NEW t \in AllTabs, NEW v \in Views,
           view' = [view EXCEPT ![t] = v], UNCHANGED ruling,
           v.page # "answered",
           v.page \in {"sign_in", "consent", "deciding"} => v.about \in Authorizations,
           v.page = "deciding" => v.decision \in {"approve", "deny"}
    PROVE  view' \in [AllTabs -> Views] /\ TabKnows' /\ AnswerIsTheRuling'
  BY DEF ConsentInv, ConsentTypeOK, TabKnows, ConsentCoherent, AnswerIsTheRuling

(* Whatever clears cookies clears the one of the setup pages with it, and a      *)
(* sign-in sets both.                                                            *)
LEMMA JarMoves ==
    ASSUME ConsentInv, NEW b \in Browsers, NEW j \in [Paths -> Cookies],
           jar' = [jar EXCEPT ![b] = j],
           j["setup"] # NoCookie => j["setup"] = j["oauth"]
    PROVE  jar' \in [Browsers -> [Paths -> Cookies]] /\ SessionsAgree'
  BY DEF ConsentInv, ConsentTypeOK, ConsentCoherent, SessionsAgree

(* A step that leaves the cookies alone keeps them in agreement. *)
LEMMA JarKept ==
    ASSUME ConsentInv, UNCHANGED jar
    PROVE  jar' \in [Browsers -> [Paths -> Cookies]] /\ SessionsAgree'
  BY DEF ConsentInv, ConsentTypeOK, ConsentCoherent, SessionsAgree

(* The invariant from its parts in the next state. *)
LEMMA ConsentParts ==
    ASSUME instant' \in Nat,
           ruling' \in [Authorizations -> {"pending", "approve", "deny"}],
           view' \in [AllTabs -> Views] /\ TabKnows' /\ AnswerIsTheRuling',
           jar' \in [Browsers -> [Paths -> Cookies]] /\ SessionsAgree'
    PROVE  ConsentInv'
  BY DEF ConsentInv, ConsentTypeOK, ConsentCoherent

(* Sending a tab to the sign-in page clears its cookies on both paths. *)
LEMMA SignInAsked ==
    ASSUME ConsentInv, NEW t \in AllTabs, NEW a \in Authorizations, SignInNeeded(t, a),
           UNCHANGED <<instant, ruling>>
    PROVE  ConsentInv'
  <1>1. Window(t) \in Browsers
    BY DEF AllTabs, Window
  <1>2. jar' \in [Browsers -> [Paths -> Cookies]] /\ SessionsAgree'
    BY <1>1, ViewShapes, JarMoves DEF SignInNeeded, ClearSession, EmptyJar, Paths
  <1> DEFINE v == [Blank EXCEPT !.page = "sign_in", !.about = a]
  <1>3. v \in Views /\ v.page = "sign_in" /\ v.about = a
    BY ViewShapes DEF Blank, Views
  <1>4. view' = [view EXCEPT ![t] = v]
    BY DEF SignInNeeded
  <1> HIDE DEF v
  <1>5. view' \in [AllTabs -> Views] /\ TabKnows' /\ AnswerIsTheRuling'
    BY <1>3, <1>4, TabMoves
  <1> QED
    BY <1>2, <1>5, ConsentParts DEF ConsentInv, ConsentTypeOK

(* Every step of the browsers keeps the inductive invariant. *)
LEMMA ConsentStep == ConsentInv /\ [ConsentNext]_consentVars => ConsentInv'
  <1> SUFFICES ASSUME ConsentInv, [ConsentNext]_consentVars
               PROVE  ConsentInv'
    OBVIOUS
  <1> USE ConsentAssumption
  <1>0. ConsentTypeOK /\ TabKnows /\ SessionsAgree /\ AnswerIsTheRuling
    BY DEF ConsentInv, ConsentCoherent
  <1>1. CASE InstantPasses
    <2>1. jar' \in [Browsers -> [Paths -> Cookies]]
      BY <1>0, <1>1, ViewShapes DEF InstantPasses, ConsentTypeOK
    <2>2. ASSUME NEW b \in Browsers, jar'[b]["setup"] # NoCookie
          PROVE  jar'[b]["setup"] = jar'[b]["oauth"]
      <3>1. jar'[b] = [p \in Paths |-> IF jar[b][p].keep < instant + 1 THEN NoCookie ELSE jar[b][p]]
        BY <1>1 DEF InstantPasses
      <3>2. /\ jar'[b]["setup"] = IF jar[b]["setup"].keep < instant + 1 THEN NoCookie ELSE jar[b]["setup"]
            /\ jar'[b]["oauth"] = IF jar[b]["oauth"].keep < instant + 1 THEN NoCookie ELSE jar[b]["oauth"]
        BY <3>1 DEF Paths
      <3>3. jar[b]["setup"] # NoCookie /\ jar[b]["setup"] = jar[b]["oauth"]
        BY <1>0, <2>2, <3>2 DEF SessionsAgree
      <3> QED
        BY <3>2, <3>3
    <2>3. view' \in [AllTabs -> Views] /\ TabKnows' /\ AnswerIsTheRuling'
      BY <1>0, <1>1 DEF InstantPasses, ConsentTypeOK, TabKnows, AnswerIsTheRuling
    <2>4. instant' \in Nat /\ ruling' = ruling
      BY <1>0, <1>1 DEF InstantPasses, ConsentTypeOK
    <2> QED
      BY <1>0, <2>1, <2>2, <2>3, <2>4, ConsentParts DEF SessionsAgree, ConsentTypeOK
  <1>2. ASSUME NEW t \in AllTabs, NEW a \in Authorizations, Show(t, a)
        PROVE  ConsentInv'
    <2>1. CASE Relayed(jar[Window(t)]["oauth"])
      <3>1. Details(a) \in Views /\ Details(a).page \in {"consent", "redirected"} /\ Details(a).about = a
        BY ViewShapes DEF Details, Blank, Views
      <3>2. view' \in [AllTabs -> Views] /\ TabKnows' /\ AnswerIsTheRuling'
        BY <1>2, <2>1, <3>1, TabMoves DEF Show
      <3> QED
        BY <1>0, <1>2, <2>1, <3>2, ConsentParts, JarKept DEF Show, ConsentTypeOK
    <2>2. CASE ~Relayed(jar[Window(t)]["oauth"])
      BY <1>2, <2>2, SignInAsked DEF Show
    <2> QED
      BY <2>1, <2>2
  <1>3. ASSUME NEW t \in AllTabs, NEW user \in Accounts, NEW life \in TokenLives,
               SignIn(t, user, life)
        PROVE  ConsentInv'
    <2>1. Window(t) \in Browsers
      BY DEF AllTabs, Window
    <2>2. Sealed(user, life) \in Cookies
      <3>1. life \in Nat /\ instant \in Nat /\ SessionLife \in Nat
        BY <1>0 DEF ConsentTypeOK, ConsentAssumption
      <3> QED
        BY <3>1 DEF Sealed, Cookies
    <2> DEFINE j == [p \in Paths |-> Sealed(user, life)]
    <2>3. j \in [Paths -> Cookies] /\ j["setup"] = j["oauth"]
      BY <2>2 DEF Paths
    <2>4. jar' = [jar EXCEPT ![Window(t)] = j]
      BY <1>3 DEF SignIn
    <2> HIDE DEF j
    <2>5. jar' \in [Browsers -> [Paths -> Cookies]] /\ SessionsAgree'
      BY <2>1, <2>3, <2>4, JarMoves
    <2> DEFINE v == [view[t] EXCEPT !.page = "blank"]
    <2>6. v \in Views /\ v.page = "blank"
      BY <1>0 DEF ConsentTypeOK, Views
    <2>7. view' = [view EXCEPT ![t] = v]
      BY <1>3 DEF SignIn
    <2> HIDE DEF v
    <2>8. view' \in [AllTabs -> Views] /\ TabKnows' /\ AnswerIsTheRuling'
      BY <1>3, <2>6, <2>7, TabMoves DEF SignIn
    <2> QED
      BY <1>0, <1>3, <2>5, <2>8, ConsentParts DEF SignIn, ConsentTypeOK
  <1>4. ASSUME NEW t \in AllTabs, NEW decision \in {"approve", "deny"}, DecideBegin(t, decision)
        PROVE  ConsentInv'
    <2> DEFINE held == jar[Window(t)]["oauth"]
    <2>1. view[t].about \in Authorizations /\ view[t] \in Views
      BY <1>0, <1>4 DEF DecideBegin, TabKnows, ConsentTypeOK
    <2>2. Window(t) \in Browsers /\ held \in Cookies
      BY <1>0 DEF AllTabs, Window, ConsentTypeOK, Paths
    <2>3. CASE ~Relayed(held)
      BY <1>4, <2>1, <2>3, SignInAsked DEF DecideBegin
    <2>4. CASE Relayed(held)
      <3> DEFINE going == [view[t] EXCEPT !.page = "deciding", !.decision = decision,
                                          !.session = held]
                 v == IF ruling[view[t].about] # "pending" THEN ErrorPage ELSE going
      <3>1. going \in Views /\ going.page = "deciding" /\ going.about = view[t].about
            /\ going.decision = decision
        BY <2>1, <2>2 DEF Views
      <3>2. view' = [view EXCEPT ![t] = v] /\ UNCHANGED <<jar, ruling, instant>>
        BY <1>4, <2>4 DEF DecideBegin, AlreadyDecided
      <3> HIDE DEF going
      <3>3. v \in Views /\ (v.page = "error" \/ v = going)
        BY <3>1, ViewShapes
      <3> HIDE DEF v
      <3>4. view' \in [AllTabs -> Views] /\ TabKnows' /\ AnswerIsTheRuling'
        BY <2>1, <3>1, <3>2, <3>3, TabMoves
      <3> QED
        BY <1>0, <3>2, <3>4, ConsentParts, JarKept DEF ConsentTypeOK
    <2> QED
      BY <2>3, <2>4
  <1>5. ASSUME NEW t \in AllTabs, DecideSubmit(t)
        PROVE  ConsentInv'
    <2> DEFINE a == view[t].about
    <2>1. a \in Authorizations /\ view[t] \in Views /\ view[t].decision \in {"approve", "deny"}
      BY <1>0, <1>5 DEF DecideSubmit, TabKnows, ConsentTypeOK
    <2>2. CASE ~Relayed(view[t].session)
      BY <1>5, <2>1, <2>2, SignInAsked DEF DecideSubmit
    <2>3. CASE Relayed(view[t].session) /\ ruling[a] # "pending"
      <3>1. view' = [view EXCEPT ![t] = ErrorPage] /\ UNCHANGED <<ruling, jar, instant>>
        BY <1>5, <2>3 DEF DecideSubmit
      <3>2. view' \in [AllTabs -> Views] /\ TabKnows' /\ AnswerIsTheRuling'
        BY <3>1, ViewShapes, TabMoves
      <3> QED
        BY <1>0, <3>1, <3>2, ConsentParts, JarKept DEF ConsentTypeOK
    <2>4. CASE Relayed(view[t].session) /\ ruling[a] = "pending"
      <3>1. PICK matches \in BOOLEAN : view' = [view EXCEPT ![t] = AnswerFor(view[t], matches)]
        BY <1>5, <2>4 DEF DecideSubmit
      <3>2. ruling' = [ruling EXCEPT ![a] = view[t].decision] /\ UNCHANGED <<jar, instant>>
        BY <1>5, <2>4 DEF DecideSubmit
      <3> DEFINE v == AnswerFor(view[t], matches)
      <3>3. v \in Views /\ (v.page = "error" \/ (v.page = "answered" /\ v.about = a
                                                 /\ v.decision = view[t].decision))
        BY <2>1, ViewShapes DEF AnswerFor, Views
      <3>4. view' = [view EXCEPT ![t] = v]
        BY <3>1
      <3> HIDE DEF v, a
      <3>5. view' \in [AllTabs -> Views] /\ TabKnows'
        BY <1>0, <2>1, <3>3, <3>4 DEF ConsentTypeOK, TabKnows
      <3>6. ASSUME NEW s \in AllTabs, view'[s].page = "answered"
            PROVE  ruling'[view'[s].about] = view'[s].decision
        <4>1. CASE s = t
          BY <1>0, <2>1, <3>2, <3>3, <3>4, <3>6, <4>1 DEF ConsentTypeOK
        <4>2. CASE s # t
          <5>1. view'[s] = view[s]
            BY <1>0, <3>4, <4>2 DEF ConsentTypeOK
          <5>2. ruling[view[s].about] = view[s].decision /\ view[s].about \in Authorizations
                /\ view[s].decision # "pending"
            BY <1>0, <3>6, <5>1 DEF AnswerIsTheRuling, TabKnows
          <5> QED
            BY <1>0, <2>4, <3>2, <5>1, <5>2 DEF ConsentTypeOK
        <4> QED
          BY <4>1, <4>2
      <3>7. ruling' \in [Authorizations -> {"pending", "approve", "deny"}]
        BY <1>0, <2>1, <3>2 DEF ConsentTypeOK
      <3> QED
        BY <1>0, <3>2, <3>5, <3>6, <3>7, ConsentParts, JarKept DEF ConsentTypeOK, AnswerIsTheRuling
    <2> QED
      BY <2>2, <2>3, <2>4
  <1>6. ASSUME NEW t \in AllTabs, RelayFails(t) \/ PostRefused(t)
        PROVE  ConsentInv'
    <2>1. view' = [view EXCEPT ![t] = ErrorPage] /\ UNCHANGED <<ruling, jar, instant>>
      BY <1>6 DEF RelayFails, PostRefused
    <2>2. view' \in [AllTabs -> Views] /\ TabKnows' /\ AnswerIsTheRuling'
      BY <2>1, ViewShapes, TabMoves
    <2> QED
      BY <1>0, <2>1, <2>2, ConsentParts, JarKept DEF ConsentTypeOK
  <1>7. ASSUME NEW t \in AllTabs, SetupRequest(t)
        PROVE  ConsentInv'
    <2> DEFINE held == jar[Window(t)]["setup"]
    <2>1. Window(t) \in Browsers /\ held \in Cookies
      BY <1>0 DEF AllTabs, Window, ConsentTypeOK, Paths
    <2>2. CASE view' = [view EXCEPT ![t] = [Blank EXCEPT !.page = "setup", !.session = held]]
               /\ UNCHANGED jar
      <3> DEFINE v == [Blank EXCEPT !.page = "setup", !.session = held]
      <3>1. v \in Views /\ v.page = "setup"
        BY <2>1, ViewShapes DEF Blank, Views
      <3>2. view' = [view EXCEPT ![t] = v] /\ UNCHANGED <<ruling, jar, instant>>
        BY <1>7, <2>2 DEF SetupRequest
      <3> HIDE DEF v
      <3>3. view' \in [AllTabs -> Views] /\ TabKnows' /\ AnswerIsTheRuling'
        BY <3>1, <3>2, TabMoves
      <3> QED
        BY <1>0, <3>2, <3>3, ConsentParts, JarKept DEF ConsentTypeOK
    <2>3. CASE view' = [view EXCEPT ![t] = Blank] /\ UNCHANGED jar
      <3>1. UNCHANGED <<ruling, instant>>
        BY <1>7 DEF SetupRequest
      <3>2. view' \in [AllTabs -> Views] /\ TabKnows' /\ AnswerIsTheRuling'
        BY <2>3, <3>1, ViewShapes, TabMoves
      <3> QED
        BY <1>0, <2>3, <3>1, <3>2, ConsentParts, JarKept DEF ConsentTypeOK
    <2>4. CASE view' = [view EXCEPT ![t] = Blank] /\ jar' = ClearSetupPath(Window(t))
      <3>1. view' = [view EXCEPT ![t] = Blank] /\ UNCHANGED <<ruling, instant>>
            /\ jar' = ClearSetupPath(Window(t))
        BY <1>7, <2>4 DEF SetupRequest
      <3>2. view' \in [AllTabs -> Views] /\ TabKnows' /\ AnswerIsTheRuling'
        BY <3>1, ViewShapes, TabMoves
      <3> DEFINE j == [jar[Window(t)] EXCEPT !["setup"] = NoCookie]
      <3>3. j \in [Paths -> Cookies] /\ j["setup"] = NoCookie
        BY <1>0, <2>1, ViewShapes DEF ConsentTypeOK, Paths
      <3>4. jar' = [jar EXCEPT ![Window(t)] = j]
        BY <3>1 DEF ClearSetupPath
      <3> HIDE DEF j
      <3>5. jar' \in [Browsers -> [Paths -> Cookies]] /\ SessionsAgree'
        BY <2>1, <3>3, <3>4, JarMoves
      <3> QED
        BY <1>0, <3>1, <3>2, <3>5, ConsentParts DEF ConsentTypeOK
    <2> QED
      BY <1>7, <2>2, <2>3, <2>4 DEF SetupRequest
  <1>8. CASE UNCHANGED consentVars
    BY <1>0, <1>8 DEF consentVars, ConsentInv, ConsentTypeOK, TabKnows, ConsentCoherent,
                      SessionsAgree, AnswerIsTheRuling
  <1> QED
    BY <1>1, <1>2, <1>3, <1>4, <1>5, <1>6, <1>7, <1>8 DEF ConsentNext

\* The two cookies of a browser never name different sessions, and a tab is
\* answered with its own ruling only (the consent pages), for any number of
\* browsers, tabs and authorizations.
THEOREM ConsentStaysCoherent == ConsentSpec => []ConsentCoherent
  <1>1. ConsentInit => ConsentInv
    BY ViewShapes DEF ConsentInit, ConsentInv, ConsentTypeOK, TabKnows, ConsentCoherent, SessionsAgree,
           AnswerIsTheRuling, EmptyJar, Paths
  <1>2. ConsentInv => ConsentCoherent
    BY DEF ConsentInv
  <1> QED
    BY <1>1, <1>2, ConsentStep, PTL DEF ConsentSpec

------------------------------------------------------------------------------
(* Connecting with keys. *)

SetupType == [user : Users \cup {"none"}, exchanged : BOOLEAN, consumed : BOOLEAN, expired : BOOLEAN]

PeakConnectionType ==
    [readiness : {"none", "ready", "disconnected"}, revision : Nat, owed : BOOLEAN]

RequestType ==
    [pc : {"idle", "peek", "member", "validate", "resolve", "finalize"},
     user : Users \cup {"none"}, setup : Setups \cup {"none"},
     merchant : Merchants \cup {"none"}, revision : Nat]

PeakTypeOK ==
    /\ setup \in [Setups -> SetupType]
    /\ peakConnection \in [Users -> [Merchants -> PeakConnectionType]]
    /\ request \in [Requests -> RequestType]
    /\ made \subseteq [setup : Setups, user : Users, merchant : Merchants, revision : Nat]

\* A connection whose keys may be replaced.
Replaceable(c) == c.readiness = "none" \/ (c.readiness = "disconnected" /\ ~c.owed)

\* What a submission knows: whom it serves and, once it has resolved its target,
\* that the connection is replaceable as long as its revision is the next one.
RequestKnows(q) ==
    /\ q.pc # "idle" => q.user \in Users /\ q.setup \in Setups
    /\ q.pc \in {"resolve", "finalize"} => q.merchant \in Merchants
    /\ q.pc = "finalize" =>
          /\ q.revision <= peakConnection[q.user][q.merchant].revision + 1
          /\ TargetUnchanged(peakConnection[q.user][q.merchant], q.revision) =>
                Replaceable(peakConnection[q.user][q.merchant])

\* Keys are owed to the provider only by a connection that was disconnected.
OwedWhenDisconnected ==
    \A u \in Users, m \in Merchants :
        peakConnection[u][m].owed => peakConnection[u][m].readiness = "disconnected"

\* What was made spent its setup and is no later than the connection.
MadeSpent ==
    \A x \in made :
        /\ setup[x.setup].consumed /\ setup[x.setup].user = x.user
        /\ x.revision <= peakConnection[x.user][x.merchant].revision

PeakInv ==
    /\ PeakTypeOK
    /\ \A r \in Requests : RequestKnows(request[r])
    /\ OwedWhenDisconnected /\ MadeSpent /\ SetupSingleUse

(* The empty records have their types. *)
LEMMA PeakShapes ==
    /\ NoSetup \in SetupType /\ ~NoSetup.consumed
    /\ NoPeakConnection \in PeakConnectionType /\ ~NoPeakConnection.owed
    /\ NoRequest \in RequestType /\ NoRequest.pc = "idle"
  BY DEF NoSetup, SetupType, NoPeakConnection, PeakConnectionType, NoRequest, RequestType

(* A step of one submission that reaches neither the setups nor a connection. *)
LEMMA RequestMoves ==
    ASSUME PeakInv, NEW r \in Requests, NEW q \in RequestType,
           request' = [request EXCEPT ![r] = q], RequestKnows(q),
           UNCHANGED <<setup, peakConnection, made>>
    PROVE  PeakInv'
  <1>1. PeakTypeOK'
    BY DEF PeakInv, PeakTypeOK
  <1>2. ASSUME NEW s \in Requests PROVE RequestKnows(request[s])'
    BY DEF PeakInv, PeakTypeOK, RequestKnows, TargetUnchanged, Replaceable
  <1>3. OwedWhenDisconnected' /\ MadeSpent' /\ SetupSingleUse'
    BY DEF PeakInv, OwedWhenDisconnected, MadeSpent, SetupSingleUse
  <1> QED
    BY <1>1, <1>2, <1>3 DEF PeakInv

(* A step of one setup that spends none that made a connection. *)
LEMMA SetupMoves ==
    ASSUME PeakInv, NEW t \in Setups, NEW s \in SetupType,
           setup' = [setup EXCEPT ![t] = s],
           setup[t].consumed => s.consumed /\ s.user = setup[t].user,
           UNCHANGED <<request, peakConnection, made>>
    PROVE  PeakInv'
  <1>1. PeakTypeOK'
    BY DEF PeakInv, PeakTypeOK
  <1>2. \A r \in Requests : RequestKnows(request[r])'
    BY DEF PeakInv, RequestKnows, TargetUnchanged, Replaceable
  <1>3. OwedWhenDisconnected'
    BY DEF PeakInv, OwedWhenDisconnected
  <1>4. MadeSpent' /\ SetupSingleUse'
    <2>1. ASSUME NEW x \in made
          PROVE  setup'[x.setup].consumed /\ setup'[x.setup].user = x.user
      <3>1. x.setup \in Setups /\ setup[x.setup].consumed /\ setup[x.setup].user = x.user
        BY DEF PeakInv, PeakTypeOK, MadeSpent
      <3> QED
        BY <3>1 DEF PeakInv, PeakTypeOK
    <2> QED
      BY <2>1 DEF PeakInv, MadeSpent, SetupSingleUse
  <1> QED
    BY <1>1, <1>2, <1>3, <1>4 DEF PeakInv

(* A connection that takes its next revision leaves every submission that was     *)
(* resolved before it behind.                                                     *)
LEMMA ConnectionMoves ==
    ASSUME PeakInv, NEW u \in Users, NEW m \in Merchants, NEW c \in PeakConnectionType,
           peakConnection' = [peakConnection EXCEPT ![u][m] = c],
           c.revision = peakConnection[u][m].revision + 1,
           c.owed => c.readiness = "disconnected"
    PROVE  /\ peakConnection' \in [Users -> [Merchants -> PeakConnectionType]]
           /\ OwedWhenDisconnected'
           /\ \A v \in Users, n \in Merchants : peakConnection[v][n].revision <= peakConnection'[v][n].revision
           /\ \A r \in Requests : RequestKnows(request[r]) /\ request[r] \in RequestType
           /\ \A q \in RequestType : RequestKnows(q) => RequestKnows(q)'
  <1>0. peakConnection \in [Users -> [Merchants -> PeakConnectionType]]
    BY DEF PeakInv, PeakTypeOK
  <1>1. ASSUME NEW v \in Users, NEW n \in Merchants
        PROVE  peakConnection'[v][n] = IF v = u /\ n = m THEN c ELSE peakConnection[v][n]
    BY <1>0
  <1>2. peakConnection' \in [Users -> [Merchants -> PeakConnectionType]]
    BY <1>0
  <1>3. OwedWhenDisconnected'
    BY <1>1 DEF PeakInv, OwedWhenDisconnected
  <1>4. ASSUME NEW v \in Users, NEW n \in Merchants
        PROVE  /\ peakConnection[v][n].revision <= peakConnection'[v][n].revision
               /\ peakConnection[v][n].revision \in Nat /\ peakConnection'[v][n].revision \in Nat
    <2>1. peakConnection[v][n].revision \in Nat
      BY <1>0 DEF PeakConnectionType
    <2> QED
      BY <1>1, <2>1 DEF PeakConnectionType
  <1>5. ASSUME NEW q \in RequestType, RequestKnows(q), q.pc = "finalize"
        PROVE  /\ q.revision <= peakConnection'[q.user][q.merchant].revision + 1
               /\ TargetUnchanged(peakConnection'[q.user][q.merchant], q.revision) =>
                     Replaceable(peakConnection'[q.user][q.merchant])
    <2>1. q.user \in Users /\ q.merchant \in Merchants /\ q.revision \in Nat
      BY <1>5 DEF RequestKnows, RequestType
    <2>2. q.revision <= peakConnection[q.user][q.merchant].revision + 1
      BY <1>5 DEF RequestKnows
    <2>3. CASE q.user = u /\ q.merchant = m
      BY <1>1, <1>4, <2>1, <2>2, <2>3 DEF TargetUnchanged
    <2>4. CASE ~(q.user = u /\ q.merchant = m)
      BY <1>1, <1>5, <2>1, <2>4 DEF RequestKnows
    <2> QED
      BY <2>3, <2>4
  <1>6. \A q \in RequestType : RequestKnows(q) => RequestKnows(q)'
    BY <1>5 DEF RequestKnows, TargetUnchanged, Replaceable
  <1>7. \A r \in Requests : RequestKnows(request[r]) /\ request[r] \in RequestType
    BY DEF PeakInv, PeakTypeOK
  <1> QED
    BY <1>2, <1>3, <1>4, <1>6, <1>7

(* finalize spends the setup and takes the next revision of the connection. *)
LEMMA FinalizeKeepsPeak ==
    ASSUME PeakInv, NEW r \in Requests, NEW answered \in Answers, FinalizeSetup(r, answered)
    PROVE  PeakInv'
  <1> DEFINE q == request[r]
             c == peakConnection[q.user][q.merchant]
  <1>1. q \in RequestType /\ RequestKnows(q) /\ q.pc = "finalize" /\ q.user \in Users
        /\ q.setup \in Setups /\ q.merchant \in Merchants /\ q.revision \in Nat
    BY DEF PeakInv, PeakTypeOK, FinalizeSetup, RequestKnows, RequestType
  <1>2. request' = [request EXCEPT ![r] = NoRequest]
    BY DEF FinalizeSetup, Answered
  <1>3. RequestKnows(NoRequest)
    BY PeakShapes DEF RequestKnows
  <1>4. CASE ~(StillOpen(q.user, q.setup) /\ TargetUnchanged(c, q.revision))
    BY <1>2, <1>3, <1>4, PeakShapes, RequestMoves DEF FinalizeSetup
  <1>5. CASE StillOpen(q.user, q.setup) /\ TargetUnchanged(c, q.revision)
    <2> DEFINE x == [setup |-> q.setup, user |-> q.user, merchant |-> q.merchant, revision |-> q.revision]
    <2>1. /\ setup' = [setup EXCEPT ![q.setup].consumed = TRUE]
          /\ peakConnection' = [peakConnection EXCEPT ![q.user][q.merchant] = ReadyConnection(q.revision)]
          /\ made' = made \cup {x}
      BY <1>5 DEF FinalizeSetup
    <2>2. /\ ReadyConnection(q.revision) \in PeakConnectionType
          /\ ReadyConnection(q.revision).revision = c.revision + 1
          /\ ~ReadyConnection(q.revision).owed
      BY <1>1, <1>5 DEF ReadyConnection, PeakConnectionType, TargetUnchanged
    <2>3. /\ peakConnection' \in [Users -> [Merchants -> PeakConnectionType]]
          /\ OwedWhenDisconnected'
          /\ \A v \in Users, n \in Merchants : peakConnection[v][n].revision <= peakConnection'[v][n].revision
          /\ \A s \in Requests : RequestKnows(request[s]) /\ request[s] \in RequestType
          /\ \A p \in RequestType : RequestKnows(p) => RequestKnows(p)'
      BY <1>1, <2>1, <2>2, ConnectionMoves
    <2>4. peakConnection'[q.user][q.merchant] = ReadyConnection(q.revision)
      BY <1>1, <2>1 DEF PeakInv, PeakTypeOK
    <2>5. setup \in [Setups -> SetupType] /\ setup[q.setup].user = q.user /\ ~setup[q.setup].consumed
      BY <1>5 DEF PeakInv, PeakTypeOK, StillOpen, Peekable
    <2>6. setup' \in [Setups -> SetupType] /\ setup'[q.setup].consumed
          /\ \A t \in Setups : setup'[t].user = setup[t].user /\ (setup[t].consumed => setup'[t].consumed)
      BY <1>1, <2>1, <2>5 DEF SetupType
    <2>7. x.setup = q.setup /\ x.user = q.user /\ x.merchant = q.merchant /\ x.revision = q.revision
          /\ x \in [setup : Setups, user : Users, merchant : Merchants, revision : Nat]
      BY <1>1
    <2> HIDE DEF x
    <2>8. PeakTypeOK'
      BY <1>2, <2>1, <2>3, <2>6, <2>7, PeakShapes DEF PeakInv, PeakTypeOK
    <2>9. ASSUME NEW s \in Requests PROVE RequestKnows(request[s])'
      <3>1. ASSUME NEW p \in RequestType, p = request'[s] PROVE RequestKnows(p)'
        <4>1. RequestKnows(p)
          BY <1>2, <1>3, <2>3, <3>1 DEF PeakInv, PeakTypeOK
        <4> QED
          BY <2>3, <4>1
      <3>2. request'[s] \in RequestType
        BY <2>8 DEF PeakTypeOK
      <3> QED
        BY <3>1, <3>2
    <2>10. ASSUME NEW y \in made
           PROVE  /\ y \in [setup : Setups, user : Users, merchant : Merchants, revision : Nat]
                  /\ y.setup # q.setup /\ setup'[y.setup].consumed /\ setup'[y.setup].user = y.user
                  /\ y.revision <= peakConnection'[y.user][y.merchant].revision
                  /\ (y.user = q.user /\ y.merchant = q.merchant => y.revision # q.revision)
      <3>1. /\ y \in [setup : Setups, user : Users, merchant : Merchants, revision : Nat]
            /\ setup[y.setup].consumed /\ setup[y.setup].user = y.user
            /\ y.revision <= peakConnection[y.user][y.merchant].revision
        BY DEF PeakInv, PeakTypeOK, MadeSpent
      <3>2. y.revision \in Nat /\ y.user \in Users /\ y.merchant \in Merchants /\ y.setup \in Setups
        BY <3>1
      <3>3. /\ peakConnection[y.user][y.merchant].revision \in Nat
            /\ peakConnection'[y.user][y.merchant].revision \in Nat
            /\ peakConnection[y.user][y.merchant].revision <= peakConnection'[y.user][y.merchant].revision
        BY <2>3, <3>2 DEF PeakInv, PeakTypeOK, PeakConnectionType
      <3>4. y.user = q.user /\ y.merchant = q.merchant => y.revision # q.revision
        BY <1>5, <3>1, <3>2, <3>3 DEF TargetUnchanged
      <3>5. y.revision <= peakConnection'[y.user][y.merchant].revision
        BY <3>1, <3>2, <3>3
      <3> QED
        BY <2>5, <2>6, <3>1, <3>2, <3>4, <3>5
    <2>11. MadeSpent'
      <3>1. x.revision <= peakConnection'[x.user][x.merchant].revision
        BY <1>1, <2>4, <2>7 DEF ReadyConnection
      <3> QED
        BY <2>1, <2>5, <2>6, <2>7, <2>10, <3>1, <1>1 DEF MadeSpent
    <2>12. SetupSingleUse'
      BY <1>1, <2>1, <2>5, <2>6, <2>7, <2>10 DEF PeakInv, SetupSingleUse
    <2> QED
      BY <2>3, <2>8, <2>9, <2>11, <2>12 DEF PeakInv
  <1> QED
    BY <1>4, <1>5

(* A disconnection takes the next revision as well. *)
LEMMA DisconnectKeepsPeak ==
    ASSUME PeakInv, NEW u \in Users, NEW m \in Merchants, DisconnectPeak(u, m)
    PROVE  PeakInv'
  <1> DEFINE c == [readiness |-> "disconnected", revision |-> peakConnection[u][m].revision + 1, owed |-> TRUE]
  <1>0. peakConnection[u][m].revision \in Nat
    BY DEF PeakInv, PeakTypeOK, PeakConnectionType
  <1>1. c \in PeakConnectionType /\ c.revision = peakConnection[u][m].revision + 1
        /\ c.readiness = "disconnected"
    BY <1>0 DEF PeakConnectionType
  <1>2. peakConnection' = [peakConnection EXCEPT ![u][m] = c] /\ UNCHANGED <<setup, request, made>>
    BY DEF DisconnectPeak
  <1> HIDE DEF c
  <1>3. /\ peakConnection' \in [Users -> [Merchants -> PeakConnectionType]]
        /\ OwedWhenDisconnected'
        /\ \A v \in Users, n \in Merchants : peakConnection[v][n].revision <= peakConnection'[v][n].revision
        /\ \A s \in Requests : RequestKnows(request[s]) /\ request[s] \in RequestType
        /\ \A p \in RequestType : RequestKnows(p) => RequestKnows(p)'
    BY <1>1, <1>2, ConnectionMoves
  <1>4. PeakTypeOK'
    BY <1>2, <1>3 DEF PeakInv, PeakTypeOK
  <1>5. ASSUME NEW s \in Requests PROVE RequestKnows(request[s])'
    <2>1. ASSUME NEW p \in RequestType, p = request[s] PROVE RequestKnows(p)'
      BY <1>3, <2>1
    <2> QED
      BY <1>2, <1>3, <2>1
  <1>6. MadeSpent'
    <2> SUFFICES ASSUME NEW y \in made
                 PROVE  /\ setup[y.setup].consumed /\ setup[y.setup].user = y.user
                        /\ y.revision <= peakConnection'[y.user][y.merchant].revision
      BY <1>2 DEF MadeSpent
    <2>1. y.revision \in Nat /\ y.user \in Users /\ y.merchant \in Merchants
      BY DEF PeakInv, PeakTypeOK
    <2>2. /\ peakConnection[y.user][y.merchant].revision \in Nat
          /\ peakConnection'[y.user][y.merchant].revision \in Nat
          /\ peakConnection[y.user][y.merchant].revision <= peakConnection'[y.user][y.merchant].revision
      BY <1>3, <2>1 DEF PeakInv, PeakTypeOK, PeakConnectionType
    <2> QED
      BY <2>1, <2>2 DEF PeakInv, MadeSpent
  <1>7. SetupSingleUse'
    BY <1>2 DEF PeakInv, SetupSingleUse
  <1> QED
    BY <1>3, <1>4, <1>5, <1>6, <1>7 DEF PeakInv

(* Every step of a setup keeps the inductive invariant. *)
LEMMA PeakStep == PeakInv /\ [PeakNext]_peakVars => PeakInv'
  <1> SUFFICES ASSUME PeakInv, [PeakNext]_peakVars
               PROVE  PeakInv'
    OBVIOUS
  <1>0. /\ setup \in [Setups -> SetupType]
        /\ \A r \in Requests : request[r] \in RequestType /\ RequestKnows(request[r])
        /\ peakConnection \in [Users -> [Merchants -> PeakConnectionType]]
    BY DEF PeakInv, PeakTypeOK
  <1>1. ASSUME NEW t \in Setups, NEW u \in Users, StartSetup(t, u)
        PROVE  PeakInv'
    <2> DEFINE s == [NoSetup EXCEPT !.user = u]
    <2>1. s \in SetupType
      BY PeakShapes DEF SetupType
    <2>2. setup' = [setup EXCEPT ![t] = s] /\ ~setup[t].consumed
          /\ UNCHANGED <<request, peakConnection, made>>
      BY <1>1, PeakShapes DEF StartSetup, CreateAttempt
    <2> QED
      BY <2>1, <2>2, SetupMoves
  <1>2. ASSUME NEW t \in Setups, NEW u \in Users, NEW answered \in Answers,
               ExchangeSetup(t, u, answered)
        PROVE  PeakInv'
    <2> DEFINE s == [setup[t] EXCEPT !.exchanged = TRUE]
    <2>1. s \in SetupType /\ s.consumed = setup[t].consumed /\ s.user = setup[t].user
      BY <1>0 DEF SetupType
    <2>2. setup' = [setup EXCEPT ![t] = s] /\ UNCHANGED <<request, peakConnection, made>>
      BY <1>2 DEF ExchangeSetup
    <2> QED
      BY <2>1, <2>2, SetupMoves
  <1>3. ASSUME NEW t \in Setups, SetupExpires(t)
        PROVE  PeakInv'
    <2> DEFINE s == [setup[t] EXCEPT !.expired = TRUE]
    <2>1. s \in SetupType /\ s.consumed = setup[t].consumed /\ s.user = setup[t].user
      BY <1>0 DEF SetupType
    <2>2. setup' = [setup EXCEPT ![t] = s] /\ UNCHANGED <<request, peakConnection, made>>
      BY <1>3 DEF SetupExpires
    <2> QED
      BY <2>1, <2>2, SetupMoves
  <1>4. ASSUME UNCHANGED <<setup, request, peakConnection, made>>
        PROVE  PeakInv'
    BY <1>4 DEF PeakInv, PeakTypeOK, RequestKnows, TargetUnchanged, Replaceable,
                OwedWhenDisconnected, MadeSpent, SetupSingleUse
  <1>5. ASSUME NEW u \in Users, BrowserRefused(u) \/ LeavesWorkspace(u)
        PROVE  PeakInv'
    BY <1>4, <1>5 DEF BrowserRefused, LeavesWorkspace
  <1>6. ASSUME NEW r \in Requests, NEW u \in Users, NEW t \in Setups, Submit(r, u, t)
        PROVE  PeakInv'
    <2> DEFINE q == [NoRequest EXCEPT !.pc = "peek", !.user = u, !.setup = t]
    <2>1. q \in RequestType /\ q.pc = "peek" /\ q.user = u /\ q.setup = t
      BY PeakShapes DEF RequestType
    <2>2. request' = [request EXCEPT ![r] = q] /\ UNCHANGED <<setup, peakConnection, made>>
      BY <1>6 DEF Submit
    <2> HIDE DEF q
    <2>3. RequestKnows(q)
      BY <2>1 DEF RequestKnows
    <2> QED
      BY <2>1, <2>2, <2>3, RequestMoves
  <1>7. ASSUME NEW r \in Requests, Answered(r), UNCHANGED <<setup, peakConnection, made>>
        PROVE  PeakInv'
    <2>1. RequestKnows(NoRequest)
      BY PeakShapes DEF RequestKnows
    <2> QED
      BY <1>7, <2>1, PeakShapes, RequestMoves DEF Answered
  <1>8. ASSUME NEW r \in Requests, NEW at \in {"member", "validate"}, request[r].pc # "idle",
               request' = [request EXCEPT ![r].pc = at], UNCHANGED <<setup, peakConnection, made>>
        PROVE  PeakInv'
    <2> DEFINE q == [request[r] EXCEPT !.pc = at]
    <2>1. q \in RequestType /\ q.pc = at /\ q.user = request[r].user /\ q.setup = request[r].setup
      BY <1>0, <1>8 DEF RequestType
    <2>2. request' = [request EXCEPT ![r] = q]
      BY <1>8
    <2> HIDE DEF q
    <2>3. RequestKnows(q)
      BY <1>0, <1>8, <2>1 DEF RequestKnows
    <2> QED
      BY <1>8, <2>1, <2>2, <2>3, RequestMoves
  <1>9. ASSUME NEW r \in Requests, PeekSession(r) \/ RequireMember(r) \/ ValidationFails(r)
        PROVE  PeakInv'
    BY <1>7, <1>8, <1>9 DEF PeekSession, RequireMember, ValidationFails
  <1>10. ASSUME NEW r \in Requests, NEW m \in Merchants, ValidatedProfile(r, m)
         PROVE  PeakInv'
    <2> DEFINE q == [request[r] EXCEPT !.pc = "resolve", !.merchant = m]
    <2>1. q \in RequestType /\ q.pc = "resolve" /\ q.user = request[r].user /\ q.setup = request[r].setup
          /\ q.merchant = m
      BY <1>0 DEF RequestType
    <2>2. request' = [request EXCEPT ![r] = q] /\ UNCHANGED <<setup, peakConnection, made>>
          /\ request[r].pc = "validate"
      BY <1>10 DEF ValidatedProfile
    <2> HIDE DEF q
    <2>3. RequestKnows(q)
      BY <1>0, <2>1, <2>2 DEF RequestKnows
    <2> QED
      BY <2>1, <2>2, <2>3, RequestMoves
  <1>11. ASSUME NEW r \in Requests, ResolveTarget(r)
         PROVE  PeakInv'
    <2> DEFINE c == peakConnection[request[r].user][request[r].merchant]
               q == [request[r] EXCEPT !.pc = "finalize", !.revision = c.revision + 1]
    <2>1. request[r].user \in Users /\ request[r].merchant \in Merchants /\ request[r].setup \in Setups
      BY <1>0, <1>11 DEF ResolveTarget, RequestKnows
    <2>2. c.revision \in Nat /\ c.revision + 1 \in Nat
      BY <1>0, <2>1 DEF PeakConnectionType
    <2>3. CASE Replaceable(c)
      <3>1. q \in RequestType /\ q.pc = "finalize" /\ q.user = request[r].user
            /\ q.setup = request[r].setup /\ q.merchant = request[r].merchant
            /\ q.revision = c.revision + 1
        BY <1>0, <2>2 DEF RequestType
      <3>2. request' = [request EXCEPT ![r] = q] /\ UNCHANGED <<setup, peakConnection, made>>
        BY <1>11, <2>3 DEF ResolveTarget, Replaceable
      <3> HIDE DEF q
      <3>3. RequestKnows(q)
        BY <2>1, <2>2, <2>3, <3>1 DEF RequestKnows
      <3> QED
        BY <3>1, <3>2, <3>3, RequestMoves
    <2>4. CASE ~Replaceable(c)
      BY <1>7, <1>11, <2>4 DEF ResolveTarget, Replaceable
    <2> QED
      BY <2>3, <2>4
  <1>12. CASE UNCHANGED peakVars
    BY <1>4, <1>12 DEF peakVars
  <1> QED
    BY <1>1, <1>2, <1>3, <1>5, <1>6, <1>9, <1>10, <1>11, <1>12, FinalizeKeepsPeak,
       DisconnectKeepsPeak DEF PeakNext

(* Only a finalized submission and a disconnection write a connection. *)
LEMMA PeakWrites ==
    ASSUME PeakNext, peakConnection' # peakConnection
    PROVE  \/ \E u \in Users, m \in Merchants : DisconnectPeak(u, m)
           \/ \E r \in Requests, answered \in Answers : FinalizeSetup(r, answered)
  BY DEF PeakNext, StartSetup, ExchangeSetup, SetupExpires, BrowserRefused, LeavesWorkspace, Submit,
         PeekSession, RequireMember, ValidationFails, ResolveTarget, ValidatedProfile

\* A setup link makes one connection, and finalize never writes over keys that
\* are in use or still owed to the provider, for any number of submissions.
THEOREM SetupStaysSafe == PeakSpec => SetupSafe
  <1> DEFINE Undisturbed ==
        \A u \in Users, m \in Merchants :
          LET now == peakConnection[u][m]
              next == peakConnection'[u][m]
          IN next # now => /\ now.readiness = "ready" => next.readiness = "disconnected"
                           /\ ~now.owed
  <1>1. PeakInit => PeakInv
    BY PeakShapes DEF PeakInit, PeakInv, PeakTypeOK, RequestKnows, OwedWhenDisconnected, MadeSpent, SetupSingleUse
  <1>2. PeakInv /\ [PeakNext]_peakVars => [Undisturbed]_peakVars
    <2> SUFFICES ASSUME PeakInv, PeakNext, NEW u \in Users, NEW m \in Merchants,
                        peakConnection'[u][m] # peakConnection[u][m]
                 PROVE  /\ peakConnection[u][m].readiness = "ready" =>
                              peakConnection'[u][m].readiness = "disconnected"
                        /\ ~peakConnection[u][m].owed
      OBVIOUS
    <2>0. peakConnection \in [Users -> [Merchants -> PeakConnectionType]]
      BY DEF PeakInv, PeakTypeOK
    <2>1. ASSUME NEW v \in Users, NEW n \in Merchants, DisconnectPeak(v, n)
          PROVE  /\ peakConnection[u][m].readiness = "ready" =>
                       peakConnection'[u][m].readiness = "disconnected"
                 /\ ~peakConnection[u][m].owed
      <3>1. u = v /\ m = n /\ peakConnection[u][m].readiness = "ready"
        BY <2>0, <2>1 DEF DisconnectPeak
      <3>2. peakConnection'[u][m].readiness = "disconnected"
        BY <2>0, <2>1, <3>1 DEF DisconnectPeak
      <3> QED
        BY <3>1, <3>2 DEF PeakInv, OwedWhenDisconnected
    <2>2. ASSUME NEW r \in Requests, NEW answered \in Answers, FinalizeSetup(r, answered)
          PROVE  /\ peakConnection[u][m].readiness = "ready" =>
                       peakConnection'[u][m].readiness = "disconnected"
                 /\ ~peakConnection[u][m].owed
      <3> DEFINE q == request[r]
      <3>1. q.pc = "finalize" /\ RequestKnows(q)
        BY <2>2 DEF FinalizeSetup, PeakInv
      <3>2. /\ TargetUnchanged(peakConnection[q.user][q.merchant], q.revision)
            /\ peakConnection' = [peakConnection EXCEPT ![q.user][q.merchant] = ReadyConnection(q.revision)]
        BY <2>2 DEF FinalizeSetup
      <3>3. u = q.user /\ m = q.merchant
        BY <2>0, <3>2
      <3>4. Replaceable(peakConnection[u][m])
        BY <3>1, <3>2, <3>3 DEF RequestKnows
      <3> QED
        BY <3>4 DEF Replaceable, PeakInv, OwedWhenDisconnected
    <2> QED
      BY <2>1, <2>2, PeakWrites
  <1>3. PeakInv => SetupSingleUse
    BY DEF PeakInv
  <1> QED
    BY <1>1, <1>2, <1>3, PeakStep, PTL DEF PeakSpec, SetupSafe, KeysNotOverwritten

------------------------------------------------------------------------------
(* Verification keys. *)

VerificationType ==
    [at : {"idle", "check", "queued", "fetching", "again", "accepted", "refused"},
     kid : Keys \cup {"none"}, unknown : BOOLEAN, got : SUBSET Keys, since : Nat,
     asked : Nat, age : Int]

TokenKeysTypeOK ==
    /\ second \in Nat
    /\ keySet \subseteq Keys
    /\ lastSeen \in [Keys -> Int]
    /\ cached \subseteq Keys
    /\ expiresAt \in Int /\ unknownAt \in Int
    /\ verification \in [Verifications -> VerificationType]
    /\ fetches \subseteq Verifications \X Nat

\* When a key was last published.
PublishedDated ==
    \A k \in Keys : lastSeen[k] <= second /\ (k \in keySet => lastSeen[k] = second)

\* The cache expires in time for each of its keys.
CacheDated ==
    \A k \in cached : lastSeen[k] >= 0 /\ expiresAt <= lastSeen[k] + MaxCache + FetchTime

\* A set on its way was published after it was asked for.
AnswerDated(q) ==
    /\ q.at = "fetching" => q.since <= second /\ second <= q.since + FetchTime
    /\ q.at # "fetching" => q.got = {}
    /\ \A k \in q.got : lastSeen[k] >= q.since

\* A verification that found its key missing can find it only in a set fetched
\* since, which was on its way for no longer than a fetch takes.
MissingDated(q) ==
    /\ q.asked <= second
    /\ q.at # "idle" => q.kid \in Keys
    /\ (q.at = "queued" /\ q.unknown) \/ q.at = "again" =>
          (q.kid \in cached => lastSeen[q.kid] >= 0 /\ q.asked <= lastSeen[q.kid] + FetchTime)

AcceptedDated(q) ==
    q.at = "accepted" => lastSeen[q.kid] >= 0 /\ q.age <= MaxCache + FetchTime

Dated(q) == AnswerDated(q) /\ MissingDated(q) /\ AcceptedDated(q)

UnknownSpaced == FetchesSpaced /\ \A f \in fetches : f[2] <= unknownAt

TokenKeysInv ==
    /\ TokenKeysTypeOK /\ PublishedDated /\ CacheDated
    /\ \A r \in Verifications : Dated(verification[r])
    /\ UnknownSpaced

(* The bounds are numbers. *)
LEMMA TokenKeysNumbers ==
    MaxCache \in Nat /\ FetchTime \in Nat /\ Cooldown \in Nat /\ Cooldown > 0
  BY TokenKeysAssumption

(* The clock and the server's publications only move the last publication of a key *)
(* forward: what verifications know stays true.                                    *)
LEMMA LaterStaysDated ==
    ASSUME TokenKeysInv, NEW q \in VerificationType, Dated(q),
           second' \in Nat, second <= second', lastSeen' \in [Keys -> Int],
           \A k \in Keys : lastSeen[k] <= lastSeen'[k],
           UNCHANGED cached,
           q.at = "fetching" => second' <= q.since + FetchTime
    PROVE  Dated(q)'
  <1> USE TokenKeysNumbers
  <1>1. AnswerDated(q)'
    BY DEF Dated, AnswerDated, VerificationType, TokenKeysInv, TokenKeysTypeOK
  <1>2. MissingDated(q)'
    BY DEF Dated, MissingDated, VerificationType, TokenKeysInv, TokenKeysTypeOK
  <1>3. AcceptedDated(q)'
    BY DEF Dated, AcceptedDated, MissingDated, VerificationType, TokenKeysInv, TokenKeysTypeOK
  <1> QED
    BY <1>1, <1>2, <1>3 DEF Dated

(* One verification moves on and the cache stays. *)
LEMMA VerificationMoves ==
    ASSUME TokenKeysInv, NEW r \in Verifications, NEW q \in VerificationType, Become(r, q),
           UNCHANGED <<second, keySet, lastSeen, cached, expiresAt>>, Dated(q),
           unknownAt' \in Int, fetches' \subseteq Verifications \X Nat, UnknownSpaced'
    PROVE  TokenKeysInv'
  <1>1. verification' = [verification EXCEPT ![r] = q]
    BY DEF Become
  <1>2. verification' \in [Verifications -> VerificationType]
    BY <1>1 DEF TokenKeysInv, TokenKeysTypeOK
  <1>3. TokenKeysTypeOK' /\ PublishedDated' /\ CacheDated'
    BY <1>2 DEF TokenKeysInv, TokenKeysTypeOK, PublishedDated, CacheDated
  <1>4. ASSUME NEW s \in Verifications
        PROVE  Dated(verification[s])'
    <2>1. Dated(verification'[s])
      BY <1>1 DEF TokenKeysInv, TokenKeysTypeOK
    <2> QED
      BY <2>1 DEF Dated, AnswerDated, MissingDated, AcceptedDated
  <1> QED
    BY <1>3, <1>4 DEF TokenKeysInv

(* Steps that fetch nothing for an unknown key keep the fetches spaced. *)
LEMMA SpacingKept ==
    ASSUME TokenKeysInv, UNCHANGED <<unknownAt, fetches>>
    PROVE  unknownAt' \in Int /\ fetches' \subseteq Verifications \X Nat /\ UnknownSpaced'
  BY DEF TokenKeysInv, TokenKeysTypeOK, UnknownSpaced, FetchesSpaced

(* The record of a resolve call that has not begun. *)
LEMMA UnaskedShape ==
    Unasked \in VerificationType /\ Unasked.got = {} /\ Unasked.asked = 0
  BY DEF Unasked, VerificationType

(* What Accept makes of a verification whose key is recent enough. *)
LEMMA AcceptedRecently ==
    ASSUME TokenKeysInv, NEW q \in VerificationType, q.kid \in Keys, q.asked <= second,
           lastSeen[q.kid] >= 0, q.asked <= lastSeen[q.kid] + MaxCache + FetchTime,
           NEW v, v = [Unasked EXCEPT !.at = "accepted", !.kid = q.kid, !.age = q.asked - lastSeen[q.kid]]
    PROVE  v \in VerificationType /\ Dated(v) /\ v.at = "accepted"
  <1> USE TokenKeysNumbers
  <1> DEFINE d == q.asked - lastSeen[q.kid]
  <1>1. d \in Int /\ d <= MaxCache + FetchTime
    BY DEF TokenKeysInv, TokenKeysTypeOK, VerificationType
  <1>2. v = [Unasked EXCEPT !.at = "accepted", !.kid = q.kid, !.age = d]
    OBVIOUS
  <1> HIDE DEF d
  <1>3. v \in VerificationType /\ v.at = "accepted" /\ v.kid = q.kid /\ v.asked = 0
        /\ v.age = d /\ v.got = {}
    BY <1>1, <1>2, UnaskedShape DEF VerificationType
  <1>4. second \in Nat
    BY DEF TokenKeysInv, TokenKeysTypeOK
  <1> QED
    BY <1>1, <1>3, <1>4 DEF Dated, AnswerDated, MissingDated, AcceptedDated

(* What Refuse makes of a verification. *)
LEMMA RefusedRecently ==
    ASSUME TokenKeysInv, NEW k \in Keys,
           NEW v, v = [Unasked EXCEPT !.at = "refused", !.kid = k]
    PROVE  v \in VerificationType /\ Dated(v) /\ v.at = "refused"
  <1>1. v \in VerificationType /\ v.at = "refused" /\ v.kid = k /\ v.asked = 0 /\ v.got = {}
    BY UnaskedShape DEF VerificationType
  <1>2. second \in Nat
    BY DEF TokenKeysInv, TokenKeysTypeOK
  <1> QED
    BY <1>1, <1>2 DEF Dated, AnswerDated, MissingDated, AcceptedDated

(* Time and rotations date every key no earlier. *)
LEMMA TicksKeepKeys ==
    ASSUME TokenKeysInv, Second \/ Rotate
    PROVE  TokenKeysInv'
  <1>1. /\ second' \in Nat /\ second <= second' /\ UNCHANGED <<cached, expiresAt, unknownAt, verification, fetches>>
        /\ keySet' \subseteq Keys /\ lastSeen' \in [Keys -> Int]
    BY DEF TokenKeysInv, TokenKeysTypeOK, Second, Rotate
  <1>2. ASSUME NEW k \in Keys
        PROVE  lastSeen[k] <= lastSeen'[k] /\ lastSeen'[k] <= second' /\ (k \in keySet' => lastSeen'[k] = second')
    <2>1. lastSeen[k] \in Int /\ second \in Nat /\ lastSeen[k] <= second /\ (k \in keySet => lastSeen[k] = second)
      BY DEF TokenKeysInv, TokenKeysTypeOK, PublishedDated
    <2>2. CASE Second
      BY <2>1, <2>2 DEF Second
    <2>3. CASE Rotate
      BY <2>1, <2>3 DEF Rotate
    <2> QED
      BY <2>2, <2>3
  <1>3. TokenKeysTypeOK' /\ PublishedDated'
    BY <1>1, <1>2 DEF TokenKeysInv, TokenKeysTypeOK, PublishedDated
  <1>4. CacheDated'
    <2> SUFFICES ASSUME NEW k \in cached
                 PROVE  lastSeen'[k] >= 0 /\ expiresAt <= lastSeen'[k] + MaxCache + FetchTime
      BY <1>1 DEF CacheDated
    <2>1. k \in Keys /\ lastSeen[k] \in Int /\ lastSeen'[k] \in Int /\ expiresAt \in Int
      BY <1>1 DEF TokenKeysInv, TokenKeysTypeOK
    <2>2. lastSeen[k] >= 0 /\ expiresAt <= lastSeen[k] + MaxCache + FetchTime
      BY DEF TokenKeysInv, CacheDated
    <2> QED
      BY <1>2, <2>1, <2>2, TokenKeysNumbers
  <1>5. ASSUME NEW r \in Verifications
        PROVE  Dated(verification[r])'
    <2>1. verification[r] \in VerificationType /\ Dated(verification[r])
      BY DEF TokenKeysInv, TokenKeysTypeOK
    <2>2. verification[r].at = "fetching" => second' <= verification[r].since + FetchTime
      <3>1. CASE Second
        BY <2>1, <3>1, TokenKeysNumbers DEF Second, VerificationType, TokenKeysInv, TokenKeysTypeOK
      <3>2. CASE Rotate
        BY <2>1, <3>2 DEF Rotate, Dated, AnswerDated
      <3> QED
        BY <3>1, <3>2
    <2>3. ASSUME NEW q \in VerificationType, q = verification[r] PROVE Dated(q)'
      BY <1>1, <1>2, <2>1, <2>2, <2>3, LaterStaysDated
    <2> QED
      BY <1>1, <2>1, <2>3
  <1>6. UnknownSpaced'
    BY <1>1 DEF TokenKeysInv, UnknownSpaced, FetchesSpaced
  <1> QED
    BY <1>3, <1>4, <1>5, <1>6 DEF TokenKeysInv

(* The holder of the lock fetches, or judges by the cache it finds. *)
LEMMA RefreshKeepsKeys ==
    ASSUME TokenKeysInv, NEW r \in Verifications, EnterLock(r)
    PROVE  TokenKeysInv'
  <1> DEFINE q == verification[r]
  <1> USE TokenKeysNumbers
  <1>1. /\ q \in VerificationType /\ Dated(q) /\ q.at = "queued" /\ second \in Nat
        /\ q.kid \in Keys /\ q.asked <= second /\ q.asked \in Nat /\ q.unknown \in BOOLEAN
        /\ lastSeen[q.kid] \in Int
    BY DEF TokenKeysInv, TokenKeysTypeOK, EnterLock, Dated, MissingDated, VerificationType
  <1>2. UNCHANGED <<second, keySet, lastSeen, cached, expiresAt>>
    BY DEF EnterLock
  <1>3. CASE RefreshDue(q)
    <2> DEFINE v == [q EXCEPT !.at = "fetching", !.since = second]
    <2>1. /\ Become(r, v)
          /\ unknownAt' = IF q.unknown THEN second ELSE unknownAt
          /\ fetches' = IF q.unknown THEN fetches \cup {<<r, second>>} ELSE fetches
      BY <1>3 DEF EnterLock
    <2>2. v \in VerificationType /\ v.at = "fetching" /\ v.since = second /\ v.got = q.got
          /\ v.kid = q.kid /\ v.asked = q.asked
      BY <1>1 DEF VerificationType
    <2> HIDE DEF v
    <2>3. Dated(v)
      <3>1. second <= second + FetchTime
        BY <1>1
      <3> QED
        BY <1>1, <2>2, <3>1 DEF Dated, AnswerDated, MissingDated, AcceptedDated
    <2>4. unknownAt' \in Int /\ fetches' \subseteq Verifications \X Nat /\ UnknownSpaced'
      <3>1. CASE ~q.unknown
        BY <2>1, <3>1, SpacingKept
      <3>2. CASE q.unknown
        <4>1. unknownAt' = second /\ fetches' = fetches \cup {<<r, second>>}
          BY <2>1, <3>2
        <4>2. second - unknownAt >= Cooldown /\ unknownAt \in Int
          BY <1>3, <3>2 DEF RefreshDue, TokenKeysInv, TokenKeysTypeOK
        <4>3. ASSUME NEW f \in fetches
              PROVE  f[2] \in Nat /\ second - f[2] >= Cooldown /\ f[2] <= second
          <5>1. f[2] \in Nat /\ f[2] <= unknownAt
            BY DEF TokenKeysInv, TokenKeysTypeOK, UnknownSpaced
          <5> QED
            BY <1>1, <4>2, <5>1
        <4>4. \A f \in fetches' : f[2] <= unknownAt'
          BY <1>1, <4>1, <4>3
        <4>5. FetchesSpaced'
          <5> SUFFICES ASSUME NEW f \in fetches', NEW g \in fetches', f # g
                       PROVE  f[2] - g[2] >= Cooldown \/ g[2] - f[2] >= Cooldown
            BY DEF FetchesSpaced
          <5>1. CASE f \in fetches /\ g \in fetches
            BY <5>1 DEF TokenKeysInv, UnknownSpaced, FetchesSpaced
          <5>2. CASE f \in fetches /\ g = <<r, second>>
            BY <4>3, <5>2
          <5>3. CASE g \in fetches /\ f = <<r, second>>
            BY <4>3, <5>3
          <5> QED
            BY <4>1, <5>1, <5>2, <5>3
        <4>6. unknownAt' \in Int /\ fetches' \subseteq Verifications \X Nat
          BY <1>1, <4>1 DEF TokenKeysInv, TokenKeysTypeOK
        <4> QED
          BY <4>4, <4>5, <4>6 DEF UnknownSpaced
      <3> QED
        BY <1>1, <3>1, <3>2
    <2> QED
      BY <1>2, <2>1, <2>2, <2>3, <2>4, VerificationMoves
  <1>4. CASE ~RefreshDue(q)
    <2>1. cached' = cached /\ AfterRefresh(r, q) /\ UNCHANGED <<unknownAt, fetches>>
      BY <1>4 DEF EnterLock
    <2>2. unknownAt' \in Int /\ fetches' \subseteq Verifications \X Nat /\ UnknownSpaced'
      BY <2>1, SpacingKept
    <2>3. CASE q.kid \in cached
      <3>1. lastSeen[q.kid] >= 0 /\ expiresAt <= lastSeen[q.kid] + MaxCache + FetchTime /\ expiresAt \in Int
        BY <2>3 DEF TokenKeysInv, CacheDated, TokenKeysTypeOK
      <3>2. q.asked <= lastSeen[q.kid] + MaxCache + FetchTime
        <4>1. CASE q.unknown
          <5>1. q.asked <= lastSeen[q.kid] + FetchTime
            BY <1>1, <2>3, <4>1 DEF Dated, MissingDated
          <5> QED
            BY <1>1, <5>1
        <4>2. CASE ~q.unknown
          <5>1. second < expiresAt
            BY <1>1, <1>4, <3>1, <4>2 DEF RefreshDue
          <5> QED
            BY <1>1, <3>1, <5>1
        <4> QED
          BY <1>1, <4>1, <4>2
      <3> DEFINE v == [Unasked EXCEPT !.at = "accepted", !.kid = q.kid, !.age = q.asked - lastSeen[q.kid]]
      <3>3. Become(r, v)
        BY <2>1, <2>3 DEF AfterRefresh, Accept
      <3>4. q.got = {}
        BY <1>1 DEF Dated, AnswerDated
      <3>5. v \in VerificationType /\ Dated(v)
        BY <1>1, <3>1, <3>2, <3>4, AcceptedRecently
      <3> QED
        BY <1>2, <2>2, <3>3, <3>5, VerificationMoves
    <2>4. CASE q.kid \notin cached /\ q.unknown
      <3> DEFINE v == [Unasked EXCEPT !.at = "refused", !.kid = q.kid]
      <3>1. Become(r, v)
        BY <2>1, <2>4 DEF AfterRefresh, Refuse
      <3>2. v \in VerificationType /\ Dated(v)
        BY <1>1, RefusedRecently
      <3> QED
        BY <1>2, <2>2, <3>1, <3>2, VerificationMoves
    <2>5. CASE q.kid \notin cached /\ ~q.unknown
      <3> DEFINE v == [q EXCEPT !.at = "again"]
      <3>1. Become(r, v)
        BY <2>1, <2>5 DEF AfterRefresh
      <3>2. v \in VerificationType /\ v.at = "again" /\ v.kid = q.kid
            /\ v.asked = q.asked /\ v.got = q.got
        BY <1>1 DEF VerificationType
      <3> HIDE DEF v
      <3>3. Dated(v)
        BY <1>1, <2>5, <3>2 DEF Dated, AnswerDated, MissingDated, AcceptedDated
      <3> QED
        BY <1>2, <2>2, <3>1, <3>2, <3>3, VerificationMoves
    <2> QED
      BY <1>1, <2>3, <2>4, <2>5
  <1> QED
    BY <1>3, <1>4

(* A fetched set replaces the cache; every verification is judged by it. *)
LEMMA StoreKeepsKeys ==
    ASSUME TokenKeysInv, NEW r \in Verifications, StoreKeys(r)
    PROVE  TokenKeysInv'
  <1> DEFINE q == verification[r]
  <1> USE TokenKeysNumbers
  <1>1. /\ q \in VerificationType /\ Dated(q) /\ q.at = "fetching" /\ second \in Nat
        /\ q.kid \in Keys /\ q.asked <= second /\ q.asked \in Nat /\ q.unknown \in BOOLEAN
        /\ q.got \subseteq Keys /\ q.since \in Nat /\ lastSeen \in [Keys -> Int]
    BY DEF TokenKeysInv, TokenKeysTypeOK, StoreKeys, Dated, MissingDated, VerificationType
  <1>2. /\ UNCHANGED <<second, keySet, lastSeen, unknownAt, fetches>> /\ cached' = q.got
        /\ AfterRefresh(r, [q EXCEPT !.got = {}])
    BY DEF StoreKeys
  <1>3. second <= q.since + FetchTime
    BY <1>1 DEF Dated, AnswerDated
  <1>4. ASSUME NEW k \in q.got
        PROVE  lastSeen[k] \in Int /\ lastSeen[k] >= 0 /\ second <= lastSeen[k] + FetchTime
    <2>1. lastSeen[k] \in Int /\ lastSeen[k] >= q.since
      BY <1>1 DEF Dated, AnswerDated
    <2> QED
      BY <1>1, <1>3, <2>1
  <1>5. CacheDated' /\ expiresAt' \in Int
    <2>1. PICK s \in 0 .. MaxCache : expiresAt' = second + s
      BY DEF StoreKeys, CacheSeconds
    <2>2. s \in Nat /\ s <= MaxCache
      BY <2>1
    <2>3. ASSUME NEW k \in q.got
          PROVE  expiresAt' <= lastSeen[k] + MaxCache + FetchTime
      BY <1>1, <1>4, <2>1, <2>2
    <2> QED
      BY <1>1, <1>2, <1>4, <2>1, <2>2, <2>3 DEF CacheDated
  <1>6. PICK v \in VerificationType : Become(r, v) /\ Dated(v)'
    <2> DEFINE e == [q EXCEPT !.got = {}]
    <2>1. e \in VerificationType /\ e.kid = q.kid /\ e.asked = q.asked /\ e.got = {}
          /\ e.unknown = q.unknown
      BY <1>1 DEF VerificationType
    <2>2. AfterRefresh(r, e)
      BY <1>2
    <2> HIDE DEF e
    <2>3. CASE q.kid \in q.got
      <3> DEFINE v == [Unasked EXCEPT !.at = "accepted", !.kid = e.kid, !.age = e.asked - lastSeen[e.kid]]
      <3>1. Become(r, v)
        BY <1>2, <2>1, <2>2, <2>3 DEF AfterRefresh, Accept
      <3>2. e.asked <= lastSeen[e.kid] + MaxCache + FetchTime
        BY <1>1, <1>4, <2>1, <2>3
      <3>3. v \in VerificationType /\ Dated(v) /\ v.at = "accepted"
        BY <1>1, <1>4, <2>1, <2>3, <3>2, AcceptedRecently
      <3> HIDE DEF v
      <3>4. ASSUME NEW w \in VerificationType, w = v PROVE Dated(w)'
        BY <1>2, <3>3, <3>4 DEF Dated, AnswerDated, MissingDated, AcceptedDated
      <3> QED
        BY <3>1, <3>3, <3>4
    <2>4. CASE q.kid \notin q.got /\ q.unknown
      <3> DEFINE v == [Unasked EXCEPT !.at = "refused", !.kid = e.kid]
      <3>1. Become(r, v)
        BY <1>2, <2>1, <2>2, <2>4 DEF AfterRefresh, Refuse
      <3>2. v \in VerificationType /\ Dated(v) /\ v.at = "refused"
        BY <1>1, <2>1, RefusedRecently
      <3> HIDE DEF v
      <3>3. ASSUME NEW w \in VerificationType, w = v PROVE Dated(w)'
        BY <1>2, <3>2, <3>3 DEF Dated, AnswerDated, MissingDated, AcceptedDated
      <3> QED
        BY <3>1, <3>2, <3>3
    <2>5. CASE q.kid \notin q.got /\ ~q.unknown
      <3> DEFINE v == [e EXCEPT !.at = "again"]
      <3>1. Become(r, v)
        BY <1>2, <2>1, <2>2, <2>5 DEF AfterRefresh
      <3>2. v \in VerificationType /\ v.at = "again" /\ v.kid = q.kid
            /\ v.asked = q.asked /\ v.got = {}
        BY <2>1 DEF VerificationType
      <3> HIDE DEF v
      <3>3. ASSUME NEW w \in VerificationType, w = v PROVE Dated(w)'
        BY <1>1, <1>2, <2>5, <3>2, <3>3 DEF Dated, AnswerDated, MissingDated, AcceptedDated
      <3> QED
        BY <3>1, <3>2, <3>3
    <2> QED
      BY <1>1, <2>3, <2>4, <2>5
  <1>7. verification' = [verification EXCEPT ![r] = v]
    BY <1>6 DEF Become
  <1>8. ASSUME NEW s \in Verifications
        PROVE  Dated(verification[s])'
    <2>1. CASE s = r
      <3>1. verification'[s] = v
        BY <1>7, <2>1 DEF TokenKeysInv, TokenKeysTypeOK
      <3> QED
        BY <1>6, <3>1 DEF Dated, AnswerDated, MissingDated, AcceptedDated
    <2>2. CASE s # r
      <3> DEFINE w == verification[s]
      <3>1. verification'[s] = w /\ w \in VerificationType /\ Dated(w) /\ w.asked \in Nat
            /\ w.asked <= second
        BY <1>7, <2>2 DEF TokenKeysInv, TokenKeysTypeOK, Dated, MissingDated, VerificationType
      <3>2. w.kid \in cached' => lastSeen[w.kid] >= 0 /\ w.asked <= lastSeen[w.kid] + FetchTime
        BY <1>1, <1>2, <1>4, <3>1
      <3> HIDE DEF w
      <3> QED
        BY <1>2, <3>1, <3>2 DEF Dated, AnswerDated, MissingDated, AcceptedDated
    <2> QED
      BY <2>1, <2>2
  <1>9. TokenKeysTypeOK' /\ PublishedDated'
    <2>1. verification' \in [Verifications -> VerificationType]
      BY <1>6, <1>7 DEF TokenKeysInv, TokenKeysTypeOK
    <2> QED
      BY <1>1, <1>2, <1>5, <2>1 DEF TokenKeysInv, TokenKeysTypeOK, PublishedDated
  <1>10. UnknownSpaced'
    BY <1>2 DEF TokenKeysInv, UnknownSpaced, FetchesSpaced
  <1> QED
    BY <1>5, <1>8, <1>9, <1>10 DEF TokenKeysInv

(* Every step of the validator and the server keeps the inductive invariant. *)
LEMMA TokenKeysStep == TokenKeysInv /\ [TokenKeysNext]_keysVars => TokenKeysInv'
  <1> SUFFICES ASSUME TokenKeysInv, [TokenKeysNext]_keysVars
               PROVE  TokenKeysInv'
    OBVIOUS
  <1> USE TokenKeysNumbers
  <1>0. /\ second \in Nat /\ keySet \subseteq Keys /\ lastSeen \in [Keys -> Int]
        /\ \A r \in Verifications : verification[r] \in VerificationType /\ Dated(verification[r])
    BY DEF TokenKeysInv, TokenKeysTypeOK
  <1>1. ASSUME NEW r \in Verifications, ResolveKey(r)
        PROVE  TokenKeysInv'
    <2>1. PICK k \in Keys : Become(r, [Unasked EXCEPT !.at = "check", !.kid = k, !.asked = second])
      BY <1>1 DEF ResolveKey
    <2> DEFINE v == [Unasked EXCEPT !.at = "check", !.kid = k, !.asked = second]
    <2>2. v \in VerificationType /\ v.at = "check" /\ v.kid = k /\ v.asked = second /\ v.got = {}
      <3>1. second \in Nat
        BY <1>0
      <3> QED
        BY <3>1, UnaskedShape DEF VerificationType
    <2>3. Become(r, v)
      BY <2>1
    <2> HIDE DEF v
    <2>4. Dated(v)
      BY <1>0, <2>2 DEF Dated, AnswerDated, MissingDated, AcceptedDated
    <2> QED
      BY <1>1, <2>2, <2>3, <2>4, SpacingKept, VerificationMoves DEF ResolveKey
  <1>2. ASSUME NEW r \in Verifications, SigningKey(r)
        PROVE  TokenKeysInv'
    <2> DEFINE q == verification[r]
    <2>1. /\ q \in VerificationType /\ Dated(q) /\ q.at = "check" /\ q.kid \in Keys
          /\ q.asked <= second /\ q.asked \in Nat /\ q.got = {} /\ lastSeen[q.kid] \in Int
      BY <1>0, <1>2 DEF SigningKey, Dated, MissingDated, AnswerDated, VerificationType
    <2>2. UNCHANGED <<second, keySet, lastSeen, cached, expiresAt, unknownAt, fetches>>
      BY <1>2 DEF SigningKey
    <2>3. CASE CacheIsFresh(q.kid) /\ q.kid \in cached
      <3> DEFINE v == [Unasked EXCEPT !.at = "accepted", !.kid = q.kid, !.age = q.asked - lastSeen[q.kid]]
      <3>1. Become(r, v)
        BY <1>2, <2>3 DEF SigningKey, Accept
      <3>2. lastSeen[q.kid] >= 0 /\ expiresAt <= lastSeen[q.kid] + MaxCache + FetchTime /\ expiresAt \in Int
            /\ second < expiresAt
        BY <2>3 DEF TokenKeysInv, TokenKeysTypeOK, CacheDated, CacheIsFresh
      <3>3. q.asked <= lastSeen[q.kid] + MaxCache + FetchTime
        BY <1>0, <2>1, <3>2
      <3>4. v \in VerificationType /\ Dated(v)
        BY <2>1, <3>2, <3>3, AcceptedRecently
      <3> QED
        BY <2>2, <3>1, <3>4, SpacingKept, VerificationMoves
    <2>4. CASE ~(CacheIsFresh(q.kid) /\ q.kid \in cached)
      <3> DEFINE v == [q EXCEPT !.at = "queued", !.unknown = CacheIsFresh(q.kid)]
      <3>1. Become(r, v)
        BY <1>2, <2>4 DEF SigningKey
      <3>2. CacheIsFresh(q.kid) \in BOOLEAN
        BY DEF CacheIsFresh
      <3>3. v \in VerificationType /\ v.at = "queued" /\ v.unknown = CacheIsFresh(q.kid)
            /\ v.kid = q.kid /\ v.asked = q.asked /\ v.got = {}
        BY <2>1, <3>2 DEF VerificationType
      <3> HIDE DEF v
      <3>4. Dated(v)
        BY <2>1, <2>4, <3>3 DEF Dated, AnswerDated, MissingDated, AcceptedDated
      <3> QED
        BY <2>2, <3>1, <3>3, <3>4, SpacingKept, VerificationMoves
    <2> QED
      BY <2>3, <2>4
  <1>3. ASSUME NEW r \in Verifications, ServerAnswers(r)
        PROVE  TokenKeysInv'
    <2> DEFINE q == verification[r]
               v == [q EXCEPT !.got = keySet]
    <2>1. q \in VerificationType /\ Dated(q) /\ q.at = "fetching" /\ q.since <= second /\ q.since \in Nat
      BY <1>0, <1>3 DEF ServerAnswers, Dated, AnswerDated, VerificationType
    <2>2. Become(r, v)
      BY <1>3 DEF ServerAnswers
    <2>3. v \in VerificationType /\ v.at = "fetching" /\ v.kid = q.kid /\ v.asked = q.asked
          /\ v.got = keySet /\ v.since = q.since
      BY <1>0, <2>1 DEF VerificationType
    <2>4. \A k \in keySet : lastSeen[k] = second
      BY <1>0 DEF TokenKeysInv, PublishedDated
    <2> HIDE DEF v
    <2>5. Dated(v)
      BY <1>0, <2>1, <2>3, <2>4 DEF Dated, AnswerDated, MissingDated, AcceptedDated
    <2> QED
      BY <1>3, <2>2, <2>3, <2>5, SpacingKept, VerificationMoves DEF ServerAnswers
  <1>4. ASSUME NEW r \in Verifications, FetchFails(r)
        PROVE  TokenKeysInv'
    <2> DEFINE q == verification[r]
               v == [Unasked EXCEPT !.at = "refused", !.kid = q.kid]
    <2>1. q.kid \in Keys
      BY <1>0, <1>4 DEF FetchFails, Dated, MissingDated
    <2>2. Become(r, v)
      BY <1>4 DEF FetchFails, Refuse
    <2>3. v \in VerificationType /\ Dated(v)
      BY <2>1, RefusedRecently
    <2> QED
      BY <1>4, <2>2, <2>3, SpacingKept, VerificationMoves DEF FetchFails
  <1>5. ASSUME NEW r \in Verifications, UnknownKey(r)
        PROVE  TokenKeysInv'
    <2> DEFINE q == verification[r]
               v == [q EXCEPT !.at = "queued", !.unknown = TRUE]
    <2>1. q \in VerificationType /\ Dated(q) /\ q.at = "again"
      BY <1>0, <1>5 DEF UnknownKey
    <2>2. Become(r, v)
      BY <1>5 DEF UnknownKey
    <2>3. v \in VerificationType /\ v.at = "queued" /\ v.kid = q.kid /\ v.asked = q.asked
          /\ v.got = q.got
      BY <2>1 DEF VerificationType
    <2> HIDE DEF v
    <2>4. Dated(v)
      BY <2>1, <2>3 DEF Dated, AnswerDated, MissingDated, AcceptedDated
    <2> QED
      BY <1>5, <2>2, <2>3, <2>4, SpacingKept, VerificationMoves DEF UnknownKey
  <1>6. CASE UNCHANGED keysVars
    BY <1>6 DEF keysVars, TokenKeysInv, TokenKeysTypeOK, PublishedDated, CacheDated, Dated,
                AnswerDated, MissingDated, AcceptedDated, UnknownSpaced, FetchesSpaced
  <1> QED
    BY <1>1, <1>2, <1>3, <1>4, <1>5, <1>6, TicksKeepKeys, RefreshKeepsKeys, StoreKeepsKeys
       DEF TokenKeysNext

\* No token is accepted on a key withdrawn longer than the cache may live before
\* the token came, and unknown keys cause one fetch per cool-down (_signing_key),
\* for any number of requests, keys and rotations.
THEOREM KeysStayCurrent == TokenKeysSpec => []KeysCurrent
  <1>1. TokenKeysInit => TokenKeysInv
    <2> SUFFICES ASSUME TokenKeysInit PROVE TokenKeysInv
      OBVIOUS
    <2>1. Unasked \in VerificationType /\ Unasked.at = "idle" /\ Unasked.got = {} /\ Unasked.asked = 0
      BY DEF Unasked, VerificationType
    <2>2. TokenKeysTypeOK /\ PublishedDated /\ CacheDated
      BY <2>1, TokenKeysNumbers DEF TokenKeysInit, TokenKeysTypeOK, PublishedDated, CacheDated
    <2>3. ASSUME NEW r \in Verifications PROVE Dated(verification[r])
      BY <2>1 DEF TokenKeysInit, Dated, AnswerDated, MissingDated, AcceptedDated
    <2>4. UnknownSpaced
      BY DEF TokenKeysInit, UnknownSpaced, FetchesSpaced
    <2> QED
      BY <2>2, <2>3, <2>4 DEF TokenKeysInv
  <1>2. TokenKeysInv => KeysCurrent
    BY DEF TokenKeysInv, Dated, AcceptedDated, UnknownSpaced, KeysCurrent, WithdrawnKeyDies
  <1> QED
    BY <1>1, <1>2, TokenKeysStep, PTL DEF TokenKeysSpec

------------------------------------------------------------------------------
(* The authority of a call. *)

ArtifactType ==
    [env : Environments, schema : Schemas, company : Companies, evaluated : Nat, passed : BOOLEAN]

RowType ==
    [env : Environments \cup {"none"}, schema : Schemas \cup {"none"},
     state : {"none", "discovered_unreviewed", "schema_validated", "nonproduction_qualified",
              "enabled", "disabled", "superseded"},
     artifact : ArtifactType \cup {NoArtifact}, reference : ArtifactType \cup {NoArtifact},
     canary : BOOLEAN]

ViewType == [rows : SUBSET RowType, now : Nat]

CallType ==
    [pc : {"idle", "begun", "bind", "resumed", "verify", "verified"},
     env : Environments \cup {"none"}, company : Companies \cup {Pending, "none"}, view : ViewType,
     binding : ArtifactType \cup {NoArtifact}, verified : RowType,
     files : SUBSET ArtifactType]

GateTypeOK ==
    /\ rows \in [Rows -> RowType]
    /\ artifacts \subseteq ArtifactType
    /\ clock \in Nat
    /\ call \in [Operations -> CallType]

Evidenced == {"nonproduction_qualified", "enabled", "disabled", "superseded"}

\* A row past its review rests on an artifact on disk that is about it, passed,
\* and was evaluated in the past.
Grounded(row, now) ==
    /\ row.state \in Evidenced =>
          /\ row.artifact \in artifacts /\ row.artifact.passed /\ row.artifact.evaluated <= now
          /\ row.artifact.env = row.env /\ row.artifact.schema = row.schema
    /\ row.state \notin Evidenced => row.artifact = NoArtifact
    /\ row.state # "none" => row.env \in Environments /\ row.schema \in Schemas

CatalogGrounded == \A q \in Rows : Grounded(rows[q], clock)

\* A snapshot shows rows that were grounded at its moment.
ViewGrounded(seen) == IsFiniteSet(seen.rows) /\ \A row \in seen.rows : Grounded(row, seen.now)

GateInv ==
    /\ GateTypeOK /\ CatalogGrounded
    /\ \A o \in Operations : ViewGrounded(call[o].view)
    /\ VerifiedAsBound

(* The empty records have their types. *)
LEMMA GateShapes ==
    /\ NoArtifact \notin ArtifactType
    /\ NoRow \in RowType /\ NoRow.state = "none" /\ NoRow.artifact = NoArtifact
    /\ NoView \in ViewType /\ NoView.rows = {}
    /\ NoCall \in CallType /\ NoCall.pc = "idle" /\ NoCall.view = NoView
  <1>1. NoArtifact \notin ArtifactType
    <2>1. NoArtifact.env = "none"
      BY DEF NoArtifact
    <2>2. \A a \in ArtifactType : a.env # "none"
      BY DEF ArtifactType, Environments
    <2> QED
      BY <2>1, <2>2
  <1>2. NewRow("none", "none") \in RowType /\ NewRow("none", "none").artifact = NoArtifact
    BY DEF NewRow, RowType
  <1>3. NoRow \in RowType /\ NoRow.state = "none" /\ NoRow.artifact = NoArtifact
    BY <1>2 DEF RowType, NoRow
  <1>4. NoView \in ViewType /\ NoView.rows = {}
    BY DEF NoView, ViewType
  <1>5. NoCall \in CallType /\ NoCall.pc = "idle" /\ NoCall.view = NoView
    BY <1>3, <1>4 DEF NoCall, CallType
  <1> QED
    BY <1>1, <1>3, <1>4, <1>5

(* Of finitely many rows, exactly one satisfies a condition. *)
LEMMA OnlyOne ==
    ASSUME NEW S, IsFiniteSet(S), NEW T \in SUBSET S, Cardinality(T) = 1
    PROVE  \E x \in T : \A y \in T : y = x
  <1>1. IsFiniteSet(T)
    BY FS_Subset
  <1>2. \E x : T = {x}
    BY <1>1, FS_Singleton
  <1> QED
    BY <1>2

(* A catalog of finitely many rows has finitely many contents. *)
LEMMA CatalogFinite ==
    ASSUME rows \in [Rows -> RowType]
    PROVE  IsFiniteSet(Catalog)
  <1>1. PICK n \in Nat : ExistsSurjection(1 .. n, Rows)
    BY FS_NatSurjection, GateAssumption
  <1>2. PICK f \in Surjection(1 .. n, Rows) : TRUE
    BY <1>1 DEF ExistsSurjection
  <1> DEFINE g == [i \in 1 .. n |-> rows[f[i]]]
  <1>3. f \in [1 .. n -> Rows] /\ \A q \in Rows : \E i \in 1 .. n : f[i] = q
    BY DEF Surjection
  <1>4. g \in [1 .. n -> Catalog]
    BY <1>3 DEF Catalog
  <1>5. ASSUME NEW row \in Catalog PROVE \E i \in 1 .. n : g[i] = row
    <2>1. PICK q \in Rows : row = rows[q]
      BY DEF Catalog
    <2> QED
      BY <1>3, <2>1
  <1> HIDE DEF g
  <1>6. g \in Surjection(1 .. n, Catalog)
    BY <1>4, <1>5 DEF Surjection
  <1> QED
    BY <1>6, FS_NatSurjection DEF ExistsSurjection

(* What resolution finds is current, of the environment that was asked for, and *)
(* alone.                                                                       *)
LEMMA AuthorityCurrent ==
    ASSUME NEW seen \in ViewType, ViewGrounded(seen), NEW env, NEW company, NEW files,
           NEW row \in Authority(seen, env, company, files)
    PROVE  /\ row \in seen.rows /\ row.env = env
           /\ IsCurrentEnabled(seen.rows, row, row.artifact.company, files, seen.now)
           /\ company # Pending =>
                 /\ row.artifact.company = company
                 /\ \A other \in seen.rows :
                       other.env = env /\ IsCurrentEnabled(seen.rows, other, company, files, seen.now)
                       => other = row
  <1>1. IsFiniteSet(seen.rows)
    BY DEF ViewGrounded
  <1>2. CASE company = Pending
    <2>1. row \in ResolvedBootstrap(seen, env, files)
      BY <1>2 DEF Authority
    <2> QED
      BY <1>2, <2>1 DEF ResolvedBootstrap
  <1>3. CASE company # Pending
    <2> DEFINE valid == {r \in seen.rows : r.env = env /\ IsCurrentEnabled(seen.rows, r, company, files, seen.now)}
    <2>1. row \in Resolved(seen, env, company, files)
      BY <1>3 DEF Authority
    <2>2. row \in valid /\ Cardinality(valid) = 1
      BY <2>1 DEF Resolved, OneEquivalent
    <2>3. \A other \in valid : other = row
      <3>1. valid \in SUBSET seen.rows
        OBVIOUS
      <3> HIDE DEF valid
      <3> QED
        BY <1>1, <2>2, <3>1, OnlyOne
    <2>4. row \in seen.rows /\ row.env = env /\ IsCurrentEnabled(seen.rows, row, company, files, seen.now)
      BY <2>2
    <2>5. row.artifact.company = company
      BY <2>4 DEF IsCurrentEnabled
    <2> QED
      BY <1>3, <2>3, <2>4, <2>5
  <1> QED
    BY <1>2, <1>3

(* Evidence from another environment, on a row that was not retired. *)
LEMMA ReferenceCurrent ==
    ASSUME NEW seen \in ViewType, ViewGrounded(seen), NEW row, NEW files,
           HasReference(seen.rows, row, files, seen.now)
    PROVE  \E other \in seen.rows :
              /\ other.env # "production" /\ other.schema = row.schema
              /\ other.state \notin {"disabled", "superseded"}
              /\ other.artifact \in files
              /\ other.artifact.passed /\ seen.now < Expires(other.artifact)
  <1> DEFINE T == {r \in NonproductionRows(seen.rows, row, files, seen.now) : r.artifact = row.reference}
  <1>1. T \in SUBSET seen.rows /\ IsFiniteSet(seen.rows) /\ Cardinality(T) = 1
    BY DEF NonproductionRows, HasReference, ViewGrounded
  <1>2. \E other \in T : TRUE
    <2> HIDE DEF T
    <2> QED
      BY <1>1, OnlyOne
  <1>3. PICK other \in seen.rows :
           /\ other.state \in {"nonproduction_qualified", "enabled"}
           /\ SameCapability(row, other)
           /\ HasCurrentEvidence(other, files, seen.now)
    BY <1>2 DEF NonproductionRows
  <1> QED
    BY <1>3 DEF SameCapability, HasCurrentEvidence, ValidFor

(* A step of the reviewers: the rows stay grounded, the calls see nothing of it. *)
LEMMA RowsMove ==
    ASSUME GateInv, rows' \in [Rows -> RowType], \A q \in Rows : Grounded(rows'[q], clock),
           UNCHANGED <<artifacts, clock, call>>
    PROVE  GateInv'
  <1>1. GateTypeOK' /\ CatalogGrounded'
    BY DEF GateInv, GateTypeOK, CatalogGrounded, Grounded
  <1>2. \A o \in Operations : ViewGrounded(call[o].view)'
    BY DEF GateInv, ViewGrounded, Grounded
  <1>3. VerifiedAsBound'
    BY DEF GateInv, VerifiedAsBound, VerifiedOnCurrentEvidence, VerifiedWhatWasBound, WireModels
  <1> QED
    BY <1>1, <1>2, <1>3 DEF GateInv

(* A step of one row. *)
LEMMA RowMoves ==
    ASSUME GateInv, NEW q \in Rows, NEW row \in RowType, Grounded(row, clock), Publish(q, row)
    PROVE  GateInv'
  <1>1. rows' = [rows EXCEPT ![q] = row] /\ UNCHANGED <<artifacts, clock, call>>
    BY DEF Publish
  <1>2. rows' \in [Rows -> RowType] /\ \A p \in Rows : Grounded(rows'[p], clock)
    BY <1>1 DEF GateInv, GateTypeOK, CatalogGrounded
  <1> QED
    BY <1>1, <1>2, RowsMove

(* A step of one operation. *)
LEMMA CallMoves ==
    ASSUME GateInv, NEW o \in Operations, NEW c \in CallType, ViewGrounded(c.view),
           call' = [call EXCEPT ![o] = c], UNCHANGED <<rows, artifacts, clock>>, c.pc # "verified"
    PROVE  GateInv'
  <1>1. GateTypeOK' /\ CatalogGrounded'
    BY DEF GateInv, GateTypeOK, CatalogGrounded, Grounded
  <1>2. ASSUME NEW p \in Operations
        PROVE  /\ ViewGrounded(call[p].view)'
               /\ call'[p].pc = "verified" => call'[p] = call[p]
    BY DEF GateInv, GateTypeOK, ViewGrounded, Grounded
  <1>3. VerifiedOnCurrentEvidence'
    BY <1>2 DEF GateInv, VerifiedAsBound, VerifiedOnCurrentEvidence
  <1>4. ASSUME NEW p \in Operations, call'[p].pc = "verified"
        PROVE  WireModels(p)' = WireModels(p) /\ call'[p] = call[p]
    BY <1>2, <1>4 DEF WireModels
  <1>5. VerifiedWhatWasBound'
    BY <1>4 DEF GateInv, VerifiedAsBound, VerifiedWhatWasBound
  <1> QED
    BY <1>1, <1>2, <1>3, <1>5 DEF GateInv, VerifiedAsBound

(* verify_binding. *)
LEMMA VerifyKeepsGate ==
    ASSUME GateInv, NEW o \in Operations, NEW files \in SUBSET artifacts, VerifyBinding(o, files)
    PROVE  GateInv'
  <1> DEFINE c == call[o]
             seen == c.view
             now == seen.now
             found == {row \in Authority(seen, c.env, c.company, files) : BindingHolds(row, c.binding)}
  <1>1. c \in CallType /\ ViewGrounded(seen) /\ seen \in ViewType /\ c.pc = "verify"
        /\ seen.rows \subseteq RowType /\ now \in Nat
    BY DEF GateInv, GateTypeOK, VerifyBinding, CallType, ViewType
  <1>2. UNCHANGED <<rows, artifacts, clock>>
    BY DEF VerifyBinding
  <1>3. CASE found = {}
    <2>1. call' = [call EXCEPT ![o] = NoCall]
      BY <1>3 DEF VerifyBinding
    <2>2. ViewGrounded(NoCall.view)
      BY GateShapes, FS_EmptySet DEF ViewGrounded
    <2> QED
      BY <1>2, <2>1, <2>2, GateShapes, CallMoves
  <1>4. CASE found # {}
    <2> DEFINE row == CHOOSE r \in found : TRUE
               d == [c EXCEPT !.pc = "verified", !.files = files, !.verified = row]
    <2>1. call' = [call EXCEPT ![o] = d]
      BY <1>4 DEF VerifyBinding
    <2>2. row \in Authority(seen, c.env, c.company, files) /\ row.artifact = c.binding
      BY <1>4 DEF BindingHolds
    <2> HIDE DEF row
    <2>3. /\ row \in seen.rows /\ row.env = c.env
          /\ IsCurrentEnabled(seen.rows, row, row.artifact.company, files, now)
          /\ c.company # Pending =>
                /\ row.artifact.company = c.company
                /\ \A other \in seen.rows :
                      other.env = c.env /\ IsCurrentEnabled(seen.rows, other, c.company, files, now)
                      => other = row
      BY <1>1, <2>2, AuthorityCurrent
    <2>4. d \in CallType /\ d.pc = "verified" /\ d.verified = row /\ d.view = seen /\ d.env = c.env
          /\ d.company = c.company /\ d.binding = c.binding /\ d.files = files
      <3>1. files \in SUBSET ArtifactType
        BY DEF GateInv, GateTypeOK
      <3>2. row \in RowType
        BY <1>1, <2>3
      <3> QED
        BY <1>1, <3>1, <3>2 DEF CallType
    <2> HIDE DEF d
    <2>5. ASSUME NEW other \in seen.rows, other.state = "enabled"
          PROVE  /\ other.artifact \in ArtifactType /\ other.artifact \in artifacts
                 /\ other.artifact # NoArtifact /\ other.artifact.passed
                 /\ other.artifact.evaluated <= now
                 /\ other.artifact.env = other.env /\ other.artifact.schema = other.schema
      BY <1>1, <2>5, GateShapes DEF ViewGrounded, Grounded, Evidenced, GateInv, GateTypeOK
    <2>6. row.state = "enabled" /\ row.artifact \in files /\ row.artifact.passed /\ row.artifact.evaluated <= now
          /\ now < Expires(row.artifact)
      BY <2>3 DEF IsCurrentEnabled, HasCurrentEvidence, ValidFor
    <2>7. row.env = "production" =>
             \E other \in seen.rows :
                 /\ other.env # "production" /\ other.schema = row.schema
                 /\ other.state \notin {"disabled", "superseded"}
                 /\ other.artifact \in files /\ other.artifact.passed /\ now < Expires(other.artifact)
      <3>1. row.env = "production" => HasReference(seen.rows, row, files, seen.now)
        BY <2>3 DEF IsCurrentEnabled
      <3> HIDE DEF seen
      <3> QED
        BY <1>1, <3>1, ReferenceCurrent DEF now
    <2>8. {r.schema : r \in {s \in seen.rows : s.state = "enabled" /\ s.env = c.env /\ s.artifact = c.binding}}
             = {c.binding.schema}
      BY <2>2, <2>3, <2>5, <2>6
    <2>9. ASSUME NEW other \in seen.rows, other.state = "enabled", other.env = "sandbox", c.env = "sandbox",
                 other.artifact \in files, other.artifact.company = c.company, now < Expires(other.artifact)
          PROVE  other.artifact = c.binding
      <3>1. c.company # Pending
        BY <2>5, <2>9, GateAssumption DEF ArtifactType, Pending
      <3>2. IsCurrentEnabled(seen.rows, other, c.company, files, now)
        BY <2>5, <2>9 DEF IsCurrentEnabled, HasCurrentEvidence, ValidFor
      <3> QED
        BY <2>2, <2>3, <2>9, <3>1, <3>2
    <2>10. ASSUME NEW p \in Operations
           PROVE  call'[p] = IF p = o THEN d ELSE call[p]
      BY <2>1 DEF GateInv, GateTypeOK
    <2>11. VerifiedOnCurrentEvidence'
      <3> SUFFICES ASSUME NEW p \in Operations, call'[p].pc = "verified"
                   PROVE  (LET r == call'[p].verified
                               t == call'[p].view.now
                           IN /\ r.artifact \in call'[p].files
                              /\ r.artifact.passed /\ r.artifact.evaluated <= t /\ t < Expires(r.artifact)
                              /\ call'[p].company \in {r.artifact.company, Pending} /\ r.env = call'[p].env
                              /\ r.env = "production" =>
                                    \E other \in call'[p].view.rows :
                                        /\ other.env # "production" /\ other.schema = r.schema
                                        /\ other.state \notin {"disabled", "superseded"}
                                        /\ other.artifact \in call'[p].files /\ other.artifact.passed
                                        /\ t < Expires(other.artifact))
        BY DEF VerifiedOnCurrentEvidence
      <3>1. CASE p = o
        BY <2>3, <2>4, <2>6, <2>7, <2>10, <3>1
      <3>2. CASE p # o
        BY <2>10, <3>2 DEF GateInv, VerifiedAsBound, VerifiedOnCurrentEvidence
      <3> QED
        BY <3>1, <3>2
    <2>12. VerifiedWhatWasBound'
      <3> SUFFICES ASSUME NEW p \in Operations, call'[p].pc = "verified"
                   PROVE  /\ call'[p].verified.artifact = call'[p].binding
                          /\ WireModels(p)' = {call'[p].binding.schema}
                          /\ \A r \in call'[p].view.rows :
                                r.state = "enabled" /\ r.env = "sandbox" /\ call'[p].env = "sandbox"
                                /\ r.artifact \in call'[p].files
                                /\ r.artifact.company = call'[p].company /\ call'[p].view.now < Expires(r.artifact)
                                => r.artifact = call'[p].binding
        BY DEF VerifiedWhatWasBound
      <3>1. CASE p = o
        <4>1. WireModels(p)' = {c.binding.schema}
          BY <2>4, <2>8, <2>10, <3>1 DEF WireModels
        <4> QED
          BY <2>2, <2>4, <2>9, <2>10, <3>1, <4>1
      <3>2. CASE p # o
        BY <2>10, <3>2 DEF GateInv, VerifiedAsBound, VerifiedWhatWasBound, WireModels
      <3> QED
        BY <3>1, <3>2
    <2>13. GateTypeOK' /\ CatalogGrounded'
      BY <1>2, <2>1, <2>4 DEF GateInv, GateTypeOK, CatalogGrounded, Grounded
    <2>14. ASSUME NEW p \in Operations PROVE ViewGrounded(call[p].view)'
      BY <1>1, <1>2, <2>4, <2>10 DEF GateInv, ViewGrounded, Grounded
    <2> QED
      BY <2>11, <2>12, <2>13, <2>14 DEF GateInv, VerifiedAsBound
  <1> QED
    BY <1>3, <1>4

(* open_snapshot shows the grounded rows of this moment. *)
LEMMA SnapshotKeepsGate ==
    ASSUME GateInv, NEW o \in Operations, NEW readable \in BOOLEAN, OpenSnapshot(o, readable)
    PROVE  GateInv'
  <1> DEFINE v == [rows |-> IF readable THEN Catalog \ {NoRow} ELSE {}, now |-> clock]
             at == IF call[o].pc = "begun" THEN "bind" ELSE "verify"
             c == [call[o] EXCEPT !.pc = at, !.view = v]
  <1>1. rows \in [Rows -> RowType] /\ clock \in Nat /\ call \in [Operations -> CallType]
    BY DEF GateInv, GateTypeOK
  <1>2. IsFiniteSet(Catalog) /\ Catalog \subseteq RowType
    BY <1>1, CatalogFinite DEF Catalog
  <1>3. v.rows \subseteq Catalog /\ v.now = clock
    OBVIOUS
  <1>4. ViewGrounded(v)
    <2>1. IsFiniteSet(v.rows)
      BY <1>2, <1>3, FS_Subset
    <2>2. ASSUME NEW row \in v.rows PROVE Grounded(row, clock)
      BY <1>3 DEF GateInv, CatalogGrounded, Catalog
    <2> QED
      BY <1>3, <2>1, <2>2 DEF ViewGrounded
  <1>5. v \in ViewType
    BY <1>1, <1>2 DEF ViewType
  <1>6. call' = [call EXCEPT ![o] = c] /\ UNCHANGED <<rows, artifacts, clock>>
    BY <1>1 DEF OpenSnapshot
  <1> HIDE DEF v
  <1>7. c \in CallType /\ c.pc \in {"bind", "verify"} /\ c.view = v
    BY <1>1, <1>5 DEF CallType
  <1> HIDE DEF c
  <1> QED
    BY <1>4, <1>6, <1>7, CallMoves

(* A binding keeps nothing of the snapshot it was made in. *)
LEMMA BindKeepsGate ==
    ASSUME GateInv, NEW o \in Operations, NEW found \in SUBSET RowType, RowsBoundTo(o, found)
    PROVE  GateInv'
  <1>1. call \in [Operations -> CallType] /\ UNCHANGED <<rows, artifacts, clock>>
    BY DEF GateInv, GateTypeOK, RowsBoundTo
  <1>2. ViewGrounded(NoView)
    BY GateShapes, FS_EmptySet DEF ViewGrounded
  <1>3. CASE found = {}
    BY <1>1, <1>2, <1>3, GateShapes, CallMoves DEF RowsBoundTo
  <1>4. CASE found # {}
    <2> DEFINE row == CHOOSE r \in found : TRUE
               c == [call[o] EXCEPT !.pc = "resumed", !.view = NoView, !.binding = row.artifact]
    <2>1. row \in RowType
      BY <1>4
    <2>2. call' = [call EXCEPT ![o] = c]
      BY <1>4 DEF RowsBoundTo
    <2> HIDE DEF row
    <2>3. row.artifact \in ArtifactType \cup {NoArtifact}
      BY <2>1 DEF RowType
    <2>4. c \in CallType /\ c.pc = "resumed" /\ c.view = NoView
      BY <1>1, <2>3, GateShapes DEF CallType
    <2> HIDE DEF c
    <2> QED
      BY <1>1, <1>2, <2>2, <2>4, CallMoves
  <1> QED
    BY <1>3, <1>4

(* Every step of the reviewers and the operations keeps the inductive invariant. *)
LEMMA GateStep == GateInv /\ [GateNext]_gateVars => GateInv'
  <1> SUFFICES ASSUME GateInv, [GateNext]_gateVars
               PROVE  GateInv'
    OBVIOUS
  <1>0. /\ rows \in [Rows -> RowType] /\ artifacts \subseteq ArtifactType /\ clock \in Nat
        /\ call \in [Operations -> CallType] /\ \A q \in Rows : Grounded(rows[q], clock)
        /\ \A o \in Operations : ViewGrounded(call[o].view) /\ call[o].view \in ViewType
    BY DEF GateInv, GateTypeOK, CatalogGrounded, CallType
  <1>1. ASSUME NEW q \in Rows, NEW env \in Environments, NEW schema \in Schemas, Discover(q, env, schema)
        PROVE  GateInv'
    <2>1. NewRow(env, schema) \in RowType /\ NewRow(env, schema).state = "discovered_unreviewed"
          /\ NewRow(env, schema).artifact = NoArtifact
          /\ NewRow(env, schema).env = env /\ NewRow(env, schema).schema = schema
      BY DEF NewRow, RowType
    <2>2. Grounded(NewRow(env, schema), clock)
      BY <2>1 DEF Grounded, Evidenced
    <2> QED
      BY <1>1, <2>1, <2>2, RowMoves DEF Discover
  <1>2. ASSUME NEW q \in Rows, ValidateSchema(q)
        PROVE  GateInv'
    <2> DEFINE row == [rows[q] EXCEPT !.state = "schema_validated"]
    <2>1. row \in RowType /\ row.state = "schema_validated" /\ row.artifact = rows[q].artifact
          /\ row.env = rows[q].env /\ row.schema = rows[q].schema
      BY <1>0 DEF RowType
    <2>2. rows[q].state = "discovered_unreviewed" /\ Publish(q, row)
      BY <1>2 DEF ValidateSchema
    <2> HIDE DEF row
    <2>3. Grounded(row, clock)
      BY <1>0, <2>1, <2>2 DEF Grounded, Evidenced
    <2> QED
      BY <2>1, <2>2, <2>3, RowMoves
  <1>3. ASSUME NEW q \in Rows, NEW artifact \in artifacts, NEW files \in SUBSET artifacts,
               QualifyNonproduction(q, artifact, files)
        PROVE  GateInv'
    <2> DEFINE row == [rows[q] EXCEPT !.state = "nonproduction_qualified", !.artifact = artifact]
    <2>1. artifact \in ArtifactType
      BY <1>0
    <2>2. row \in RowType /\ row.state = "nonproduction_qualified" /\ row.artifact = artifact
          /\ row.env = rows[q].env /\ row.schema = rows[q].schema
      BY <1>0, <2>1 DEF RowType
    <2>3. ValidFor(artifact, rows[q], clock) /\ row.env \in Environments /\ row.schema \in Schemas
      BY <1>0, <1>3, <2>2 DEF QualifyNonproduction, Grounded
    <2>4. \/ Publish(q, row)
          \/ \E other \in NonproductionRows(Catalog, rows[q], files, clock) :
                Publish(q, [row EXCEPT !.reference = other.artifact])
      BY <1>3 DEF QualifyNonproduction
    <2> HIDE DEF row
    <2>5. CASE Publish(q, row)
      <3>1. Grounded(row, clock)
        BY <2>2, <2>3 DEF Grounded, Evidenced, ValidFor
      <3> QED
        BY <2>2, <2>5, <3>1, RowMoves
    <2>6. ASSUME NEW other \in NonproductionRows(Catalog, rows[q], files, clock),
                 Publish(q, [row EXCEPT !.reference = other.artifact])
          PROVE  GateInv'
      <3> DEFINE r == [row EXCEPT !.reference = other.artifact]
      <3>1. other.artifact \in ArtifactType \cup {NoArtifact}
        BY <1>0 DEF NonproductionRows, Catalog, RowType
      <3>2. r \in RowType /\ r.state = row.state /\ r.artifact = row.artifact /\ r.env = row.env
            /\ r.schema = row.schema
        BY <2>2, <3>1 DEF RowType
      <3> HIDE DEF r
      <3>3. Grounded(r, clock)
        BY <2>2, <2>3, <3>2 DEF Grounded, Evidenced, ValidFor
      <3>4. Publish(q, r)
        BY <2>6 DEF r
      <3> QED
        BY <3>2, <3>3, <3>4, RowMoves
    <2> QED
      BY <2>4, <2>5, <2>6
  <1>4. ASSUME NEW q \in Rows, NEW canary \in BOOLEAN, NEW files \in SUBSET artifacts,
               EnableRow(q, canary, files)
        PROVE  GateInv'
    <2> DEFINE row == [rows[q] EXCEPT !.state = "enabled", !.canary = canary]
    <2>1. row \in RowType /\ row.state = "enabled" /\ row.artifact = rows[q].artifact
          /\ row.env = rows[q].env /\ row.schema = rows[q].schema
      BY <1>0 DEF RowType
    <2>2. rows[q].state = "nonproduction_qualified" /\ Publish(q, row)
      BY <1>4 DEF EnableRow
    <2> HIDE DEF row
    <2>3. Grounded(row, clock)
      BY <1>0, <2>1, <2>2 DEF Grounded, Evidenced
    <2> QED
      BY <2>1, <2>2, <2>3, RowMoves
  <1>5. ASSUME NEW q \in Rows, NEW state \in {"disabled", "superseded"}, Retire(q, state)
        PROVE  GateInv'
    <2> DEFINE row == [rows[q] EXCEPT !.state = state]
    <2>1. row \in RowType /\ row.state = state /\ row.artifact = rows[q].artifact
          /\ row.env = rows[q].env /\ row.schema = rows[q].schema
      BY <1>0 DEF RowType
    <2>2. rows[q].state = "enabled" /\ Publish(q, row)
      BY <1>5 DEF Retire
    <2> HIDE DEF row
    <2>3. Grounded(row, clock)
      BY <1>0, <2>1, <2>2 DEF Grounded, Evidenced
    <2> QED
      BY <2>1, <2>2, <2>3, RowMoves
  <1>6. ASSUME NEW q \in Rows, DisableVersion(q)
        PROVE  GateInv'
    <2> DEFINE version == {p \in Rows : rows[p].env = rows[q].env /\ rows[p].schema = rows[q].schema}
    <2>1. /\ rows' = [p \in Rows |-> IF p \in version THEN [rows[p] EXCEPT !.state = "disabled"] ELSE rows[p]]
          /\ \A p \in version : rows[p].state \in {"enabled", "disabled"}
          /\ UNCHANGED <<artifacts, clock, call>>
      BY <1>6 DEF DisableVersion
    <2> HIDE DEF version
    <2>2. ASSUME NEW p \in Rows PROVE rows'[p] \in RowType /\ Grounded(rows'[p], clock)
      <3>1. CASE p \notin version
        BY <1>0, <2>1, <3>1
      <3>2. CASE p \in version
        <4> DEFINE row == [rows[p] EXCEPT !.state = "disabled"]
        <4>1. row \in RowType /\ row.state = "disabled" /\ row.artifact = rows[p].artifact
              /\ row.env = rows[p].env /\ row.schema = rows[p].schema
          BY <1>0 DEF RowType
        <4>2. rows'[p] = row /\ rows[p].state \in {"enabled", "disabled"}
          BY <2>1, <3>2
        <4> HIDE DEF row
        <4>3. Grounded(row, clock)
          BY <1>0, <4>1, <4>2 DEF Grounded, Evidenced
        <4> QED
          BY <4>1, <4>2, <4>3
      <3> QED
        BY <3>1, <3>2
    <2>3. rows' \in [Rows -> RowType]
      BY <2>1, <2>2
    <2> QED
      BY <2>1, <2>2, <2>3, RowsMove
  <1>7. ASSUME \/ \E q \in Rows, company \in Companies, passed \in BOOLEAN : WriteArtifact(q, company, passed)
               \/ Tick
        PROVE  GateInv'
    <2>1. /\ artifacts \subseteq artifacts' /\ artifacts' \subseteq ArtifactType /\ clock' \in Nat
          /\ clock <= clock' /\ UNCHANGED <<rows, call>>
      <3>1. CASE Tick
        BY <1>0, <3>1 DEF Tick
      <3>2. ASSUME NEW q \in Rows, NEW company \in Companies, NEW passed \in BOOLEAN,
                   WriteArtifact(q, company, passed)
            PROVE  /\ artifacts \subseteq artifacts' /\ artifacts' \subseteq ArtifactType /\ clock' \in Nat
                   /\ clock <= clock' /\ UNCHANGED <<rows, call>>
        <4>1. rows[q].env \in Environments /\ rows[q].schema \in Schemas
          BY <1>0, <3>2 DEF WriteArtifact, Grounded
        <4> QED
          BY <1>0, <3>2, <4>1 DEF WriteArtifact, ArtifactType
      <3> QED
        BY <1>7, <3>1, <3>2
    <2>2. GateTypeOK'
      BY <1>0, <2>1 DEF GateTypeOK
    <2>3. CatalogGrounded'
      <3> SUFFICES ASSUME NEW q \in Rows PROVE Grounded(rows[q], clock)'
        BY DEF CatalogGrounded
      <3>1. ASSUME NEW row \in RowType, row = rows[q] PROVE Grounded(row, clock)'
        BY <1>0, <2>1, <3>1 DEF Grounded, ArtifactType
      <3> QED
        BY <1>0, <2>1, <3>1
    <2>4. ASSUME NEW o \in Operations PROVE ViewGrounded(call[o].view)'
      <3>1. call'[o].view = call[o].view
        BY <2>1
      <3> QED
        BY <1>0, <2>1, <3>1 DEF ViewGrounded, Grounded
    <2>5. VerifiedAsBound'
      BY <2>1 DEF GateInv, VerifiedAsBound, VerifiedOnCurrentEvidence, VerifiedWhatWasBound, WireModels
    <2> QED
      BY <2>2, <2>3, <2>4, <2>5 DEF GateInv
  <1>8. ASSUME NEW o \in Operations, NEW env \in Environments, NEW company \in Companies \cup {Pending},
               BeginCall(o, env, company)
        PROVE  GateInv'
    <2> DEFINE c == [NoCall EXCEPT !.pc = "begun", !.env = env, !.company = company]
    <2>1. c \in CallType /\ c.pc = "begun" /\ c.view = NoView
      BY GateShapes DEF CallType
    <2>2. call' = [call EXCEPT ![o] = c] /\ UNCHANGED <<rows, artifacts, clock>>
      BY <1>8 DEF BeginCall
    <2>3. ViewGrounded(NoView)
      BY GateShapes, FS_EmptySet DEF ViewGrounded
    <2> HIDE DEF c
    <2> QED
      BY <2>1, <2>2, <2>3, CallMoves
  <1>9. ASSUME NEW o \in Operations, NEW files \in SUBSET artifacts, Bind(o, files)
        PROVE  GateInv'
    <2>1. Authority(call[o].view, call[o].env, call[o].company, files) \in SUBSET RowType
      BY <1>0 DEF Authority, Resolved, ResolvedBootstrap, ViewType
    <2> QED
      BY <1>9, <2>1, BindKeepsGate DEF Bind
  <1>10. ASSUME NEW o \in Operations, NEW schema \in Schemas, NEW files \in SUBSET artifacts,
                BindExact(o, schema, files)
         PROVE  GateInv'
    <2>1. ResolvedExact(call[o].view, call[o].env, schema, call[o].company, files) \in SUBSET RowType
      BY <1>0 DEF ResolvedExact, ViewType
    <2> QED
      BY <1>10, <2>1, BindKeepsGate DEF BindExact
  <1>11. ASSUME NEW o \in Operations, CallDone(o)
         PROVE  GateInv'
    <2>1. ViewGrounded(NoView)
      BY GateShapes, FS_EmptySet DEF ViewGrounded
    <2> QED
      BY <1>11, <2>1, GateShapes, CallMoves DEF CallDone
  <1>12. CASE UNCHANGED gateVars
    BY <1>0, <1>12, RowsMove DEF gateVars
  <1> QED
    BY <1>1, <1>2, <1>3, <1>4, <1>5, <1>6, <1>7, <1>8, <1>9, <1>10, <1>11, <1>12,
       SnapshotKeepsGate, VerifyKeepsGate DEF GateNext

\* verify_binding lets a call go on only with the evidence it was bound to, still
\* current in its snapshot, for any catalog and any number of operations.
THEOREM CallsStayAsBound == GateSpec => []VerifiedAsBound
  <1>1. GateInit => GateInv
    <2> SUFFICES ASSUME GateInit PROVE GateInv
      OBVIOUS
    <2>1. GateTypeOK
      BY GateShapes DEF GateInit, GateTypeOK
    <2>2. CatalogGrounded
      BY GateShapes DEF GateInit, CatalogGrounded, Grounded, Evidenced
    <2>3. ASSUME NEW o \in Operations
          PROVE  ViewGrounded(call[o].view) /\ call[o].pc # "verified"
      BY GateShapes, FS_EmptySet DEF GateInit, ViewGrounded
    <2> QED
      BY <2>1, <2>2, <2>3 DEF GateInv, VerifiedAsBound, VerifiedOnCurrentEvidence, VerifiedWhatWasBound
  <1>2. GateInv => VerifiedAsBound
    BY DEF GateInv
  <1> QED
    BY <1>1, <1>2, GateStep, PTL DEF GateSpec

-----------------------------------------------------------------------------
(* The fixed tools and the skill runs. *)

\* The fixed tools.
FixedTools == {"start", "list", "status", "listing", "schema", "search", "pack", "skill", "disconnect"}

\* The steps of a skill run before its first read.
Preparing == {"workspace", "projection", "runtime", "load", "catalog", "resolve", "search", "bind"}
Ended == {"audit", "close", "done"}
SkillSteps == Preparing \cup {"read", "drift", "output"} \cup Ended
PlainSteps == {"workspace", "projection", "runtime", "load", "catalog", "resolve", "search",
               "begin", "connections", "scan", "end", "audit"}

\* What a call resolves and reads: connections and catalog rows.
Items == Links \cup Entries
Named == Items \cup UNION {s.required : s \in SkillSet}
Outcomes == [row : Named, status : {"ok", "cancelled", "error", "missing", "data", "refused",
                                    "drift", "unknown"}]
Events == [status : {"ok", "cancelled", "error"}, outcomes : Seq(Outcomes)]

\* The codes a call ends with, ok aside.
Codes == {"workspace_access_denied", "provider_connection_required", "insufficient_evidence",
          "capability_unavailable", "temporarily_unavailable", "provider_unavailable",
          "provider_schema_changed", "skill_output_invalid", "cancelled"}

\* The state of one call.
CallRecords ==
    [name : FixedTools \cup {"none"}, at : SkillSteps \cup PlainSteps \cup {"idle"},
     link : Items \cup {"none"}, skill : SkillSet \cup {"none"},
     runtime : BOOLEAN, ready : BOOLEAN, queue : SUBSET Items,
     enabled : SUBSET Items, lacking : BOOLEAN, found : BOOLEAN, reads : Seq(Items),
     outcomes : Seq(Outcomes), results : Seq(Items), answer : Codes \cup {"ok", "none"}]

\* What an audit event lists agrees with what the provider received.
Tells(listed, received) ==
    /\ Len(received) <= Len(listed)
    /\ \A j \in DOMAIN received : Says(listed[j], received[j])
    /\ \A j \in DOMAIN listed : listed[j].status = "ok" => j \in DOMAIN received

\* A run between its reads: every read so far brought data, and those done and those to
\* come are the ones its skill maps.
Reading(run, received) ==
    /\ Len(received) = Len(run.results) /\ Len(run.outcomes) = Len(run.results)
    /\ \A i \in 1 .. Len(run.results) : /\ received[i] = Outcome(run.results[i], "data")
                                         /\ run.outcomes[i] = Outcome(run.results[i], "ok")
    /\ Len(run.results) + Len(run.reads) = Len(run.skill.reads)
    /\ \A i \in 1 .. Len(run.results) :
          EnabledFor(run, run.skill.reads[i]) = {run.results[i]}
    /\ \A i \in 1 .. Len(run.reads) :
          EnabledFor(run, run.skill.reads[Len(run.results) + i]) = {run.reads[i]}
    /\ run.skill.cites => run.found

\* A run whose every mapped read brought data, from the one row enabled for it.
Complete(run, received) ==
    /\ Len(run.results) = Len(run.skill.reads)
    /\ \A i \in DOMAIN run.results : /\ EnabledFor(run, run.skill.reads[i]) = {run.results[i]}
                                      /\ received[i] = Outcome(run.results[i], "data")
    /\ run.skill.cites => run.found

\* A tool that stands at an await at some time.
Awaits(name, step) == \E i \in DOMAIN Steps[name] : Steps[name][i] = step

\* What holds of one call between two steps: what it has read, what it lists and what
\* its audits told agree with what the provider received.
CallSound(run, received, events) ==
    /\ run.at = "idle" <=> run.name = "none"
    /\ run.name = "skill" => run.at \in SkillSteps /\ run.skill \in SkillSet
    /\ run.name \notin {"skill", "none"} => run.at \in {"close", "done"} \/ Awaits(run.name, run.at)
    /\ run.at \notin Ended => events = <<>>
    /\ run.name # "skill" \/ run.at \in Preparing =>
          received = <<>> /\ run.outcomes = <<>> /\ run.results = <<>>
    /\ run.at \in {"read", "output"} => Reading(run, received)
    /\ run.at = "output" => run.reads = <<>>
    /\ run.at \in {"drift", "audit"} => Tells(run.outcomes, received)
    /\ \A i \in DOMAIN events : Tells(events[i].outcomes, received)
    /\ run.name = "skill" /\ run.answer = "ok" => run.at \in Ended /\ Complete(run, received)

\* What every reachable state keeps about the calls in flight.
RunsInv ==
    /\ tool \in [Calls -> CallRecords]
    /\ sent \in [Calls -> Seq(Outcomes)]
    /\ written \in [Calls -> Seq(Events)]
    /\ \A c \in Calls : CallSound(tool[c], sent[c], written[c])

-----------------------------------------------------------------------------
\* The awaits of every tool but a skill run are among the plain ones.
LEMMA StepsListed ==
    ASSUME NEW n \in FixedTools \ {"skill"}
    PROVE  Steps[n] \in Seq(PlainSteps)
  <1>1. CASE n = "start"
    BY <1>1 DEF Steps, PlainSteps
  <1>2. CASE n = "list"
    BY <1>2 DEF Steps, PlainSteps
  <1>3. CASE n = "status"
    BY <1>3 DEF Steps, PlainSteps
  <1>4. CASE n = "listing"
    BY <1>4 DEF Steps, PlainSteps
  <1>5. CASE n = "schema"
    BY <1>5 DEF Steps, PlainSteps
  <1>6. CASE n = "search"
    BY <1>6 DEF Steps, PlainSteps
  <1>7. CASE n = "pack"
    BY <1>7 DEF Steps, PlainSteps
  <1>8. CASE n = "disconnect"
    BY <1>8 DEF Steps, PlainSteps
  <1>9. QED
    BY <1>1, <1>2, <1>3, <1>4, <1>5, <1>6, <1>7, <1>8 DEF FixedTools

\* The await after one of a tool without a skill is another of its awaits, or the end.
LEMMA AfterPlain ==
    ASSUME NEW run, run.name \in FixedTools \ {"skill"}, Awaits(run.name, run.at)
    PROVE  /\ After(run) = "close" \/ Awaits(run.name, After(run))
           /\ run.at \in PlainSteps
           /\ After(run) \in PlainSteps \cup {"close"}
  <1> DEFINE steps == Steps[run.name]
             here == CHOOSE i \in DOMAIN steps : steps[i] = run.at
  <1>1. steps \in Seq(PlainSteps)
    BY StepsListed
  <1>2. here \in DOMAIN steps /\ steps[here] = run.at
    BY DEF Awaits
  <1>3. After(run) = IF here < Len(steps) THEN steps[here + 1] ELSE "close"
    BY DEF After
  <1> HIDE DEF here
  <1>4. run.at \in PlainSteps
    BY <1>1, <1>2
  <1>5. CASE here < Len(steps)
    <2>1. here + 1 \in DOMAIN steps /\ After(run) = steps[here + 1]
      BY <1>1, <1>2, <1>3, <1>5
    <2>2. QED
      BY <1>1, <1>4, <2>1 DEF Awaits
  <1>6. QED
    BY <1>3, <1>4, <1>5

SkillAwaits == <<"workspace", "projection", "runtime", "load", "catalog", "resolve",
                 "search", "bind", "read", "output", "audit">>

\* The awaits of a skill run, by their place.
LEMMA SkillAwaitsListed ==
    /\ SkillAwaits[1] = "workspace" /\ SkillAwaits[2] = "projection" /\ SkillAwaits[3] = "runtime"
    /\ SkillAwaits[4] = "load" /\ SkillAwaits[5] = "catalog" /\ SkillAwaits[6] = "resolve"
    /\ SkillAwaits[7] = "search" /\ SkillAwaits[8] = "bind" /\ SkillAwaits[9] = "read"
    /\ SkillAwaits[10] = "output" /\ SkillAwaits[11] = "audit"
    /\ DOMAIN SkillAwaits = 1 .. 11 /\ Len(SkillAwaits) = 11
    /\ Steps.skill = SkillAwaits
  BY DEF SkillAwaits, Steps

\* The await at a place of a skill run is followed by the one at the next place.
LEMMA AfterSkill ==
    ASSUME NEW run, run.name = "skill", NEW k \in 1 .. 10, run.at = SkillAwaits[k]
    PROVE  After(run) = SkillAwaits[k + 1]
  <1>1. Steps[run.name] = SkillAwaits
    BY SkillAwaitsListed
  <1>2. DOMAIN SkillAwaits = 1 .. 11 /\ Len(SkillAwaits) = 11
    BY SkillAwaitsListed
  <1>3. \A i \in 1 .. 11 : SkillAwaits[i] = SkillAwaits[k] => i = k
    BY SkillAwaitsListed, SMTT(60)
  <1> DEFINE here == CHOOSE i \in DOMAIN SkillAwaits : SkillAwaits[i] = run.at
  <1>4. here = k
    <2>1. k \in DOMAIN SkillAwaits /\ SkillAwaits[k] = run.at
      BY <1>2
    <2>2. here \in DOMAIN SkillAwaits /\ SkillAwaits[here] = run.at
      BY <2>1
    <2>3. QED
      BY <1>2, <1>3, <2>2
  <1>5. After(run) = IF here < Len(SkillAwaits) THEN SkillAwaits[here + 1] ELSE "close"
    BY <1>1 DEF After
  <1> HIDE DEF here
  <1>6. QED
    BY <1>2, <1>4, <1>5

\* So a run that prepares goes on preparing until its reads are bound, and then
\* reads, builds its output and is audited.
LEMMA AfterOfSkill ==
    ASSUME NEW run, run.name = "skill"
    PROVE  /\ run.at \in Preparing \ {"bind"} => After(run) \in Preparing
           /\ run.at = "bind" => After(run) = "read"
           /\ run.at = "read" => After(run) = "output"
           /\ run.at = "output" => After(run) = "audit"
  <1>1. \A k \in 1 .. 10 : run.at = SkillAwaits[k] => After(run) = SkillAwaits[k + 1]
    BY AfterSkill
  <1>2. QED
    BY <1>1, SkillAwaitsListed DEF Preparing

-----------------------------------------------------------------------------
\* A step of one call keeps what holds of the others.
LEMMA RunMoves ==
    ASSUME RunsInv, NEW c \in Calls, NEW v, tool' = [tool EXCEPT ![c] = v],
           sent' \in [Calls -> Seq(Outcomes)], written' \in [Calls -> Seq(Events)],
           \A d \in Calls \ {c} : sent'[d] = sent[d] /\ written'[d] = written[d],
           v \in CallRecords, CallSound(v, sent'[c], written'[c])
    PROVE  RunsInv'
  <1>1. /\ tool' \in [Calls -> CallRecords] /\ tool'[c] = v
        /\ \A d \in Calls \ {c} : tool'[d] = tool[d]
    BY DEF RunsInv
  <1>2. \A d \in Calls : CallSound(tool'[d], sent'[d], written'[d])
    BY <1>1 DEF RunsInv
  <1>3. QED
    BY <1>1, <1>2 DEF RunsInv

\* What the invariant says of one call.
LEMMA CallState ==
    ASSUME RunsInv, NEW c \in Calls
    PROVE  /\ tool[c] \in CallRecords /\ sent[c] \in Seq(Outcomes) /\ written[c] \in Seq(Events)
           /\ CallSound(tool[c], sent[c], written[c])
  BY DEF RunsInv

\* A step of a call that has not read anything keeps what holds of it.
LEMMA Prepares ==
    ASSUME NEW run \in CallRecords, NEW received \in Seq(Outcomes), NEW events \in Seq(Events),
           CallSound(run, received, events),
           run.at \in (Preparing \cup PlainSteps) \ {"audit"},
           NEW v \in CallRecords, v.name = run.name, v.skill = run.skill,
           v.outcomes = run.outcomes, v.results = run.results,
           run.name = "skill" => v.at \in Preparing \cup {"audit", "close"} /\ v.answer # "ok",
           run.name # "skill" => v.at = "close" \/ Awaits(run.name, v.at)
    PROVE  CallSound(v, received, events)
  <1>1. run.name \in FixedTools
    BY DEF CallSound, CallRecords, Preparing, PlainSteps
  <1>2. received = <<>> /\ run.outcomes = <<>> /\ run.results = <<>>
    <2>1. run.name = "skill" => run.at \in Preparing
      BY DEF CallSound, SkillSteps, Preparing, PlainSteps, Ended
    <2>2. QED
      BY <2>1 DEF CallSound
  <1>3. events = <<>>
    BY DEF CallSound, Ended, Preparing, PlainSteps
  <1>4. Tells(<<>>, <<>>)
    BY DEF Tells
  <1>5. v.at \in Preparing \cup PlainSteps \cup {"audit", "close"}
    <2>1. CASE run.name = "skill"
      BY <2>1
    <2>2. CASE run.name # "skill"
      <3>1. Steps[run.name] \in Seq(PlainSteps)
        BY <1>1, <2>2, StepsListed
      <3>2. QED
        BY <2>2, <3>1 DEF Awaits
    <2>3. QED
      BY <2>1, <2>2
  <1>6. v.at \notin {"idle", "read", "output", "drift", "done"}
    BY <1>5 DEF Preparing, PlainSteps
  <1>7. v.name = "skill" => v.at \in SkillSteps /\ v.skill \in SkillSet
    BY DEF CallSound, SkillSteps, Ended
  <1>8. v.name \notin {"skill", "none"} => v.at \in {"close", "done"} \/ Awaits(v.name, v.at)
    OBVIOUS
  <1>9. v.at \in {"drift", "audit"} => Tells(v.outcomes, received)
    BY <1>2, <1>4
  <1>10. \A i \in DOMAIN events : Tells(events[i].outcomes, received)
    BY <1>3
  <1>11. ~ (v.name = "skill" /\ v.answer = "ok")
    OBVIOUS
  <1>12. v.name # "none"
    BY <1>1 DEF FixedTools
  <1>13. QED
    BY <1>2, <1>3, <1>6, <1>7, <1>8, <1>9, <1>10, <1>11, <1>12 DEF CallSound

\* A call that read nothing may go to another of its awaits, or end.
LEMMA MoveToKeeps ==
    ASSUME RunsInv, NEW c \in Calls, NEW run \in CallRecords, NEW step,
           run.name = tool[c].name, run.skill = tool[c].skill,
           run.outcomes = tool[c].outcomes, run.results = tool[c].results,
           tool[c].at \in (Preparing \cup PlainSteps) \ {"audit"},
           run.name = "skill" => step \in Preparing \cup {"audit", "close"} /\ run.answer # "ok",
           run.name # "skill" => step = "close" \/ Awaits(run.name, step),
           MoveTo(c, run, step), UNCHANGED <<sent, written>>
    PROVE  RunsInv'
  <1> DEFINE v == [run EXCEPT !.at = step]
  <1>1. tool[c].name \in FixedTools
    BY CallState DEF CallSound, CallRecords, Preparing, PlainSteps
  <1>2. step \in SkillSteps \cup PlainSteps
    <2>1. CASE run.name = "skill"
      BY <2>1 DEF SkillSteps, Ended
    <2>2. CASE run.name # "skill"
      <3>1. Steps[run.name] \in Seq(PlainSteps)
        BY <1>1, <2>2, StepsListed
      <3>2. QED
        BY <2>2, <3>1 DEF Awaits, SkillSteps, Ended
    <2>3. QED
      BY <2>1, <2>2
  <1>3. v \in CallRecords
    BY <1>2 DEF CallRecords
  <1>4. /\ v.name = run.name /\ v.skill = run.skill /\ v.outcomes = run.outcomes
        /\ v.results = run.results /\ v.at = step /\ v.answer = run.answer
    BY DEF CallRecords
  <1>5. tool' = [tool EXCEPT ![c] = v]
    BY DEF MoveTo
  <1> HIDE DEF v
  <1>6. CallSound(v, sent[c], written[c])
    <2>1. /\ tool[c] \in CallRecords /\ sent[c] \in Seq(Outcomes) /\ written[c] \in Seq(Events)
          /\ CallSound(tool[c], sent[c], written[c])
      BY CallState
    <2>2. /\ tool[c].name = "skill" => v.at \in Preparing \cup {"audit", "close"} /\ v.answer # "ok"
          /\ tool[c].name # "skill" => v.at = "close" \/ Awaits(tool[c].name, v.at)
          /\ v.name = tool[c].name /\ v.skill = tool[c].skill
          /\ v.outcomes = tool[c].outcomes /\ v.results = tool[c].results
      BY <1>4
    <2>3. QED
      BY <1>3, <2>1, <2>2, Prepares
  <1>7. QED
    BY <1>3, <1>5, <1>6, RunMoves DEF RunsInv

\* In particular to the next one.
LEMMA MoveKeeps ==
    ASSUME RunsInv, NEW c \in Calls, NEW run \in CallRecords,
           run.name = tool[c].name, run.at = tool[c].at, run.skill = tool[c].skill,
           run.outcomes = tool[c].outcomes, run.results = tool[c].results,
           tool[c].at \in (Preparing \cup PlainSteps) \ {"audit", "bind"},
           run.name = "skill" => run.answer # "ok",
           Move(c, run), UNCHANGED <<sent, written>>
    PROVE  RunsInv'
  <1>1. run.name \in FixedTools
    BY CallState DEF CallSound, CallRecords, Preparing, PlainSteps
  <1>2. run.name = "skill" => After(run) \in Preparing
    <2>1. run.name = "skill" => run.at \in Preparing \ {"bind"}
      BY CallState DEF CallSound, SkillSteps, Preparing, PlainSteps, Ended
    <2>2. QED
      BY <2>1, AfterOfSkill
  <1>3. run.name # "skill" => After(run) = "close" \/ Awaits(run.name, After(run))
    <2> SUFFICES ASSUME run.name # "skill"
                 PROVE  After(run) = "close" \/ Awaits(run.name, After(run))
      OBVIOUS
    <2>1. Awaits(run.name, run.at)
      BY <1>1, CallState DEF CallSound, FixedTools, Preparing, PlainSteps
    <2>2. QED
      BY <1>1, <2>1, AfterPlain
  <1>4. MoveTo(c, run, After(run))
    BY DEF Move, MoveTo
  <1>5. QED
    BY <1>2, <1>3, <1>4, MoveToKeeps

\* And it may fail there with any of the codes the tools answer.
LEMMA FailKeeps ==
    ASSUME RunsInv, NEW c \in Calls, NEW code \in Codes,
           tool[c].at \in (Preparing \cup PlainSteps) \ {"audit"},
           FailWith(c, tool[c], code), UNCHANGED <<sent, written>>
    PROVE  RunsInv'
  <1> DEFINE run == [tool[c] EXCEPT !.answer = code]
             step == IF AuditEligible(tool[c]) THEN "audit" ELSE "close"
  <1>1. tool[c] \in CallRecords
    BY CallState
  <1>2. run \in CallRecords
    BY <1>1 DEF CallRecords
  <1>3. /\ run.name = tool[c].name /\ run.skill = tool[c].skill /\ run.answer = code
        /\ run.outcomes = tool[c].outcomes /\ run.results = tool[c].results
    BY <1>1 DEF CallRecords
  <1>4. MoveTo(c, run, step)
    BY DEF FailWith
  <1>5. run.name # "skill" => step = "close"
    BY <1>3 DEF AuditEligible
  <1> HIDE DEF run
  <1>6. code # "ok"
    BY DEF Codes
  <1>7. QED
    BY <1>2, <1>3, <1>4, <1>5, <1>6, MoveToKeeps

\* A call at an await that reads nothing is of a tool that awaits there.
LEMMA AtWork ==
    ASSUME RunsInv, NEW c \in Calls, tool[c].at \in (Preparing \cup PlainSteps) \ {"audit"}
    PROVE  /\ tool[c] \in CallRecords /\ tool[c].name \in FixedTools
           /\ tool[c].name = "skill" => tool[c].at \in Preparing /\ tool[c].answer # "ok"
           /\ tool[c].name # "skill" => Awaits(tool[c].name, tool[c].at)
  BY CallState DEF CallSound, CallRecords, Preparing, PlainSteps, SkillSteps, Ended, FixedTools

-----------------------------------------------------------------------------
\* call_tool: the call starts with nothing read, listed or written.
LEMMA CallToolKeeps ==
    ASSUME RunsInv, NEW c \in Calls, CallTool(c)
    PROVE  RunsInv'
  <1>1. PICK t \in Tools, s \in SkillSet :
           \E k \in Items \cup {"none"} :
              tool' = [tool EXCEPT ![c] = [Waiting EXCEPT
                  !.name = t, !.at = "workspace", !.link = k, !.skill = s]]
    BY DEF CallTool, Items
  <1>2. PICK k \in Items \cup {"none"} :
              tool' = [tool EXCEPT ![c] = [Waiting EXCEPT
                  !.name = t, !.at = "workspace", !.link = k, !.skill = s]]
    BY <1>1
  <1> DEFINE v == [Waiting EXCEPT !.name = t, !.at = "workspace", !.link = k, !.skill = s]
  <1>3. t \in FixedTools
    BY SkillToolsAssumption DEF FixedTools
  <1>4. v \in CallRecords
    <2>1. Waiting \in CallRecords
      BY DEF Waiting, CallRecords
    <2> HIDE DEF Waiting
    <2>2. QED
      BY <1>3, <2>1 DEF CallRecords, PlainSteps
  <1>5. /\ v.name = t /\ v.at = "workspace" /\ v.skill = s /\ v.outcomes = <<>> /\ v.results = <<>>
        /\ v.answer = "none"
    BY DEF Waiting
  <1>6. sent[c] = <<>> /\ written[c] = <<>>
    <2>1. tool[c].at = "idle"
      BY DEF CallTool, At
    <2>2. QED
      BY <2>1, CallState DEF CallSound, Ended
  <1>7. t # "skill" => Awaits(t, "workspace")
    <2>1. \A n \in FixedTools : 1 \in DOMAIN Steps[n] /\ Steps[n][1] = "workspace"
      BY DEF Steps, FixedTools
    <2>2. QED
      BY <1>3, <2>1 DEF Awaits
  <1> HIDE DEF v
  <1>8. CallSound(v, <<>>, <<>>)
    <2>1. \A i \in DOMAIN <<>> : Tells((<<>>)[i].outcomes, <<>>)
      OBVIOUS
    <2>2. v.name # "none"
      BY <1>3, <1>5 DEF FixedTools
    <2>3. QED
      BY <1>5, <1>7, <2>1, <2>2 DEF CallSound, SkillSteps, Preparing, Ended
  <1>9. UNCHANGED <<sent, written>>
    BY DEF CallTool
  <1>10. QED
    BY <1>2, <1>4, <1>6, <1>8, <1>9, RunMoves DEF RunsInv, v

\* require_workspace and get_projection, which may refuse the call.
LEMMA WorkspaceKeeps ==
    ASSUME RunsInv, NEW c \in Calls, RequireWorkspace(c) \/ GetProjection(c)
    PROVE  RunsInv'
  <1>1. /\ tool[c].at \in {"workspace", "projection"} /\ UNCHANGED <<sent, written>>
        /\ \/ Move(c, tool[c])
           \/ \E code \in {"workspace_access_denied", "insufficient_evidence"} : FailWith(c, tool[c], code)
    BY DEF RequireWorkspace, GetProjection, At
  <1>2. tool[c].at \in (Preparing \cup PlainSteps) \ {"audit", "bind"}
    BY <1>1 DEF Preparing
  <1>3. tool[c] \in CallRecords /\ (tool[c].name = "skill" => tool[c].answer # "ok")
    BY <1>2, AtWork
  <1>4. CASE Move(c, tool[c])
    BY <1>1, <1>2, <1>3, <1>4, MoveKeeps
  <1>5. CASE \E code \in {"workspace_access_denied", "insufficient_evidence"} : FailWith(c, tool[c], code)
    BY <1>1, <1>2, <1>5, FailKeeps DEF Codes
  <1>6. QED
    BY <1>1, <1>4, <1>5

\* Having the provider runtime built, and being given it or the error of the thread.
LEMMA RuntimeKeeps ==
    ASSUME RunsInv, NEW c \in Calls, RuntimeFrom(c) \/ RuntimeBuilt(c)
    PROVE  RunsInv'
  <1> DEFINE run == [tool[c] EXCEPT !.runtime = TRUE]
  <1>1. UNCHANGED <<sent, written>>
    BY DEF RuntimeFrom, RuntimeBuilt
  <1>2. CASE UNCHANGED tool
    BY <1>1, <1>2 DEF RunsInv
  <1>3. CASE tool[c].at = "runtime"
    <2>1. tool[c].at \in (Preparing \cup PlainSteps) \ {"audit", "bind"}
      BY <1>3 DEF Preparing
    <2>2. tool[c] \in CallRecords /\ (tool[c].name = "skill" => tool[c].answer # "ok")
      BY <2>1, AtWork
    <2>3. /\ run \in CallRecords /\ run.name = tool[c].name /\ run.at = tool[c].at
          /\ run.skill = tool[c].skill /\ run.outcomes = tool[c].outcomes
          /\ run.results = tool[c].results /\ run.answer = tool[c].answer
      BY <2>2 DEF CallRecords
    <2>4. \/ Move(c, run)
          \/ FailWith(c, tool[c], "temporarily_unavailable")
          \/ tool[c].name = "skill" /\ MoveTo(c, tool[c], "search")
          \/ UNCHANGED tool
      BY <1>3 DEF RuntimeFrom, RuntimeBuilt, At
    <2> HIDE DEF run
    <2>5. CASE Move(c, run)
      BY <1>1, <2>1, <2>2, <2>3, <2>5, MoveKeeps
    <2>6. CASE tool[c].name = "skill" /\ MoveTo(c, tool[c], "search")
      BY <1>1, <2>1, <2>2, <2>6, MoveToKeeps DEF Preparing
    <2>7. CASE FailWith(c, tool[c], "temporarily_unavailable")
      BY <1>1, <2>1, <2>7, FailKeeps DEF Codes
    <2>8. QED
      BY <1>2, <2>4, <2>5, <2>6, <2>7
  <1>4. QED
    BY <1>2, <1>3 DEF RuntimeFrom, RuntimeBuilt, At

\* The list of connections the caller may see.
LEMMA ConnectionsKeep ==
    ASSUME RunsInv, NEW c \in Calls, ListConnections(c)
    PROVE  RunsInv'
  <1>1. tool[c].at = "connections" /\ UNCHANGED <<sent, written>>
    BY DEF ListConnections, At
  <1>2. tool[c].at \in (Preparing \cup PlainSteps) \ {"audit", "bind"}
    BY <1>1 DEF PlainSteps
  <1>3. tool[c] \in CallRecords /\ tool[c].name # "skill"
    BY <1>1, <1>2, AtWork DEF Preparing
  <1>4. CASE FailWith(c, tool[c], "provider_connection_required")
    BY <1>1, <1>2, <1>4, FailKeeps DEF Codes
  <1>5. ASSUME NEW Q, Q = IF tool[c].name = "schema" THEN {k \in Visible : tool[c].link \in Matching(k)}
                                                     ELSE {},
               NEW a, a = IF tool[c].name = "list" THEN "ok" ELSE tool[c].answer,
               Move(c, [tool[c] EXCEPT !.queue = Q, !.answer = a])
        PROVE  RunsInv'
    <2> DEFINE run == [tool[c] EXCEPT !.queue = Q, !.answer = a]
    <2>1. Q \in SUBSET Items
      BY <1>5 DEF Visible, Items
    <2>0. a \in Codes \cup {"ok", "none"}
      BY <1>3, <1>5 DEF CallRecords
    <2>2. /\ run \in CallRecords /\ run.name = tool[c].name /\ run.at = tool[c].at
          /\ run.skill = tool[c].skill /\ run.outcomes = tool[c].outcomes
          /\ run.results = tool[c].results
      BY <1>3, <2>0, <2>1 DEF CallRecords
    <2>3. Move(c, run)
      BY <1>5
    <2> HIDE DEF run
    <2>4. QED
      BY <1>1, <1>2, <1>3, <2>2, <2>3, MoveKeeps
  <1>6. QED
    BY <1>4, <1>5 DEF ListConnections

\* The readiness of the one connection a call names.
LEMMA ReadConnectionKeeps ==
    ASSUME RunsInv, NEW c \in Calls, ReadConnection(c)
    PROVE  RunsInv'
  <1> DEFINE run == [tool[c] EXCEPT !.ready = readiness[tool[c].link] = "ready"]
  <1>1. tool[c].at = "load" /\ UNCHANGED <<sent, written>>
    BY DEF ReadConnection, At
  <1>2. tool[c].at \in (Preparing \cup PlainSteps) \ {"audit", "bind"}
    BY <1>1 DEF Preparing
  <1>3. tool[c] \in CallRecords /\ (tool[c].name = "skill" => tool[c].answer # "ok")
    BY <1>2, AtWork
  <1>4. /\ run \in CallRecords /\ run.name = tool[c].name /\ run.at = tool[c].at
        /\ run.skill = tool[c].skill /\ run.outcomes = tool[c].outcomes
        /\ run.results = tool[c].results /\ run.answer = tool[c].answer
    BY <1>3 DEF CallRecords
  <1> HIDE DEF run
  <1>5. CASE Move(c, run)
    BY <1>1, <1>2, <1>3, <1>4, <1>5, MoveKeeps
  <1>6. CASE FailWith(c, tool[c], "provider_connection_required")
    BY <1>1, <1>2, <1>6, FailKeeps DEF Codes
  <1>7. QED
    BY <1>5, <1>6 DEF ReadConnection, run

\* The catalog rows a call is going to resolve.
LEMMA CatalogKeeps ==
    ASSUME RunsInv, NEW c \in Calls, CatalogQualifications(c)
    PROVE  RunsInv'
  <1> DEFINE Q == IF tool[c].name = "skill"
                    THEN {q \in Matching(tool[c].link) : CapabilityOf[q] \in tool[c].skill.required}
                    ELSE Matching(tool[c].link)
             run == [tool[c] EXCEPT !.queue = Q]
  <1>1. tool[c].at = "catalog" /\ UNCHANGED <<sent, written>> /\ Move(c, run)
    BY DEF CatalogQualifications, At
  <1>2. tool[c].at \in (Preparing \cup PlainSteps) \ {"audit", "bind"}
    BY <1>1 DEF Preparing
  <1>3. tool[c] \in CallRecords /\ (tool[c].name = "skill" => tool[c].answer # "ok")
    BY <1>2, AtWork
  <1>4. Q \in SUBSET Items
    BY DEF Matching, Items
  <1> HIDE DEF Q
  <1>5. /\ run \in CallRecords /\ run.name = tool[c].name /\ run.at = tool[c].at
        /\ run.skill = tool[c].skill /\ run.outcomes = tool[c].outcomes
        /\ run.results = tool[c].results /\ run.answer = tool[c].answer
    BY <1>3, <1>4 DEF CallRecords
  <1> HIDE DEF run
  <1>6. QED
    BY <1>1, <1>2, <1>3, <1>5, MoveKeeps

\* What is kept of a call when nothing but its queue, findings and answer change.
SameRun(run, old) ==
    /\ run \in CallRecords
    /\ run.name = old.name /\ run.at = old.at /\ run.skill = old.skill
    /\ run.outcomes = old.outcomes /\ run.results = old.results

\* Resolving one row.
LEMMA ResolveKeeps ==
    ASSUME RunsInv, NEW c \in Calls, ResolveQualification(c)
    PROVE  RunsInv'
  <1>1. tool[c].at = "resolve" /\ UNCHANGED <<sent, written>>
    BY DEF ResolveQualification, At
  <1>2. tool[c].at \in (Preparing \cup PlainSteps) \ {"audit", "bind"}
    BY <1>1 DEF Preparing
  <1>3. /\ tool[c] \in CallRecords /\ (tool[c].name = "skill" => tool[c].answer # "ok")
        /\ tool[c].name # "skill" => Awaits(tool[c].name, "resolve")
    BY <1>1, <1>2, AtWork
  <1>4. PICK q \in tool[c].queue :
           MoveTo(c, [tool[c] EXCEPT !.queue = @ \ {q},
                !.enabled = IF resolution[q] = "enabled" /\ (tool[c].name = "listing" => tool[c].ready)
                              THEN @ \cup {q} ELSE @], "resolve")
    BY DEF ResolveQualification
  <1>5. PICK E : /\ E = tool[c].enabled \/ E = tool[c].enabled \cup {q}
                 /\ MoveTo(c, [tool[c] EXCEPT !.queue = @ \ {q}, !.enabled = E], "resolve")
    BY <1>4
  <1> DEFINE run == [tool[c] EXCEPT !.queue = @ \ {q}, !.enabled = E]
  <1>6. E \in SUBSET Items
    BY <1>3, <1>5 DEF CallRecords
  <1>7. SameRun(run, tool[c]) /\ run.answer = tool[c].answer
    BY <1>3, <1>6 DEF CallRecords, SameRun
  <1>8. MoveTo(c, run, "resolve")
    BY <1>5
  <1> HIDE DEF run
  <1>9. QED
    BY <1>1, <1>2, <1>3, <1>7, <1>8, MoveToKeeps DEF SameRun, Preparing

\* The end of resolving: a call that needs a row and has none fails.
LEMMA ResolvedKeeps ==
    ASSUME RunsInv, NEW c \in Calls, QualificationsResolved(c)
    PROVE  RunsInv'
  <1>1. tool[c].at = "resolve" /\ UNCHANGED <<sent, written>>
    BY DEF QualificationsResolved, At
  <1>2. tool[c].at \in (Preparing \cup PlainSteps) \ {"audit", "bind"}
    BY <1>1 DEF Preparing
  <1>3. tool[c] \in CallRecords /\ (tool[c].name = "skill" => tool[c].answer # "ok")
    BY <1>2, AtWork
  <1>4. PICK a : /\ a = IF tool[c].name = "skill" THEN tool[c].answer ELSE "ok"
                 /\ Move(c, [tool[c] EXCEPT !.answer = a])
    BY DEF QualificationsResolved
  <1> DEFINE run == [tool[c] EXCEPT !.answer = a]
  <1>5. a \in Codes \cup {"ok", "none"}
    BY <1>3, <1>4 DEF CallRecords
  <1>6. SameRun(run, tool[c]) /\ run.answer = a
    BY <1>3, <1>5 DEF CallRecords, SameRun
  <1>7. Move(c, run)
    BY <1>4
  <1> HIDE DEF run
  <1>8. QED
    BY <1>1, <1>2, <1>3, <1>4, <1>6, <1>7, MoveKeeps DEF SameRun

\* An error of a tool without a skill, from what the call has become.
LEMMA PlainFails ==
    ASSUME RunsInv, NEW c \in Calls, tool[c].at = "scan", NEW code \in Codes,
           FailWith(c, tool[c], code), UNCHANGED <<sent, written>>
    PROVE  RunsInv'
  BY FailKeeps DEF PlainSteps

\* The tool that looks at every connection in turn.
LEMMA ScanKeeps ==
    ASSUME RunsInv, NEW c \in Calls, ScanConnections(c)
    PROVE  RunsInv'
  <1>1. tool[c].at = "scan" /\ UNCHANGED <<sent, written>>
    BY DEF ScanConnections, At
  <1>2. tool[c].at \in (Preparing \cup PlainSteps) \ {"audit", "bind"}
    BY <1>1 DEF PlainSteps
  <1>3. /\ tool[c] \in CallRecords /\ tool[c].name # "skill"
        /\ Awaits(tool[c].name, "scan")
    BY <1>1, <1>2, AtWork DEF Preparing
  <1>4. CASE \E code \in {"insufficient_evidence", "capability_unavailable",
                          "provider_connection_required"} : FailWith(c, tool[c], code)
    BY <1>1, <1>4, PlainFails DEF Codes
  <1>5. CASE MoveTo(c, [tool[c] EXCEPT !.answer = "ok"], "close")
    <2> DEFINE run == [tool[c] EXCEPT !.answer = "ok"]
    <2>1. SameRun(run, tool[c])
      BY <1>3 DEF CallRecords, SameRun
    <2>2. MoveTo(c, run, "close")
      BY <1>5
    <2> HIDE DEF run
    <2>3. QED
      BY <1>1, <1>2, <1>3, <2>1, <2>2, MoveToKeeps DEF SameRun
  <1>6. ASSUME NEW k \in tool[c].queue, NEW lacking \in BOOLEAN,
               MoveTo(c, [tool[c] EXCEPT !.queue = @ \ {k}, !.lacking = lacking], "scan")
        PROVE  RunsInv'
    <2> DEFINE run == [tool[c] EXCEPT !.queue = @ \ {k}, !.lacking = lacking]
    <2>1. SameRun(run, tool[c])
      BY <1>3, <1>6 DEF CallRecords, SameRun
    <2>2. MoveTo(c, run, "scan")
      BY <1>6
    <2> HIDE DEF run
    <2>3. QED
      BY <1>1, <1>2, <1>3, <2>1, <2>2, MoveToKeeps DEF SameRun
  <1>7. \A k : (tool[c].lacking \/ resolution[tool[c].link] = "insufficient_evidence") \in BOOLEAN
    BY <1>3 DEF CallRecords
  <1>8. CASE /\ tool[c].queue = {}
             /\ FailWith(c, tool[c], IF tool[c].lacking THEN "insufficient_evidence"
                                                        ELSE "capability_unavailable")
    BY <1>4, <1>8
  <1>9. ASSUME NEW k \in tool[c].queue,
               IF k \notin Visible THEN FailWith(c, tool[c], "provider_connection_required")
               ELSE IF resolution[tool[c].link] \in {"enabled", "unreviewed"}
                  THEN MoveTo(c, [tool[c] EXCEPT !.answer = "ok"], "close")
                  ELSE MoveTo(c, [tool[c] EXCEPT !.queue = @ \ {k},
                         !.lacking = @ \/ resolution[tool[c].link] = "insufficient_evidence"], "scan")
        PROVE  RunsInv'
    <2>1. CASE FailWith(c, tool[c], "provider_connection_required")
      BY <1>4, <2>1
    <2>2. CASE MoveTo(c, [tool[c] EXCEPT !.queue = @ \ {k},
                         !.lacking = @ \/ resolution[tool[c].link] = "insufficient_evidence"], "scan")
      BY <1>6, <1>7, <2>2
    <2>3. QED
      BY <1>5, <1>9, <2>1, <2>2
  <1>10. QED
    BY <1>8, <1>9 DEF ScanConnections

\* The search of the reviewed knowledge, which a citing skill depends on.
LEMMA SearchKeeps ==
    ASSUME RunsInv, NEW c \in Calls, SearchKnowledge(c)
    PROVE  RunsInv'
  <1>1. tool[c].at = "search" /\ UNCHANGED <<sent, written>>
    BY DEF SearchKnowledge, At
  <1>2. tool[c].at \in (Preparing \cup PlainSteps) \ {"audit", "bind"}
    BY <1>1 DEF Preparing
  <1>3. tool[c] \in CallRecords /\ (tool[c].name = "skill" => tool[c].answer # "ok")
    BY <1>2, AtWork
  <1>4. CASE tool[c].name = "skill"
    <2>1. PICK b \in BOOLEAN : Move(c, [tool[c] EXCEPT !.found = b])
      <3>1. tool[c].skill.cites \in BOOLEAN
        BY <1>1, <1>4, CallState, SkillToolsAssumption DEF CallSound
      <3>2. (tool[c].skill.cites /\ knowledge) \in BOOLEAN
        BY <3>1
      <3>3. Move(c, [tool[c] EXCEPT !.found = tool[c].skill.cites /\ knowledge])
        BY <1>4 DEF SearchKnowledge
      <3>4. QED
        BY <3>2, <3>3
    <2> DEFINE run == [tool[c] EXCEPT !.found = b]
    <2>2. SameRun(run, tool[c]) /\ run.answer = tool[c].answer
      BY <1>3 DEF CallRecords, SameRun
    <2>3. Move(c, run)
      BY <2>1
    <2> HIDE DEF run
    <2>4. QED
      BY <1>1, <1>2, <1>3, <2>2, <2>3, MoveKeeps DEF SameRun
  <1>5. CASE tool[c].name # "skill" /\ Move(c, [tool[c] EXCEPT !.found = TRUE, !.answer = "ok"])
    <2> DEFINE run == [tool[c] EXCEPT !.found = TRUE, !.answer = "ok"]
    <2>1. SameRun(run, tool[c])
      BY <1>3 DEF CallRecords, SameRun
    <2>2. Move(c, run)
      BY <1>5
    <2> HIDE DEF run
    <2>3. QED
      BY <1>1, <1>2, <1>5, <2>1, <2>2, MoveKeeps DEF SameRun
  <1>6. CASE FailWith(c, tool[c], "insufficient_evidence")
    BY <1>1, <1>2, <1>6, FailKeeps DEF Codes
  <1>7. QED
    BY <1>4, <1>5, <1>6 DEF SearchKnowledge

\* The tools that hand over to the connection service.
LEMMA ServiceKeeps ==
    ASSUME RunsInv, NEW c \in Calls, StartConnection(c) \/ DisconnectProvider(c)
    PROVE  RunsInv'
  <1> DEFINE run == [tool[c] EXCEPT !.answer = "ok"]
  <1>1. tool[c].at \in {"begin", "end"} /\ UNCHANGED <<sent, written>>
    BY DEF StartConnection, DisconnectProvider, At
  <1>2. tool[c].at \in (Preparing \cup PlainSteps) \ {"audit", "bind"}
    BY <1>1 DEF PlainSteps
  <1>3. tool[c] \in CallRecords /\ tool[c].name # "skill"
    BY <1>1, <1>2, AtWork DEF Preparing
  <1>4. SameRun(run, tool[c])
    BY <1>3 DEF CallRecords, SameRun
  <1> HIDE DEF run
  <1>5. CASE Move(c, run)
    BY <1>1, <1>2, <1>3, <1>4, <1>5, MoveKeeps DEF SameRun
  <1>6. CASE FailWith(c, tool[c], "provider_connection_required")
    BY <1>1, <1>2, <1>6, FailKeeps DEF Codes
  <1>7. QED
    BY <1>5, <1>6 DEF StartConnection, DisconnectProvider, run

-----------------------------------------------------------------------------
\* Some place of a nonempty set of places is the first one.
LEMMA FirstOne ==
    ASSUME NEW S, S \subseteq Nat, S # {}
    PROVE  \E k \in S : \A j \in S : k <= j
  <1> DEFINE R == OpToRel(<, Nat)
  <1>1. IsWellFoundedOn(R, Nat)
    BY NatLessThanWellFounded, Zenon
  <1>2. \A x, y \in Nat : x < y => <<x, y>> \in R
    BY DEF OpToRel
  <1> HIDE DEF R
  <1>3. PICK k \in S : \A y \in S : ~ (<<y, k>> \in R)
    BY <1>1, WFMin
  <1>4. \A j \in S : ~ (j < k)
    BY <1>2, <1>3
  <1>5. QED
    BY <1>3, <1>4

\* A capability that is bound is bound by the row BindingOf names.
LEMMA BoundByOne ==
    ASSUME NEW run \in CallRecords, NEW capability, Bound(run, capability)
    PROVE  /\ BindingOf(run, capability) \in Items
           /\ EnabledFor(run, capability) = {BindingOf(run, capability)}
  <1> DEFINE S == EnabledFor(run, capability)
  <1>1. S \subseteq Items
    BY DEF EnabledFor, CallRecords
  <1>2. IsFiniteSet(Items)
    BY SkillToolsAssumption, FS_Union DEF Items
  <1>3. IsFiniteSet(S)
    BY <1>1, <1>2, FS_Subset
  <1>4. Cardinality(S) = 1
    BY DEF Bound
  <1>5. PICK x : S = {x}
    BY <1>3, <1>4, FS_Singleton
  <1>6. BindingOf(run, capability) = CHOOSE q \in S : TRUE
    BY DEF BindingOf
  <1>7. BindingOf(run, capability) \in S
    BY <1>5, <1>6
  <1>8. QED
    BY <1>1, <1>5, <1>7

\* Only a skill run stands at the awaits of the reads.
LEMMA RunAt ==
    ASSUME RunsInv, NEW c \in Calls, tool[c].at \in {"bind", "read", "drift", "output"}
    PROVE  /\ tool[c] \in CallRecords /\ tool[c].name = "skill" /\ tool[c].skill \in SkillSet
           /\ tool[c].skill.reads \in Seq(tool[c].skill.required)
           /\ tool[c].answer # "ok" /\ written[c] = <<>> /\ sent[c] \in Seq(Outcomes)
  <1>1. tool[c].name = "skill"
    <2>1. tool[c].name \in FixedTools
      BY CallState DEF CallSound, CallRecords
    <2>2. tool[c].name # "skill" => Steps[tool[c].name] \in Seq(PlainSteps)
      BY <2>1, StepsListed
    <2>3. tool[c].name # "skill" => Awaits(tool[c].name, tool[c].at)
      BY <2>1, CallState DEF CallSound, FixedTools
    <2>4. tool[c].name # "skill" => tool[c].at \in PlainSteps
      BY <2>2, <2>3 DEF Awaits
    <2>5. QED
      BY <2>4 DEF PlainSteps
  <1>2. QED
    BY <1>1, CallState, SkillToolsAssumption DEF CallSound, Ended

\* Binding: the reads of the run are the rows its skill maps to, one for each, and
\* none is bound when a capability has no row of its own.
LEMMA BindKeeps ==
    ASSUME RunsInv, NEW c \in Calls, BindReads(c)
    PROVE  RunsInv'
  <1> DEFINE maps == tool[c].skill.reads
             missing == {i \in DOMAIN maps : ~Bound(tool[c], maps[i])}
             first == CHOOSE i \in missing : \A j \in missing : i <= j
             bound == [i \in DOMAIN maps |-> BindingOf(tool[c], maps[i])]
  <1>1. /\ tool[c].at = "bind" /\ UNCHANGED <<sent, written>>
        /\ IF missing # {}
             THEN FailWith(c, [tool[c] EXCEPT !.outcomes = Append(@, Outcome(maps[first], "missing"))],
                           "insufficient_evidence")
           ELSE IF ~RouteReady(tool[c], Len(maps))
             THEN FailWith(c, tool[c], "insufficient_evidence")
             ELSE Move(c, [tool[c] EXCEPT !.reads = bound])
    BY DEF BindReads, At
  <1>2. /\ tool[c] \in CallRecords /\ tool[c].name = "skill" /\ tool[c].skill \in SkillSet
        /\ maps \in Seq(tool[c].skill.required)
        /\ tool[c].answer # "ok" /\ written[c] = <<>> /\ sent[c] \in Seq(Outcomes)
    BY <1>1, RunAt
  <1>3. sent[c] = <<>> /\ tool[c].outcomes = <<>> /\ tool[c].results = <<>>
    BY <1>1, CallState DEF CallSound, Preparing
  <1>4. CASE missing # {}
    <2> DEFINE o == Outcome(maps[first], "missing")
               x == [tool[c] EXCEPT !.outcomes = <<o>>]
               v == [[x EXCEPT !.answer = "insufficient_evidence"] EXCEPT !.at = "audit"]
    <2>1. first \in missing
      <3>1. missing \subseteq Nat
        BY <1>2
      <3>2. \E i \in missing : \A j \in missing : i <= j
        BY <1>4, <3>1, FirstOne
      <3>3. QED
        BY <3>2
    <2>2. maps[first] \in Named
      <3>1. \A i \in DOMAIN maps : maps[i] \in tool[c].skill.required
        BY <1>2
      <3>2. first \in DOMAIN maps
        BY <2>1
      <3> HIDE DEF first, maps
      <3>3. maps[first] \in tool[c].skill.required
        BY <3>1, <3>2
      <3>4. QED
        BY <1>2, <3>3 DEF Named
    <2> HIDE DEF first
    <2>3. o \in Outcomes /\ o.status # "ok"
      BY <2>2 DEF Outcome, Outcomes
    <2> HIDE DEF o
    <2>4. x \in CallRecords /\ x.name = "skill" /\ x.at = "bind" /\ x.skill = tool[c].skill
      <3>1. <<o>> \in Seq(Outcomes)
        BY <2>3
      <3>2. QED
        BY <1>1, <1>2, <3>1 DEF CallRecords
    <2>5. x.outcomes = <<o>>
      BY <1>2 DEF CallRecords
    <2>6. FailWith(c, x, "insufficient_evidence")
      <3>1. FailWith(c, [tool[c] EXCEPT !.outcomes = Append(@, o)], "insufficient_evidence")
        BY <1>1, <1>4 DEF o
      <3>2. [tool[c] EXCEPT !.outcomes = Append(@, o)] = x
        BY <1>3
      <3>3. QED
        BY <3>1, <3>2
    <2> HIDE DEF x
    <2>7. tool' = [tool EXCEPT ![c] = v]
      BY <2>4, <2>6 DEF FailWith, MoveTo, AuditEligible
    <2>8. /\ v \in CallRecords /\ v.name = "skill" /\ v.at = "audit" /\ v.outcomes = <<o>>
          /\ v.skill = tool[c].skill /\ v.answer = "insufficient_evidence"
      BY <2>4, <2>5 DEF CallRecords, Codes, SkillSteps, Ended
    <2> HIDE DEF v
    <2>9. Tells(v.outcomes, <<>>)
      BY <2>3, <2>8 DEF Tells
    <2>10. CallSound(v, <<>>, <<>>)
      <3>1. \A i \in DOMAIN <<>> : Tells((<<>>)[i].outcomes, <<>>)
        OBVIOUS
      <3>2. QED
        BY <1>2, <2>8, <2>9, <3>1 DEF CallSound, SkillSteps, Ended, Preparing
    <2>11. QED
      BY <1>1, <1>2, <1>3, <2>7, <2>8, <2>10, RunMoves DEF RunsInv
  <1>5. CASE missing = {} /\ ~RouteReady(tool[c], Len(maps))
    <2>1. FailWith(c, tool[c], "insufficient_evidence")
      BY <1>1, <1>5
    <2>2. QED
      BY <1>1, <2>1, FailKeeps DEF Codes, Preparing
  <1>6. CASE missing = {} /\ RouteReady(tool[c], Len(maps))
    <2> DEFINE x == [tool[c] EXCEPT !.reads = bound]
               v == [x EXCEPT !.at = "read"]
    <2>1. \A i \in DOMAIN maps : /\ BindingOf(tool[c], maps[i]) \in Items
                                 /\ EnabledFor(tool[c], maps[i]) = {BindingOf(tool[c], maps[i])}
      BY <1>2, <1>6, BoundByOne
    <2>2. /\ bound \in Seq(Items) /\ Len(bound) = Len(maps)
          /\ \A i \in 1 .. Len(bound) : EnabledFor(tool[c], maps[i]) = {bound[i]}
      <3>1. Len(maps) \in Nat /\ DOMAIN maps = 1 .. Len(maps)
        BY <1>2
      <3> HIDE DEF maps
      <3>2. bound \in [1 .. Len(maps) -> Items]
        BY <2>1, <3>1
      <3>3. bound \in Seq(Items) /\ Len(bound) = Len(maps)
        BY <3>1, <3>2
      <3>4. QED
        BY <2>1, <3>1, <3>3
    <2> HIDE DEF bound
    <2>3. /\ x \in CallRecords /\ x.name = "skill" /\ x.at = "bind"
          /\ x.skill = tool[c].skill /\ x.outcomes = <<>> /\ x.results = <<>> /\ x.reads = bound
          /\ x.enabled = tool[c].enabled /\ x.found = tool[c].found /\ x.answer = tool[c].answer
      BY <1>1, <1>2, <1>3, <2>2 DEF CallRecords
    <2>4. Move(c, x)
      BY <1>1, <1>6 DEF bound
    <2> HIDE DEF x
    <2>5. tool' = [tool EXCEPT ![c] = v]
      BY <2>3, <2>4, AfterOfSkill DEF Move
    <2>6. /\ v \in CallRecords /\ v.name = "skill" /\ v.at = "read"
          /\ v.skill = tool[c].skill /\ v.outcomes = <<>> /\ v.results = <<>> /\ v.reads = bound
          /\ v.enabled = tool[c].enabled /\ v.found = tool[c].found /\ v.answer = tool[c].answer
      BY <2>3 DEF CallRecords, SkillSteps
    <2> HIDE DEF v
    <2>7. \A p : EnabledFor(v, p) = EnabledFor(tool[c], p)
      BY <2>6 DEF EnabledFor
    <2>8. tool[c].skill.cites => tool[c].found
      BY <1>6 DEF RouteReady
    <2>9. Reading(v, <<>>)
      <3>1. Len(v.results) = 0 /\ Len(v.outcomes) = 0 /\ Len(<<>>) = 0
        BY <2>6
      <3>2. \A i \in 1 .. Len(v.reads) : EnabledFor(v, v.skill.reads[Len(v.results) + i]) = {v.reads[i]}
        <4>1. \A i \in 1 .. Len(bound) : Len(v.results) + i = i
          BY <2>2, <3>1
        <4>2. \A i \in 1 .. Len(bound) : EnabledFor(v, maps[i]) = {bound[i]}
          BY <2>2, <2>7
        <4>3. QED
          BY <2>6, <4>1, <4>2
      <3>3. Len(v.reads) = Len(v.skill.reads) /\ Len(v.reads) \in Nat
        BY <2>2, <2>6
      <3>4. \A i \in 1 .. Len(v.results) : FALSE
        BY <3>1
      <3>5. v.skill.cites => v.found
        BY <2>6, <2>8
      <3>6. Len(v.results) + Len(v.reads) = Len(v.skill.reads)
        BY <3>1, <3>3
      <3>7. Len(<<>>) = Len(v.results) /\ Len(v.outcomes) = Len(v.results)
        BY <3>1
      <3> HIDE DEF maps
      <3>8. QED
        BY <3>2, <3>4, <3>5, <3>6, <3>7, Zenon DEF Reading
    <2>10. CallSound(v, <<>>, <<>>)
      <3>1. \A i \in DOMAIN <<>> : Tells((<<>>)[i].outcomes, <<>>)
        OBVIOUS
      <3>2. QED
        BY <1>2, <2>6, <2>9, <3>1 DEF CallSound, SkillSteps, Ended, Preparing
    <2>11. QED
      BY <1>1, <1>2, <1>3, <2>5, <2>6, <2>10, RunMoves DEF RunsInv
  <1>7. QED
    BY <1>4, <1>5, <1>6

-----------------------------------------------------------------------------
\* The reads of a run, as far as they have come, are the ones its outcomes tell.
LEMMA ReadingTells ==
    ASSUME NEW run \in CallRecords, NEW received \in Seq(Outcomes), Reading(run, received)
    PROVE  Tells(run.outcomes, received)
  <1>1. /\ run.outcomes \in Seq(Outcomes) /\ run.results \in Seq(Items)
        /\ DOMAIN received = 1 .. Len(run.results) /\ Len(received) = Len(run.outcomes)
        /\ DOMAIN run.outcomes = 1 .. Len(run.results)
    BY DEF CallRecords, Reading
  <1>2. \A j \in DOMAIN received : Says(run.outcomes[j], received[j])
    <2> SUFFICES ASSUME NEW j \in 1 .. Len(run.results)
                 PROVE  Says(run.outcomes[j], received[j])
      BY <1>1
    <2>1. /\ received[j] = [row |-> run.results[j], status |-> "data"]
          /\ run.outcomes[j] = [row |-> run.results[j], status |-> "ok"]
      BY DEF Reading, Outcome
    <2>2. QED
      BY <2>1 DEF Says
  <1>3. QED
    BY <1>1, <1>2 DEF Tells

\* So they do when one more read brought no data.
LEMMA ReadingEnds ==
    ASSUME NEW run \in CallRecords, NEW received \in Seq(Outcomes), Reading(run, received),
           NEW o \in Outcomes, o.status # "ok", NEW after \in Seq(Outcomes),
           \/ after = received
           \/ \E fate \in Outcomes : after = Append(received, fate) /\ Says(o, fate)
    PROVE  Tells(Append(run.outcomes, o), after)
  <1> DEFINE listed == Append(run.outcomes, o)
  <1>1. /\ run.outcomes \in Seq(Outcomes) /\ Len(received) = Len(run.outcomes)
        /\ Len(received) \in Nat
    BY DEF CallRecords, Reading
  <1>2. /\ listed \in Seq(Outcomes) /\ Len(listed) = Len(run.outcomes) + 1
        /\ \A j \in 1 .. Len(run.outcomes) : listed[j] = run.outcomes[j]
        /\ listed[Len(run.outcomes) + 1] = o
    BY <1>1
  <1>3. \A j \in 1 .. Len(received) : Says(listed[j], received[j])
    BY <1>1, <1>2, ReadingTells DEF Tells
  <1>4. \A j \in DOMAIN listed : listed[j].status = "ok" => j \in 1 .. Len(received)
    BY <1>1, <1>2
  <1> HIDE DEF listed
  <1>5. CASE after = received
    <2>1. DOMAIN received = 1 .. Len(received)
      OBVIOUS
    <2>2. QED
      BY <1>1, <1>2, <1>3, <1>4, <1>5, <2>1 DEF Tells, listed
  <1>6. ASSUME NEW fate \in Outcomes, after = Append(received, fate), Says(o, fate)
        PROVE  Tells(listed, after)
    <2>1. /\ Len(after) = Len(received) + 1 /\ DOMAIN after = 1 .. Len(received) + 1
          /\ \A j \in 1 .. Len(received) : after[j] = received[j]
          /\ after[Len(received) + 1] = fate
      BY <1>6
    <2>2. \A j \in DOMAIN after : Says(listed[j], after[j])
      BY <1>1, <1>2, <1>3, <1>6, <2>1
    <2>3. \A j \in DOMAIN listed : listed[j].status = "ok" => j \in DOMAIN after
      BY <1>1, <1>4, <2>1
    <2>4. QED
      BY <1>1, <1>2, <2>1, <2>2, <2>3 DEF Tells
  <1>7. QED
    BY <1>5, <1>6 DEF listed

\* A run that stops reading leaves a call to be audited for what it tells.
LEMMA StopsReading ==
    ASSUME RunsInv, NEW c \in Calls, tool[c].at \in {"read", "drift", "output"},
           NEW v, tool' = [tool EXCEPT ![c] = v], v \in CallRecords,
           v.name = "skill", v.skill = tool[c].skill, v.at \in {"audit", "drift"}, v.answer # "ok",
           sent' \in [Calls -> Seq(Outcomes)], \A d \in Calls \ {c} : sent'[d] = sent[d],
           Tells(v.outcomes, sent'[c]), UNCHANGED written
    PROVE  RunsInv'
  <1>1. tool[c].skill \in SkillSet /\ written[c] = <<>>
    BY RunAt
  <1>2. \A i \in DOMAIN <<>> : Tells((<<>>)[i].outcomes, sent'[c])
    OBVIOUS
  <1>3. CallSound(v, sent'[c], <<>>)
    <2>1. v.at \notin Preparing \cup {"idle", "read", "output", "done"} /\ v.at \in SkillSteps
      BY DEF SkillSteps, Preparing, Ended
    <2>2. QED
      BY <1>1, <1>2, <2>1 DEF CallSound
  <1>0. written'[c] = <<>>
    BY <1>1
  <1>4. QED
    BY <1>0, <1>3, RunMoves DEF RunsInv

\* A call at another step is still a call.
LEMMA AtChanges ==
    ASSUME NEW run \in CallRecords, NEW step \in SkillSteps \cup PlainSteps
    PROVE  [run EXCEPT !.at = step] \in CallRecords
  BY DEF CallRecords

\* What an error makes of a call of a run that was reading.
LEMMA RunFails ==
    ASSUME NEW c \in Calls, NEW run \in CallRecords, run.name = "skill",
           run.at \in {"read", "drift", "output"}, NEW code \in Codes, FailWith(c, run, code)
    PROVE  \E v \in CallRecords :
              /\ tool' = [tool EXCEPT ![c] = v] /\ v.name = "skill" /\ v.skill = run.skill
              /\ v.at = "audit" /\ v.answer # "ok" /\ v.outcomes = run.outcomes
  <1> DEFINE x == [run EXCEPT !.answer = code]
             v == [x EXCEPT !.at = "audit"]
  <1>1. x \in CallRecords
    BY DEF CallRecords
  <1>0. /\ x.name = "skill" /\ x.skill = run.skill /\ x.answer = code
        /\ x.outcomes = run.outcomes
    BY DEF CallRecords
  <1>4. tool' = [tool EXCEPT ![c] = v]
    BY DEF FailWith, MoveTo, AuditEligible
  <1> HIDE DEF x
  <1>2. v \in CallRecords
    BY <1>1, AtChanges DEF SkillSteps, Ended
  <1>3. /\ v.name = "skill" /\ v.skill = run.skill /\ v.at = "audit" /\ v.answer = code
        /\ v.outcomes = run.outcomes
    BY <1>0, <1>1 DEF CallRecords
  <1>5. QED
    BY <1>2, <1>3, <1>4 DEF Codes

\* Appending lengthens a sequence by what is appended.
LEMMA Lengthens ==
    ASSUME NEW S, NEW s \in Seq(S), NEW e \in S
    PROVE  /\ Len(Append(s, e)) = Len(s) + 1 /\ Append(s, e)[Len(s) + 1] = e
           /\ \A i \in 1 .. Len(s) : Append(s, e)[i] = s[i]
  OBVIOUS

\* One more read that brought data.
LEMMA ReadingGoesOn ==
    ASSUME NEW run \in CallRecords, NEW received \in Seq(Outcomes), Reading(run, received),
           run.reads # <<>>, run.skill.reads \in Seq(run.skill.required),
           NEW v \in CallRecords, v.skill = run.skill, v.found = run.found,
           v.enabled = run.enabled,
           v.outcomes = Append(run.outcomes, Outcome(Head(run.reads), "ok")),
           v.reads = Tail(run.reads), v.results = Append(run.results, Head(run.reads))
    PROVE  Reading(v, Append(received, Outcome(Head(run.reads), "data")))
  <1> DEFINE n == Len(run.results)
             q == Head(run.reads)
             o == Outcome(q, "ok")
             f == Outcome(q, "data")
             after == Append(received, f)
  <1>1. /\ run.reads \in Seq(Items) /\ run.results \in Seq(Items)
        /\ run.outcomes \in Seq(Outcomes) /\ n \in Nat
        /\ Len(received) = n /\ Len(run.outcomes) = n
    BY DEF CallRecords, Reading
  <1> HIDE DEF n
  <1>2. /\ Len(v.results) = n + 1 /\ v.results[n + 1] = q
        /\ \A i \in 1 .. n : v.results[i] = run.results[i]
    BY <1>1 DEF n
  <1>3. /\ Len(v.outcomes) = n + 1 /\ v.outcomes[n + 1] = o
        /\ \A i \in 1 .. n : v.outcomes[i] = run.outcomes[i]
    <2> HIDE DEF o
    <2>1. QED
      BY <1>1 DEF o
  <1>4. /\ Len(after) = n + 1 /\ after[n + 1] = f
        /\ \A i \in 1 .. n : after[i] = received[i]
    <2>0. q \in Items
      BY <1>1
    <2>1. f \in Outcomes
      <3> HIDE DEF q
      <3>1. QED
        BY <2>0 DEF Outcome, Outcomes, Named
    <2>2. /\ Len(after) = Len(received) + 1 /\ after[Len(received) + 1] = f
          /\ \A i \in 1 .. Len(received) : after[i] = received[i]
      BY <2>1, Lengthens
    <2>3. QED
      BY <1>1, <2>2
  <1>5. /\ Len(run.reads) \in Nat /\ Len(run.reads) > 0 /\ q = run.reads[1]
        /\ Len(v.reads) = Len(run.reads) - 1
        /\ \A i \in 1 .. Len(v.reads) : v.reads[i] = run.reads[i + 1]
    BY <1>1
  <1>6. \A p : EnabledFor(v, p) = EnabledFor(run, p)
    BY DEF EnabledFor
  <1> HIDE DEF q, o, f, after
  <1>7. \A i \in 1 .. n + 1 : /\ after[i] = Outcome(v.results[i], "data")
                              /\ v.outcomes[i] = Outcome(v.results[i], "ok")
    <2> SUFFICES ASSUME NEW i \in 1 .. n + 1
                 PROVE  /\ after[i] = Outcome(v.results[i], "data")
                        /\ v.outcomes[i] = Outcome(v.results[i], "ok")
      OBVIOUS
    <2>1. CASE i = n + 1
      BY <1>2, <1>3, <1>4, <2>1 DEF o, f
    <2>2. CASE i # n + 1
      <3>1. i \in 1 .. n
        BY <1>1, <2>2
      <3>2. received[i] = Outcome(run.results[i], "data") /\ run.outcomes[i] = Outcome(run.results[i], "ok")
        BY <3>1 DEF Reading, n
      <3>3. QED
        BY <1>2, <1>3, <1>4, <3>1, <3>2
    <2>3. QED
      BY <2>1, <2>2
  <1>8. n + Len(run.reads) = Len(run.skill.reads)
    BY DEF Reading, n
  <1>9. \A i \in 1 .. n + 1 : EnabledFor(run, run.skill.reads[i]) = {v.results[i]}
    <2> SUFFICES ASSUME NEW i \in 1 .. n + 1
                 PROVE  EnabledFor(run, run.skill.reads[i]) = {v.results[i]}
      OBVIOUS
    <2>1. CASE i = n + 1
      <3>1. 1 \in 1 .. Len(run.reads)
        BY <1>5
      <3>2. EnabledFor(run, run.skill.reads[n + 1]) = {run.reads[1]}
        BY <3>1 DEF Reading, n
      <3>3. QED
        BY <1>2, <1>5, <2>1, <3>2
    <2>2. CASE i # n + 1
      <3>1. i \in 1 .. n
        BY <1>1, <2>2
      <3>2. EnabledFor(run, run.skill.reads[i]) = {run.results[i]}
        BY <3>1 DEF Reading, n
      <3>3. QED
        BY <1>2, <3>1, <3>2
    <2>3. QED
      BY <2>1, <2>2
  <1>10. \A i \in 1 .. Len(v.reads) : EnabledFor(run, run.skill.reads[(n + 1) + i]) = {v.reads[i]}
    <2> SUFFICES ASSUME NEW i \in 1 .. Len(v.reads)
                 PROVE  EnabledFor(run, run.skill.reads[(n + 1) + i]) = {v.reads[i]}
      OBVIOUS
    <2>1. i + 1 \in 1 .. Len(run.reads) /\ (n + 1) + i = n + (i + 1)
      BY <1>1, <1>5
    <2>2. EnabledFor(run, run.skill.reads[n + (i + 1)]) = {run.reads[i + 1]}
      BY <2>1 DEF Reading, n
    <2>3. QED
      BY <1>5, <2>1, <2>2
  <1>11. (n + 1) + Len(v.reads) = Len(v.skill.reads)
    <2>1. (n + 1) + Len(v.reads) = n + Len(run.reads)
      <3>1. \A a, b \in Nat : b > 0 => (a + 1) + (b - 1) = a + b
        OBVIOUS
      <3>2. QED
        BY <1>1, <1>5, <3>1, Zenon
    <2>2. v.skill.reads = run.skill.reads
      OBVIOUS
    <2> HIDE DEF Reading
    <2>3. QED
      BY <1>8, <2>1, <2>2, Zenon
  <1>12. run.skill.cites => run.found
    BY DEF Reading
  <1>13. Reading(v, after)
    <2>1. Len(after) = Len(v.results) /\ Len(v.outcomes) = Len(v.results)
      BY <1>2, <1>3, <1>4
    <2>2. \A i \in 1 .. Len(v.results) : /\ after[i] = Outcome(v.results[i], "data")
                                         /\ v.outcomes[i] = Outcome(v.results[i], "ok")
      BY <1>2, <1>7
    <2>3. Len(v.results) + Len(v.reads) = Len(v.skill.reads)
      BY <1>2, <1>11
    <2>4. \A i \in 1 .. Len(v.results) : EnabledFor(v, v.skill.reads[i]) = {v.results[i]}
      BY <1>2, <1>6, <1>9
    <2>5. \A i \in 1 .. Len(v.reads) :
             EnabledFor(v, v.skill.reads[Len(v.results) + i]) = {v.reads[i]}
      BY <1>2, <1>6, <1>10
    <2>6. v.skill.cites => v.found
      BY <1>12
    <2>7. QED
      BY <2>1, <2>2, <2>3, <2>4, <2>5, <2>6, Zenon DEF Reading
  <1>14. QED
    BY <1>13 DEF after, f, q

\* One read, whatever the provider does with it: data goes on, everything else ends
\* the run with an outcome that tells.
LEMMA ReadKeeps ==
    ASSUME RunsInv, NEW c \in Calls, ExecuteRead(c)
    PROVE  RunsInv'
  <1> DEFINE run == tool[c]
             q == Head(run.reads)
  <1>1. tool[c].at = "read" /\ run.reads # <<>> /\ UNCHANGED written
    BY DEF ExecuteRead, At
  <1>2. /\ run \in CallRecords /\ run.name = "skill" /\ run.skill \in SkillSet
        /\ run.skill.reads \in Seq(run.skill.required)
        /\ run.answer # "ok" /\ written[c] = <<>> /\ sent[c] \in Seq(Outcomes)
    BY <1>1, RunAt
  <1>3. Reading(run, sent[c])
    BY <1>1, CallState DEF CallSound
  <1>4. /\ run.reads \in Seq(Items) /\ run.results \in Seq(Items)
        /\ run.outcomes \in Seq(Outcomes)
        /\ q \in Items /\ Tail(run.reads) \in Seq(Items)
    BY <1>1, <1>2 DEF CallRecords
  <1>5. /\ sent \in [Calls -> Seq(Outcomes)]
        /\ \A s \in {"ok", "cancelled", "error", "missing", "data", "refused", "drift", "unknown"} :
              Outcome(q, s) \in Outcomes /\ Outcome(q, s).status = s
    BY <1>4 DEF RunsInv, Outcome, Outcomes, Named
  <1> HIDE DEF q
  (* The read is refused, or fails: the outcome is listed and the run is audited. *)
  <1>6. ASSUME NEW s \in {"error", "cancelled"}, NEW after \in Seq(Outcomes),
               sent' = [sent EXCEPT ![c] = after],
               \/ after = sent[c]
               \/ \E f \in {"refused", "drift", "unknown"} :
                     /\ s = (IF f = "unknown" THEN "cancelled" ELSE "error")
                     /\ after = Append(sent[c], Outcome(q, f)),
               \/ \E code \in Codes : FailWith(c, ListedRead(run, Outcome(q, s)), code)
               \/ MoveTo(c, ListedRead(run, Outcome(q, s)), "drift")
        PROVE  RunsInv'
    <2> DEFINE o == Outcome(q, s)
               x == ListedRead(run, o)
    <2>1. o \in Outcomes /\ o.status # "ok"
      BY <1>5
    <2>2. \A f \in {"refused", "drift", "unknown"} :
             s = (IF f = "unknown" THEN "cancelled" ELSE "error") => Says(o, Outcome(q, f))
      BY DEF Says, Outcome
    <2>3. Tells(Append(run.outcomes, o), after)
      BY <1>2, <1>3, <1>5, <1>6, <2>1, <2>2, ReadingEnds
    <2>4. /\ x \in CallRecords /\ x.name = "skill" /\ x.at = "read" /\ x.skill = run.skill
          /\ x.outcomes = Append(run.outcomes, o) /\ x.answer = run.answer
      <3>1. Append(run.outcomes, o) \in Seq(Outcomes)
        BY <1>4, <2>1
      <3> HIDE DEF o
      <3>2. QED
        BY <1>1, <1>2, <3>1 DEF ListedRead, CallRecords
    <2>5. \E v \in CallRecords :
             /\ tool' = [tool EXCEPT ![c] = v] /\ v.name = "skill" /\ v.skill = run.skill
             /\ v.at \in {"audit", "drift"} /\ v.answer # "ok"
             /\ v.outcomes = Append(run.outcomes, o)
      <3> HIDE DEF x
      <3>1. CASE \E code \in Codes : FailWith(c, x, code)
        BY <2>4, <3>1, RunFails
      <3>2. CASE MoveTo(c, x, "drift")
        <4> DEFINE v == [x EXCEPT !.at = "drift"]
        <4>1. /\ v \in CallRecords /\ v.name = "skill" /\ v.skill = run.skill
              /\ v.at = "drift" /\ v.answer # "ok" /\ v.outcomes = Append(run.outcomes, o)
          BY <1>2, <2>4 DEF CallRecords, SkillSteps
        <4>2. tool' = [tool EXCEPT ![c] = v]
          BY <3>2 DEF MoveTo
        <4>3. QED
          BY <4>1, <4>2
      <3>3. QED
        BY <1>6, <3>1, <3>2 DEF x
    <2>6. /\ sent' \in [Calls -> Seq(Outcomes)] /\ sent'[c] = after
          /\ \A d \in Calls \ {c} : sent'[d] = sent[d]
      BY <1>5, <1>6
    <2> HIDE DEF o, x
    <2>7. QED
      BY <1>1, <2>3, <2>5, <2>6, StopsReading
  (* The read brought data. *)
  <1>7. ASSUME ReadDone(c, run, q), sent' = [sent EXCEPT ![c] = Append(@, Outcome(q, "data"))]
        PROVE  RunsInv'
    <2> DEFINE o == Outcome(q, "ok")
               f == Outcome(q, "data")
               x == ListedRead(run, o)
               y == [x EXCEPT !.reads = Tail(@), !.results = Append(@, q)]
               v == [y EXCEPT !.at = "read"]
               after == Append(sent[c], f)
    <2>1. o \in Outcomes /\ f \in Outcomes
      BY <1>5
    <2>2. /\ Append(run.outcomes, o) \in Seq(Outcomes) /\ Append(run.results, q) \in Seq(Items)
          /\ after \in Seq(Outcomes)
      BY <1>2, <1>4, <2>1
    <2> HIDE DEF o, f
    <2>3. x = [run EXCEPT !.outcomes = Append(run.outcomes, o)]
      BY DEF ListedRead
    <2>4. /\ x \in CallRecords /\ x.name = "skill" /\ x.at = "read" /\ x.skill = run.skill
          /\ x.outcomes = Append(run.outcomes, o) /\ x.answer = run.answer
          /\ x.reads = run.reads /\ x.results = run.results /\ x.enabled = run.enabled
          /\ x.found = run.found
      BY <1>1, <1>2, <2>2, <2>3 DEF CallRecords
    <2> HIDE DEF x
    <2>5. y = [x EXCEPT !.reads = Tail(run.reads), !.results = Append(run.results, q)]
      BY <2>4
    <2> HIDE DEF run
    <2>6. /\ y \in CallRecords /\ y.name = "skill" /\ y.at = "read" /\ y.skill = run.skill
          /\ y.outcomes = Append(run.outcomes, o) /\ y.answer = run.answer
          /\ y.reads = Tail(run.reads) /\ y.results = Append(run.results, q)
          /\ y.enabled = run.enabled /\ y.found = run.found
      BY <1>4, <2>2, <2>4, <2>5 DEF CallRecords
    <2> USE DEF run
    <2>7. tool' = [tool EXCEPT ![c] = v]
      BY <1>7 DEF ReadDone, MoveTo, x, o
    <2> HIDE DEF y
    <2>8. /\ v \in CallRecords /\ v.name = "skill" /\ v.at = "read" /\ v.skill = run.skill
          /\ v.outcomes = Append(run.outcomes, o) /\ v.answer = run.answer
          /\ v.reads = Tail(run.reads) /\ v.results = Append(run.results, q)
          /\ v.enabled = run.enabled /\ v.found = run.found
      BY <2>6 DEF CallRecords, SkillSteps
    <2>9. \A p : EnabledFor(v, p) = EnabledFor(run, p)
      BY <2>8 DEF EnabledFor
    <2> HIDE DEF v
    <2>10. Reading(v, after)
      BY <1>1, <1>2, <1>3, <2>8, ReadingGoesOn DEF o, f, q
    <2>11. CallSound(v, after, <<>>)
      <3>1. \A i \in DOMAIN <<>> : Tells((<<>>)[i].outcomes, after)
        OBVIOUS
      <3>2. QED
        BY <1>2, <2>8, <2>10, <3>1 DEF CallSound, SkillSteps, Ended, Preparing
    <2>12. /\ sent' \in [Calls -> Seq(Outcomes)] /\ sent'[c] = after
           /\ \A d \in Calls \ {c} : sent'[d] = sent[d]
      BY <1>5, <1>7, <2>2 DEF f
    <2>13. QED
      BY <1>1, <1>2, <2>7, <2>8, <2>11, <2>12, RunMoves DEF RunsInv
  <1>8. sent' = sent => sent' = [sent EXCEPT ![c] = sent[c]]
    BY <1>5
  <1>9. {"capability_unavailable", "provider_unavailable", "cancelled"} \subseteq Codes
    BY DEF Codes
  <1>10. CASE /\ FailWith(c, ListedRead(run, Outcome(q, "error")), "capability_unavailable")
              /\ UNCHANGED sent
    BY <1>2, <1>6, <1>8, <1>9, <1>10
  <1>11. \A f \in {"refused", "drift", "unknown"} : Append(sent[c], Outcome(q, f)) \in Seq(Outcomes)
    BY <1>2, <1>5
  <1>12. CASE /\ sent' = [sent EXCEPT ![c] = Append(sent[c], Outcome(q, "refused"))]
              /\ FailWith(c, ListedRead(run, Outcome(q, "error")), "provider_unavailable")
    BY <1>6, <1>9, <1>11, <1>12
  <1>13. CASE /\ sent' = [sent EXCEPT ![c] = Append(sent[c], Outcome(q, "drift"))]
              /\ MoveTo(c, ListedRead(run, Outcome(q, "error")), "drift")
    BY <1>6, <1>11, <1>13
  <1>14. CASE /\ sent' = [sent EXCEPT ![c] = Append(sent[c], Outcome(q, "unknown"))]
              /\ FailWith(c, ListedRead(run, Outcome(q, "cancelled")), "cancelled")
    BY <1>6, <1>9, <1>11, <1>14
  <1>15. QED
    BY <1>7, <1>10, <1>12, <1>13, <1>14 DEF ExecuteRead, CancelRead, q

\* After a drift the run ends with what it listed.
LEMMA DriftKeeps ==
    ASSUME RunsInv, NEW c \in Calls, AfterDrift(c)
    PROVE  RunsInv'
  <1>1. /\ tool[c].at = "drift" /\ UNCHANGED <<sent, written>>
        /\ FailWith(c, tool[c], "provider_schema_changed")
    BY DEF AfterDrift, At, DriftHandled
  <1>2. tool[c] \in CallRecords /\ tool[c].name = "skill" /\ Tells(tool[c].outcomes, sent[c])
    BY <1>1, RunAt, CallState DEF CallSound
  <1>3. PICK v \in CallRecords :
           /\ tool' = [tool EXCEPT ![c] = v] /\ v.name = "skill" /\ v.skill = tool[c].skill
           /\ v.at = "audit" /\ v.answer # "ok" /\ v.outcomes = tool[c].outcomes
    BY <1>1, <1>2, RunFails DEF Codes
  <1>4. QED
    BY <1>1, <1>2, <1>3, StopsReading DEF RunsInv

\* Two records of one call that agree on the read fields are read alike.
LEMMA SameReading ==
    ASSUME NEW before, NEW now, NEW received,
           now.skill = before.skill, now.outcomes = before.outcomes,
           now.results = before.results, now.enabled = before.enabled,
           now.found = before.found, now.reads = before.reads, Reading(before, received)
    PROVE  Reading(now, received)
  <1>1. \A p : EnabledFor(now, p) = EnabledFor(before, p)
    BY DEF EnabledFor
  <1>2. /\ Len(received) = Len(now.results) /\ Len(now.outcomes) = Len(now.results)
        /\ Len(now.results) + Len(now.reads) = Len(now.skill.reads)
        /\ now.skill.cites => now.found
    BY Zenon DEF Reading
  <1>3. \A i \in 1 .. Len(now.results) : /\ received[i] = Outcome(now.results[i], "data")
                                         /\ now.outcomes[i] = Outcome(now.results[i], "ok")
    BY Zenon DEF Reading
  <1>4. \A i \in 1 .. Len(now.results) : EnabledFor(now, now.skill.reads[i]) = {now.results[i]}
    <2> SUFFICES ASSUME NEW i \in 1 .. Len(now.results)
                 PROVE  EnabledFor(now, now.skill.reads[i]) = {now.results[i]}
      OBVIOUS
    <2>1. EnabledFor(before, before.skill.reads[i]) = {before.results[i]}
      BY Zenon DEF Reading
    <2>2. QED
      BY <1>1, <2>1
  <1>5. \A i \in 1 .. Len(now.reads) :
          EnabledFor(now, now.skill.reads[Len(now.results) + i]) = {now.reads[i]}
    <2> SUFFICES ASSUME NEW i \in 1 .. Len(now.reads)
                 PROVE  EnabledFor(now, now.skill.reads[Len(now.results) + i]) = {now.reads[i]}
      OBVIOUS
    <2>1. EnabledFor(before, before.skill.reads[Len(before.results) + i]) = {before.reads[i]}
      BY Zenon DEF Reading
    <2>2. QED
      BY <1>1, <2>1
  <1>6. QED
    BY <1>2, <1>3, <1>4, <1>5, Zenon DEF Reading

\* And as complete.
LEMMA SameComplete ==
    ASSUME NEW before, NEW now, NEW received,
           now.skill = before.skill, now.results = before.results,
           now.enabled = before.enabled, now.found = before.found, Complete(before, received)
    PROVE  Complete(now, received)
  <1>1. \A p : EnabledFor(now, p) = EnabledFor(before, p)
    BY DEF EnabledFor
  <1>2. /\ Len(now.results) = Len(now.skill.reads)
        /\ now.skill.cites => now.found
    BY Zenon DEF Complete
  <1>3. \A i \in DOMAIN now.results : /\ EnabledFor(now, now.skill.reads[i]) = {now.results[i]}
                                      /\ received[i] = Outcome(now.results[i], "data")
    BY <1>1, Zenon DEF Complete
  <1>4. QED
    BY <1>2, <1>3, Zenon DEF Complete

\* The last read done, the output is built.
LEMMA FinishedKeeps ==
    ASSUME RunsInv, NEW c \in Calls, ReadsFinished(c)
    PROVE  RunsInv'
  <1> DEFINE run == tool[c]
             v == [run EXCEPT !.at = "output"]
  <1>1. run.at = "read" /\ run.reads = <<>> /\ UNCHANGED <<sent, written>> /\ Move(c, run)
    BY DEF ReadsFinished, At
  <1>2. /\ run \in CallRecords /\ run.name = "skill" /\ run.skill \in SkillSet
        /\ run.answer # "ok" /\ written[c] = <<>> /\ Reading(run, sent[c])
    BY <1>1, RunAt, CallState DEF CallSound
  <1>3. tool' = [tool EXCEPT ![c] = v]
    BY <1>1, <1>2, AfterOfSkill DEF Move
  <1>4. v \in CallRecords
    BY <1>2, AtChanges DEF SkillSteps
  <1>5. /\ v.name = "skill" /\ v.at = "output" /\ v.skill = run.skill /\ v.reads = <<>>
        /\ v.reads = run.reads
        /\ v.outcomes = run.outcomes /\ v.results = run.results /\ v.answer # "ok"
        /\ v.enabled = run.enabled /\ v.found = run.found
    BY <1>1, <1>2 DEF CallRecords
  <1> HIDE DEF v
  <1>6. \A p : EnabledFor(v, p) = EnabledFor(run, p)
    BY <1>5 DEF EnabledFor
  <1>7. Reading(v, sent[c])
    BY <1>2, <1>5, <1>6, SameReading
  <1>8. CallSound(v, sent[c], <<>>)
    <2>1. \A i \in DOMAIN <<>> : Tells((<<>>)[i].outcomes, sent[c])
      OBVIOUS
    <2>2. QED
      BY <1>2, <1>5, <1>7, <2>1 DEF CallSound, SkillSteps, Ended, Preparing
  <1>9. QED
    BY <1>1, <1>2, <1>3, <1>4, <1>8, RunMoves DEF RunsInv

\* The output answers ok only from a complete set of reads.
LEMMA OutputKeeps ==
    ASSUME RunsInv, NEW c \in Calls, BuildOutput(c)
    PROVE  RunsInv'
  <1> DEFINE run == tool[c]
  <1>1. run.at = "output" /\ UNCHANGED <<sent, written>>
    BY DEF BuildOutput, At
  <1>2. /\ run \in CallRecords /\ run.name = "skill" /\ run.skill \in SkillSet
        /\ written[c] = <<>> /\ sent[c] \in Seq(Outcomes)
        /\ Reading(run, sent[c]) /\ run.reads = <<>>
    BY <1>1, RunAt, CallState DEF CallSound
  <1>3. Tells(run.outcomes, sent[c])
    BY <1>2, ReadingTells
  <1>4. CASE FailWith(c, run, "skill_output_invalid")
    <2>1. PICK v \in CallRecords :
             /\ tool' = [tool EXCEPT ![c] = v] /\ v.name = "skill" /\ v.skill = tool[c].skill
             /\ v.at = "audit" /\ v.answer # "ok" /\ v.outcomes = tool[c].outcomes
      BY <1>1, <1>2, <1>4, RunFails DEF Codes
    <2>2. QED
      BY <1>1, <1>3, <2>1, StopsReading DEF RunsInv
  <1>5. CASE Move(c, [run EXCEPT !.answer = "ok"])
    <2> DEFINE x == [run EXCEPT !.answer = "ok"]
               v == [x EXCEPT !.at = "audit"]
    <2>1. /\ x \in CallRecords /\ x.name = "skill" /\ x.at = "output" /\ x.skill = run.skill
          /\ x.outcomes = run.outcomes /\ x.results = run.results /\ x.answer = "ok"
          /\ x.enabled = run.enabled /\ x.found = run.found
      BY <1>1, <1>2 DEF CallRecords
    <2>2. Move(c, x)
      BY <1>5
    <2> HIDE DEF x
    <2>3. tool' = [tool EXCEPT ![c] = v]
      BY <2>1, <2>2, AfterOfSkill DEF Move
    <2>4. v \in CallRecords
      BY <2>1, AtChanges DEF SkillSteps, Ended
    <2>5. /\ v.name = "skill" /\ v.at = "audit" /\ v.skill = run.skill
          /\ v.outcomes = run.outcomes /\ v.results = run.results /\ v.answer = "ok"
          /\ v.enabled = run.enabled /\ v.found = run.found
      BY <2>1 DEF CallRecords
    <2> HIDE DEF v
    <2>6. \A p : EnabledFor(v, p) = EnabledFor(run, p)
      BY <2>5 DEF EnabledFor
    <2>7. Complete(v, sent[c])
      <3>1. run.results \in Seq(Items) /\ DOMAIN run.results = 1 .. Len(run.results)
            /\ Len(run.reads) = 0 /\ Len(run.results) \in Nat
        BY <1>2 DEF CallRecords
      <3>2. Len(run.results) = Len(run.skill.reads)
        BY <1>2, <3>1 DEF Reading
      <3>3. \A i \in DOMAIN run.results :
               /\ EnabledFor(run, run.skill.reads[i]) = {run.results[i]}
               /\ sent[c][i] = Outcome(run.results[i], "data")
        BY <1>2, <3>1 DEF Reading
      <3>4. run.skill.cites => run.found
        BY <1>2 DEF Reading
      <3>5. QED
        BY <2>5, <2>6, <3>2, <3>3, <3>4 DEF Complete
    <2>8. CallSound(v, sent[c], <<>>)
      <3>1. \A i \in DOMAIN <<>> : Tells((<<>>)[i].outcomes, sent[c])
        OBVIOUS
      <3>2. QED
        BY <1>2, <1>3, <2>5, <2>7, <3>1 DEF CallSound, SkillSteps, Ended, Preparing
    <2>9. QED
      BY <1>1, <1>2, <2>3, <2>4, <2>8, RunMoves DEF RunsInv
  <1>6. QED
    BY <1>4, <1>5 DEF BuildOutput

\* What an audit of a call writes tells what the call tells.
LEMMA AuditTells ==
    ASSUME NEW run \in CallRecords, NEW events \in Seq(Events), NEW received,
           Tells(run.outcomes, received), \A i \in DOMAIN events : Tells(events[i].outcomes, received)
    PROVE  /\ Append(events, AuditEvent(run)) \in Seq(Events)
           /\ \A i \in DOMAIN Append(events, AuditEvent(run)) :
                 Tells(Append(events, AuditEvent(run))[i].outcomes, received)
  <1> DEFINE e == AuditEvent(run)
             after == Append(events, e)
  <1>1. e \in Events /\ e.outcomes = run.outcomes
    <2> DEFINE said == IF run.answer \in {"ok", "cancelled"} THEN run.answer ELSE "error"
    <2>1. said \in {"ok", "cancelled", "error"}
      OBVIOUS
    <2>2. e = [status |-> said, outcomes |-> run.outcomes]
      BY DEF AuditEvent
    <2>3. run.outcomes \in Seq(Outcomes)
      BY DEF CallRecords
    <2> HIDE DEF said, e
    <2>4. QED
      BY <2>1, <2>2, <2>3 DEF Events
  <1> HIDE DEF e
  <1>2. /\ after \in Seq(Events) /\ DOMAIN after = 1 .. Len(events) + 1
        /\ after[Len(events) + 1] = e /\ \A i \in 1 .. Len(events) : after[i] = events[i]
    BY <1>1
  <1>3. \A i \in DOMAIN after : Tells(after[i].outcomes, received)
    BY <1>1, <1>2
  <1>4. QED
    BY <1>2, <1>3 DEF e

\* A call that ended keeps what it answered, through its audits and its close.
LEMMA EndsKeep ==
    ASSUME RunsInv, NEW c \in Calls, tool[c].at \in {"audit", "close"},
           NEW step \in {"audit", "close", "done"}, tool[c].at = "close" => step # "audit",
           tool[c].name # "skill" => step # "audit",
           NEW v \in CallRecords, tool' = [tool EXCEPT ![c] = v], v.at = step,
           v.name = tool[c].name, v.skill = tool[c].skill, v.outcomes = tool[c].outcomes,
           v.results = tool[c].results, v.enabled = tool[c].enabled, v.found = tool[c].found,
           v.answer \in {tool[c].answer, "cancelled"},
           UNCHANGED sent,
           \/ UNCHANGED written
           \/ /\ tool[c].at = "audit"
              /\ written' = [written EXCEPT ![c] = Append(@, AuditEvent(tool[c]))]
    PROVE  RunsInv'
  <1>1. /\ tool[c] \in CallRecords /\ sent[c] \in Seq(Outcomes) /\ written[c] \in Seq(Events)
        /\ CallSound(tool[c], sent[c], written[c])
    BY CallState
  <1>2. /\ written' \in [Calls -> Seq(Events)]
        /\ \A i \in DOMAIN written'[c] : Tells(written'[c][i].outcomes, sent[c])
        /\ \A d \in Calls \ {c} : written'[d] = written[d]
    <2>1. written \in [Calls -> Seq(Events)]
          /\ \A i \in DOMAIN written[c] : Tells(written[c][i].outcomes, sent[c])
      BY <1>1 DEF RunsInv, CallSound
    <2>2. CASE UNCHANGED written
      BY <2>1, <2>2
    <2>3. CASE /\ tool[c].at = "audit"
               /\ written' = [written EXCEPT ![c] = Append(@, AuditEvent(tool[c]))]
      <3>1. Tells(tool[c].outcomes, sent[c])
        BY <1>1, <2>3 DEF CallSound
      <3>2. /\ Append(written[c], AuditEvent(tool[c])) \in Seq(Events)
            /\ \A i \in DOMAIN Append(written[c], AuditEvent(tool[c])) :
                  Tells(Append(written[c], AuditEvent(tool[c]))[i].outcomes, sent[c])
        BY <1>1, <2>1, <3>1, AuditTells
      <3>3. QED
        BY <2>1, <2>3, <3>2
    <2>4. QED
      BY <2>2, <2>3
  <1>4. v.name = "skill" /\ v.answer = "ok" => Complete(v, sent[c])
    <2> SUFFICES ASSUME v.name = "skill", v.answer = "ok" PROVE Complete(v, sent[c])
      OBVIOUS
    <2>1. Complete(tool[c], sent[c])
      BY <1>1 DEF CallSound
    <2>2. QED
      BY <2>1, SameComplete
  <1>5. /\ v.at # "idle" /\ v.name # "none"
        /\ v.name = "skill" => v.at \in SkillSteps /\ v.skill \in SkillSet
        /\ v.at \in Ended /\ v.at \notin Preparing \cup {"read", "output", "drift"}
    BY <1>1 DEF CallSound, SkillSteps, Ended, Preparing
  <1>6. v.at = "audit" => Tells(v.outcomes, sent[c])
    BY <1>1 DEF CallSound
  <1>7. v.name # "skill" => sent[c] = <<>> /\ v.outcomes = <<>> /\ v.results = <<>>
    BY <1>1 DEF CallSound
  <1>8. CallSound(v, sent[c], written'[c])
    BY <1>2, <1>4, <1>5, <1>6, <1>7 DEF CallSound
  <1>9. QED
    BY <1>2, <1>8, RunMoves DEF RunsInv

\* The audit is written from the outcomes listed, and the runtime is closed.
LEMMA EndingKeeps ==
    ASSUME RunsInv, NEW c \in Calls, WriteAudit(c) \/ CloseRuntime(c)
    PROVE  RunsInv'
  <1>1. tool[c] \in CallRecords
    BY CallState
  <1>2. CASE WriteAudit(c)
    <2> DEFINE v == [tool[c] EXCEPT !.at = "close"]
    <2>1. v \in CallRecords
      BY <1>1, AtChanges DEF SkillSteps, Ended
    <2>2. /\ v.at = "close" /\ v.name = tool[c].name /\ v.skill = tool[c].skill
          /\ v.outcomes = tool[c].outcomes /\ v.results = tool[c].results
          /\ v.enabled = tool[c].enabled /\ v.found = tool[c].found /\ v.answer = tool[c].answer
      BY <1>1 DEF CallRecords
    <2>3. tool' = [tool EXCEPT ![c] = v]
      BY <1>2 DEF WriteAudit, MoveTo
    <2> HIDE DEF v
    <2>4. QED
      BY <1>2, <2>1, <2>2, <2>3, EndsKeep DEF WriteAudit, At
  <1>3. CASE CloseRuntime(c)
    <2> DEFINE v == [tool[c] EXCEPT !.at = "done"]
    <2>1. v \in CallRecords
      BY <1>1, AtChanges DEF SkillSteps, Ended
    <2>2. /\ v.at = "done" /\ v.name = tool[c].name /\ v.skill = tool[c].skill
          /\ v.outcomes = tool[c].outcomes /\ v.results = tool[c].results
          /\ v.enabled = tool[c].enabled /\ v.found = tool[c].found /\ v.answer = tool[c].answer
      BY <1>1 DEF CallRecords
    <2>3. tool' = [tool EXCEPT ![c] = v]
      BY <1>3 DEF CloseRuntime, MoveTo
    <2> HIDE DEF v
    <2>4. QED
      BY <1>3, <2>1, <2>2, <2>3, EndsKeep DEF CloseRuntime, At
  <1>4. QED
    BY <1>2, <1>3

\* A store that fails ends the call.
LEMMA FailingKeeps ==
    ASSUME RunsInv, NEW c \in Calls, StepFails(c)
    PROVE  RunsInv'
  BY FailKeeps DEF StepFails, Preparing, PlainSteps, Codes

\* A client that cancels ends the call, with the reads that were under way listed.
LEMMA CancelledKeeps ==
    ASSUME RunsInv, NEW c \in Calls, Cancelled(c)
    PROVE  RunsInv'
  <1> DEFINE run == tool[c]
  <1>1. /\ run \in CallRecords /\ sent[c] \in Seq(Outcomes) /\ written[c] \in Seq(Events)
        /\ CallSound(run, sent[c], written[c])
    BY CallState
  <1>2. /\ run.at \notin {"idle", "close", "done", "bind", "output"} /\ UNCHANGED sent
        /\ \/ UNCHANGED written
           \/ /\ run.at = "audit"
              /\ written' = [written EXCEPT ![c] = Append(@, AuditEvent(run))]
    BY DEF Cancelled
  <1>3. CASE run.at = "read"
    <2> DEFINE q == Head(run.reads)
               o == Outcome(q, "cancelled")
               x == ListedRead(run, o)
    <2>1. run.reads # <<>> /\ FailWith(c, x, "cancelled") /\ UNCHANGED <<sent, written>>
      BY <1>2, <1>3 DEF Cancelled, CancelRead
    <2>2. /\ run.name = "skill" /\ run.skill \in SkillSet /\ run.answer # "ok"
          /\ Reading(run, sent[c])
      BY <1>1, <1>3, RunAt DEF CallSound
    <2>3. q \in Items
      BY <1>1, <2>1 DEF CallRecords
    <2> HIDE DEF q
    <2>4. o \in Outcomes /\ o.status # "ok"
      BY <2>3 DEF Outcome, Outcomes, Named
    <2> HIDE DEF o
    <2>5. Tells(Append(run.outcomes, o), sent[c])
      BY <1>1, <2>2, <2>4, ReadingEnds
    <2>6. /\ x \in CallRecords /\ x.name = "skill" /\ x.at = "read" /\ x.skill = run.skill
          /\ x.outcomes = Append(run.outcomes, o)
      <3>1. Append(run.outcomes, o) \in Seq(Outcomes)
        BY <1>1, <2>4 DEF CallRecords
      <3>2. QED
        BY <1>1, <1>3, <2>2, <3>1 DEF ListedRead, CallRecords
    <2> HIDE DEF x
    <2>7. PICK v \in CallRecords :
             /\ tool' = [tool EXCEPT ![c] = v] /\ v.name = "skill" /\ v.skill = x.skill
             /\ v.at = "audit" /\ v.answer # "ok" /\ v.outcomes = x.outcomes
      BY <2>1, <2>6, RunFails DEF Codes
    <2>8. QED
      BY <1>3, <2>1, <2>5, <2>6, <2>7, StopsReading DEF RunsInv
  <1>4. CASE run.at = "audit"
    <2> DEFINE x == [run EXCEPT !.answer = "cancelled"]
               step == IF run.name = "skill" /\ run.answer = "ok" THEN "audit" ELSE "close"
               v == [x EXCEPT !.at = step]
    <2>1. MoveTo(c, x, step)
      BY <1>4 DEF Cancelled
    <2>2. /\ x \in CallRecords /\ x.name = run.name /\ x.skill = run.skill
          /\ x.outcomes = run.outcomes /\ x.results = run.results
          /\ x.enabled = run.enabled /\ x.found = run.found /\ x.answer = "cancelled"
      BY <1>1 DEF CallRecords, Codes
    <2>3. step \in {"audit", "close"} /\ (run.name # "skill" => step = "close")
      OBVIOUS
    <2> HIDE DEF x, step
    <2>4. v \in CallRecords
      BY <2>2, <2>3, AtChanges DEF SkillSteps, Ended
    <2>5. /\ v.at = step /\ v.name = run.name /\ v.skill = run.skill
          /\ v.outcomes = run.outcomes /\ v.results = run.results
          /\ v.enabled = run.enabled /\ v.found = run.found /\ v.answer = "cancelled"
      BY <2>2 DEF CallRecords
    <2>6. tool' = [tool EXCEPT ![c] = v]
      BY <2>1 DEF MoveTo
    <2> HIDE DEF v
    <2>7. QED
      BY <1>2, <1>4, <2>3, <2>4, <2>5, <2>6, EndsKeep
  <1>5. CASE run.at = "drift"
    <2>1. FailWith(c, run, "cancelled") /\ UNCHANGED <<sent, written>>
      BY <1>2, <1>5 DEF Cancelled
    <2>2. run.name = "skill" /\ Tells(run.outcomes, sent[c])
      BY <1>1, <1>5, RunAt DEF CallSound
    <2>3. PICK v \in CallRecords :
             /\ tool' = [tool EXCEPT ![c] = v] /\ v.name = "skill" /\ v.skill = run.skill
             /\ v.at = "audit" /\ v.answer # "ok" /\ v.outcomes = run.outcomes
      BY <1>1, <1>5, <2>1, <2>2, RunFails DEF Codes
    <2>4. QED
      BY <1>5, <2>1, <2>2, <2>3, StopsReading DEF RunsInv
  <1>6. CASE run.at \notin {"read", "audit", "drift"}
    <2>1. FailWith(c, run, "cancelled") /\ UNCHANGED <<sent, written>>
      BY <1>2, <1>6 DEF Cancelled
    <2>2. run.at \in (Preparing \cup PlainSteps) \ {"audit"}
      BY <1>1, <1>2, <1>6 DEF CallRecords, SkillSteps, Ended, Preparing
    <2>3. QED
      BY <2>1, <2>2, FailKeeps DEF Codes
  <1>7. QED
    BY <1>3, <1>4, <1>5, <1>6

-----------------------------------------------------------------------------
\* The invariant holds before any call.
LEMMA RunsInit == SkillToolsInit => RunsInv
  <1> SUFFICES ASSUME SkillToolsInit PROVE RunsInv
    OBVIOUS
  <1>1. Waiting \in CallRecords
    BY DEF Waiting, CallRecords
  <1>2. /\ tool = [c \in Calls |-> Waiting] /\ sent = [c \in Calls |-> <<>>]
        /\ written = [c \in Calls |-> <<>>]
    BY DEF SkillToolsInit
  <1>3. /\ Waiting.name = "none" /\ Waiting.at = "idle" /\ Waiting.outcomes = <<>>
        /\ Waiting.results = <<>> /\ Waiting.answer = "none"
    BY DEF Waiting
  <1>4. CallSound(Waiting, <<>>, <<>>)
    <2>1. \A i \in DOMAIN <<>> : Tells((<<>>)[i].outcomes, <<>>)
      OBVIOUS
    <2>2. QED
      BY <1>3, <2>1 DEF CallSound
  <1> HIDE DEF Waiting
  <1>5. QED
    BY <1>1, <1>2, <1>4 DEF RunsInv

\* Every step of a call and of the world keeps the invariant.
LEMMA RunsSteps == RunsInv /\ [SkillToolsNext]_skillVars => RunsInv'
  <1> SUFFICES ASSUME RunsInv, [SkillToolsNext]_skillVars PROVE RunsInv'
    OBVIOUS
  <1>1. CASE WorldChanges \/ UNCHANGED skillVars
    BY <1>1 DEF WorldChanges, skillVars, RunsInv
  <1>2. ASSUME NEW c \in Calls, SkillToolsNext, ~WorldChanges,
               \/ CallTool(c) \/ RequireWorkspace(c) \/ RuntimeFrom(c) \/ RuntimeBuilt(c)
               \/ ListConnections(c)
               \/ ReadConnection(c) \/ CatalogQualifications(c) \/ ResolveQualification(c)
               \/ QualificationsResolved(c) \/ ScanConnections(c) \/ GetProjection(c)
               \/ SearchKnowledge(c) \/ StartConnection(c) \/ DisconnectProvider(c)
        PROVE  RunsInv'
    BY <1>2, CallToolKeeps, WorkspaceKeeps, RuntimeKeeps, ConnectionsKeep, ReadConnectionKeeps,
       CatalogKeeps, ResolveKeeps, ResolvedKeeps, ScanKeeps, SearchKeeps, ServiceKeeps
  <1>3. ASSUME NEW c \in Calls, SkillToolsNext, ~WorldChanges,
               \/ BindReads(c) \/ ExecuteRead(c) \/ AfterDrift(c) \/ ReadsFinished(c)
               \/ BuildOutput(c) \/ WriteAudit(c) \/ CloseRuntime(c) \/ StepFails(c) \/ Cancelled(c)
        PROVE  RunsInv'
    BY <1>3, BindKeeps, ReadKeeps, DriftKeeps, FinishedKeeps, OutputKeeps, EndingKeeps,
       FailingKeeps, CancelledKeeps
  <1>4. QED
    BY <1>1, <1>2, <1>3 DEF SkillToolsNext

-----------------------------------------------------------------------------
\* A call that left while its runtime was being built.
Left(run) == run.answer = "cancelled" /\ run.at \in Ended

\* A runtime is built once its call awaits it; the call holds it until it is closed, or
\* left before it was given it.
HeldSound(run, built) ==
    /\ run.runtime => built \in {"open", "closed"}
    /\ run.runtime /\ built = "open" => run.at # "done"
    /\ built # "none" => run.at \notin {"idle", "workspace", "projection"}
    /\ run.at = "runtime" => built \in {"none", "building"}
    /\ built = "building" => run.at = "runtime" \/ Left(run)
    /\ built = "open" /\ ~run.runtime => Left(run)

\* What every reachable state keeps about the runtimes.
HeldInv ==
    /\ composition \in [Calls -> {"none", "building", "open", "closed"}]
    /\ \A c \in Calls : HeldSound(tool[c], composition[c])

\* A step of a call between opening its runtime and its end.
Goes(c) ==
    /\ tool[c].at \notin Ended \cup {"runtime", "idle"}
    /\ \/ tool[c].at # "drift" /\ tool'[c].at = After(tool[c])
       \/ tool'[c].at \in {tool[c].at, "drift", "audit", "close"}
    /\ tool'[c].runtime = tool[c].runtime
    /\ \A d \in Calls \ {c} : tool'[d] = tool[d]
    /\ UNCHANGED composition

\* The runtime is awaited after the workspace and the projection, and nothing before it
\* comes again.
LEMMA AwaitsFollow ==
    ASSUME NEW n \in FixedTools, NEW i \in DOMAIN Steps[n], i + 1 \in DOMAIN Steps[n]
    PROVE  /\ Steps[n][i + 1] \notin {"idle", "workspace", "done"}
           /\ Steps[n][i + 1] \in {"projection", "runtime"} =>
                 Steps[n][i] \in {"workspace", "projection"}
  <1>1. CASE n = "start"
    BY <1>1 DEF Steps
  <1>2. CASE n = "list"
    BY <1>2 DEF Steps
  <1>3. CASE n = "status"
    BY <1>3 DEF Steps
  <1>4. CASE n = "listing"
    BY <1>4 DEF Steps
  <1>5. CASE n = "schema"
    BY <1>5 DEF Steps
  <1>6. CASE n = "search"
    BY <1>6 DEF Steps
  <1>7. CASE n = "pack"
    BY <1>7 DEF Steps
  <1>8. CASE n = "skill"
    <2>1. Steps[n] = SkillAwaits
      BY <1>8, SkillAwaitsListed
    <2>2. QED
      BY <2>1, SkillAwaitsListed
  <1>9. CASE n = "disconnect"
    BY <1>9 DEF Steps
  <1>10. QED
    BY <1>1, <1>2, <1>3, <1>4, <1>5, <1>6, <1>7, <1>8, <1>9 DEF FixedTools

\* So it is for the await after one of a call.
LEMMA AfterFollows ==
    ASSUME NEW run, run.name \in FixedTools, Awaits(run.name, run.at)
    PROVE  /\ After(run) \notin {"idle", "workspace", "done"}
           /\ After(run) \in {"projection", "runtime"} => run.at \in {"workspace", "projection"}
  <1> DEFINE steps == Steps[run.name]
             here == CHOOSE i \in DOMAIN steps : steps[i] = run.at
  <1>1. here \in DOMAIN steps /\ steps[here] = run.at
    BY DEF Awaits
  <1>2. After(run) = IF here < Len(steps) THEN steps[here + 1] ELSE "close"
    BY DEF After
  <1>3. DOMAIN steps = 1 .. Len(steps) /\ Len(steps) \in Nat
    <2>1. run.name # "skill" => steps \in Seq(PlainSteps)
      BY StepsListed
    <2>2. run.name = "skill" => steps = SkillAwaits
      BY SkillAwaitsListed
    <2>3. QED
      BY <2>1, <2>2, SkillAwaitsListed
  <1> HIDE DEF here
  <1>4. CASE here < Len(steps)
    <2>1. here + 1 \in DOMAIN steps
      BY <1>1, <1>3, <1>4
    <2>2. QED
      BY <1>1, <1>2, <1>4, <2>1, AwaitsFollow
  <1>5. CASE ~(here < Len(steps))
    BY <1>2, <1>5
  <1>6. QED
    BY <1>4, <1>5

\* A call that goes on keeps the runtime it was given, if it was given one.
LEMMA GoesKeeps ==
    ASSUME RunsInv, HeldInv, NEW c \in Calls, Goes(c)
    PROVE  HeldInv'
  <1> DEFINE run == tool[c]
             v == tool'[c]
             built == composition[c]
  <1>1. /\ run \in CallRecords /\ HeldSound(run, built)
        /\ run.at \notin Ended \cup {"runtime", "idle"} /\ v.runtime = run.runtime
    BY CallState DEF Goes, HeldInv
  <1>2. /\ v.at \notin {"idle", "workspace", "done"} \/ v.at = run.at
        /\ v.at \in {"projection", "runtime"} => run.at \in {"workspace", "projection"}
    <2>1. CASE run.at # "drift" /\ v.at = After(run)
      <3>1. run.name \in FixedTools /\ Awaits(run.name, run.at)
        <4>1. CallSound(run, sent[c], written[c])
          BY CallState
        <4>2. run.name \in FixedTools
          BY <1>1, <4>1 DEF CallSound, CallRecords
        <4>3. run.name # "skill" => Awaits(run.name, run.at)
          BY <1>1, <4>1, <4>2 DEF CallSound, Ended, FixedTools
        <4>4. run.name = "skill" => \E i \in 1 .. 11 : SkillAwaits[i] = run.at
          BY <1>1, <2>1, <4>1, SkillAwaitsListed DEF CallSound, SkillSteps, Preparing
        <4>5. QED
          BY <4>2, <4>3, <4>4, SkillAwaitsListed DEF Awaits
      <3>2. QED
        BY <2>1, <3>1, AfterFollows
    <2>2. CASE v.at \in {run.at, "drift", "audit", "close"}
      BY <1>1, <2>2
    <2>3. QED
      BY <2>1, <2>2 DEF Goes
  <1>3. v.at # "done"
    BY <1>1, <1>2 DEF Ended
  <1> HIDE DEF run, v, built
  <1>4. HeldSound(v, built)
    BY <1>1, <1>2, <1>3 DEF HeldSound, Left
  <1>5. QED
    BY <1>4 DEF Goes, HeldInv, v, built

\* A call that moves with the runtime it has is such a step.
LEMMA MoveGoes ==
    ASSUME RunsInv, NEW c \in Calls, NEW run, {"at", "runtime", "answer"} \subseteq DOMAIN run,
           run.name = tool[c].name, run.at = tool[c].at, run.runtime = tool[c].runtime,
           tool[c].at \notin Ended \cup {"runtime", "idle"}, UNCHANGED composition,
           \/ tool[c].at # "drift" /\ Move(c, run)
           \/ \E code \in Codes : FailWith(c, run, code)
           \/ \E step \in {tool[c].at, "drift", "close"} : MoveTo(c, run, step)
    PROVE  Goes(c)
  <1>1. tool \in [Calls -> CallRecords]
    BY DEF RunsInv
  <1>2. CASE tool[c].at # "drift" /\ Move(c, run)
    <2>1. After(run) = After(tool[c])
      BY DEF After
    <2>2. QED
      BY <1>1, <1>2, <2>1 DEF Move, Goes
  <1>3. ASSUME NEW code \in Codes, FailWith(c, run, code)
        PROVE  Goes(c)
    BY <1>1, <1>3 DEF FailWith, MoveTo, Goes
  <1>4. ASSUME NEW step \in {tool[c].at, "drift", "close"}, MoveTo(c, run, step)
        PROVE  Goes(c)
    BY <1>1, <1>4 DEF MoveTo, Goes
  <1>5. QED
    BY <1>2, <1>3, <1>4

\* The steps of a call between its runtime and its end, the reads aside.
LEMMA WorkGoes ==
    ASSUME RunsInv, NEW c \in Calls,
           \/ RequireWorkspace(c) \/ GetProjection(c) \/ StartConnection(c) \/ BuildOutput(c)
           \/ SearchKnowledge(c) \/ ReadConnection(c) \/ DisconnectProvider(c)
           \/ AfterDrift(c) \/ ReadsFinished(c) \/ QualificationsResolved(c)
    PROVE  Goes(c)
  <1>1. tool[c] \in CallRecords
    BY CallState
  <1>2. tool[c].at \notin Ended \cup {"runtime", "idle"} /\ UNCHANGED composition
    BY DEF RequireWorkspace, GetProjection, StartConnection, BuildOutput, SearchKnowledge,
       ReadConnection, DisconnectProvider, AfterDrift, ReadsFinished, QualificationsResolved,
       At, Ended
  <1>3. PICK run \in {tool[c]} \cup {[tool[c] EXCEPT !.answer = x] : x \in {"ok", tool[c].answer}}
                     \cup {[tool[c] EXCEPT !.ready = x] : x \in BOOLEAN}
                     \cup {[tool[c] EXCEPT !.found = x] : x \in BOOLEAN}
                     \cup {[tool[c] EXCEPT !.found = TRUE, !.answer = "ok"]} :
           \/ tool[c].at # "drift" /\ Move(c, run)
           \/ \E code \in Codes : FailWith(c, run, code)
    BY DEF RequireWorkspace, GetProjection, StartConnection, BuildOutput, SearchKnowledge,
       ReadConnection, DisconnectProvider, AfterDrift, DriftHandled, ReadsFinished,
       QualificationsResolved, At, Codes
  <1>4. /\ {"at", "runtime", "answer"} \subseteq DOMAIN run /\ run.name = tool[c].name
        /\ run.at = tool[c].at /\ run.runtime = tool[c].runtime
    BY <1>1 DEF CallRecords
  <1>5. QED
    BY <1>2, <1>3, <1>4, MoveGoes

\* So are those that list connections and catalog rows and go through them.
LEMMA ListingGoes ==
    ASSUME RunsInv, NEW c \in Calls,
           \/ ListConnections(c) \/ CatalogQualifications(c) \/ ResolveQualification(c)
           \/ ScanConnections(c)
    PROVE  Goes(c)
  <1>1. tool[c] \in CallRecords
    BY CallState
  <1>2. tool[c].at \notin Ended \cup {"runtime", "idle", "drift"} /\ UNCHANGED composition
    BY DEF ListConnections, CatalogQualifications, ResolveQualification, ScanConnections, At, Ended
  <1>3. ASSUME NEW run, NEW x, NEW y, NEW z, NEW w,
               run = [tool[c] EXCEPT !.queue = x, !.enabled = y, !.lacking = z, !.answer = w],
               \/ Move(c, run)
               \/ \E step \in {tool[c].at, "close"} : MoveTo(c, run, step)
        PROVE  Goes(c)
    <2>1. /\ {"at", "runtime", "answer"} \subseteq DOMAIN run /\ run.name = tool[c].name
          /\ run.at = tool[c].at /\ run.runtime = tool[c].runtime
      BY <1>1, <1>3 DEF CallRecords
    <2>2. QED
      BY <1>2, <1>3, <2>1, MoveGoes
  <1>4. ASSUME NEW code \in Codes, FailWith(c, tool[c], code) PROVE Goes(c)
    <2>1. {"at", "runtime", "answer"} \subseteq DOMAIN tool[c]
      BY <1>1 DEF CallRecords
    <2>2. QED
      BY <1>2, <1>4, <2>1, MoveGoes
  <1>5. CASE ListConnections(c)
    <2> DEFINE x == IF tool[c].name = "schema" THEN {k \in Visible : tool[c].link \in Matching(k)} ELSE {}
               w == IF tool[c].name = "list" THEN "ok" ELSE tool[c].answer
    <2>1. \/ FailWith(c, tool[c], "provider_connection_required")
          \/ Move(c, [tool[c] EXCEPT !.queue = x, !.answer = w])
      BY <1>5 DEF ListConnections
    <2>2. [tool[c] EXCEPT !.queue = x, !.answer = w]
            = [tool[c] EXCEPT !.queue = x, !.enabled = tool[c].enabled,
                              !.lacking = tool[c].lacking, !.answer = w]
      BY <1>1 DEF CallRecords
    <2> HIDE DEF x, w
    <2>3. QED
      BY <1>3, <1>4, <2>1, <2>2 DEF Codes
  <1>6. CASE CatalogQualifications(c)
    <2>1. PICK x : Move(c, [tool[c] EXCEPT !.queue = x])
      BY <1>6 DEF CatalogQualifications
    <2>2. [tool[c] EXCEPT !.queue = x]
            = [tool[c] EXCEPT !.queue = x, !.enabled = tool[c].enabled,
                              !.lacking = tool[c].lacking, !.answer = tool[c].answer]
      BY <1>1 DEF CallRecords
    <2>3. QED
      BY <1>3, <2>1, <2>2
  <1>7. CASE ResolveQualification(c)
    <2>1. PICK x, y : MoveTo(c, [tool[c] EXCEPT !.queue = x, !.enabled = y], "resolve")
      BY <1>7 DEF ResolveQualification
    <2>2. [tool[c] EXCEPT !.queue = x, !.enabled = y]
            = [tool[c] EXCEPT !.queue = x, !.enabled = y,
                              !.lacking = tool[c].lacking, !.answer = tool[c].answer]
      BY <1>1 DEF CallRecords
    <2>3. tool[c].at = "resolve"
      BY <1>7 DEF ResolveQualification, At
    <2>4. MoveTo(c, [tool[c] EXCEPT !.queue = x, !.enabled = y, !.lacking = tool[c].lacking,
                                    !.answer = tool[c].answer], "resolve")
      BY <2>1, <2>2
    <2>5. QED
      BY <1>3, <2>3, <2>4
  <1>8. CASE ScanConnections(c)
    <2>1. \/ \E code \in Codes : FailWith(c, tool[c], code)
          \/ MoveTo(c, [tool[c] EXCEPT !.answer = "ok"], "close")
          \/ \E x, z : MoveTo(c, [tool[c] EXCEPT !.queue = x, !.lacking = z], "scan")
      BY <1>8 DEF ScanConnections, Codes
    <2>2. [tool[c] EXCEPT !.answer = "ok"]
            = [tool[c] EXCEPT !.queue = tool[c].queue, !.enabled = tool[c].enabled,
                              !.lacking = tool[c].lacking, !.answer = "ok"]
      BY <1>1 DEF CallRecords
    <2>3. \A x, z : [tool[c] EXCEPT !.queue = x, !.lacking = z]
            = [tool[c] EXCEPT !.queue = x, !.enabled = tool[c].enabled,
                              !.lacking = z, !.answer = tool[c].answer]
      BY <1>1 DEF CallRecords
    <2>4. tool[c].at = "scan"
      BY <1>8 DEF ScanConnections, At
    <2>5. CASE MoveTo(c, [tool[c] EXCEPT !.answer = "ok"], "close")
      <3>1. MoveTo(c, [tool[c] EXCEPT !.queue = tool[c].queue, !.enabled = tool[c].enabled,
                                      !.lacking = tool[c].lacking, !.answer = "ok"], "close")
        BY <2>2, <2>5
      <3>2. QED
        BY <1>3, <3>1
    <2>6. ASSUME NEW x, NEW z, MoveTo(c, [tool[c] EXCEPT !.queue = x, !.lacking = z], "scan")
          PROVE  Goes(c)
      <3>1. MoveTo(c, [tool[c] EXCEPT !.queue = x, !.enabled = tool[c].enabled,
                                      !.lacking = z, !.answer = tool[c].answer], "scan")
        BY <2>3, <2>6
      <3>2. QED
        BY <1>3, <2>4, <3>1
    <2>7. QED
      BY <1>4, <2>1, <2>5, <2>6
  <1>9. QED
    BY <1>5, <1>6, <1>7, <1>8

\* So are the reads of a skill.
LEMMA ReadingGoes ==
    ASSUME RunsInv, NEW c \in Calls, BindReads(c) \/ ExecuteRead(c)
    PROVE  Goes(c)
  <1>1. tool[c] \in CallRecords
    BY CallState
  <1>2. tool[c].at \notin Ended \cup {"runtime", "idle", "drift"} /\ UNCHANGED composition
    BY DEF BindReads, ExecuteRead, At, Ended
  <1>3. ASSUME NEW run, NEW x, NEW y, NEW z,
               run = [tool[c] EXCEPT !.outcomes = x, !.reads = y, !.results = z],
               \/ Move(c, run)
               \/ \E code \in Codes : FailWith(c, run, code)
               \/ \E step \in {tool[c].at, "drift"} : MoveTo(c, run, step)
        PROVE  Goes(c)
    <2>1. /\ {"at", "runtime", "answer"} \subseteq DOMAIN run /\ run.name = tool[c].name
          /\ run.at = tool[c].at /\ run.runtime = tool[c].runtime
      BY <1>1, <1>3 DEF CallRecords
    <2>2. QED
      BY <1>2, <1>3, <2>1, MoveGoes
  <1>4. \A x : /\ [tool[c] EXCEPT !.outcomes = x]
                    = [tool[c] EXCEPT !.outcomes = x, !.reads = tool[c].reads,
                                      !.results = tool[c].results]
               /\ [tool[c] EXCEPT !.reads = x]
                    = [tool[c] EXCEPT !.outcomes = tool[c].outcomes, !.reads = x,
                                      !.results = tool[c].results]
    BY <1>1 DEF CallRecords
  <1>5. tool[c] = [tool[c] EXCEPT !.outcomes = tool[c].outcomes, !.reads = tool[c].reads,
                                  !.results = tool[c].results]
    BY <1>1 DEF CallRecords
  <1>6. CASE BindReads(c)
    <2>1. \/ \E x : FailWith(c, [tool[c] EXCEPT !.outcomes = x], "insufficient_evidence")
          \/ FailWith(c, tool[c], "insufficient_evidence")
          \/ \E y : Move(c, [tool[c] EXCEPT !.reads = y])
      BY <1>6 DEF BindReads
    <2>2. ASSUME NEW x, FailWith(c, [tool[c] EXCEPT !.outcomes = x], "insufficient_evidence")
          PROVE  Goes(c)
      <3>1. FailWith(c, [tool[c] EXCEPT !.outcomes = x, !.reads = tool[c].reads,
                                        !.results = tool[c].results], "insufficient_evidence")
        BY <1>4, <2>2
      <3>2. QED
        BY <1>3, <3>1 DEF Codes
    <2>3. CASE FailWith(c, tool[c], "insufficient_evidence")
      <3>1. FailWith(c, [tool[c] EXCEPT !.outcomes = tool[c].outcomes, !.reads = tool[c].reads,
                                        !.results = tool[c].results], "insufficient_evidence")
        BY <1>5, <2>3
      <3>2. QED
        BY <1>3, <3>1 DEF Codes
    <2>4. ASSUME NEW y, Move(c, [tool[c] EXCEPT !.reads = y])
          PROVE  Goes(c)
      <3>1. Move(c, [tool[c] EXCEPT !.outcomes = tool[c].outcomes, !.reads = y,
                                    !.results = tool[c].results])
        BY <1>4, <2>4
      <3>2. QED
        BY <1>3, <3>1
    <2>5. QED
      BY <2>1, <2>2, <2>3, <2>4
  <1>7. CASE ExecuteRead(c)
    <2>1. tool[c].at = "read"
      BY <1>7 DEF ExecuteRead, At
    <2>2. ASSUME NEW x, NEW code \in Codes, FailWith(c, [tool[c] EXCEPT !.outcomes = x], code)
          PROVE  Goes(c)
      <3>1. FailWith(c, [tool[c] EXCEPT !.outcomes = x, !.reads = tool[c].reads,
                                        !.results = tool[c].results], code)
        BY <1>4, <2>2
      <3>2. QED
        BY <1>3, <3>1
    <2>3. ASSUME NEW x, MoveTo(c, [tool[c] EXCEPT !.outcomes = x], "drift")
          PROVE  Goes(c)
      <3>1. MoveTo(c, [tool[c] EXCEPT !.outcomes = x, !.reads = tool[c].reads,
                                      !.results = tool[c].results], "drift")
        BY <1>4, <2>3
      <3>2. QED
        BY <1>3, <3>1
    <2>4. ASSUME NEW q, ReadDone(c, tool[c], q)
          PROVE  Goes(c)
      <3>1. PICK x, y, z : MoveTo(c, [[tool[c] EXCEPT !.outcomes = x] EXCEPT !.reads = y,
                                                                             !.results = z], "read")
        BY <2>4 DEF ReadDone, ListedRead
      <3>2. [[tool[c] EXCEPT !.outcomes = x] EXCEPT !.reads = y, !.results = z]
              = [tool[c] EXCEPT !.outcomes = x, !.reads = y, !.results = z]
        BY <1>1 DEF CallRecords
      <3>3. MoveTo(c, [tool[c] EXCEPT !.outcomes = x, !.reads = y, !.results = z], "read")
        BY <3>1, <3>2
      <3>4. QED
        BY <1>3, <2>1, <3>3
    <2>5. \/ \E code \in Codes : \E o : FailWith(c, ListedRead(tool[c], o), code)
          \/ \E o : MoveTo(c, ListedRead(tool[c], o), "drift")
          \/ \E q : ReadDone(c, tool[c], q)
      BY <1>7 DEF ExecuteRead, CancelRead, Codes
    <2>6. QED
      BY <2>2, <2>3, <2>4, <2>5 DEF ListedRead
  <1>8. QED
    BY <1>6, <1>7

\* A call begins without a runtime.
LEMMA CallToolHeld ==
    ASSUME RunsInv, HeldInv, NEW c \in Calls, CallTool(c)
    PROVE  HeldInv'
  <1>1. tool \in [Calls -> CallRecords] /\ composition[c] = "none"
    BY DEF CallTool, At, RunsInv, HeldInv, HeldSound
  <1>2. PICK t \in Tools, s \in SkillSet :
           \E k : tool' = [tool EXCEPT ![c] = [Waiting EXCEPT
                  !.name = t, !.at = "workspace", !.link = k, !.skill = s]]
    BY DEF CallTool
  <1>3. tool'[c].at = "workspace" /\ ~tool'[c].runtime /\ \A d \in Calls \ {c} : tool'[d] = tool[d]
    BY <1>1, <1>2 DEF Waiting
  <1>4. UNCHANGED composition
    BY DEF CallTool
  <1>5. HeldSound(tool'[c], composition[c])
    BY <1>1, <1>3 DEF HeldSound
  <1>6. QED
    BY <1>3, <1>4, <1>5 DEF HeldInv

\* A runtime is built, and given to a call that still awaits it.
LEMMA RuntimeHeld ==
    ASSUME RunsInv, HeldInv, NEW c \in Calls, RuntimeFrom(c) \/ RuntimeBuilt(c)
    PROVE  HeldInv'
  <1>1. /\ tool \in [Calls -> CallRecords] /\ tool[c] \in CallRecords
        /\ composition \in [Calls -> {"none", "building", "open", "closed"}]
        /\ HeldSound(tool[c], composition[c])
    BY CallState DEF RunsInv, HeldInv
  <1>2. tool[c].at = "runtime" =>
           After(tool[c]) \notin {"idle", "workspace", "projection", "runtime", "done"}
    <2>1. tool[c].at = "runtime" => tool[c].name \in FixedTools /\ Awaits(tool[c].name, "runtime")
      <3>1. tool[c].at = "runtime" /\ tool[c].name # "skill" => Awaits(tool[c].name, "runtime")
        BY AtWork DEF Preparing
      <3>2. tool[c].at = "runtime" => tool[c].name \in FixedTools
        BY AtWork DEF Preparing
      <3>3. tool[c].name = "skill" => Awaits(tool[c].name, "runtime")
        BY SkillAwaitsListed DEF Awaits
      <3>4. QED
        BY <3>1, <3>2, <3>3
    <2>2. QED
      BY <2>1, AfterFollows
  <1>3. CASE RuntimeFrom(c)
    <2>1. CASE MoveTo(c, tool[c], "search") /\ UNCHANGED composition
      <3>1. /\ tool'[c].at = "search" /\ tool'[c].runtime = tool[c].runtime
            /\ \A d \in Calls \ {c} : tool'[d] = tool[d]
        BY <1>1, <2>1 DEF MoveTo, CallRecords
      <3>2. composition[c] = "none" /\ ~tool[c].runtime
        BY <1>1, <1>3 DEF RuntimeFrom, HeldSound
      <3>3. QED
        BY <2>1, <3>1, <3>2 DEF HeldInv, HeldSound
    <2>2. CASE /\ composition[c] = "none"
               /\ composition' = [composition EXCEPT ![c] = "building"] /\ UNCHANGED tool
      <3>1. HeldSound(tool[c], "building")
        BY <1>1, <1>3, <2>2 DEF RuntimeFrom, At, HeldSound
      <3>2. QED
        BY <1>1, <2>2, <3>1 DEF HeldInv
    <2>3. QED
      BY <1>3, <2>1, <2>2 DEF RuntimeFrom
  <1>4. CASE RuntimeBuilt(c)
    <2>1. composition[c] = "building" /\ ~tool[c].runtime
      BY <1>1, <1>4 DEF RuntimeBuilt, HeldSound
    <2>2. CASE tool[c].at # "runtime"
      <3>1. UNCHANGED tool /\ \E b \in {"open", "none"} : composition' = [composition EXCEPT ![c] = b]
        BY <1>4, <2>2 DEF RuntimeBuilt, At
      <3>2. HeldSound(tool[c], "open") /\ HeldSound(tool[c], "none")
        BY <1>1, <2>1, <2>2 DEF HeldSound, Left, Ended
      <3>3. QED
        BY <1>1, <3>1, <3>2 DEF HeldInv
    <2>3. CASE /\ tool[c].at = "runtime" /\ Move(c, [tool[c] EXCEPT !.runtime = TRUE])
               /\ composition' = [composition EXCEPT ![c] = "open"]
      <3>1. After([tool[c] EXCEPT !.runtime = TRUE]) = After(tool[c])
        BY <1>1 DEF After, CallRecords
      <3>2. /\ tool'[c].at = After(tool[c]) /\ tool'[c].runtime
            /\ \A d \in Calls \ {c} : tool'[d] = tool[d]
        BY <1>1, <2>3, <3>1 DEF Move, CallRecords
      <3>3. HeldSound(tool'[c], "open")
        BY <1>2, <2>3, <3>2 DEF HeldSound
      <3>4. QED
        BY <1>1, <2>3, <3>2, <3>3 DEF HeldInv
    <2>4. CASE /\ FailWith(c, tool[c], "temporarily_unavailable")
               /\ composition' = [composition EXCEPT ![c] = "none"]
      <3>1. /\ tool'[c].at \in {"audit", "close"} /\ tool'[c].runtime = tool[c].runtime
            /\ \A d \in Calls \ {c} : tool'[d] = tool[d]
        BY <1>1, <2>4 DEF FailWith, MoveTo, CallRecords
      <3>2. HeldSound(tool'[c], "none")
        BY <2>1, <3>1 DEF HeldSound
      <3>3. QED
        BY <1>1, <2>4, <3>1, <3>2 DEF HeldInv
    <2>5. QED
      BY <1>4, <2>2, <2>3, <2>4 DEF RuntimeBuilt, At
  <1>5. QED
    BY <1>3, <1>4

\* A call that fails or is cancelled while its runtime is built leaves it behind.
LEMMA LeavesRuntime ==
    ASSUME RunsInv, HeldInv, NEW c \in Calls, tool[c].at = "runtime",
           NEW code, FailWith(c, tool[c], code), NEW b,
           composition' = [composition EXCEPT ![c] = b],
           b = "building" => code = "cancelled", b \in {"none", "building"}
    PROVE  HeldInv'
  <1>1. /\ tool \in [Calls -> CallRecords] /\ tool[c] \in CallRecords
        /\ composition \in [Calls -> {"none", "building", "open", "closed"}]
        /\ HeldSound(tool[c], composition[c])
    BY CallState DEF RunsInv, HeldInv
  <1>2. /\ tool'[c].at \in {"audit", "close"} /\ tool'[c].runtime = tool[c].runtime
        /\ tool'[c].answer = code /\ \A d \in Calls \ {c} : tool'[d] = tool[d]
    BY <1>1 DEF FailWith, MoveTo, CallRecords
  <1>3. ~tool[c].runtime
    BY <1>1 DEF HeldSound
  <1>4. HeldSound(tool'[c], b)
    BY <1>2, <1>3 DEF HeldSound, Left, Ended
  <1>5. QED
    BY <1>1, <1>2, <1>4 DEF HeldInv

\* A store that fails.
LEMMA FailingHeld ==
    ASSUME RunsInv, HeldInv, NEW c \in Calls, StepFails(c)
    PROVE  HeldInv'
  <1>1. tool[c] \in CallRecords
    BY CallState
  <1>2. CASE tool[c].at = "runtime"
    <2>1. composition' = [composition EXCEPT ![c] = "none"]
      BY <1>2 DEF StepFails, HeldInv
    <2>2. FailWith(c, tool[c], "temporarily_unavailable")
      BY DEF StepFails
    <2>3. QED
      BY <1>2, <2>1, <2>2, LeavesRuntime
  <1>3. CASE tool[c].at # "runtime"
    <2>1. /\ tool[c].at \notin Ended \cup {"runtime", "idle"} /\ UNCHANGED composition
          /\ FailWith(c, tool[c], "temporarily_unavailable")
      BY <1>3 DEF StepFails, Ended
    <2>2. {"at", "runtime", "answer"} \subseteq DOMAIN tool[c]
      BY <1>1 DEF CallRecords
    <2>3. Goes(c)
      BY <2>1, <2>2, MoveGoes DEF Codes
    <2>4. QED
      BY <2>3, GoesKeeps
  <1>4. QED
    BY <1>2, <1>3

\* The end of a call closes the runtime it was given.
LEMMA EndingHeld ==
    ASSUME RunsInv, HeldInv, NEW c \in Calls, WriteAudit(c) \/ CloseRuntime(c)
    PROVE  HeldInv'
  <1>1. /\ tool \in [Calls -> CallRecords] /\ tool[c] \in CallRecords
        /\ composition \in [Calls -> {"none", "building", "open", "closed"}]
        /\ HeldSound(tool[c], composition[c])
    BY CallState DEF RunsInv, HeldInv
  <1>2. PICK step \in {"close", "done"} : MoveTo(c, tool[c], step)
    BY DEF WriteAudit, CloseRuntime
  <1>3. /\ tool'[c].at = step /\ tool'[c].runtime = tool[c].runtime
        /\ tool'[c].answer = tool[c].answer /\ \A d \in Calls \ {c} : tool'[d] = tool[d]
    BY <1>1, <1>2 DEF MoveTo, CallRecords
  <1>4. tool[c].at \in {"audit", "close"}
    BY DEF WriteAudit, CloseRuntime, At
  <1>5. CASE WriteAudit(c)
    <2>1. UNCHANGED composition /\ step = "close"
      <3>1. tool'[c].at = "close"
        BY <1>1, <1>5 DEF WriteAudit, MoveTo, CallRecords
      <3>2. QED
        BY <1>3, <1>5, <3>1 DEF WriteAudit
    <2>2. HeldSound(tool'[c], composition[c])
      BY <1>1, <1>3, <1>4, <2>1 DEF HeldSound, Left, Ended
    <2>3. QED
      BY <1>3, <2>1, <2>2 DEF HeldInv
  <1>6. CASE CloseRuntime(c)
    <2>1. CASE tool[c].runtime
      <3>1. composition' = [composition EXCEPT ![c] = "closed"]
        BY <1>6, <2>1 DEF CloseRuntime
      <3>2. HeldSound(tool'[c], "closed")
        BY <1>3 DEF HeldSound
      <3>3. QED
        BY <1>1, <1>3, <3>1, <3>2 DEF HeldInv
    <2>2. CASE ~tool[c].runtime
      <3>1. composition' = composition
        BY <1>6, <2>2 DEF CloseRuntime
      <3>2. HeldSound(tool'[c], composition[c])
        BY <1>1, <1>3, <1>4, <2>2 DEF HeldSound, Left, Ended
      <3>3. QED
        BY <1>3, <3>1, <3>2 DEF HeldInv
    <2>3. QED
      BY <2>1, <2>2
  <1>7. QED
    BY <1>5, <1>6

\* A client that cancels.
LEMMA CancelledHeld ==
    ASSUME RunsInv, HeldInv, NEW c \in Calls, Cancelled(c)
    PROVE  HeldInv'
  <1>1. /\ tool \in [Calls -> CallRecords] /\ tool[c] \in CallRecords
        /\ composition \in [Calls -> {"none", "building", "open", "closed"}]
        /\ HeldSound(tool[c], composition[c])
    BY CallState DEF RunsInv, HeldInv
  <1>2. tool[c].at \notin {"idle", "close", "done", "bind", "output"}
    BY DEF Cancelled
  <1>3. CASE tool[c].at = "runtime"
    <2>1. FailWith(c, tool[c], "cancelled")
      BY <1>3 DEF Cancelled
    <2>2. composition[c] \in {"none", "building"}
      BY <1>1, <1>3 DEF HeldSound
    <2>3. CASE UNCHANGED composition
      <3>1. composition' = [composition EXCEPT ![c] = composition[c]]
        BY <1>1, <2>3
      <3>2. QED
        BY <1>1, <1>3, <2>1, <2>2, <3>1, LeavesRuntime
    <2>4. CASE composition' = [composition EXCEPT ![c] = "none"]
      BY <1>1, <1>3, <2>1, <2>2, <2>4, LeavesRuntime
    <2>5. QED
      BY <2>3, <2>4 DEF Cancelled
  <1>4. CASE tool[c].at = "audit"
    <2>1. UNCHANGED composition
      BY <1>4 DEF Cancelled
    <2>2. PICK step \in {"audit", "close"} :
             MoveTo(c, [tool[c] EXCEPT !.answer = "cancelled"], step)
      BY <1>4 DEF Cancelled
    <2>3. /\ tool'[c].at = step /\ tool'[c].runtime = tool[c].runtime
          /\ tool'[c].answer = "cancelled" /\ \A d \in Calls \ {c} : tool'[d] = tool[d]
      BY <1>1, <2>2 DEF MoveTo, CallRecords
    <2>4. HeldSound(tool'[c], composition[c])
      BY <1>1, <1>4, <2>3 DEF HeldSound, Left, Ended
    <2>5. QED
      BY <2>1, <2>3, <2>4 DEF HeldInv
  <1>5. CASE tool[c].at \notin {"runtime", "audit"}
    <2>1. tool[c].at \notin Ended \cup {"runtime", "idle"} /\ UNCHANGED composition
      BY <1>2, <1>5 DEF Cancelled, Ended
    <2>2. CASE tool[c].at = "read"
      <3>1. PICK x : FailWith(c, [tool[c] EXCEPT !.outcomes = x], "cancelled")
        BY <2>2 DEF Cancelled, CancelRead, ListedRead
      <3>2. LET run == [tool[c] EXCEPT !.outcomes = x]
            IN  /\ {"at", "runtime", "answer"} \subseteq DOMAIN run /\ run.name = tool[c].name
                /\ run.at = tool[c].at /\ run.runtime = tool[c].runtime
        BY <1>1 DEF CallRecords
      <3>3. Goes(c)
        BY <2>1, <3>1, <3>2, MoveGoes DEF Codes
      <3>4. QED
        BY <3>3, GoesKeeps
    <2>3. CASE tool[c].at # "read"
      <3>1. FailWith(c, tool[c], "cancelled")
        BY <1>5, <2>3 DEF Cancelled
      <3>2. {"at", "runtime", "answer"} \subseteq DOMAIN tool[c]
        BY <1>1 DEF CallRecords
      <3>3. Goes(c)
        BY <2>1, <3>1, <3>2, MoveGoes DEF Codes
      <3>4. QED
        BY <3>3, GoesKeeps
    <2>4. QED
      BY <2>2, <2>3
  <1>6. QED
    BY <1>3, <1>4, <1>5

\* No runtime is built before any call.
LEMMA HeldInit == SkillToolsInit => HeldInv
  BY DEF SkillToolsInit, HeldInv, HeldSound, Waiting

\* Every step of a call and of the world keeps account of the runtimes.
LEMMA HeldSteps == RunsInv /\ HeldInv /\ [SkillToolsNext]_skillVars => HeldInv'
  <1> SUFFICES ASSUME RunsInv, HeldInv, [SkillToolsNext]_skillVars PROVE HeldInv'
    OBVIOUS
  <1>1. CASE WorldChanges \/ UNCHANGED skillVars
    BY <1>1 DEF WorldChanges, skillVars, HeldInv
  <1>2. ASSUME NEW c \in Calls, Goes(c)
        PROVE  HeldInv'
    BY <1>2, GoesKeeps
  <1>3. ASSUME NEW c \in Calls,
               \/ CallTool(c) \/ RequireWorkspace(c) \/ RuntimeFrom(c) \/ RuntimeBuilt(c)
               \/ ListConnections(c) \/ ReadConnection(c) \/ CatalogQualifications(c)
               \/ ResolveQualification(c) \/ QualificationsResolved(c) \/ ScanConnections(c)
               \/ GetProjection(c) \/ SearchKnowledge(c) \/ StartConnection(c) \/ DisconnectProvider(c)
        PROVE  HeldInv'
    BY <1>2, <1>3, CallToolHeld, RuntimeHeld, WorkGoes, ListingGoes
  <1>4. ASSUME NEW c \in Calls,
               \/ BindReads(c) \/ ExecuteRead(c) \/ AfterDrift(c) \/ ReadsFinished(c)
               \/ BuildOutput(c) \/ WriteAudit(c) \/ CloseRuntime(c) \/ StepFails(c) \/ Cancelled(c)
        PROVE  HeldInv'
    BY <1>2, <1>4, ReadingGoes, WorkGoes, EndingHeld, FailingHeld, CancelledHeld
  <1>5. QED
    BY <1>1, <1>3, <1>4 DEF SkillToolsNext

\* The invariants contain what an operator is promised.
LEMMA RunsInvImplies == RunsInv /\ HeldInv => SkillRunsHonest
  <1> SUFFICES ASSUME RunsInv, HeldInv PROVE SkillRunsHonest
    OBVIOUS
  <1>1. AuditTellsReads
    BY CallState DEF AuditTellsReads, CallSound, Tells
  <1>2. AnswerComplete
    <2> SUFFICES ASSUME NEW c \in Calls, tool[c].name = "skill", tool[c].answer = "ok"
                 PROVE  Complete(tool[c], sent[c])
      BY DEF AnswerComplete, Complete
    <2>1. QED
      BY CallState DEF CallSound
  <1>3. RuntimesReleased
    <2> SUFFICES ASSUME NEW c \in Calls, tool[c].at = "done", composition[c] \in {"building", "open"}
                 PROVE  ~tool[c].runtime /\ tool[c].answer = "cancelled"
      BY DEF RuntimesReleased
    <2>1. HeldSound(tool[c], composition[c])
      BY DEF HeldInv
    <2>2. QED
      BY <2>1 DEF HeldSound, Left
  <1>4. QED
    BY <1>1, <1>2, <1>3 DEF SkillRunsHonest

\* run_skill and the other fixed tools: for every call in flight, what the provider
\* received, what the call listed and what its audit wrote stay in agreement, and every
\* runtime is the call's that holds it or was left by a cancelled one.
THEOREM RunsInvariant == SkillToolsSpec => [](RunsInv /\ HeldInv)
  <1>1. SkillToolsInit => RunsInv /\ HeldInv
    BY RunsInit, HeldInit
  <1>2. RunsInv /\ HeldInv /\ [SkillToolsNext]_skillVars => RunsInv' /\ HeldInv'
    BY RunsSteps, HeldSteps
  <1>3. QED
    BY <1>1, <1>2, PTL DEF SkillToolsSpec

\* The audit of a run tells every read the provider received; an answer ok stands for
\* every read of the skill; a runtime outlives its call only when the call was cancelled
\* while a thread built it.
THEOREM RunsStayHonest == SkillToolsSpec => []SkillRunsHonest
  BY RunsInvariant, RunsInvImplies, PTL
=============================================================================
