--------------------------- MODULE WorkshopProofs ---------------------------
(***************************************************************************)
(* What holds of the parts in which connectors, workspaces and evidence    *)
(* are prepared and used (ConnectorRouting, ProductStore,                  *)
(* EvidencePublication and Wave0Gate), for any number of callers, records, *)
(* documents, checks, hosts and attempts.                                  *)
(***************************************************************************)
EXTENDS ConnectorRouting, ProductStore, EvidencePublication, Wave0Gate, Integers, FiniteSetTheorems,
        WellFoundedInduction, TLAPS

(***************************************************************************)
(* Choosing a connector, binding its profile and running a skill.          *)
(***************************************************************************)
\* The statuses of a profile, and the profiles a mode may have.
ProfileStatuses == {"absent", "requires_local_setup", "needs_validation", "requires_authorization",
                    "ready_read_only", "ready_read_write"}

RouteProfiles ==
    [linked : BOOLEAN, states : [ProviderActionIds -> Observed \cup {"unset"}],
     validated : BOOLEAN, server : BOOLEAN, status : ProfileStatuses]

RoutingType ==
    /\ stored \in [ConnectionModes -> RouteProfiles]
    /\ evidence \in [ConnectionModes -> Seq(ObservationSet)]

\* The status kept with a profile is the one its observations amount to.
StatusStored ==
    \A m \in ConnectionModes :
        stored[m].linked => stored[m].status = StatusOf(m, stored[m])

EvidenceAccepted == \A m \in ConnectionModes : AcceptsEvidence(m, evidence[m])

(* A profile on which everything a Skill requires was observed.            *)
Provided(m, required) ==
    /\ stored[m].linked /\ stored[m].validated
    /\ ObservedStates(stored[m]) = {"observed"}
    /\ \A a \in ProviderActionIds :
          stored[m].states[a] = "observed" => ProviderActions(m, a) # {}
    /\ ReadyStatus(stored[m].status)
    /\ \A c \in required : RequiredReason(m, stored[m], c) = "ready"

\* An answer that a Skill may run holds for the profile it names.
RouteProvided ==
    answer.tool = "run_accounting_skill" /\ answer.status = "ready" =>
        /\ answer.mode \in ConnectionModes
        /\ Provided(answer.mode, answer.skill.required)
        /\ \A c \in answer.plan : \A a \in ProviderActions(answer.mode, c) :
               stored[answer.mode].states[a] = "observed"

RoutingBase == RoutingType /\ StatusStored /\ EvidenceAccepted
RoutingInv == RoutingBase /\ RouteProvided

(* The status of a profile depends on its observations alone.              *)
LEMMA StatusDepends ==
    ASSUME NEW p, NEW q, NEW m, q.states = p.states, q.validated = p.validated
    PROVE  StatusOf(m, q) = StatusOf(m, p)
  BY DEF StatusOf, ObservedStates, CatalogBound, ReviewedMutation

\* The status computed for a mode is one of those a profile may keep.
LEMMA StatusOfType ==
    ASSUME NEW p, NEW m
    PROVE  StatusOf(m, p) \in ProfileStatuses
  BY DEF StatusOf, ProfileStatuses

(* A ready status needs a validation that observed nothing but success, of *)
(* actions the catalog knows.                                              *)
LEMMA ReadyMeansObserved ==
    ASSUME NEW p, NEW m, ReadyStatus(StatusOf(m, p))
    PROVE  /\ p.validated
           /\ ObservedStates(p) = {"observed"}
           /\ CatalogBound(m, p)
  BY DEF StatusOf, ReadyStatus

(* What the router holds observed, the workspace holds ready.              *)
LEMMA RoutedIsProvided ==
    ASSUME NEW m, NEW p, NEW c, CapabilityResolution(m, p, c) = "observed"
    PROVE  /\ RequiredReason(m, p, c) = "ready"
           /\ \A a \in ProviderActions(m, c) : p.states[a] = "observed"
  <1>1. /\ RoutedActions(m, p, c) # {}
        /\ RoutedActions(m, p, c) \cap catalog[m].unavailable = {}
        /\ \A a \in RoutedActions(m, p, c) : p.states[a] = "observed"
    BY DEF CapabilityResolution
  <1>2. ProviderActions(m, c) = RoutedActions(m, p, c)
    BY <1>1 DEF ProviderActions, RoutedActions
  <1>3. QED
    BY <1>1, <1>2 DEF RequiredReason

\* A profile bound to its catalog observed only actions the catalog has.
LEMMA BoundIsProvided ==
    ASSUME NEW m, NEW p, CatalogBound(m, p),
           NEW a \in ProviderActionIds, p.states[a] = "observed"
    PROVE  ProviderActions(m, a) # {}
  BY DEF CatalogBound, ProviderActions

\* Resolving one capability never answers for the whole mode.
LEMMA ResolutionKinds ==
    ASSUME NEW m, NEW p, NEW c
    PROVE  CapabilityResolution(m, p, c) # "ready"
  BY DEF CapabilityResolution

\* A mode that provides what is required resolves to ready.
LEMMA ProvidedIsReady ==
    ASSUME NEW m \in ConnectionModes, NEW required, Provided(m, required)
    PROVE  ResolveMode(m, required) = "ready"
  BY DEF Provided, ResolveMode, ResolveProfile, ConnectionModes

(* The heart of RouteIsReady: the profile the router found ready.          *)
LEMMA AssessedReady ==
    ASSUME StatusStored, NEW skill, NEW m \in LinkedModes, AssessProfile(skill, m) = "ready"
    PROVE  /\ Provided(m, skill.required)
           /\ \A c \in ExecutionPlan(skill, m) : \A a \in ProviderActions(m, c) :
                  stored[m].states[a] = "observed"
  <1> DEFINE p == stored[m]
             failed == {c \in skill.required : CapabilityResolution(m, p, c) # "observed"}
  <1>0. m \in ConnectionModes /\ p.linked
    BY DEF LinkedModes
  <1>1. failed = {}
    <2> SUFFICES ASSUME failed # {} PROVE FALSE
      OBVIOUS
    <2>1. AssessProfile(skill, m) # "ready"
      BY ResolutionKinds DEF AssessProfile
    <2> QED
      BY <2>1
  <1>2. ReadyStatus(p.status)
    BY <1>1 DEF AssessProfile
  <1>3. p.validated /\ ObservedStates(p) = {"observed"} /\ CatalogBound(m, p)
    <2>1. ReadyStatus(StatusOf(m, p))
      BY <1>0, <1>2 DEF StatusStored
    <2> QED
      BY <2>1, ReadyMeansObserved
  <1>4. \A c \in skill.required : RequiredReason(m, p, c) = "ready"
    BY <1>1, RoutedIsProvided
  <1>5. ~ \E a \in ProviderActionIds : p.states[a] = "observed" /\ ProviderActions(m, a) = {}
    BY <1>3, BoundIsProvided
  <1>6. Provided(m, skill.required)
    BY <1>0, <1>2, <1>3, <1>4, <1>5 DEF Provided
  <1>7. \A c \in ExecutionPlan(skill, m) : CapabilityResolution(m, p, c) = "observed"
    BY <1>1 DEF ExecutionPlan
  <1>8. QED
    BY <1>6, <1>7, RoutedIsProvided

(* The answer of the router is ready only on such a profile.               *)
LEMMA RouteReadyProfile ==
    ASSUME NEW skill, NEW mode, SkillRoute(skill, mode).status = "ready"
    PROVE  \E m \in LinkedModes : /\ AssessProfile(skill, m) = "ready"
                                  /\ SkillRoute(skill, mode).mode = m
                                  /\ SkillRoute(skill, mode).plan = ExecutionPlan(skill, m)
  <1> DEFINE candidates == {m \in LinkedModes : mode = "any" \/ m = mode}
             ready == {m \in candidates : AssessProfile(skill, m) = "ready"}
             chosen == CHOOSE m \in ready : TRUE
  <1>1. ready # {} /\ SkillRoute(skill, mode) =
            [status |-> "ready", mode |-> chosen, plan |-> ExecutionPlan(skill, chosen)]
    BY DEF SkillRoute
  <1>2. chosen \in LinkedModes /\ AssessProfile(skill, chosen) = "ready"
    BY <1>1
  <1> HIDE DEF chosen
  <1>3. QED
    BY <1>1, <1>2

-----------------------------------------------------------------------------
\* The profile of a mode nobody linked is one a profile can be.
LEMMA NotLinkedType ==
    /\ NotLinked \in RouteProfiles
    /\ ~NotLinked.linked
  BY DEF NotLinked, RouteProfiles, Unset, ProfileStatuses

\* So is the one linking makes, and its status is the one computed for it.
LEMMA NewProfileType ==
    ASSUME NEW m \in ConnectionModes
    PROVE  /\ NewProfile(m) \in RouteProfiles
           /\ NewProfile(m).status = StatusOf(m, NewProfile(m))
  <1>1. NewProfile(m) \in RouteProfiles
    BY NotLinkedType, StatusOfType DEF NewProfile, RouteProfiles
  <1>2. /\ NewProfile(m).status = StatusOf(m, NotLinked)
        /\ NewProfile(m).states = NotLinked.states
        /\ NewProfile(m).validated = NotLinked.validated
    BY NotLinkedType, StatusOfType DEF NewProfile, RouteProfiles
  <1>3. QED
    BY <1>1, <1>2, StatusDepends

\* An empty submission is accepted: there is nothing to find fault with.
LEMMA NothingAccepted ==
    ASSUME NEW m
    PROVE  AcceptsEvidence(m, <<>>)
  <1>1. \A a \in ProviderActionIds : Reached(m, <<>>, a) = {}
    BY DEF Reached
  <1>2. QED
    BY <1>1, FS_EmptySet DEF AcceptsEvidence

\* The invariant holds before anything is linked.
LEMMA RoutingInitially == RoutingInit => RoutingInv
  <1> SUFFICES ASSUME RoutingInit PROVE RoutingInv
    OBVIOUS
  <1>1. PICK linked \in SUBSET ConnectionModes :
            stored = [m \in ConnectionModes |-> IF m \in linked THEN NewProfile(m) ELSE NotLinked]
    BY DEF RoutingInit
  <1>2. RoutingType
    BY <1>1, NewProfileType, NotLinkedType DEF RoutingType, RoutingInit
  <1>3. StatusStored
    BY <1>1, NewProfileType, NotLinkedType DEF StatusStored
  <1>4. EvidenceAccepted
    BY NothingAccepted DEF EvidenceAccepted, RoutingInit
  <1>5. RouteProvided
    BY DEF RouteProvided, RoutingInit, NoAnswer
  <1>6. QED
    BY <1>2, <1>3, <1>4, <1>5 DEF RoutingInv, RoutingBase

(* While the catalog stays, a profile and its evidence mean what they meant. *)
LEMMA StatusByValue ==
    ASSUME NEW m, NEW p, catalog' = catalog, stored'[m] = p
    PROVE  StatusOf(m, stored[m])' = StatusOf(m, p)
  <1>1. \A c : ProviderCapabilities(m, c)' = ProviderCapabilities(m, c)
    BY DEF ProviderCapabilities
  <1>2. ObservedStates(stored[m])' = ObservedStates(p)
    BY DEF ObservedStates
  <1>3. CatalogBound(m, stored[m])' <=> CatalogBound(m, p)
    BY <1>1 DEF CatalogBound
  <1>4. ReviewedMutation(m, stored[m])' <=> ReviewedMutation(m, p)
    BY <1>1 DEF ReviewedMutation
  <1>5. QED
    BY <1>2, <1>3, <1>4 DEF StatusOf

\* Whether a submission is accepted depends on its observations alone.
LEMMA EvidenceByValue ==
    ASSUME NEW m, NEW obs, catalog' = catalog, evidence'[m] = obs
    PROVE  AcceptsEvidence(m, evidence[m])' <=> AcceptsEvidence(m, obs)
  <1>1. \A c : ProviderCapabilities(m, c)' = ProviderCapabilities(m, c)
    BY DEF ProviderCapabilities
  <1>2. \A c : ProviderActions(m, c)' = ProviderActions(m, c)
    BY <1>1 DEF ProviderActions
  <1>3. \A a : Reached(m, evidence[m], a)' = Reached(m, obs, a)
    BY <1>2 DEF Reached
  <1>4. QED
    BY <1>2, <1>3 DEF AcceptsEvidence

(* What a question leaves alone.                                           *)
LEMMA RoutingAsked ==
    ASSUME RoutingBase, UNCHANGED <<changes, catalog, stored, evidence>>
    PROVE  RoutingBase'
  <1>1. RoutingType'
    BY DEF RoutingBase, RoutingType
  <1>2. StatusStored'
    BY StatusByValue DEF RoutingBase, StatusStored
  <1>3. EvidenceAccepted'
    BY EvidenceByValue DEF RoutingBase, EvidenceAccepted
  <1>4. QED
    BY <1>1, <1>2, <1>3 DEF RoutingBase

\* What a mode provides changes only with the catalog or the stored profiles.
LEMMA ProvidedStays ==
    ASSUME NEW m, NEW required, UNCHANGED <<catalog, stored>>, Provided(m, required)
    PROVE  /\ Provided(m, required)'
           /\ \A c : ProviderActions(m, c)' = ProviderActions(m, c)
  <1>1. \A n, c : ProviderCapabilities(n, c)' = ProviderCapabilities(n, c)
    BY DEF ProviderCapabilities
  <1>2. \A n, c : ProviderActions(n, c)' = ProviderActions(n, c)
    BY <1>1 DEF ProviderActions
  <1>3. ObservedStates(stored[m])' = ObservedStates(stored[m])
    BY DEF ObservedStates
  <1>4. \A c : RequiredReason(m, stored[m], c)' = RequiredReason(m, stored[m], c)
    BY <1>2 DEF RequiredReason
  <1>5. Provided(m, required)'
    BY <1>2, <1>3, <1>4 DEF Provided
  <1>6. QED
    BY <1>2, <1>5

(* What holds of the profile an answer names keeps holding of it.          *)
LEMMA RouteStays ==
    ASSUME NEW m \in ConnectionModes, NEW skill, UNCHANGED <<catalog, stored>>,
           Provided(m, skill.required),
           \A c \in answer'.plan : \A a \in ProviderActions(m, c) : stored[m].states[a] = "observed",
           answer'.mode = m, answer'.skill = skill
    PROVE  RouteProvided'
  <1>1. /\ Provided(m, skill.required)'
        /\ \A c : ProviderActions(m, c)' = ProviderActions(m, c)
    BY ProvidedStays
  <1>2. Provided(answer.mode, answer.skill.required)' <=> Provided(m, skill.required)'
    OBVIOUS
  <1>3. \A c : ProviderActions(answer.mode, c)' = ProviderActions(m, c)'
    OBVIOUS
  <1>4. QED
    BY <1>1, <1>2, <1>3 DEF RouteProvided

(* run_accounting_skill answers ready only as RouteIsReady says.           *)
LEMMA RunSkillStep ==
    ASSUME RoutingInv, NEW skill, NEW mode, RunSkill(skill, mode)
    PROVE  RoutingInv'
  <1>1. RoutingBase'
    BY RoutingAsked DEF RunSkill, RoutingInv
  <1>2. /\ answer'.status = SkillRoute(skill, mode).status
        /\ answer'.mode = SkillRoute(skill, mode).mode
        /\ answer'.plan = SkillRoute(skill, mode).plan /\ answer'.skill = skill
    BY DEF RunSkill, NoAnswer
  <1>3. CASE answer'.status = "ready"
    <2>1. PICK m \in LinkedModes : /\ AssessProfile(skill, m) = "ready"
                                   /\ SkillRoute(skill, mode).mode = m
                                   /\ SkillRoute(skill, mode).plan = ExecutionPlan(skill, m)
      <3>1. SkillRoute(skill, mode).status = "ready"
        BY <1>2, <1>3
      <3>2. QED
        BY <3>1, RouteReadyProfile
    <2>2. m \in ConnectionModes
      BY DEF LinkedModes
    <2>3. /\ Provided(m, skill.required)
          /\ \A c \in ExecutionPlan(skill, m) : \A a \in ProviderActions(m, c) :
                 stored[m].states[a] = "observed"
      BY <2>1, AssessedReady DEF RoutingInv, RoutingBase
    <2>4. UNCHANGED <<catalog, stored>>
      BY DEF RunSkill
    <2>5. answer'.mode = m /\ answer'.skill = skill /\ answer'.plan = ExecutionPlan(skill, m)
      BY <1>2, <2>1
    <2>6. RouteProvided'
      BY <2>2, <2>3, <2>4, <2>5, RouteStays
    <2>7. QED
      BY <1>1, <2>6 DEF RoutingInv
  <1>4. CASE answer'.status # "ready"
    BY <1>1, <1>4 DEF RoutingInv, RouteProvided
  <1>5. QED
    BY <1>3, <1>4

(* The other tools answer under their own name.                            *)
LEMMA OtherAnswerStep ==
    ASSUME RoutingInv, UNCHANGED <<changes, catalog, stored, evidence>>,
           answer'.tool # "run_accounting_skill"
    PROVE  RoutingInv'
  BY RoutingAsked DEF RoutingInv, RouteProvided

\* Linking a mode keeps the invariant: the profile starts unvalidated.
LEMMA LinkModeStep ==
    ASSUME RoutingInv, NEW m \in ConnectionModes, LinkMode(m)
    PROVE  RoutingInv'
  <1>1. catalog' = catalog /\ answer' = NoAnswer
        /\ stored' = [stored EXCEPT ![m] = NewProfile(m)]
        /\ evidence' = [evidence EXCEPT ![m] = <<>>]
    BY DEF LinkMode
  <1>2. RoutingType'
    BY <1>1, NewProfileType DEF RoutingInv, RoutingBase, RoutingType
  <1>3. ASSUME NEW n \in ConnectionModes
        PROVE  /\ stored'[n].linked => stored'[n].status = StatusOf(n, stored[n])'
               /\ AcceptsEvidence(n, evidence[n])'
    <2>1. CASE n = m
      <3>1. stored'[n] = NewProfile(n) /\ evidence'[n] = <<>>
        BY <1>1, <2>1 DEF RoutingInv, RoutingBase, RoutingType
      <3>2. NewProfile(n).status = StatusOf(n, NewProfile(n)) /\ AcceptsEvidence(n, <<>>)
        BY NewProfileType, NothingAccepted
      <3>3. QED
        BY <1>1, <3>1, <3>2, StatusByValue, EvidenceByValue
    <2>2. CASE n # m
      <3>1. stored'[n] = stored[n] /\ evidence'[n] = evidence[n]
        BY <1>1, <2>2 DEF RoutingInv, RoutingBase, RoutingType
      <3>2. QED
        BY <1>1, <3>1, StatusByValue, EvidenceByValue DEF RoutingInv, RoutingBase, StatusStored, EvidenceAccepted
    <2>3. QED
      BY <2>1, <2>2
  <1>4. RouteProvided'
    BY <1>1 DEF RouteProvided, NoAnswer
  <1>5. QED
    BY <1>2, <1>3, <1>4 DEF RoutingInv, RoutingBase, StatusStored, EvidenceAccepted

(* Evidence that is accepted names every action at most once.              *)
LEMMA AtMostOne ==
    ASSUME NEW S, IsFiniteSet(S), Cardinality(S) <= 1
    PROVE  \A x, y \in S : x = y
  <1>1. Cardinality(S) \in Nat
    BY FS_CardinalityType
  <1>2. CASE Cardinality(S) = 0
    BY <1>2, FS_EmptySet
  <1>3. CASE Cardinality(S) = 1
    BY <1>3, FS_Singleton
  <1>4. QED
    BY <1>1, <1>2, <1>3

\* An accepted submission observes an action at most once, which is what makes
\* the state recorded for it well defined.
LEMMA ReachedOnce ==
    ASSUME NEW m, NEW obs \in Seq(ObservationSet), AcceptsEvidence(m, obs), NEW a \in ProviderActionIds
    PROVE  /\ IsFiniteSet(Reached(m, obs, a))
           /\ Reached(m, obs, a) \subseteq 1 .. Len(obs)
           /\ \A i, j \in Reached(m, obs, a) : i = j
  <1>1. Reached(m, obs, a) \subseteq 1 .. Len(obs)
    BY DEF Reached
  <1>2. IsFiniteSet(Reached(m, obs, a))
    BY <1>1, FS_Interval, FS_Subset
  <1>3. Cardinality(Reached(m, obs, a)) <= 1
    BY DEF AcceptsEvidence
  <1>4. QED
    BY <1>1, <1>2, <1>3, AtMostOne

\* So the states recorded from it are a state per action.
LEMMA EvidenceStatesType ==
    ASSUME NEW m, NEW obs \in Seq(ObservationSet), AcceptsEvidence(m, obs)
    PROVE  EvidenceStates(m, obs) \in [ProviderActionIds -> Observed \cup {"unset"}]
  <1>1. ASSUME NEW a \in ProviderActionIds, Reached(m, obs, a) # {}
        PROVE  obs[LastReached(m, obs, a)].state \in Observed
    <2>1. PICK i \in Reached(m, obs, a) : \A j \in Reached(m, obs, a) : j <= i
      BY <1>1, ReachedOnce
    <2>2. LastReached(m, obs, a) \in 1 .. Len(obs)
      BY <2>1, ReachedOnce DEF LastReached
    <2>3. obs[LastReached(m, obs, a)] \in ObservationSet
      BY <2>2
    <2>4. QED
      BY <2>3 DEF ObservationSet
  <1>2. QED
    BY <1>1 DEF EvidenceStates

\* Submissions are sequences of observations.
LEMMA SubmissionType == Submissions \subseteq Seq(ObservationSet)
  <1> SUFFICES ASSUME NEW obs \in Submissions PROVE obs \in Seq(ObservationSet)
    OBVIOUS
  <1>1. CASE obs \in {<<o>> : o \in ObservationSet}
    <2>1. PICK o \in ObservationSet : obs = <<o>>
      BY <1>1
    <2>2. QED
      BY <2>1
  <1>2. CASE obs \in {<<o, q>> : o, q \in ObservationSet}
    <2>1. PICK o \in ObservationSet, q \in ObservationSet : obs = <<o, q>>
      BY <1>2
    <2>2. QED
      BY <2>1
  <1>3. QED
    BY <1>1, <1>2 DEF Submissions

\* Validating a mode keeps the invariant: what is recorded is what was observed.
LEMMA ValidateModeStep ==
    ASSUME RoutingInv, NEW m \in ConnectionModes, NEW obs \in Submissions, ValidateMode(m, obs)
    PROVE  RoutingInv'
  <1> DEFINE p == [stored[m] EXCEPT !.states = EvidenceStates(m, obs), !.validated = TRUE]
             q == [p EXCEPT !.status = StatusOf(m, p)]
  <1>1. /\ catalog' = catalog /\ answer' = NoAnswer /\ AcceptsEvidence(m, obs)
        /\ stored' = [stored EXCEPT ![m] = q]
        /\ evidence' = [evidence EXCEPT ![m] = obs]
    BY DEF ValidateMode
  <1>2. p \in RouteProfiles
    BY <1>1, SubmissionType, EvidenceStatesType DEF RoutingInv, RoutingBase, RoutingType, RouteProfiles
  <1>3. q \in RouteProfiles /\ q.status = StatusOf(m, p) /\ q.states = p.states /\ q.validated = p.validated
    <2> HIDE DEF p
    <2> QED
      BY <1>2, StatusOfType DEF RouteProfiles
  <1> HIDE DEF q
  <1>4. q.status = StatusOf(m, q)
    BY <1>3, StatusDepends
  <1>5. RoutingType'
    BY <1>1, <1>3, SubmissionType DEF RoutingInv, RoutingBase, RoutingType
  <1>6. ASSUME NEW n \in ConnectionModes
        PROVE  /\ stored'[n].linked => stored'[n].status = StatusOf(n, stored[n])'
               /\ AcceptsEvidence(n, evidence[n])'
    <2>1. CASE n = m
      <3>1. stored'[n] = q /\ evidence'[n] = obs
        BY <1>1, <2>1 DEF RoutingInv, RoutingBase, RoutingType
      <3>2. QED
        BY <1>1, <1>4, <2>1, <3>1, StatusByValue, EvidenceByValue
    <2>2. CASE n # m
      <3>1. stored'[n] = stored[n] /\ evidence'[n] = evidence[n]
        BY <1>1, <2>2 DEF RoutingInv, RoutingBase, RoutingType
      <3>2. QED
        BY <1>1, <3>1, StatusByValue, EvidenceByValue DEF RoutingInv, RoutingBase, StatusStored, EvidenceAccepted
    <2>3. QED
      BY <2>1, <2>2
  <1>7. RouteProvided'
    BY <1>1 DEF RouteProvided, NoAnswer
  <1>8. QED
    BY <1>5, <1>6, <1>7 DEF RoutingInv, RoutingBase, StatusStored, EvidenceAccepted

\* Every step keeps the invariant.
LEMMA RoutingStep ==
    ASSUME RoutingInv, [RoutingNext]_routingVars
    PROVE  RoutingInv'
  <1>1. ASSUME NEW m \in ConnectionModes, LinkMode(m) PROVE RoutingInv'
    BY <1>1, LinkModeStep
  <1>2. ASSUME NEW m \in ConnectionModes, NEW obs \in Submissions, ValidateMode(m, obs)
        PROVE  RoutingInv'
    BY <1>2, ValidateModeStep
  <1>3. ASSUME NEW s \in SkillSet, NEW m \in ConnectionModes \cup {"any"}, RunSkill(s, m)
        PROVE  RoutingInv'
    BY <1>3, RunSkillStep
  <1>4. ASSUME NEW m, ConnectorCapabilities(m) PROVE RoutingInv'
    BY <1>4, OtherAnswerStep DEF ConnectorCapabilities, NoAnswer
  <1>5. ASSUME NEW required, NEW m, RunConnectorFlow(m, required) PROVE RoutingInv'
    BY <1>5, OtherAnswerStep DEF RunConnectorFlow, NoAnswer
  <1>6. CASE ConnectorStatus
    BY <1>6, OtherAnswerStep DEF ConnectorStatus, NoAnswer
  <1>7. CASE ContextPack
    BY <1>7, OtherAnswerStep DEF ContextPack, NoAnswer
  <1>8. CASE UNCHANGED routingVars
    <2>1. RoutingBase'
      BY <1>8, RoutingAsked DEF routingVars, RoutingInv
    <2>2. CASE answer.tool = "run_accounting_skill" /\ answer.status = "ready"
      BY <1>8, <2>1, <2>2, RouteStays DEF routingVars, RoutingInv, RouteProvided
    <2>3. CASE ~(answer.tool = "run_accounting_skill" /\ answer.status = "ready")
      BY <1>8, <2>1, <2>3 DEF routingVars, RoutingInv, RouteProvided
    <2>4. QED
      BY <2>2, <2>3
  <1>9. QED
    BY <1>1, <1>2, <1>3, <1>4, <1>5, <1>6, <1>7, <1>8 DEF RoutingNext

(* The invariant of the router: profiles keep the status of their          *)
(* observations, and evidence was accepted before it was stored.           *)
THEOREM RoutingInvariant == RoutingSpec => []RoutingInv
  BY RoutingInitially, RoutingStep, PTL DEF RoutingSpec

\* Accepted evidence names no action twice.
LEMMA AcceptedIsUnambiguous == RoutingInv => EvidenceUnambiguous
  <1> SUFFICES ASSUME RoutingInv, NEW m \in ConnectionModes, NEW a \in ProviderActionIds
               PROVE  Cardinality({evidence[m][i].state : i \in Reached(m, evidence[m], a)}) <= 1
    BY DEF EvidenceUnambiguous
  <1> DEFINE S == Reached(m, evidence[m], a)
             T == {evidence[m][i].state : i \in S}
  <1>1. \A i, j \in S : i = j
    BY ReachedOnce DEF RoutingInv, RoutingBase, RoutingType, EvidenceAccepted
  <1> SUFFICES Cardinality(T) <= 1
    OBVIOUS
  <1>2. CASE S = {}
    <2>1. T = {}
      BY <1>2
    <2>2. Cardinality({}) = 0
      BY FS_EmptySet
    <2> HIDE DEF T
    <2>3. QED
      BY <2>1, <2>2
  <1>3. CASE S # {}
    <2>1. PICK i \in S : S = {i}
      BY <1>1, <1>3
    <2>2. T = {evidence[m][i].state}
      BY <2>1
    <2>3. Cardinality({evidence[m][i].state}) = 1
      BY FS_Singleton
    <2> HIDE DEF T
    <2>4. QED
      BY <2>2, <2>3
  <1>4. QED
    BY <1>2, <1>3

(* A Skill is routed as ready only to a profile the workspace tools hold   *)
(* ready too, and no evidence can be read in two ways, for every catalog,  *)
(* set of Skills and kind of observation (skills/routing.py,               *)
(* mcp/server.py, db/product.py).                                          *)
THEOREM RoutingTheorem == RoutingSpec => []RoutingSound
  <1>1. RoutingInv => RouteIsReady
    BY ProvidedIsReady DEF RoutingInv, RouteProvided, RouteIsReady
  <1>2. RoutingInv => RoutingSound
    BY <1>1, AcceptedIsUnambiguous DEF RoutingSound
  <1>3. QED
    BY <1>2, RoutingInvariant, PTL

(***************************************************************************)
(* Workspaces: profiles, events and runs.                                  *)
(***************************************************************************)
\* What a call is made with, and the forms a profile, an event and a call take.
CallArguments == Evidence \cup Flows \cup Clients \cup {"on", "off", None}
EvidenceNames == Evidence \cup {None}

ProfileSet ==
    [name : Companies \cup {None}, ref : Companies \cup {None}, states : EvidenceNames,
     validated : EvidenceNames, evidence : EvidenceNames \cup {"absent"}]

\* Its validation fields come from one submission.
CoherentSet == {p \in ProfileSet : Absent(p) \/ (p.states = p.validated /\ p.validated = p.evidence)}

GoodProfile(p) ==
    p.evidence \in Evidence /\ Outcome[p.evidence] = "observed" /\ p.states = p.evidence

ContextSteps == {"context0", "context", "context2"}
CallSteps ==
    ContextSteps \cup TableSteps
        \cup {"idle", "workspace", "member", "token", "document", "event", "save", "load",
              "fallback_read", "fallback_write", "fallback_enable"}
ContextOps == {"link", "setup", "validate", "unlink", "skill", "invite", "upload", "run"}

CallSet ==
    [op : Ops \cup {None}, step : CallSteps, mode : Modes \cup {None}, name : Companies \cup {None},
     ref : Companies \cup {None}, arg : CallArguments,
     ctx : {None, "tables", "fallback", "uploaded", "enabled"}, seen : CoherentSet, number : Nat]

\* What a call is at its step.
CallSound(call) ==
    /\ call.op \in {"link", "setup", "validate", "unlink"} => call.mode \in Modes
    /\ call.op = "validate" => call.arg \in Evidence
    /\ call.op = "save" => call.arg \in Flows
    /\ call.step \in ContextSteps => call.op \in ContextOps
    /\ call.step = "check" => call.op = "validate"
    /\ call.step \in {"read", "write", "fallback_read"} => call.op \in {"link", "setup", "validate"}
    /\ call.step \in {"document", "catalog", "insert"} => call.op = "upload"
    /\ call.step \in {"view", "load"} => call.op = "run"
    /\ call.step = "load" => GoodProfile(call.seen)

EventTypes == {"configured", "unlinked", "connected", "invited", "uploaded", "skill", "flow.saved",
               "flow.run_completed"}
EventSet ==
    [key : {"key", "id"}, type : EventTypes \cup Ops \cup {None}, mode : Modes \cup {None},
     value : CoherentSet \cup CallArguments \cup Nat]

\* An event of the workspace key with this value can be read.
Found(events, type, value) ==
    \E i \in DOMAIN events : /\ events[i].key = "key"
                             /\ events[i].type = type /\ events[i].value = value

CallsSound == calls \in [Clients -> CallSet] /\ \A c \in Clients : CallSound(calls[c])

EventsSound ==
    /\ auditEvents \in Seq(EventSet)
    /\ \A i \in DOMAIN auditEvents :
          auditEvents[i].type = "configured" => auditEvents[i].value \in CoherentSet

AnswersFound ==
    /\ \A f \in saved : Found(auditEvents, "flow.saved", f)
    /\ \A run \in recorded : /\ run[2] = "tables" => run[1] \in productEvents
                             /\ run[2] # "tables" => Found(auditEvents, "flow.run_completed", run[1])

ProductInv ==
    /\ begun \in Nat
    /\ profiles \in [Modes -> CoherentSet]
    /\ CallsSound
    /\ EventsSound
    /\ AnswersFound
    /\ \A p \in ran : GoodProfile(p)

-----------------------------------------------------------------------------
(* Some positions of a sequence have a last one.                           *)
LEMMA LastOne ==
    ASSUME NEW n \in Nat, NEW S, S \subseteq 1 .. n, S # {}
    PROVE  \E k \in S : \A j \in S : j <= k
  <1> DEFINE T == {n - k : k \in S}
             R == OpToRel(<, Nat)
  <1>1. \A k \in S : k \in Nat /\ n - k \in Nat
    OBVIOUS
  <1>2. T \subseteq Nat /\ T # {}
    BY <1>1
  <1>3. IsWellFoundedOn(R, Nat)
    BY NatLessThanWellFounded, Zenon
  <1>4. \A x, y \in Nat : x < y => <<x, y>> \in R
    BY DEF OpToRel
  <1> HIDE DEF R
  <1>5. PICK t \in T : \A y \in T : ~ (<<y, t>> \in R)
    <2> HIDE DEF T
    <2> QED
      BY <1>2, <1>3, WFMin
  <1>6. PICK k \in S : t = n - k
    BY <1>5
  <1>7. ASSUME NEW j \in S PROVE j <= k
    <2>1. n - j \in T
      OBVIOUS
    <2>2. ~ (n - j < n - k)
      BY <1>1, <1>4, <1>5, <1>6, <2>1
    <2>3. QED
      BY <1>1, <2>2
  <1>8. QED
    BY <1>7

\* The absent profile is coherent.
LEMMA EmptyProfile == NoProfile \in CoherentSet
  BY DEF NoProfile, CoherentSet, ProfileSet, Profile, EvidenceNames, Absent

(* What an operation writes is coherent when what it read was.             *)
LEMMA MergedSound ==
    ASSUME NEW call \in CallSet, CallSound(call)
    PROVE  MergedProfile(call) \in CoherentSet
  <1> DEFINE old == Kept(call.seen)
             fresh == IF call.op = "validate" THEN call.arg ELSE None
             p == MergedProfile(call)
  <1>1. /\ old.name \in Companies \cup {None} /\ old.ref \in Companies \cup {None}
        /\ old.states \in EvidenceNames /\ old.validated = old.states /\ old.evidence = old.states
    <2>1. call.seen \in CoherentSet
      BY DEF CallSet
    <2>2. CASE Absent(call.seen)
      BY <2>2 DEF Kept, Profile, EvidenceNames
    <2>3. CASE ~ Absent(call.seen)
      BY <2>1, <2>3 DEF Kept, CoherentSet, ProfileSet, Absent
    <2>4. QED
      BY <2>2, <2>3
  <1>2. fresh \in EvidenceNames
    BY DEF CallSound, EvidenceNames
  <1>3. call.name \in Companies \cup {None} /\ call.ref \in Companies \cup {None}
    BY DEF CallSet
  <1>4. p = [name |-> Given(call.name, old.name),
             ref |-> Given(call.ref, old.ref),
             states |-> IF call.op = "link" THEN None ELSE Given(fresh, old.states),
             validated |-> IF call.op = "link" THEN None ELSE Given(fresh, old.validated),
             evidence |-> Given(fresh, ResetEvidence(call, old))]
    BY DEF MergedProfile
  <1>5. call.op = "link" => fresh = None /\ ResetEvidence(call, old) = None
    BY DEF ResetEvidence
  <1>6. call.op # "link" => ResetEvidence(call, old) = old.evidence
    BY DEF ResetEvidence
  <1> HIDE DEF old, fresh, p
  <1>7. p.states \in EvidenceNames /\ p.validated = p.states /\ p.evidence = p.states
    BY <1>1, <1>2, <1>4, <1>5, <1>6 DEF Given, EvidenceNames
  <1>8. p \in ProfileSet
    BY <1>1, <1>3, <1>4, <1>7 DEF ProfileSet, Given
  <1>9. QED
    BY <1>7, <1>8 DEF CoherentSet, p

\* The row an upsert writes is coherent when the row it replaces was.
LEMMA UpsertedSound ==
    ASSUME NEW call \in CallSet, CallSound(call), NEW row \in CoherentSet
    PROVE  UpsertedProfile(call, row) \in CoherentSet
  <1> DEFINE p == MergedProfile(call)
             n == Given(call.name, Kept(row).name)
  <1>1. p \in CoherentSet
    BY MergedSound
  <1>2. n \in Companies \cup {None}
    BY DEF Given, Kept, Profile, CoherentSet, ProfileSet, CallSet
  <1>3. UpsertedProfile(call, row) = [p EXCEPT !.name = n]
    BY DEF UpsertedProfile
  <1> HIDE DEF p, n
  <1>4. QED
    BY <1>1, <1>2, <1>3 DEF CoherentSet, ProfileSet, Absent

(* The profile the events give.                                            *)
LEMMA FallbackSound ==
    ASSUME EventsSound, NEW m \in Modes
    PROVE  FallbackProfiles[m] \in CoherentSet
  <1>1. CASE LastFor(m) = {}
    BY <1>1, EmptyProfile DEF FallbackProfiles
  <1>2. CASE LastFor(m) # {}
    <2> DEFINE k == CHOOSE x \in LastFor(m) : \A j \in LastFor(m) : j <= x
    <2>1. LastFor(m) \subseteq 1 .. Len(auditEvents) /\ Len(auditEvents) \in Nat
      BY DEF LastFor, FallbackEvents, EventsSound
    <2>2. \E x \in LastFor(m) : \A j \in LastFor(m) : j <= x
      BY <1>2, <2>1, LastOne
    <2>3. k \in LastFor(m)
      BY <2>2
    <2>4. FallbackProfiles[m] = IF auditEvents[k].type = "configured" THEN auditEvents[k].value
                                ELSE NoProfile
      BY <1>2 DEF FallbackProfiles
    <2>5. k \in DOMAIN auditEvents
      BY <2>3 DEF LastFor, FallbackEvents
    <2> HIDE DEF k
    <2>6. QED
      BY <2>4, <2>5, EmptyProfile DEF EventsSound
  <1>3. QED
    BY <1>1, <1>2

(* A view whose resolution is ready shows a profile to run on.             *)
LEMMA ReadySound ==
    ASSUME NEW view, \A m \in Modes : view[m] \in CoherentSet, NEW mode,
           Resolution(mode, view) = "ready"
    PROVE  LET p == view[CHOOSE m \in Selected(mode, view) : TRUE]
           IN  p \in CoherentSet /\ GoodProfile(p)
  <1> DEFINE found == Selected(mode, view)
             m0 == CHOOSE m \in found : TRUE
             p == view[m0]
  <1>1. Cardinality(found) = 1
    BY DEF Resolution
  <1>2. found # {}
    BY <1>1, FS_EmptySet
  <1>3. m0 \in found
    BY <1>2
  <1>4. p \in CoherentSet /\ ~ Absent(p)
    BY <1>3 DEF Selected
  <1>5. "ready" = IF p.validated = None THEN "not_validated"
                  ELSE IF p.states = None THEN "not_validated"
                  ELSE IF Outcome[p.states] # "observed" THEN Outcome[p.states]
                  ELSE IF ProfileStatus(p) # "ready" THEN "not_validated"
                  ELSE "ready"
    BY <1>1 DEF Resolution
  <1> HIDE DEF p
  <1>6. p.validated # None /\ p.states # None
    BY <1>5
  <1>7. p.states = p.evidence /\ p.evidence \in Evidence
    BY <1>4, <1>6 DEF CoherentSet, ProfileSet, EvidenceNames
  <1>8. Outcome[p.states] \in States
    BY <1>7, ProductAssumption
  <1>9. Outcome[p.states] = "observed"
    BY <1>5, <1>6, <1>8 DEF States
  <1>10. QED
    BY <1>4, <1>7, <1>9 DEF GoodProfile, p

-----------------------------------------------------------------------------
(* How the parts of the invariant are kept.                                *)
LEMMA CallsKept ==
    ASSUME CallsSound, NEW c \in Clients, NEW v \in CallSet, CallSound(v),
           calls' = [calls EXCEPT ![c] = v]
    PROVE  CallsSound'
  <1>1. calls' \in [Clients -> CallSet]
    BY DEF CallsSound
  <1>2. \A x \in Clients : CallSound(calls'[x])
    BY DEF CallsSound
  <1>3. QED
    BY <1>1, <1>2 DEF CallsSound

\* A client between calls owes nothing.
LEMMA IdleSound == Idle \in CallSet /\ CallSound(Idle)
  BY EmptyProfile DEF Idle, CallSet, CallSound, CallSteps, CallArguments, ContextSteps, None

\* Ending a call leaves the other calls as they were.
LEMMA FinishKept ==
    ASSUME CallsSound, NEW c \in Clients, Finish(c)
    PROVE  CallsSound'
  BY IdleSound, CallsKept DEF Finish

\* The call of each client is one the invariant describes.
LEMMA CallState ==
    ASSUME CallsSound, NEW c \in Clients
    PROVE  calls[c] \in CallSet /\ CallSound(calls[c])
  BY DEF CallsSound

\* Moving one call to a later step leaves the other calls as they were.
LEMMA GoKept ==
    ASSUME CallsSound, NEW c \in Clients, NEW step \in CallSteps, Go(c, step),
           CallSound([calls[c] EXCEPT !.step = step])
    PROVE  CallsSound'
  <1> DEFINE v == [calls[c] EXCEPT !.step = step]
  <1>1. v \in CallSet
    BY CallState DEF CallSet
  <1>2. calls' = [calls EXCEPT ![c] = v]
    BY DEF Go
  <1>3. QED
    BY <1>1, <1>2, CallsKept

\* Recording an event loses none, and an event under its own key can be found.
LEMMA EventsGrow ==
    ASSUME EventsSound, NEW e \in EventSet, e.type = "configured" => e.value \in CoherentSet,
           auditEvents' = Append(auditEvents, e)
    PROVE  /\ EventsSound'
           /\ \A type, value : Found(auditEvents, type, value) => Found(auditEvents', type, value)
           /\ e.key = "key" => Found(auditEvents', e.type, e.value)
  <1> DEFINE n == Len(auditEvents)
  <1>1. /\ n \in Nat /\ DOMAIN auditEvents = 1 .. n /\ auditEvents' \in Seq(EventSet)
        /\ DOMAIN auditEvents' = 1 .. (n + 1) /\ auditEvents'[n + 1] = e
        /\ \A i \in 1 .. n : i \in 1 .. (n + 1) /\ auditEvents'[i] = auditEvents[i]
    BY DEF EventsSound
  <1>2. n + 1 \in 1 .. (n + 1) /\ \A i \in 1 .. (n + 1) : i \in 1 .. n \/ i = n + 1
    BY <1>1
  <1>3. EventsSound'
    BY <1>1, <1>2 DEF EventsSound
  <1>4. QED
    BY <1>1, <1>2, <1>3 DEF Found

\* A step that changes nothing but a call keeps the invariant.
LEMMA OnlyCalls ==
    ASSUME ProductInv, CallsSound', begun' \in Nat,
           UNCHANGED <<profiles, productEvents, auditEvents, saved, recorded, ran>>
    PROVE  ProductInv'
  BY DEF ProductInv, EventsSound, AnswersFound

\* A step that records one event keeps the invariant when what it acknowledges
\* is the event it recorded.
LEMMA Appended ==
    ASSUME ProductInv, CallsSound', NEW e \in EventSet,
           e.type = "configured" => e.value \in CoherentSet,
           auditEvents' = Append(auditEvents, e), productEvents \subseteq productEvents',
           \A f \in saved' : f \in saved \/ (e.key = "key" /\ e.type = "flow.saved" /\ e.value = f),
           \A run \in recorded' :
              \/ run \in recorded
              \/ run[2] # "tables" /\ e.key = "key" /\ e.type = "flow.run_completed" /\ e.value = run[1],
           UNCHANGED <<profiles, begun, ran>>
    PROVE  ProductInv'
  <1>1. /\ EventsSound'
        /\ \A type, value : Found(auditEvents, type, value) => Found(auditEvents', type, value)
        /\ e.key = "key" => Found(auditEvents', e.type, e.value)
    BY EventsGrow DEF ProductInv
  <1>2. AnswersFound'
    BY <1>1 DEF ProductInv, AnswersFound
  <1>3. QED
    BY <1>1, <1>2 DEF ProductInv

-----------------------------------------------------------------------------
(* The steps of a client.                                                  *)
LEMMA BeginKept ==
    ASSUME ProductInv, NEW c \in Clients, NEW v \in CallSet, CallSound(v), Begin(c, v)
    PROVE  ProductInv'
  <1> DEFINE w == [v EXCEPT !.number = begun + 1]
  <1>1. begun + 1 \in Nat /\ begun' = begun + 1
    BY DEF ProductInv, Begin
  <1>2. w \in CallSet
    BY <1>1 DEF CallSet
  <1>3. CallSound(w)
    BY DEF CallSet, CallSound
  <1>4. calls' = [calls EXCEPT ![c] = w]
    BY DEF Begin
  <1> HIDE DEF w
  <1>5. CallsSound'
    BY <1>2, <1>3, <1>4, CallsKept DEF ProductInv
  <1>6. QED
    BY <1>1, <1>5, OnlyCalls DEF Begin

\* The tools that change a profile begin with nothing written.
LEMMA LinkKept ==
    ASSUME ProductInv, NEW c \in Clients,
           LinkProfile(c) \/ SetupConnector(c) \/ ValidateConnection(c) \/ UnlinkProfile(c)
    PROVE  ProductInv'
  <1>0. {"context", "context0"} \subseteq CallSteps /\ None \in CallArguments
        /\ Evidence \subseteq CallArguments
    BY DEF CallSteps, ContextSteps, CallArguments
  <1>1. CASE LinkProfile(c)
    <2>1. PICK m \in Modes, n \in Companies : \E r \in {None, n} :
            Begin(c, [Idle EXCEPT !.op = "link", !.step = "context", !.mode = m,
                                  !.name = n, !.ref = r])
      BY <1>1 DEF LinkProfile
    <2>2. PICK r \in {None, n} :
            Begin(c, [Idle EXCEPT !.op = "link", !.step = "context", !.mode = m,
                                  !.name = n, !.ref = r])
      BY <2>1
    <2> DEFINE v == [Idle EXCEPT !.op = "link", !.step = "context", !.mode = m,
                                 !.name = n, !.ref = r]
    <2>3. v.op = "link" /\ v.step = "context" /\ v.mode = m
      BY DEF Idle
    <2>a. "link" \in Ops
      BY <2>2, <2>3 DEF Begin
    <2>4. v \in CallSet /\ v.op = "link" /\ v.step = "context" /\ v.mode = m
      BY <1>0, <2>3, <2>a, IdleSound DEF CallSet
    <2> HIDE DEF v
    <2>5. CallSound(v)
      BY <2>4 DEF CallSound, ContextOps
    <2>6. QED
      BY <2>2, <2>4, <2>5, BeginKept DEF v
  <1>2. CASE SetupConnector(c)
    <2>1. PICK m \in Modes :
            Begin(c, [Idle EXCEPT !.op = "setup", !.step = "context", !.mode = m])
      BY <1>2 DEF SetupConnector
    <2> DEFINE v == [Idle EXCEPT !.op = "setup", !.step = "context", !.mode = m]
    <2>3. v.op = "setup" /\ v.step = "context" /\ v.mode = m
      BY DEF Idle
    <2>a. "setup" \in Ops
      BY <2>1, <2>3 DEF Begin
    <2>4. v \in CallSet /\ v.op = "setup" /\ v.step = "context" /\ v.mode = m
      BY <1>0, <2>3, <2>a, IdleSound DEF CallSet
    <2> HIDE DEF v
    <2>5. CallSound(v)
      BY <2>4 DEF CallSound, ContextOps
    <2>6. QED
      BY <2>1, <2>4, <2>5, BeginKept DEF v
  <1>3. CASE ValidateConnection(c)
    <2>1. PICK m \in Modes, x \in Evidence :
            Begin(c, [Idle EXCEPT !.op = "validate", !.step = "context", !.mode = m, !.arg = x])
      BY <1>3 DEF ValidateConnection
    <2> DEFINE v == [Idle EXCEPT !.op = "validate", !.step = "context", !.mode = m, !.arg = x]
    <2>3. v.op = "validate" /\ v.step = "context" /\ v.mode = m /\ v.arg = x
      BY DEF Idle
    <2>a. "validate" \in Ops
      BY <2>1, <2>3 DEF Begin
    <2>4. v \in CallSet /\ v.op = "validate" /\ v.step = "context" /\ v.mode = m /\ v.arg = x
      BY <1>0, <2>3, <2>a, IdleSound DEF CallSet
    <2> HIDE DEF v
    <2>5. CallSound(v)
      BY <2>4 DEF CallSound, ContextOps
    <2>6. QED
      BY <2>1, <2>4, <2>5, BeginKept DEF v
  <1>4. CASE UnlinkProfile(c)
    <2>1. PICK m \in Modes :
            Begin(c, [Idle EXCEPT !.op = "unlink", !.step = "context", !.mode = m])
      BY <1>4 DEF UnlinkProfile
    <2> DEFINE v == [Idle EXCEPT !.op = "unlink", !.step = "context", !.mode = m]
    <2>3. v.op = "unlink" /\ v.step = "context" /\ v.mode = m
      BY DEF Idle
    <2>a. "unlink" \in Ops
      BY <2>1, <2>3 DEF Begin
    <2>4. v \in CallSet /\ v.op = "unlink" /\ v.step = "context" /\ v.mode = m
      BY <1>0, <2>3, <2>a, IdleSound DEF CallSet
    <2> HIDE DEF v
    <2>5. CallSound(v)
      BY <2>4 DEF CallSound, ContextOps
    <2>6. QED
      BY <2>1, <2>4, <2>5, BeginKept DEF v
  <1>5. QED
    BY <1>1, <1>2, <1>3, <1>4

(* The other calls name no mode or may leave it out.                       *)
LEMMA CallBegins ==
    ASSUME ProductInv, NEW c \in Clients, NEW call, Begin(c, call),
           call.op \in {"connect", "skill", "invite", "upload", "save", "run"},
           call.step \in {"workspace", "context", "context0", "context2", "save"},
           call.step \in ContextSteps => call.op \in ContextOps,
           call.op = "save" => call.arg \in Flows, call.op \in Ops => call \in CallSet
    PROVE  ProductInv'
  <1>1. call \in CallSet
    BY DEF Begin
  <1>2. CallSound(call)
    BY DEF CallSound, ContextSteps
  <1>3. QED
    BY <1>1, <1>2, BeginKept

\* So do the other tools.
LEMMA OthersKept ==
    ASSUME ProductInv, NEW c \in Clients,
           \/ Connect(c) \/ EnableSkill(c) \/ InviteMember(c) \/ UploadSkill(c)
           \/ SaveFlow(c) \/ RunWorkspaceFlow(c) \/ RunInlineFlow(c)
    PROVE  ProductInv'
  <1>0. /\ {"workspace", "context", "context0", "context2", "save"} \subseteq CallSteps
        /\ {None, "on", "off"} \cup Clients \cup Flows \subseteq CallArguments
        /\ {"skill", "invite", "upload", "run"} \subseteq ContextOps
        /\ "workspace" \notin ContextSteps /\ "save" \notin ContextSteps
    BY DEF CallSteps, ContextSteps, CallArguments, ContextOps
  <1>1. CASE Connect(c)
    <2> DEFINE v == [Idle EXCEPT !.op = "connect", !.step = "workspace"]
    <2>1. v.op = "connect" /\ v.step = "workspace" /\ Begin(c, v)
      BY <1>1 DEF Idle, Connect
    <2>2. v.op \in Ops => v \in CallSet
      BY <1>0, <2>1, IdleSound DEF CallSet
    <2> HIDE DEF v
    <2>3. QED
      BY <1>0, <2>1, <2>2, CallBegins
  <1>2. CASE EnableSkill(c)
    <2>1. PICK on \in {"on", "off"} :
            Begin(c, [Idle EXCEPT !.op = "skill", !.step = "context", !.arg = on])
      BY <1>2 DEF EnableSkill
    <2> DEFINE v == [Idle EXCEPT !.op = "skill", !.step = "context", !.arg = on]
    <2>2. v.op = "skill" /\ v.step = "context"
      BY DEF Idle
    <2>3. v.op \in Ops => v \in CallSet
      BY <1>0, <2>2, IdleSound DEF CallSet
    <2> HIDE DEF v
    <2>4. QED
      BY <1>0, <2>1, <2>2, <2>3, CallBegins DEF v
  <1>3. CASE InviteMember(c)
    <2>1. PICK other \in Clients :
            Begin(c, [Idle EXCEPT !.op = "invite", !.step = "context", !.arg = other])
      BY <1>3 DEF InviteMember
    <2> DEFINE v == [Idle EXCEPT !.op = "invite", !.step = "context", !.arg = other]
    <2>2. v.op = "invite" /\ v.step = "context"
      BY DEF Idle
    <2>3. v.op \in Ops => v \in CallSet
      BY <1>0, <2>2, IdleSound DEF CallSet
    <2> HIDE DEF v
    <2>4. QED
      BY <1>0, <2>1, <2>2, <2>3, CallBegins DEF v
  <1>4. CASE UploadSkill(c)
    <2> DEFINE v == [Idle EXCEPT !.op = "upload", !.step = "context0", !.arg = "on"]
    <2>1. v.op = "upload" /\ v.step = "context0" /\ Begin(c, v)
      BY <1>4 DEF Idle, UploadSkill
    <2>2. v.op \in Ops => v \in CallSet
      BY <1>0, <2>1, IdleSound DEF CallSet
    <2> HIDE DEF v
    <2>3. QED
      BY <1>0, <2>1, <2>2, CallBegins
  <1>5. CASE SaveFlow(c)
    <2>1. PICK f \in Flows : Begin(c, [Idle EXCEPT !.op = "save", !.step = "save", !.arg = f])
      BY <1>5 DEF SaveFlow
    <2> DEFINE v == [Idle EXCEPT !.op = "save", !.step = "save", !.arg = f]
    <2>2. v.op = "save" /\ v.step = "save" /\ v.arg \in Flows
      BY DEF Idle
    <2>3. v.op \in Ops => v \in CallSet
      BY <1>0, <2>2, IdleSound DEF CallSet
    <2> HIDE DEF v
    <2>4. QED
      BY <1>0, <2>1, <2>2, <2>3, CallBegins DEF v
  <1>6. ASSUME NEW m \in Modes \cup {None}, NEW f \in CallArguments, NEW st \in {"context", "context2"},
               Begin(c, [Idle EXCEPT !.op = "run", !.step = st, !.mode = m, !.arg = f])
        PROVE  ProductInv'
    <2> DEFINE v == [Idle EXCEPT !.op = "run", !.step = st, !.mode = m, !.arg = f]
    <2>1. v.op = "run" /\ v.step = st
      BY DEF Idle
    <2>2. v.op \in Ops => v \in CallSet
      BY <1>0, <2>1, IdleSound DEF CallSet
    <2> HIDE DEF v
    <2>3. QED
      BY <1>0, <1>6, <2>1, <2>2, CallBegins DEF v
  <1>7. CASE RunWorkspaceFlow(c)
    BY <1>0, <1>6, <1>7 DEF RunWorkspaceFlow
  <1>8. CASE RunInlineFlow(c)
    <2>1. CASE \E m \in Modes \cup {None} :
                 Begin(c, [Idle EXCEPT !.op = "run", !.step = "context", !.mode = m, !.arg = None])
      BY <1>0, <1>6, <2>1
    <2>2. CASE Begin(c, [Idle EXCEPT !.op = "run", !.step = "context2", !.arg = None])
      <3> DEFINE v == [Idle EXCEPT !.op = "run", !.step = "context2", !.arg = None]
      <3>1. v.op = "run" /\ v.step = "context2"
        BY DEF Idle
      <3>2. v.op \in Ops => v \in CallSet
        BY <1>0, <3>1, IdleSound DEF CallSet
      <3> HIDE DEF v
      <3>3. QED
        BY <1>0, <2>2, <3>1, <3>2, CallBegins DEF v
    <2>3. QED
      BY <1>8, <2>1, <2>2 DEF RunInlineFlow
  <1>9. QED
    BY <1>1, <1>2, <1>3, <1>4, <1>5, <1>7, <1>8

(* A call that goes on to a step it may be at.                             *)
LEMMA StepsOn ==
    ASSUME ProductInv, NEW c \in Clients, NEW step \in CallSteps, Go(c, step),
           step \in ContextSteps => calls[c].op \in ContextOps,
           step = "check" => calls[c].op = "validate",
           step \in {"read", "write", "fallback_read"} =>
              calls[c].op \in {"link", "setup", "validate"},
           step \in {"document", "catalog", "insert"} => calls[c].op = "upload",
           step \in {"view", "load"} => calls[c].op = "run" /\ GoodProfile(calls[c].seen)
    PROVE  CallsSound'
  <1> DEFINE w == calls[c]
             v == [w EXCEPT !.step = step]
  <1>1. w \in CallSet /\ CallSound(w)
    BY CallState DEF ProductInv
  <1>2. /\ v.op = w.op /\ v.step = step /\ v.mode = w.mode
        /\ v.arg = w.arg /\ v.seen = w.seen
    BY <1>1 DEF CallSet
  <1>3. CallSound(v)
    BY <1>1, <1>2 DEF CallSound
  <1>4. QED
    BY <1>3, GoKept DEF ProductInv

\* Resolving the workspace before the work keeps the invariant.
LEMMA ContextKept ==
    ASSUME ProductInv, NEW c \in Clients, ResolveContext(c)
    PROVE  ProductInv'
  <1> DEFINE w == calls[c]
             next == AfterContext(w)
             x == IF schemaUp THEN "tables" ELSE "fallback"
             v == [w EXCEPT !.ctx = x, !.step = next]
  <1>1. w \in CallSet /\ CallSound(w) /\ w.step \in ContextSteps /\ w.op \in ContextOps
    BY CallState DEF ProductInv, ResolveContext, At, ContextSteps, CallSound
  <1>2. CASE Finish(c)
    BY <1>2, FinishKept, OnlyCalls DEF ProductInv, ResolveContext
  <1>3. CASE calls' = [calls EXCEPT ![c].ctx = x, ![c].step = next]
    <2>1. calls' = [calls EXCEPT ![c] = v]
      BY <1>3, CallState DEF ProductInv, CallsSound, CallSet
    <2>2. \/ w.op \in {"link", "setup"} /\ next = "read"
          \/ w.op = "validate" /\ next \in {"check", "read"}
          \/ w.op = "unlink" /\ next = "delete"
          \/ w.op = "skill" /\ next = "enable"
          \/ w.op = "invite" /\ next = "invite"
          \/ w.op = "upload" /\ next \in {"document", "catalog", "enable"}
          \/ w.op = "run" /\ next \in {"view", "event"}
      BY <1>1 DEF AfterContext, ContextOps
    <2>3. next \in CallSteps \ ContextSteps /\ next # "load"
      BY <2>2 DEF CallSteps, TableSteps, ContextSteps
    <2> HIDE DEF next
    <2>4. v \in CallSet
      BY <1>1, <2>3 DEF CallSet
    <2>5. v.op = w.op /\ v.step = next /\ v.mode = w.mode /\ v.arg = w.arg
      BY <1>1 DEF CallSet
    <2>6. CallSound(v)
      BY <1>1, <2>2, <2>3, <2>5 DEF CallSound
    <2>7. CallsSound'
      BY <2>1, <2>4, <2>6, CallsKept DEF ProductInv
    <2>8. QED
      BY <2>7, OnlyCalls DEF ProductInv, ResolveContext
  <1>4. QED
    BY <1>2, <1>3 DEF ResolveContext

\* A call refused or failed acknowledges nothing.
LEMMA FinishesKept ==
    ASSUME ProductInv, NEW c \in Clients, UnknownWorkspace(c) \/ RequestFails(c)
    PROVE  ProductInv'
  <1>1. Finish(c)
    BY DEF UnknownWorkspace, RequestFails
  <1>2. CallsSound'
    BY <1>1, FinishKept DEF ProductInv
  <1>3. QED
    BY <1>2, OnlyCalls DEF UnknownWorkspace, RequestFails, ProductInv

(* The steps that leave profiles, events and answers alone.                *)
LEMMA TablesKept ==
    ASSUME ProductInv, NEW c \in Clients,
           \/ UpsertConnection(c) \/ CheckLinked(c) \/ SetSkillEnabled(c) \/ InviteRow(c)
           \/ IndexDocument(c) \/ RecordUpload(c) \/ ToFallback(c)
    PROVE  ProductInv'
  <1> DEFINE w == calls[c]
  <1>0. w \in CallSet /\ CallSound(w)
    BY CallState DEF ProductInv
  <1>s. {"member", "token", "event", "context", "context2", "insert", "fallback_read",
         "fallback_write", "fallback_enable"} \subseteq CallSteps
    BY DEF CallSteps, ContextSteps, TableSteps
  <1>1. CASE UpsertConnection(c)
    <2>1. Go(c, "member") \/ Go(c, "token") \/ Go(c, "event")
      BY <1>1 DEF UpsertConnection, At
    <2>2. CallsSound'
      BY <1>s, <2>1, StepsOn DEF ContextSteps
    <2>3. QED
      BY <1>1, <2>2, OnlyCalls DEF UpsertConnection, ProductInv
  <1>2. CASE CheckLinked(c)
    <2>1. Finish(c) \/ Go(c, "context2")
      BY <1>2 DEF CheckLinked
    <2>2. w.op = "validate"
      BY <1>0, <1>2 DEF CheckLinked, At, CallSound
    <2>3. CallsSound'
      BY <1>s, <2>1, <2>2, StepsOn, FinishKept DEF ContextOps, ProductInv
    <2>4. QED
      BY <1>2, <2>3, OnlyCalls DEF CheckLinked, ProductInv
  <1>3. CASE SetSkillEnabled(c) \/ InviteRow(c)
    <2>1. Finish(c) \/ Go(c, "event")
      BY <1>3 DEF SetSkillEnabled, InviteRow
    <2>2. CallsSound'
      BY <1>s, <2>1, StepsOn, FinishKept DEF ContextSteps, ProductInv
    <2>3. QED
      BY <1>3, <2>2, OnlyCalls DEF SetSkillEnabled, InviteRow, ProductInv
  <1>4. CASE IndexDocument(c) \/ RecordUpload(c)
    <2>1. Go(c, "context") \/ Go(c, "insert") \/ Go(c, "context2")
      BY <1>4 DEF IndexDocument, RecordUpload
    <2>2. w.op = "upload"
      BY <1>0, <1>4 DEF IndexDocument, RecordUpload, At, CallSound
    <2>3. CallsSound'
      BY <1>s, <2>1, <2>2, StepsOn DEF ContextOps
    <2>4. QED
      BY <1>4, <2>3, OnlyCalls DEF IndexDocument, RecordUpload, ProductInv
  <1>5. CASE ToFallback(c)
    <2>1. \/ w.step \in {"check", "read", "write"} /\ Go(c, "fallback_read")
          \/ Go(c, "fallback_write") \/ Go(c, "fallback_enable")
      BY <1>5 DEF ToFallback, At
    <2>2. w.step \in {"check", "read", "write"} => w.op \in {"link", "setup", "validate"}
      BY <1>0 DEF CallSound
    <2>3. CallsSound'
      BY <1>s, <2>1, <2>2, StepsOn DEF ContextSteps
    <2>4. QED
      BY <1>5, <2>3, OnlyCalls DEF ToFallback, ProductInv
  <1>6. QED
    BY <1>1, <1>2, <1>3, <1>4, <1>5

(* A read shows a coherent profile.                                        *)
LEMMA ReadsKept ==
    ASSUME ProductInv, NEW c \in Clients, ReadProfile(c) \/ FallbackRead(c)
    PROVE  ProductInv'
  <1> DEFINE w == calls[c]
  <1>1. /\ w \in CallSet /\ CallSound(w) /\ w.op \in {"link", "setup", "validate"}
        /\ w.mode \in Modes
    BY CallState DEF ProductInv, ReadProfile, FallbackRead, At, CallSound
  <1>2. CASE Finish(c)
    BY <1>2, FinishKept, OnlyCalls DEF ReadProfile, FallbackRead, ProductInv
  <1>3. ASSUME NEW old \in CoherentSet, NEW st \in {"write", "fallback_write"},
               calls' = [calls EXCEPT ![c].seen = old, ![c].step = st]
        PROVE  ProductInv'
    <2> DEFINE v == [w EXCEPT !.seen = old, !.step = st]
    <2>1. calls' = [calls EXCEPT ![c] = v]
      BY <1>3, CallState DEF ProductInv, CallsSound, CallSet
    <2>2. v \in CallSet
      BY <1>1 DEF CallSet, CallSteps, TableSteps
    <2>3. v.op = w.op /\ v.step = st /\ v.mode = w.mode /\ v.arg = w.arg
      BY <1>1 DEF CallSet
    <2>4. CallSound(v)
      BY <1>1, <2>3 DEF CallSound, ContextSteps
    <2>5. CallsSound'
      BY <2>1, <2>2, <2>4, CallsKept DEF ProductInv
    <2>6. QED
      BY <2>5, OnlyCalls DEF ReadProfile, FallbackRead, ProductInv
  <1>4. CASE ReadProfile(c)
    <2>1. profiles[w.mode] \in CoherentSet
      BY <1>1 DEF ProductInv
    <2>2. QED
      BY <1>3, <1>4, <2>1 DEF ReadProfile
  <1>5. CASE FallbackRead(c)
    <2>1. FallbackProfiles[w.mode] \in CoherentSet
      BY <1>1, FallbackSound DEF ProductInv
    <2>2. QED
      BY <1>2, <1>3, <1>5, <2>1 DEF FallbackRead
  <1>6. QED
    BY <1>4, <1>5

\* Writing or deleting a profile row replaces all its validation fields together.
LEMMA ProfilesKept ==
    ASSUME ProductInv, NEW c \in Clients, UpsertProfile(c) \/ DeleteProfile(c)
    PROVE  ProductInv'
  <1> DEFINE w == calls[c]
  <1>1. CallsSound'
    <2>1. Go(c, "event") /\ "event" \in CallSteps
      BY DEF UpsertProfile, DeleteProfile, CallSteps
    <2>2. QED
      BY <2>1, StepsOn DEF ContextSteps
  <1>2. profiles' \in [Modes -> CoherentSet]
    <2>1. w \in CallSet /\ CallSound(w) /\ profiles \in [Modes -> CoherentSet]
      BY CallState DEF ProductInv
    <2>2. CASE UpsertProfile(c)
      <3>1. profiles' = [profiles EXCEPT ![w.mode] = UpsertedProfile(w, profiles[w.mode])]
        BY <2>2 DEF UpsertProfile
      <3>2. w.mode \in Modes => UpsertedProfile(w, profiles[w.mode]) \in CoherentSet
        BY <2>1, UpsertedSound
      <3>3. QED
        BY <2>1, <3>1, <3>2
    <2>3. CASE DeleteProfile(c)
      BY <2>1, <2>3, EmptyProfile DEF DeleteProfile
    <2>4. QED
      BY <2>2, <2>3
  <1>3. UNCHANGED <<productEvents, auditEvents, begun, saved, recorded, ran>>
    BY DEF UpsertProfile, DeleteProfile
  <1>4. QED
    BY <1>1, <1>2, <1>3 DEF ProductInv, EventsSound, AnswersFound

(* The events a fallback appends.                                          *)
LEMMA StateEventType ==
    ASSUME NEW key \in {"key", "id"}, NEW type \in EventTypes \cup Ops \cup {None},
           NEW mode \in Modes \cup {None}, NEW x \in CoherentSet \cup CallArguments \cup Nat
    PROVE  LET e == StateEvent(key, type, mode, x)
           IN  /\ e \in EventSet /\ e.key = key /\ e.type = type /\ e.value = x
  BY DEF StateEvent, EventSet

\* A row of the fallback table is a configuration event with a coherent profile.
LEMMA RowKept ==
    ASSUME ProductInv, NEW c \in Clients, CallsSound', NEW type \in EventTypes,
           NEW mode \in Modes \cup {None}, NEW x \in CoherentSet \cup CallArguments,
           type = "configured" => x \in CoherentSet, AppendState(type, mode, x),
           UNCHANGED <<profiles, productEvents, begun, saved, recorded, ran>>
    PROVE  ProductInv'
  <1> DEFINE e == StateEvent("key", type, mode, x)
  <1>1. e \in EventSet /\ e.type = type /\ e.value = x
    BY StateEventType
  <1>2. auditEvents' = Append(auditEvents, e)
    BY DEF AppendState
  <1> HIDE DEF e
  <1>3. QED
    BY <1>1, <1>2, Appended

\* The tools that write the fallback table keep the invariant.
LEMMA FallbacksKept ==
    ASSUME ProductInv, NEW c \in Clients,
           \/ FallbackConfigure(c) \/ FallbackUnlink(c) \/ FallbackConnect(c)
           \/ FallbackInvite(c) \/ FallbackUpload(c) \/ FallbackEnable(c)
    PROVE  ProductInv'
  <1> DEFINE w == calls[c]
  <1>0. /\ w \in CallSet /\ CallSound(w) /\ w.mode \in Modes \cup {None} /\ w.arg \in CallArguments
        /\ None \in CallArguments
        /\ {"configured", "unlinked", "connected", "invited", "uploaded", "skill"} \subseteq EventTypes
    BY CallState DEF ProductInv, CallSet, CallArguments, EventTypes
  <1>f. Finish(c) => CallsSound'
    BY FinishKept DEF ProductInv
  <1>1. CASE FallbackConfigure(c)
    <2>1. /\ AppendState("configured", w.mode, MergedProfile(w)) /\ Finish(c)
          /\ UNCHANGED <<profiles, productEvents, begun, saved, recorded, ran>>
      BY <1>1 DEF FallbackConfigure, FallbackRow
    <2>2. MergedProfile(w) \in CoherentSet
      BY <1>0, MergedSound
    <2>3. QED
      BY <1>0, <1>f, <2>1, <2>2, RowKept
  <1>2. CASE FallbackUnlink(c)
    <2>1. /\ AppendState("unlinked", w.mode, None) /\ Finish(c)
          /\ UNCHANGED <<profiles, productEvents, begun, saved, recorded, ran>>
      BY <1>2 DEF FallbackUnlink, FallbackRow
    <2>2. QED
      BY <1>0, <1>f, <2>1, RowKept
  <1>3. CASE FallbackConnect(c)
    <2>1. /\ AppendState("connected", w.mode, None) /\ Finish(c)
          /\ UNCHANGED <<profiles, productEvents, begun, saved, recorded, ran>>
      BY <1>3 DEF FallbackConnect, FallbackRow
    <2>2. QED
      BY <1>0, <1>f, <2>1, RowKept
  <1>4. CASE FallbackInvite(c)
    <2>1. /\ AppendState("invited", w.mode, w.arg) /\ Finish(c)
          /\ UNCHANGED <<profiles, productEvents, begun, saved, recorded, ran>>
      BY <1>4 DEF FallbackInvite, FallbackRow
    <2>2. QED
      BY <1>0, <1>f, <2>1, RowKept
  <1>5. CASE FallbackUpload(c)
    <2> DEFINE v == [w EXCEPT !.step = "fallback_enable", !.ctx = "uploaded"]
    <2>1. /\ AppendState("uploaded", w.mode, None)
          /\ UNCHANGED <<profiles, productEvents, begun, saved, recorded, ran>>
      BY <1>5 DEF FallbackUpload, FallbackRow
    <2>2. calls' = [calls EXCEPT ![c] = v]
      BY <1>5, CallState DEF FallbackUpload, ProductInv, CallsSound, CallSet
    <2>3. v \in CallSet
      BY <1>0 DEF CallSet, CallSteps
    <2>4. v.op = w.op /\ v.step = "fallback_enable" /\ v.mode = w.mode /\ v.arg = w.arg
      BY <1>0 DEF CallSet
    <2>5. CallSound(v)
      BY <1>0, <2>4 DEF CallSound, ContextSteps
    <2>6. CallsSound'
      BY <2>2, <2>3, <2>5, CallsKept DEF ProductInv
    <2>7. QED
      BY <1>0, <2>1, <2>6, RowKept
  <1>6. CASE FallbackEnable(c)
    <2> DEFINE v == [w EXCEPT !.step = "event", !.ctx = "enabled"]
    <2>1. /\ AppendState("skill", None, w.arg)
          /\ UNCHANGED <<profiles, productEvents, begun, saved, recorded, ran>>
      BY <1>6 DEF FallbackEnable
    <2>2. calls' = [calls EXCEPT ![c] = v] \/ Finish(c)
      BY <1>6, CallState DEF FallbackEnable, ProductInv, CallsSound, CallSet
    <2>3. v \in CallSet
      BY <1>0 DEF CallSet, CallSteps
    <2>4. v.op = w.op /\ v.step = "event" /\ v.mode = w.mode /\ v.arg = w.arg
      BY <1>0 DEF CallSet
    <2>5. CallSound(v)
      BY <1>0, <2>4 DEF CallSound, ContextSteps
    <2>6. CallsSound'
      BY <1>f, <2>2, <2>3, <2>5, CallsKept DEF ProductInv
    <2>7. QED
      BY <1>0, <2>1, <2>6, RowKept
  <1>7. QED
    BY <1>1, <1>2, <1>3, <1>4, <1>5, <1>6

\* Recording the event of a call keeps the invariant.
LEMMA RecordKept ==
    ASSUME ProductInv, NEW c \in Clients, RecordEvent(c)
    PROVE  ProductInv'
  <1> DEFINE w == calls[c]
             v == [w EXCEPT !.ctx = "enabled"]
             e == StateEvent(EventKey(w), EventType(w), None, w.number)
  <1>0. w \in CallSet /\ CallSound(w) /\ w.number \in Nat /\ w.step = "event" /\ w.op \in Ops \cup {None}
    BY CallState DEF ProductInv, CallSet, RecordEvent, At
  <1>1. CallsSound'
    <2>1. v \in CallSet
      BY <1>0 DEF CallSet
    <2>2. v.op = w.op /\ v.step = "event" /\ v.mode = w.mode /\ v.arg = w.arg
      BY <1>0 DEF CallSet
    <2>3. CallSound(v)
      BY <1>0, <2>2 DEF CallSound, ContextSteps
    <2>4. calls' = [calls EXCEPT ![c] = v] \/ Finish(c)
      BY <1>0, CallState DEF RecordEvent, ProductInv, CallsSound, CallSet
    <2>5. QED
      BY <2>1, <2>3, <2>4, CallsKept, FinishKept DEF ProductInv
  <1>2. /\ UNCHANGED <<profiles, begun, ran, saved>>
        /\ recorded' = IF w.op = "run" THEN recorded \cup {<<w.number, Storage>>} ELSE recorded
    BY DEF RecordEvent
  <1>3. CASE /\ schemaUp
             /\ productEvents' = IF w.op = "run" THEN productEvents \cup {w.number} ELSE productEvents
             /\ UNCHANGED auditEvents
    <2>1. /\ productEvents \subseteq productEvents'
          /\ \A run \in recorded' : run \in recorded \/ (run[2] = "tables" /\ run[1] \in productEvents')
      BY <1>2, <1>3 DEF Storage
    <2>2. AnswersFound'
      BY <1>2, <1>3, <2>1 DEF ProductInv, AnswersFound
    <2>3. QED
      BY <1>1, <1>2, <1>3, <2>2 DEF ProductInv, EventsSound
  <1>4. CASE ~schemaUp /\ auditEvents' = Append(auditEvents, e) /\ UNCHANGED productEvents
    <2>1. EventKey(w) \in {"key", "id"} /\ EventType(w) \in EventTypes \cup Ops \cup {None}
      BY <1>0 DEF EventKey, EventType, EventTypes
    <2>2. e \in EventSet /\ e.key = EventKey(w) /\ e.type = EventType(w) /\ e.value = w.number
      BY <1>0, <2>1, StateEventType
    <2>3. EventType(w) # "configured"
      BY <1>0, ProductAssumption DEF EventType, None
    <2>4. w.op = "run" => EventKey(w) = "key" /\ EventType(w) = "flow.run_completed"
      BY DEF EventKey, EventType
    <2> HIDE DEF e
    <2>5. \A run \in recorded' :
             \/ run \in recorded
             \/ run[2] # "tables" /\ e.key = "key" /\ e.type = "flow.run_completed" /\ e.value = run[1]
      BY <1>2, <1>4, <2>2, <2>4 DEF Storage
    <2>6. QED
      BY <1>1, <1>2, <1>4, <2>2, <2>3, <2>5, Appended
  <1>5. QED
    BY <1>3, <1>4 DEF RecordEvent

\* A flow counts as saved when its event has been recorded.
LEMMA SaveKept ==
    ASSUME ProductInv, NEW c \in Clients, SaveFlowEvent(c)
    PROVE  ProductInv'
  <1> DEFINE w == calls[c]
             e == StateEvent("key", "flow.saved", None, w.arg)
  <1>1. w.arg \in CallArguments /\ "flow.saved" \in EventTypes
    BY CallState DEF ProductInv, CallSet, EventTypes
  <1>2. e \in EventSet /\ e.key = "key" /\ e.type = "flow.saved" /\ e.value = w.arg
    BY <1>1, StateEventType
  <1>3. CallsSound'
    BY FinishKept DEF ProductInv, SaveFlowEvent
  <1>4. /\ auditEvents' = Append(auditEvents, e) /\ saved' = saved \cup {w.arg}
        /\ UNCHANGED <<profiles, begun, ran, recorded, productEvents>>
    BY DEF SaveFlowEvent, AppendState
  <1> HIDE DEF e
  <1>5. QED
    BY <1>2, <1>3, <1>4, Appended

\* Reading the dashboard changes nothing that is kept.
LEMMA ViewKept ==
    ASSUME ProductInv, NEW c \in Clients, ViewDashboard(c)
    PROVE  ProductInv'
  <1> DEFINE w == calls[c]
             view == DashboardProfiles
             p == view[CHOOSE m \in Selected(w.mode, view) : TRUE]
             v == [w EXCEPT !.step = "load", !.seen = p]
  <1>0. w \in CallSet /\ CallSound(w) /\ w.op = "run"
    BY CallState DEF ProductInv, ViewDashboard, At, CallSound
  <1>1. CASE Finish(c)
    BY <1>1, FinishKept, OnlyCalls DEF ViewDashboard, ProductInv
  <1>2. CASE Resolution(w.mode, view) = "ready" /\ calls' = [calls EXCEPT ![c].step = "load", ![c].seen = p]
    <2>1. \A m \in Modes : view[m] \in CoherentSet
      BY FallbackSound DEF DashboardProfiles, ProductInv
    <2>2. p \in CoherentSet /\ GoodProfile(p)
      BY <1>2, <2>1, ReadySound
    <2> HIDE DEF p
    <2>3. calls' = [calls EXCEPT ![c] = v]
      BY <1>2, CallState DEF ProductInv, CallsSound, CallSet
    <2>4. v \in CallSet
      BY <1>0, <2>2 DEF CallSet, CallSteps
    <2>5. v.op = w.op /\ v.step = "load" /\ v.mode = w.mode /\ v.arg = w.arg /\ v.seen = p
      BY <1>0 DEF CallSet
    <2>6. CallSound(v)
      BY <1>0, <2>2, <2>5 DEF CallSound, ContextSteps
    <2>7. CallsSound'
      BY <2>3, <2>4, <2>6, CallsKept DEF ProductInv
    <2>8. QED
      BY <2>7, OnlyCalls DEF ViewDashboard, ProductInv
  <1>3. QED
    BY <1>1, <1>2 DEF ViewDashboard

\* A run of a saved flow finds the event that saved it.
LEMMA RunKept ==
    ASSUME ProductInv, NEW c \in Clients, RunSavedFlow(c)
    PROVE  ProductInv'
  <1> DEFINE w == calls[c]
  <1>1. CallSound(w) /\ w.op = "run" /\ GoodProfile(w.seen)
    BY CallState DEF ProductInv, RunSavedFlow, At, CallSound
  <1>2. ran' \subseteq ran \cup {w.seen}
    BY DEF RunSavedFlow
  <1>3. Finish(c) \/ Go(c, "context2")
    BY DEF RunSavedFlow
  <1>4. CallsSound'
    <2>1. "context2" \in CallSteps /\ "run" \in ContextOps
      BY DEF CallSteps, ContextSteps, ContextOps
    <2>2. QED
      BY <1>1, <1>3, <2>1, StepsOn, FinishKept DEF ProductInv
  <1>5. UNCHANGED <<profiles, productEvents, auditEvents, begun, saved, recorded>>
    BY DEF RunSavedFlow
  <1>6. QED
    BY <1>1, <1>2, <1>4, <1>5 DEF ProductInv, EventsSound, AnswersFound

\* The invariant holds of an empty workspace.
LEMMA ProductStart == ProductInit => ProductInv
  <1> SUFFICES ASSUME ProductInit PROVE ProductInv
    OBVIOUS
  <1>1. profiles \in [Modes -> CoherentSet]
    <2>1. \A n \in Companies : Profile(n, None, None, None, None) \in CoherentSet
      BY DEF Profile, CoherentSet, ProfileSet, EvidenceNames
    <2>2. QED
      BY <2>1, EmptyProfile DEF ProductInit
  <1>2. CallsSound
    BY IdleSound DEF ProductInit, CallsSound
  <1>3. /\ auditEvents \in Seq(EventSet)
        /\ \A i \in DOMAIN auditEvents : auditEvents[i].type = "flow.saved" /\ auditEvents[i].key = "key"
        /\ \A f \in saved : \E i \in DOMAIN auditEvents : auditEvents[i].value = f
    <2>1. saved \subseteq Flows /\ Cardinality(saved) \in Nat
      <3>1. saved \subseteq Flows
        BY DEF ProductInit
      <3>2. QED
        BY <3>1, ProductAssumption, FS_Subset, FS_CardinalityType
    <2> DEFINE SavedEvents == {StateEvent("key", "flow.saved", None, f) : f \in saved}
    <2>2. /\ auditEvents \in [1 .. Cardinality(saved) -> SavedEvents]
          /\ \A f \in saved : \E i \in DOMAIN auditEvents : auditEvents[i].value = f
      BY DEF ProductInit
    <2>3. \A e \in SavedEvents : e \in EventSet /\ e.type = "flow.saved" /\ e.key = "key"
      <3>1. "flow.saved" \in EventTypes /\ Flows \subseteq CallArguments
        BY DEF EventTypes, CallArguments
      <3>2. QED
        BY <2>1, <3>1, StateEventType
    <2> HIDE DEF SavedEvents
    <2>4. QED
      BY <2>1, <2>2, <2>3
  <1>4. EventsSound /\ AnswersFound
    BY <1>3 DEF ProductInit, EventsSound, AnswersFound, Found
  <1>5. QED
    BY <1>1, <1>2, <1>4 DEF ProductInit, ProductInv

\* Every step keeps the invariant.
LEMMA ProductSteps == ProductInv /\ [ProductNext]_productVars => ProductInv'
  <1> SUFFICES ASSUME ProductInv, [ProductNext]_productVars PROVE ProductInv'
    OBVIOUS
  <1>1. CASE SchemaFlips
    <2>1. CallsSound' /\ begun' \in Nat
      BY <1>1 DEF SchemaFlips, ProductInv, CallsSound
    <2>2. QED
      BY <1>1, <2>1, OnlyCalls DEF SchemaFlips
  <1>2. ASSUME NEW c \in Clients,
               \/ Connect(c) \/ LinkProfile(c) \/ SetupConnector(c) \/ ValidateConnection(c)
               \/ UnlinkProfile(c) \/ EnableSkill(c) \/ InviteMember(c) \/ UploadSkill(c)
               \/ SaveFlow(c) \/ RunWorkspaceFlow(c) \/ RunInlineFlow(c)
               \/ ResolveContext(c) \/ UnknownWorkspace(c) \/ UpsertConnection(c)
               \/ CheckLinked(c) \/ ReadProfile(c) \/ UpsertProfile(c) \/ DeleteProfile(c)
               \/ SetSkillEnabled(c) \/ InviteRow(c)
               \/ IndexDocument(c) \/ RecordUpload(c)
               \/ ToFallback(c) \/ FallbackRead(c) \/ FallbackConfigure(c)
               \/ FallbackUnlink(c) \/ FallbackConnect(c) \/ FallbackInvite(c)
               \/ FallbackUpload(c) \/ FallbackEnable(c)
               \/ RecordEvent(c) \/ SaveFlowEvent(c)
               \/ ViewDashboard(c) \/ RunSavedFlow(c) \/ RequestFails(c)
        PROVE  ProductInv'
    BY <1>2, LinkKept, OthersKept, ContextKept, FinishesKept, TablesKept, ReadsKept, ProfilesKept,
       FallbacksKept, RecordKept, SaveKept, ViewKept, RunKept
  <1>3. CASE UNCHANGED productVars
    <2>1. CallsSound' /\ begun' \in Nat
      BY <1>3 DEF productVars, ProductInv, CallsSound
    <2>2. QED
      BY <1>3, <2>1, OnlyCalls DEF productVars
  <1>4. QED
    BY <1>1, <1>2, <1>3 DEF ProductNext

\* The invariant contains what the run checks.
LEMMA ProductInvImplies == ProductInv => WorkspaceCoherent
  <1> SUFFICES ASSUME ProductInv PROVE WorkspaceCoherent
    OBVIOUS
  <1>1. EvidenceCoherent
    <2>1. \A p \in StoredProfiles : p \in CoherentSet
      BY FallbackSound DEF ProductInv, StoredProfiles
    <2>2. QED
      BY <2>1 DEF EvidenceCoherent, CoherentSet
  <1>2. AnswersReadable
    <2>1. \A type, value : Found(auditEvents, type, value) => value \in EventValues(type)
      BY DEF Found, EventValues, FallbackEvents
    <2>2. saved \subseteq FlowsFound
      BY <2>1 DEF ProductInv, AnswersFound, FlowsFound
    <2>3. ASSUME NEW run \in recorded, run[2] = Storage
          PROVE  run[1] \in DashboardRuns
      <3>1. CASE schemaUp
        <4>1. Storage = "tables" /\ DashboardRuns = productEvents
          BY <3>1 DEF Storage, DashboardRuns
        <4>2. run[2] = "tables"
          BY <2>3, <4>1
        <4>3. run[1] \in productEvents
          BY <4>2 DEF ProductInv, AnswersFound
        <4>4. QED
          BY <4>1, <4>3
      <3>2. CASE ~schemaUp
        <4>1. run[2] # "tables" /\ DashboardRuns = EventValues("flow.run_completed")
          BY <2>3, <3>2 DEF Storage, DashboardRuns
        <4>2. Found(auditEvents, "flow.run_completed", run[1])
          BY <4>1 DEF ProductInv, AnswersFound
        <4>3. QED
          BY <2>1, <4>1, <4>2
      <3>3. QED
        BY <3>1, <3>2
    <2>4. QED
      BY <2>2, <2>3 DEF AnswersReadable
  <1>3. RunsOnObservedEvidence
    BY DEF ProductInv, GoodProfile, RunsOnObservedEvidence
  <1>4. QED
    BY <1>1, <1>2, <1>3 DEF WorkspaceCoherent

\* The tables, the calls under way and the events keep the invariant
\* ProductInv at all times.
THEOREM ProductInvariant == ProductSpec => []ProductInv
  BY ProductStart, ProductSteps, PTL DEF ProductSpec

\* A profile never mixes the fields of two validations; a flow that was answered as
\* saved is always found, and a run answered as recorded is read by the dashboard of
\* the storage that took it.
THEOREM WorkspaceTheorem == ProductSpec => []WorkspaceCoherent
  BY ProductInvariant, ProductInvImplies, PTL

(***************************************************************************)
(* Publication of evidence and the answers drawn from it.                  *)
(***************************************************************************)
\* The rows, the hashes and the documents of a state, and what is in a worker.
Rows ==
    [action : Nat, run : Nat, status : RecordStatuses, state : RunStates, evaluated : Nat,
     expires : SUBSET Nat, approved : BOOLEAN, reviewer : Roles \cup REVIEWER_ROLES \cup {"none"}]

\* The reports a file may hold after it was written and edited.
EmbeddedReports ==
    {report \in [run : Nat, state : RunStates, records : SUBSET Findings] :
        IsFiniteSet(report.records) /\ \A f \in report.records : Identity(f) \in Uris}

Contained == RecordStatuses \cup Texts
Hashes == {Hash(t) : t \in Contained} \cup {Incomplete(Hash(t)) : t \in Contained}
Documents == [uri : Uris, hash : {Hash(t) : t \in Contained}]
Chunks == Contained \X Nat

Stages == {"idle", "reviewed", "published", "failed"} \cup Requesting

WorkerSet ==
    [at : Stages, reports : SUBSET EmbeddedReports, role : Roles \cup {"none"}, records : SUBSET Rows,
     known : SUBSET Rows, todo : Seq((SUBSET Rows) \cup Documents), created : SUBSET Rows,
     document : Documents \cup {<<>>}, piece : Nat]

Blockers == RecordStatuses \cup {"run_state_failed", "quarantine", "validation_unavailable"}

LookupSet ==
    [at : {"idle", "asked", "resolved", "answered"}, action : Catalog \cup {"none"}, instant : Nat,
     before : SUBSET Rows, records : SUBSET Rows,
     selection : [selected : SUBSET Rows, blockers : SUBSET Blockers],
     selected : SUBSET Rows, blockers : SUBSET Blockers]

EvidenceType ==
    /\ clock \in Nat
    /\ table \in SUBSET Rows
    /\ index \in [Uris -> [hash : Hashes \cup {<<"none">>}, chunks : SUBSET Chunks]]
    /\ page \in Texts
    /\ worker \in [Publishers -> WorkerSet]
    /\ accepted \in SUBSET EmbeddedReports
    /\ lookup \in LookupSet

\* A record that says what a reviewable one of the given reports says.
Reviewed(row, files) ==
    \E report \in files :
        Reviewable(report, row.reviewer) /\ row \in Promoted({report}, row.reviewer)

\* What an indexed text of a document may come from.
Backed(uri, text, rows) == uri # WikiUri => \E r \in rows : Identity(r) = uri /\ r.status = text

BackedDocument(d, rows) == d \in Documents /\ Backed(d.uri, d.hash[2], rows)

\* What a publisher's process knows at its step, given the table and the index.
WorkerSound(w, rows, docs, files) ==
    /\ IsFiniteSet(w.records)
    /\ w.at \in {"existing", "posting", "published"} =>
          /\ \A r \in w.records : Reviewed(r, files)
          /\ w.known \subseteq rows /\ w.created \subseteq rows
    /\ w.at \in {"existing", "posting"} => \A i \in 1 .. Len(w.todo) : w.todo[i] \subseteq w.records
    /\ w.at = "published" => w.records \subseteq rows
    /\ w.at \in {"compare", "lookup", "create", "delete", "insert"} =>
          \A i \in 1 .. Len(w.todo) : BackedDocument(w.todo[i], rows)
    /\ w.at \in {"lookup", "create", "delete", "insert"} => BackedDocument(w.document, rows)
    /\ w.at \in {"delete", "insert"} => docs[w.document.uri].hash # <<"none">>

IndexSound ==
    \A u \in Uris :
        /\ index[u].hash = <<"none">> => index[u] = NoDocument
        /\ index[u].hash # <<"none">> =>
              /\ Backed(u, index[u].hash[2], table)
              /\ \A c \in index[u].chunks : Backed(u, c[1], table)

\* What an answer under way was chosen from.
LookupSound ==
    /\ lookup.at = "asked" => /\ lookup.before \subseteq table
                              /\ \A r \in lookup.before : r.action = lookup.action
    /\ lookup.at = "resolved" =>
          /\ lookup.records \subseteq table
          /\ lookup.records = CurrentRecords(lookup.records, lookup.instant)
          /\ CurrentRecords(lookup.before, lookup.instant) \subseteq lookup.records
          /\ lookup.selection = SelectEvidence(lookup.records, lookup.instant)
    /\ lookup.at # "answered" => lookup.selected = {}
    /\ ServedEvidenceStands

EvidenceInv ==
    /\ EvidenceType
    /\ \A row \in table : Reviewed(row, accepted)
    /\ \A p \in Publishers : WorkerSound(worker[p], table, index, accepted)
    /\ IndexSound
    /\ LookupSound

-----------------------------------------------------------------------------
(* Records and their promotion.                                            *)
LEMMA PromoteType ==
    ASSUME NEW f \in Findings, NEW reviewing \in Roles \cup REVIEWER_ROLES \cup {"none"}
    PROVE  LET r == Promote(f, reviewing)
           IN  /\ r \in Rows /\ r.approved /\ r.reviewer = reviewing
               /\ r.action = f.action /\ r.run = f.run
  BY DEF Promote, Findings, Rows

\* The reports an operator may review are reports a file may hold.
LEMMA ReportsEmbedded == Reports \subseteq EmbeddedReports
  BY EvidenceAssumption DEF EmbeddedReports, Identity, Uris

\* The rows promoted from reviewable reports are reviewed rows.
LEMMA PromotedReviewed ==
    ASSUME NEW reports \in SUBSET EmbeddedReports, NEW reviewing \in Roles \cup REVIEWER_ROLES,
           \A report \in reports : Reviewable(report, reviewing),
           NEW r \in Promoted(reports, reviewing)
    PROVE  r \in Rows /\ Reviewed(r, reports)
  <1>0. PICK report \in reports : \E f \in report.records : r = Promote(f, reviewing)
    BY DEF Promoted
  <1>1. PICK f \in report.records : r = Promote(f, reviewing)
    BY <1>0
  <1>2. f \in Findings
    BY DEF EmbeddedReports
  <1>3. r \in Rows /\ r.reviewer = reviewing
    BY <1>1, <1>2, PromoteType
  <1>4. r \in Promoted({report}, reviewing)
    BY <1>1 DEF Promoted
  <1>5. QED
    BY <1>3, <1>4 DEF Reviewed

\* A function from a finite set that reaches all of T makes T finite.
LEMMA FiniteRange ==
    ASSUME NEW S, IsFiniteSet(S), NEW T, NEW g \in [S -> T], \A t \in T : \E s \in S : g[s] = t
    PROVE  IsFiniteSet(T)
  <1>1. g \in Surjection(S, T)
    BY DEF Surjection
  <1>2. QED
    BY <1>1, FS_Surjection

\* Promoting a report gives finitely many rows.
LEMMA PromotedType ==
    ASSUME NEW report \in EmbeddedReports, NEW reviewing \in Roles \cup REVIEWER_ROLES
    PROVE  Promoted({report}, reviewing) \subseteq Rows /\ IsFiniteSet(Promoted({report}, reviewing))
  <1>1. Promoted({report}, reviewing) = {Promote(f, reviewing) : f \in report.records}
    BY DEF Promoted
  <1>2. report.records \subseteq Findings /\ IsFiniteSet(report.records)
    BY DEF EmbeddedReports
  <1>3. Promoted({report}, reviewing) \subseteq Rows
    BY <1>1, <1>2, PromoteType
  <1> DEFINE T == {Promote(f, reviewing) : f \in report.records}
             g == [f \in report.records |-> Promote(f, reviewing)]
  <1>4. g \in [report.records -> T] /\ \A t \in T : \E f \in report.records : g[f] = t
    OBVIOUS
  <1>5. IsFiniteSet(T)
    <2> HIDE DEF T, g
    <2> QED
      BY <1>2, <1>4, FiniteRange
  <1>6. QED
    BY <1>1, <1>3, <1>5

\* A reviewed row has an address of its own in the index.
LEMMA ReviewedUri ==
    ASSUME NEW r, NEW files \in SUBSET EmbeddedReports, Reviewed(r, files)
    PROVE  Identity(r) \in Uris
  <1>1. PICK report \in files : Reviewable(report, r.reviewer) /\ r \in Promoted({report}, r.reviewer)
    BY DEF Reviewed
  <1>2. PICK f \in report.records : r = Promote(f, r.reviewer)
    BY <1>1 DEF Promoted
  <1>3. f \in Findings /\ Identity(f) \in Uris /\ r.reviewer \in REVIEWER_ROLES
    BY <1>1 DEF Reviewable, EmbeddedReports
  <1>4. r.action = f.action /\ r.run = f.run
    BY <1>2, <1>3, PromoteType
  <1>5. QED
    BY <1>3, <1>4 DEF Identity

\* Which is never the address of the wiki.
LEMMA UriKinds ==
    ASSUME NEW r
    PROVE  Identity(r) # WikiUri
  <1>1. Len(Identity(r)) = 2 /\ Len(WikiUri) = 1
    BY DEF Identity, WikiUri
  <1>2. QED
    BY <1>1

\* A file that passed revalidation has the records its own reports give.
LEMMA RevalidatedReviewed ==
    ASSUME NEW w \in WorkerSet, Revalidated(w), NEW r \in w.records
    PROVE  Reviewed(r, w.reports)
  BY PromotedReviewed DEF Revalidated, WorkerSet

(* The requests of a publication name no record but those of the file.     *)
LEMMA BatchesOf ==
    ASSUME NEW S \in SUBSET Rows, IsFiniteSet(S)
    PROVE  /\ Batches(S) \in Seq((SUBSET Rows) \cup Documents)
           /\ \A i \in 1 .. Len(Batches(S)) : Batches(S)[i] \subseteq S
  <1> DEFINE n == (Cardinality(S) + BatchSize - 1) \div BatchSize
             before(r) == Cardinality({other \in S : other.action < r.action})
             batch(i) == {r \in S : before(r) \div BatchSize = i - 1}
  <1>1. n \in Nat
    <2>1. Cardinality(S) \in Nat /\ BatchSize \in Nat \ {0}
      BY FS_CardinalityType, EvidenceAssumption
    <2>2. \A x \in Nat, b \in Nat \ {0} : x \div b \in Nat
      OBVIOUS
    <2>3. Cardinality(S) + BatchSize - 1 \in Nat
      BY <2>1
    <2>4. QED
      BY <2>1, <2>2, <2>3
  <1>2. Batches(S) = [i \in 1 .. n |-> batch(i)]
    BY DEF Batches
  <1>3. \A i \in 1 .. n : batch(i) \subseteq S
    OBVIOUS
  <1>4. \A i \in 1 .. n : batch(i) \in (SUBSET Rows) \cup Documents
    BY <1>3
  <1> HIDE DEF n, batch
  <1>5. Len(Batches(S)) = n
    BY <1>1, <1>2
  <1>6. QED
    BY <1>1, <1>2, <1>3, <1>4, <1>5

(* Every document of a publication stands for one of its records.          *)
LEMMA DocumentsOfRecords ==
    ASSUME NEW S \in SUBSET Rows, IsFiniteSet(S), NEW files \in SUBSET EmbeddedReports,
           \A r \in S : Reviewed(r, files)
    PROVE  /\ DocumentsOf(S) \in Seq((SUBSET Rows) \cup Documents)
           /\ \A i \in 1 .. Len(DocumentsOf(S)) : BackedDocument(DocumentsOf(S)[i], S)
  <1> DEFINE T == {x \in S : x.approved /\ x.state = "completed"}
             D == {Document(Identity(r), r.status) : r \in T}
  <1>1. IsFiniteSet(D)
    <2>1. IsFiniteSet(T)
      BY FS_Subset
    <2> DEFINE g == [r \in T |-> Document(Identity(r), r.status)]
    <2>2. g \in [T -> D] /\ \A d \in D : \E r \in T : g[r] = d
      OBVIOUS
    <2> HIDE DEF T, D, g
    <2>3. QED
      BY <2>1, <2>2, FiniteRange
  <1>2. PICK f \in [1 .. Cardinality(D) -> D] : IsInjective(f)
    <2>1. ExistsBijection(1 .. Cardinality(D), D)
      BY <1>1, FS_CardinalityType
    <2>2. QED
      BY <2>1 DEF ExistsBijection, Bijection, Injection, IsInjective
  <1>3. DocumentsOf(S) \in [1 .. Cardinality(D) -> D]
    BY <1>2 DEF DocumentsOf, SetToSeq
  <1>4. \A d \in D : BackedDocument(d, S)
    <2> SUFFICES ASSUME NEW r \in T
                 PROVE  BackedDocument(Document(Identity(r), r.status), S)
      OBVIOUS
    <2>1. Document(Identity(r), r.status) \in Documents
      BY ReviewedUri DEF Document, Documents, Contained, Rows
    <2>2. Document(Identity(r), r.status).hash[2] = r.status
      BY DEF Document, Hash
    <2>3. QED
      BY <2>1, <2>2 DEF BackedDocument, Backed, Document
  <1>5. Cardinality(D) \in Nat
    BY <1>1, FS_CardinalityType
  <1> HIDE DEF T, D
  <1>6. D \subseteq (SUBSET Rows) \cup Documents
    BY <1>4 DEF BackedDocument
  <1>7. /\ DocumentsOf(S) \in Seq(D) 
        /\ \A i \in 1 .. Len(DocumentsOf(S)) : DocumentsOf(S)[i] \in D
    BY <1>3, <1>5
  <1>8. DocumentsOf(S) \in Seq((SUBSET Rows) \cup Documents)
    BY <1>3, <1>5, <1>6
  <1>9. QED
    BY <1>4, <1>7, <1>8

-----------------------------------------------------------------------------
(* Sequences of work, and what a growing table and index keep.             *)
LEMMA Remaining ==
    ASSUME NEW X, NEW s \in Seq(X), s # <<>>
    PROVE  /\ Tail(s) \in Seq(X)
           /\ \A i \in 1 .. Len(Tail(s)) : i + 1 \in 1 .. Len(s) /\ Tail(s)[i] = s[i + 1]
           /\ 1 \in 1 .. Len(s) /\ Head(s) = s[1] /\ Head(s) \in X
  OBVIOUS

\* More rows, more indexed documents and more accepted reports.
Grown(rows, docs, files, rows2, docs2, files2) ==
    /\ rows \subseteq rows2 /\ files \subseteq files2
    /\ \A u \in Uris : docs[u].hash # <<"none">> => docs2[u].hash # <<"none">>

\* What holds of a publisher survives them.
LEMMA SoundGrows ==
    ASSUME NEW w, NEW rows, NEW docs, NEW files, NEW rows2, NEW docs2, NEW files2,
           Grown(rows, docs, files, rows2, docs2, files2), WorkerSound(w, rows, docs, files)
    PROVE  WorkerSound(w, rows2, docs2, files2)
  <1>1. \A d : BackedDocument(d, rows) => BackedDocument(d, rows2) /\ d.uri \in Uris
    BY DEF BackedDocument, Backed, Documents, Grown
  <1>2. \A r : Reviewed(r, files) => Reviewed(r, files2)
    BY DEF Reviewed, Grown
  <1>3. QED
    BY <1>1, <1>2 DEF WorkerSound, Grown

\* A step of one publisher that adds rows and documents keeps what holds of all.
LEMMA WorkerMoves ==
    ASSUME EvidenceInv, NEW p \in Publishers, NEW v \in WorkerSet,
           worker' = [worker EXCEPT ![p] = v],
           table \subseteq table', accepted \subseteq accepted',
           \A u \in Uris : index[u].hash # <<"none">> => index'[u].hash # <<"none">>,
           WorkerSound(v, table', index', accepted')
    PROVE  /\ worker' \in [Publishers -> WorkerSet]
           /\ \A q \in Publishers : WorkerSound(worker'[q], table', index', accepted')
  <1>1. worker \in [Publishers -> WorkerSet]
    BY DEF EvidenceInv, EvidenceType
  <1>2. ASSUME NEW q \in Publishers
        PROVE  WorkerSound(worker'[q], table', index', accepted')
    <2>1. CASE q = p
      BY <1>1, <2>1
    <2>2. CASE q # p
      <3>1. worker'[q] = worker[q] /\ WorkerSound(worker[q], table, index, accepted)
        BY <1>1, <2>2 DEF EvidenceInv
      <3>2. Grown(table, index, accepted, table', index', accepted')
        BY DEF Grown
      <3>3. WorkerSound(worker[q], table', index', accepted')
        BY <3>1, <3>2, SoundGrows
      <3>4. QED
        BY <3>1, <3>3
    <2>3. QED
      BY <2>1, <2>2
  <1>3. QED
    BY <1>1, <1>2

\* A question under way is unaffected by rows that are added.
LEMMA LookupKept ==
    ASSUME EvidenceInv, table \subseteq table', UNCHANGED lookup
    PROVE  LookupSound' /\ lookup' \in LookupSet
  <1>1. ServedEvidenceStands'
    BY DEF EvidenceInv, LookupSound, ServedEvidenceStands
  <1>2. lookup' \in LookupSet
    BY DEF EvidenceInv, EvidenceType
  <1>3. QED
    BY <1>1, <1>2 DEF EvidenceInv, LookupSound

(* A step of a publisher that leaves the index alone.                      *)
LEMMA PublisherKeeps ==
    ASSUME EvidenceInv, NEW p \in Publishers, NEW v \in WorkerSet,
           worker' = [worker EXCEPT ![p] = v],
           accepted \subseteq accepted', accepted' \in SUBSET EmbeddedReports,
           table \subseteq table', table' \in SUBSET Rows,
           \A row \in table' : Reviewed(row, accepted'),
           WorkerSound(v, table', index, accepted'),
           UNCHANGED <<clock, index, page, lookup>>
    PROVE  EvidenceInv'
  <1>1. /\ worker' \in [Publishers -> WorkerSet]
        /\ \A q \in Publishers : WorkerSound(worker'[q], table', index', accepted')
    BY WorkerMoves
  <1>2. LookupSound' /\ lookup' \in LookupSet
    BY LookupKept
  <1>3. IndexSound'
    BY DEF EvidenceInv, IndexSound, Backed
  <1>4. EvidenceType'
    BY <1>1, <1>2 DEF EvidenceInv, EvidenceType
  <1>5. QED
    BY <1>1, <1>2, <1>3, <1>4 DEF EvidenceInv

(* A step of a publisher that writes a document it may write.              *)
LEMMA IndexerKeeps ==
    ASSUME EvidenceInv, NEW p \in Publishers, NEW v \in WorkerSet,
           worker' = [worker EXCEPT ![p] = v],
           NEW u \in Uris, NEW d \in [hash : Hashes, chunks : SUBSET Chunks],
           index' = [index EXCEPT ![u] = d],
           Backed(u, d.hash[2], table), \A c \in d.chunks : Backed(u, c[1], table),
           WorkerSound(v, table, index', accepted),
           UNCHANGED <<clock, table, page, accepted, lookup>>
    PROVE  EvidenceInv'
  <1>1. d.hash # <<"none">>
    <2>1. Len(d.hash) = 2 /\ Len(<<"none">>) = 1
      BY DEF Hashes, Hash, Incomplete
    <2>2. QED
      BY <2>1
  <1>2. index \in [Uris -> [hash : Hashes \cup {<<"none">>}, chunks : SUBSET Chunks]]
    BY DEF EvidenceInv, EvidenceType
  <1>3. index' \in [Uris -> [hash : Hashes \cup {<<"none">>}, chunks : SUBSET Chunks]]
    BY <1>2
  <1>4. /\ worker' \in [Publishers -> WorkerSet]
        /\ \A q \in Publishers : WorkerSound(worker'[q], table', index', accepted')
    <2>1. \A x \in Uris : index[x].hash # <<"none">> => index'[x].hash # <<"none">>
      BY <1>1, <1>2
    <2>2. QED
      BY <2>1, WorkerMoves
  <1>5. LookupSound' /\ lookup' \in LookupSet
    BY LookupKept
  <1>6. IndexSound'
    <2> SUFFICES ASSUME NEW x \in Uris
                 PROVE  /\ index'[x].hash = <<"none">> => index'[x] = NoDocument
                        /\ index'[x].hash # <<"none">> =>
                              /\ Backed(x, index'[x].hash[2], table')
                              /\ \A c \in index'[x].chunks : Backed(x, c[1], table')
      BY DEF IndexSound, Backed
    <2>1. CASE x = u
      BY <1>1, <1>2, <2>1
    <2>2. CASE x # u
      <3>1. index'[x] = index[x]
        BY <1>2, <2>2
      <3>2. QED
        BY <3>1 DEF EvidenceInv, IndexSound
    <2>3. QED
      BY <2>1, <2>2
  <1>7. EvidenceType'
    BY <1>3, <1>4, <1>5 DEF EvidenceInv, EvidenceType
  <1>8. QED
    BY <1>4, <1>5, <1>6, <1>7 DEF EvidenceInv

-----------------------------------------------------------------------------
(* The steps of a publisher, one lemma for each.                           *)
LEMMA PublisherState ==
    ASSUME EvidenceInv, NEW p \in Publishers
    PROVE  /\ worker \in [Publishers -> WorkerSet] /\ worker[p] \in WorkerSet
           /\ WorkerSound(worker[p], table, index, accepted)
           /\ table \in SUBSET Rows /\ \A row \in table : Reviewed(row, accepted)
           /\ accepted \in SUBSET EmbeddedReports
  BY DEF EvidenceInv, EvidenceType

\* A publisher at rest owes nothing.
LEMMA AtRest ==
    /\ Unemployed \in WorkerSet
    /\ WorkerSound(Unemployed, table, index, accepted)
  BY FS_EmptySet DEF Unemployed, WorkerSet, Stages, WorkerSound

\* Reviewing reports hands the publisher reviewed rows.
LEMMA ReviewSound ==
    ASSUME EvidenceInv, NEW p \in Publishers, Review(p)
    PROVE  EvidenceInv'
  <1>1. PICK report \in Reports, reviewing \in Roles :
          IF Reviewable(report, reviewing)
          THEN worker' = [worker EXCEPT ![p] = [Unemployed EXCEPT !.at = "reviewed", !.role = reviewing,
                             !.reports = {report}, !.records = Promoted({report}, reviewing)]]
          ELSE UNCHANGED worker
    BY DEF Review
  <1>2. CASE Reviewable(report, reviewing)
    <2> DEFINE promoted == Promoted({report}, reviewing)
               v == [Unemployed EXCEPT !.at = "reviewed", !.role = reviewing,
                                       !.reports = {report}, !.records = promoted]
    <2>1. promoted \in SUBSET Rows /\ IsFiniteSet(promoted) /\ report \in EmbeddedReports
      BY PromotedType, ReportsEmbedded
    <2>2. worker' = [worker EXCEPT ![p] = v]
      BY <1>1, <1>2
    <2> HIDE DEF promoted
    <2>3. v \in WorkerSet
      BY <2>1, AtRest DEF WorkerSet, Stages
    <2>4. v.at = "reviewed" /\ v.records = promoted
      BY DEF Unemployed
    <2>5. WorkerSound(v, table, index, accepted)
      BY <2>1, <2>4 DEF WorkerSound
    <2>6. QED
      BY <2>2, <2>3, <2>5, PublisherState, PublisherKeeps DEF Review
  <1>3. CASE ~ Reviewable(report, reviewing)
    <2>1. worker' = [worker EXCEPT ![p] = worker[p]]
      BY <1>1, <1>3, PublisherState
    <2>2. QED
      BY <2>1, PublisherState, PublisherKeeps DEF Review
  <1>4. QED
    BY <1>2, <1>3

\* Changing a status leaves finitely many records, of the same identities.
LEMMA EditedRecords ==
    ASSUME NEW p \in Publishers, EvidenceInv,
           NEW report \in worker[p].reports, NEW f \in report.records, NEW st \in RecordStatuses
    PROVE  LET w == worker[p]
               g == [f EXCEPT !.status = st]
               records == (w.records \ {Promote(f, w.role)}) \union {Promote(g, w.role)}
               reports == (w.reports \ {report})
                          \union {[report EXCEPT !.records = (@ \ {f}) \union {g}]}
           IN  /\ records \in SUBSET Rows /\ IsFiniteSet(records)
               /\ reports \in SUBSET EmbeddedReports
  <1> DEFINE w == worker[p]
             g == [f EXCEPT !.status = st]
             promoted == Promote(g, w.role)
             kept == w.records \ {Promote(f, w.role)}
             findings == (report.records \ {f}) \union {g}
             edited == [report EXCEPT !.records = (@ \ {f}) \union {g}]
  <1>1. /\ w.records \subseteq Rows /\ IsFiniteSet(w.records)
        /\ w.role \in Roles \cup REVIEWER_ROLES \cup {"none"}
        /\ w.reports \subseteq EmbeddedReports
    BY PublisherState DEF WorkerSet, WorkerSound
  <1>2. /\ report \in [run : Nat, state : RunStates, records : SUBSET Findings]
        /\ IsFiniteSet(report.records) /\ f \in Findings
        /\ \A x \in report.records : Identity(x) \in Uris
    BY <1>1 DEF EmbeddedReports
  <1>3. g \in Findings /\ Identity(g) = Identity(f)
    BY <1>2 DEF Findings, Identity
  <1> HIDE DEF g
  <1>4. kept \union {promoted} \in SUBSET Rows /\ IsFiniteSet(kept \union {promoted})
    <2>1. promoted \in Rows
      BY <1>1, <1>3, PromoteType
    <2>2. IsFiniteSet(kept) /\ kept \subseteq Rows
      BY <1>1, FS_Subset
    <2> HIDE DEF kept, promoted
    <2>3. QED
      BY <2>1, <2>2, FS_AddElement
  <1>5. /\ findings \in SUBSET Findings /\ IsFiniteSet(findings)
        /\ \A x \in findings : Identity(x) \in Uris
    <2>1. IsFiniteSet(report.records \ {f})
      BY <1>2, FS_Subset
    <2>2. IsFiniteSet(findings)
      BY <2>1, FS_AddElement
    <2>3. QED
      BY <1>2, <1>3, <2>2
  <1>6. edited = [report EXCEPT !.records = findings]
    OBVIOUS
  <1> HIDE DEF findings, edited
  <1>7. edited \in EmbeddedReports
    BY <1>2, <1>5, <1>6 DEF EmbeddedReports
  <1>8. QED
    BY <1>1, <1>4, <1>7 DEF edited, promoted, kept, g

\* Editing a reviewed file promises nothing: it is reviewed again before use.
LEMMA EditSound ==
    ASSUME EvidenceInv, NEW p \in Publishers, EditReviewedFile(p)
    PROVE  EvidenceInv'
  <1> DEFINE w == worker[p]
             of(f, st) == (w.records \ {Promote(f, w.role)})
                          \union {Promote([f EXCEPT !.status = st], w.role)}
             in(report, f, st) == (w.reports \ {report})
                 \union {[report EXCEPT !.records = (@ \ {f}) \union {[f EXCEPT !.status = st]}]}
  <1>1. PICK report \in w.reports : \E f \in report.records, st \in RecordStatuses :
            \/ worker' = [worker EXCEPT ![p].records = of(f, st)]
            \/ worker' = [worker EXCEPT ![p].reports = in(report, f, st)]
            \/ worker' = [worker EXCEPT ![p].records = of(f, st), ![p].reports = in(report, f, st)]
    BY DEF EditReviewedFile
  <1>2. PICK f \in report.records, st \in RecordStatuses :
            \/ worker' = [worker EXCEPT ![p].records = of(f, st)]
            \/ worker' = [worker EXCEPT ![p].reports = in(report, f, st)]
            \/ worker' = [worker EXCEPT ![p].records = of(f, st), ![p].reports = in(report, f, st)]
    BY <1>1
  <1>3. /\ of(f, st) \in SUBSET Rows /\ IsFiniteSet(of(f, st))
        /\ in(report, f, st) \in SUBSET EmbeddedReports
    BY EditedRecords
  <1> DEFINE records == of(f, st)
             reports == in(report, f, st)
             other == [w EXCEPT !.records = records]
             inside == [w EXCEPT !.reports = reports]
             alike == [w EXCEPT !.records = records, !.reports = reports]
  <1>4. /\ w \in WorkerSet /\ w.at = "reviewed" /\ IsFiniteSet(w.records)
        /\ worker \in [Publishers -> WorkerSet]
    BY PublisherState DEF EditReviewedFile, WorkerSound
  <1>5. \/ worker' = [worker EXCEPT ![p].records = records]
        \/ worker' = [worker EXCEPT ![p].reports = reports]
        \/ worker' = [worker EXCEPT ![p].records = records, ![p].reports = reports]
    BY <1>2
  <1>6. records \in SUBSET Rows /\ IsFiniteSet(records) /\ reports \in SUBSET EmbeddedReports
    BY <1>3
  <1> HIDE DEF of, in, records, reports
  <1>7. \/ worker' = [worker EXCEPT ![p] = other]
        \/ worker' = [worker EXCEPT ![p] = inside]
        \/ worker' = [worker EXCEPT ![p] = alike]
    BY <1>4, <1>5
  <1>8. other \in WorkerSet /\ inside \in WorkerSet /\ alike \in WorkerSet
    BY <1>4, <1>6 DEF WorkerSet
  <1>9. /\ other.at = "reviewed" /\ other.records = records
        /\ inside.at = "reviewed" /\ inside.records = w.records
        /\ alike.at = "reviewed" /\ alike.records = records
    BY <1>4 DEF WorkerSet
  <1> HIDE DEF other, inside, alike
  <1>10. /\ WorkerSound(other, table, index, accepted)
         /\ WorkerSound(inside, table, index, accepted)
         /\ WorkerSound(alike, table, index, accepted)
    BY <1>4, <1>6, <1>9 DEF WorkerSound
  <1>11. QED
    BY <1>7, <1>8, <1>10, PublisherState, PublisherKeeps DEF EditReviewedFile

\* A publication starts only from a file whose reports give its records.
LEMMA StartSound ==
    ASSUME EvidenceInv, NEW p \in Publishers, StartPublication(p)
    PROVE  EvidenceInv'
  <1> DEFINE w == worker[p]
  <1>1. CASE Revalidated(w) /\ Coherent(w.records)
    <2> DEFINE v == [w EXCEPT !.at = "existing", !.known = {}, !.created = {},
                              !.todo = GetBatches(w.records)]
    <2>1. worker' = [worker EXCEPT ![p] = v] /\ accepted' = accepted \union w.reports
      BY <1>1 DEF StartPublication
    <2>2. /\ \A r \in w.records : Reviewed(r, accepted')
          /\ \A row \in table : Reviewed(row, accepted')
          /\ accepted' \in SUBSET EmbeddedReports
      <3>1. \A r \in w.records : Reviewed(r, w.reports)
        BY <1>1, PublisherState, RevalidatedReviewed
      <3>2. w.reports \subseteq EmbeddedReports
        BY PublisherState DEF WorkerSet
      <3>3. QED
        BY <2>1, <3>1, <3>2, PublisherState DEF Reviewed
    <2>3. /\ GetBatches(w.records) \in Seq((SUBSET Rows) \cup Documents)
          /\ \A i \in 1 .. Len(GetBatches(w.records)) : GetBatches(w.records)[i] \subseteq w.records
      BY PublisherState, BatchesOf DEF WorkerSound, WorkerSet, GetBatches
    <2>4. /\ v \in WorkerSet /\ v.at = "existing" /\ v.records = w.records
          /\ v.known = {} /\ v.created = {} /\ v.todo = GetBatches(w.records)
      BY <2>3, PublisherState DEF WorkerSet, Stages, Requesting
    <2>5. WorkerSound(v, table, index, accepted')
      BY <2>2, <2>3, <2>4, PublisherState DEF WorkerSound
    <2>6. QED
      BY <2>1, <2>2, <2>4, <2>5, PublisherState, PublisherKeeps DEF StartPublication
  <1>2. CASE ~ (Revalidated(w) /\ Coherent(w.records))
    <2> DEFINE v == [w EXCEPT !.at = "failed"]
    <2>1. worker' = [worker EXCEPT ![p] = v] /\ accepted' = accepted
      BY <1>2 DEF StartPublication
    <2>2. v \in WorkerSet /\ WorkerSound(v, table, index, accepted)
      BY PublisherState DEF WorkerSet, WorkerSound, Stages
    <2>3. QED
      BY <2>1, <2>2, PublisherState, PublisherKeeps DEF StartPublication
  <1>3. QED
    BY <1>1, <1>2

\* Reading the stored rows in pages changes nothing that is kept.
LEMMA ReadSound ==
    ASSUME EvidenceInv, NEW p \in Publishers, ReadExisting(p)
    PROVE  EvidenceInv'
  <1> DEFINE w == worker[p]
             more == w.known \union Matching(Head(w.todo))
             v == [w EXCEPT !.known = more, !.todo = Tail(w.todo)]
  <1>1. w.at = "existing" /\ w.todo # <<>> /\ w.todo \in Seq((SUBSET Rows) \cup Documents)
    BY PublisherState DEF ReadExisting, WorkerSet
  <1>2. more \subseteq table
    BY <1>1, PublisherState DEF WorkerSound, Matching
  <1>3. worker' = [worker EXCEPT ![p] = v]
    BY PublisherState DEF ReadExisting, WorkerSet
  <1>4. /\ v \in WorkerSet /\ v.at = "existing" /\ v.records = w.records
        /\ v.known = more /\ v.created = w.created /\ v.todo = Tail(w.todo)
    BY <1>1, <1>2, PublisherState, Remaining DEF WorkerSet
  <1>5. \A i \in 1 .. Len(v.todo) : v.todo[i] \subseteq w.records
    BY <1>1, <1>4, PublisherState, Remaining DEF WorkerSound
  <1>6. WorkerSound(v, table, index, accepted)
    BY <1>1, <1>2, <1>4, <1>5, PublisherState DEF WorkerSound
  <1>7. QED
    BY <1>3, <1>4, <1>6, PublisherState, PublisherKeeps DEF ReadExisting

\* What remains to be posted is what was reviewed and is not stored.
LEMMA ChooseSound ==
    ASSUME EvidenceInv, NEW p \in Publishers, ChoosePending(p)
    PROVE  EvidenceInv'
  <1> DEFINE w == worker[p]
             pending == {r \in w.records : \A row \in w.known : Identity(row) # Identity(r)}
  <1>1. w.at = "existing"
    BY DEF ChoosePending
  <1>2. CASE Conflict(w.known, w.records)
    <2> DEFINE v == [w EXCEPT !.at = "failed"]
    <2>1. worker' = [worker EXCEPT ![p] = v]
      BY <1>2 DEF ChoosePending
    <2>2. v \in WorkerSet /\ WorkerSound(v, table, index, accepted)
      BY PublisherState DEF WorkerSet, WorkerSound, Stages
    <2>3. QED
      BY <2>1, <2>2, PublisherState, PublisherKeeps DEF ChoosePending
  <1>3. CASE ~ Conflict(w.known, w.records)
    <2> DEFINE v == [w EXCEPT !.at = "posting", !.todo = Batches(pending)]
    <2>1. worker' = [worker EXCEPT ![p] = v]
      BY <1>3 DEF ChoosePending
    <2>2. pending \in SUBSET Rows /\ IsFiniteSet(pending) /\ pending \subseteq w.records
      <3>1. IsFiniteSet(w.records) /\ w.records \subseteq Rows /\ pending \subseteq w.records
        BY PublisherState DEF WorkerSound, WorkerSet
      <3>2. QED
        BY <3>1, FS_Subset
    <2> HIDE DEF pending
    <2>3. /\ Batches(pending) \in Seq((SUBSET Rows) \cup Documents)
          /\ \A i \in 1 .. Len(Batches(pending)) : Batches(pending)[i] \subseteq w.records
      BY <2>2, BatchesOf
    <2>4. /\ v \in WorkerSet /\ v.at = "posting" /\ v.records = w.records
          /\ v.known = w.known /\ v.created = w.created /\ v.todo = Batches(pending)
      BY <2>3, PublisherState DEF WorkerSet, Stages, Requesting
    <2>5. WorkerSound(v, table, index, accepted)
      BY <1>1, <2>3, <2>4, PublisherState DEF WorkerSound
    <2>6. QED
      BY <2>1, <2>4, <2>5, PublisherState, PublisherKeeps DEF ChoosePending
  <1>4. QED
    BY <1>2, <1>3

(* The rows a POST inserts are rows of the batch, and of the file.         *)
LEMMA PostedRows ==
    ASSUME EvidenceInv, NEW p \in Publishers, worker[p].at = "posting", worker[p].todo # <<>>,
           NEW new, new = {r \in Head(worker[p].todo) : Matching({r}) = {}}
    PROVE  /\ new \subseteq worker[p].records
           /\ table \union new \in SUBSET Rows /\ \A row \in table \union new : Reviewed(row, accepted)
  <1> DEFINE w == worker[p]
  <1>1. w.todo \in Seq((SUBSET Rows) \cup Documents) /\ w.records \subseteq Rows
    BY PublisherState DEF WorkerSet
  <1>2. Head(w.todo) \subseteq w.records
    BY <1>1, PublisherState, Remaining DEF WorkerSound
  <1>3. new \subseteq w.records
    BY <1>2
  <1>4. QED
    BY <1>1, <1>3, PublisherState DEF WorkerSound

\* Posting a batch adds reviewed rows to the table.
LEMMA PostSound ==
    ASSUME EvidenceInv, NEW p \in Publishers, PostBatch(p)
    PROVE  EvidenceInv'
  <1> DEFINE w == worker[p]
             new == {r \in Head(w.todo) : Matching({r}) = {}}
             v == [w EXCEPT !.todo = Tail(w.todo), !.created = w.created \union new]
  <1>1. w.at = "posting" /\ w.todo # <<>> /\ w.todo \in Seq((SUBSET Rows) \cup Documents)
    BY PublisherState DEF PostBatch, WorkerSet
  <1>2. table' = table \union new /\ table' \in SUBSET Rows /\ \A row \in table' : Reviewed(row, accepted)
    BY <1>1, PostedRows DEF PostBatch
  <1>3. worker' = [worker EXCEPT ![p] = v]
    BY PublisherState DEF PostBatch, WorkerSet
  <1>4. new \subseteq Rows
    BY <1>2
  <1> HIDE DEF new
  <1>5. /\ v \in WorkerSet /\ v.at = "posting" /\ v.records = w.records
        /\ v.known = w.known /\ v.created = w.created \union new /\ v.todo = Tail(w.todo)
    BY <1>1, <1>4, PublisherState, Remaining DEF WorkerSet
  <1>6. \A i \in 1 .. Len(v.todo) : v.todo[i] \subseteq w.records
    BY <1>1, <1>5, PublisherState, Remaining DEF WorkerSound
  <1>7. WorkerSound(v, table', index, accepted)
    BY <1>1, <1>2, <1>5, <1>6, PublisherState DEF WorkerSound
  <1>8. QED
    BY <1>2, <1>3, <1>5, <1>7, PublisherState, PublisherKeeps DEF PostBatch

\* A batch whose answer is lost may have been stored, and is reviewed either way.
LEMMA LostSound ==
    ASSUME EvidenceInv, NEW p \in Publishers, AnswerLost(p)
    PROVE  EvidenceInv'
  <1> DEFINE w == worker[p]
             v == [w EXCEPT !.at = "failed"]
  <1>1. w.at = "posting" /\ w.todo # <<>>
    BY DEF AnswerLost
  <1>2. table \subseteq table' /\ table' \in SUBSET Rows /\ \A row \in table' : Reviewed(row, accepted)
    BY <1>1, PostedRows DEF AnswerLost
  <1>3. worker' = [worker EXCEPT ![p] = v]
    BY PublisherState DEF AnswerLost, WorkerSet
  <1>4. v \in WorkerSet /\ WorkerSound(v, table', index, accepted)
    BY PublisherState DEF WorkerSet, WorkerSound, Stages
  <1>5. QED
    BY <1>2, <1>3, <1>4, PublisherState, PublisherKeeps DEF AnswerLost

\* After a lost answer the stored rows are read again.
LEMMA RecheckSound ==
    ASSUME EvidenceInv, NEW p \in Publishers, Recheck(p)
    PROVE  EvidenceInv'
  <1> DEFINE w == worker[p]
  <1>1. w.at = "posting"
    BY DEF Recheck
  <1>2. CASE \A r \in Unresolved(w) : r \in table
    <2> DEFINE v == [w EXCEPT !.at = "published"]
    <2>1. worker' = [worker EXCEPT ![p] = v]
      BY <1>2 DEF Recheck
    <2>2. /\ v \in WorkerSet /\ v.at = "published" /\ v.records = w.records
          /\ v.known = w.known /\ v.created = w.created
      BY PublisherState DEF WorkerSet, Stages
    <2>3. w.records \subseteq table
      BY <1>1, <1>2, PublisherState DEF WorkerSound, Unresolved
    <2>4. WorkerSound(v, table, index, accepted)
      BY <1>1, <2>2, <2>3, PublisherState DEF WorkerSound
    <2>5. QED
      BY <2>1, <2>2, <2>4, PublisherState, PublisherKeeps DEF Recheck
  <1>3. CASE ~ \A r \in Unresolved(w) : r \in table
    <2> DEFINE v == [w EXCEPT !.at = "failed"]
    <2>1. worker' = [worker EXCEPT ![p] = v]
      BY <1>3 DEF Recheck
    <2>2. v \in WorkerSet /\ WorkerSound(v, table, index, accepted)
      BY PublisherState DEF WorkerSet, WorkerSound, Stages
    <2>3. QED
      BY <2>1, <2>2, PublisherState, PublisherKeeps DEF Recheck
  <1>4. QED
    BY <1>2, <1>3

\* A publication that fails leaves only reviewed rows behind.
LEMMA FailsSound ==
    ASSUME EvidenceInv, NEW p \in Publishers, WriteFails(p) \/ Failed(p)
    PROVE  EvidenceInv'
  <1> DEFINE w == worker[p]
             down == [w EXCEPT !.at = "failed"]
             again == [w EXCEPT !.at = "reviewed", !.document = <<>>, !.piece = 0]
  <1>1. /\ down \in WorkerSet /\ WorkerSound(down, table, index, accepted)
        /\ again \in WorkerSet /\ WorkerSound(again, table, index, accepted)
    BY PublisherState DEF WorkerSet, WorkerSound, Stages
  <1>2. CASE WriteFails(p)
    <2>1. worker' = [worker EXCEPT ![p] = down]
      BY <1>2, PublisherState DEF WriteFails, WorkerSet
    <2>2. QED
      BY <1>1, <1>2, <2>1, PublisherState, PublisherKeeps DEF WriteFails
  <1>3. CASE Failed(p)
    <2>1. worker' = [worker EXCEPT ![p] = again] \/ worker' = [worker EXCEPT ![p] = Unemployed]
      BY <1>3, PublisherState DEF Failed, WorkerSet
    <2>2. QED
      BY <1>1, <1>3, <2>1, AtRest, PublisherState, PublisherKeeps DEF Failed
  <1>4. QED
    BY <1>2, <1>3

-----------------------------------------------------------------------------
(* The steps of an indexing.                                               *)
LEMMA IngestPublishedSound ==
    ASSUME EvidenceInv, NEW p \in Publishers, IngestPublished(p)
    PROVE  EvidenceInv'
  <1> DEFINE w == worker[p]
             documents == DocumentsOf(w.records)
             v == [w EXCEPT !.at = "compare", !.todo = documents]
  <1>1. /\ w.at = "published" /\ w.records \in SUBSET Rows /\ IsFiniteSet(w.records)
        /\ w.records \subseteq table /\ \A r \in w.records : Reviewed(r, accepted)
        /\ accepted \in SUBSET EmbeddedReports
    BY PublisherState DEF IngestPublished, WorkerSet, WorkerSound
  <1>2. /\ documents \in Seq((SUBSET Rows) \cup Documents)
        /\ \A i \in 1 .. Len(documents) : BackedDocument(documents[i], w.records)
    BY <1>1, DocumentsOfRecords
  <1>3. \A d : BackedDocument(d, w.records) => BackedDocument(d, table)
    BY <1>1 DEF BackedDocument, Backed
  <1>4. worker' = [worker EXCEPT ![p] = v] \/ worker' = [worker EXCEPT ![p] = Unemployed]
    BY PublisherState DEF IngestPublished, WorkerSet
  <1> HIDE DEF documents
  <1>5. v \in WorkerSet /\ v.at = "compare" /\ v.records = w.records /\ v.todo = documents
    BY <1>2, PublisherState DEF WorkerSet, Stages, Requesting
  <1>6. WorkerSound(v, table, index, accepted)
    BY <1>1, <1>2, <1>3, <1>5 DEF WorkerSound
  <1>7. QED
    BY <1>4, <1>5, <1>6, AtRest, PublisherState, PublisherKeeps DEF IngestPublished

\* Ingesting the wiki page asks for a document no evidence has to back.
LEMMA IngestWikiSound ==
    ASSUME EvidenceInv, NEW p \in Publishers, IngestWiki(p)
    PROVE  EvidenceInv'
  <1> DEFINE d == Document(WikiUri, page)
             v == [Unemployed EXCEPT !.at = "compare", !.todo = <<d>>]
  <1>1. d \in Documents /\ d.uri = WikiUri
    BY DEF EvidenceInv, EvidenceType, Document, Documents, Contained, Uris
  <1>2. BackedDocument(d, table)
    BY <1>1 DEF BackedDocument, Backed
  <1>3. worker' = [worker EXCEPT ![p] = v]
    BY DEF IngestWiki
  <1> HIDE DEF d
  <1>4. v \in WorkerSet
    <2>1. <<d>> \in Seq((SUBSET Rows) \cup Documents)
      BY <1>1
    <2>2. QED
      BY <2>1, AtRest DEF WorkerSet, Stages, Requesting
  <1>5. v.at = "compare" /\ v.records = {} /\ v.todo = <<d>>
    BY DEF Unemployed
  <1>6. WorkerSound(v, table, index, accepted)
    BY <1>2, <1>5, FS_EmptySet DEF WorkerSound
  <1>7. QED
    BY <1>3, <1>4, <1>6, PublisherState, PublisherKeeps DEF IngestWiki

\* Comparing a document with the index skips it only when it is there.
LEMMA CompareSound ==
    ASSUME EvidenceInv, NEW p \in Publishers, Skip(p) \/ UpsertSource(p) \/ IngestEnds(p)
    PROVE  EvidenceInv'
  <1> DEFINE w == worker[p]
             next == [w EXCEPT !.todo = Tail(w.todo)]
             begin == [w EXCEPT !.at = "lookup", !.document = Head(w.todo), !.todo = Tail(w.todo)]
  <1>1. w.at = "compare"
    BY DEF Skip, UpsertSource, IngestEnds
  <1>2. CASE w.todo # <<>>
    <2>1. w.todo \in Seq((SUBSET Rows) \cup Documents)
      BY PublisherState DEF WorkerSet
    <2>2. BackedDocument(Head(w.todo), table)
      BY <1>1, <1>2, <2>1, PublisherState, Remaining DEF WorkerSound
    <2>3. Tail(w.todo) \in Seq((SUBSET Rows) \cup Documents)
      BY <1>2, <2>1, Remaining
    <2>4. \A i \in 1 .. Len(Tail(w.todo)) : BackedDocument(Tail(w.todo)[i], table)
      BY <1>1, <1>2, <2>1, PublisherState, Remaining DEF WorkerSound
    <2>5. /\ next \in WorkerSet /\ next.at = "compare"
          /\ next.records = w.records /\ next.todo = Tail(w.todo)
      BY <1>1, <2>3, PublisherState DEF WorkerSet
    <2>6. Head(w.todo) \in Documents
      BY <2>2 DEF BackedDocument
    <2>7. /\ begin \in WorkerSet /\ begin.at = "lookup" /\ begin.records = w.records
          /\ begin.todo = Tail(w.todo) /\ begin.document = Head(w.todo)
      BY <2>3, <2>6, PublisherState DEF WorkerSet, Stages, Requesting
    <2>8. WorkerSound(next, table, index, accepted)
      BY <2>4, <2>5, PublisherState DEF WorkerSound
    <2>9. WorkerSound(begin, table, index, accepted)
      BY <2>2, <2>4, <2>7, PublisherState DEF WorkerSound
    <2>10. worker' = [worker EXCEPT ![p] = next] \/ worker' = [worker EXCEPT ![p] = begin]
      <3>1. CASE Skip(p)
        BY <3>1, PublisherState DEF Skip, WorkerSet
      <3>2. CASE UpsertSource(p)
        BY <3>2 DEF UpsertSource
      <3>3. CASE IngestEnds(p)
        BY <1>2, <3>3 DEF IngestEnds
      <3>4. QED
        BY <3>1, <3>2, <3>3
    <2>11. UNCHANGED <<clock, table, index, page, accepted, lookup>>
      BY DEF Skip, UpsertSource, IngestEnds
    <2> HIDE DEF next, begin
    <2>12. QED
      BY <2>5, <2>7, <2>8, <2>9, <2>10, <2>11, PublisherState, PublisherKeeps
  <1>3. CASE w.todo = <<>>
    BY <1>3, AtRest, PublisherState, PublisherKeeps DEF Skip, UpsertSource, IngestEnds
  <1>4. QED
    BY <1>2, <1>3

(* A publisher at work on a document writes to it as it may.               *)
LEMMA DocumentState ==
    ASSUME EvidenceInv, NEW p \in Publishers, worker[p].at \in {"lookup", "create", "delete", "insert"}
    PROVE  LET d == worker[p].document
               i == index[d.uri]
           IN  /\ d \in Documents /\ d.uri \in Uris /\ Backed(d.uri, d.hash[2], table)
               /\ d.hash \in Hashes /\ d.hash[2] \in Contained
               /\ i.hash \in Hashes \cup {<<"none">>} /\ i.chunks \subseteq Chunks
               /\ i = NoDocument \/ i.hash # <<"none">>
               /\ i.hash # <<"none">> => /\ Backed(d.uri, i.hash[2], table)
                                         /\ \A c \in i.chunks : Backed(d.uri, c[1], table)
               /\ index \in [Uris -> [hash : Hashes \cup {<<"none">>}, chunks : SUBSET Chunks]]
  <1> DEFINE d == worker[p].document
             i == index[d.uri]
  <1>1. BackedDocument(d, table)
    BY PublisherState DEF WorkerSound
  <1>2. d \in Documents /\ d.uri \in Uris /\ Backed(d.uri, d.hash[2], table)
    BY <1>1 DEF BackedDocument, Documents
  <1>3. d.hash \in Hashes /\ d.hash[2] \in Contained
    BY <1>2 DEF Documents, Hashes, Hash
  <1>4. index \in [Uris -> [hash : Hashes \cup {<<"none">>}, chunks : SUBSET Chunks]]
    BY DEF EvidenceInv, EvidenceType
  <1>5. i.hash \in Hashes \cup {<<"none">>} /\ i.chunks \subseteq Chunks
    BY <1>2, <1>4
  <1>6. /\ i = NoDocument \/ i.hash # <<"none">>
        /\ i.hash # <<"none">> => /\ Backed(d.uri, i.hash[2], table)
                                  /\ \A c \in i.chunks : Backed(d.uri, c[1], table)
    BY <1>2 DEF EvidenceInv, IndexSound
  <1>7. QED
    BY <1>2, <1>3, <1>4, <1>5, <1>6

\* An unfinished document has a hash of its own, never the one of its text.
LEMMA HashKinds ==
    /\ \A h \in Hashes : h # <<"none">>
    /\ \A h \in Hashes : h[2] \in Contained => Incomplete(h) \in Hashes /\ Incomplete(h)[2] = h[2]
  <1>1. \A h \in Hashes : Len(h) = 2
    BY DEF Hashes, Hash, Incomplete
  <1>2. Len(<<"none">>) = 1
    OBVIOUS
  <1>3. \A h \in Hashes : h[2] \in Contained => Incomplete(h) \in Hashes /\ Incomplete(h)[2] = h[2]
    <2> SUFFICES ASSUME NEW h \in Hashes, h[2] \in Contained
                 PROVE  Incomplete(h) \in Hashes /\ Incomplete(h)[2] = h[2]
      OBVIOUS
    <2>1. Incomplete(h) = Incomplete(Hash(h[2])) /\ Incomplete(h)[2] = h[2]
      BY DEF Incomplete, Hash
    <2>2. QED
      BY <2>1 DEF Hashes
  <1>4. QED
    BY <1>1, <1>2, <1>3

\* Writing one field of a document leaves the other.
LEMMA IndexWrites ==
    ASSUME EvidenceInv, NEW u \in Uris, NEW x
    PROVE  /\ [index EXCEPT ![u].hash = x]
                 = [index EXCEPT ![u] = [hash |-> x, chunks |-> index[u].chunks]]
           /\ [index EXCEPT ![u].chunks = x]
                 = [index EXCEPT ![u] = [hash |-> index[u].hash, chunks |-> x]]
  <1> DEFINE Entry == [hash : Hashes \cup {<<"none">>}, chunks : SUBSET Chunks]
  <1>1. index \in [Uris -> Entry] /\ index[u] \in Entry
    BY DEF EvidenceInv, EvidenceType
  <1>2. /\ [index[u] EXCEPT !.hash = x] = [hash |-> x, chunks |-> index[u].chunks]
        /\ [index[u] EXCEPT !.chunks = x] = [hash |-> index[u].hash, chunks |-> x]
    <2> SUFFICES ASSUME NEW r \in Entry
                 PROVE  /\ [r EXCEPT !.hash = x] = [hash |-> x, chunks |-> r.chunks]
                        /\ [r EXCEPT !.chunks = x] = [hash |-> r.hash, chunks |-> x]
      BY <1>1
    <2> QED
      OBVIOUS
  <1>3. QED
    BY <1>1, <1>2

\* A document that is found in the index has a row to write to.
LEMMA LookUpSound ==
    ASSUME EvidenceInv, NEW p \in Publishers, LookUpDocument(p)
    PROVE  EvidenceInv'
  <1> DEFINE w == worker[p]
             d == w.document
             absent == [w EXCEPT !.at = "create"]
             found == [w EXCEPT !.at = "delete"]
  <1>1. w.at = "lookup"
    BY DEF LookUpDocument
  <1>2. /\ absent \in WorkerSet /\ absent.at = "create" /\ absent.records = w.records
        /\ absent.todo = w.todo /\ absent.document = d
        /\ found \in WorkerSet /\ found.at = "delete" /\ found.records = w.records
        /\ found.todo = w.todo /\ found.document = d
    BY PublisherState DEF WorkerSet, Stages, Requesting
  <1>3. CASE index[d.uri] = NoDocument
    <2>1. worker' = [worker EXCEPT ![p] = absent]
      BY <1>3, PublisherState DEF LookUpDocument, WorkerSet
    <2>2. WorkerSound(absent, table, index, accepted)
      BY <1>1, <1>2, PublisherState DEF WorkerSound
    <2>3. QED
      BY <1>2, <2>1, <2>2, PublisherState, PublisherKeeps DEF LookUpDocument
  <1>4. CASE index[d.uri] # NoDocument
    <2>1. worker' = [worker EXCEPT ![p] = found]
      BY <1>4, PublisherState DEF LookUpDocument, WorkerSet
    <2>2. index[d.uri].hash # <<"none">>
      BY <1>1, <1>4, DocumentState
    <2>3. WorkerSound(found, table, index, accepted)
      BY <1>1, <1>2, <2>2, PublisherState DEF WorkerSound
    <2>4. QED
      BY <1>2, <2>1, <2>3, PublisherState, PublisherKeeps DEF LookUpDocument
  <1>5. QED
    BY <1>3, <1>4

\* A document enters the index, again if need be, marked unfinished.
LEMMA CreateSound ==
    ASSUME EvidenceInv, NEW p \in Publishers, CreateDocument(p)
    PROVE  EvidenceInv'
  <1> DEFINE w == worker[p]
             d == w.document
             v == [w EXCEPT !.at = "delete"]
             entered == [hash |-> Incomplete(d.hash), chunks |-> index[d.uri].chunks]
  <1>1. w.at = "create" /\ worker' = [worker EXCEPT ![p] = v]
    BY PublisherState DEF CreateDocument, WorkerSet
  <1>2. /\ v \in WorkerSet /\ v.at = "delete" /\ v.records = w.records
        /\ v.todo = w.todo /\ v.document = d
    BY PublisherState DEF WorkerSet, Stages, Requesting
  <1>3. d.uri \in Uris
    BY <1>1, DocumentState
  <1>4. Incomplete(d.hash) \in Hashes /\ Incomplete(d.hash)[2] = d.hash[2]
    BY <1>1, DocumentState, HashKinds
  <1>5. index' = [index EXCEPT ![d.uri] = entered]
    <2>1. index' = [index EXCEPT ![d.uri].hash = Incomplete(d.hash)]
      BY DEF CreateDocument
    <2>2. QED
      BY <1>3, <2>1, IndexWrites
  <1>6. index[d.uri].chunks \subseteq Chunks /\ \A c \in index[d.uri].chunks : Backed(d.uri, c[1], table)
    <2>1. index[d.uri] = NoDocument => index[d.uri].chunks = {}
      BY DEF NoDocument
    <2>2. QED
      BY <1>1, <2>1, DocumentState
  <1>7. /\ entered \in [hash : Hashes, chunks : SUBSET Chunks]
        /\ Backed(d.uri, entered.hash[2], table)
        /\ \A c \in entered.chunks : Backed(d.uri, c[1], table)
    BY <1>1, <1>4, <1>6, DocumentState
  <1> HIDE DEF entered
  <1>8. index'[d.uri].hash # <<"none">>
    <2>1. index'[d.uri] = entered
      BY <1>1, <1>3, <1>5, DocumentState
    <2>2. QED
      BY <1>4, <1>7, <2>1, HashKinds
  <1>9. WorkerSound(v, table, index', accepted)
    BY <1>1, <1>2, <1>8, PublisherState DEF WorkerSound
  <1>10. QED
    BY <1>1, <1>2, <1>3, <1>5, <1>7, <1>9, IndexerKeeps DEF CreateDocument

\* Deleting its old chunks keeps it unfinished.
LEMMA DeleteSound ==
    ASSUME EvidenceInv, NEW p \in Publishers, DeleteChunks(p)
    PROVE  EvidenceInv'
  <1> DEFINE w == worker[p]
             d == w.document
             v == [w EXCEPT !.at = "insert", !.piece = 1]
             emptied == [hash |-> index[d.uri].hash, chunks |-> {}]
  <1>1. w.at = "delete" /\ worker' = [worker EXCEPT ![p] = v]
    BY PublisherState DEF DeleteChunks, WorkerSet
  <1>2. /\ v \in WorkerSet /\ v.at = "insert" /\ v.records = w.records
        /\ v.todo = w.todo /\ v.document = d
    BY PublisherState DEF WorkerSet, Stages, Requesting
  <1>3. index[d.uri].hash # <<"none">> /\ d.uri \in Uris
    BY <1>1, PublisherState, DocumentState DEF WorkerSound
  <1>4. index' = [index EXCEPT ![d.uri] = emptied]
    <2>1. index' = [index EXCEPT ![d.uri].chunks = {}]
      BY DEF DeleteChunks
    <2>2. QED
      BY <1>1, <2>1, DocumentState, IndexWrites
  <1>5. WorkerSound(v, table, index', accepted)
    <2>1. index'[d.uri].hash # <<"none">>
      BY <1>1, <1>3, <1>4, DocumentState
    <2>2. QED
      BY <1>1, <1>2, <2>1, PublisherState DEF WorkerSound
  <1>6. /\ emptied \in [hash : Hashes, chunks : SUBSET Chunks]
        /\ Backed(d.uri, emptied.hash[2], table) /\ emptied.chunks = {}
    BY <1>1, <1>3, DocumentState
  <1> HIDE DEF emptied
  <1>7. QED
    BY <1>1, <1>2, <1>3, <1>4, <1>5, <1>6, IndexerKeeps DEF DeleteChunks

\* So does inserting the new ones.
LEMMA InsertSound ==
    ASSUME EvidenceInv, NEW p \in Publishers, InsertChunks(p)
    PROVE  EvidenceInv'
  <1> DEFINE w == worker[p]
             d == w.document
             taken == \E c \in index[d.uri].chunks : c[2] = w.piece
  <1>1. w.at = "insert" /\ index[d.uri].hash # <<"none">> /\ d.uri \in Uris
    BY PublisherState, DocumentState DEF InsertChunks, WorkerSound
  <1>2. CASE taken
    <2> DEFINE v == [w EXCEPT !.at = "failed"]
    <2>1. worker' = [worker EXCEPT ![p] = v] /\ index' = index
      BY <1>2, PublisherState DEF InsertChunks, WorkerSet
    <2>2. v \in WorkerSet /\ WorkerSound(v, table, index, accepted)
      BY PublisherState DEF WorkerSet, WorkerSound, Stages
    <2>3. QED
      BY <2>1, <2>2, PublisherState, PublisherKeeps DEF InsertChunks
  <1>3. CASE ~ taken
    <2> DEFINE v == [w EXCEPT !.piece = w.piece + 1]
               more == index[d.uri].chunks \union {<<d.hash[2], w.piece>>}
               cut == [hash |-> index[d.uri].hash, chunks |-> more]
    <2>1. worker' = [worker EXCEPT ![p] = v] /\ index' = [index EXCEPT ![d.uri] = cut]
      <3>1. index' = [index EXCEPT ![d.uri].chunks = more]
        BY <1>3 DEF InsertChunks
      <3>2. worker' = [worker EXCEPT ![p] = v]
        BY <1>3, PublisherState DEF InsertChunks, WorkerSet
      <3>3. QED
        BY <1>1, <3>1, <3>2, DocumentState, IndexWrites
    <2>a. w.piece + 1 \in Nat
      BY PublisherState DEF WorkerSet
    <2>2. /\ v \in WorkerSet /\ v.at = "insert" /\ v.records = w.records
          /\ v.todo = w.todo /\ v.document = d
      BY <1>1, <2>a, PublisherState DEF WorkerSet
    <2>3. WorkerSound(v, table, index', accepted)
      <3>1. index'[d.uri].hash # <<"none">>
        BY <1>1, <2>1, DocumentState
      <3>2. QED
        BY <1>1, <2>2, <3>1, PublisherState DEF WorkerSound
    <2>4. more \subseteq Chunks /\ \A c \in more : Backed(d.uri, c[1], table)
      <3>1. <<d.hash[2], w.piece>> \in Chunks
        BY <1>1, PublisherState, DocumentState DEF Chunks, WorkerSet
      <3>2. /\ index[d.uri].chunks \subseteq Chunks /\ Backed(d.uri, d.hash[2], table)
            /\ \A c \in index[d.uri].chunks : Backed(d.uri, c[1], table)
        BY <1>1, DocumentState
      <3>3. <<d.hash[2], w.piece>>[1] = d.hash[2]
        OBVIOUS
      <3>4. ASSUME NEW c \in more
            PROVE  Backed(d.uri, c[1], table)
        <4>1. CASE c = <<d.hash[2], w.piece>>
          BY <3>2, <3>3, <4>1
        <4>2. QED
          BY <3>2, <4>1
      <3>5. QED
        BY <3>1, <3>2, <3>4
    <2> HIDE DEF more
    <2>5. /\ cut \in [hash : Hashes, chunks : SUBSET Chunks]
          /\ Backed(d.uri, cut.hash[2], table) /\ cut.chunks = more
      BY <1>1, <2>4, DocumentState
    <2> HIDE DEF cut
    <2>6. QED
      BY <1>1, <2>1, <2>2, <2>3, <2>4, <2>5, IndexerKeeps DEF InsertChunks
  <1>4. QED
    BY <1>2, <1>3

\* Only then does it get the hash of its text.
LEMMA FinishSound ==
    ASSUME EvidenceInv, NEW p \in Publishers, FinishDocument(p)
    PROVE  EvidenceInv'
  <1> DEFINE w == worker[p]
             d == w.document
             v == [w EXCEPT !.at = "compare"]
             finished == [hash |-> d.hash, chunks |-> index[d.uri].chunks]
  <1>1. /\ w.at = "insert" /\ index[d.uri].hash # <<"none">> /\ d.uri \in Uris
        /\ worker' = [worker EXCEPT ![p] = v]
    BY PublisherState, DocumentState DEF FinishDocument, WorkerSound, WorkerSet
  <1>2. v \in WorkerSet /\ v.at = "compare" /\ v.records = w.records /\ v.todo = w.todo
    BY PublisherState DEF WorkerSet, Stages, Requesting
  <1>3. index' = [index EXCEPT ![d.uri] = finished]
    <2>1. index' = [index EXCEPT ![d.uri].hash = d.hash]
      BY DEF FinishDocument
    <2>2. QED
      BY <1>1, <2>1, DocumentState, IndexWrites
  <1>4. WorkerSound(v, table, index', accepted)
    BY <1>1, <1>2, PublisherState DEF WorkerSound
  <1>5. /\ finished \in [hash : Hashes, chunks : SUBSET Chunks]
        /\ Backed(d.uri, finished.hash[2], table)
        /\ \A c \in finished.chunks : Backed(d.uri, c[1], table)
    BY <1>1, DocumentState
  <1> HIDE DEF finished
  <1>6. QED
    BY <1>1, <1>2, <1>3, <1>4, <1>5, IndexerKeeps DEF FinishDocument

-----------------------------------------------------------------------------
(* A selection is made of records in force, and nothing in force blocks it. *)
LEMMA SelectionSound ==
    ASSUME NEW S \in SUBSET Rows, NEW t \in Nat
    PROVE  LET chosen == SelectEvidence(S, t)
           IN  /\ chosen \in [selected : SUBSET Rows, blockers : SUBSET Blockers]
               /\ chosen.selected \subseteq CurrentRecords(S, t)
               /\ chosen.selected # {} =>
                     \A r \in CurrentRecords(S, t) : r.status \notin BLOCKING_STATUSES
  <1> DEFINE current == CurrentRecords(S, t)
             blockers == BlockingConditions(current)
             of(status) == Newest({r \in current : r.status = status})
             best == IF of("live_success") # {} THEN of("live_success")
                     ELSE of("contract_validated")
             chosen == SelectEvidence(S, t)
  <1>1. current \subseteq S
    BY DEF CurrentRecords
  <1>2. best \subseteq current
    BY DEF Newest
  <1>3. blockers \in SUBSET Blockers
    <2>1. \A r \in current : r.status \in RecordStatuses
      BY <1>1 DEF Rows
    <2>2. QED
      BY <2>1 DEF BlockingConditions, Blockers
  <1>4. blockers = {} => \A r \in current : r.status \notin BLOCKING_STATUSES
    BY DEF BlockingConditions
  <1>5. chosen = IF \E r \in current : r.state = "quarantined"
                 THEN [selected |-> {}, blockers |-> {"quarantine"}]
                 ELSE IF blockers # {} THEN [selected |-> {}, blockers |-> blockers]
                 ELSE [selected |-> best, blockers |-> {}]
    BY DEF SelectEvidence
  <1> HIDE DEF current, blockers, best, chosen
  <1>6. /\ chosen \in [selected : SUBSET Rows, blockers : SUBSET Blockers]
        /\ chosen.selected \subseteq current
        /\ chosen.selected # {} => blockers = {}
    <2>1. {"quarantine"} \in SUBSET Blockers
      BY DEF Blockers
    <2>2. QED
      BY <1>1, <1>2, <1>3, <1>5, <2>1
  <1>7. QED
    BY <1>4, <1>6 DEF current, chosen, blockers

\* A question starts with nothing selected.
LEMMA AskSound ==
    ASSUME EvidenceInv, AskEvidence
    PROVE  LookupSound' /\ lookup' \in LookupSet
  <1>1. PICK a \in Catalog :
          lookup' = [NoLookup EXCEPT !.at = "asked", !.action = a, !.instant = clock,
                                     !.before = {r \in table : r.action = a}]
    BY DEF AskEvidence
  <1> DEFINE past == {r \in table : r.action = a}
  <1>2. table' = table /\ clock \in Nat /\ past \in SUBSET Rows
    BY DEF AskEvidence, EvidenceInv, EvidenceType
  <1>3. \A r \in past : r \in table /\ r.action = a
    OBVIOUS
  <1> HIDE DEF past
  <1>4. lookup' = [at |-> "asked", action |-> a, instant |-> clock, before |-> past, records |-> {},
                   selection |-> NoSelection, selected |-> {}, blockers |-> {}]
    BY <1>1 DEF NoLookup, past
  <1>5. lookup' \in LookupSet
    BY <1>2, <1>4 DEF LookupSet, NoSelection
  <1>6. /\ lookup'.at = "asked" /\ lookup'.before = past
        /\ lookup'.action = a /\ lookup'.selected = {}
    BY <1>4
  <1>7. QED
    BY <1>2, <1>3, <1>5, <1>6 DEF LookupSound, ServedEvidenceStands

\* Without a question there is nothing to account for.
LEMMA NothingAsked ==
    ASSUME lookup' = NoLookup
    PROVE  LookupSound' /\ lookup' \in LookupSet
  <1>1. NoLookup \in LookupSet
    BY DEF NoLookup, LookupSet, NoSelection
  <1>2. NoLookup.at = "idle" /\ NoLookup.selected = {}
    BY DEF NoLookup
  <1>3. QED
    BY <1>1, <1>2 DEF LookupSound, ServedEvidenceStands

\* What is selected is stored, reviewed and of the newest evaluation.
LEMMA ResolveSound ==
    ASSUME EvidenceInv, ResolveEvidence
    PROVE  LookupSound' /\ lookup' \in LookupSet
  <1> DEFINE rows == {r \in table : r.action = lookup.action}
             found == CurrentRecords(rows, lookup.instant)
             chosen == SelectEvidence(found, lookup.instant)
  <1>1. /\ lookup \in LookupSet /\ lookup.at = "asked" /\ table' = table
        /\ lookup' = [lookup EXCEPT !.at = "resolved", !.records = found, !.selection = chosen]
        /\ table \in SUBSET Rows /\ lookup.selected = {}
    BY DEF ResolveEvidence, EvidenceInv, EvidenceType, LookupSound
  <1>2. found \subseteq table /\ found = CurrentRecords(found, lookup.instant)
    BY DEF CurrentRecords
  <1>3. CurrentRecords(lookup.before, lookup.instant) \subseteq found
    BY <1>1 DEF CurrentRecords, EvidenceInv, LookupSound
  <1>4. found \in SUBSET Rows /\ lookup.instant \in Nat
    BY <1>1, <1>2 DEF LookupSet
  <1> HIDE DEF found
  <1>5. chosen \in [selected : SUBSET Rows, blockers : SUBSET Blockers]
    BY <1>4, SelectionSound
  <1>6. /\ lookup' \in LookupSet /\ lookup'.at = "resolved" /\ lookup'.records = found
        /\ lookup'.selection = chosen /\ lookup'.instant = lookup.instant
        /\ lookup'.before = lookup.before /\ lookup'.selected = {}
    BY <1>1, <1>4, <1>5 DEF LookupSet
  <1>7. QED
    BY <1>1, <1>2, <1>3, <1>6 DEF LookupSound, ServedEvidenceStands

\* What is answered was selected and has not expired.
LEMMA AnswerSound ==
    ASSUME EvidenceInv, AnswerEvidence
    PROVE  LookupSound' /\ lookup' \in LookupSet
  <1> DEFINE said == PublicSelection(lookup.selection, lookup.instant)
  <1>1. /\ lookup \in LookupSet /\ lookup.at = "resolved" /\ table' = table /\ table \in SUBSET Rows
        /\ lookup' = [lookup EXCEPT !.at = "answered", !.selected = said.selected,
                                    !.blockers = said.blockers]
           \/ lookup' = NoLookup
    BY DEF AnswerEvidence, EvidenceInv, EvidenceType
  <1>2. CASE lookup' = NoLookup
    BY <1>2, NothingAsked
  <1>3. CASE lookup' = [lookup EXCEPT !.at = "answered", !.selected = said.selected,
                                      !.blockers = said.blockers]
    <2>1. /\ lookup.records \subseteq table
          /\ lookup.records = CurrentRecords(lookup.records, lookup.instant)
          /\ CurrentRecords(lookup.before, lookup.instant) \subseteq lookup.records
          /\ lookup.selection = SelectEvidence(lookup.records, lookup.instant)
      BY <1>1 DEF EvidenceInv, LookupSound
    <2>2. /\ lookup.records \in SUBSET Rows /\ lookup.instant \in Nat
          /\ lookup.selection \in [selected : SUBSET Rows, blockers : SUBSET Blockers]
      BY <1>1 DEF LookupSet
    <2>3. /\ lookup.selection.selected \subseteq lookup.records
          /\ lookup.selection.selected # {} =>
                \A r \in lookup.records : r.status \notin BLOCKING_STATUSES
      BY <2>1, <2>2, SelectionSound
    <2>4. said.selected \subseteq lookup.selection.selected
      BY DEF PublicSelection
    <2>5. said.selected \in SUBSET Rows /\ said.blockers \in SUBSET Blockers
      BY <2>2, <2>4 DEF PublicSelection, Blockers
    <2> HIDE DEF said
    <2>6. /\ lookup' \in LookupSet /\ lookup'.at = "answered"
          /\ lookup'.selected = said.selected /\ lookup'.instant = lookup.instant
          /\ lookup'.before = lookup.before
      BY <1>1, <1>3, <2>5 DEF LookupSet
    <2>7. \A r \in lookup.records : r.approved /\ InForce(r, lookup.instant)
      BY <2>1 DEF CurrentRecords
    <2>8. ServedEvidenceStands'
      <3> SUFFICES ASSUME NEW r \in said.selected
                   PROVE  /\ r \in table' /\ r.approved /\ InForce(r, lookup.instant)
                          /\ \A other \in CurrentRecords(lookup.before, lookup.instant) :
                                other.status \notin BLOCKING_STATUSES
        BY <2>6 DEF ServedEvidenceStands
      <3> QED
        BY <1>1, <2>1, <2>3, <2>4, <2>7
    <2>9. QED
      BY <2>6, <2>8 DEF LookupSound
  <1>4. QED
    BY <1>1, <1>2, <1>3

(* A step that changes no worker, no row and no index entry.               *)
LEMMA ReaderKeeps ==
    ASSUME EvidenceInv, UNCHANGED <<table, index, worker, accepted>>, clock' \in Nat, page' \in Texts,
           LookupSound' /\ lookup' \in LookupSet
    PROVE  EvidenceInv'
  <1>1. EvidenceType'
    BY DEF EvidenceInv, EvidenceType
  <1>2. IndexSound'
    BY DEF EvidenceInv, IndexSound, Backed
  <1>3. \A p \in Publishers : WorkerSound(worker'[p], table', index', accepted')
    BY DEF EvidenceInv
  <1>4. QED
    BY <1>1, <1>2, <1>3 DEF EvidenceInv

\* The invariant holds before anything is reviewed.
LEMMA EvidenceStart == EvidenceInit => EvidenceInv
  <1> SUFFICES ASSUME EvidenceInit PROVE EvidenceInv
    OBVIOUS
  <1>1. /\ accepted \in SUBSET EmbeddedReports /\ table = Promoted(accepted, "release_reviewer")
        /\ \A report \in accepted : Reviewable(report, "release_reviewer")
    BY EarlierAssumption, ReportsEmbedded DEF EvidenceInit
  <1>2. table \in SUBSET Rows /\ \A row \in table : Reviewed(row, accepted)
    BY <1>1, PromotedReviewed DEF REVIEWER_ROLES
  <1>3. /\ worker \in [Publishers -> WorkerSet]
        /\ \A p \in Publishers : WorkerSound(worker[p], table, index, accepted)
    BY AtRest DEF EvidenceInit
  <1>4. /\ index \in [Uris -> [hash : Hashes \cup {<<"none">>}, chunks : SUBSET Chunks]]
        /\ IndexSound
    BY DEF EvidenceInit, NoDocument, IndexSound
  <1>5. LookupSound /\ lookup \in LookupSet
    <2>1. NoLookup \in LookupSet
      BY DEF NoLookup, LookupSet, NoSelection
    <2>2. lookup = NoLookup /\ NoLookup.at = "idle" /\ NoLookup.selected = {}
      BY DEF NoLookup, EvidenceInit
    <2>3. QED
      BY <2>1, <2>2 DEF LookupSound, ServedEvidenceStands
  <1>6. page \in Texts /\ clock \in Nat
    BY EvidenceAssumption DEF EvidenceInit
  <1>7. QED
    BY <1>1, <1>2, <1>3, <1>4, <1>5, <1>6 DEF EvidenceInv, EvidenceType

\* Every step keeps the invariant.
LEMMA EvidenceSteps == EvidenceInv /\ [EvidenceNext]_evidenceVars => EvidenceInv'
  <1> SUFFICES ASSUME EvidenceInv, [EvidenceNext]_evidenceVars PROVE EvidenceInv'
    OBVIOUS
  <1>0. clock \in Nat /\ page \in Texts
    BY DEF EvidenceInv, EvidenceType
  <1>1. ASSUME NEW p \in Publishers, PublisherStep(p) PROVE EvidenceInv'
    BY <1>1, ReviewSound, EditSound, StartSound, ReadSound, ChooseSound, PostSound, RecheckSound,
       IngestPublishedSound, IngestWikiSound, CompareSound, LookUpSound, CreateSound, DeleteSound, InsertSound,
       FinishSound, FailsSound, LostSound DEF PublisherStep
  <1>2. CASE EditPage
    BY <1>0, <1>2, LookupKept, ReaderKeeps DEF EditPage
  <1>3. CASE ClockTicks
    BY <1>0, <1>3, LookupKept, ReaderKeeps DEF ClockTicks
  <1>4. CASE AskEvidence
    BY <1>0, <1>4, AskSound, ReaderKeeps DEF AskEvidence
  <1>5. CASE ResolveEvidence
    BY <1>0, <1>5, ResolveSound, ReaderKeeps DEF ResolveEvidence
  <1>6. CASE AnswerEvidence
    BY <1>0, <1>6, AnswerSound, ReaderKeeps DEF AnswerEvidence
  <1>7. CASE ForgetAnswer
    BY <1>0, <1>7, NothingAsked, ReaderKeeps DEF ForgetAnswer
  <1>8. CASE UNCHANGED evidenceVars
    BY <1>0, <1>8, LookupKept, ReaderKeeps DEF evidenceVars
  <1>9. QED
    BY <1>1, <1>2, <1>3, <1>4, <1>5, <1>6, <1>7, <1>8 DEF EvidenceNext

\* The invariant contains what the run checks.
LEMMA EvidenceInvImplies == EvidenceInv => EvidenceStands
  <1> SUFFICES ASSUME EvidenceInv PROVE EvidenceStands
    OBVIOUS
  <1>1. PublishedAsReviewed
    BY DEF EvidenceInv, PublishedAsReviewed, Reviewed, WorkerSound
  <1>2. ServedEvidenceStands
    BY DEF EvidenceInv, LookupSound
  <1>3. IndexedAsPublished
    BY DEF EvidenceInv, IndexSound, Backed, IndexedAsPublished
  <1>4. QED
    BY <1>1, <1>2, <1>3 DEF EvidenceStands

\* The rows, the accepted reports, the index, the publishers and the question under
\* way keep the invariant EvidenceInv at all times.
THEOREM EvidenceInvariant == EvidenceSpec => []EvidenceInv
  BY EvidenceStart, EvidenceSteps, PTL DEF EvidenceSpec

\* Every public record comes from a whole, reviewable report of a file accepted for
\* publication, evidence that is served stands, and a search finds none that is not
\* public.
THEOREM EvidenceTheorem == EvidenceSpec => []EvidenceStands
  BY EvidenceInvariant, EvidenceInvImplies, PTL


(***************************************************************************)
(* The readiness gate of AWS Wave 0.                                       *)
(***************************************************************************)
\* How many checks a complete script makes, and the name of each in order.
AllChecks == Len(Tools) + 1 + Len(Services)
Expected(i) == IF i <= Len(Tools) THEN Tools[i]
               ELSE IF i = Len(Tools) + 1 THEN "account"
               ELSE Services[i - Len(Tools) - 1]

\* A blocked check has a code of its kind.
CheckNames == ExpectedChecks \cup {"aws_live_checks", "wave0_evidence_inventory"}
CheckCodes == AccountCodes \cup RegionCodes \cup
              {"tool_version_verified", "tool_version_unsupported", "aws_account_verified",
               "aws_service_available", "wave0_evidence_inventory_invalid"}
CheckRecords == [name : CheckNames, state : {"pass", "blocked"}, code : CheckCodes]
GoodCheck(k) ==
    k.state = "blocked" =>
        \/ k.name \in ToolChecks /\ k.code = "tool_version_unsupported"
        \/ k.name = "account" /\ k.code \in AccountCodes
        \/ k.name \in ServiceChecks /\ k.code \in RegionCodes
        \/ k.name = "aws_live_checks" /\ k.code = "aws_live_checks_skipped"
        \/ k.name = "wave0_evidence_inventory" /\ k.code = "wave0_evidence_inventory_invalid"

GoodChecks(ks) == ks \in Seq(CheckRecords) /\ \A i \in DOMAIN ks : GoodCheck(ks[i])

\* The first checks of a script in order, all of them, and those of one that made
\* no live checks.
InOrder(ks) == Len(ks) <= AllChecks /\ \A i \in 1 .. Len(ks) : ks[i].name = Expected(i)
Whole(ks) == InOrder(ks) /\ Len(ks) = AllChecks
Short(ks) ==
    /\ Len(ks) > Len(Tools)
    /\ \A i \in 1 .. Len(Tools) : ks[i].name = Tools[i]
    /\ ks[Len(Tools) + 1].name = "aws_live_checks" /\ ks[Len(Tools) + 1].state = "blocked"
    /\ \A i \in 1 .. Len(ks) : i > Len(Tools) + 1 => ks[i].name = "wave0_evidence_inventory"

PassIn(ks, group) == \A i \in DOMAIN ks : ks[i].name \in group => ks[i].state = "pass"

\* The names of the checks are different and those of the expected ones.
LEMMA ExpectedNames ==
    /\ Len(Tools) \in Nat /\ Len(Services) \in Nat /\ Len(Services) > 0 /\ AllChecks \in Nat
    /\ \A i, j \in 1 .. AllChecks : Expected(i) = Expected(j) => i = j
    /\ \A i \in 1 .. AllChecks : Expected(i) \in ExpectedChecks
    /\ \A n \in ExpectedChecks : \E i \in 1 .. AllChecks : n = Expected(i)
    /\ \A n \in ToolChecks : \E i \in 1 .. Len(Tools) : n = Tools[i]
    /\ ExpectedChecks \cap {"aws_live_checks", "wave0_evidence_inventory"} = {}
    /\ "account" \notin ToolChecks \cup ServiceChecks /\ ToolChecks \cap ServiceChecks = {}
  <1> USE GateAssumption DEF ToolChecks, ServiceChecks, ExpectedChecks, OtherChecks
  <1>1. /\ Len(Tools) \in Nat /\ Len(Services) \in Nat /\ Len(Services) > 0 /\ AllChecks \in Nat
        /\ DOMAIN Tools = 1 .. Len(Tools) /\ DOMAIN Services = 1 .. Len(Services)
    BY DEF AllChecks
  <1>2. \A i \in 1 .. AllChecks :
           /\ i <= Len(Tools) => i \in DOMAIN Tools /\ Expected(i) = Tools[i]
           /\ i = Len(Tools) + 1 => Expected(i) = "account"
           /\ i > Len(Tools) + 1 => /\ i - Len(Tools) - 1 \in DOMAIN Services
                                    /\ Expected(i) = Services[i - Len(Tools) - 1]
    BY <1>1 DEF Expected, AllChecks
  <1>3. \A i, j \in 1 .. AllChecks : Expected(i) = Expected(j) => i = j
    <2> SUFFICES ASSUME NEW i \in 1 .. AllChecks, NEW j \in 1 .. AllChecks, Expected(i) = Expected(j)
                 PROVE  i = j
      OBVIOUS
    <2>1. CASE i <= Len(Tools) /\ j <= Len(Tools)
      BY <1>1, <1>2, <2>1
    <2>2. CASE i <= Len(Tools) /\ j > Len(Tools)
      <3>1. Expected(i) \notin OtherChecks /\ \A k \in DOMAIN Services : Expected(i) # Services[k]
        BY <1>2, <2>2
      <3>2. j = Len(Tools) + 1 => Expected(j) \in OtherChecks
        BY <1>2
      <3>3. j > Len(Tools) + 1 => \E k \in DOMAIN Services : Expected(j) = Services[k]
        BY <1>2
      <3>4. j = Len(Tools) + 1 \/ j > Len(Tools) + 1
        BY <1>1, <2>2
      <3>5. QED
        BY <3>1, <3>2, <3>3, <3>4
    <2>3. CASE i > Len(Tools) /\ j <= Len(Tools)
      <3>1. Expected(j) \notin OtherChecks /\ \A k \in DOMAIN Services : Expected(j) # Services[k]
        BY <1>2, <2>3
      <3>2. QED
        BY <1>1, <1>2, <2>3, <3>1
    <2>4. CASE i > Len(Tools) + 1 /\ j > Len(Tools) + 1
      <3>1. i - Len(Tools) - 1 = j - Len(Tools) - 1
        BY <1>2, <2>4
      <3>2. QED
        BY <1>1, <2>4, <3>1
    <2>5. CASE i = Len(Tools) + 1 /\ j > Len(Tools) + 1
      BY <1>1, <1>2, <2>5
    <2>6. CASE j = Len(Tools) + 1 /\ i > Len(Tools) + 1
      BY <1>1, <1>2, <2>6
    <2>7. QED
      BY <1>1, <2>1, <2>2, <2>3, <2>4, <2>5, <2>6
  <1>4. \A i \in 1 .. AllChecks : Expected(i) \in ExpectedChecks
    BY <1>1, <1>2
  <1>5. \A n \in ExpectedChecks : \E i \in 1 .. AllChecks : n = Expected(i)
    <2> SUFFICES ASSUME NEW n \in ExpectedChecks
                 PROVE  \E i \in 1 .. AllChecks : n = Expected(i)
      OBVIOUS
    <2>1. CASE n = "account"
      <3>1. Len(Tools) + 1 \in 1 .. AllChecks
        BY <1>1 DEF AllChecks
      <3>2. QED
        BY <1>1, <1>2, <2>1, <3>1
    <2>2. ASSUME NEW k \in DOMAIN Tools, n = Tools[k]
          PROVE  \E i \in 1 .. AllChecks : n = Expected(i)
      <3>1. k \in 1 .. AllChecks
        BY <1>1 DEF AllChecks
      <3>2. QED
        BY <1>1, <1>2, <2>2, <3>1
    <2>3. ASSUME NEW k \in DOMAIN Services, n = Services[k]
          PROVE  \E i \in 1 .. AllChecks : n = Expected(i)
      <3>1. /\ Len(Tools) + 1 + k \in 1 .. AllChecks
            /\ (Len(Tools) + 1 + k) - Len(Tools) - 1 = k
            /\ Len(Tools) + 1 + k > Len(Tools) + 1
        BY <1>1 DEF AllChecks
      <3>2. QED
        BY <1>1, <1>2, <2>3, <3>1
    <2>4. QED
      BY <2>1, <2>2, <2>3
  <1>6. QED
    BY <1>1, <1>3, <1>4, <1>5

\* In a whole script every expected check was made once, and no other.
LEMMA WholeIsExact ==
    ASSUME NEW ks \in Seq(CheckRecords), Whole(ks)
    PROVE  Exact(ks) /\ \A n \in ExpectedChecks : Counted(ks, n) = 1
  <1>1. DOMAIN ks = 1 .. AllChecks /\ \A i \in 1 .. AllChecks : ks[i].name = Expected(i)
    BY DEF Whole, InOrder
  <1>2. ASSUME NEW n \in ExpectedChecks
        PROVE  Counted(ks, n) = 1
    <2>1. PICK i \in 1 .. AllChecks : n = Expected(i)
      BY ExpectedNames
    <2>2. {j \in DOMAIN ks : ks[j].name = n} = {i}
      BY <1>1, <2>1, ExpectedNames
    <2>3. QED
      BY <2>2, FS_Singleton DEF Counted
  <1>3. QED
    BY <1>1, <1>2, ExpectedNames DEF Exact, GroupInvalid

\* Without live checks the account was not checked, and the tools were checked once.
LEMMA ShortIsNotExact ==
    ASSUME NEW ks \in Seq(CheckRecords), Short(ks)
    PROVE  /\ ~Exact(ks) /\ Counted(ks, "account") # 1
           /\ \A n \in ToolChecks : Counted(ks, n) = 1
  <1>1. DOMAIN ks = 1 .. Len(ks) /\ Len(Tools) \in Nat /\ Len(ks) \in Nat
    BY ExpectedNames
  <1>2. \A i \in 1 .. Len(ks) :
           \/ i <= Len(Tools) /\ ks[i].name = Tools[i] /\ ks[i].name \in ToolChecks
           \/ i > Len(Tools) /\ ks[i].name \in {"aws_live_checks", "wave0_evidence_inventory"}
    BY <1>1, GateAssumption DEF Short, ToolChecks
  <1>3. Counted(ks, "account") # 1
    <2>1. {j \in DOMAIN ks : ks[j].name = "account"} = {}
      <3>1. "account" \notin ToolChecks
        BY ExpectedNames
      <3>2. QED
        BY <1>1, <1>2, <3>1
    <2>2. Counted(ks, "account") = 0
      BY <2>1, FS_EmptySet, Zenon DEF Counted
    <2>3. QED
      BY <2>2
  <1>4. ASSUME NEW n \in ToolChecks
        PROVE  Counted(ks, n) = 1
    <2>1. PICK i \in 1 .. Len(Tools) : n = Tools[i]
      BY ExpectedNames
    <2>2. {j \in DOMAIN ks : ks[j].name = n} = {i}
      <3>1. i \in DOMAIN ks /\ ks[i].name = n
        BY <1>1, <2>1 DEF Short
      <3>2. ASSUME NEW j \in DOMAIN ks, ks[j].name = n
            PROVE  j = i
        <4>1. n \notin {"aws_live_checks", "wave0_evidence_inventory"}
          BY ExpectedNames DEF ExpectedChecks
        <4>2. j <= Len(Tools) /\ Tools[j] = Tools[i]
          BY <1>1, <1>2, <2>1, <3>2, <4>1
        <4>3. QED
          BY <1>1, <4>2, GateAssumption
      <3>3. QED
        BY <3>1, <3>2
    <2>3. QED
      BY <2>2, FS_Singleton DEF Counted
  <1>5. QED
    BY <1>3, <1>4 DEF Exact, GroupInvalid, ExpectedChecks

\* aggregate_gate tells the tools from everything else, and services only when one failed.
LEMMA StatusTells ==
    ASSUME NEW ks, GoodChecks(ks), Whole(ks) \/ Short(ks)
    PROVE  /\ AggregateGate(ks) = "blocked_tooling" <=> ~PassIn(ks, ToolChecks)
           /\ AggregateGate(ks) = "blocked_region_service" => ~PassIn(ks, ServiceChecks)
  <1> DEFINE bad == {ks[i] : i \in {j \in DOMAIN ks :
                       ks[j].state # "pass" /\ ks[j].code # "wave0_evidence_inventory_invalid"}}
  <1>1. ks \in Seq(CheckRecords) /\ \A i \in DOMAIN ks : GoodCheck(ks[i]) /\ ks[i] \in CheckRecords
    BY DEF GoodChecks
  <1>2. ~GroupInvalid(ks, ToolChecks)
    BY <1>1, WholeIsExact, ShortIsNotExact DEF GroupInvalid, ExpectedChecks
  <1>3. Whole(ks) => Exact(ks) /\ ~GroupInvalid(ks, ServiceChecks)
    BY <1>1, WholeIsExact DEF GroupInvalid, ExpectedChecks
  <1>4. (\E k \in bad : k.name \in ToolChecks) <=> ~PassIn(ks, ToolChecks)
    BY <1>1, ExpectedNames DEF PassIn, GoodCheck, CheckRecords, ExpectedChecks
  <1>5. (\E k \in bad : k.code \in RegionCodes) => ~PassIn(ks, ServiceChecks)
    BY <1>1 DEF PassIn, GoodCheck, CheckRecords, AccountCodes, RegionCodes
  <1>6. Short(ks) => \E k \in bad : k.code \in AccountCodes
    <2> SUFFICES ASSUME Short(ks) PROVE \E k \in bad : k.code \in AccountCodes
      OBVIOUS
    <2> DEFINE n == Len(Tools) + 1
    <2>1. n \in DOMAIN ks /\ ks[n].name = "aws_live_checks" /\ ks[n].state = "blocked"
      BY <1>1, ExpectedNames DEF Short
    <2>2. ks[n].code = "aws_live_checks_skipped"
      BY <1>1, <2>1, ExpectedNames DEF GoodCheck, ExpectedChecks
    <2>3. ks[n] \in bad
      BY <2>1, <2>2
    <2>4. QED
      BY <2>2, <2>3 DEF AccountCodes
  <1> HIDE DEF bad
  <1>7. AggregateGate(ks) =
            IF \E k \in bad : k.name \in ToolChecks          THEN "blocked_tooling"
            ELSE IF \E k \in bad : k.code \in AccountCodes   THEN "blocked_account_access"
            ELSE IF \E k \in bad : k.code \in RegionCodes    THEN "blocked_region_service"
            ELSE IF bad # {}                                 THEN "blocked_identity_compatibility"
            ELSE IF GroupInvalid(ks, ToolChecks)             THEN "blocked_tooling"
            ELSE IF GroupInvalid(ks, {"account"})            THEN "blocked_account_access"
            ELSE IF GroupInvalid(ks, ServiceChecks)          THEN "blocked_region_service"
            ELSE IF ~Exact(ks)                               THEN "blocked_identity_compatibility"
            ELSE "ready"
    BY Zenon DEF AggregateGate, bad
  <1>8. QED
    BY <1>2, <1>3, <1>4, <1>5, <1>6, <1>7

-----------------------------------------------------------------------------
\* Probes, decisions, attempts of the run, and the script and its report.
Decisions == [mode : Modes0, issuer : Issuers \cup {"cognito"}]
Probes == [host : Hosts, mode : Modes0, result : {"pass", "fail"},
           issuer : Issuers \cup {"cognito"}, at : Nat, digest : Contents]
RunProofs == [attempt : Nat, account : Accounts]
RunAttempts == [state : {"running", "success", "failure"}, account : Accounts,
                proof : SUBSET RunProofs]

VerifyPhases == OidcPhases \cup {"region", "identity", "evidence", "stack"}
GatePhases == {"idle", "tools", "account", "services", "report", "decision", "local", "write"}
                  \cup VerifyPhases
GateStatuses == {"none", "ready", "blocked_tooling", "blocked_account_access",
                 "blocked_region_service", "blocked_identity_compatibility"}
GateRecords ==
    [phase : GatePhases, checks : Seq(CheckRecords), tries : Nat, account : Accounts \cup {"none"},
     at : Nat, status : GateStatuses, decision : SUBSET Decisions, attempt : Nat,
     evidence : SUBSET RunProofs, proofs : SUBSET Probes,
     hashed : SUBSET [host : Hosts, file : RawFiles]]

\* A set of probes is a proof at a time.
ProofsAgree(ps, at) ==
    /\ AllHostsPass(ps)
    /\ \A p, q \in ps : p.mode = q.mode /\ p.issuer = q.issuer
    /\ \A p \in ps : p.at <= at /\ at - p.at <= MaxAge

\* Probes that were read, for a time.
ProofsRead(ps, at) ==
    /\ IsFiniteSet(ps)
    /\ \A p \in ps : IssuerFits(p) /\ ProofCurrent(p, at)
    /\ \A p, q \in ps : p.host = q.host => p = q

\* An attempt that succeeded for an account stays one.
Succeeded(n, account) ==
    /\ commit.source = "pinned"
    /\ n \in DOMAIN attempts /\ attempts[n].state = "success" /\ attempts[n].account = account

\* What GateSound says of one report.
ReportSound(r) ==
    /\ r.status = "ready" =>
          /\ Exact(r.checks) /\ \A i \in DOMAIN r.checks : r.checks[i].state = "pass"
          /\ \E e \in r.evidence : Succeeded(e.attempt, r.account)
          /\ ProofsAgree(r.proofs, r.at) /\ r.decision = DecideIdentity(r.proofs)
    /\ r.status = "blocked_tooling" <=> ~PassIn(r.checks, ToolChecks)
    /\ r.status = "blocked_region_service" =>
          /\ ~PassIn(r.checks, ServiceChecks) /\ PassIn(r.checks, {"account"}) /\ r.evidence # {}
    /\ r.status = "blocked_identity_compatibility" =>
          /\ \A i \in DOMAIN r.checks : r.checks[i].state = "pass"
          /\ r.evidence # {}
    /\ r.evidence # {} => /\ r.account # "none"
                          /\ PassIn(r.checks, ToolChecks \cup {"account"})

\* The identity evidence: probes fit their mode, and are finitely many.
IdentityKept ==
    /\ hour \in Nat
    /\ rawFiles \in [RawFiles -> Contents \cup {NoFile}]
    /\ probeFiles \in SUBSET Probes /\ loaded \in SUBSET Probes /\ decided \in SUBSET Decisions
    /\ IsFiniteSet(probeFiles) /\ \A p \in probeFiles : IssuerFits(p)

\* The run: what the pinned workflow uploads is the truth about its attempt.
AttemptsKept ==
    /\ commit \in Commits /\ role \in Accounts
    /\ attempts \in Seq(RunAttempts) /\ attempts # <<>>
    /\ commit.source = "pinned" =>
          \A n \in DOMAIN attempts : \A p \in attempts[n].proof :
              p.attempt = n /\ p.account = attempts[n].account

\* The status of a report that was built names the tools and the services rightly.
StatusRight(g) ==
    /\ g.status = "blocked_tooling" <=> ~PassIn(g.checks, ToolChecks)
    /\ g.status = "blocked_region_service" => ~PassIn(g.checks, ServiceChecks)

\* What the script has established when it stands at a phase.
ScriptSound(g) ==
    /\ g.phase = "tools" => g.checks = <<>>
    /\ g.phase = "account" => InOrder(g.checks) /\ Len(g.checks) = Len(Tools)
    /\ g.phase = "services" => /\ InOrder(g.checks)
                               /\ Len(g.checks) > Len(Tools) /\ Len(g.checks) < AllChecks
    /\ g.phase \in {"report", "decision", "local"} => Whole(g.checks) \/ Short(g.checks)
    /\ g.phase \in {"decision", "local"} => StatusRight(g)
    /\ g.phase \in VerifyPhases =>
          /\ Whole(g.checks) /\ StatusRight(g) /\ g.account \in Accounts
          /\ PassIn(g.checks, ToolChecks \cup {"account"})
    /\ g.phase \in VerifyPhases \ {"run"} =>
          g.attempt \in DOMAIN attempts /\ attempts[g.attempt].state = "success"
    /\ g.phase \in {"artifacts", "download"} => commit.source = "pinned"
    /\ g.phase \in {"region", "identity", "evidence", "stack"} =>
          /\ Succeeded(g.attempt, g.account)
          /\ g.evidence = {[attempt |-> g.attempt, account |-> g.account]}
    /\ g.phase \in {"identity", "evidence", "stack"} => PassIn(g.checks, ServiceChecks)
    /\ g.phase \in {"identity", "evidence"} => ProofsRead(g.proofs, g.at)
    /\ g.phase = "stack" => ProofsAgree(g.proofs, g.at) /\ g.decision = DecideIdentity(g.proofs)
    /\ g.phase = "write" => ReportSound(g)

GateInv ==
    /\ IdentityKept /\ AttemptsKept
    /\ gate \in GateRecords /\ GoodChecks(gate.checks) /\ ScriptSound(gate)
    /\ \A r \in gateFile : ReportSound(r)

-----------------------------------------------------------------------------
\* A probe that is recorded fits, and decisions follow from probes.
LEMMA DecisionsType ==
    ASSUME NEW ps \in SUBSET Probes
    PROVE  DecideIdentity(ps) \in SUBSET Decisions
  <1>1. \A m \in Modes0 : [mode |-> m, issuer |-> "cognito"] \in Decisions
    BY DEF Decisions
  <1>2. \A p \in ps : [mode |-> "dcr", issuer |-> p.issuer] \in Decisions
    BY DEF Decisions, Probes, Modes0
  <1>3. QED
    BY <1>1, <1>2 DEF DecideIdentity, InMode, Modes0

\* The identity evidence stays what it is, whatever is recorded, edited and decided.
LEMMA IdentityStep ==
    ASSUME IdentityKept, IdentityNext
    PROVE  IdentityKept'
  <1> USE IdentityAssumption DEF IdentityKept
  <1>1. ASSUME NEW t \in Trials, RecordHostProbe(t)
        PROVE  IdentityKept'
    <2>1. PICK digest \in Digest(t.file) :
             probeFiles' = WithProbe([host |-> t.host, mode |-> t.mode, result |-> t.result,
                                      issuer |-> t.issuer, at |-> hour, digest |-> digest])
      BY <1>1 DEF RecordHostProbe
    <2> DEFINE probe == [host |-> t.host, mode |-> t.mode, result |-> t.result,
                         issuer |-> t.issuer, at |-> hour, digest |-> digest]
    <2>2. digest \in Contents
      BY DEF Digest
    <2>3. probe \in Probes
      BY <2>2 DEF Probes
    <2>4. IssuerFits(probe)
      BY <1>1 DEF RecordHostProbe, IssuerFits
    <2> HIDE DEF probe
    <2>5. /\ probeFiles' \in SUBSET Probes /\ \A p \in probeFiles' : IssuerFits(p)
          /\ probeFiles' \subseteq probeFiles \cup {probe}
      BY <2>1, <2>3, <2>4 DEF WithProbe, probe
    <2>6. IsFiniteSet(probeFiles')
      <3>1. IsFiniteSet(probeFiles \cup {probe})
        BY FS_AddElement
      <3>2. QED
        BY <2>5, <3>1, FS_Subset
    <2>7. QED
      BY <1>1, <2>5, <2>6 DEF RecordHostProbe, decideVars
  <1>2. CASE ListProbes \/ LoadProbe
    BY <1>2 DEF ListProbes, LoadProbe
  <1>3. CASE WriteIdentityDecision
    <2>1. DecideIdentity(loaded) \in SUBSET Decisions
      BY DecisionsType
    <2>2. QED
      BY <1>3, <2>1 DEF WriteIdentityDecision
  <1>4. ASSUME NEW f \in RawFiles, EditRawFile(f)
        PROVE  IdentityKept'
    BY <1>4 DEF EditRawFile, decideVars
  <1>5. CASE HourPasses
    BY <1>5 DEF HourPasses, decideVars
  <1>6. QED
    BY <1>1, <1>2, <1>3, <1>4, <1>5 DEF IdentityNext

\* verify_identity_proof: what leads to a decision is one probe of each host in one mode
\* with one issuer.
LEMMA DecidedAgrees ==
    ASSUME NEW ps \in SUBSET Probes, NEW at, ProofsRead(ps, at), DecideIdentity(ps) # {}
    PROVE  ProofsAgree(ps, at)
  <1>1. \A p \in ps : ProofCurrent(p, at)
    BY DEF ProofsRead
  <1>2. /\ \A p \in ps : p \in Probes
        /\ \A p, q \in ps : p.host = q.host => p = q
    BY DEF ProofsRead
  <1>3. \A p \in ps : IssuerFits(p)
    BY DEF ProofsRead
  <1>4. IsFiniteSet(ps)
    BY DEF ProofsRead
  <1>5. /\ {p.host : p \in ps} = Hosts
        /\ \/ AllHostsPass(InMode(ps, "pre_registered"))
           \/ /\ AllHostsPass(InMode(ps, "dcr"))
              /\ Cardinality({p.issuer : p \in InMode(ps, "dcr")}) = 1
    BY DEF DecideIdentity
  <1>6. ASSUME NEW m, AllHostsPass(InMode(ps, m))
        PROVE  InMode(ps, m) = ps /\ \A p \in ps : p.mode = m
    <2>1. ASSUME NEW p \in ps
          PROVE  p.mode = m
      <3>1. p.host \in Hosts
        BY <1>2 DEF Probes
      <3>2. PICK q \in InMode(ps, m) : q.host = p.host
        BY <1>6, <3>1 DEF AllHostsPass
      <3>3. QED
        BY <1>2, <3>2 DEF InMode
    <2>2. QED
      BY <2>1 DEF InMode
  <1>7. CASE AllHostsPass(InMode(ps, "pre_registered"))
    <2>1. AllHostsPass(ps) /\ \A p \in ps : p.mode = "pre_registered" /\ p.issuer = "cognito"
      BY <1>3, <1>6, <1>7 DEF IssuerFits
    <2>2. QED
      BY <1>1, <2>1 DEF ProofsAgree, ProofCurrent
  <1>8. CASE /\ AllHostsPass(InMode(ps, "dcr"))
             /\ Cardinality({p.issuer : p \in InMode(ps, "dcr")}) = 1
    <2>1. AllHostsPass(ps) /\ InMode(ps, "dcr") = ps /\ \A p \in ps : p.mode = "dcr"
      BY <1>6, <1>8
    <2>2. IsFiniteSet({p.issuer : p \in ps}) /\ Cardinality({p.issuer : p \in ps}) = 1
      <3> DEFINE g == [p \in ps |-> p.issuer]
      <3>1. g \in Surjection(ps, {p.issuer : p \in ps})
        BY DEF Surjection
      <3>2. QED
        BY <1>4, <1>8, <2>1, <3>1, FS_Surjection
    <2>3. \A p, q \in ps : p.issuer = q.issuer
      BY <2>2, FS_Singleton
    <2>4. QED
      BY <1>1, <2>1, <2>3 DEF ProofsAgree, ProofCurrent
  <1>9. QED
    BY <1>5, <1>7, <1>8
-----------------------------------------------------------------------------
\* What is known of an attempt, of a report and of the script stays known while
\* attempts are added and go on.
LEMMA GithubMoves ==
    ASSUME GateInv, IdentityKept', UNCHANGED <<commit, gate, gateFile>>, role' \in Accounts,
           attempts' \in Seq(RunAttempts), attempts' # <<>>,
           \A n \in DOMAIN attempts :
              /\ n \in DOMAIN attempts' /\ attempts'[n].account = attempts[n].account
              /\ attempts[n].state = "success" => attempts'[n].state = "success",
           commit.source = "pinned" =>
              \A n \in DOMAIN attempts' : \A p \in attempts'[n].proof :
                  p.attempt = n /\ p.account = attempts'[n].account
    PROVE  GateInv'
  <1>1. AttemptsKept'
    BY DEF GateInv, AttemptsKept
  <1>2. \A n, a : Succeeded(n, a) => Succeeded(n, a)'
    BY DEF Succeeded
  <1>3. ASSUME NEW r, ReportSound(r)
        PROVE  ReportSound(r)'
    BY <1>2, <1>3 DEF ReportSound
  <1>4. ScriptSound(gate)'
    <2>1. ScriptSound(gate) /\ gate' = gate /\ commit' = commit
      BY DEF GateInv
    <2>2. gate.phase = "write" => ReportSound(gate)'
      BY <1>3, <2>1 DEF ScriptSound
    <2>3. gate.phase \in {"region", "identity", "evidence", "stack"} => Succeeded(gate.attempt, gate.account)'
      BY <1>2, <2>1 DEF ScriptSound
    <2>4. gate.phase \in VerifyPhases \ {"run"} =>
             gate.attempt \in DOMAIN attempts' /\ attempts'[gate.attempt].state = "success"
      BY <2>1 DEF ScriptSound
    <2>5. QED
      BY <2>1, <2>2, <2>3, <2>4 DEF ScriptSound
  <1>5. QED
    BY <1>1, <1>3, <1>4 DEF GateInv

\* Steps of GitHub.
LEMMA GithubSteps ==
    ASSUME GateInv, \/ Rerun \/ Upload \/ RunConcludes \/ ChangeRole
                    \/ \E n \in 1 .. Latest : ExpireArtifact(n)
    PROVE  GateInv'
  <1>1. /\ attempts \in Seq(RunAttempts) /\ role \in Accounts /\ Len(attempts) \in Nat
        /\ Len(attempts) > 0 /\ DOMAIN attempts = 1 .. Len(attempts)
        /\ \A n \in DOMAIN attempts : attempts[n] \in RunAttempts
        /\ commit.source = "pinned" =>
              \A n \in DOMAIN attempts : \A p \in attempts[n].proof :
                  p.attempt = n /\ p.account = attempts[n].account
        /\ IdentityKept
    BY DEF GateInv, AttemptsKept
  <1>2. UNCHANGED <<rawFiles, probeFiles, decideVars, decided, hour, commit, gate, gateFile>>
    BY DEF Rerun, Upload, RunConcludes, ChangeRole, ExpireArtifact, identityVars
  <1>3. IdentityKept'
    BY <1>1, <1>2 DEF IdentityKept, decideVars
  <1>4. CASE Rerun
    <2>1. FreshAttempt \in RunAttempts /\ FreshAttempt.proof = {}
      BY <1>1 DEF FreshAttempt, RunAttempts
    <2> DEFINE after == Append(attempts, FreshAttempt)
    <2>2. /\ after \in Seq(RunAttempts) /\ DOMAIN after = 1 .. Len(attempts) + 1
          /\ after[Len(attempts) + 1] = FreshAttempt
          /\ \A i \in 1 .. Len(attempts) : after[i] = attempts[i]
      BY <1>1, <2>1
    <2>3. attempts' = after /\ role' = role
      BY <1>4 DEF Rerun
    <2> HIDE DEF after
    <2>4. \A n \in DOMAIN after : n \in DOMAIN attempts \/ after[n].proof = {}
      BY <1>1, <2>1, <2>2
    <2>5. QED
      BY <1>1, <1>2, <1>3, <2>1, <2>2, <2>3, <2>4, GithubMoves
  <1>5. ASSUME NEW n \in DOMAIN attempts, NEW a \in RunAttempts,
               attempts' = [attempts EXCEPT ![n] = a], UNCHANGED role,
               a.account = attempts[n].account,
               attempts[n].state = "success" => a.state = "success",
               commit.source = "pinned" => \A p \in a.proof : p.attempt = n /\ p.account = a.account
        PROVE  GateInv'
    <2>1. /\ attempts' \in Seq(RunAttempts) /\ DOMAIN attempts' = DOMAIN attempts
          /\ attempts'[n] = a /\ \A m \in DOMAIN attempts \ {n} : attempts'[m] = attempts[m]
      BY <1>1, <1>5
    <2>2. attempts' # <<>>
      BY <1>1, <2>1
    <2>3. QED
      BY <1>1, <1>2, <1>3, <1>5, <2>1, <2>2, GithubMoves
  <1>6. Latest \in DOMAIN attempts /\ attempts[Latest] \in RunAttempts
    BY <1>1 DEF Latest
  <1>7. CASE Upload
    <2>1. PICK p \in Proofs(Latest) : attempts' = [attempts EXCEPT ![Latest].proof = {p}]
      BY <1>7 DEF Upload
    <2>2. p \in RunProofs
      BY <1>1, <1>6, GateAssumption DEF Proofs, RunProofs, RunAttempts
    <2>3. commit.source = "pinned" => p.attempt = Latest /\ p.account = attempts[Latest].account
      BY DEF Proofs
    <2> DEFINE a == [attempts[Latest] EXCEPT !.proof = {p}]
    <2>4. /\ a \in RunAttempts /\ a.account = attempts[Latest].account
          /\ a.state = attempts[Latest].state /\ a.proof = {p}
      BY <1>6, <2>2 DEF RunAttempts
    <2>5. attempts' = [attempts EXCEPT ![Latest] = a] /\ role' = role
      BY <1>7, <2>1 DEF Upload
    <2> HIDE DEF a
    <2>6. QED
      BY <1>5, <1>6, <2>3, <2>4, <2>5
  <1>8. CASE RunConcludes
    <2>1. PICK s \in {"success", "failure"} : attempts' = [attempts EXCEPT ![Latest].state = s]
      BY <1>8 DEF RunConcludes
    <2> DEFINE a == [attempts[Latest] EXCEPT !.state = s]
    <2>2. /\ a \in RunAttempts /\ a.account = attempts[Latest].account
          /\ a.proof = attempts[Latest].proof
      BY <1>6 DEF RunAttempts
    <2>3. /\ attempts' = [attempts EXCEPT ![Latest] = a] /\ role' = role
          /\ attempts[Latest].state # "success"
      BY <1>8, <2>1 DEF RunConcludes
    <2> HIDE DEF a
    <2>4. QED
      BY <1>1, <1>5, <1>6, <2>2, <2>3
  <1>9. ASSUME NEW n \in 1 .. Latest, ExpireArtifact(n)
        PROVE  GateInv'
    <2> DEFINE a == [attempts[n] EXCEPT !.proof = {}]
    <2>1. n \in DOMAIN attempts /\ attempts[n] \in RunAttempts
      BY <1>1 DEF Latest
    <2>2. /\ a \in RunAttempts /\ a.account = attempts[n].account
          /\ a.state = attempts[n].state /\ a.proof = {}
      BY <2>1 DEF RunAttempts
    <2>3. attempts' = [attempts EXCEPT ![n] = a] /\ role' = role
      BY <1>9 DEF ExpireArtifact
    <2> HIDE DEF a
    <2>4. QED
      BY <1>5, <2>1, <2>2, <2>3
  <1>10. CASE ChangeRole
    <2>1. attempts' = attempts /\ role' \in Accounts
      BY <1>10 DEF ChangeRole
    <2>2. attempts # <<>>
      BY <1>1
    <2>3. QED
      BY <1>1, <1>2, <1>3, <2>1, <2>2, GithubMoves
  <1>11. QED
    BY <1>4, <1>7, <1>8, <1>9, <1>10

\* A step of the script.
LEMMA ScriptMoves ==
    ASSUME GateInv, NEW v \in GateRecords, GoodChecks(v.checks), ScriptSound(v), Script(v)
    PROVE  GateInv'
  <1>1. gate' = v /\ UNCHANGED <<identityVars, githubVars, gateFile>>
    BY DEF Script
  <1>2. IdentityKept' /\ AttemptsKept'
    BY <1>1 DEF GateInv, IdentityKept, AttemptsKept, identityVars, decideVars, githubVars
  <1>3. \A n, a : Succeeded(n, a)' = Succeeded(n, a)
    BY <1>1 DEF Succeeded, githubVars
  <1>4. \A r : ReportSound(r)' = ReportSound(r)
    BY <1>3 DEF ReportSound
  <1>5. ScriptSound(gate)'
    BY <1>1, <1>3, <1>4 DEF ScriptSound, githubVars
  <1>6. QED
    BY <1>1, <1>2, <1>4, <1>5 DEF GateInv

\* The script before it starts, and after it was interrupted.
LEMMA ScriptIdle ==
    ASSUME NEW phase \in {"idle", "tools"}
    PROVE  LET v == [IdleGate EXCEPT !.phase = phase]
           IN  v \in GateRecords /\ GoodChecks(v.checks) /\ ScriptSound(v)
  <1> DEFINE v == [IdleGate EXCEPT !.phase = phase]
  <1>1. v.phase = phase /\ v.checks = <<>>
    BY DEF IdleGate
  <1>2. v \in GateRecords
    <2>1. <<>> \in Seq(CheckRecords) /\ phase \in GatePhases /\ "idle" \in GatePhases
          /\ "none" \in GateStatuses
      BY DEF GatePhases, GateStatuses
    <2>2. IdleGate \in GateRecords
      BY <2>1 DEF IdleGate, GateRecords
    <2>3. QED
      BY <2>1, <2>2 DEF GateRecords
  <1> HIDE DEF v
  <1>3. GoodChecks(v.checks)
    BY <1>1 DEF GoodChecks
  <1>4. ScriptSound(v)
    BY <1>1 DEF ScriptSound, VerifyPhases, OidcPhases
  <1>5. QED
    BY <1>2, <1>3, <1>4 DEF v

\* The start, the end without a report, and the interruption of a script.
LEMMA StopsKeep ==
    ASSUME GateInv, StartGate \/ Interrupt \/ Script(IdleGate)
    PROVE  GateInv'
  <1>1. IdleGate = [IdleGate EXCEPT !.phase = "idle"]
    BY DEF IdleGate
  <1>2. Script(IdleGate) => GateInv'
    <2> DEFINE v == [IdleGate EXCEPT !.phase = "idle"]
    <2>1. v \in GateRecords /\ GoodChecks(v.checks) /\ ScriptSound(v)
      BY ScriptIdle
    <2> HIDE DEF v
    <2>2. Script(v) => GateInv'
      BY <2>1, ScriptMoves
    <2>3. IdleGate = v
      BY <1>1 DEF v
    <2>4. QED
      BY <2>2, <2>3
  <1>3. StartGate => GateInv'
    BY ScriptIdle, ScriptMoves DEF StartGate
  <1>4. QED
    BY <1>2, <1>3 DEF Interrupt

-----------------------------------------------------------------------------
\* One more check.
LEMMA CheckAdded ==
    ASSUME NEW ks, GoodChecks(ks), NEW k \in CheckRecords, GoodCheck(k)
    PROVE  /\ GoodChecks(Append(ks, k)) /\ Append(ks, k) \in Seq(CheckRecords)
           /\ Len(Append(ks, k)) = Len(ks) + 1 /\ Len(ks) \in Nat
           /\ DOMAIN Append(ks, k) = 1 .. Len(ks) + 1 /\ Append(ks, k)[Len(ks) + 1] = k
           /\ \A i \in 1 .. Len(ks) : Append(ks, k)[i] = ks[i]
           /\ DOMAIN ks = 1 .. Len(ks)
  <1> DEFINE after == Append(ks, k)
  <1>1. /\ after \in Seq(CheckRecords) /\ Len(after) = Len(ks) + 1 /\ Len(ks) \in Nat
        /\ DOMAIN after = 1 .. Len(ks) + 1 /\ after[Len(ks) + 1] = k
        /\ \A i \in 1 .. Len(ks) : after[i] = ks[i]
        /\ DOMAIN ks = 1 .. Len(ks)
    BY DEF GoodChecks
  <1> HIDE DEF after
  <1>2. \A i \in DOMAIN after : i \in DOMAIN ks \/ i = Len(ks) + 1
    BY <1>1
  <1>3. GoodChecks(after)
    BY <1>1, <1>2 DEF GoodChecks
  <1>4. QED
    BY <1>1, <1>3 DEF after

\* The next check of the expected ones.
LEMMA NextCheckKeeps ==
    ASSUME GateInv, gate.phase \in {"account", "services"},
           NEW k \in CheckRecords, GoodCheck(k), k.name = Expected(Len(gate.checks) + 1),
           NEW v \in GateRecords, v.checks = Append(gate.checks, k), Script(v),
           \/ v.phase = "services" /\ Len(gate.checks) + 1 < AllChecks
           \/ v.phase = "report" /\ Len(gate.checks) + 1 = AllChecks
    PROVE  GateInv'
  <1>1. /\ GoodChecks(gate.checks) /\ InOrder(gate.checks) /\ Len(gate.checks) >= Len(Tools)
    BY DEF GateInv, ScriptSound
  <1>2. /\ GoodChecks(v.checks) /\ Len(gate.checks) \in Nat
        /\ Len(v.checks) = Len(gate.checks) + 1 /\ v.checks[Len(gate.checks) + 1] = k
        /\ \A i \in 1 .. Len(gate.checks) : v.checks[i] = gate.checks[i]
    BY <1>1, CheckAdded
  <1>3. InOrder(v.checks)
    <2>1. Len(v.checks) <= AllChecks
      BY <1>2, ExpectedNames
    <2>2. \A i \in 1 .. Len(v.checks) : i \in 1 .. Len(gate.checks) \/ i = Len(gate.checks) + 1
      BY <1>2
    <2>3. QED
      BY <1>1, <1>2, <2>1, <2>2 DEF InOrder
  <1>4. v.phase = "report" => Whole(v.checks)
    BY <1>2, <1>3 DEF Whole
  <1>5. v.phase = "services" => Len(v.checks) > Len(Tools) /\ Len(v.checks) < AllChecks
    BY <1>1, <1>2, ExpectedNames
  <1>6. ScriptSound(v)
    BY <1>3, <1>4, <1>5 DEF ScriptSound, VerifyPhases, OidcPhases
  <1>7. QED
    BY <1>2, <1>6, ScriptMoves

\* check_local_toolchain.
LEMMA ToolchainKeeps ==
    ASSUME GateInv, NEW supported \in [DOMAIN Tools -> BOOLEAN], CheckLocalToolchain(supported)
    PROVE  GateInv'
  <1> DEFINE ks == [i \in DOMAIN Tools |->
                      IF supported[i] THEN Check(Tools[i], "pass", "tool_version_verified")
                                      ELSE Blocked(Tools[i], "tool_version_unsupported")]
             v == [gate EXCEPT !.phase = "account", !.checks = ks]
  <1>1. gate \in GateRecords /\ Script(v)
    BY DEF CheckLocalToolchain, GateInv
  <1>2. /\ DOMAIN ks = 1 .. Len(Tools) /\ Len(Tools) \in Nat
        /\ \A i \in DOMAIN ks : ks[i] \in CheckRecords /\ ks[i].name = Tools[i]
                                /\ (ks[i].state = "blocked" => ks[i].code = "tool_version_unsupported")
    BY GateAssumption DEF Check, Blocked, CheckRecords, CheckNames, CheckCodes, ExpectedChecks, ToolChecks
  <1>3. ks \in Seq(CheckRecords) /\ Len(ks) = Len(Tools)
    BY <1>2
  <1>4. GoodChecks(ks)
    BY <1>2, <1>3 DEF GoodChecks, GoodCheck, ToolChecks
  <1>5. InOrder(ks)
    BY <1>2, <1>3, ExpectedNames DEF InOrder, Expected, AllChecks
  <1> HIDE DEF ks
  <1>6. v \in GateRecords /\ v.phase = "account" /\ v.checks = ks
    BY <1>1, <1>3 DEF GateRecords, GatePhases
  <1> HIDE DEF v
  <1>7. ScriptSound(v)
    BY <1>3, <1>5, <1>6 DEF ScriptSound, VerifyPhases, OidcPhases
  <1>8. QED
    BY <1>1, <1>4, <1>6, <1>7, ScriptMoves

\* The script with one more check.
WithCheck(k, phase, n, a) ==
    [gate EXCEPT !.checks = Append(@, k), !.phase = phase, !.tries = n, !.account = a]

\* It is a script with that check last.
LEMMA CheckedShape ==
    ASSUME GateInv, NEW k \in CheckRecords, GoodCheck(k), NEW phase \in GatePhases,
           NEW a \in Accounts \cup {"none"}, NEW n \in Nat
    PROVE  /\ WithCheck(k, phase, n, a) \in GateRecords
           /\ WithCheck(k, phase, n, a).checks = Append(gate.checks, k)
           /\ WithCheck(k, phase, n, a).phase = phase
  <1>1. gate \in GateRecords /\ GoodChecks(gate.checks)
    BY DEF GateInv
  <1>2. Append(gate.checks, k) \in Seq(CheckRecords)
    BY <1>1, CheckAdded
  <1>3. QED
    BY <1>1, <1>2 DEF GateRecords, WithCheck

\* The account is checked, or the live checks are skipped.
LEMMA AccountKeeps ==
    ASSUME GateInv, (\E profile \in ProfileSettings : CheckAwsAccounts(profile)) \/ SkipLiveChecks
    PROVE  GateInv'
  <1>1. /\ gate \in GateRecords /\ gate.phase = "account" /\ GoodChecks(gate.checks)
        /\ InOrder(gate.checks) /\ Len(gate.checks) = Len(Tools) /\ gate.tries \in Nat
        /\ gate.account \in Accounts \cup {"none"}
    BY DEF GateInv, ScriptSound, CheckAwsAccounts, SkipLiveChecks, GateRecords
  <1>2. Expected(Len(gate.checks) + 1) = "account" /\ Len(gate.checks) + 1 < AllChecks
    BY <1>1, ExpectedNames DEF Expected, AllChecks
  <1>3. ASSUME NEW code \in AccountCodes, Checked(Blocked("account", code), "services")
        PROVE  GateInv'
    <2> DEFINE k == Blocked("account", code)
               v == WithCheck(k, "services", 1, gate.account)
    <2>1. k \in CheckRecords /\ GoodCheck(k) /\ k.name = "account"
      BY DEF Blocked, Check, CheckRecords, GoodCheck, CheckNames, CheckCodes, ExpectedChecks
    <2>2. v \in GateRecords /\ v.checks = Append(gate.checks, k) /\ v.phase = "services"
      <3> HIDE DEF k
      <3>1. QED
        BY <1>1, <2>1, CheckedShape DEF GatePhases
    <2>3. v = [gate EXCEPT !.checks = Append(@, k), !.phase = "services", !.tries = 1]
      BY <1>1 DEF GateRecords, WithCheck
    <2>4. Script(v)
      BY <1>3, <2>3 DEF Checked
    <2> HIDE DEF k, v
    <2>5. QED
      BY <1>1, <1>2, <2>1, <2>2, <2>4, NextCheckKeeps
  <1>4. ASSUME NEW a \in Accounts,
               Script([gate EXCEPT !.phase = "services", !.account = a,
                         !.checks = Append(@, Check("account", "pass", "aws_account_verified"))])
        PROVE  GateInv'
    <2> DEFINE k == Check("account", "pass", "aws_account_verified")
               v == WithCheck(k, "services", gate.tries, a)
    <2>1. k \in CheckRecords /\ GoodCheck(k) /\ k.name = "account"
      BY DEF Check, CheckRecords, GoodCheck, CheckNames, CheckCodes, ExpectedChecks
    <2>2. v \in GateRecords /\ v.checks = Append(gate.checks, k) /\ v.phase = "services"
      <3> HIDE DEF k
      <3>1. QED
        BY <1>1, <2>1, CheckedShape DEF GatePhases
    <2>3. v = [gate EXCEPT !.phase = "services", !.account = a, !.checks = Append(@, k)]
      BY <1>1 DEF GateRecords, WithCheck
    <2>4. Script(v)
      BY <1>4, <2>3
    <2> HIDE DEF k, v
    <2>5. QED
      BY <1>1, <1>2, <2>1, <2>2, <2>4, NextCheckKeeps
  <1>5. CASE SkipLiveChecks
    <2> DEFINE k == Blocked("aws_live_checks", "aws_live_checks_skipped")
               v == WithCheck(k, "report", 1, gate.account)
    <2>1. /\ k \in CheckRecords /\ GoodCheck(k) /\ k.name = "aws_live_checks" /\ k.state = "blocked"
      BY DEF Blocked, Check, CheckRecords, GoodCheck, CheckNames, CheckCodes, AccountCodes
    <2>2. v \in GateRecords /\ v.checks = Append(gate.checks, k) /\ v.phase = "report"
      <3> HIDE DEF k
      <3>1. QED
        BY <1>1, <2>1, CheckedShape DEF GatePhases
    <2>3. v = [gate EXCEPT !.checks = Append(@, k), !.phase = "report", !.tries = 1]
      BY <1>1 DEF GateRecords, WithCheck
    <2>4. Script(v)
      BY <1>5, <2>3 DEF Checked, SkipLiveChecks
    <2> HIDE DEF k, v
    <2>5. /\ GoodChecks(v.checks) /\ Len(v.checks) = Len(Tools) + 1
          /\ v.checks[Len(Tools) + 1] = k
          /\ \A i \in 1 .. Len(Tools) : v.checks[i] = gate.checks[i]
      BY <1>1, <2>1, <2>2, CheckAdded
    <2>6. \A i \in 1 .. Len(Tools) : gate.checks[i].name = Tools[i]
      BY <1>1, ExpectedNames DEF InOrder, Expected
    <2>7. Short(v.checks)
      BY <2>1, <2>5, <2>6, ExpectedNames DEF Short
    <2>8. ScriptSound(v)
      BY <2>2, <2>7 DEF ScriptSound, VerifyPhases, OidcPhases
    <2>9. QED
      BY <2>2, <2>4, <2>5, <2>8, ScriptMoves
  <1>6. QED
    BY <1>3, <1>4, <1>5 DEF CheckAwsAccounts, AccountCodes

\* check_region_services.
LEMMA ServiceChecksKeep ==
    ASSUME GateInv, NEW result \in {"ok", "throttled", "failed", "malformed", "lacking"},
           CheckRegionService(result)
    PROVE  GateInv'
  <1> DEFINE m == Len(gate.checks)
  <1>1. /\ gate \in GateRecords /\ gate.phase = "services" /\ GoodChecks(gate.checks)
        /\ InOrder(gate.checks) /\ m > Len(Tools) /\ m < AllChecks
        /\ m \in Nat /\ gate.tries \in Nat
    BY DEF GateInv, ScriptSound, CheckRegionService, GateRecords
  <1>2. /\ m - Len(Tools) \in DOMAIN Services /\ Expected(m + 1) = ProbedService
        /\ ProbedService \in ServiceChecks
    <2>1. m - Len(Tools) \in DOMAIN Services
      BY <1>1, ExpectedNames, GateAssumption DEF AllChecks
    <2>2. (m + 1) - Len(Tools) - 1 = m - Len(Tools) /\ m + 1 > Len(Tools) + 1
      BY <1>1, ExpectedNames
    <2>3. QED
      BY <1>1, <2>1, <2>2, ExpectedNames, GateAssumption DEF Expected, ProbedService, ServiceChecks
  <1>3. \/ AfterProbe = "services" /\ m + 1 < AllChecks
        \/ AfterProbe = "report" /\ m + 1 = AllChecks
    BY <1>1, ExpectedNames DEF AfterProbe, AllChecks
  <1>4. ASSUME NEW k \in CheckRecords, GoodCheck(k), k.name = ProbedService, Checked(k, AfterProbe)
        PROVE  GateInv'
    <2> DEFINE v == WithCheck(k, AfterProbe, 1, gate.account)
    <2>1. AfterProbe \in GatePhases /\ gate.account \in Accounts \cup {"none"}
      BY <1>1 DEF AfterProbe, GatePhases, GateRecords
    <2>2. v \in GateRecords /\ v.checks = Append(gate.checks, k) /\ v.phase = AfterProbe
      BY <1>4, <2>1, CheckedShape
    <2>3. v = [gate EXCEPT !.checks = Append(@, k), !.phase = AfterProbe, !.tries = 1]
      BY <1>1 DEF GateRecords, WithCheck
    <2>4. Script(v)
      BY <1>4, <2>3 DEF Checked
    <2> HIDE DEF v
    <2>5. QED
      BY <1>1, <1>2, <1>3, <1>4, <2>2, <2>4, NextCheckKeeps
  <1>5. CASE Script([gate EXCEPT !.tries = @ + 1])
    <2> DEFINE v == [gate EXCEPT !.tries = @ + 1]
    <2>1. v \in GateRecords /\ v.checks = gate.checks /\ v.phase = "services"
      BY <1>1 DEF GateRecords
    <2> HIDE DEF v
    <2>2. ScriptSound(v)
      BY <1>1, <2>1 DEF ScriptSound, VerifyPhases, OidcPhases
    <2>3. Script(v)
      BY <1>5 DEF v
    <2>4. QED
      BY <1>1, <2>1, <2>2, <2>3, ScriptMoves
  <1>6. ASSUME result = "ok", Checked(Check(ProbedService, "pass", "aws_service_available"), AfterProbe)
        PROVE  GateInv'
    <2> DEFINE k == Check(ProbedService, "pass", "aws_service_available")
    <2>1. k \in CheckRecords /\ GoodCheck(k) /\ k.name = ProbedService
      BY <1>2 DEF Check, CheckRecords, GoodCheck, CheckNames, CheckCodes, ExpectedChecks
    <2>2. QED
      BY <1>4, <1>6, <2>1
  <1>7. ASSUME result # "ok", ProbeCodes(ProbedService)[result] # "none",
               Checked(Blocked(ProbedService, ProbeCodes(ProbedService)[result]), AfterProbe)
        PROVE  GateInv'
    <2> DEFINE code == ProbeCodes(ProbedService)[result]
    <2>1. code \in RegionCodes
      BY <1>7 DEF ProbeCodes, RegionCodes
    <2> HIDE DEF code
    <2> DEFINE k == Blocked(ProbedService, code)
    <2>2. k \in CheckRecords /\ GoodCheck(k) /\ k.name = ProbedService
      BY <1>2, <2>1 DEF Check, Blocked, CheckRecords, GoodCheck, CheckNames, CheckCodes, ExpectedChecks
    <2>3. Checked(k, AfterProbe)
      BY <1>7 DEF code
    <2> HIDE DEF k
    <2>4. QED
      BY <1>4, <2>2, <2>3
  <1>8. QED
    BY <1>5, <1>6, <1>7 DEF CheckRegionService
-----------------------------------------------------------------------------
\* build_readiness_report.
LEMMA ReportKeeps ==
    ASSUME GateInv, BuildReport
    PROVE  GateInv'
  <1> DEFINE ks == Inventoried(gate.checks)
             v == [gate EXCEPT !.phase = "decision", !.at = hour, !.checks = ks,
                               !.status = AggregateGate(ks)]
  <1>1. /\ gate \in GateRecords /\ gate.phase = "report" /\ GoodChecks(gate.checks)
        /\ Whole(gate.checks) \/ Short(gate.checks)
        /\ hour \in Nat /\ gate.checks \in Seq(CheckRecords)
    BY DEF GateInv, IdentityKept, ScriptSound, BuildReport, GoodChecks
  <1>2. GoodChecks(ks) /\ (Whole(ks) \/ Short(ks))
    <2>1. CASE Whole(gate.checks)
      BY <1>1, <2>1, WholeIsExact DEF Inventoried
    <2>2. CASE Short(gate.checks)
      <3> DEFINE k == Blocked("wave0_evidence_inventory", "wave0_evidence_inventory_invalid")
      <3>1. k \in CheckRecords /\ GoodCheck(k) /\ k.name = "wave0_evidence_inventory"
        BY DEF Blocked, Check, CheckRecords, GoodCheck, CheckNames, CheckCodes
      <3>2. ks = Append(gate.checks, k)
        BY <1>1, <2>2, ShortIsNotExact DEF Inventoried
      <3> HIDE DEF k, ks
      <3>3. /\ GoodChecks(ks) /\ Len(ks) = Len(gate.checks) + 1 /\ ks[Len(gate.checks) + 1] = k
            /\ \A i \in 1 .. Len(gate.checks) : ks[i] = gate.checks[i]
            /\ Len(gate.checks) \in Nat
        BY <1>1, <3>1, <3>2, CheckAdded
      <3>4. Short(ks)
        <4>1. \A i \in 1 .. Len(ks) : i \in 1 .. Len(gate.checks) \/ i = Len(gate.checks) + 1
          BY <3>3
        <4>2. /\ Len(gate.checks) > Len(Tools) /\ Len(Tools) \in Nat
              /\ \A i \in 1 .. Len(Tools) : gate.checks[i].name = Tools[i]
              /\ gate.checks[Len(Tools) + 1].name = "aws_live_checks"
              /\ gate.checks[Len(Tools) + 1].state = "blocked"
              /\ \A i \in 1 .. Len(gate.checks) : i > Len(Tools) + 1 =>
                    gate.checks[i].name = "wave0_evidence_inventory"
          BY <2>2, ExpectedNames DEF Short
        <4>3. Len(Tools) + 1 \in 1 .. Len(gate.checks) /\ \A i \in 1 .. Len(Tools) : i \in 1 .. Len(gate.checks)
          BY <3>3, <4>2
        <4>4. Len(ks) > Len(Tools)
          BY <3>3, <4>2
        <4>5. QED
          BY <3>1, <3>3, <4>1, <4>2, <4>3, <4>4 DEF Short
      <3>5. QED
        BY <3>3, <3>4
    <2>3. QED
      BY <1>1, <2>1, <2>2
  <1>3. AggregateGate(ks) \in GateStatuses
    BY DEF AggregateGate, GateStatuses
  <1>4. /\ AggregateGate(ks) = "blocked_tooling" <=> ~PassIn(ks, ToolChecks)
        /\ AggregateGate(ks) = "blocked_region_service" => ~PassIn(ks, ServiceChecks)
    BY <1>2, StatusTells
  <1>5. Script(v)
    BY DEF BuildReport
  <1>6. ks \in Seq(CheckRecords)
    BY <1>2 DEF GoodChecks
  <1> HIDE DEF ks
  <1>7. /\ v \in GateRecords /\ v.phase = "decision" /\ v.checks = ks
        /\ v.status = AggregateGate(ks)
    BY <1>1, <1>3, <1>6 DEF GateRecords, GatePhases
  <1> HIDE DEF v
  <1>8. ScriptSound(v)
    BY <1>2, <1>4, <1>7 DEF ScriptSound, StatusRight, VerifyPhases, OidcPhases
  <1>9. QED
    BY <1>2, <1>5, <1>7, <1>8, ScriptMoves

\* A script that only goes to another phase.
LEMMA ProceedShape ==
    ASSUME gate \in GateRecords, NEW phase \in GatePhases
    PROVE  LET v == [gate EXCEPT !.phase = phase]
           IN  /\ v \in GateRecords /\ v.phase = phase /\ v.checks = gate.checks
               /\ v.status = gate.status /\ v.account = gate.account /\ v.attempt = gate.attempt
               /\ v.evidence = gate.evidence /\ v.proofs = gate.proofs /\ v.at = gate.at
  BY DEF GateRecords

\* The decision file is read, or the script ends.
LEMMA DecisionKeeps ==
    ASSUME GateInv, ReadIdentityDecision
    PROVE  GateInv'
  <1>1. /\ gate \in GateRecords /\ gate.phase = "decision" /\ GoodChecks(gate.checks)
        /\ Whole(gate.checks) \/ Short(gate.checks)
        /\ StatusRight(gate) /\ decided \in SUBSET Decisions
    BY DEF GateInv, IdentityKept, ScriptSound, ReadIdentityDecision
  <1>2. CASE Script(IdleGate)
    BY <1>2, StopsKeep
  <1>3. CASE Script([gate EXCEPT !.phase = "local", !.decision = decided])
    <2> DEFINE v == [gate EXCEPT !.phase = "local", !.decision = decided]
    <2>1. /\ v \in GateRecords /\ v.phase = "local" /\ v.checks = gate.checks
          /\ v.status = gate.status
      BY <1>1 DEF GateRecords, GatePhases
    <2>2. Script(v)
      BY <1>3
    <2> HIDE DEF v
    <2>3. ScriptSound(v)
      BY <1>1, <2>1 DEF ScriptSound, StatusRight, VerifyPhases, OidcPhases
    <2>4. QED
      BY <1>1, <2>1, <2>2, <2>3, ScriptMoves
  <1>4. QED
    BY <1>2, <1>3 DEF ReadIdentityDecision

\* The script with its final status.
Final(status, proven, proofs) ==
    [gate EXCEPT !.phase = "write", !.status = status, !.evidence = proven, !.proofs = proofs,
                 !.hashed = {}]

\* A final status that is right may be written.
LEMMA FinalKeeps ==
    ASSUME GateInv, NEW status \in GateStatuses, NEW proven \in SUBSET RunProofs,
           NEW ps \in SUBSET Probes, Finalised(status, proven, ps),
           status = "ready" =>
              /\ Exact(gate.checks) /\ \A i \in DOMAIN gate.checks : gate.checks[i].state = "pass"
              /\ \E e \in proven : Succeeded(e.attempt, gate.account)
              /\ ProofsAgree(ps, gate.at) /\ gate.decision = DecideIdentity(ps),
           status = "blocked_tooling" <=> ~PassIn(gate.checks, ToolChecks),
           status = "blocked_region_service" =>
              /\ ~PassIn(gate.checks, ServiceChecks) /\ PassIn(gate.checks, {"account"})
              /\ proven # {},
           status = "blocked_identity_compatibility" =>
              /\ \A i \in DOMAIN gate.checks : gate.checks[i].state = "pass"
              /\ proven # {},
           proven # {} => /\ gate.account # "none"
                            /\ PassIn(gate.checks, ToolChecks \cup {"account"})
    PROVE  GateInv'
  <1> DEFINE v == Final(status, proven, ps)
  <1>1. gate \in GateRecords /\ GoodChecks(gate.checks)
    BY DEF GateInv
  <1>2. /\ v \in GateRecords /\ v.phase = "write" /\ v.checks = gate.checks /\ v.status = status
        /\ v.account = gate.account /\ v.at = gate.at /\ v.evidence = proven /\ v.proofs = ps
        /\ v.decision = gate.decision
    BY <1>1 DEF Final, GateRecords, GatePhases
  <1>3. Script(v)
    BY DEF Finalised, Final
  <1> HIDE DEF v
  <1>4. ReportSound(v)
    <2>1. v.status = "ready" =>
             /\ Exact(v.checks) /\ \A i \in DOMAIN v.checks : v.checks[i].state = "pass"
             /\ \E e \in v.evidence : Succeeded(e.attempt, v.account)
             /\ ProofsAgree(v.proofs, v.at) /\ v.decision = DecideIdentity(v.proofs)
      BY <1>2
    <2>2. v.status = "blocked_tooling" <=> ~PassIn(v.checks, ToolChecks)
      BY <1>2
    <2>3. v.status = "blocked_region_service" =>
             /\ ~PassIn(v.checks, ServiceChecks) /\ PassIn(v.checks, {"account"}) /\ v.evidence # {}
      BY <1>2
    <2>4. v.status = "blocked_identity_compatibility" =>
             /\ \A i \in DOMAIN v.checks : v.checks[i].state = "pass"
             /\ v.evidence # {}
      BY <1>2
    <2>5. v.evidence # {} => v.account # "none" /\ PassIn(v.checks, ToolChecks \cup {"account"})
      BY <1>2
    <2>6. QED
      BY <2>1, <2>2, <2>3, <2>4, <2>5, Zenon DEF ReportSound
  <1>5. ScriptSound(v)
    BY <1>2, <1>4 DEF ScriptSound, VerifyPhases, OidcPhases
  <1>6. QED
    BY <1>1, <1>2, <1>3, <1>5, ScriptMoves

\* A group is final when each of its checks was made once and passed.
LEMMA GroupPasses ==
    ASSUME NEW group
    PROVE  FinalGroup(group) <=> ~GroupInvalid(gate.checks, group) /\ PassIn(gate.checks, group)
  BY DEF FinalGroup, Passed, PassIn

\* finalize_wave0_gate, the part it decides from the report alone.
LEMMA LocalKeeps ==
    ASSUME GateInv, FinalizeLocal
    PROVE  GateInv'
  <1> DEFINE ks == gate.checks
  <1>1. /\ gate \in GateRecords /\ gate.phase = "local" /\ GoodChecks(ks)
        /\ Whole(ks) \/ Short(ks)
        /\ StatusRight(gate) /\ ks \in Seq(CheckRecords)
    BY DEF GateInv, ScriptSound, FinalizeLocal, GoodChecks
  <1>2. ~GroupInvalid(ks, ToolChecks) /\ (Short(ks) => GroupInvalid(ks, {"account"}))
    BY <1>1, WholeIsExact, ShortIsNotExact DEF GroupInvalid, ExpectedChecks
  <1>3. FinalToolingValid <=> PassIn(ks, ToolChecks)
    BY <1>2, GroupPasses DEF FinalToolingValid
  <1>4. {} \in SUBSET RunProofs /\ {} \in SUBSET Probes
    OBVIOUS
  <1>5. CASE ~FinalToolingValid \/ gate.status = "blocked_tooling"
    <2>1. Finalised("blocked_tooling", {}, {})
      BY <1>5 DEF FinalizeLocal
    <2>2. ~PassIn(ks, ToolChecks)
      BY <1>1, <1>3, <1>5 DEF StatusRight
    <2>3. "blocked_tooling" \in GateStatuses
      BY DEF GateStatuses
    <2>4. QED
      BY <1>4, <2>1, <2>2, <2>3, FinalKeeps
  <1>6. CASE /\ ~(~FinalToolingValid \/ gate.status = "blocked_tooling")
             /\ ~FinalAccountsValid \/ gate.status = "blocked_account_access"
    <2>1. Finalised("blocked_account_access", {}, {})
      BY <1>6 DEF FinalizeLocal
    <2>2. PassIn(ks, ToolChecks)
      BY <1>3, <1>6
    <2>3. "blocked_account_access" \in GateStatuses
      BY DEF GateStatuses
    <2>4. QED
      BY <1>4, <2>1, <2>2, <2>3, FinalKeeps
  <1>7. CASE /\ ~(~FinalToolingValid \/ gate.status = "blocked_tooling")
             /\ ~(~FinalAccountsValid \/ gate.status = "blocked_account_access")
    <2> DEFINE v == [gate EXCEPT !.phase = "run"]
    <2>1. /\ FinalGroup({"account"}) /\ gate.account \in Accounts
      BY <1>7 DEF FinalAccountsValid
    <2>2. PassIn(ks, {"account"}) /\ ~GroupInvalid(ks, {"account"})
      BY <2>1, GroupPasses
    <2>3. Whole(ks) /\ PassIn(ks, ToolChecks \cup {"account"})
      BY <1>1, <1>2, <1>3, <1>7, <2>2 DEF PassIn
    <2>4. Script(v)
      BY <1>7 DEF FinalizeLocal, Proceed
    <2>5. /\ v \in GateRecords /\ v.phase = "run" /\ v.checks = ks /\ v.status = gate.status
          /\ v.account = gate.account
      BY <1>1, ProceedShape DEF GatePhases, VerifyPhases, OidcPhases
    <2> HIDE DEF v
    <2>6. ScriptSound(v)
      BY <1>1, <2>1, <2>3, <2>5 DEF ScriptSound, StatusRight, VerifyPhases, OidcPhases
    <2>7. QED
      BY <1>1, <2>4, <2>5, <2>6, ScriptMoves
  <1>8. QED
    BY <1>5, <1>6, <1>7

\* What the script knows while it verifies the run.
LEMMA Verifying ==
    ASSUME GateInv, gate.phase \in VerifyPhases
    PROVE  /\ gate \in GateRecords /\ GoodChecks(gate.checks) /\ Whole(gate.checks)
           /\ StatusRight(gate) /\ gate.account \in Accounts /\ gate.account # "none"
           /\ PassIn(gate.checks, ToolChecks \cup {"account"})
           /\ PassIn(gate.checks, ToolChecks) /\ PassIn(gate.checks, {"account"})
           /\ gate.checks \in Seq(CheckRecords)
  <1>1. /\ gate \in GateRecords /\ GoodChecks(gate.checks) /\ Whole(gate.checks)
        /\ StatusRight(gate) /\ gate.account \in Accounts
        /\ PassIn(gate.checks, ToolChecks \cup {"account"})
        /\ gate.checks \in Seq(CheckRecords)
    BY DEF GateInv, ScriptSound, GoodChecks
  <1>2. gate.account # "none"
    BY <1>1, GateAssumption
  <1>3. PassIn(gate.checks, ToolChecks) /\ PassIn(gate.checks, {"account"})
    BY <1>1 DEF PassIn
  <1>4. QED
    BY <1>1, <1>2, <1>3

\* _verify_oidc_run: the steps up to the account proof.
LEMMA OidcKeeps ==
    ASSUME GateInv, ReadRun \/ ReadWorkflow \/ ReadJobs \/ ReadSource \/ ListArtifacts
    PROVE  GateInv'
  <1>1. gate.phase \in OidcPhases \ {"download"} /\ gate.phase \in VerifyPhases
    BY DEF ReadRun, ReadWorkflow, ReadJobs, ReadSource, ListArtifacts, VerifyPhases, OidcPhases
  <1>2. ASSUME NEW v \in GateRecords, Script(v), v.checks = gate.checks, v.status = gate.status,
               v.account = gate.account, v.phase \in OidcPhases \ {"run"},
               v.attempt \in DOMAIN attempts /\ attempts[v.attempt].state = "success",
               v.phase \in {"artifacts", "download"} => commit.source = "pinned"
        PROVE  GateInv'
    <2>1. ScriptSound(v)
      BY <1>1, <1>2, Verifying DEF ScriptSound, StatusRight, VerifyPhases, OidcPhases
    <2>2. QED
      BY <1>1, <1>2, <2>1, Verifying, ScriptMoves
  <1>3. CASE ReadRun
    <2> DEFINE v == [gate EXCEPT !.phase = "workflow", !.attempt = Latest]
    <2>1. Latest \in Nat /\ Latest \in DOMAIN attempts /\ attempts[Latest].state = "success"
      BY <1>3 DEF ReadRun, GateInv, AttemptsKept, Latest
    <2>2. gate \in GateRecords
      BY DEF GateInv
    <2>3. /\ v \in GateRecords /\ v.phase = "workflow" /\ v.checks = gate.checks
          /\ v.status = gate.status /\ v.account = gate.account /\ v.attempt = Latest
      BY <2>1, <2>2 DEF GateRecords, GatePhases, VerifyPhases, OidcPhases
    <2>4. Script(v)
      BY <1>3 DEF ReadRun
    <2> HIDE DEF v
    <2>5. QED
      BY <1>2, <2>1, <2>3, <2>4 DEF OidcPhases
  <1>4. ASSUME NEW phase \in OidcPhases \ {"run"}, Proceed(phase), gate.phase # "run",
               phase \in {"artifacts", "download"} => commit.source = "pinned"
        PROVE  GateInv'
    <2> DEFINE v == [gate EXCEPT !.phase = phase]
    <2>1. gate \in GateRecords /\ phase \in GatePhases
      BY DEF GateInv, GatePhases, VerifyPhases
    <2>2. /\ v \in GateRecords /\ v.phase = phase /\ v.checks = gate.checks
          /\ v.status = gate.status /\ v.account = gate.account /\ v.attempt = gate.attempt
      BY <2>1, ProceedShape
    <2>3. gate.attempt \in DOMAIN attempts /\ attempts[gate.attempt].state = "success"
      BY <1>1, <1>4 DEF GateInv, ScriptSound
    <2>4. Script(v)
      BY <1>4 DEF Proceed
    <2> HIDE DEF v
    <2>5. QED
      BY <1>2, <1>4, <2>2, <2>3, <2>4
  <1>5. CASE ReadWorkflow
    BY <1>4, <1>5 DEF ReadWorkflow, OidcPhases
  <1>6. CASE ReadJobs
    BY <1>4, <1>6 DEF ReadJobs, OidcPhases
  <1>7. CASE ReadSource
    BY <1>4, <1>7 DEF ReadSource, OidcPhases
  <1>8. CASE ListArtifacts
    <2>1. commit.source = "pinned"
      BY <1>8 DEF ListArtifacts, GateInv, ScriptSound
    <2>2. QED
      BY <1>4, <1>8, <2>1 DEF ListArtifacts, OidcPhases
  <1>9. QED
    BY <1>3, <1>5, <1>6, <1>7, <1>8

\* A verification that ends early blocks the account.
LEMMA UnverifiedKeeps ==
    ASSUME GateInv, OidcUnverified
    PROVE  GateInv'
  <1>1. gate.phase \in VerifyPhases /\ Finalised("blocked_account_access", {}, {})
    BY DEF OidcUnverified, VerifyPhases
  <1>2. PassIn(gate.checks, ToolChecks)
    BY <1>1, Verifying
  <1>3. "blocked_account_access" \in GateStatuses /\ {} \in SUBSET RunProofs /\ {} \in SUBSET Probes
    BY DEF GateStatuses
  <1>4. QED
    BY <1>1, <1>2, <1>3, FinalKeeps

\* The account proof is of the attempt that was read, whose account it tells.
LEMMA DownloadKeeps ==
    ASSUME GateInv, DownloadAccountProof
    PROVE  GateInv'
  <1>1. gate.phase = "download" /\ gate.phase \in VerifyPhases
    BY DEF DownloadAccountProof, VerifyPhases, OidcPhases
  <1>2. PICK p \in Artifacts : /\ AccountProven(p)
                               /\ Script([gate EXCEPT !.phase = "region", !.evidence = {RunEvidence(p)}])
    BY DEF DownloadAccountProof
  <1>3. PICK n \in 1 .. Latest : p \in attempts[n].proof
    BY DEF Artifacts
  <1>4. /\ commit.source = "pinned" /\ n \in DOMAIN attempts
        /\ gate.attempt \in DOMAIN attempts /\ attempts[gate.attempt].state = "success"
    <2>1. n \in DOMAIN attempts
      BY DEF GateInv, AttemptsKept, Latest
    <2>2. QED
      BY <1>1, <2>1 DEF GateInv, ScriptSound
  <1>5. p.attempt = n /\ p.account = attempts[n].account
    BY <1>3, <1>4 DEF GateInv, AttemptsKept
  <1>6. Succeeded(gate.attempt, gate.account) /\ p.account = gate.account
    BY <1>2, <1>4, <1>5 DEF AccountProven, Succeeded
  <1> DEFINE e == [attempt |-> gate.attempt, account |-> gate.account]
             v == [gate EXCEPT !.phase = "region", !.evidence = {e}]
  <1>7. RunEvidence(p) = e
    BY <1>6 DEF RunEvidence
  <1>8. Script(v)
    BY <1>2, <1>7
  <1>9. e \in RunProofs
    BY <1>1, Verifying DEF RunProofs, GateRecords
  <1> HIDE DEF e
  <1>10. /\ v \in GateRecords /\ v.phase = "region" /\ v.checks = gate.checks
         /\ v.status = gate.status /\ v.account = gate.account /\ v.attempt = gate.attempt
         /\ v.evidence = {e}
    BY <1>1, <1>9, Verifying DEF GateRecords, GatePhases, VerifyPhases
  <1> HIDE DEF v
  <1>11. ScriptSound(v)
    BY <1>1, <1>4, <1>6, <1>10, Verifying DEF ScriptSound, StatusRight, VerifyPhases, OidcPhases, e
  <1>12. QED
    BY <1>1, <1>8, <1>10, <1>11, Verifying, ScriptMoves

\* What the script knows once the account is proven.
LEMMA Proven ==
    ASSUME GateInv, gate.phase \in {"region", "identity", "evidence", "stack"}
    PROVE  /\ gate.phase \in VerifyPhases /\ Succeeded(gate.attempt, gate.account)
           /\ gate.attempt \in DOMAIN attempts /\ attempts[gate.attempt].state = "success"
           /\ gate.evidence = {[attempt |-> gate.attempt, account |-> gate.account]}
           /\ gate.evidence # {} /\ gate.evidence \in SUBSET RunProofs
           /\ \E e \in gate.evidence : Succeeded(e.attempt, gate.account)
  <1>1. /\ gate.phase \in VerifyPhases /\ Succeeded(gate.attempt, gate.account)
        /\ gate.attempt \in DOMAIN attempts /\ attempts[gate.attempt].state = "success"
        /\ gate.evidence = {[attempt |-> gate.attempt, account |-> gate.account]}
        /\ gate.evidence \in SUBSET RunProofs
    BY DEF GateInv, ScriptSound, VerifyPhases, GateRecords, Succeeded
  <1>2. \E e \in gate.evidence : Succeeded(e.attempt, gate.account)
    BY <1>1
  <1>3. QED
    BY <1>1, <1>2

\* The services are decided from the report.
LEMMA RegionKeeps ==
    ASSUME GateInv, FinalizeRegion
    PROVE  GateInv'
  <1>1. gate.phase = "region" /\ gate.phase \in VerifyPhases
    BY DEF FinalizeRegion, VerifyPhases
  <1>2. ~GroupInvalid(gate.checks, ServiceChecks)
    BY <1>1, Verifying, WholeIsExact DEF GroupInvalid, ExpectedChecks
  <1>3. FinalRegionServicesValid <=> PassIn(gate.checks, ServiceChecks)
    BY <1>2, GroupPasses DEF FinalRegionServicesValid
  <1>4. CASE FinalRegionServicesValid /\ gate.status # "blocked_region_service"
    <2> DEFINE v == [gate EXCEPT !.phase = "identity", !.proofs = {}, !.hashed = {}]
    <2>1. gate \in GateRecords /\ "identity" \in GatePhases
      BY <1>1, Verifying DEF GatePhases, VerifyPhases
    <2>2. /\ v \in GateRecords /\ v.phase = "identity" /\ v.checks = gate.checks
          /\ v.status = gate.status /\ v.account = gate.account /\ v.attempt = gate.attempt
          /\ v.evidence = gate.evidence /\ v.proofs = {}
      BY <2>1 DEF GateRecords
    <2>3. Script(v)
      BY <1>4 DEF FinalizeRegion
    <2> HIDE DEF v
    <2>6. ProofsRead(v.proofs, v.at)
      BY <2>2, FS_EmptySet DEF ProofsRead
    <2>4. ScriptSound(v)
      BY <1>1, <1>3, <1>4, <2>2, <2>6, Verifying, Proven DEF ScriptSound, StatusRight, VerifyPhases, OidcPhases
    <2>5. QED
      BY <1>1, <2>2, <2>3, <2>4, Verifying, ScriptMoves
  <1>5. CASE ~(FinalRegionServicesValid /\ gate.status # "blocked_region_service")
    <2>1. Finalised("blocked_region_service", gate.evidence, {})
      BY <1>5 DEF FinalizeRegion
    <2>2. ~PassIn(gate.checks, ServiceChecks)
      BY <1>1, <1>3, <1>5, Verifying DEF StatusRight
    <2>3. "blocked_region_service" \in GateStatuses /\ {} \in SUBSET Probes
      BY DEF GateStatuses
    <2>4. QED
      BY <1>1, <2>1, <2>2, <2>3, Verifying, Proven, FinalKeeps
  <1>6. QED
    BY <1>4, <1>5

\* Behind the services every check of the report has passed.
LEMMA EverythingPassed ==
    ASSUME GateInv, gate.phase \in {"identity", "evidence", "stack"}
    PROVE  Exact(gate.checks) /\ \A i \in DOMAIN gate.checks : gate.checks[i].state = "pass"
  <1>1. gate.phase \in VerifyPhases /\ PassIn(gate.checks, ServiceChecks)
    BY DEF GateInv, ScriptSound, VerifyPhases
  <1>2. Exact(gate.checks)
    BY <1>1, Verifying, WholeIsExact
  <1>3. \A i \in DOMAIN gate.checks : gate.checks[i].name \in ExpectedChecks
    BY <1>2 DEF Exact
  <1>4. QED
    BY <1>1, <1>2, <1>3, Verifying DEF PassIn, ExpectedChecks

\* The proofs are read, and lead to the decision or do not; and the stack.
LEMMA IdentityGateKeeps ==
    ASSUME GateInv, \/ ReadProof \/ \E f \in RawFiles : HashEvidence(f)
                    \/ FinalizeIdentity \/ IdentityUnproven \/ \E absent \in BOOLEAN : CheckStack(absent)
    PROVE  GateInv'
  <1>1. gate.phase \in {"identity", "evidence", "stack"} /\ gate.phase \in VerifyPhases
    BY DEF ReadProof, HashEvidence, FinalizeIdentity, IdentityUnproven, CheckStack, VerifyPhases
  <1>2. "blocked_identity_compatibility" \in GateStatuses /\ "ready" \in GateStatuses
        /\ {} \in SUBSET Probes
    BY DEF GateStatuses
  <1>3. ASSUME NEW ps \in SUBSET Probes, Finalised("blocked_identity_compatibility", gate.evidence, ps)
        PROVE  GateInv'
    BY <1>1, <1>2, <1>3, Verifying, Proven, EverythingPassed, FinalKeeps
  <1>8. PassIn(gate.checks, ServiceChecks) /\ gate.proofs \in SUBSET Probes
    BY <1>1, Verifying DEF GateInv, ScriptSound, GateRecords
  <1>9. ASSUME gate.phase # "stack", NEW v \in GateRecords, Script(v), v.checks = gate.checks,
               v.phase \in {"identity", "evidence", "stack"}, v.status = gate.status,
               v.account = gate.account, v.attempt = gate.attempt, v.evidence = gate.evidence,
               v.phase \in {"identity", "evidence"} => ProofsRead(v.proofs, v.at),
               v.phase = "stack" => ProofsAgree(v.proofs, v.at) /\ v.decision = DecideIdentity(v.proofs)
        PROVE  GateInv'
    <2>1. ScriptSound(v)
      BY <1>1, <1>8, <1>9, Verifying, Proven DEF ScriptSound, StatusRight, VerifyPhases, OidcPhases
    <2>2. QED
      BY <1>1, <1>9, <2>1, Verifying, ScriptMoves
  <1>10. gate.phase \in {"identity", "evidence"} => ProofsRead(gate.proofs, gate.at)
    BY DEF GateInv, ScriptSound
  <1>4. CASE ReadProof
    <2>1. PICK p \in probeFiles :
             /\ \A q \in gate.proofs : q.host # p.host
             /\ ProofCurrent(p, gate.at)
             /\ Script([gate EXCEPT !.phase = "evidence", !.proofs = @ \cup {p}])
      BY <1>4 DEF ReadProof
    <2> DEFINE ps == gate.proofs \cup {p}
               v == [gate EXCEPT !.phase = "evidence", !.proofs = ps]
    <2>2. p \in Probes /\ IssuerFits(p)
      BY DEF GateInv, IdentityKept
    <2>3. ProofsRead(ps, gate.at)
      <3>1. ProofsRead(gate.proofs, gate.at)
        BY <1>4, <1>10 DEF ReadProof
      <3>2. IsFiniteSet(ps)
        BY <3>1, FS_AddElement DEF ProofsRead
      <3>3. QED
        BY <2>1, <2>2, <3>1, <3>2 DEF ProofsRead
    <2>4. ps \in SUBSET Probes /\ Script(v)
      BY <1>8, <2>1, <2>2
    <2> HIDE DEF ps
    <2>5. /\ v \in GateRecords /\ v.phase = "evidence" /\ v.checks = gate.checks
          /\ v.status = gate.status /\ v.account = gate.account /\ v.attempt = gate.attempt
          /\ v.evidence = gate.evidence /\ v.proofs = ps /\ v.at = gate.at
      BY <1>1, <2>4, Verifying DEF GateRecords, GatePhases, VerifyPhases
    <2>6. gate.phase # "stack"
      BY <1>4 DEF ReadProof
    <2> HIDE DEF v
    <2>7. QED
      BY <1>9, <2>3, <2>4, <2>5, <2>6
  <1>11. ASSUME NEW f \in RawFiles, HashEvidence(f)
         PROVE  GateInv'
    <2>1. PICK p \in gate.proofs :
             Script([gate EXCEPT !.phase = "identity",
                       !.hashed = @ \cup {[host |-> p.host, file |-> f]}])
      BY <1>11 DEF HashEvidence
    <2> DEFINE hashed == gate.hashed \cup {[host |-> p.host, file |-> f]}
               v == [gate EXCEPT !.phase = "identity", !.hashed = hashed]
    <2>2. gate \in GateRecords /\ p.host \in Hosts
      BY <1>1, <1>8, Verifying DEF Probes
    <2>3. hashed \in SUBSET [host : Hosts, file : RawFiles] /\ Script(v)
      BY <2>1, <2>2 DEF GateRecords
    <2> HIDE DEF hashed
    <2>4. /\ v \in GateRecords /\ v.phase = "identity" /\ v.checks = gate.checks
          /\ v.status = gate.status /\ v.account = gate.account /\ v.attempt = gate.attempt
          /\ v.evidence = gate.evidence /\ v.proofs = gate.proofs /\ v.at = gate.at
      BY <2>2, <2>3 DEF GateRecords, GatePhases, VerifyPhases
    <2>5. gate.phase = "evidence"
      BY <1>11 DEF HashEvidence
    <2> HIDE DEF v
    <2>6. QED
      BY <1>9, <1>10, <2>3, <2>4, <2>5
  <1>5. CASE FinalizeIdentity
    <2> DEFINE v == [gate EXCEPT !.phase = "stack", !.hashed = {}]
    <2>1. /\ gate.phase = "identity" /\ Script(v) /\ gate \in GateRecords
          /\ gate.decision # {} /\ DecideIdentity(gate.proofs) = gate.decision
      BY <1>1, <1>5, Verifying DEF FinalizeIdentity
    <2>2. ProofsAgree(gate.proofs, gate.at)
      BY <1>8, <1>10, <2>1, DecidedAgrees
    <2>3. /\ v \in GateRecords /\ v.phase = "stack" /\ v.checks = gate.checks
          /\ v.status = gate.status /\ v.account = gate.account /\ v.attempt = gate.attempt
          /\ v.evidence = gate.evidence /\ v.proofs = gate.proofs /\ v.at = gate.at
          /\ v.decision = gate.decision
      BY <2>1 DEF GateRecords, GatePhases, VerifyPhases
    <2> HIDE DEF v
    <2>4. QED
      BY <1>9, <2>1, <2>2, <2>3
  <1>12. CASE IdentityUnproven
    BY <1>2, <1>3, <1>12 DEF IdentityUnproven
  <1>6. ASSUME NEW absent \in BOOLEAN, CheckStack(absent)
        PROVE  GateInv'
    <2>1. gate.proofs \in SUBSET Probes /\ gate.phase = "stack" /\ ProofsAgree(gate.proofs, gate.at)
          /\ gate.decision = DecideIdentity(gate.proofs)
      BY <1>6 DEF CheckStack, GateInv, GateRecords, ScriptSound
    <2>2. CASE Finalised("ready", gate.evidence, gate.proofs)
      <3>1. /\ Exact(gate.checks) /\ \A i \in DOMAIN gate.checks : gate.checks[i].state = "pass"
            /\ PassIn(gate.checks, ToolChecks) /\ PassIn(gate.checks, ToolChecks \cup {"account"})
            /\ gate.account # "none"
        BY <1>1, Verifying, EverythingPassed
      <3>2. /\ \E e \in gate.evidence : Succeeded(e.attempt, gate.account)
            /\ gate.evidence \in SUBSET RunProofs
        BY <1>1, Proven
      <3> HIDE DEF GateInv
      <3>3. QED
        BY <1>2, <2>1, <2>2, <3>1, <3>2, FinalKeeps
    <2>3. QED
      BY <1>3, <1>6, <2>1, <2>2 DEF CheckStack
  <1>7. QED
    BY <1>4, <1>5, <1>6, <1>11, <1>12

\* write_readiness_report.
LEMMA WriteKeeps ==
    ASSUME GateInv, WriteReport
    PROVE  GateInv'
  <1>1. /\ gate.phase = "write" /\ gate' = IdleGate
        /\ gateFile' = {MachineReport} \/ gateFile' = gateFile
        /\ UNCHANGED <<identityVars, githubVars>>
    BY DEF WriteReport
  <1>2. ReportSound(gate)
    BY <1>1 DEF GateInv, ScriptSound
  <1>3. ReportSound(MachineReport)
    <2> DEFINE r == MachineReport
    <2>1. /\ r.status = gate.status /\ r.checks = gate.checks /\ r.account = gate.account
          /\ r.at = gate.at /\ r.evidence = gate.evidence /\ r.proofs = gate.proofs
          /\ r.decision = gate.decision
      BY DEF MachineReport
    <2> HIDE DEF r
    <2>2. ReportSound(r)
      BY <1>2, <2>1 DEF ReportSound
    <2>3. QED
      BY <2>2 DEF r
  <1>4. IdentityKept' /\ AttemptsKept'
    BY <1>1 DEF GateInv, IdentityKept, AttemptsKept, identityVars, decideVars, githubVars
  <1>5. \A n, a : Succeeded(n, a)' = Succeeded(n, a)
    BY <1>1 DEF Succeeded, githubVars
  <1>6. \A r : ReportSound(r)' = ReportSound(r)
    BY <1>5 DEF ReportSound
  <1>7. \A r \in gateFile' : ReportSound(r)'
    BY <1>1, <1>3, <1>6 DEF GateInv
  <1>8. gate' \in GateRecords /\ GoodChecks(gate'.checks) /\ ScriptSound(gate)'
    <2> DEFINE v == [IdleGate EXCEPT !.phase = "idle"]
    <2>1. v \in GateRecords /\ GoodChecks(v.checks) /\ v.phase = "idle"
      <3>1. v.phase = "idle"
        BY DEF IdleGate
      <3>2. QED
        BY <3>1, ScriptIdle
    <2>2. gate' = v
      BY <1>1 DEF IdleGate
    <2> HIDE DEF v
    <2>3. gate' \in GateRecords /\ GoodChecks(gate'.checks) /\ gate'.phase = "idle"
      BY <2>1, <2>2
    <2>4. QED
      BY <2>3 DEF ScriptSound, VerifyPhases, OidcPhases
  <1>9. QED
    BY <1>4, <1>7, <1>8 DEF GateInv

\* The invariant holds before the script starts.
LEMMA GateInitially == GateInit => GateInv
  <1> SUFFICES ASSUME GateInit PROVE GateInv
    OBVIOUS
  <1>1. IdentityKept
    BY FS_EmptySet DEF GateInit, IdentityInit, IdentityKept
  <1>2. AttemptsKept
    <2>1. FreshAttempt \in RunAttempts /\ FreshAttempt.proof = {}
      BY DEF GateInit, FreshAttempt, RunAttempts
    <2>2. attempts = <<FreshAttempt>>
      BY DEF GateInit
    <2>3. attempts \in Seq(RunAttempts) /\ attempts # <<>> /\ \A n \in DOMAIN attempts : attempts[n].proof = {}
      BY <2>1, <2>2
    <2>4. QED
      BY <2>3 DEF AttemptsKept, GateInit
  <1>3. gate \in GateRecords /\ GoodChecks(gate.checks) /\ ScriptSound(gate)
    <2> DEFINE v == [IdleGate EXCEPT !.phase = "idle"]
    <2>1. v \in GateRecords /\ GoodChecks(v.checks) /\ ScriptSound(v)
      BY ScriptIdle
    <2>2. gate = v
      BY DEF GateInit, IdleGate
    <2> HIDE DEF v
    <2>3. QED
      BY <2>1, <2>2
  <1>4. QED
    BY <1>1, <1>2, <1>3 DEF GateInv, GateInit

\* Every step keeps it.
LEMMA GateStep == GateInv /\ [GateNext]_gateVars => GateInv'
  <1> SUFFICES ASSUME GateInv, [GateNext]_gateVars PROVE GateInv'
    OBVIOUS
  <1>1. ASSUME IdentityKept', UNCHANGED <<githubVars, gate, gateFile>>
        PROVE  GateInv'
    <2>1. UNCHANGED <<commit, gate, gateFile>> /\ attempts' = attempts /\ role' = role
      BY <1>1 DEF githubVars
    <2>2. QED
      BY <1>1, <2>1, GithubMoves DEF GateInv, AttemptsKept
  <1>2. CASE UNCHANGED gateVars
    <2>1. IdentityKept' /\ UNCHANGED <<githubVars, gate, gateFile>>
      BY <1>2 DEF gateVars, identityVars, decideVars, GateInv, IdentityKept
    <2>2. QED
      BY <1>1, <2>1
  <1>3. CASE IdentityNext /\ UNCHANGED <<githubVars, gate, gateFile>>
    BY <1>1, <1>3, IdentityStep DEF GateInv
  <1>4. CASE \/ Rerun \/ Upload \/ RunConcludes \/ ChangeRole
             \/ \E n \in 1 .. Latest : ExpireArtifact(n)
    BY <1>4, GithubSteps
  <1>5. CASE \/ StartGate \/ Interrupt
             \/ \E supported \in [DOMAIN Tools -> BOOLEAN] : CheckLocalToolchain(supported)
             \/ \E profile \in ProfileSettings : CheckAwsAccounts(profile)
             \/ SkipLiveChecks
             \/ \E result \in {"ok", "throttled", "failed", "malformed", "lacking"} :
                   CheckRegionService(result)
    BY <1>5, StopsKeep, ToolchainKeeps, AccountKeeps, ServiceChecksKeep
  <1>6. CASE \/ BuildReport \/ ReadIdentityDecision \/ FinalizeLocal
             \/ ReadRun \/ ReadWorkflow \/ ReadJobs \/ ReadSource \/ ListArtifacts
             \/ DownloadAccountProof \/ OidcUnverified
    BY <1>6, ReportKeeps, DecisionKeeps, LocalKeeps, OidcKeeps, DownloadKeeps, UnverifiedKeeps
  <1>7. CASE \/ FinalizeRegion \/ ReadProof \/ \E f \in RawFiles : HashEvidence(f)
             \/ FinalizeIdentity \/ IdentityUnproven \/ \E absent \in BOOLEAN : CheckStack(absent)
             \/ WriteReport
    BY <1>7, RegionKeeps, IdentityGateKeeps, WriteKeeps
  <1>8. QED
    BY <1>2, <1>3, <1>4, <1>5, <1>6, <1>7 DEF GateNext

\* The script knows what its phase says, however the run is repeated, its role changed
\* and the evidence replaced between two commands.
THEOREM GateInvariant == GateSpec => []GateInv
  BY GateInitially, GateStep, PTL DEF GateSpec

\* A report that says ready rests on evidence that belongs together, and one that says
\* blocked names the first thing in the way.
THEOREM GateTheorem == GateSpec => []GateSound
  <1>1. GateInv => GateSound
    <2> SUFFICES ASSUME GateInv PROVE GateSound
      OBVIOUS
    <2>1. ReadyOnEvidence
      BY DEF GateInv, ReportSound, Succeeded, ProofsAgree, ReadyOnEvidence
    <2>2. \A r \in gateFile : \A group : AllPass(r, group) = PassIn(r.checks, group)
      BY DEF AllPass, PassIn
    <2>3. BlockedForCause
      BY <2>2 DEF GateInv, ReportSound, BlockedForCause
    <2>4. QED
      BY <2>1, <2>3 DEF GateSound
  <1>2. QED
    BY <1>1, GateInvariant, PTL
=============================================================================
