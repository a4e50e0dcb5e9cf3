----------------------------- MODULE RunProofs -----------------------------
(***************************************************************************)
(* Proofs about the qualification of a provider's actions, for any number  *)
(* of actions, fixtures, manifests, registries and processes, about        *)
(* running flows, of any length, depth and number of iterations, and about *)
(* reconciling any two sequences of rows.                                  *)
(***************************************************************************)
EXTENDS QualificationRun, FlowRun, Reconciliation, Integers, FiniteSetTheorems, SequenceTheorems,
        WellFoundedInduction, TLAPS

(* A nonempty set of numbers has a least one.                              *)
LEMMA LeastOne ==
    ASSUME NEW S, S \subseteq Nat, S # {}
    PROVE  Min(S) \in S /\ \A j \in S : Min(S) <= j
  <1> DEFINE R == OpToRel(<, Nat)
  <1>1. IsWellFoundedOn(R, Nat)
    BY NatLessThanWellFounded, Zenon
  <1>2. \A x, y \in Nat : x < y => <<x, y>> \in R
    BY DEF OpToRel
  <1> HIDE DEF R
  <1>3. PICK k \in S : \A y \in S : ~ (<<y, k>> \in R)
    BY <1>1, WFMin
  <1>4. \A j \in S : ~ (j < k)
    BY <1>2, <1>3
  <1>5. \A j \in S : k <= j
    BY <1>3, <1>4
  <1>6. QED
    BY <1>3, <1>5 DEF Min

\* The first N + 1 values of repeating a step G from a.
Steps(G, S) == G \in [S -> S]
Repetition(f, S, a, G, N) ==
    f \in [0 .. N -> S] /\ f[0] = a /\ \A n \in 1 .. N : f[n] = G[f[n - 1]]

(* A step can be repeated any number of times.                             *)
LEMMA Repeated ==
    ASSUME NEW S, NEW a, a \in S, NEW G, Steps(G, S), NEW N, N \in Nat
    PROVE  \E f : Repetition(f, S, a, G, N)
  <1> DEFINE Runs(n, f) == f[0] = a /\ \A i \in 1 .. n : f[i] = G[f[i - 1]]
             T == {n \in Nat : ~ \E f \in [0 .. n -> S] : Runs(n, f)}
  <1>0. G \in [S -> S]
    BY DEF Steps
  <1>1. ASSUME T = {} PROVE \E f : Repetition(f, S, a, G, N)
    <2>1. \E f \in [0 .. N -> S] : Runs(N, f)
      BY <1>1
    <2>2. \A f \in [0 .. N -> S] : Runs(N, f) => Repetition(f, S, a, G, N)
      BY DEF Repetition
    <2> QED
      <3> HIDE DEF Runs
      <3> QED
        BY <2>1, <2>2
  <1>2. SUFFICES ASSUME T # {} PROVE FALSE
    <2> HIDE DEF T
    <2> QED
      BY <1>1
  <1> DEFINE k == Min(T)
  <1>3. k \in T /\ \A j \in T : k <= j
    <2> T \subseteq Nat
      OBVIOUS
    <2> HIDE DEF T
    <2> QED
      BY <1>2, LeastOne
  <1> HIDE DEF k
  <1>4. k \in Nat /\ ~ \E f \in [0 .. k -> S] : Runs(k, f)
    BY <1>3
  <1>5. CASE k = 0
    <2> DEFINE f == [i \in 0 .. k |-> a]
    <2>1. f \in [0 .. k -> S] /\ Runs(k, f)
      BY <1>5
    <2> QED
      BY <1>4, <2>1
  <1>6. CASE k # 0
    <2>1. k - 1 \in Nat /\ k - 1 \notin T
      <3> HIDE DEF T
      <3> QED
        BY <1>3, <1>4, <1>6
    <2>2. PICK f \in [0 .. k - 1 -> S] : Runs(k - 1, f)
      BY <2>1
    <2> DEFINE g == [i \in 0 .. k |-> IF i = k THEN G[f[k - 1]] ELSE f[i]]
    <2>3. g \in [0 .. k -> S]
      BY <1>0, <1>4, <2>1, <2>2
    <2>4. Runs(k, g)
      <3>1. g[0] = a
        BY <1>4, <1>6, <2>2
      <3>2. ASSUME NEW i \in 1 .. k PROVE g[i] = G[g[i - 1]]
        <4>1. CASE i = k
          <5>1. g[k] = G[f[k - 1]] /\ g[k - 1] = f[k - 1]
            BY <1>4, <1>6
          <5> QED
            BY <4>1, <5>1
        <4>2. CASE i # k
          <5>1. i \in 1 .. k - 1 /\ i - 1 \in 0 .. k - 1
            BY <1>4, <4>2
          <5>2. g[i] = f[i] /\ g[i - 1] = f[i - 1]
            BY <1>4, <4>2, <5>1
          <5> QED
            BY <2>2, <5>1, <5>2
        <4> QED
          BY <4>1, <4>2
      <3> QED
        BY <3>1, <3>2
    <2> QED
      BY <1>4, <2>3, <2>4
  <1> QED
    BY <1>5, <1>6

(* An order that places each of its nodes once, after what comes before it. *)
Placed(s, nodes, before) ==
    /\ s \in Seq(nodes)
    /\ \A i, j \in DOMAIN s : s[i] = s[j] => i = j
    /\ \A i \in DOMAIN s : \A x \in before[s[i]] : \E j \in DOMAIN s : j < i /\ s[j] = x

(* stable_topological_sort places what it can in such an order.            *)
LEMMA SortedPlaced ==
    ASSUME NEW nodes, nodes \subseteq Nat, IsFiniteSet(nodes), NEW before
    PROVE  Placed(Sorted(nodes, before), nodes, before)
  <1> DEFINE C == Cardinality(nodes)
             ready(s) == {x \in nodes \ ToSet(s) : before[x] \subseteq ToSet(s)}
             next(s) == IF ready(s) = {} THEN s ELSE Append(s, Min(ready(s)))
             G == [s \in Seq(nodes) |-> next(s)]
             order[n \in 0 .. Cardinality(nodes)] ==
                 IF n = 0 THEN <<>>
                 ELSE LET placed == ToSet(order[n - 1])
                          ready_ == {x \in nodes \ placed : before[x] \subseteq placed}
                      IN IF ready_ = {} THEN order[n - 1] ELSE Append(order[n - 1], Min(ready_))
  <1>1. Sorted(nodes, before) = order[C]
    BY DEF Sorted
  <1>2. C \in Nat
    BY FS_CardinalityType
  <1>3. \A s \in Seq(nodes) : next(s) \in Seq(nodes)
    <2> SUFFICES ASSUME NEW s \in Seq(nodes), ready(s) # {} PROVE Min(ready(s)) \in nodes
      OBVIOUS
    <2>1. ready(s) \subseteq Nat /\ ready(s) \subseteq nodes
      OBVIOUS
    <2> HIDE DEF ready
    <2> QED
      BY <2>1, LeastOne
  <1>4. G \in [Seq(nodes) -> Seq(nodes)]
    BY <1>3
  <1>5. order = [n \in 0 .. C |-> IF n = 0 THEN <<>> ELSE next(order[n - 1])]
    <2>0. <<>> \in Seq(nodes)
      OBVIOUS
    <2>1. PICK f \in [0 .. C -> Seq(nodes)] : f[0] = <<>> /\ \A n \in 1 .. C : f[n] = G[f[n - 1]]
      <3> DEFINE Q == Seq(nodes)
      <3>1. Steps(G, Q) /\ <<>> \in Q
        BY <1>4, <2>0 DEF Steps
      <3>2. \E f : Repetition(f, Q, <<>>, G, C)
        <4> HIDE DEF G, C, order, next, ready, Q
        <4> QED
          BY <1>2, <3>1, Repeated
      <3> HIDE DEF G, C, order, next, ready
      <3> QED
        BY <3>2 DEF Repetition
    <2>2. \A n \in 1 .. C : f[n] = next(f[n - 1])
      <3> SUFFICES ASSUME NEW n \in 1 .. C PROVE f[n] = next(f[n - 1])
        OBVIOUS
      <3>1. n - 1 \in 0 .. C
        BY <1>2
      <3>2. f[n - 1] \in Seq(nodes)
        BY <3>1
      <3> HIDE DEF next, order
      <3> QED
        BY <2>1, <3>2
    <2>3. f = [n \in 0 .. C |-> IF n = 0 THEN <<>> ELSE next(f[n - 1])]
      <3> HIDE DEF next
      <3>1. \A n \in 0 .. C : n # 0 => n \in 1 .. C
        BY <1>2
      <3> QED
        BY <1>2, <2>1, <2>2, <3>1
    <2> QED
      BY <2>3, Zenon
  <1> HIDE DEF order
  <1>6. order[0] = <<>> /\ \A n \in 1 .. C : order[n] = next(order[n - 1])
    <2> HIDE DEF next, C
    <2>1. 0 \in 0 .. C /\ \A n \in 1 .. C : n \in 0 .. C /\ n # 0
      BY <1>2
    <2> QED
      BY <1>5, <2>1
  <1> DEFINE Good(s) == Placed(s, nodes, before)
             T == {n \in 0 .. C : ~ Good(order[n])}
  <1>7. Good(<<>>)
    BY DEF Placed
  <1>8. ASSUME NEW s, Good(s) PROVE Good(next(s))
    <2>0. s \in Seq(nodes)
      BY <1>8 DEF Placed
    <2>1. CASE ready(s) = {}
      BY <1>8, <2>1
    <2>2. CASE ready(s) # {}
      <3> DEFINE m == Min(ready(s))
                 t == Append(s, m)
      <3>1. m \in ready(s)
        <4> ready(s) \subseteq Nat
          OBVIOUS
        <4> HIDE DEF ready
        <4> QED
          BY <2>2, LeastOne
      <3> HIDE DEF m
      <3>2. m \in nodes /\ m \notin ToSet(s) /\ before[m] \subseteq ToSet(s)
        BY <3>1
      <3> HIDE DEF ready
      <3>3. /\ t \in Seq(nodes) /\ Len(t) = Len(s) + 1 /\ t[Len(s) + 1] = m
            /\ \A i \in DOMAIN s : t[i] = s[i]
            /\ DOMAIN t = 1 .. Len(s) + 1 /\ DOMAIN s = 1 .. Len(s) /\ Len(s) \in Nat
        BY <2>0, <3>2
      <3> HIDE DEF t
      <3>4. \A i, j \in DOMAIN t : t[i] = t[j] => i = j
        BY <1>8, <3>2, <3>3 DEF Placed, ToSet
      <3>5. ASSUME NEW i \in DOMAIN t, NEW x \in before[t[i]] PROVE \E j \in DOMAIN t : j < i /\ t[j] = x
        <4>1. CASE i = Len(s) + 1
          <5>1. PICK j \in DOMAIN s : s[j] = x
            BY <3>2, <3>3, <3>5, <4>1 DEF ToSet
          <5>2. j \in DOMAIN t /\ j < i /\ t[j] = x
            BY <3>3, <4>1, <5>1
          <5> QED
            BY <5>2
        <4>2. CASE i # Len(s) + 1
          <5>1. i \in DOMAIN s /\ t[i] = s[i]
            BY <3>3, <4>2
          <5>2. PICK j \in DOMAIN s : j < i /\ s[j] = x
            BY <1>8, <3>5, <5>1 DEF Placed
          <5>3. j \in DOMAIN t /\ j < i /\ t[j] = x
            BY <3>3, <5>2
          <5> QED
            BY <5>3
        <4> QED
          BY <4>1, <4>2
      <3>6. next(s) = t
        BY <2>2 DEF t, m
      <3>7. Placed(t, nodes, before)
        BY <3>3, <3>4, <3>5 DEF Placed
      <3> QED
        BY <3>6, <3>7
    <2> QED
      BY <2>1, <2>2
  <1>9. T = {}
    <2> SUFFICES ASSUME T # {} PROVE FALSE
      OBVIOUS
    <2> DEFINE k == Min(T)
    <2>1. k \in T /\ \A j \in T : k <= j
      <3> T \subseteq Nat
        OBVIOUS
      <3> HIDE DEF T
      <3> QED
        BY LeastOne
    <2> HIDE DEF k, next, Good, C
    <2>2. k \in 0 .. C /\ ~ Good(order[k])
      BY <2>1
    <2>3. k # 0
      BY <1>6, <1>7, <2>2
    <2>4. k - 1 \in 0 .. C /\ k \in 1 .. C /\ ~ (k <= k - 1)
      BY <1>2, <2>2, <2>3
    <2>5. k - 1 \notin T
      <3> HIDE DEF T
      <3> QED
        BY <2>1, <2>4
    <2>6. Good(order[k - 1])
      BY <2>4, <2>5
    <2> QED
      BY <1>6, <1>8, <2>2, <2>4, <2>6
  <1>10. QED
    <2>1. C \in 0 .. C
      BY <1>2
    <2> HIDE DEF C
    <2>2. Good(order[C])
      BY <1>9, <2>1
    <2> QED
      BY <1>1, <2>2

(* An order as long as there are nodes has them all.                       *)
LEMMA AcyclicPlacesAll ==
    ASSUME NEW nodes, nodes \subseteq Nat, IsFiniteSet(nodes), NEW before, Acyclic(nodes, before)
    PROVE  \A x \in nodes : \E i \in DOMAIN Sorted(nodes, before) : Sorted(nodes, before)[i] = x
  <1> DEFINE s == Sorted(nodes, before)
             D == 1 .. Len(s)
  <1>1. s \in Seq(nodes) /\ \A i, j \in DOMAIN s : s[i] = s[j] => i = j
    BY SortedPlaced DEF Placed
  <1>2. Len(s) = Cardinality(nodes)
    BY DEF Acyclic
  <1> HIDE DEF s
  <1>3. s \in [D -> nodes] /\ DOMAIN s = D /\ Len(s) \in Nat
    BY <1>1
  <1>4. s \in Injection(D, nodes)
    BY <1>1, <1>3 DEF Injection, IsInjective
  <1>5. Cardinality(D) = Len(s)
    <2>1. 1 \in Int /\ Len(s) \in Int
      BY <1>3
    <2>2. Cardinality(D) = IF 1 > Len(s) THEN 0 ELSE Len(s) - 1 + 1
      BY <2>1, FS_Interval
    <2> QED
      BY <1>3, <2>2
  <1>6. s \in Surjection(D, nodes)
    BY <1>2, <1>4, <1>5, FS_Injection
  <1> QED
    BY <1>3, <1>6 DEF Surjection, s

(***************************************************************************)
(* A qualification run.                                                    *)
(***************************************************************************)
RunnerLabels == {"new", "origin", "auth", "contracts", "actions", "attempt", "audit", "fill",
                 "cleanup", "clean", "cleanup_failed", "persist", "report", "failing", "done"}
FixtureMaps ==
    UNION {[F -> {"pending", "cleaned", "failed", "outcome_unknown"}] : F \in SUBSET Fixtures}
RunFiles == [state : {"none", "failed", "quarantined", "completed"}, fixtures : FixtureMaps]

RunFailures == {"none", "origin_invalid", "missing_credentials", "tenant_or_auth_failed",
                "contract_invalid", "request_budget_exhausted", "rate_limited", "outcome_unknown"}
RecordStates == Statuses \cup {"none", "contract_validated", "blocked", "blocked_credentials"}

RunnerSet ==
    [pc : RunnerLabels, dry : BOOLEAN, reads : BOOLEAN, store : {"none", "ephemeral", "file"},
     memory : RunFiles, granted : BOOLEAN, bound : BOOLEAN, claimed : SUBSET Fixtures,
     halted : BOOLEAN, failure : RunFailures, at : Nat \ {0}, attempt : Nat, wanted : Statuses \cup {"none"},
     reached : SUBSET Actions, records : [Actions -> RecordStates], answer : {"none", "failed", "quarantined", "completed", "raised"}]

ManifestSet == [disposition : [Actions -> Dispositions], prerequisites : [Actions -> SUBSET Actions]]
RegistrySet == UNION {[F -> SUBSET F] : F \in SUBSET Fixtures}

QualificationType ==
    /\ policy \in ManifestSet
    /\ depends \in RegistrySet
    /\ runDisk \in RunFiles
    /\ runner \in RunnerSet
    /\ transport \in [requests : Nat, mutations : Nat, exhausted : BOOLEAN, limited : BOOLEAN]
    /\ cleanups \in Seq(Fixtures)
    /\ dispatched \in [Actions -> Nat]
    /\ abandoned \in BOOLEAN
    /\ openings \in Nat

Known == {"live_success", "live_failed"}

\* Requests are sent in the order of the plan, at most one for each action.
SentInOrder ==
    /\ runner.pc \in {"new", "origin", "auth", "contracts"} =>
          runner.at = 1 /\ \A a \in Actions : dispatched[a] = 0
    /\ runner.pc \in {"attempt", "audit"} => runner.at \in DOMAIN ExecutionOrder
    /\ runner.pc \in {"actions", "attempt"} =>
          \A i \in DOMAIN ExecutionOrder : i >= runner.at => dispatched[ExecutionOrder[i]] = 0
    /\ runner.pc = "audit" =>
          /\ runner.wanted \in Statuses
          /\ \A i \in DOMAIN ExecutionOrder : i > runner.at => dispatched[ExecutionOrder[i]] = 0
    /\ \A a \in Actions : dispatched[a] <= 1

\* Unless the run was stopped, what was sent has its outcome on record or is about to.
OutcomesRecorded ==
    /\ runner.pc \notin {"failing", "done"} /\ runner.failure = "none" =>
          \A a \in Actions : dispatched[a] > 0 =>
              \/ runner.records[a] \in Known
              \/ runner.pc = "audit" /\ a = ExecutionOrder[runner.at]
    /\ runner.pc \in {"cleanup", "clean", "cleanup_failed", "persist"} => runner.failure = "none"
    /\ runner.pc \in {"cleanup", "clean", "cleanup_failed", "persist", "report"} =>
          \A a \in Actions : runner.records[a] # "none"

\* The process knows its file as long as it trusts it.
FileKnown ==
    /\ runner.store = "none" => runner.pc \in {"new", "failing", "done"}
    /\ runner.pc = "new" => runner.store = "none"
    /\ runner.store = "ephemeral" <=> runner.dry /\ runner.pc # "new"
    /\ runner.pc \in {"origin", "auth", "actions", "attempt", "audit", "cleanup", "clean", "cleanup_failed"} => ~runner.dry
    /\ runner.dry => runDisk = NoRunFile /\ ~abandoned /\ transport.requests = 0
    /\ runner.store = "file" /\ runner.pc \notin {"cleanup_failed", "failing", "done"} => runDisk = runner.memory
    /\ runner.pc = "cleanup_failed" => runner.memory.state = "failed"
    /\ runner.store = "file" /\ runner.memory.state = "quarantined" => runDisk.state = "quarantined"
    /\ abandoned => \/ runDisk.state = "quarantined"
                    \/ runDisk.state = "failed" /\ runner.store = "none"

\* The fixtures are cleaned in the order of the coordinator.
CleanedInOrder ==
    /\ Len(cleanups) <= Len(CleanupOrder)
    /\ \A i \in DOMAIN cleanups : cleanups[i] = CleanupOrder[i]
    /\ cleanups # <<>> => Acyclic(DOMAIN depends, depends)
    /\ runner.pc \notin {"clean", "cleanup_failed", "persist", "report", "failing", "done"} =>
          cleanups = <<>> /\ runner.claimed = {}
    /\ runner.pc = "clean" =>
          /\ runner.memory.state = "failed"
          /\ Acyclic(DOMAIN depends, depends)
          /\ runner.claimed = {cleanups[i] : i \in DOMAIN cleanups}
          /\ \A f \in DOMAIN depends :
                runner.memory.fixtures[f] = IF f \in runner.claimed THEN "cleaned" ELSE "pending"
    /\ runner.pc \in {"clean", "persist"} /\ runner.store = "file" /\ runner.memory.state = "failed" =>
          DOMAIN depends \subseteq DOMAIN runner.memory.fixtures

\* Only a process that is through has answered, and only one that completed may publish.
AnswersEarned ==
    /\ runner.pc # "done" => runner.answer = "none"
    /\ runner.answer = "completed" => \A a \in Actions : runner.records[a] # "none"
    /\ runner.answer = "quarantined" /\ runner.store = "file" => runDisk.state = "quarantined"
    /\ runner.granted =>
          /\ runner.pc = "done" /\ runner.answer = "completed"
          /\ runner.store = "file" =>
                /\ runDisk.state = "completed"
                /\ \A f \in DOMAIN depends : runDisk.fixtures[f] = "cleaned"
                /\ \A a \in Actions : dispatched[a] > 0 => runner.records[a] \in Known

QualificationInv ==
    /\ QualificationType
    /\ SentInOrder
    /\ OutcomesRecorded
    /\ FileKnown
    /\ CleanedInOrder
    /\ AnswersEarned
-----------------------------------------------------------------------------

(* The plan names actions, each once; manifest and registry are given.     *)
LEMMA PlanPlaced ==
    ASSUME QualificationType
    PROVE  /\ ExecutionOrder \in Seq(Actions)
           /\ \A i, j \in DOMAIN ExecutionOrder : ExecutionOrder[i] = ExecutionOrder[j] => i = j
  BY QualificationAssumption, SortedPlaced DEF Placed, ExecutionOrder, QualificationType

(* The orders are those of the manifest and the registry.                  *)
LEMMA OrdersStay ==
    ASSUME policy' = policy, depends' = depends
    PROVE  /\ ExecutionOrder' = ExecutionOrder /\ CleanupOrder' = CleanupOrder
           /\ Acyclic(DOMAIN depends, depends)' = Acyclic(DOMAIN depends, depends)
  BY DEF ExecutionOrder, CleanupOrder, Acyclic

(* No fixture at all is a map of fixtures.                                 *)
LEMMA EmptyMap == <<>> \in FixtureMaps
  <1>1. <<>> \in [{} -> {"pending", "cleaned", "failed", "outcome_unknown"}]
    OBVIOUS
  <1>2. {} \in SUBSET Fixtures
    OBVIOUS
  <1> QED
    BY <1>1, <1>2 DEF FixtureMaps

(* No file and a new file are records of a run.                            *)
LEMMA NewFiles == NoRunFile \in RunFiles /\ NewRun \in RunFiles
  BY EmptyMap DEF RunFiles, NoRunFile, NewRun

(* The coordinator goes through registered fixtures, each once.            *)
LEMMA CleanupPlaced ==
    ASSUME QualificationType
    PROVE  /\ CleanupOrder \in Seq(DOMAIN depends)
           /\ DOMAIN depends \subseteq Fixtures
           /\ \A i, j \in DOMAIN CleanupOrder : CleanupOrder[i] = CleanupOrder[j] => i = j
           /\ \A i \in DOMAIN CleanupOrder : \A x \in depends[CleanupOrder[i]] :
                 \E j \in DOMAIN CleanupOrder : i < j /\ CleanupOrder[j] = x
           /\ Acyclic(DOMAIN depends, depends) =>
                 \A f \in DOMAIN depends : \E i \in DOMAIN CleanupOrder : CleanupOrder[i] = f
  <1> DEFINE N == DOMAIN depends
             s == Sorted(N, depends)
             n == Len(s)
  <1>1. N \subseteq Fixtures
    BY DEF QualificationType, RegistrySet
  <1>2. N \subseteq Nat /\ IsFiniteSet(N)
    BY <1>1, QualificationAssumption, FS_Subset
  <1>3. Placed(s, N, depends)
    BY <1>2, SortedPlaced
  <1>4. Acyclic(N, depends) => \A f \in N : \E i \in DOMAIN s : s[i] = f
    BY <1>2, AcyclicPlacesAll
  <1>5. CleanupOrder = [i \in 1 .. n |-> s[(n - i) + 1]]
    BY DEF CleanupOrder, Reverse
  <1> HIDE DEF s, N
  <1>6. /\ s \in Seq(N) /\ n \in Nat /\ DOMAIN s = 1 .. n
        /\ \A i, j \in DOMAIN s : s[i] = s[j] => i = j
        /\ \A i \in DOMAIN s : \A x \in depends[s[i]] : \E j \in DOMAIN s : j < i /\ s[j] = x
    BY <1>3 DEF Placed
  <1> HIDE DEF n
  <1>7. \A i \in 1 .. n : (n - i) + 1 \in 1 .. n /\ (n - ((n - i) + 1)) + 1 = i
    BY <1>6
  <1>8. DOMAIN CleanupOrder = 1 .. n /\ \A i \in 1 .. n : CleanupOrder[i] = s[(n - i) + 1]
    BY <1>5
  <1>9. \A i \in 1 .. n : s[i] = CleanupOrder[(n - i) + 1]
    BY <1>7, <1>8
  <1>10. CleanupOrder \in Seq(N)
    BY <1>5, <1>6, <1>7
  <1>11. \A i, j \in DOMAIN CleanupOrder : CleanupOrder[i] = CleanupOrder[j] => i = j
    BY <1>6, <1>7, <1>8
  <1>12. ASSUME NEW i \in DOMAIN CleanupOrder, NEW x \in depends[CleanupOrder[i]]
         PROVE  \E j \in DOMAIN CleanupOrder : i < j /\ CleanupOrder[j] = x
    <2>1. PICK k \in 1 .. n : k < (n - i) + 1 /\ s[k] = x
      BY <1>6, <1>7, <1>8
    <2>2. (n - k) + 1 \in 1 .. n /\ i < (n - k) + 1
      BY <1>6, <1>8, <2>1
    <2> QED
      BY <1>8, <1>9, <2>1, <2>2
  <1>13. ASSUME Acyclic(N, depends), NEW f \in N
         PROVE  \E i \in DOMAIN CleanupOrder : CleanupOrder[i] = f
    <2>1. PICK i \in 1 .. n : s[i] = f
      BY <1>4, <1>6, <1>13
    <2> QED
      BY <1>7, <1>8, <1>9, <2>1
  <1> QED
    BY <1>1, <1>10, <1>11, <1>12, <1>13 DEF N

(* The first process starts with nothing sent, written or cleaned.         *)
LEMMA QualificationStarts == QualificationInit => QualificationInv
  <1> SUFFICES ASSUME QualificationInit PROVE QualificationInv
    OBVIOUS
  <1> USE DEF QualificationInit
  <1>1. NewRunner \in RunnerSet
    BY NewFiles DEF NewRunner, RunnerSet, RunnerLabels, RunFailures, RecordStates
  <1>2. PICK d, r \in BOOLEAN : runner = [NewRunner EXCEPT !.dry = d, !.reads = r]
    OBVIOUS
  <1>3. QualificationType
    <2>1. runner \in RunnerSet
      BY <1>1, <1>2 DEF RunnerSet
    <2>2. policy \in ManifestSet /\ depends \in RegistrySet
      BY QualificationAssumption DEF ManifestSet, RegistrySet
    <2>3. transport \in [requests : Nat, mutations : Nat, exhausted : BOOLEAN, limited : BOOLEAN]
      BY DEF FreshTransport
    <2>4. cleanups \in Seq(Fixtures) /\ dispatched \in [Actions -> Nat] /\ openings \in Nat
      OBVIOUS
    <2>5. runDisk \in RunFiles /\ abandoned \in BOOLEAN
      BY NewFiles
    <2> HIDE DEF QualificationInit
    <2> QED
      BY <2>1, <2>2, <2>3, <2>4, <2>5 DEF QualificationType
  <1>4. /\ runner.pc = "new" /\ runner.at = 1 /\ runner.store = "none" /\ runner.claimed = {}
        /\ runner.granted = FALSE /\ runner.answer = "none" /\ runner.memory.state = "none"
    BY <1>2 DEF NewRunner, NoRunFile
  <1>5. SentInOrder
    BY <1>4 DEF SentInOrder
  <1>6. OutcomesRecorded
    BY <1>4 DEF OutcomesRecorded
  <1>7. FileKnown
    BY <1>4 DEF FileKnown, FreshTransport
  <1>8. CleanedInOrder
    <2>1. Len(CleanupOrder) \in Nat
      BY <1>3, CleanupPlaced
    <2> QED
      BY <1>4, <2>1 DEF CleanedInOrder
  <1>9. AnswersEarned
    BY <1>4 DEF AnswersEarned
  <1> QED
    BY <1>3, <1>5, <1>6, <1>7, <1>8, <1>9 DEF QualificationInv

(* The origin and the credentials are looked at before anything is sent.   *)
LEMMA PreflightKeeps ==
    ASSUME QualificationInv, NEW failure \in PreflightFailures, Preflight(failure)
    PROVE  QualificationInv'
  <1> USE DEF QualificationInv, Preflight, PreflightFailures
  <1>0. QualificationType /\ runner \in RunnerSet
    BY DEF QualificationType
  <1>1. QualificationType'
    <2>1. runner' \in RunnerSet
      <3> USE DEF RunnerSet
      <3> HIDE DEF QualificationInv
      <3>1. {"auth", "fill"} \subseteq RunnerLabels /\ PreflightFailures \subseteq RunFailures
        BY DEF RunnerLabels, RunFailures
      <3>2. CASE failure = "none"
        BY <1>0, <3>1, <3>2
      <3>3. CASE failure # "none"
        BY <1>0, <3>1, <3>3
      <3> QED
        BY <3>2, <3>3
    <2> QED
      BY <1>0, <2>1 DEF QualificationType
  <1>2. SentInOrder'
    BY <1>0, OrdersStay, PlanPlaced DEF SentInOrder, RunnerSet, QualificationType
  <1>3. OutcomesRecorded'
    BY <1>0, OrdersStay, PlanPlaced DEF OutcomesRecorded, SentInOrder, RunnerSet, Known, QualificationType, Statuses
  <1>4. FileKnown'
    BY <1>0 DEF FileKnown, RunnerSet, QualificationType
  <1>5. CleanedInOrder'
    BY <1>0, OrdersStay DEF CleanedInOrder, RunnerSet
  <1>6. AnswersEarned'
    BY <1>0 DEF AnswersEarned, OutcomesRecorded, RunnerSet
  <1> QED
    BY <1>1, <1>2, <1>3, <1>4, <1>5, <1>6

(* The token and the probe are no action's requests.                       *)
LEMMA AuthenticateKeeps ==
    ASSUME QualificationInv, NEW sent \in 0 .. 2, NEW verified \in BOOLEAN, Authenticate(sent, verified)
    PROVE  QualificationInv'
  <1> USE DEF QualificationInv, Authenticate
  <1>0. QualificationType /\ runner \in RunnerSet
    BY DEF QualificationType
  <1>1. QualificationType'
    <2>1. runner' \in RunnerSet
      <3> HIDE DEF QualificationInv
      <3> QED
        BY <1>0 DEF RunnerSet, RunnerLabels, RunFailures, RecordStates, Statuses
    <2> QED
      BY <1>0, <2>1 DEF QualificationType
  <1>2. SentInOrder'
    BY <1>0, OrdersStay, PlanPlaced DEF SentInOrder, RunnerSet, QualificationType
  <1>3. OutcomesRecorded'
    BY <1>0, OrdersStay, PlanPlaced DEF OutcomesRecorded, SentInOrder, RunnerSet, Known, QualificationType, Statuses
  <1>4. FileKnown'
    BY <1>0 DEF FileKnown, RunnerSet, QualificationType
  <1>5. CleanedInOrder'
    BY <1>0, OrdersStay DEF CleanedInOrder, RunnerSet
  <1>6. AnswersEarned'
    BY <1>0 DEF AnswersEarned, OutcomesRecorded, RunnerSet
  <1> QED
    BY <1>1, <1>2, <1>3, <1>4, <1>5, <1>6

(* The plan is read once, before its first action.                         *)
LEMMA LoadContractsKeeps ==
    ASSUME QualificationInv, NEW readable \in BOOLEAN, LoadContracts(readable)
    PROVE  QualificationInv'
  <1> USE DEF QualificationInv, LoadContracts
  <1>0. QualificationType /\ runner \in RunnerSet
    BY DEF QualificationType
  <1>1. QualificationType'
    <2>1. runner' \in RunnerSet
      <3>1. \/ \E label \in {"fill", "actions"} : runner' = [runner EXCEPT !.pc = label]
            \/ runner' = [runner EXCEPT !.pc = "fill", !.failure = "contract_invalid"]
        OBVIOUS
      <3> QED
        BY <1>0, <3>1 DEF RunnerSet, RunnerLabels, RunFailures
    <2> QED
      BY <1>0, <2>1 DEF QualificationType
  <1>2. SentInOrder'
    BY <1>0, OrdersStay, PlanPlaced DEF SentInOrder, RunnerSet, QualificationType
  <1>3. OutcomesRecorded'
    BY <1>0, OrdersStay, PlanPlaced DEF OutcomesRecorded, SentInOrder, RunnerSet, Known, QualificationType, Statuses
  <1>4. FileKnown'
    BY <1>0 DEF FileKnown, RunnerSet, QualificationType
  <1>5. CleanedInOrder'
    BY <1>0, OrdersStay DEF CleanedInOrder, RunnerSet
  <1>6. AnswersEarned'
    BY <1>0 DEF AnswersEarned, OutcomesRecorded, RunnerSet
  <1> QED
    BY <1>1, <1>2, <1>3, <1>4, <1>5, <1>6

\* The action at hand got its record and the next one is looked at.
MovedOn(r, status, failure) ==
    /\ r \in RunnerSet
    /\ r.pc = "actions" /\ r.at = runner.at + 1
    /\ r.records[Current] = status
    /\ \A a \in Actions : a # Current => r.records[a] = runner.records[a]
    /\ r.failure = failure /\ r.store = runner.store /\ r.dry = runner.dry
    /\ r.memory = runner.memory /\ r.claimed = runner.claimed
    /\ r.granted = runner.granted /\ r.answer = runner.answer /\ r.bound = runner.bound

(* The record of an action leaves the others alone.                        *)
LEMMA RecordedMovesOn ==
    ASSUME runner \in RunnerSet, ExecutionOrder \in Seq(Actions), runner.at \in DOMAIN ExecutionOrder,
           NEW status \in RecordStates, NEW failure \in RunFailures
    PROVE  /\ MovedOn(Recorded(runner, status), status, runner.failure)
           /\ MovedOn([Recorded(runner, status) EXCEPT !.failure = failure], status, failure)
  <1> DEFINE q == [runner.records EXCEPT ![Current] = status]
             r == [runner EXCEPT !.records = q, !.at = runner.at + 1, !.attempt = 0, !.pc = "actions"]
             t == [r EXCEPT !.failure = failure]
  <1>1. Current \in Actions
    BY DEF Current
  <1>2. Recorded(runner, status) = r
    BY DEF Recorded, RunnerSet
  <1>3. q \in [Actions -> RecordStates] /\ q[Current] = status
        /\ \A a \in Actions : a # Current => q[a] = runner.records[a]
    BY <1>1 DEF RunnerSet
  <1> HIDE DEF q
  <1>4. r \in RunnerSet
    <2>1. runner.at + 1 \in Nat \ {0} /\ 0 \in Nat
      BY DEF RunnerSet
    <2> QED
      BY <1>3, <2>1 DEF RunnerSet, RunnerLabels
  <1>5. /\ r.pc = "actions" /\ r.at = runner.at + 1 /\ r.records = q
        /\ r.failure = runner.failure /\ r.store = runner.store /\ r.dry = runner.dry
        /\ r.memory = runner.memory /\ r.claimed = runner.claimed
        /\ r.granted = runner.granted /\ r.answer = runner.answer /\ r.bound = runner.bound
    BY DEF RunnerSet
  <1> HIDE DEF r
  <1>6. t \in RunnerSet
    BY <1>4 DEF RunnerSet
  <1>7. /\ t.pc = r.pc /\ t.at = r.at /\ t.records = r.records
        /\ t.failure = failure /\ t.store = r.store /\ t.dry = r.dry
        /\ t.memory = r.memory /\ t.claimed = r.claimed
        /\ t.granted = r.granted /\ t.answer = r.answer /\ t.bound = r.bound
    BY <1>4 DEF RunnerSet
  <1> HIDE DEF t
  <1>8. MovedOn(r, status, runner.failure)
    BY <1>3, <1>4, <1>5 DEF MovedOn
  <1>9. MovedOn(t, status, failure)
    BY <1>3, <1>5, <1>6, <1>7 DEF MovedOn
  <1> QED
    BY <1>2, <1>8, <1>9 DEF t

(* The run moves on when the action at hand has its record.                *)
LEMMA MovingOnKeeps ==
    ASSUME QualificationInv, runner.pc \in {"actions", "attempt", "audit"},
           runner.at \in DOMAIN ExecutionOrder, NEW status, NEW failure,
           MovedOn(runner', status, failure),
           failure = "none" => runner.failure = "none" /\ (runner.pc = "audit" => status \in Known),
           UNCHANGED <<policy, depends, runDisk, cleanups, dispatched, abandoned, openings>>,
           transport' \in [requests : Nat, mutations : Nat, exhausted : BOOLEAN, limited : BOOLEAN]
    PROVE  QualificationInv'
  <1> USE DEF QualificationInv, MovedOn
  <1>0. /\ QualificationType /\ runner \in RunnerSet /\ ExecutionOrder' = ExecutionOrder
        /\ CleanupOrder' = CleanupOrder
    BY OrdersStay DEF QualificationType
  <1>1. QualificationType'
    BY DEF QualificationType
  <1>p. /\ ExecutionOrder \in Seq(Actions) /\ Current = ExecutionOrder[runner.at] /\ Current \in Actions
        /\ \A i, j \in DOMAIN ExecutionOrder : ExecutionOrder[i] = ExecutionOrder[j] => i = j
        /\ runner.at \in Nat
    BY <1>0, PlanPlaced DEF Current
  <1>2. SentInOrder'
    BY <1>0, <1>p DEF SentInOrder
  <1>3. OutcomesRecorded'
    <2> SUFFICES ASSUME failure = "none", NEW a \in Actions, dispatched[a] > 0
                 PROVE  runner'.records[a] \in Known
      BY DEF OutcomesRecorded
    <2>1. CASE a = Current
      <3>1. runner.pc = "audit"
        BY <1>p, <2>1 DEF SentInOrder
      <3> QED
        BY <2>1, <3>1
    <2>2. CASE a # Current
      BY <1>p, <2>2 DEF OutcomesRecorded
    <2> QED
      BY <2>1, <2>2
  <1>4. FileKnown'
    BY <1>0 DEF FileKnown
  <1>5. CleanedInOrder'
    BY <1>0, OrdersStay DEF CleanedInOrder
  <1>6. AnswersEarned'
    BY <1>0 DEF AnswersEarned
  <1> QED
    BY <1>1, <1>2, <1>3, <1>4, <1>5, <1>6

(* An action is either recorded at once or about to be sent.               *)
LEMMA NextActionKeeps ==
    ASSUME QualificationInv, NextAction
    PROVE  QualificationInv'
  <1> USE DEF QualificationInv
  <1>0. /\ QualificationType /\ runner \in RunnerSet /\ runner.failure \in RunFailures
        /\ transport \in [requests : Nat, mutations : Nat, exhausted : BOOLEAN, limited : BOOLEAN]
    BY DEF QualificationType, RunnerSet
  <1>1. ExecutionOrder \in Seq(Actions)
    BY <1>0, PlanPlaced
  <1>2. runner.at \in DOMAIN ExecutionOrder
    BY <1>0, <1>1 DEF NextAction, RunnerSet
  <1>3. ASSUME NEW status \in {"contract_validated", "blocked"}, runner' = Recorded(runner, status)
        PROVE  QualificationInv'
    <2>1. status \in RecordStates
      BY <1>3 DEF RecordStates
    <2>2. MovedOn(runner', status, runner.failure)
      BY <1>0, <1>1, <1>2, <1>3, <2>1, RecordedMovesOn
    <2> QED
      BY <1>0, <1>2, <2>2, MovingOnKeeps DEF NextAction
  <1>4. CASE runner' = [runner EXCEPT !.pc = "attempt"]
    <2> USE <1>0, <1>4
    <2>1. runner' \in RunnerSet
      BY DEF RunnerSet, RunnerLabels
    <2>2. QualificationType'
      BY <2>1 DEF QualificationType, NextAction
    <2>3. SentInOrder'
      BY <1>1, <1>2, OrdersStay DEF SentInOrder, RunnerSet, NextAction
    <2>4. OutcomesRecorded'
      BY OrdersStay DEF OutcomesRecorded, RunnerSet, NextAction
    <2>5. FileKnown' /\ AnswersEarned'
      BY DEF FileKnown, AnswersEarned, RunnerSet, NextAction
    <2>6. CleanedInOrder'
      BY OrdersStay DEF CleanedInOrder, RunnerSet, NextAction
    <2> QED
      BY <2>2, <2>3, <2>4, <2>5, <2>6
  <1> QED
    BY <1>3, <1>4 DEF NextAction, PolicyStatus

(* The plan is through: every read sent has its outcome.                   *)
LEMMA ActionsDoneKeeps ==
    ASSUME QualificationInv, ActionsDone
    PROVE  QualificationInv'
  <1> USE DEF QualificationInv, ActionsDone
  <1>0. QualificationType /\ runner \in RunnerSet
    BY DEF QualificationType
  <1>1. QualificationType'
    <2>1. runner' \in RunnerSet
      <3> HIDE DEF QualificationInv
      <3> QED
        BY <1>0 DEF RunnerSet, RunnerLabels, RunFailures, RecordStates, Statuses
    <2> QED
      BY <1>0, <2>1 DEF QualificationType
  <1>2. SentInOrder'
    BY <1>0, OrdersStay, PlanPlaced DEF SentInOrder, RunnerSet, QualificationType
  <1>3. OutcomesRecorded'
    BY <1>0, OrdersStay, PlanPlaced DEF OutcomesRecorded, SentInOrder, RunnerSet, Known, QualificationType, Statuses
  <1>4. FileKnown'
    BY <1>0 DEF FileKnown, RunnerSet, QualificationType
  <1>5. CleanedInOrder'
    BY <1>0, OrdersStay DEF CleanedInOrder, RunnerSet
  <1>6. AnswersEarned'
    BY <1>0 DEF AnswersEarned, OutcomesRecorded, RunnerSet
  <1> QED
    BY <1>1, <1>2, <1>3, <1>4, <1>5, <1>6

(* What was not sent may be tried again.                                   *)
LEMMA NotSentKeeps ==
    ASSUME QualificationInv, NotSent
    PROVE  QualificationInv'
  <1> USE DEF QualificationInv, NotSent
  <1>0. QualificationType /\ runner \in RunnerSet
    BY DEF QualificationType
  <1>1. QualificationType'
    <2>1. runner' \in RunnerSet
      <3>1. \/ runner' = [runner EXCEPT !.attempt = runner.attempt + 1]
            \/ runner' = [runner EXCEPT !.pc = "audit", !.wanted = "live_failed"]
        BY <1>0 DEF RunnerSet
      <3>2. runner.attempt + 1 \in Nat /\ "live_failed" \in Statuses
        BY <1>0 DEF RunnerSet, Statuses
      <3> QED
        BY <1>0, <3>1, <3>2 DEF RunnerSet, RunnerLabels
    <2> QED
      BY <1>0, <2>1 DEF QualificationType
  <1>2. SentInOrder'
    <2>1. CASE runner'.pc = "attempt" /\ runner'.at = runner.at
      BY <2>1, OrdersStay DEF SentInOrder
    <2>2. CASE runner'.pc = "audit" /\ runner'.at = runner.at /\ runner'.wanted = "live_failed"
      BY <1>0, <2>2, OrdersStay, PlanPlaced DEF SentInOrder, Statuses, RunnerSet
    <2> QED
      BY <1>0, <2>1, <2>2 DEF RunnerSet
  <1>3. OutcomesRecorded'
    BY <1>0, OrdersStay, PlanPlaced DEF OutcomesRecorded, SentInOrder, RunnerSet, Known, QualificationType, Statuses
  <1>4. FileKnown'
    BY <1>0 DEF FileKnown, RunnerSet, QualificationType
  <1>5. CleanedInOrder'
    BY <1>0, OrdersStay DEF CleanedInOrder, RunnerSet
  <1>6. AnswersEarned'
    BY <1>0 DEF AnswersEarned, OutcomesRecorded, RunnerSet
  <1> QED
    BY <1>1, <1>2, <1>3, <1>4, <1>5, <1>6

(* A spent budget stops the run and its records with it.                   *)
LEMMA BudgetExhaustedKeeps ==
    ASSUME QualificationInv, BudgetExhausted
    PROVE  QualificationInv'
  <1> USE DEF QualificationInv
  <1>0. QualificationType /\ runner \in RunnerSet
    BY DEF QualificationType
  <1>1. ExecutionOrder \in Seq(Actions) /\ runner.at \in DOMAIN ExecutionOrder
    BY <1>0, PlanPlaced DEF BudgetExhausted, SentInOrder
  <1>2. "blocked" \in RecordStates /\ "request_budget_exhausted" \in RunFailures
    BY DEF RecordStates, RunFailures
  <1>3. MovedOn(runner', "blocked", "request_budget_exhausted")
    BY <1>0, <1>1, <1>2, RecordedMovesOn DEF BudgetExhausted
  <1>4. transport' \in [requests : Nat, mutations : Nat, exhausted : BOOLEAN, limited : BOOLEAN]
    BY DEF QualificationType, BudgetExhausted
  <1> QED
    BY <1>1, <1>3, <1>4, MovingOnKeeps DEF BudgetExhausted

(* A read is sent once: what happens to it next is its record.             *)
LEMMA SentKeeps ==
    ASSUME QualificationInv, NEW status \in Statuses, NEW limited \in BOOLEAN, Sent(status, limited)
    PROVE  QualificationInv'
  <1> USE DEF QualificationInv, Sent, Account, Current
  <1>0. QualificationType /\ runner \in RunnerSet
    BY DEF QualificationType
  <1>1. QualificationType'
    <2>0. Current \in Actions
      BY <1>0, PlanPlaced DEF SentInOrder
    <2>1. runner' \in RunnerSet
      <3>1. runner.reached \cup {Current} \in SUBSET Actions
        BY <1>0, <2>0 DEF RunnerSet
      <3>2. runner' = [runner EXCEPT !.pc = "audit", !.wanted = status, !.reached = runner.reached \cup {Current}]
        BY <1>0 DEF RunnerSet
      <3> HIDE DEF Sent, Current
      <3> QED
        BY <1>0, <3>1, <3>2 DEF RunnerSet, RunnerLabels
    <2>2. dispatched' \in [Actions -> Nat]
      BY <1>0, <2>0 DEF QualificationType
    <2>3. transport' \in [requests : Nat, mutations : Nat, exhausted : BOOLEAN, limited : BOOLEAN]
      <3> DEFINE b == transport.limited \/ limited
      <3>1. b \in BOOLEAN
        OBVIOUS
      <3>2. transport' = [transport EXCEPT !.requests = transport.requests + 1,
                                           !.mutations = transport.mutations + 0, !.limited = b]
        BY <1>0 DEF QualificationType
      <3>3. transport \in [requests : Nat, mutations : Nat, exhausted : BOOLEAN, limited : BOOLEAN]
        BY <1>0 DEF QualificationType
      <3>4. transport.requests + 1 \in Nat /\ transport.mutations + 0 \in Nat
        BY <3>3
      <3> HIDE DEF b, Sent, QualificationInv
      <3> QED
        BY <3>1, <3>2, <3>3, <3>4
    <2> QED
      BY <1>0, <2>1, <2>2, <2>3 DEF QualificationType
  <1>2. SentInOrder'
    BY <1>0, OrdersStay, PlanPlaced DEF SentInOrder, RunnerSet, QualificationType
  <1>3. OutcomesRecorded'
    BY <1>0, OrdersStay, PlanPlaced DEF OutcomesRecorded, SentInOrder, RunnerSet, Known, QualificationType, Statuses
  <1>4. FileKnown'
    BY <1>0 DEF FileKnown, RunnerSet, QualificationType
  <1>5. CleanedInOrder'
    BY <1>0, OrdersStay DEF CleanedInOrder, RunnerSet
  <1>6. AnswersEarned'
    BY <1>0 DEF AnswersEarned, OutcomesRecorded, RunnerSet
  <1> QED
    BY <1>1, <1>2, <1>3, <1>4, <1>5, <1>6

(* The record of a read is what became of it.                              *)
LEMMA AuditReadKeeps ==
    ASSUME QualificationInv, AuditRead
    PROVE  QualificationInv'
  <1> USE DEF QualificationInv
  <1>0. QualificationType /\ runner \in RunnerSet
    BY DEF QualificationType
  <1>1. ExecutionOrder \in Seq(Actions) /\ runner.at \in DOMAIN ExecutionOrder
    BY <1>0, PlanPlaced DEF AuditRead, SentInOrder
  <1>2. runner.wanted \in Known /\ runner.wanted \in RecordStates
    BY DEF AuditRead, SentInOrder, Statuses, Known, RecordStates
  <1> DEFINE failure == IF transport.limited THEN "rate_limited" ELSE runner.failure
  <1>3. failure \in RunFailures
    BY <1>0 DEF RunnerSet, RunFailures
  <1>4. runner' = [Recorded(runner, runner.wanted) EXCEPT !.failure = failure]
    BY <1>0 DEF AuditRead, Recorded, RunnerSet
  <1>5. MovedOn(runner', runner.wanted, failure)
    BY <1>0, <1>1, <1>2, <1>3, <1>4, RecordedMovesOn
  <1>6. /\ transport' \in [requests : Nat, mutations : Nat, exhausted : BOOLEAN, limited : BOOLEAN]
        /\ failure = "none" => runner.failure = "none"
    BY DEF QualificationType, AuditRead
  <1> QED
    BY <1>1, <1>2, <1>5, <1>6, MovingOnKeeps DEF AuditRead

(* After this no action is without a record.                               *)
LEMMA FillRecordsKeeps ==
    ASSUME QualificationInv, FillRecords
    PROVE  QualificationInv'
  <1> USE DEF QualificationInv, FillRecords, Filled, PolicyStatus, FailureStatus
  <1>0. QualificationType /\ runner \in RunnerSet
    BY DEF QualificationType
  <1>1. QualificationType'
    <2>1. runner' \in RunnerSet
      <3>1. Filled \in [Actions -> RecordStates]
        BY <1>0 DEF RunnerSet, RecordStates
      <3> DEFINE place == IF runner.failure # "none" THEN "report"
                         ELSE IF runner.dry THEN "persist" ELSE "cleanup"
      <3>2. place \in RunnerLabels /\ runner' = [runner EXCEPT !.records = Filled, !.pc = place]
        BY DEF RunnerLabels
      <3> HIDE DEF QualificationInv, FillRecords, Filled, place
      <3> QED
        BY <1>0, <3>1, <3>2 DEF RunnerSet
    <2> QED
      BY <1>0, <2>1 DEF QualificationType
  <1>2. SentInOrder'
    BY <1>0, OrdersStay, PlanPlaced DEF SentInOrder, RunnerSet, QualificationType
  <1>3. OutcomesRecorded'
    BY <1>0, OrdersStay, PlanPlaced DEF OutcomesRecorded, SentInOrder, RunnerSet, Known, QualificationType, Statuses
  <1>4. FileKnown'
    BY <1>0 DEF FileKnown, RunnerSet, QualificationType
  <1>5. CleanedInOrder'
    BY <1>0, OrdersStay DEF CleanedInOrder, FileKnown, RunnerSet
  <1>6. AnswersEarned'
    BY <1>0 DEF AnswersEarned, OutcomesRecorded, RunnerSet
  <1> QED
    BY <1>1, <1>2, <1>3, <1>4, <1>5, <1>6

(* A run that is through only reports.                                     *)
LEMMA CleanupNotNeededKeeps ==
    ASSUME QualificationInv, CleanupNotNeeded
    PROVE  QualificationInv'
  <1> USE DEF QualificationInv, CleanupNotNeeded
  <1>0. QualificationType /\ runner \in RunnerSet
    BY DEF QualificationType
  <1>1. QualificationType'
    <2>1. runner' \in RunnerSet
      <3> HIDE DEF QualificationInv
      <3> QED
        BY <1>0 DEF RunnerSet, RunnerLabels, RunFailures, RecordStates, Statuses
    <2> QED
      BY <1>0, <2>1 DEF QualificationType
  <1>2. SentInOrder'
    BY <1>0, OrdersStay, PlanPlaced DEF SentInOrder, RunnerSet, QualificationType
  <1>3. OutcomesRecorded'
    BY <1>0, OrdersStay, PlanPlaced DEF OutcomesRecorded, SentInOrder, RunnerSet, Known, QualificationType, Statuses
  <1>4. FileKnown'
    BY <1>0 DEF FileKnown, RunnerSet, QualificationType
  <1>5. CleanedInOrder'
    BY <1>0, OrdersStay DEF CleanedInOrder, RunnerSet
  <1>6. AnswersEarned'
    BY <1>0 DEF AnswersEarned, OutcomesRecorded, RunnerSet
  <1> QED
    BY <1>1, <1>2, <1>3, <1>4, <1>5, <1>6

(* All fixtures are claimed, and therefore clean.                          *)
LEMMA CleanupDoneKeeps ==
    ASSUME QualificationInv, CleanupDone
    PROVE  QualificationInv'
  <1> USE DEF QualificationInv, CleanupDone
  <1>0. QualificationType /\ runner \in RunnerSet
    BY DEF QualificationType
  <1>1. QualificationType'
    <2>1. runner' \in RunnerSet
      <3> HIDE DEF QualificationInv
      <3> QED
        BY <1>0 DEF RunnerSet, RunnerLabels, RunFailures, RecordStates, Statuses
    <2> QED
      BY <1>0, <2>1 DEF QualificationType
  <1>2. SentInOrder'
    BY <1>0, OrdersStay, PlanPlaced DEF SentInOrder, RunnerSet, QualificationType
  <1>3. OutcomesRecorded'
    BY <1>0, OrdersStay, PlanPlaced DEF OutcomesRecorded, SentInOrder, RunnerSet, Known, QualificationType, Statuses
  <1>4. FileKnown'
    BY <1>0 DEF FileKnown, RunnerSet, QualificationType
  <1>5. CleanedInOrder'
    BY <1>0, OrdersStay DEF CleanedInOrder, RunnerSet
  <1>6. AnswersEarned'
    BY <1>0 DEF AnswersEarned, OutcomesRecorded, RunnerSet
  <1> QED
    BY <1>1, <1>2, <1>3, <1>4, <1>5, <1>6

(* A report answers with the state the process believes in.                *)
LEMMA ReportKeeps ==
    ASSUME QualificationInv, Report
    PROVE  QualificationInv'
  <1> USE DEF QualificationInv, Report
  <1>0. QualificationType /\ runner \in RunnerSet
    BY DEF QualificationType
  <1>1. QualificationType'
    <2>1. runner' \in RunnerSet
      <3>1. runner.memory.state \in {"none", "failed", "quarantined", "completed"}
        BY <1>0 DEF RunnerSet, RunFiles
      <3> QED
        BY <1>0, <3>1 DEF RunnerSet, RunnerLabels
    <2> QED
      BY <1>0, <2>1 DEF QualificationType
  <1>2. SentInOrder'
    BY <1>0, OrdersStay, PlanPlaced DEF SentInOrder, RunnerSet, QualificationType
  <1>3. OutcomesRecorded'
    BY <1>0, OrdersStay, PlanPlaced DEF OutcomesRecorded, SentInOrder, RunnerSet, Known, QualificationType, Statuses
  <1>4. FileKnown'
    BY <1>0 DEF FileKnown, RunnerSet, QualificationType
  <1>5. CleanedInOrder'
    BY <1>0, OrdersStay DEF CleanedInOrder, RunnerSet
  <1>6. AnswersEarned'
    BY <1>0 DEF AnswersEarned, OutcomesRecorded, FileKnown, RunnerSet
  <1> QED
    BY <1>1, <1>2, <1>3, <1>4, <1>5, <1>6

(* An unexpected error grants nothing.                                     *)
LEMMA UnexpectedErrorKeeps ==
    ASSUME QualificationInv, UnexpectedError
    PROVE  QualificationInv'
  <1> USE DEF QualificationInv, UnexpectedError
  <1>0. QualificationType /\ runner \in RunnerSet
    BY DEF QualificationType
  <1>1. QualificationType'
    <2>1. runner' \in RunnerSet
      <3> HIDE DEF QualificationInv
      <3> QED
        BY <1>0 DEF RunnerSet, RunnerLabels, RunFailures, RecordStates, Statuses
    <2> QED
      BY <1>0, <2>1 DEF QualificationType
  <1>2. SentInOrder'
    BY <1>0, OrdersStay, PlanPlaced DEF SentInOrder, RunnerSet, QualificationType
  <1>3. OutcomesRecorded'
    BY <1>0, OrdersStay, PlanPlaced DEF OutcomesRecorded, SentInOrder, RunnerSet, Known, QualificationType, Statuses
  <1>4. FileKnown'
    BY <1>0 DEF FileKnown, RunnerSet, QualificationType
  <1>5. CleanedInOrder'
    BY <1>0, OrdersStay DEF CleanedInOrder, RunnerSet
  <1>6. AnswersEarned'
    BY <1>0 DEF AnswersEarned, OutcomesRecorded, RunnerSet
  <1> QED
    BY <1>1, <1>2, <1>3, <1>4, <1>5, <1>6

\* What _replace leaves: the record is in the file and in memory, or the process fails.
LEMMA ReplaceFields ==
    ASSUME NEW r \in RunnerSet, NEW candidate \in RunFiles, NEW outcome \in WriteOutcomes,
           NEW lostBinding \in BOOLEAN, Replace(r, candidate, outcome, lostBinding)
    PROVE  /\ runner' \in RunnerSet /\ runDisk' \in {runDisk, candidate} /\ runner'.granted = FALSE
           /\ runner'.store = r.store /\ runner'.dry = r.dry /\ runner'.claimed = r.claimed
           /\ runner'.failure = r.failure /\ runner'.records = r.records /\ runner'.answer = r.answer
           /\ runner'.at = r.at /\ runner'.wanted = r.wanted
           /\ \/ /\ outcome = "written" /\ runner'.pc = r.pc /\ runner'.bound = TRUE
                 /\ runner'.memory = candidate /\ runDisk' = candidate
              \/ /\ runner.pc \in {"cleanup", "clean"}
                 /\ runner'.pc = "cleanup_failed" /\ runner'.memory = r.memory
              \/ /\ runner.pc \notin {"cleanup", "clean"}
                 /\ runner'.pc = "failing" /\ runner'.memory = r.memory
  <1> DEFINE memory == IF outcome = "written" THEN candidate ELSE r.memory
             label == IF outcome = "written" THEN r.pc ELSE AfterFailure
             trust == ~lostBinding
  <1>1. memory \in RunFiles /\ label \in RunnerLabels /\ trust \in BOOLEAN
    BY DEF RunnerSet, RunnerLabels, AfterFailure
  <1>2. runner' = [r EXCEPT !.granted = FALSE, !.memory = memory, !.bound = trust, !.pc = label]
    BY DEF Replace, RunnerSet
  <1>3. /\ outcome = "written" => memory = candidate /\ label = r.pc /\ trust = TRUE
        /\ outcome # "written" => memory = r.memory /\ label = AfterFailure
        /\ runDisk' = IF outcome = "refused" THEN runDisk ELSE candidate
    BY DEF Replace
  <1> HIDE DEF memory, label, trust
  <1>4. runner' \in RunnerSet
    BY <1>1, <1>2 DEF RunnerSet
  <1>5. /\ runner'.granted = FALSE /\ runner'.memory = memory /\ runner'.bound = trust /\ runner'.pc = label
        /\ runner'.store = r.store /\ runner'.dry = r.dry /\ runner'.claimed = r.claimed
        /\ runner'.failure = r.failure /\ runner'.records = r.records /\ runner'.answer = r.answer
        /\ runner'.at = r.at /\ runner'.wanted = r.wanted
    BY <1>2 DEF RunnerSet
  <1> QED
    BY <1>3, <1>4, <1>5 DEF AfterFailure

\* What it leaves during cleanup, and elsewhere.
LEMMA ReplaceInCleanup ==
    ASSUME NEW r \in RunnerSet, NEW candidate \in RunFiles, NEW outcome \in WriteOutcomes,
           NEW lostBinding \in BOOLEAN, Replace(r, candidate, outcome, lostBinding),
           runner.pc \in {"cleanup", "clean"}
    PROVE  /\ runner' \in RunnerSet /\ runDisk' \in {runDisk, candidate} /\ runner'.granted = FALSE
           /\ runner'.store = r.store /\ runner'.dry = r.dry /\ runner'.claimed = r.claimed
           /\ runner'.failure = r.failure /\ runner'.records = r.records /\ runner'.answer = r.answer
           /\ \/ runner'.pc = r.pc /\ runner'.memory = candidate /\ runDisk' = candidate
              \/ runner'.pc = "cleanup_failed" /\ runner'.memory = r.memory
  <1>1. \/ /\ outcome = "written" /\ runner'.pc = r.pc /\ runner'.bound = TRUE
           /\ runner'.memory = candidate /\ runDisk' = candidate
        \/ runner'.pc = "cleanup_failed" /\ runner'.memory = r.memory
        \/ /\ runner.pc \notin {"cleanup", "clean"}
           /\ runner'.pc = "failing" /\ runner'.memory = r.memory
    BY ReplaceFields
  <1>2. /\ runner' \in RunnerSet /\ runDisk' \in {runDisk, candidate} /\ runner'.granted = FALSE
        /\ runner'.store = r.store /\ runner'.dry = r.dry /\ runner'.claimed = r.claimed
        /\ runner'.failure = r.failure /\ runner'.records = r.records /\ runner'.answer = r.answer
    BY ReplaceFields
  <1> QED
    BY <1>1, <1>2

LEMMA ReplaceElsewhere ==
    ASSUME NEW r \in RunnerSet, NEW candidate \in RunFiles, NEW outcome \in WriteOutcomes,
           NEW lostBinding \in BOOLEAN, Replace(r, candidate, outcome, lostBinding),
           runner.pc \notin {"cleanup", "clean"}
    PROVE  /\ runner' \in RunnerSet /\ runDisk' \in {runDisk, candidate} /\ runner'.granted = FALSE
           /\ runner'.store = r.store /\ runner'.dry = r.dry /\ runner'.claimed = r.claimed
           /\ runner'.failure = r.failure /\ runner'.records = r.records /\ runner'.answer = r.answer
           /\ runner'.at = r.at /\ runner'.wanted = r.wanted
           /\ \/ /\ outcome = "written" /\ runner'.pc = r.pc /\ runner'.bound = TRUE
                 /\ runner'.memory = candidate /\ runDisk' = candidate
              \/ runner'.pc = "failing" /\ runner'.memory = r.memory
  <1>1. \/ /\ outcome = "written" /\ runner'.pc = r.pc /\ runner'.bound = TRUE
           /\ runner'.memory = candidate /\ runDisk' = candidate
        \/ runner.pc \in {"cleanup", "clean"}
        \/ runner'.pc = "failing" /\ runner'.memory = r.memory
    BY ReplaceFields
  <1>2. /\ runner' \in RunnerSet /\ runDisk' \in {runDisk, candidate} /\ runner'.granted = FALSE
        /\ runner'.store = r.store /\ runner'.dry = r.dry /\ runner'.claimed = r.claimed
        /\ runner'.failure = r.failure /\ runner'.records = r.records /\ runner'.answer = r.answer
        /\ runner'.at = r.at /\ runner'.wanted = r.wanted
    BY ReplaceFields
  <1> QED
    BY <1>1, <1>2

\* A process that fails keeps what is known of the file.
LEMMA FailingKeeps ==
    ASSUME QualificationInv, runner' \in RunnerSet,
           \/ runner'.pc = "failing"
           \/ /\ runner'.pc = "cleanup_failed" /\ runner.pc \in {"cleanup", "clean"}
              /\ runner.memory.state = "failed"
              /\ runner'.records = runner.records /\ runner'.failure = runner.failure,
           runner'.granted = FALSE, runner'.answer = runner.answer, runner.pc # "done", runner.pc # "new",
           runner'.store = runner.store, runner'.dry = runner.dry, runner'.memory = runner.memory,
           runDisk' \in RunFiles, runner.store = "file",
           runDisk' = runDisk \/ runDisk'.state = "quarantined"
              \/ (runner.memory.state # "quarantined" /\ ~abandoned),
           cleanups' \in Seq(Fixtures), Len(cleanups') <= Len(CleanupOrder),
           \A i \in DOMAIN cleanups' : cleanups'[i] = CleanupOrder[i],
           cleanups' # <<>> => Acyclic(DOMAIN depends, depends),
           transport' \in [requests : Nat, mutations : Nat, exhausted : BOOLEAN, limited : BOOLEAN],
           UNCHANGED <<policy, depends, dispatched, abandoned, openings>>
    PROVE  QualificationInv'
  <1> USE DEF QualificationInv
  <1>1. QualificationType'
    BY DEF QualificationType
  <1>2. SentInOrder' /\ OutcomesRecorded' /\ AnswersEarned'
    BY DEF SentInOrder, OutcomesRecorded, AnswersEarned
  <1>3. FileKnown'
    BY DEF FileKnown
  <1>4. CleanedInOrder'
    BY OrdersStay DEF CleanedInOrder
  <1> QED
    BY <1>1, <1>2, <1>3, <1>4

\* A record that is quarantined stays a record.
LEMMA QuarantinedFile ==
    ASSUME NEW record \in RunFiles
    PROVE  /\ Quarantined(record) \in RunFiles /\ Quarantined(record).state = "quarantined"
           /\ Quarantined(record).fixtures = record.fixtures
           /\ record.state = "quarantined" => Quarantined(record) = record
  BY DEF Quarantined, RunFiles

(* The process opens its file, and quarantines what it finds unfinished.   *)
LEMMA SelectStoreKeeps ==
    ASSUME QualificationInv, NEW outcome \in WriteOutcomes, SelectStore(outcome)
    PROVE  QualificationInv'
  <1> USE DEF QualificationInv
  <1>0. /\ QualificationType /\ runner \in RunnerSet /\ runDisk \in RunFiles /\ runner.pc = "new"
        /\ UNCHANGED <<policy, depends, transport, cleanups, dispatched, abandoned, openings>>
    BY DEF QualificationType, SelectStore
  <1> DEFINE wanted == IF runDisk = NoRunFile THEN NewRun ELSE Recovered(runDisk)
  <1>1. /\ wanted \in RunFiles /\ (abandoned => wanted.state = "quarantined")
        /\ runDisk.state = "quarantined" => wanted.state = "quarantined"
    BY <1>0, NewFiles, QuarantinedFile DEF Recovered, FileKnown, NoRunFile
  <1>2. \/ /\ runner.dry /\ runDisk' = runDisk
           /\ runner' = [runner EXCEPT !.pc = "contracts", !.store = "ephemeral", !.memory = NewRun]
        \/ /\ ~runner.dry /\ runDisk' = wanted
           /\ runner' = [runner EXCEPT !.pc = "origin", !.store = "file", !.memory = wanted]
        \/ /\ ~runner.dry /\ runDisk' \in {wanted, runDisk}
           /\ runner' = [runner EXCEPT !.pc = "failing"]
    BY DEF SelectStore
  <1> HIDE DEF wanted
  <1>3. /\ runner' \in RunnerSet /\ runDisk' \in RunFiles
        /\ runner'.at = runner.at /\ runner'.claimed = runner.claimed /\ runner'.granted = runner.granted
        /\ runner'.answer = runner.answer /\ runner'.dry = runner.dry
    <2>1. CASE runner' = [runner EXCEPT !.pc = "contracts", !.store = "ephemeral", !.memory = NewRun]
      <3>1. runner' \in RunnerSet
        BY <1>0, <2>1, NewFiles DEF RunnerSet, RunnerLabels
      <3>2. runDisk' \in RunFiles
        BY <1>0, <1>1, <1>2
      <3> QED
        BY <1>0, <2>1, <3>1, <3>2 DEF RunnerSet
    <2>2. CASE runner' = [runner EXCEPT !.pc = "origin", !.store = "file", !.memory = wanted]
      <3>1. runner' \in RunnerSet
        BY <1>0, <1>1, <2>2 DEF RunnerSet, RunnerLabels
      <3>2. runDisk' \in RunFiles
        BY <1>0, <1>1, <1>2
      <3> QED
        BY <1>0, <2>2, <3>1, <3>2 DEF RunnerSet
    <2>3. CASE runner' = [runner EXCEPT !.pc = "failing"]
      BY <1>0, <1>1, <1>2, <2>3 DEF RunnerSet, RunnerLabels
    <2> QED
      BY <1>2, <2>1, <2>2, <2>3
  <1>4. \/ /\ runner.dry /\ runDisk' = runDisk
           /\ runner'.pc = "contracts" /\ runner'.store = "ephemeral"
        \/ /\ ~runner.dry /\ runDisk' = wanted
           /\ runner'.pc = "origin" /\ runner'.store = "file" /\ runner'.memory = wanted
        \/ /\ ~runner.dry /\ runDisk' \in {wanted, runDisk}
           /\ runner'.pc = "failing" /\ runner'.store = runner.store
    BY <1>0, <1>2 DEF RunnerSet
  <1>5. QualificationType'
    BY <1>0, <1>3 DEF QualificationType
  <1>6. SentInOrder' /\ OutcomesRecorded'
    BY <1>0, <1>3, <1>4, OrdersStay DEF SentInOrder, OutcomesRecorded
  <1>7. FileKnown'
    BY <1>0, <1>1, <1>3, <1>4 DEF FileKnown
  <1>8. CleanedInOrder'
    BY <1>0, <1>3, <1>4, OrdersStay DEF CleanedInOrder
  <1>9. AnswersEarned'
    BY <1>0, <1>3, <1>4 DEF AnswersEarned
  <1> QED
    BY <1>5, <1>6, <1>7, <1>8, <1>9

(* A lost outcome quarantines the run and stops what follows.              *)
LEMMA AuditLostKeeps ==
    ASSUME QualificationInv, NEW outcome \in WriteOutcomes, NEW lostBinding \in BOOLEAN,
           AuditLost(outcome, lostBinding)
    PROVE  QualificationInv'
  <1> USE DEF QualificationInv
  <1> DEFINE r == [Recorded(runner, "outcome_unknown") EXCEPT !.failure = "outcome_unknown"]
  <1>0. /\ QualificationType /\ runner \in RunnerSet /\ runDisk \in RunFiles /\ runner.pc = "audit"
        /\ UNCHANGED <<policy, depends, transport, cleanups, dispatched, abandoned, openings>>
        /\ transport' \in [requests : Nat, mutations : Nat, exhausted : BOOLEAN, limited : BOOLEAN]
    BY DEF QualificationType, AuditLost
  <1>1. ExecutionOrder \in Seq(Actions) /\ runner.at \in DOMAIN ExecutionOrder
    BY <1>0, PlanPlaced DEF SentInOrder
  <1>2. "outcome_unknown" \in RecordStates /\ "outcome_unknown" \in RunFailures
    BY DEF RecordStates, RunFailures, Statuses
  <1>3. MovedOn(r, "outcome_unknown", "outcome_unknown")
    BY <1>0, <1>1, <1>2, RecordedMovesOn
  <1>4. Quarantine(r, outcome, lostBinding)
    BY DEF AuditLost, OutcomeUnknown
  <1> HIDE DEF r
  <1>5. runner.store = "file" /\ runDisk = runner.memory /\ runner.memory \in RunFiles
    BY <1>0 DEF FileKnown, RunnerSet
  <1>6. r \in RunnerSet /\ r.memory = runner.memory /\ r.store = "file" /\ r.pc = "actions"
    BY <1>3, <1>5 DEF MovedOn
  <1>7. CASE runner.memory.state = "quarantined"
    <2>1. runner' = [r EXCEPT !.memory = Quarantined(r.memory)] /\ runDisk' = runDisk
      BY <1>4, <1>6, <1>7 DEF Quarantine, RunnerSet
    <2>2. Quarantined(r.memory) = r.memory
      BY <1>5, <1>6, <1>7, QuarantinedFile
    <2>3. runner' = r
      BY <1>6, <2>1, <2>2 DEF RunnerSet
    <2> QED
      BY <1>0, <1>1, <1>3, <2>1, <2>3, MovingOnKeeps
  <1>8. CASE runner.memory.state # "quarantined"
    <2> DEFINE c == Quarantined(runner.memory)
    <2>1. c \in RunFiles /\ c.state = "quarantined"
      BY <1>5, QuarantinedFile
    <2>2. Replace(r, c, outcome, lostBinding)
      BY <1>4, <1>6, <1>8 DEF Quarantine
    <2> HIDE DEF c
    <2>3. /\ runner' \in RunnerSet /\ runDisk' \in {runDisk, c} /\ runner'.granted = FALSE
          /\ runner'.store = r.store /\ runner'.dry = r.dry /\ runner'.claimed = r.claimed
          /\ runner'.failure = r.failure /\ runner'.records = r.records /\ runner'.answer = r.answer
          /\ runner'.at = r.at /\ runner'.wanted = r.wanted
          /\ \/ /\ runner'.pc = r.pc /\ runner'.memory = c /\ runDisk' = c
             \/ runner'.pc = "failing" /\ runner'.memory = r.memory
      <3>1. runner.pc \notin {"cleanup", "clean"} /\ r \in RunnerSet /\ c \in RunFiles
        BY <1>0, <1>6, <2>1
      <3> HIDE DEF QualificationInv
      <3> QED
        BY <2>2, <3>1, ReplaceElsewhere
    <2>4. CASE runner'.pc = "failing" /\ runner'.memory = r.memory
      BY <1>0, <1>3, <1>5, <1>6, <2>1, <2>3, <2>4, FailingKeeps DEF MovedOn, CleanedInOrder, QualificationType
    <2>5. CASE runner'.pc = "actions" /\ runner'.memory = c /\ runDisk' = c
      <3>1. QualificationType'
        BY <1>0, <2>1, <2>3, <2>5 DEF QualificationType
      <3>2. SentInOrder'
        BY <1>0, <1>1, <1>3, <2>3, <2>5, OrdersStay DEF SentInOrder, MovedOn, RunnerSet
      <3>3. OutcomesRecorded'
        BY <1>3, <2>3, <2>5 DEF OutcomesRecorded, MovedOn
      <3>4. FileKnown'
        BY <1>0, <1>3, <1>5, <2>1, <2>3, <2>5 DEF FileKnown, MovedOn
      <3>5. CleanedInOrder'
        BY <1>0, <1>3, <2>3, <2>5, OrdersStay DEF CleanedInOrder, MovedOn
      <3>6. AnswersEarned'
        BY <1>0, <1>3, <2>3, <2>5 DEF AnswersEarned, MovedOn
      <3> QED
        BY <3>1, <3>2, <3>3, <3>4, <3>5, <3>6
    <2> QED
      BY <1>6, <2>3, <2>4, <2>5
  <1> QED
    BY <1>7, <1>8

(* All fixtures are known to the file before the first is cleaned.         *)
LEMMA RecordFixturesKeeps ==
    ASSUME QualificationInv, NEW outcome \in WriteOutcomes, NEW lostBinding \in BOOLEAN,
           RecordFixtures(outcome, lostBinding)
    PROVE  QualificationInv'
  <1> USE DEF QualificationInv
  <1>0. /\ QualificationType /\ runner \in RunnerSet /\ runDisk \in RunFiles /\ runner.pc = "cleanup"
        /\ UNCHANGED <<policy, depends, transport, cleanups, dispatched, abandoned, openings>>
        /\ transport' \in [requests : Nat, mutations : Nat, exhausted : BOOLEAN, limited : BOOLEAN]
        /\ runner.memory.state = "failed" /\ Acyclic(DOMAIN depends, depends)
    BY DEF QualificationType, RecordFixtures
  <1>1. /\ runner.store = "file" /\ runDisk = runner.memory /\ runner.memory \in RunFiles /\ ~abandoned
        /\ cleanups = <<>> /\ runner.claimed = {}
    BY <1>0 DEF FileKnown, RunnerSet, CleanedInOrder
  <1> DEFINE r == [runner EXCEPT !.pc = "clean"]
             map == [f \in DOMAIN depends |-> "pending"]
             c == [runner.memory EXCEPT !.fixtures = map]
  <1>2. /\ r \in RunnerSet /\ r.pc = "clean" /\ r.memory = runner.memory /\ r.store = runner.store
        /\ r.dry = runner.dry /\ r.claimed = runner.claimed /\ r.failure = runner.failure
        /\ r.records = runner.records /\ r.answer = runner.answer /\ r.granted = runner.granted
        /\ r.at = runner.at /\ r.wanted = runner.wanted
    BY <1>0 DEF RunnerSet, RunnerLabels
  <1>3. map \in FixtureMaps
    <2>1. DOMAIN depends \in SUBSET Fixtures
      BY <1>0, CleanupPlaced
    <2> QED
      BY <2>1 DEF FixtureMaps
  <1>4. c \in RunFiles /\ c.state = "failed" /\ c.fixtures = map
    BY <1>0, <1>1, <1>3 DEF RunFiles
  <1>5. \/ depends = <<>> /\ runner' = r /\ runDisk' = runDisk
        \/ Replace(r, c, outcome, lostBinding)
    BY DEF RecordFixtures
  <1> HIDE DEF r, c, map
  <1>6. ASSUME runner'.pc = "clean", runner' \in RunnerSet, runDisk' \in RunFiles, runDisk' = runner'.memory,
               runner'.store = "file", runner'.dry = runner.dry, runner'.claimed = {},
               runner'.memory.state = "failed", runner'.failure = runner.failure,
               runner'.records = runner.records, runner'.answer = runner.answer, runner'.granted = FALSE,
               \A f \in DOMAIN depends : runner'.memory.fixtures[f] = "pending",
               DOMAIN depends \subseteq DOMAIN runner'.memory.fixtures
        PROVE  QualificationInv'
    <2> USE <1>0, <1>1, <1>6
    <2>1. QualificationType'
      BY DEF QualificationType
    <2>2. SentInOrder' /\ OutcomesRecorded'
      BY OrdersStay DEF SentInOrder, OutcomesRecorded
    <2>3. FileKnown' /\ AnswersEarned'
      BY DEF FileKnown, AnswersEarned
    <2>4. CleanedInOrder'
      BY OrdersStay DEF CleanedInOrder
    <2> QED
      BY <2>1, <2>2, <2>3, <2>4
  <1>7. CASE depends = <<>> /\ runner' = r /\ runDisk' = runDisk
    <2>1. DOMAIN depends = {}
      BY <1>7
    <2>2. runner.granted = FALSE
      BY <1>0 DEF AnswersEarned, RunnerSet
    <2> QED
      BY <1>0, <1>1, <1>2, <1>6, <1>7, <2>1, <2>2
  <1>8. CASE Replace(r, c, outcome, lostBinding)
    <2>1. /\ runner' \in RunnerSet /\ runDisk' \in {runDisk, c} /\ runner'.granted = FALSE
          /\ runner'.store = r.store /\ runner'.dry = r.dry /\ runner'.claimed = r.claimed
          /\ runner'.failure = r.failure /\ runner'.records = r.records /\ runner'.answer = r.answer
          /\ \/ runner'.pc = r.pc /\ runner'.memory = c /\ runDisk' = c
             \/ runner'.pc = "cleanup_failed" /\ runner'.memory = r.memory
      BY <1>0, <1>2, <1>4, <1>8, ReplaceInCleanup
    <2>2. CASE runner'.pc = "cleanup_failed" /\ runner'.memory = r.memory
      BY <1>0, <1>1, <1>2, <1>4, <2>1, <2>2, FailingKeeps DEF CleanedInOrder, QualificationType
    <2>3. CASE runner'.pc = "clean" /\ runner'.memory = c /\ runDisk' = c
      BY <1>1, <1>2, <1>4, <1>6, <2>1, <2>3 DEF map
    <2> QED
      BY <1>2, <2>1, <2>2, <2>3
  <1> QED
    BY <1>5, <1>7, <1>8

(* A cyclic registry is refused before anything is cleaned.                *)
LEMMA CleanupRefusedKeeps ==
    ASSUME QualificationInv, CleanupRefused
    PROVE  QualificationInv'
  <1> USE DEF QualificationInv
  <1>1. /\ QualificationType /\ runner \in RunnerSet /\ runner.pc = "cleanup" /\ runner.memory.state = "failed"
        /\ runner' = [runner EXCEPT !.pc = "cleanup_failed"]
        /\ UNCHANGED <<policy, depends, runDisk, transport, cleanups, dispatched, abandoned, openings>>
    BY DEF QualificationType, CleanupRefused
  <1>2. runner.store = "file" /\ runner.granted = FALSE
    BY <1>1 DEF FileKnown, RunnerSet, AnswersEarned
  <1>3. /\ runner' \in RunnerSet /\ runner'.pc = "cleanup_failed" /\ runner'.granted = runner.granted
        /\ runner'.answer = runner.answer /\ runner'.store = runner.store /\ runner'.dry = runner.dry
        /\ runner'.memory = runner.memory /\ runner'.records = runner.records
        /\ runner'.failure = runner.failure
    BY <1>1 DEF RunnerSet, RunnerLabels
  <1> QED
    BY <1>1, <1>2, <1>3, FailingKeeps DEF CleanedInOrder, QualificationType

(* A cleanup that failed quarantines the run.                              *)
LEMMA QuarantineCleanupKeeps ==
    ASSUME QualificationInv, NEW outcome \in WriteOutcomes, NEW lostBinding \in BOOLEAN,
           QuarantineCleanup(outcome, lostBinding)
    PROVE  QualificationInv'
  <1> USE DEF QualificationInv
  <1>0. /\ QualificationType /\ runner \in RunnerSet /\ runDisk \in RunFiles /\ runner.pc = "cleanup_failed"
        /\ UNCHANGED <<policy, depends, transport, cleanups, dispatched, abandoned, openings>>
        /\ transport' \in [requests : Nat, mutations : Nat, exhausted : BOOLEAN, limited : BOOLEAN]
        /\ runner.memory.state = "failed"
    BY DEF QualificationType, QuarantineCleanup, FileKnown
  <1>1. runner.store = "file" /\ runner.memory \in RunFiles /\ runner.granted = FALSE
    BY <1>0 DEF FileKnown, RunnerSet, AnswersEarned
  <1> DEFINE r == [runner EXCEPT !.pc = "report"]
             c == Quarantined(runner.memory)
  <1>2. /\ r \in RunnerSet /\ r.pc = "report" /\ r.memory = runner.memory /\ r.store = runner.store
        /\ r.dry = runner.dry /\ r.claimed = runner.claimed /\ r.failure = runner.failure
        /\ r.records = runner.records /\ r.answer = runner.answer
    BY <1>0 DEF RunnerSet, RunnerLabels
  <1>3. c \in RunFiles /\ c.state = "quarantined"
    BY <1>1, QuarantinedFile
  <1>4. \/ Replace(r, c, outcome, lostBinding)
        \/ runner' = [runner EXCEPT !.pc = "failing"] /\ runDisk' = runDisk
    BY <1>0, <1>1, <1>2 DEF QuarantineCleanup, Quarantine
  <1> HIDE DEF r, c
  <1>8. CASE runner' = [runner EXCEPT !.pc = "failing"] /\ runDisk' = runDisk
    <2>1. /\ runner' \in RunnerSet /\ runner'.pc = "failing" /\ runner'.granted = FALSE
          /\ runner'.answer = runner.answer /\ runner'.store = runner.store /\ runner'.dry = runner.dry
          /\ runner'.memory = runner.memory
      BY <1>0, <1>1, <1>8 DEF RunnerSet, RunnerLabels
    <2> QED
      BY <1>0, <1>1, <1>8, <2>1, FailingKeeps DEF CleanedInOrder, QualificationType
  <1>5. Replace(r, c, outcome, lostBinding) =>
        /\ runner' \in RunnerSet /\ runDisk' \in {runDisk, c} /\ runner'.granted = FALSE
        /\ runner'.store = r.store /\ runner'.dry = r.dry /\ runner'.claimed = r.claimed
        /\ runner'.failure = r.failure /\ runner'.records = r.records /\ runner'.answer = r.answer
        /\ \/ runner'.pc = r.pc /\ runner'.memory = c /\ runDisk' = c
           \/ runner'.pc = "failing" /\ runner'.memory = r.memory
    <2>1. runner.pc \notin {"cleanup", "clean"} /\ r \in RunnerSet /\ c \in RunFiles
      BY <1>0, <1>2, <1>3
    <2> HIDE DEF QualificationInv
    <2> QED
      BY <2>1, ReplaceElsewhere
  <1>6. CASE Replace(r, c, outcome, lostBinding) /\ runner'.pc = "failing" /\ runner'.memory = r.memory
    BY <1>0, <1>1, <1>2, <1>3, <1>5, <1>6, FailingKeeps DEF CleanedInOrder, QualificationType
  <1>7. CASE Replace(r, c, outcome, lostBinding) /\ runner'.pc = "report" /\ runner'.memory = c /\ runDisk' = c
    <2> USE <1>0, <1>1, <1>2, <1>3, <1>5, <1>7
    <2>1. QualificationType'
      BY DEF QualificationType
    <2>2. SentInOrder' /\ OutcomesRecorded'
      BY OrdersStay DEF SentInOrder, OutcomesRecorded
    <2>3. FileKnown' /\ AnswersEarned'
      BY DEF FileKnown, AnswersEarned
    <2>4. CleanedInOrder'
      BY OrdersStay DEF CleanedInOrder
    <2> QED
      BY <2>1, <2>2, <2>3, <2>4
  <1> QED
    BY <1>2, <1>4, <1>5, <1>6, <1>7, <1>8

\* The fixture that is claimed next is the next one of the order.
LEMMA NextInOrder ==
    ASSUME QualificationInv, runner.pc = "clean", Claimable # {}
    PROVE  /\ Len(cleanups) + 1 \in DOMAIN CleanupOrder
           /\ NextFixture = CleanupOrder[Len(cleanups) + 1]
           /\ NextFixture \in DOMAIN depends /\ NextFixture \notin runner.claimed
  <1> DEFINE m == Min(Claimable)
             k == Len(cleanups) + 1
  <1>1. /\ CleanupOrder \in Seq(DOMAIN depends) /\ cleanups \in Seq(Fixtures)
        /\ \A i, j \in DOMAIN CleanupOrder : CleanupOrder[i] = CleanupOrder[j] => i = j
    BY CleanupPlaced DEF QualificationInv, QualificationType
  <1>2. DOMAIN CleanupOrder = 1 .. Len(CleanupOrder) /\ Len(CleanupOrder) \in Nat
    BY <1>1
  <1>3. m \in Claimable /\ \A j \in Claimable : m <= j
    <2>1. Claimable \subseteq Nat
      BY <1>2 DEF Claimable
    <2> QED
      BY <2>1, LeastOne
  <1> HIDE DEF m
  <1>4. /\ runner.claimed = {cleanups[i] : i \in DOMAIN cleanups}
        /\ \A i \in DOMAIN cleanups : cleanups[i] = CleanupOrder[i]
        /\ \A f \in DOMAIN depends :
              runner.memory.fixtures[f] = IF f \in runner.claimed THEN "cleaned" ELSE "pending"
    BY DEF QualificationInv, CleanedInOrder
  <1>5. m \in DOMAIN CleanupOrder /\ CleanupOrder[m] \notin runner.claimed
    BY <1>3 DEF Claimable
  <1>6. DOMAIN cleanups = 1 .. Len(cleanups) /\ Len(cleanups) \in Nat
    BY <1>1
  <1>7. m \notin DOMAIN cleanups
    BY <1>4, <1>5
  <1>8. k <= m /\ k \in DOMAIN CleanupOrder
    BY <1>2, <1>5, <1>6, <1>7
  <1>9. CleanupOrder[k] \notin runner.claimed
    <2> SUFFICES ASSUME NEW i \in DOMAIN cleanups, CleanupOrder[k] = CleanupOrder[i] PROVE FALSE
      BY <1>4
    <2>1. i \in DOMAIN CleanupOrder /\ i # k
      BY <1>2, <1>6, <1>8
    <2> QED
      BY <1>1, <1>8, <2>1
  <1>10. CleanupOrder[k] \in DOMAIN depends
    BY <1>1, <1>8
  <1>11. k \in Claimable
    BY <1>4, <1>8, <1>9, <1>10 DEF Claimable
  <1>12. m = k
    BY <1>2, <1>3, <1>5, <1>6, <1>8, <1>11
  <1> QED
    BY <1>8, <1>9, <1>10, <1>12 DEF NextFixture, m

(* The fixture cleaned is the next of the order, and marked in the file.   *)
LEMMA CleanFixtureKeeps ==
    ASSUME QualificationInv, NEW outcome \in WriteOutcomes, NEW lostBinding \in BOOLEAN,
           NEW settled \in {"cleaned", "failed", "outcome_unknown"},
           CleanFixture(settled, outcome, lostBinding)
    PROVE  QualificationInv'
  <1> USE DEF QualificationInv
  <1> DEFINE f == NextFixture
             map == [runner.memory.fixtures EXCEPT ![f] = settled]
             marked == [runner.memory EXCEPT !.fixtures = map]
             n == [runner EXCEPT !.claimed = runner.claimed \cup {f}]
             b == outcome # "written"
             s == [n EXCEPT !.halted = b]
             t == [n EXCEPT !.halted = TRUE, !.pc = "report"]
             c == Quarantined(marked)
  <1>0. /\ QualificationType /\ runner \in RunnerSet /\ runDisk \in RunFiles /\ runner.pc = "clean"
        /\ UNCHANGED <<policy, depends, dispatched, abandoned, openings>>
        /\ Claimable # {}
    BY DEF QualificationType, CleanFixture
  <1>1. /\ runner.store = "file" /\ runDisk = runner.memory /\ runner.memory \in RunFiles /\ ~abandoned
        /\ runner.memory.state = "failed" /\ DOMAIN depends \subseteq DOMAIN runner.memory.fixtures
        /\ Acyclic(DOMAIN depends, depends)
    BY <1>0 DEF FileKnown, RunnerSet, CleanedInOrder
  <1>2. /\ Len(cleanups) + 1 \in DOMAIN CleanupOrder /\ f = CleanupOrder[Len(cleanups) + 1]
        /\ f \in DOMAIN depends /\ f \notin runner.claimed /\ f \in Fixtures
    BY <1>0, NextInOrder, CleanupPlaced
  <1>3. /\ transport' \in [requests : Nat, mutations : Nat, exhausted : BOOLEAN, limited : BOOLEAN]
        /\ cleanups' = cleanups \/ cleanups' = Append(cleanups, f)
        /\ settled = "cleaned" => cleanups' = Append(cleanups, f)
    <2>1. transport \in [requests : Nat, mutations : Nat, exhausted : BOOLEAN, limited : BOOLEAN]
      BY <1>0 DEF QualificationType
    <2>2. transport' = transport \/
          transport' = [transport EXCEPT !.requests = transport.requests + 1, !.mutations = transport.mutations + 1]
      BY <2>1 DEF CleanFixture, Account
    <2>3. transport' \in [requests : Nat, mutations : Nat, exhausted : BOOLEAN, limited : BOOLEAN]
      <3>1. transport.requests + 1 \in Nat /\ transport.mutations + 1 \in Nat
        BY <2>1
      <3> HIDE DEF QualificationInv
      <3> QED
        BY <2>1, <2>2, <3>1
    <2> QED
      BY <2>3 DEF CleanFixture
  <1>4. Settled(f, settled, outcome, lostBinding)
    BY DEF CleanFixture
  <1>5. map \in FixtureMaps /\ DOMAIN map = DOMAIN runner.memory.fixtures /\ map[f] = settled
        /\ \A g \in DOMAIN depends : g # f => map[g] = runner.memory.fixtures[g]
    <2>1. PICK F \in SUBSET Fixtures :
             runner.memory.fixtures \in [F -> {"pending", "cleaned", "failed", "outcome_unknown"}]
      BY <1>1 DEF RunFiles, FixtureMaps
    <2>2. f \in F
      BY <1>1, <1>2, <2>1
    <2>3. map \in [F -> {"pending", "cleaned", "failed", "outcome_unknown"}]
      BY <2>1, <2>2
    <2> QED
      BY <1>1, <1>2, <2>1, <2>2, <2>3 DEF FixtureMaps
  <1>6. marked = [runner.memory EXCEPT !.fixtures[f] = settled]
    BY <1>1 DEF RunFiles
  <1>7. IF settled = "cleaned" THEN Replace(s, marked, outcome, lostBinding)
                              ELSE Replace(t, c, outcome, lostBinding)
    <2>1. n = [runner EXCEPT !.claimed = @ \cup {f}]
      BY <1>0 DEF RunnerSet
    <2> HIDE DEF n, marked, f
    <2> QED
      BY <1>4, <1>6, <2>1 DEF Settled
  <1> HIDE DEF f, map
  <1>8. marked \in RunFiles /\ marked.fixtures = map /\ marked.state = "failed"
    BY <1>1, <1>5 DEF RunFiles
  <1> HIDE DEF marked
  <1>9. c \in RunFiles /\ c.state = "quarantined"
    BY <1>8, QuarantinedFile
  <1> HIDE DEF c
  <1>10. /\ s \in RunnerSet /\ s.pc = "clean" /\ s.memory = runner.memory /\ s.store = runner.store
         /\ s.dry = runner.dry /\ s.claimed = runner.claimed \cup {f} /\ s.failure = runner.failure
         /\ s.records = runner.records /\ s.answer = runner.answer
    <2>1. /\ n \in RunnerSet /\ n.pc = "clean" /\ n.memory = runner.memory /\ n.store = runner.store
          /\ n.dry = runner.dry /\ n.claimed = runner.claimed \cup {f} /\ n.failure = runner.failure
          /\ n.records = runner.records /\ n.answer = runner.answer
      BY <1>0, <1>2 DEF RunnerSet
    <2>2. b \in BOOLEAN
      OBVIOUS
    <2> HIDE DEF n, b
    <2> QED
      BY <2>1, <2>2 DEF RunnerSet
  <1> HIDE DEF s
  <1>11. /\ t \in RunnerSet /\ t.pc = "report" /\ t.memory = s.memory /\ t.store = s.store
         /\ t.dry = s.dry /\ t.claimed = s.claimed /\ t.failure = s.failure
         /\ t.records = s.records /\ t.answer = s.answer
    <2>1. /\ n \in RunnerSet /\ n.memory = s.memory /\ n.store = s.store /\ n.dry = s.dry
          /\ n.claimed = s.claimed /\ n.failure = s.failure /\ n.records = s.records
          /\ n.answer = s.answer
      BY <1>0, <1>2, <1>10 DEF RunnerSet
    <2> HIDE DEF n
    <2> QED
      BY <2>1 DEF RunnerSet, RunnerLabels
  <1> HIDE DEF t, n
  <1>12. /\ cleanups' \in Seq(Fixtures) /\ Len(cleanups') <= Len(CleanupOrder)
         /\ \A i \in DOMAIN cleanups' : cleanups'[i] = CleanupOrder[i]
    <2>1. /\ cleanups \in Seq(Fixtures) /\ Len(cleanups) <= Len(CleanupOrder)
          /\ \A i \in DOMAIN cleanups : cleanups[i] = CleanupOrder[i]
      BY <1>0 DEF QualificationType, CleanedInOrder
    <2>2. Len(CleanupOrder) \in Nat /\ DOMAIN CleanupOrder = 1 .. Len(CleanupOrder)
      BY <1>0, CleanupPlaced
    <2>3. CASE cleanups' = cleanups
      BY <2>1, <2>3
    <2>4. CASE cleanups' = Append(cleanups, f)
      BY <1>2, <2>1, <2>2, <2>4
    <2> QED
      BY <1>3, <2>3, <2>4
  <1>13. ASSUME NEW r \in RunnerSet, NEW d \in RunFiles, Replace(r, d, outcome, lostBinding),
                r.store = runner.store, r.dry = runner.dry, r.answer = runner.answer,
                r.memory = runner.memory, r.records = runner.records, r.failure = runner.failure,
                runner'.pc = "cleanup_failed", runner'.memory = r.memory
         PROVE  QualificationInv'
    <2>1. /\ runner' \in RunnerSet /\ runDisk' \in {runDisk, d} /\ runner'.granted = FALSE
          /\ runner'.store = r.store /\ runner'.dry = r.dry /\ runner'.answer = r.answer
          /\ runner'.records = r.records /\ runner'.failure = r.failure
      BY <1>13, ReplaceFields
    <2> QED
      BY <1>0, <1>1, <1>3, <1>12, <1>13, <2>1, FailingKeeps
  <1>14. CASE settled = "cleaned"
    <2>0. Replace(s, marked, outcome, lostBinding)
      BY <1>7, <1>14
    <2>1. /\ runner' \in RunnerSet /\ runDisk' \in {runDisk, marked} /\ runner'.granted = FALSE
          /\ runner'.store = s.store /\ runner'.dry = s.dry /\ runner'.claimed = s.claimed
          /\ runner'.failure = s.failure /\ runner'.records = s.records /\ runner'.answer = s.answer
          /\ \/ runner'.pc = s.pc /\ runner'.memory = marked /\ runDisk' = marked
             \/ runner'.pc = "cleanup_failed" /\ runner'.memory = s.memory
      <3>1. s \in RunnerSet /\ marked \in RunFiles /\ runner.pc = "clean"
        BY <1>0, <1>8, <1>10
      <3> HIDE DEF QualificationInv
      <3> QED
        BY <2>0, <3>1, ReplaceInCleanup
    <2>2. CASE runner'.pc = "cleanup_failed" /\ runner'.memory = s.memory
      BY <1>8, <1>10, <1>13, <2>0, <2>2
    <2>3. CASE runner'.pc = "clean" /\ runner'.memory = marked /\ runDisk' = marked
      <3>1. QualificationType'
        BY <1>0, <1>3, <1>8, <1>12, <2>1, <2>3 DEF QualificationType
      <3>2. SentInOrder' /\ OutcomesRecorded'
        BY <1>0, <1>10, <2>1, <2>3, OrdersStay DEF SentInOrder, OutcomesRecorded
      <3>3. FileKnown' /\ AnswersEarned'
        BY <1>0, <1>1, <1>8, <1>10, <2>1, <2>3 DEF FileKnown, AnswersEarned
      <3>4. runner'.claimed = {cleanups'[i] : i \in DOMAIN cleanups'}
        <4>1. cleanups' = Append(cleanups, f) /\ cleanups \in Seq(Fixtures)
          BY <1>0, <1>3, <1>14 DEF QualificationType
        <4>2. runner.claimed = {cleanups[i] : i \in DOMAIN cleanups}
          BY <1>0 DEF CleanedInOrder
        <4>3. /\ DOMAIN cleanups' = DOMAIN cleanups \cup {Len(cleanups) + 1}
              /\ cleanups'[Len(cleanups) + 1] = f
              /\ \A i \in DOMAIN cleanups : cleanups'[i] = cleanups[i]
          BY <1>2, <4>1
        <4> QED
          BY <1>10, <2>1, <4>2, <4>3
      <3>5. \A g \in DOMAIN depends :
               runner'.memory.fixtures[g] = IF g \in runner'.claimed THEN "cleaned" ELSE "pending"
        BY <1>0, <1>5, <1>8, <1>10, <1>14, <2>1, <2>3 DEF CleanedInOrder
      <3>6. CleanedInOrder'
        BY <1>0, <1>1, <1>5, <1>8, <1>12, <2>1, <2>3, <3>4, <3>5, OrdersStay DEF CleanedInOrder
      <3> QED
        BY <3>1, <3>2, <3>3, <3>6
    <2> QED
      BY <1>10, <2>1, <2>2, <2>3
  <1>15. CASE settled # "cleaned"
    <2>1. /\ runner' \in RunnerSet /\ runDisk' \in {runDisk, c} /\ runner'.granted = FALSE
          /\ runner'.store = t.store /\ runner'.dry = t.dry /\ runner'.claimed = t.claimed
          /\ runner'.failure = t.failure /\ runner'.records = t.records /\ runner'.answer = t.answer
          /\ \/ runner'.pc = t.pc /\ runner'.memory = c /\ runDisk' = c
             \/ runner'.pc = "cleanup_failed" /\ runner'.memory = t.memory
      BY <1>0, <1>7, <1>9, <1>11, <1>15, ReplaceInCleanup
    <2>2. CASE runner'.pc = "cleanup_failed" /\ runner'.memory = t.memory
      BY <1>7, <1>9, <1>10, <1>11, <1>13, <1>15, <2>2
    <2>3. CASE runner'.pc = "report" /\ runner'.memory = c /\ runDisk' = c
      <3>1. QualificationType'
        BY <1>0, <1>3, <1>9, <1>12, <2>1, <2>3 DEF QualificationType
      <3>2. SentInOrder' /\ OutcomesRecorded'
        BY <1>0, <1>10, <1>11, <2>1, <2>3, OrdersStay DEF SentInOrder, OutcomesRecorded
      <3>3. FileKnown' /\ AnswersEarned'
        BY <1>0, <1>1, <1>9, <1>10, <1>11, <2>1, <2>3 DEF FileKnown, AnswersEarned
      <3>4. CleanedInOrder'
        BY <1>0, <1>1, <1>12, <2>1, <2>3, OrdersStay DEF CleanedInOrder
      <3> QED
        BY <3>1, <3>2, <3>3, <3>4
    <2> QED
      BY <1>11, <2>1, <2>2, <2>3
  <1> QED
    BY <1>14, <1>15

(* Publication is granted with the completed file, and with it only.       *)
LEMMA PersistCompletionKeeps ==
    ASSUME QualificationInv, NEW outcome \in WriteOutcomes, NEW lostBinding \in BOOLEAN,
           PersistCompletion(outcome, lostBinding)
    PROVE  QualificationInv'
  <1> USE DEF QualificationInv
  <1> DEFINE c == [runner.memory EXCEPT !.state = "completed"]
             r == [runner EXCEPT !.halted = TRUE]
  <1>0. /\ QualificationType /\ runner \in RunnerSet /\ runDisk \in RunFiles /\ runner.pc = "persist"
        /\ UNCHANGED <<policy, depends, transport, cleanups, dispatched, abandoned, openings>>
        /\ transport' \in [requests : Nat, mutations : Nat, exhausted : BOOLEAN, limited : BOOLEAN]
    BY DEF QualificationType, PersistCompletion
  <1>1. /\ runner.memory \in RunFiles /\ runner.store \in {"ephemeral", "file"}
        /\ runner.store = "file" => runDisk = runner.memory
        /\ runner.failure = "none" /\ \A a \in Actions : runner.records[a] # "none"
    BY <1>0 DEF FileKnown, RunnerSet, OutcomesRecorded
  <1>2. c \in RunFiles /\ c.state = "completed" /\ c.fixtures = runner.memory.fixtures
    BY <1>1 DEF RunFiles
  <1>3. /\ r \in RunnerSet /\ r.memory = runner.memory /\ r.store = runner.store
        /\ r.dry = runner.dry /\ r.answer = runner.answer
    BY <1>0 DEF RunnerSet
  <1>4. \/ /\ runner.store = "ephemeral" /\ runDisk' = runDisk
           /\ runner' = [runner EXCEPT !.memory = c, !.granted = TRUE, !.pc = "done", !.answer = "completed"]
        \/ /\ runner.store = "file" /\ runner.memory.state = "failed" /\ MayComplete(runner.memory)
           /\ \/ /\ runDisk' = c
                 /\ runner' = [runner EXCEPT !.memory = c, !.granted = TRUE, !.pc = "done", !.answer = "completed"]
              \/ outcome # "written" /\ Replace(r, c, outcome, lostBinding)
        \/ /\ runner.store = "file" /\ runDisk' = runDisk
           /\ runner' = [runner EXCEPT !.halted = TRUE, !.pc = "failing"]
    <2>1. [runner EXCEPT !.memory.state = "completed", !.granted = TRUE, !.pc = "done", !.answer = "completed"]
          = [runner EXCEPT !.memory = c, !.granted = TRUE, !.pc = "done", !.answer = "completed"]
      BY <1>0 DEF RunnerSet
    <2> HIDE DEF QualificationInv, c, r
    <2>2. c = [runner.memory EXCEPT !.state = "completed"] /\ r = [runner EXCEPT !.halted = TRUE]
      BY DEF c, r
    <2>3. CASE runner.store = "ephemeral"
      BY <1>1, <2>1, <2>3 DEF PersistCompletion
    <2>4. CASE runner.store # "ephemeral"
      BY <1>1, <2>2, <2>4 DEF PersistCompletion
    <2> QED
      BY <2>3, <2>4
  <1> HIDE DEF c, r
  <1>5. ASSUME runner' = [runner EXCEPT !.memory = c, !.granted = TRUE, !.pc = "done", !.answer = "completed"],
               runDisk' \in RunFiles,
               runner.store = "ephemeral" => runDisk' = runDisk,
               runner.store = "file" =>
                  runDisk' = c /\ runner.memory.state = "failed" /\ MayComplete(runner.memory)
        PROVE  QualificationInv'
    <2>1. /\ runner' \in RunnerSet /\ runner'.pc = "done" /\ runner'.memory = c /\ runner'.granted = TRUE
          /\ runner'.answer = "completed" /\ runner'.store = runner.store /\ runner'.dry = runner.dry
          /\ runner'.records = runner.records /\ runner'.claimed = runner.claimed
      <3>1. runner' \in RunnerSet
        BY <1>0, <1>2, <1>5 DEF RunnerSet, RunnerLabels
      <3> QED
        BY <1>0, <1>2, <1>5, <3>1 DEF RunnerSet
    <2>2. QualificationType'
      BY <1>0, <1>5, <2>1 DEF QualificationType
    <2>3. SentInOrder' /\ OutcomesRecorded'
      BY <1>0, <2>1 DEF SentInOrder, OutcomesRecorded
    <2>4. FileKnown'
      BY <1>0, <1>1, <1>2, <1>5, <2>1 DEF FileKnown
    <2>5. CleanedInOrder'
      BY <1>0, <1>2, <2>1, OrdersStay DEF CleanedInOrder
    <2>6. runner.store = "file" => \A f \in DOMAIN depends : runDisk'.fixtures[f] = "cleaned"
      BY <1>0, <1>1, <1>2, <1>5 DEF CleanedInOrder, MayComplete
    <2>7. \A a \in Actions : dispatched[a] > 0 => runner.records[a] \in Known
      BY <1>0, <1>1 DEF OutcomesRecorded
    <2>8. AnswersEarned'
      BY <1>0, <1>1, <1>2, <1>5, <2>1, <2>6, <2>7 DEF AnswersEarned
    <2> QED
      BY <2>2, <2>3, <2>4, <2>5, <2>8
  <1>6. CASE Replace(r, c, outcome, lostBinding) /\ outcome # "written" /\ runner.memory.state = "failed"
             /\ runner.store = "file"
    <2>1. /\ runner' \in RunnerSet /\ runDisk' \in {runDisk, c} /\ runner'.granted = FALSE
          /\ runner'.store = r.store /\ runner'.dry = r.dry /\ runner'.answer = r.answer
          /\ runner'.pc = "failing" /\ runner'.memory = r.memory
      <3>1. /\ c \in RunFiles /\ r \in RunnerSet /\ Replace(r, c, outcome, lostBinding)
            /\ outcome # "written" /\ runner.pc = "persist"
        BY <1>0, <1>2, <1>3, <1>6
      <3> HIDE DEF QualificationInv
      <3> QED
        BY <3>1, ReplaceFields
    <2>2. ~abandoned
      BY <1>1, <1>6 DEF FileKnown
    <2> QED
      BY <1>0, <1>1, <1>2, <1>3, <1>6, <2>1, <2>2, FailingKeeps DEF CleanedInOrder, QualificationType
  <1>7. CASE runner' = [runner EXCEPT !.halted = TRUE, !.pc = "failing"] /\ runDisk' = runDisk
             /\ runner.store = "file"
    <2>1. /\ runner' \in RunnerSet /\ runner'.pc = "failing" /\ runner'.granted = runner.granted
          /\ runner'.store = runner.store /\ runner'.dry = runner.dry /\ runner'.answer = runner.answer
          /\ runner'.memory = runner.memory
      BY <1>0, <1>7 DEF RunnerSet, RunnerLabels
    <2>2. runner.granted = FALSE
      BY <1>0 DEF AnswersEarned, RunnerSet
    <2> QED
      BY <1>0, <1>7, <2>1, <2>2, FailingKeeps DEF CleanedInOrder, QualificationType
  <1> QED
    BY <1>0, <1>2, <1>4, <1>5, <1>6, <1>7

(* A process that fails after a request leaves a quarantine or raises.     *)
LEMMA TerminalizeKeeps ==
    ASSUME QualificationInv, NEW outcome \in WriteOutcomes, NEW lostBinding \in BOOLEAN,
           Terminalize(outcome, lostBinding)
    PROVE  QualificationInv'
  <1> USE DEF QualificationInv
  <1> DEFINE sent == transport.requests > 0
             reply == IF sent THEN "quarantined" ELSE "failed"
             stopped == runner.halted \/ sent
             r == [runner EXCEPT !.pc = "done", !.records = FailureRecords, !.answer = reply,
                                 !.halted = stopped]
             c == Quarantined(runner.memory)
  <1>0. /\ QualificationType /\ runner \in RunnerSet /\ runDisk \in RunFiles /\ runner.pc = "failing"
        /\ UNCHANGED <<policy, depends, transport, cleanups, dispatched, abandoned, openings>>
        /\ runner.granted = FALSE /\ runner.memory \in RunFiles
    BY DEF QualificationType, Terminalize, AnswersEarned, RunnerSet
  <1>1. FailureRecords \in [Actions -> RecordStates]
    BY <1>0 DEF FailureRecords, RecordStates, Statuses, PolicyStatus
  <1>2. c \in RunFiles /\ c.state = "quarantined"
    BY <1>0, QuarantinedFile
  <1>3. /\ r = [runner EXCEPT !.pc = "done", !.records = FailureRecords,
                              !.answer = IF sent THEN "quarantined" ELSE "failed", !.halted = @ \/ sent]
        /\ stopped \in BOOLEAN /\ reply \in {"quarantined", "failed"} /\ sent \in BOOLEAN
    BY <1>0 DEF RunnerSet, QualificationType
  <1>4. \/ (~sent \/ runner.store = "none") /\ runner' = r /\ runDisk' = runDisk
        \/ /\ sent /\ runner.store # "none"
           /\ runner.memory.state = "quarantined" \/ outcome = "written"
           /\ Quarantine(r, outcome, FALSE)
        \/ /\ sent /\ runner.store # "none" /\ runDisk' \in {runDisk, c}
           /\ runner' = [runner EXCEPT !.pc = "done", !.answer = "raised", !.granted = FALSE]
    <2> HIDE DEF r, QualificationInv, c, sent
    <2>1. sent = (transport.requests > 0) /\ c = Quarantined(runner.memory)
      BY DEF sent, c
    <2> QED
      BY <1>3, <2>1 DEF Terminalize
  <1>5. sent => ~ runner.dry /\ runner.store \in {"none", "file"}
    BY <1>0 DEF FileKnown, QualificationType, RunnerSet
  <1> HIDE DEF sent, c
  <1>6. /\ r \in RunnerSet /\ r.pc = "done" /\ r.answer = reply /\ r.memory = runner.memory
        /\ r.store = runner.store /\ r.dry = runner.dry /\ r.claimed = runner.claimed /\ r.granted = FALSE
    <2> HIDE DEF reply, stopped
    <2>1. r \in RunnerSet
      BY <1>0, <1>1, <1>3 DEF RunnerSet, RunnerLabels
    <2> QED
      BY <1>0, <1>1, <1>3, <2>1 DEF RunnerSet
  <1> HIDE DEF r
  <1>7. ASSUME runner' \in RunnerSet, runner'.pc = "done", runner'.granted = FALSE,
               runner'.store = runner.store, runner'.dry = runner.dry, runner'.claimed = runner.claimed,
               runner'.answer \in {"failed", "quarantined", "raised"},
               runner'.answer = "quarantined" /\ runner.store = "file" => runDisk'.state = "quarantined",
               runDisk' \in RunFiles,
               runDisk' = runDisk \/ (runDisk'.state = "quarantined" /\ runner.store = "file"),
               runner'.memory.state = "quarantined" =>
                  runner.memory.state = "quarantined" \/ runDisk'.state = "quarantined"
        PROVE  QualificationInv'
    <2>1. QualificationType'
      BY <1>0, <1>7 DEF QualificationType
    <2>2. SentInOrder' /\ OutcomesRecorded'
      BY <1>0, <1>7 DEF SentInOrder, OutcomesRecorded
    <2>3. FileKnown'
      BY <1>0, <1>7 DEF FileKnown
    <2>4. CleanedInOrder'
      BY <1>0, <1>7, OrdersStay DEF CleanedInOrder
    <2>5. AnswersEarned'
      BY <1>0, <1>7 DEF AnswersEarned
    <2> QED
      BY <2>1, <2>2, <2>3, <2>4, <2>5
  <1>8. CASE (~sent \/ runner.store = "none") /\ runner' = r /\ runDisk' = runDisk
    <2>1. reply \in {"failed", "quarantined"} /\ (reply = "quarantined" => runner.store # "file")
      BY <1>8
    <2> HIDE DEF QualificationInv, reply
    <2>2. runner' = r /\ runDisk' = runDisk
      BY <1>8
    <2>3. /\ runner'.answer \in {"failed", "quarantined", "raised"}
          /\ ~ (runner'.answer = "quarantined" /\ runner.store = "file")
          /\ runner' \in RunnerSet /\ runner'.pc = "done" /\ runner'.granted = FALSE
          /\ runner'.store = runner.store /\ runner'.dry = runner.dry /\ runner'.claimed = runner.claimed
          /\ runner'.memory = runner.memory
      BY <1>6, <2>1, <2>2
    <2> QED
      BY <1>0, <1>7, <2>2, <2>3
  <1>9. CASE sent /\ runner.store # "none" /\ Quarantine(r, outcome, FALSE)
             /\ (runner.memory.state = "quarantined" \/ outcome = "written")
    <2>1. runner.store = "file" /\ reply = "quarantined"
      BY <1>5, <1>9
    <2> HIDE DEF reply
    <2>2. CASE runner.memory.state = "quarantined"
      <3>1. runner' = [r EXCEPT !.memory = Quarantined(r.memory)] /\ runDisk' = runDisk
        BY <1>6, <1>9, <2>2 DEF Quarantine, RunnerSet
      <3>2. Quarantined(r.memory) = r.memory
        BY <1>0, <1>6, <2>2, QuarantinedFile
      <3>3. runner' = r
        BY <1>6, <3>1, <3>2 DEF RunnerSet
      <3>4. runDisk.state = "quarantined"
        BY <2>1, <2>2 DEF FileKnown
      <3> QED
        BY <1>0, <1>6, <1>7, <2>1, <3>1, <3>3, <3>4
    <2>3. CASE runner.memory.state # "quarantined"
      <3>1. outcome = "written" /\ Replace(r, c, outcome, FALSE)
        BY <1>6, <1>9, <2>1, <2>3 DEF Quarantine, c
      <3>2. /\ runner' \in RunnerSet /\ runner'.granted = FALSE
            /\ runner'.store = r.store /\ runner'.dry = r.dry /\ runner'.claimed = r.claimed
            /\ runner'.answer = r.answer
            /\ \/ runner'.pc = r.pc /\ runner'.memory = c /\ runDisk' = c
               \/ runner'.pc = "failing"
        BY <1>0, <1>2, <1>6, <3>1, ReplaceFields
      <3>3. runner'.pc = "done" /\ runDisk' = c
        BY <1>6, <3>1 DEF Replace, RunnerSet
      <3> QED
        BY <1>0, <1>2, <1>6, <1>7, <2>1, <3>2, <3>3
    <2> QED
      BY <2>2, <2>3
  <1>10. CASE sent /\ runner.store # "none" /\ runDisk' \in {runDisk, c}
              /\ runner' = [runner EXCEPT !.pc = "done", !.answer = "raised", !.granted = FALSE]
    <2>1. /\ runner' \in RunnerSet /\ runner'.pc = "done" /\ runner'.answer = "raised"
          /\ runner'.memory = runner.memory /\ runner'.granted = FALSE
          /\ runner'.store = runner.store /\ runner'.dry = runner.dry /\ runner'.claimed = runner.claimed
      BY <1>0, <1>10 DEF RunnerSet, RunnerLabels
    <2> QED
      BY <1>0, <1>2, <1>5, <1>7, <1>10, <2>1
  <1> QED
    BY <1>4, <1>8, <1>9, <1>10

(* The next process knows nothing; what it finds failed was abandoned.     *)
LEMMA ReopenKeeps ==
    ASSUME QualificationInv, NEW reads \in BOOLEAN, Reopen(reads)
    PROVE  QualificationInv'
  <1> USE DEF QualificationInv
  <1>0. /\ QualificationType /\ runDisk \in RunFiles /\ runDisk' = runDisk
        /\ runner' = [NewRunner EXCEPT !.reads = reads] /\ policy' = policy /\ depends' = depends
        /\ transport' = FreshTransport /\ cleanups' = <<>> /\ dispatched' = [a \in Actions |-> 0]
        /\ abandoned' = (abandoned \/ runDisk.state = "failed") /\ openings' = openings + 1
    BY DEF QualificationType, Reopen
  <1>1. NewRunner \in RunnerSet
    BY NewFiles DEF NewRunner, RunnerSet, RunnerLabels, RunFailures, RecordStates
  <1>2. /\ runner' \in RunnerSet /\ runner'.pc = "new" /\ runner'.at = 1 /\ runner'.store = "none"
        /\ runner'.claimed = {} /\ runner'.granted = FALSE /\ runner'.answer = "none" /\ runner'.dry = FALSE
    <2>1. runner' \in RunnerSet
      BY <1>0, <1>1 DEF RunnerSet
    <2> QED
      BY <1>0, <2>1 DEF NewRunner
  <1>3. QualificationType'
    <2>1. transport' \in [requests : Nat, mutations : Nat, exhausted : BOOLEAN, limited : BOOLEAN]
      BY <1>0 DEF FreshTransport
    <2>2. dispatched' \in [Actions -> Nat] /\ cleanups' \in Seq(Fixtures)
      BY <1>0
    <2>3. abandoned' \in BOOLEAN /\ openings' \in Nat
      BY <1>0 DEF QualificationType
    <2> QED
      BY <1>0, <1>2, <2>1, <2>2, <2>3 DEF QualificationType
  <1>4. SentInOrder' /\ OutcomesRecorded'
    BY <1>0, <1>2 DEF SentInOrder, OutcomesRecorded
  <1>5. FileKnown'
    BY <1>0, <1>2 DEF FileKnown
  <1>6. CleanedInOrder'
    <2>1. Len(CleanupOrder') \in Nat
      BY <1>0, OrdersStay, CleanupPlaced
    <2> QED
      BY <1>0, <1>2, <2>1 DEF CleanedInOrder
  <1>7. AnswersEarned'
    BY <1>0, <1>2 DEF AnswersEarned
  <1> QED
    BY <1>3, <1>4, <1>5, <1>6, <1>7

(* QualificationInv is inductive.                                          *)
LEMMA QualificationKept == QualificationInv /\ [QualificationNext]_qualificationVars => QualificationInv'
  <1> SUFFICES ASSUME QualificationInv, [QualificationNext]_qualificationVars PROVE QualificationInv'
    OBVIOUS
  <1>1. CASE UNCHANGED qualificationVars
    <2> USE <1>1 DEF qualificationVars
    <2>1. QualificationType' /\ SentInOrder' /\ OutcomesRecorded'
      BY OrdersStay DEF QualificationInv, QualificationType, SentInOrder, OutcomesRecorded
    <2>2. FileKnown' /\ CleanedInOrder' /\ AnswersEarned'
      BY OrdersStay DEF QualificationInv, FileKnown, CleanedInOrder, AnswersEarned
    <2> QED
      BY <2>1, <2>2 DEF QualificationInv
  <1>2. CASE \E outcome \in WriteOutcomes : SelectStore(outcome)
    BY <1>2, SelectStoreKeeps
  <1>3. CASE \E failure \in PreflightFailures : Preflight(failure)
    BY <1>3, PreflightKeeps
  <1>4. CASE \E sent \in 0 .. 2, verified \in BOOLEAN : Authenticate(sent, verified)
    BY <1>4, AuthenticateKeeps
  <1>5. CASE \E readable \in BOOLEAN : LoadContracts(readable)
    BY <1>5, LoadContractsKeeps
  <1>6. CASE NextAction \/ ActionsDone \/ NotSent \/ BudgetExhausted \/ AuditRead
    BY <1>6, NextActionKeeps, ActionsDoneKeeps, NotSentKeeps, BudgetExhaustedKeeps, AuditReadKeeps
  <1>7. CASE \E status \in Statuses, limited \in BOOLEAN : Sent(status, limited)
    BY <1>7, SentKeeps
  <1>8. ASSUME NEW outcome \in WriteOutcomes, NEW lostBinding \in BOOLEAN,
               \/ AuditLost(outcome, lostBinding) \/ RecordFixtures(outcome, lostBinding)
               \/ QuarantineCleanup(outcome, lostBinding) \/ PersistCompletion(outcome, lostBinding)
               \/ Terminalize(outcome, lostBinding)
               \/ \E settled \in {"cleaned", "failed", "outcome_unknown"} :
                     CleanFixture(settled, outcome, lostBinding)
        PROVE  QualificationInv'
    BY <1>8, AuditLostKeeps, RecordFixturesKeeps, QuarantineCleanupKeeps, PersistCompletionKeeps,
       TerminalizeKeeps, CleanFixtureKeeps
  <1>9. CASE FillRecords \/ CleanupNotNeeded \/ CleanupRefused \/ CleanupDone \/ Report \/ UnexpectedError
    BY <1>9, FillRecordsKeeps, CleanupNotNeededKeeps, CleanupRefusedKeeps, CleanupDoneKeeps, ReportKeeps, UnexpectedErrorKeeps
  <1>10. CASE \E reads \in BOOLEAN : Reopen(reads)
    BY <1>10, ReopenKeeps
  <1> QED
    BY <1>1, <1>2, <1>3, <1>4, <1>5, <1>6, <1>7, <1>8, <1>9, <1>10 DEF QualificationNext

(* QualificationInv holds in every behaviour: each process sends in the    *)
(* order of the plan, keeps its records and its file in agreement, and     *)
(* cleans up along the coordinator's order.                                *)
THEOREM QualificationInvariant == QualificationSpec => []QualificationInv
  BY QualificationStarts, QualificationKept, PTL DEF QualificationSpec

(* What is published was earned.                                           *)
LEMMA PublishedEarned == QualificationInv => PublicationEarned
  BY DEF QualificationInv, AnswersEarned, SentInOrder, PublicationEarned, Known

(* Whoever depends on a fixture stands before it in the coordinator's      *)
(* order, of which the cleanups are a prefix.                              *)
LEMMA CleanedOrderly == QualificationInv => FixturesCleanedInOrder
  <1> SUFFICES ASSUME QualificationInv, NEW i \in 1 .. Len(cleanups)
               PROVE  /\ \A j \in 1 .. Len(cleanups) : cleanups[i] = cleanups[j] => i = j
                      /\ \A f \in DOMAIN depends : cleanups[i] \in depends[f] =>
                            \E j \in 1 .. (i - 1) : cleanups[j] = f
    BY DEF FixturesCleanedInOrder
  <1>1. /\ cleanups \in Seq(Fixtures) /\ Len(cleanups) <= Len(CleanupOrder)
        /\ \A k \in DOMAIN cleanups : cleanups[k] = CleanupOrder[k]
        /\ cleanups # <<>> => Acyclic(DOMAIN depends, depends)
    BY DEF QualificationInv, QualificationType, CleanedInOrder
  <1>2. /\ CleanupOrder \in Seq(DOMAIN depends)
        /\ \A k, j \in DOMAIN CleanupOrder : CleanupOrder[k] = CleanupOrder[j] => k = j
        /\ \A k \in DOMAIN CleanupOrder : \A x \in depends[CleanupOrder[k]] :
              \E j \in DOMAIN CleanupOrder : k < j /\ CleanupOrder[j] = x
        /\ Acyclic(DOMAIN depends, depends) =>
              \A f \in DOMAIN depends : \E k \in DOMAIN CleanupOrder : CleanupOrder[k] = f
    BY CleanupPlaced DEF QualificationInv
  <1>3. /\ DOMAIN cleanups = 1 .. Len(cleanups) /\ Len(cleanups) \in Nat
        /\ DOMAIN CleanupOrder = 1 .. Len(CleanupOrder) /\ Len(CleanupOrder) \in Nat
    BY <1>1, <1>2
  <1>4. cleanups # <<>>
    BY <1>3
  <1>5. \A j \in 1 .. Len(cleanups) : cleanups[i] = cleanups[j] => i = j
    BY <1>1, <1>2, <1>3
  <1>6. ASSUME NEW f \in DOMAIN depends, cleanups[i] \in depends[f]
        PROVE  \E j \in 1 .. (i - 1) : cleanups[j] = f
    <2>1. PICK k \in DOMAIN CleanupOrder : CleanupOrder[k] = f
      BY <1>1, <1>2, <1>4
    <2>2. PICK j \in DOMAIN CleanupOrder : k < j /\ CleanupOrder[j] = cleanups[i]
      BY <1>2, <1>6, <2>1
    <2>3. i \in DOMAIN CleanupOrder /\ CleanupOrder[i] = cleanups[i]
      BY <1>1, <1>3
    <2>4. j = i
      BY <1>2, <2>2, <2>3
    <2>5. k \in 1 .. (i - 1) /\ k \in DOMAIN cleanups
      BY <1>1, <1>3, <2>1, <2>2, <2>4
    <2> QED
      BY <1>1, <2>1, <2>5
  <1> QED
    BY <1>5, <1>6

\* What no step may do to the file.
QuarantineHolds ==
    /\ runDisk.state = "quarantined" => runDisk'.state = "quarantined"
    /\ runDisk'.state = "completed" => ~abandoned
    /\ runner'.answer = "quarantined" /\ runner'.store = "file" => runDisk'.state = "quarantined"

(* The steps that write the file leave a quarantine in place: the next     *)
(* process takes it over, and the others only know a file they quarantined *)
(* or one that was not.                                                    *)
LEMMA QuarantineStays ==
    ASSUME QualificationInv, QualificationNext, runDisk.state = "quarantined"
    PROVE  runDisk'.state = "quarantined"
  <1>0. /\ QualificationType /\ FileKnown /\ runDisk \in RunFiles /\ runner \in RunnerSet
        /\ runner.memory \in RunFiles /\ CleanedInOrder
    BY DEF QualificationInv, QualificationType, RunnerSet
  <1>1. Quarantined(runner.memory).state = "quarantined"
    BY <1>0, QuarantinedFile
  <1>2. ASSUME NEW outcome \in WriteOutcomes, SelectStore(outcome) PROVE runDisk'.state = "quarantined"
    BY <1>2 DEF SelectStore, Recovered, NoRunFile
  <1>3. ASSUME NEW outcome \in WriteOutcomes, NEW lostBinding \in BOOLEAN, AuditLost(outcome, lostBinding)
        PROVE  runDisk'.state = "quarantined"
    <2>1. runner.store = "file" /\ runDisk = runner.memory
      BY <1>0, <1>3 DEF FileKnown, AuditLost, RunnerSet
    <2>2. "outcome_unknown" \in RecordStates /\ "outcome_unknown" \in RunFailures
      BY DEF RecordStates, RunFailures, Statuses
    <2> DEFINE r == [Recorded(runner, "outcome_unknown") EXCEPT !.failure = "outcome_unknown"]
    <2>3. r.memory = runner.memory
      BY <1>0 DEF Recorded, RunnerSet
    <2>4. Quarantine(r, outcome, lostBinding)
      BY <1>3 DEF AuditLost, OutcomeUnknown
    <2> HIDE DEF r
    <2> QED
      BY <2>1, <2>3, <2>4 DEF Quarantine
  <1>4. ASSUME NEW outcome \in WriteOutcomes, NEW lostBinding \in BOOLEAN,
               RecordFixtures(outcome, lostBinding)
        PROVE  FALSE
    BY <1>0, <1>4 DEF RecordFixtures, FileKnown, RunnerSet
  <1>16. ASSUME NEW outcome \in WriteOutcomes, NEW lostBinding \in BOOLEAN,
                QuarantineCleanup(outcome, lostBinding)
         PROVE  runDisk'.state = "quarantined"
    <2> DEFINE r == [runner EXCEPT !.pc = "report"]
    <2>1. r.memory = runner.memory
      BY <1>0 DEF RunnerSet
    <2>2. runDisk' = runDisk \/ Quarantine(r, outcome, lostBinding)
      BY <1>16 DEF QuarantineCleanup
    <2> HIDE DEF r
    <2> QED
      BY <1>1, <2>1, <2>2 DEF Quarantine, Replace
  <1>5. ASSUME NEW outcome \in WriteOutcomes, NEW lostBinding \in BOOLEAN,
               PersistCompletion(outcome, lostBinding)
        PROVE  runDisk'.state = "quarantined"
    BY <1>0, <1>5 DEF PersistCompletion, FileKnown, RunnerSet
  <1>6. ASSUME NEW outcome \in WriteOutcomes, NEW lostBinding \in BOOLEAN, Terminalize(outcome, lostBinding)
        PROVE  runDisk'.state = "quarantined"
    <2> DEFINE sent == transport.requests > 0
               r == [runner EXCEPT !.pc = "done", !.records = FailureRecords,
                                   !.answer = IF sent THEN "quarantined" ELSE "failed",
                                   !.halted = @ \/ sent]
    <2>1. r.memory = runner.memory
      BY <1>0 DEF RunnerSet
    <2>2. runDisk' \in {runDisk, Quarantined(runner.memory)} \/ Quarantine(r, outcome, FALSE)
      BY <1>6 DEF Terminalize
    <2> HIDE DEF r
    <2> QED
      BY <1>1, <2>1, <2>2 DEF Quarantine, Replace
  <1>7. ASSUME NEW outcome \in WriteOutcomes, NEW lostBinding \in BOOLEAN,
               NEW settled \in {"cleaned", "failed", "outcome_unknown"}, CleanFixture(settled, outcome, lostBinding)
        PROVE  FALSE
    BY <1>0, <1>7 DEF CleanFixture, FileKnown, CleanedInOrder, RunnerSet
  <1>8. CASE runDisk' = runDisk
    BY <1>8
  <1>9. CASE \E failure \in PreflightFailures : Preflight(failure)
    BY <1>8, <1>9 DEF Preflight
  <1>10. CASE \E sent \in 0 .. 2, verified \in BOOLEAN : Authenticate(sent, verified)
    BY <1>8, <1>10 DEF Authenticate
  <1>11. CASE \E readable \in BOOLEAN : LoadContracts(readable)
    BY <1>8, <1>11 DEF LoadContracts
  <1>12. CASE NextAction \/ ActionsDone \/ NotSent \/ BudgetExhausted \/ AuditRead
    BY <1>8, <1>12 DEF NextAction, ActionsDone, NotSent, BudgetExhausted, AuditRead
  <1>13. CASE \E status \in Statuses, limited \in BOOLEAN : Sent(status, limited)
    BY <1>8, <1>13 DEF Sent
  <1>14. CASE FillRecords \/ CleanupNotNeeded \/ CleanupRefused \/ CleanupDone \/ Report \/ UnexpectedError
    BY <1>8, <1>14 DEF FillRecords, CleanupNotNeeded, CleanupRefused, CleanupDone, Report, UnexpectedError
  <1>15. CASE \E reads \in BOOLEAN : Reopen(reads)
    BY <1>8, <1>15 DEF Reopen
  <1> QED
    BY <1>2, <1>3, <1>4, <1>5, <1>6, <1>7, <1>9, <1>10, <1>11, <1>12, <1>13, <1>14, <1>15, <1>16
       DEF QualificationNext

(* A run that was abandoned is never completed: that is what FileKnown     *)
(* says of the state after the step, and abandoned is never taken back.    *)
LEMMA QuarantineKept ==
    ASSUME QualificationInv, QualificationInv', QualificationNext
    PROVE  QuarantineHolds
  <1>1. abandoned => abandoned'
    BY DEF QualificationNext, SelectStore, Preflight, Authenticate, LoadContracts, NextAction, ActionsDone,
           NotSent, BudgetExhausted, AuditRead, Sent, AuditLost, RecordFixtures, CleanupRefused,
           QuarantineCleanup, PersistCompletion, Terminalize, CleanFixture, FillRecords, CleanupNotNeeded, CleanupDone,
           Report, UnexpectedError, Reopen
  <1>2. abandoned' => runDisk'.state \in {"quarantined", "failed"}
    BY DEF QualificationInv, FileKnown
  <1>3. runner'.answer = "quarantined" /\ runner'.store = "file" => runDisk'.state = "quarantined"
    BY DEF QualificationInv, AnswersEarned
  <1> QED
    BY <1>1, <1>2, <1>3, QuarantineStays DEF QuarantineHolds

(* A qualification run publishes only what its own process completed, with *)
(* every fixture clean and every sent read's outcome known; it cleans each *)
(* fixture once and after its dependents; and neither a quarantine nor an  *)
(* abandoned run is ever turned into a completed one.                      *)
THEOREM QualificationTheorem == QualificationSpec => QualificationSound
  <1>1. QualificationInv /\ QualificationInv' /\ [QualificationNext]_qualificationVars
        => [QuarantineHolds]_qualificationVars
    BY QuarantineKept
  <1> DEFINE Step == [][QuarantineHolds]_qualificationVars
  <1>2. Step => QuarantineIsFinal
    BY PTL DEF QuarantineHolds, QuarantineIsFinal
  <1> QED
    BY <1>1, <1>2, QualificationInvariant, PublishedEarned, CleanedOrderly, PTL
       DEF QualificationSpec, QualificationSound
-----------------------------------------------------------------------------
(* Flows.  What a frame and a result hold.                                 *)
Origins == {"absent", "plain", "erp"}
Carried == {"plain", "erp"}
EnvPaths == {<<"env", n>> : n \in Names}
CallSet ==
    [name : {"none", "runFlow", "repeat", "retry"}, save : Saves, marked : BOOLEAN,
     over : UNION {[K -> Carried] : K \in SUBSET Names}, overMarked : BOOLEAN, whole : BOOLEAN,
     while : SUBSET EnvPaths, left : Nat, seen : Carried, tainted : BOOLEAN, loose : Carried]
Held == Names \cup {"env"}
MarkPaths == Paths \cup {<<"env">>}
FrameSet ==
    [env : [Names -> Origins], saved : [Held -> Origins], marks : SUBSET MarkPaths,
     artifacts : SUBSET [value : Carried, marked : BOOLEAN], heard : Carried, at : Nat,
     retrying : BOOLEAN, call : CallSet]
FlowResults ==
    [status : {"none", "ok", "planned", "blocked", "confirmation_required", "erp_to_cloud_taint"},
     tainted : BOOLEAN, value : Carried, loose : Carried]

FlowType ==
    /\ built \in [dry : BOOLEAN, erp : BOOLEAN, gate : BOOLEAN] /\ ~(built.erp /\ built.gate)
    /\ frames \in Seq(FrameSet)
    /\ phase \in {"idle", "running", "returning", "raising", "refusing"}
    /\ result \in FlowResults
    /\ previews \in Nat /\ uploaded \in BOOLEAN /\ escaped \in BOOLEAN

\* What an ERP read returned is where a mark can be seen.
Marked(f) ==
    /\ \A n \in Names : f.env[n] = "erp" => <<n>> \in f.marks /\ <<"env", n>> \in f.marks
    /\ \A n \in Held : f.saved[n] = "erp" => <<n>> \in f.marks
    /\ \A a \in f.artifacts : a.value = "erp" => f.marks # {}
    /\ \A n \in DOMAIN f.call.over : f.call.over[n] = "erp" => f.call.overMarked \/ f.call.whole
    /\ f.call.seen = "erp" => f.call.tainted

\* Nothing of an ERP read is here.
ErpFree(f) ==
    /\ \A n \in Names : f.env[n] # "erp"
    /\ \A n \in Held : f.saved[n] # "erp"
    /\ \A a \in f.artifacts : a.value # "erp"
    /\ \A n \in DOMAIN f.call.over : f.call.over[n] # "erp"
    /\ f.heard # "erp" /\ f.call.seen # "erp" /\ f.call.loose # "erp"
NoErp(r) == r.value # "erp" /\ r.loose # "erp"

\* As long as nothing went where the marks do not follow it, they show what holds
\* ERP data: in the frames, and in the result of one that is left.
FlowMarked ==
    ~escaped =>
        /\ \A i \in DOMAIN frames : Marked(frames[i])
        /\ phase = "returning" => (result.value = "erp" => result.tainted)
        /\ built.gate => NoErp(result) /\ \A i \in DOMAIN frames : ErpFree(frames[i])
        /\ ~uploaded

\* Whatever runs below a retry knows it.
RetryKnown ==
    \A i, j \in DOMAIN frames : i < j /\ frames[i].call.name = "retry" => frames[j].retrying

\* After a preview the flow only comes to its end.
Previewed ==
    /\ ~suite.found => phase = "idle"
    /\ suite = [todo |-> suite.todo, found |-> suite.found]
    /\ previews > 0 =>
          \/ phase = "idle"
          \/ phase = "returning" /\ result.status = "confirmation_required"
          \/ phase = "raising" /\ \A i \in DOMAIN frames : frames[i].call.name # "retry"

FlowInv == FlowType /\ FlowMarked /\ RetryKnown /\ Previewed
-----------------------------------------------------------------------------
\* The stack with another top.
LEMMA TopReplaced ==
    ASSUME frames \in Seq(FrameSet), frames # <<>>, NEW g \in FrameSet
    PROVE  /\ WithTop(g) \in Seq(FrameSet) /\ Len(WithTop(g)) = Len(frames)
           /\ DOMAIN WithTop(g) = DOMAIN frames /\ WithTop(g)[Len(frames)] = g
           /\ \A i \in DOMAIN frames : i # Len(frames) => WithTop(g)[i] = frames[i]
           /\ Len(frames) \in DOMAIN frames /\ Len(frames) \in Nat /\ DOMAIN frames = 1 .. Len(frames)
           /\ Running = frames[Len(frames)] /\ Running \in FrameSet
  <1> DEFINE n == Len(frames)
             s == SubSeq(frames, 1, n - 1)
  <1>1. n \in Nat /\ n # 0 /\ DOMAIN frames = 1 .. n /\ n \in DOMAIN frames
    BY EmptySeq
  <1>2. s \in Seq(FrameSet) /\ Len(s) = n - 1 /\ \A i \in 1 .. n - 1 : s[i] = frames[i]
    BY <1>1
  <1>3. WithTop(g) = Append(s, g)
    BY DEF WithTop, Front
  <1> HIDE DEF s
  <1>4. /\ Append(s, g) \in Seq(FrameSet) /\ Len(Append(s, g)) = n /\ Append(s, g)[n] = g
        /\ \A i \in 1 .. n - 1 : Append(s, g)[i] = s[i]
    <2> HIDE DEF n
    <2> QED
      BY <1>1, <1>2, AppendProperties
  <1>5. DOMAIN Append(s, g) = 1 .. n
    BY <1>4
  <1>6. Running = frames[n] /\ Running \in FrameSet
    BY <1>1 DEF Running, Last
  <1>7. \A i \in DOMAIN frames : i # n => i \in 1 .. n - 1
    BY <1>1
  <1> QED
    <2> DEFINE w == WithTop(g)
    <2> HIDE DEF w
    <2>1. w = Append(s, g)
      BY <1>3 DEF w
    <2>2. /\ w \in Seq(FrameSet) /\ Len(w) = n /\ DOMAIN w = DOMAIN frames /\ w[n] = g
          /\ \A i \in DOMAIN frames : i # n => w[i] = frames[i]
      BY <1>1, <1>2, <1>4, <1>5, <1>7, <2>1
    <2> QED
      BY <1>1, <1>6, <2>2 DEF w

\* The stack without its top.
LEMMA TopRemoved ==
    ASSUME frames \in Seq(FrameSet), frames # <<>>
    PROVE  /\ Front(frames) \in Seq(FrameSet) /\ Len(Front(frames)) = Len(frames) - 1
           /\ DOMAIN Front(frames) = 1 .. Len(frames) - 1
           /\ \A i \in 1 .. Len(frames) - 1 : Front(frames)[i] = frames[i]
           /\ Len(frames) \in DOMAIN frames /\ Len(frames) \in Nat /\ DOMAIN frames = 1 .. Len(frames)
           /\ Running = frames[Len(frames)] /\ Running \in FrameSet
  <1> DEFINE n == Len(frames)
             s == SubSeq(frames, 1, n - 1)
  <1>1. n \in Nat /\ n # 0 /\ DOMAIN frames = 1 .. n /\ n \in DOMAIN frames
    BY EmptySeq
  <1>2. s \in Seq(FrameSet) /\ Len(s) = n - 1 /\ \A i \in 1 .. n - 1 : s[i] = frames[i]
    BY <1>1
  <1>3. Front(frames) = s
    BY DEF Front
  <1>4. Running = frames[n] /\ Running \in FrameSet
    BY <1>1 DEF Running, Last
  <1> QED
    BY <1>1, <1>2, <1>3, <1>4

\* Every path of a frame that holds ERP data is marked.
LEMMA ErpReferenced ==
    ASSUME NEW f \in FrameSet, Marked(f), NEW path \in Paths, ValueAt(f, path) = "erp"
    PROVE  References(f.marks, path) /\ f.marks # {}
  <1>1. /\ \A p \in Paths : IsPrefix(p, p)
        /\ \A n \in Names : IsPrefix(<<"env">>, <<"env", n>>)
    BY DEF Paths, IsPrefix
  <1>2. CASE path \in EnvPaths
    <2>1. PICK n \in Names : path = <<"env", n>>
      BY <1>2 DEF EnvPaths
    <2>2. ValueAt(f, path) = EnvAt(f, n)
      BY <2>1 DEF ValueAt
    <2>3. <<"env", n>> \in f.marks \/ <<"env">> \in f.marks
      BY <2>2 DEF EnvAt, Marked, Held
    <2> QED
      BY <1>1, <2>1, <2>3 DEF References
  <1>3. CASE path \notin EnvPaths
    <2>1. PICK n \in Names : path = <<n>>
      BY <1>3 DEF Paths, EnvPaths
    <2>2. ValueAt(f, path) = f.saved[n] \/ ValueAt(f, path) = f.env[n]
      BY <2>1 DEF ValueAt
    <2>3. path \in f.marks
      BY <2>1, <2>2 DEF Marked, Held
    <2> QED
      BY <1>1, <2>3 DEF References
  <1> QED
    BY <1>2, <1>3

\* What is rendered from ERP data has marked arguments.
LEMMA RenderedMarked ==
    ASSUME NEW f \in FrameSet, NEW paths \in SUBSET Paths
    PROVE  /\ Rendered(f, paths) \in Carried
           /\ Marked(f) /\ Rendered(f, paths) = "erp" => AnyReferenced(f.marks, paths) /\ f.marks # {}
           /\ ErpFree(f) => Rendered(f, paths) = "plain"
           /\ AnyReferenced(f.marks, paths) \in BOOLEAN
  <1>1. Rendered(f, paths) \in Carried /\ AnyReferenced(f.marks, paths) \in BOOLEAN
    BY DEF Rendered, Mix, Carried, AnyReferenced
  <1>2. Rendered(f, paths) = "erp" => \E p \in paths : ValueAt(f, p) = "erp"
    BY DEF Rendered, Mix
  <1>3. Marked(f) /\ Rendered(f, paths) = "erp" => AnyReferenced(f.marks, paths) /\ f.marks # {}
    BY <1>2, ErpReferenced DEF AnyReferenced
  <1>4. ASSUME ErpFree(f), NEW p \in paths PROVE ValueAt(f, p) # "erp"
    <2>1. \E n \in Names : p = <<n>> \/ p = <<"env", n>>
      BY DEF Paths
    <2> QED
      BY <1>4, <2>1 DEF ValueAt, EnvAt, ErpFree, Held
  <1> QED
    BY <1>1, <1>2, <1>3, <1>4 DEF Carried

\* All of a frame: its marks tell whether ERP data is in it.
LEMMA EverythingMarked ==
    ASSUME NEW f \in FrameSet
    PROVE  /\ Everything(f) \in Carried /\ Safe(f) \in Carried
           /\ Marked(f) /\ Everything(f) = "erp" => f.marks # {}
           /\ ErpFree(f) => Everything(f) = "plain" /\ Safe(f) = "plain"
  <1>1. Everything(f) \in Carried /\ Safe(f) \in Carried
    BY DEF Everything, Safe, Mix, Carried
  <1>2. Everything(f) = "erp" => \/ \E n \in Names : f.env[n] = "erp"
                                 \/ \E n \in Held : f.saved[n] = "erp"
                                 \/ \E a \in f.artifacts : a.value = "erp"
    BY DEF Everything, Mix, Held
  <1>3. Marked(f) /\ Everything(f) = "erp" => f.marks # {}
    BY <1>2 DEF Marked
  <1>4. ErpFree(f) => Everything(f) = "plain"
    BY <1>1, <1>2 DEF ErpFree, Carried
  <1>5. ErpFree(f) => Safe(f) = "plain"
    <2>1. ErpFree(f) => \A n \in Names : ValueAt(f, <<n>>) # "erp" /\ EnvAt(f, n) # "erp"
      BY DEF ErpFree, ValueAt, EnvAt, Held
    <2> QED
      BY <2>1 DEF Safe, Mix, ErpFree
  <1> QED
    BY <1>1, <1>3, <1>4, <1>5

\* What a step leaves alone while the flow runs.
Beside == /\ built' = built /\ uploaded' \in BOOLEAN /\ escaped' \in BOOLEAN /\ previews' \in Nat
          /\ escaped => escaped'
          /\ uploaded' => uploaded \/ escaped'

\* A frame that may stand for the top.
Follows(g) == g \in FrameSet /\ Running.marks \subseteq g.marks /\ g.retrying = Running.retrying

\* The flow goes on with a frame that may stand for its top.
LEMMA TopMoves ==
    ASSUME FlowType, FlowMarked, RetryKnown, frames # <<>>, Beside,
           NEW g, Follows(g), frames' = WithTop(g),
           phase' \in {"running", "raising"}, result' \in FlowResults,
           ~escaped' => Marked(g) /\ (built.gate => ErpFree(g) /\ NoErp(result'))
    PROVE  FlowType' /\ FlowMarked' /\ RetryKnown'
  <1> USE DEF FlowType, Beside, Follows
  <1>1. /\ frames' \in Seq(FrameSet) /\ Len(frames') = Len(frames)
        /\ DOMAIN frames' = DOMAIN frames /\ frames'[Len(frames)] = g
        /\ \A i \in DOMAIN frames : i # Len(frames) => frames'[i] = frames[i]
        /\ Len(frames) \in DOMAIN frames /\ Len(frames) \in Nat /\ DOMAIN frames = 1 .. Len(frames)
        /\ Running = frames[Len(frames)]
    BY TopReplaced
  <1>2. FlowType'
    BY <1>1
  <1>3. FlowMarked'
    <2> SUFFICES ASSUME ~escaped'
                 PROVE  /\ \A i \in DOMAIN frames' : Marked(frames'[i])
                        /\ built.gate => \A i \in DOMAIN frames' : ErpFree(frames'[i])
                        /\ ~uploaded'
      BY DEF FlowMarked
    <2>1. \A i \in DOMAIN frames' : Marked(frames'[i])
      BY <1>1 DEF FlowMarked
    <2>2. ~uploaded'
      BY DEF FlowMarked
    <2>3. built.gate => \A i \in DOMAIN frames' : ErpFree(frames'[i])
      BY <1>1, <2>1 DEF FlowMarked
    <2> QED
      BY <2>1, <2>2, <2>3
  <1>4. RetryKnown'
    BY <1>1 DEF RetryKnown
  <1> QED
    BY <1>2, <1>3, <1>4

\* The flow that runs is left for the one around it, which learns of the marks.
LEMMA TopLeaves ==
    ASSUME FlowType, FlowMarked, RetryKnown, frames # <<>>, Beside, frames' = Front(frames),
           phase' \in {"returning", "raising", "refusing"}, result' \in FlowResults,
           ~escaped' => /\ built.gate => NoErp(result')
                        /\ phase' = "returning" => (result'.value = "erp" => result'.tainted)
    PROVE  FlowType' /\ FlowMarked' /\ RetryKnown'
  <1> USE DEF FlowType, Beside
  <1>1. /\ frames' \in Seq(FrameSet) /\ Len(frames') = Len(frames) - 1
        /\ DOMAIN frames' = 1 .. Len(frames) - 1
        /\ \A i \in 1 .. Len(frames) - 1 : frames'[i] = frames[i]
        /\ Len(frames) \in DOMAIN frames /\ Len(frames) \in Nat /\ DOMAIN frames = 1 .. Len(frames)
        /\ Running = frames[Len(frames)]
    BY TopRemoved
  <1>2. FlowType'
    BY <1>1
  <1>3. FlowMarked'
    <2> SUFFICES ASSUME ~escaped'
                 PROVE  /\ \A i \in DOMAIN frames' : Marked(frames'[i])
                        /\ built.gate => \A i \in DOMAIN frames' : ErpFree(frames'[i])
                        /\ ~uploaded'
      BY DEF FlowMarked
    <2>1. \A i \in DOMAIN frames' : i \in DOMAIN frames /\ frames'[i] = frames[i]
      BY <1>1
    <2>2. ~uploaded'
      BY DEF FlowMarked
    <2>3. built.gate => \A i \in DOMAIN frames' : ErpFree(frames'[i])
      BY <1>1, <2>1 DEF FlowMarked
    <2>4. \A i \in DOMAIN frames' : Marked(frames'[i])
      BY <1>1, <2>1 DEF FlowMarked
    <2> QED
      BY <2>2, <2>3, <2>4
  <1>4. RetryKnown'
    BY <1>1 DEF RetryKnown
  <1> QED
    BY <1>2, <1>3, <1>4

\* Nothing waits in a frame that runs no group command.
LEMMA NoCallKnown ==
    /\ NoCall \in CallSet /\ NoCall.name = "none" /\ DOMAIN NoCall.over = {}
    /\ NoCall.seen = "plain" /\ NoCall.loose = "plain"
  <1>1. NoCall.over \in [{} -> Carried] /\ {} \in SUBSET Names
    BY DEF NoCall
  <1>2. NoCall.over \in UNION {[K -> Carried] : K \in SUBSET Names}
    BY <1>1
  <1>3. NoCall \in CallSet
    BY <1>2 DEF NoCall, CallSet, Saves, Carried
  <1> QED
    BY <1>3 DEF NoCall

\* A child is given what its caller may see, with its marks.
LEMMA ChildFits ==
    ASSUME NEW f \in FrameSet, NEW own \in SUBSET Names, NEW c,
           c = NewFrame(ChildEnv(f, own), ChildMarks(f), f.retrying \/ f.call.name = "retry")
    PROVE  /\ c \in FrameSet /\ c.retrying = (f.retrying \/ f.call.name = "retry")
           /\ c.call.name = "none"
           /\ Marked(f) /\ ~Unlooked(f) => Marked(c)
           /\ ErpFree(f) => ErpFree(c)
  <1> DEFINE env == ChildEnv(f, own)
             marks == ChildMarks(f)
  <1>1. /\ f.env \in [Names -> Origins] /\ f.call.over \in UNION {[K -> Carried] : K \in SUBSET Names}
        /\ f.retrying \in BOOLEAN /\ f.call \in CallSet
        /\ \A n \in Names : EnvAt(f, n) \in Origins
    BY DEF FrameSet, CallSet, EnvAt, Held
  <1>2. /\ DOMAIN f.call.over \subseteq Names /\ \A n \in DOMAIN f.call.over : f.call.over[n] \in Carried
    <2>1. PICK K \in SUBSET Names : f.call.over \in [K -> Carried]
      BY <1>1
    <2> QED
      BY <2>1
  <1>3. env \in [Names -> Origins]
    BY <1>1, <1>2 DEF ChildEnv, Origins, Carried
  <1>4. marks \in SUBSET MarkPaths
    BY <1>2 DEF ChildMarks, Paths, MarkPaths
  <1>5. \A n \in Names : env[n] = "erp" =>
           (n \in DOMAIN f.call.over /\ f.call.over[n] = "erp") \/ EnvAt(f, n) = "erp"
    BY DEF ChildEnv
  <1>6. ASSUME Marked(f), ~Unlooked(f), NEW n \in Names,
               (n \in DOMAIN f.call.over /\ f.call.over[n] = "erp") \/ EnvAt(f, n) = "erp"
        PROVE  <<n>> \in marks /\ <<"env", n>> \in marks
    <2>1. CASE n \in DOMAIN f.call.over /\ f.call.over[n] = "erp"
      <3>1. f.call.overMarked
        BY <1>6, <2>1 DEF Marked, Unlooked
      <3> QED
        BY <2>1, <3>1 DEF ChildMarks
    <2>2. CASE EnvAt(f, n) = "erp"
      <3>0. <<n>> \in Paths /\ \A p \in Paths : IsPrefix(p, p)
        BY DEF Paths, IsPrefix
      <3>1. <<n>> \in f.marks /\ IsPrefix(<<n>>, <<n>>)
        BY <1>6, <2>2, <3>0 DEF Marked, EnvAt, Unlooked
      <3>2. References(f.marks, <<n>>)
        BY <3>1 DEF References
      <3> QED
        BY <2>2, <3>2 DEF ChildMarks
    <2> QED
      BY <1>6, <2>1, <2>2
  <1> HIDE DEF env, marks
  <1>7. c = [env |-> env, saved |-> [n \in Held |-> "absent"], marks |-> marks, artifacts |-> {},
             heard |-> "plain", at |-> 0, retrying |-> f.retrying \/ f.call.name = "retry", call |-> NoCall]
    BY DEF NewFrame, env, marks, Held
  <1>8. [n \in Held |-> "absent"] \in [Held -> Origins] /\ "plain" \in Carried
    BY DEF Origins, Carried
  <1>9. c \in FrameSet
    <2> DEFINE b == f.retrying \/ f.call.name = "retry"
    <2>1. b \in BOOLEAN
      OBVIOUS
    <2>2. c = [env |-> env, saved |-> [n \in Held |-> "absent"], marks |-> marks, artifacts |-> {},
               heard |-> "plain", at |-> 0, retrying |-> b, call |-> NoCall]
      BY <1>7
    <2> HIDE DEF b
    <2> QED
      BY <1>3, <1>4, <1>8, <2>1, <2>2, NoCallKnown DEF FrameSet
  <1>10. /\ c.env = env /\ c.saved = [n \in Held |-> "absent"] /\ c.marks = marks /\ c.artifacts = {}
         /\ c.heard = "plain" /\ c.retrying = (f.retrying \/ f.call.name = "retry") /\ c.call = NoCall
    BY <1>7
  <1>11. Marked(f) /\ ~Unlooked(f) => Marked(c)
    BY <1>5, <1>6, <1>10, NoCallKnown DEF Marked
  <1>12. ErpFree(f) => ErpFree(c)
    <2>1. ErpFree(f) => \A n \in Names : EnvAt(f, n) # "erp"
      BY DEF ErpFree, EnvAt, Held
    <2> QED
      BY <1>5, <1>10, <2>1, NoCallKnown DEF ErpFree
  <1> QED
    BY <1>9, <1>10, <1>11, <1>12, NoCallKnown

\* A child flow starts with the marks of what it was given.
LEMMA ChildEnters ==
    ASSUME FlowType, FlowMarked, RetryKnown, frames # <<>>, Beside,
           NEW f, Follows(f), NEW own \in SUBSET Names, EnterChild(f, own), phase' = "running", result' = result,
           ~escaped' => Marked(f) /\ (built.gate => ErpFree(f))
    PROVE  FlowType' /\ FlowMarked' /\ RetryKnown'
  <1> USE DEF FlowType, Beside, Follows
  <1> DEFINE s == WithTop(f)
             c == NewFrame(ChildEnv(f, own), ChildMarks(f), f.retrying \/ f.call.name = "retry")
             n == Len(frames)
  <1>1. /\ s \in Seq(FrameSet) /\ Len(s) = n /\ DOMAIN s = DOMAIN frames /\ s[n] = f
        /\ \A i \in DOMAIN frames : i # n => s[i] = frames[i]
        /\ n \in DOMAIN frames /\ n \in Nat /\ DOMAIN frames = 1 .. n /\ Running = frames[n]
    BY TopReplaced
  <1>2. /\ c \in FrameSet /\ c.retrying = (f.retrying \/ f.call.name = "retry")
        /\ c.call.name = "none"
        /\ Marked(f) /\ ~Unlooked(f) => Marked(c)
        /\ ErpFree(f) => ErpFree(c)
    BY ChildFits
  <1>3. frames' = Append(s, c) /\ escaped' = (escaped \/ Unlooked(f))
    BY DEF EnterChild
  <1> HIDE DEF s, c
  <1>4. /\ frames' \in Seq(FrameSet) /\ Len(frames') = n + 1 /\ DOMAIN frames' = 1 .. n + 1
        /\ frames'[n + 1] = c /\ \A i \in 1 .. n : frames'[i] = s[i]
    <2> HIDE DEF n
    <2>1. /\ Append(s, c) \in Seq(FrameSet) /\ Len(Append(s, c)) = n + 1 /\ Append(s, c)[n + 1] = c
          /\ \A i \in 1 .. n : Append(s, c)[i] = s[i]
      BY <1>1, <1>2, AppendProperties
    <2> DEFINE t == Append(s, c)
    <2> HIDE DEF t
    <2>2. t = Append(s, c) /\ DOMAIN t = 1 .. n + 1
      BY <2>1 DEF t
    <2> HIDE DEF FlowType, Beside, Follows
    <2> QED
      BY <1>3, <2>1, <2>2
  <1> HIDE DEF n
  <1>5. frames'[n] = f /\ \A i \in 1 .. n - 1 : frames'[i] = frames[i]
    BY <1>1, <1>4
  <1>6. FlowType'
    BY <1>4
  <1>7. FlowMarked'
    <2> SUFFICES ASSUME ~escaped'
                 PROVE  /\ \A i \in DOMAIN frames' : Marked(frames'[i])
                        /\ built.gate => NoErp(result') /\ \A i \in DOMAIN frames' : ErpFree(frames'[i])
                        /\ ~uploaded'
      BY DEF FlowMarked
    <2>1. \A i \in 1 .. n : Marked(frames[i]) /\ (built.gate => NoErp(result) /\ ErpFree(frames[i]))
      BY <1>1 DEF FlowMarked
    <2>2. \A i \in 1 .. n + 1 : i \in 1 .. n - 1 \/ i = n \/ i = n + 1
      BY <1>1
    <2>3. ASSUME NEW i \in 1 .. n + 1
          PROVE  Marked(frames'[i]) /\ (built.gate => ErpFree(frames'[i]))
      <3> HIDE DEF FlowType, Beside, Follows
      <3>1. /\ Marked(f) /\ (built.gate => ErpFree(f))
            /\ Marked(c) /\ (built.gate => ErpFree(c))
        BY <1>2, <1>3
      <3>2. CASE i \in 1 .. n - 1
        BY <1>1, <1>5, <2>1, <3>2
      <3>3. CASE i = n
        BY <1>5, <3>1, <3>3
      <3>4. CASE i = n + 1
        BY <1>4, <3>1, <3>4
      <3> QED
        BY <2>2, <3>2, <3>3, <3>4
    <2>4. ~uploaded' /\ (built.gate => NoErp(result'))
      BY <1>1, <2>1 DEF FlowMarked
    <2>5. built.gate => \A i \in DOMAIN frames' : ErpFree(frames'[i])
      BY <1>4, <2>3
    <2>6. \A i \in DOMAIN frames' : Marked(frames'[i])
      BY <1>4, <2>3
    <2> QED
      BY <2>4, <2>5, <2>6
  <1>8. RetryKnown'
    <2>0. \A i, j \in 1 .. n : i < j /\ frames[i].call.name = "retry" => frames[j].retrying
      BY <1>1 DEF RetryKnown
    <2> SUFFICES ASSUME NEW i \in 1 .. n + 1, NEW j \in 1 .. n + 1, i < j, frames'[i].call.name = "retry"
                 PROVE  frames'[j].retrying
      BY <1>4 DEF RetryKnown
    <2>1. CASE j = n + 1
      <3>1. CASE i = n
        BY <1>2, <1>4, <1>5, <2>1, <3>1
      <3>2. CASE i # n
        <4>1. i \in 1 .. n - 1
          BY <1>1, <2>1, <3>2
        <4> QED
          <5>1. frames[i].call.name = "retry" /\ i < n /\ i \in 1 .. n /\ n \in 1 .. n
            BY <1>1, <1>5, <4>1
          <5>2. frames[n].retrying /\ f.retrying = frames[n].retrying
            BY <1>1, <2>0, <5>1
          <5>3. c.retrying
            BY <1>2, <5>2
          <5> QED
            BY <1>4, <2>1, <5>3
      <3> QED
        BY <3>1, <3>2
    <2>2. CASE j # n + 1
      <3>1. i \in 1 .. n - 1 /\ j \in 1 .. n
        BY <1>1, <2>2
      <3>2. frames[j].retrying
        <4>1. frames[i].call.name = "retry" /\ i \in 1 .. n
          BY <1>1, <1>5, <3>1
        <4> QED
          BY <2>0, <3>1, <4>1
      <3>3. CASE j = n
        BY <1>1, <1>5, <3>2, <3>3
      <3>4. CASE j # n
        <4>1. j \in 1 .. n - 1
          BY <1>1, <3>1, <3>4
        <4> QED
          BY <1>5, <3>2, <4>1
      <3> QED
        BY <3>3, <3>4
    <2> QED
      BY <2>1, <2>2
  <1> QED
    BY <1>6, <1>7, <1>8

\* The top of the stack is a frame like the others.
LEMMA TopKnown ==
    ASSUME FlowType, FlowMarked, frames # <<>>
    PROVE  /\ Running \in FrameSet /\ Running.call \in CallSet /\ Running.retrying \in BOOLEAN
           /\ Follows(Running)
           /\ ~escaped => /\ Marked(Running)
                          /\ built.gate => ErpFree(Running) /\ NoErp(result)
  <1>1. Running \in FrameSet /\ Len(frames) \in DOMAIN frames /\ Running = frames[Len(frames)]
    BY TopRemoved DEF FlowType
  <1>2. Running.call \in CallSet /\ Running.retrying \in BOOLEAN
    BY <1>1 DEF FrameSet
  <1> QED
    BY <1>1, <1>2 DEF FlowMarked, Follows

\* The stack stays and no result is on its way up.
LEMMA StackStays ==
    ASSUME FlowType, FlowMarked, RetryKnown, Beside, frames' = frames, result' \in FlowResults,
           ~escaped' /\ built.gate => NoErp(result'),
           phase' \in {"idle", "running", "raising", "refusing"}
    PROVE  FlowType' /\ FlowMarked' /\ RetryKnown'
  <1> USE DEF FlowType, Beside
  <1>1. FlowType' /\ RetryKnown'
    BY DEF RetryKnown
  <1>2. FlowMarked'
    BY DEF FlowMarked
  <1> QED
    BY <1>1, <1>2

\* While the flow runs no preview was made.
LEMMA NoPreviewYet ==
    ASSUME FlowType, Previewed, phase = "running", suite' = suite
    PROVE  previews = 0 /\ (previews' = previews => Previewed')
  BY DEF FlowType, Previewed

\* The result of a flow that was not stopped for ERP data.
LEMMA EndedKnown ==
    ASSUME NEW f \in FrameSet, Everything(f) \in Carried,
           NEW status \in {"ok", "planned", "blocked", "confirmation_required"}
    PROVE  /\ Ended(f, status) \in FlowResults /\ Ended(f, status).tainted = (f.marks # {})
           /\ Ended(f, status).value = Everything(f) /\ Ended(f, status).loose = f.heard
           /\ Ended(f, status).status = status
           /\ status = "blocked" => /\ CapabilityResult(f) \in FlowResults
                                    /\ CapabilityResult(f).value = Everything(f)
                                    /\ CapabilityResult(f).loose = f.heard
  <1> DEFINE b == f.marks # {}
             e == [status |-> status, tainted |-> b, value |-> Everything(f), loose |-> f.heard]
  <1>1. b \in BOOLEAN /\ f.heard \in Carried
    BY DEF FrameSet
  <1>2. Ended(f, status) = e
    BY DEF Ended
  <1> HIDE DEF b
  <1>3. e \in FlowResults
    BY <1>1 DEF FlowResults
  <1>4. status = "blocked" => CapabilityResult(f) = [e EXCEPT !.tainted = FALSE]
    BY <1>2 DEF CapabilityResult
  <1>5. [e EXCEPT !.tainted = FALSE] \in FlowResults
    BY <1>3 DEF FlowResults
  <1>6. /\ e.tainted = b /\ e.value = Everything(f) /\ e.loose = f.heard /\ e.status = status
        /\ [e EXCEPT !.tainted = FALSE].value = Everything(f)
        /\ [e EXCEPT !.tainted = FALSE].loose = f.heard
    OBVIOUS
  <1> HIDE DEF e
  <1> QED
    BY <1>2, <1>3, <1>4, <1>5, <1>6 DEF b

\* What _run_flow does with the output of a command.
LEMMA CommandCompletes ==
    ASSUME FlowType, FlowMarked, RetryKnown, frames # <<>>, Beside, NEW f, Follows(f),
           NEW c, c.save \in Saves, c.marked \in BOOLEAN, NEW output \in FlowResults,
           ~escaped' => /\ Marked(f)
                        /\ built.gate => ErpFree(f) /\ NoErp(output)
                        /\ c.save # "none" /\ ~NoErp(output) => output.tainted \/ c.marked
                        /\ c.name = "emitReport" /\ output.value = "erp" => f.marks # {},
           Complete(f, c, output)
    PROVE  /\ FlowType' /\ FlowMarked' /\ RetryKnown'
           /\ output.status = "confirmation_required" =>
                 phase' = "returning" /\ result'.status = "confirmation_required"
  <1> DEFINE marks == MarksAfter(f, c.save, output.tainted, c.marked)
             kept == Mix({output.value, output.loose})
             saved == IF c.save = "none" THEN f.saved ELSE [f.saved EXCEPT ![c.save] = kept]
             artifacts == IF c.name # "emitReport" THEN f.artifacts
                          ELSE f.artifacts \cup {[value |-> output.value, marked |-> output.tainted \/ c.marked]}
             heard == IF marks # {} THEN "plain" ELSE IF c.name \in Groups THEN f.heard
                      ELSE Mix({f.heard, output.value})
             g == [f EXCEPT !.saved = saved, !.marks = marks, !.heard = heard, !.artifacts = artifacts,
                            !.at = f.at + 1, !.call = NoCall]
  <1>1. /\ f \in FrameSet /\ f.saved \in [Held -> Origins] /\ f.marks \in SUBSET MarkPaths /\ f.at \in Nat
        /\ f.artifacts \in SUBSET [value : Carried, marked : BOOLEAN] /\ f.heard \in Carried
        /\ output.value \in Carried /\ output.loose \in Carried /\ output.tainted \in BOOLEAN
    BY DEF Follows, FrameSet, FlowResults
  <1>2. g = [f EXCEPT !.saved = IF c.save = "none" THEN @ ELSE [@ EXCEPT ![c.save] = kept],
                      !.marks = marks,
                      !.heard = IF marks # {} THEN "plain" ELSE IF c.name \in Groups THEN @
                                ELSE Mix({@, output.value}),
                      !.artifacts = IF c.name # "emitReport" THEN @
                            ELSE @ \cup {[value |-> output.value, marked |-> output.tainted \/ c.marked]},
                      !.at = @ + 1, !.call = NoCall]
    BY <1>1 DEF FrameSet
  <1>3. marks \in SUBSET MarkPaths /\ f.marks \subseteq marks
        /\ (c.save # "none" /\ (output.tainted \/ c.marked) => <<c.save>> \in marks)
    BY <1>1 DEF MarksAfter, Paths, MarkPaths, Saves
  <1>4. /\ saved \in [Held -> Origins] /\ kept \in Carried /\ (kept = "erp" => ~NoErp(output))
        /\ \A n \in Held : saved[n] = f.saved[n] \/ (c.save # "none" /\ n = c.save /\ saved[n] = kept)
    <2>1. kept \in Carried /\ (kept = "erp" => ~NoErp(output))
      BY <1>1 DEF Mix, Carried, NoErp
    <2> HIDE DEF kept
    <2> QED
      BY <1>1, <2>1 DEF Saves, Origins, Carried, Held
  <1>h. heard \in Carried /\ (heard = "erp" => f.heard = "erp" \/ output.value = "erp")
    BY <1>1 DEF Mix, Carried
  <1>5. artifacts \in SUBSET [value : Carried, marked : BOOLEAN]
        /\ \A a \in artifacts : a \in f.artifacts \/ (c.name = "emitReport" /\ a.value = output.value)
    <2> DEFINE b == output.tainted \/ c.marked
    <2>1. b \in BOOLEAN
      OBVIOUS
    <2> HIDE DEF b
    <2>2. [value |-> output.value, marked |-> b] \in [value : Carried, marked : BOOLEAN]
      BY <1>1, <2>1
    <2>3. artifacts = IF c.name # "emitReport" THEN f.artifacts
                      ELSE f.artifacts \cup {[value |-> output.value, marked |-> b]}
      BY DEF b
    <2> HIDE DEF artifacts
    <2> QED
      BY <1>1, <2>2, <2>3
  <1>6. \/ frames' = Front(frames) /\ phase' = "returning" /\ result' = TaintResult(g)
           /\ output.status = "erp_to_cloud_taint"
        \/ frames' = Front(frames) /\ phase' = "returning" /\ result' = Ended(g, "confirmation_required")
           /\ output.status = "confirmation_required"
        \/ frames' = WithTop(g) /\ phase' = "running" /\ result' = NoResult
           /\ output.status # "confirmation_required"
    <2> HIDE DEF g
    <2> QED
      BY <1>2 DEF Complete, Return
  <1> HIDE DEF marks, saved, artifacts, heard, kept
  <1>8. g \in FrameSet
    <2>1. f.at + 1 \in Nat /\ f.env \in [Names -> Origins] /\ f.retrying \in BOOLEAN
      BY <1>1 DEF FrameSet
    <2> QED
      BY <1>1, <1>3, <1>4, <1>5, <1>h, <2>1, NoCallKnown DEF FrameSet
  <1>9. /\ g.env = f.env /\ g.saved = saved /\ g.marks = marks /\ g.artifacts = artifacts
        /\ g.heard = heard /\ g.call = NoCall /\ g.retrying = f.retrying
    BY <1>1 DEF FrameSet
  <1> HIDE DEF g
  <1>10. Follows(g)
    BY <1>3, <1>8, <1>9 DEF Follows
  <1>11. ~escaped' => Marked(g)
    <2> SUFFICES ASSUME ~escaped' PROVE Marked(g)
      OBVIOUS
    <2>1. Marked(f)
      OBVIOUS
    <2>2. \A n \in Held : g.saved[n] = "erp" => <<n>> \in g.marks
      BY <1>3, <1>4, <1>9, <2>1 DEF Marked
    <2>3. \A a \in g.artifacts : a.value = "erp" => g.marks # {}
      BY <1>3, <1>5, <1>9, <2>1 DEF Marked
    <2> QED
      BY <1>3, <1>9, <2>1, <2>2, <2>3, NoCallKnown DEF Marked
  <1>12. ~escaped' /\ built.gate => ErpFree(g)
    <2> SUFFICES ASSUME ~escaped', built.gate PROVE ErpFree(g)
      OBVIOUS
    <2>1. ErpFree(f) /\ NoErp(output) /\ output.value # "erp"
      BY DEF NoErp
    <2> QED
      BY <1>4, <1>5, <1>h, <1>9, <2>1, NoCallKnown DEF ErpFree
  <1>13. /\ Everything(g) \in Carried /\ Safe(g) \in Carried
         /\ Marked(g) /\ Everything(g) = "erp" => g.marks # {}
         /\ ErpFree(g) => Everything(g) = "plain" /\ Safe(g) = "plain"
    BY <1>8, EverythingMarked
  <1>14. CASE frames' = Front(frames) /\ phase' = "returning" /\ result' = TaintResult(g)
              /\ output.status = "erp_to_cloud_taint"
    <2>1. /\ result' \in FlowResults /\ result'.tainted = TRUE /\ result'.value = Safe(g)
          /\ result'.loose = "plain"
      BY <1>13, <1>14 DEF TaintResult, NoResult, FlowResults, Carried
    <2> QED
      BY <1>12, <1>13, <1>14, <2>1, TopLeaves DEF NoErp
  <1>15. CASE frames' = Front(frames) /\ phase' = "returning" /\ result' = Ended(g, "confirmation_required")
              /\ output.status = "confirmation_required"
    <2>1. /\ result' \in FlowResults /\ result'.tainted = (g.marks # {}) /\ result'.value = Everything(g)
          /\ result'.status = "confirmation_required" /\ result'.loose = g.heard
      BY <1>8, <1>13, <1>15, EndedKnown
    <2> QED
      BY <1>11, <1>12, <1>13, <1>15, <2>1, TopLeaves DEF NoErp, ErpFree
  <1>16. CASE frames' = WithTop(g) /\ phase' = "running" /\ result' = NoResult
              /\ output.status # "confirmation_required"
    <2>1. result' \in FlowResults /\ NoErp(result')
      BY <1>16 DEF NoResult, FlowResults, Carried, NoErp
    <2> QED
      BY <1>10, <1>11, <1>12, <1>16, <2>1, TopMoves
  <1> QED
    BY <1>6, <1>14, <1>15, <1>16

\* Leaving a flow for a result that is not the output of a command.
LEMMA FlowLeft ==
    ASSUME FlowInv, Top, Beside, previews' = previews, suite' = suite,
           NEW f, Follows(f), ~escaped' => Marked(f) /\ (built.gate => ErpFree(f)),
           \/ Return(TaintResult(f))
           \/ Return(CapabilityResult(f)) /\ built.gate
           \/ \E status \in {"ok", "planned"} : Return(Ended(f, status))
    PROVE  FlowInv'
  <1>0. /\ FlowType /\ FlowMarked /\ RetryKnown /\ frames # <<>> /\ phase = "running" /\ Previewed
        /\ frames' = Front(frames) /\ phase' = "returning"
    BY DEF FlowInv, Top, Return
  <1>1. f \in FrameSet
    BY DEF Follows
  <1>2. /\ Everything(f) \in Carried /\ Safe(f) \in Carried
        /\ Marked(f) /\ Everything(f) = "erp" => f.marks # {}
        /\ ErpFree(f) => Everything(f) = "plain" /\ Safe(f) = "plain"
    BY <1>1, EverythingMarked
  <1>3. CASE Return(TaintResult(f))
    <2>1. /\ result' \in FlowResults /\ result'.tainted = TRUE /\ result'.value = Safe(f)
          /\ result'.loose = "plain"
      BY <1>2, <1>3 DEF Return, TaintResult, NoResult, FlowResults, Carried
    <2>2. FlowType' /\ FlowMarked' /\ RetryKnown'
      BY <1>0, <1>2, <2>1, TopLeaves DEF NoErp
    <2> QED
      BY <1>0, <2>2, NoPreviewYet DEF FlowInv
  <1>4. CASE Return(CapabilityResult(f)) /\ built.gate
    <2>1. result' \in FlowResults /\ result'.value = Everything(f) /\ result'.loose = f.heard
      BY <1>1, <1>2, <1>4, EndedKnown DEF Return
    <2>2. ~escaped' => result'.value = "plain" /\ NoErp(result')
      BY <1>2, <1>4, <2>1 DEF NoErp, ErpFree
    <2>3. FlowType' /\ FlowMarked' /\ RetryKnown'
      BY <1>0, <1>4, <2>1, <2>2, TopLeaves
    <2> QED
      BY <1>0, <2>3, NoPreviewYet DEF FlowInv
  <1>5. ASSUME NEW status \in {"ok", "planned"}, Return(Ended(f, status)) PROVE FlowInv'
    <2>1. /\ result' \in FlowResults /\ result'.tainted = (f.marks # {}) /\ result'.value = Everything(f)
          /\ result'.loose = f.heard
      BY <1>1, <1>2, <1>5, EndedKnown DEF Return
    <2>2. ~escaped' /\ built.gate => NoErp(result')
      BY <1>2, <2>1 DEF NoErp, ErpFree
    <2>3. FlowType' /\ FlowMarked' /\ RetryKnown'
      BY <1>0, <1>2, <2>1, <2>2, TopLeaves
    <2> QED
      BY <1>0, <2>3, NoPreviewYet DEF FlowInv
  <1> QED
    BY <1>3, <1>4, <1>5

\* The suite is chosen once, before any flow.
LEMMA DiscoverKeeps ==
    ASSUME FlowInv, NEW todo, ~suite.found, suite' = [found |-> TRUE, todo |-> todo],
           UNCHANGED <<built, frames, phase, result, previews, uploaded, escaped>>
    PROVE  FlowInv'
  <1>1. FlowType' /\ FlowMarked' /\ RetryKnown'
    BY DEF FlowInv, FlowType, FlowMarked, RetryKnown, Running
  <1>2. Previewed'
    BY DEF FlowInv, Previewed
  <1> QED
    BY <1>1, <1>2 DEF FlowInv

\* A flow starts with what its file and the workspace give it.
LEMMA StartFlowKeeps ==
    ASSUME FlowInv, NEW own \in SUBSET Names, StartFlow(own)
    PROVE  FlowInv'
  <1> DEFINE env == [n \in Names |-> IF n \in own THEN "plain" ELSE "absent"]
             f == NewFrame(env, {}, FALSE)
  <1>1. f = [env |-> env, saved |-> [n \in Held |-> "absent"], marks |-> {}, artifacts |-> {},
             heard |-> "plain", at |-> 0, retrying |-> FALSE, call |-> NoCall]
    BY DEF NewFrame, Held
  <1>3. env \in [Names -> Origins] /\ [n \in Held |-> "absent"] \in [Held -> Origins]
        /\ "plain" \in Carried /\ \A n \in Names : env[n] # "erp"
    BY DEF Origins, Carried
  <1> HIDE DEF env, f
  <1>4. /\ f \in FrameSet /\ f.env = env /\ f.saved = [n \in Held |-> "absent"] /\ f.artifacts = {}
        /\ f.heard = "plain" /\ f.call = NoCall
    <2>1. f \in FrameSet
      <3>1. FALSE \in BOOLEAN /\ 0 \in Nat /\ {} \in SUBSET MarkPaths
            /\ {} \in SUBSET [value : Carried, marked : BOOLEAN]
        OBVIOUS
      <3> QED
        BY <1>1, <1>3, <3>1, NoCallKnown DEF FrameSet
    <2> QED
      BY <1>1, <2>1
  <1>5. Marked(f) /\ ErpFree(f)
    BY <1>3, <1>4, NoCallKnown DEF Marked, ErpFree
  <1>6. /\ frames' = <<f>> /\ built' = built /\ phase' = "running" /\ result' = NoResult
        /\ previews' = 0 /\ uploaded' = FALSE /\ escaped' = FALSE /\ suite' = suite /\ suite.found
    BY DEF StartFlow, f, env
  <1>7. frames' \in Seq(FrameSet) /\ Len(frames') = 1 /\ DOMAIN frames' = {1} /\ frames'[1] = f
    BY <1>4, <1>6
  <1>8. FlowType'
    BY <1>6, <1>7 DEF FlowInv, FlowType, NoResult, FlowResults, Carried
  <1>9. FlowMarked'
    BY <1>5, <1>6, <1>7 DEF FlowMarked, NoErp, NoResult
  <1>10. RetryKnown'
    BY <1>7 DEF RetryKnown
  <1>11. Previewed'
    BY <1>6 DEF Previewed, FlowInv
  <1> QED
    BY <1>8, <1>9, <1>10, <1>11 DEF FlowInv

\* Between two flows nothing is under way.
LEMMA FlowEndsKeeps ==
    ASSUME FlowInv, NEW stops \in BOOLEAN, FlowEnds(stops)
    PROVE  FlowInv'
  <1> DEFINE todo == IF stops THEN <<>> ELSE Tail(suite.todo)
  <1>1. /\ frames = <<>> /\ phase' = "idle" /\ result' = NoResult
        /\ UNCHANGED <<built, frames, previews, uploaded, escaped>> /\ phase # "idle"
    BY DEF FlowEnds
  <1>2. suite = [todo |-> suite.todo, found |-> suite.found] /\ suite.found
    BY <1>1 DEF FlowInv, Previewed
  <1>3. suite' = [todo |-> todo, found |-> suite.found]
    <2>1. suite' = [suite EXCEPT !.todo = todo]
      BY <1>2 DEF FlowEnds
    <2> HIDE DEF todo
    <2> QED
      BY <1>2, <2>1
  <1>4. FlowType' /\ RetryKnown'
    BY <1>1 DEF FlowInv, FlowType, RetryKnown, NoResult, FlowResults, Carried
  <1>5. FlowMarked'
    BY <1>1 DEF FlowInv, FlowMarked, NoErp, NoResult
  <1>6. Previewed'
    <2> HIDE DEF todo
    <2> QED
      BY <1>1, <1>2, <1>3 DEF FlowInv, Previewed
  <1> QED
    BY <1>4, <1>5, <1>6 DEF FlowInv

\* What a command that is about to run may rely on.
LEMMA Going ==
    ASSUME FlowInv, Top
    PROVE  /\ FlowType /\ FlowMarked /\ RetryKnown /\ Previewed /\ frames # <<>> /\ phase = "running"
           /\ previews = 0 /\ Running \in FrameSet /\ Running.call \in CallSet /\ Running.retrying \in BOOLEAN
           /\ Follows(Running)
           /\ ~escaped => /\ Marked(Running)
                          /\ built.gate => ErpFree(Running) /\ NoErp(result)
  BY TopKnown, NoPreviewYet DEF FlowInv, Top, FlowType, Previewed

\* A command passed over, or one that fails, tells nothing.
LEMMA SkipCommandKeeps ==
    ASSUME FlowInv, SkipCommand
    PROVE  FlowInv'
  <1> DEFINE g == [Running EXCEPT !.at = Running.at + 1]
  <1>1. Top /\ frames' = WithTop(g) /\ UNCHANGED <<built, phase, result, suite, previews, uploaded, escaped>>
    BY DEF SkipCommand, Takes
  <1>2. /\ FlowType /\ FlowMarked /\ RetryKnown /\ Previewed /\ frames # <<>> /\ phase = "running"
        /\ Running \in FrameSet
        /\ ~escaped => /\ Marked(Running)
                       /\ built.gate => ErpFree(Running) /\ NoErp(result)
    BY <1>1, Going
  <1>3. /\ g \in FrameSet /\ g.env = Running.env /\ g.saved = Running.saved /\ g.marks = Running.marks
        /\ g.artifacts = Running.artifacts /\ g.call = Running.call /\ g.retrying = Running.retrying
        /\ g.heard = Running.heard
    <2>1. Running.at + 1 \in Nat
      BY <1>2 DEF FrameSet
    <2> QED
      BY <1>2, <2>1 DEF FrameSet
  <1> HIDE DEF g
  <1>4. Follows(g) /\ (Marked(Running) => Marked(g)) /\ (ErpFree(Running) => ErpFree(g))
    BY <1>3 DEF Follows, Marked, ErpFree
  <1>5. Beside /\ result' \in FlowResults
    BY <1>1, <1>2 DEF Beside, FlowType
  <1>6. FlowType' /\ FlowMarked' /\ RetryKnown'
    BY <1>1, <1>2, <1>4, <1>5, TopMoves
  <1> QED
    BY <1>1, <1>2, <1>6, NoPreviewYet DEF FlowInv

\* A command that raises marks nothing; its message holds no more than it was given.
LEMMA RaiseKeeps ==
    ASSUME FlowInv, Top, NEW message \in Carried, Raise(message), UNCHANGED <<built, suite, previews, escaped>>,
           Beside, ~escaped /\ built.gate => message # "erp"
    PROVE  FlowInv'
  <1>1. frames' = frames /\ phase' = "raising" /\ result' = [NoResult EXCEPT !.value = message]
    BY DEF Raise
  <1>2. result' \in FlowResults /\ result'.value = message /\ result'.loose = "plain"
    BY <1>1 DEF NoResult, FlowResults, Carried
  <1>3. ~escaped' /\ built.gate => NoErp(result')
    BY <1>2 DEF NoErp
  <1>4. FlowType' /\ FlowMarked' /\ RetryKnown'
    BY <1>1, <1>2, <1>3, StackStays DEF FlowInv
  <1> QED
    BY <1>4, NoPreviewYet DEF FlowInv, Top

\* The answer of the gate is no ERP data, and where there is a gate there is none.
LEMMA CapabilityBlockedKeeps ==
    ASSUME FlowInv, NEW save \in Saves, CapabilityBlocked(save)
    PROVE  FlowInv'
  <1> DEFINE saved == IF save = "none" THEN Running.saved ELSE [Running.saved EXCEPT ![save] = "plain"]
             g == [Running EXCEPT !.saved = saved]
  <1>1. Top /\ built.gate /\ UNCHANGED <<built, suite, previews, uploaded, escaped>>
    BY DEF CapabilityBlocked, Takes
  <1>2. /\ FlowType /\ frames # <<>> /\ Running \in FrameSet
        /\ ~escaped => Marked(Running) /\ (built.gate => ErpFree(Running))
    BY <1>1, Going
  <1>3. saved \in [Held -> Origins] /\ \A n \in Held : saved[n] = Running.saved[n] \/ saved[n] = "plain"
    BY <1>2 DEF FrameSet, Origins, Saves, Held
  <1>4. Return(CapabilityResult(g))
    <2>1. g = IF save = "none" THEN Running ELSE [Running EXCEPT !.saved[save] = "plain"]
      BY <1>2 DEF FrameSet
    <2> HIDE DEF g
    <2> QED
      BY <2>1 DEF CapabilityBlocked
  <1> HIDE DEF saved
  <1>5. /\ g \in FrameSet /\ g.env = Running.env /\ g.saved = saved /\ g.marks = Running.marks
        /\ g.artifacts = Running.artifacts /\ g.call = Running.call /\ g.retrying = Running.retrying
        /\ g.heard = Running.heard
    BY <1>2, <1>3 DEF FrameSet
  <1> HIDE DEF g
  <1>6. Follows(g) /\ (Marked(Running) => Marked(g)) /\ (ErpFree(Running) => ErpFree(g))
    BY <1>3, <1>5 DEF Follows, Marked, ErpFree
  <1>7. Beside
    BY <1>1, <1>2 DEF Beside, FlowType
  <1> QED
    BY <1>1, <1>2, <1>4, <1>6, <1>7, FlowLeft

\* What a command of the flow is run with.
LEMMA CommandKnown ==
    ASSUME FlowInv, Top, NEW name, NEW save \in Saves, NEW paths \in Arguments
    PROVE  /\ CommandFor(name, paths, save).name = name /\ CommandFor(name, paths, save).save = save
           /\ CommandFor(name, paths, save).marked = AnyReferenced(Running.marks, paths)
           /\ AnyReferenced(Running.marks, paths) \in BOOLEAN
           /\ Rendered(Running, paths) \in Carried
           /\ Marked(Running) /\ Rendered(Running, paths) = "erp" =>
                 AnyReferenced(Running.marks, paths) /\ Running.marks # {}
           /\ ErpFree(Running) => Rendered(Running, paths) = "plain"
  <1>1. paths \in SUBSET Paths /\ Running \in FrameSet
    BY Going DEF Arguments
  <1>2. /\ CommandFor(name, paths, save).name = name /\ CommandFor(name, paths, save).save = save
        /\ CommandFor(name, paths, save).marked = AnyReferenced(Running.marks, paths)
    BY DEF CommandFor, NoCall
  <1> QED
    BY <1>1, <1>2, RenderedMarked

\* A command whose output is what its arguments rendered to, or nothing of them.
LEMMA OutputKeeps ==
    ASSUME FlowInv, Top, NEW name, NEW save \in Saves, NEW paths \in Arguments,
           NEW value \in {"plain", Rendered(Running, paths)},
           Complete(Running, CommandFor(name, paths, save), [NoResult EXCEPT !.value = value]),
           UNCHANGED <<built, suite, previews, escaped>>, Beside
    PROVE  FlowInv'
  <1> DEFINE output == [NoResult EXCEPT !.value = value]
             c == CommandFor(name, paths, save)
  <1>1. /\ FlowType /\ FlowMarked /\ RetryKnown /\ Previewed /\ frames # <<>> /\ phase = "running"
        /\ Follows(Running)
        /\ ~escaped => Marked(Running) /\ (built.gate => ErpFree(Running))
    BY Going
  <1>2. /\ c.name = name /\ c.save = save /\ c.marked = AnyReferenced(Running.marks, paths)
        /\ c.marked \in BOOLEAN /\ Rendered(Running, paths) \in Carried
        /\ Marked(Running) /\ Rendered(Running, paths) = "erp" => c.marked /\ Running.marks # {}
        /\ ErpFree(Running) => Rendered(Running, paths) = "plain"
    BY CommandKnown
  <1>3. output \in FlowResults /\ output.value = value /\ output.status = "none" /\ output.loose = "plain"
    BY <1>2 DEF NoResult, FlowResults, Carried
  <1> HIDE DEF output, c
  <1>4. ~escaped' => /\ Marked(Running)
                     /\ built.gate => ErpFree(Running) /\ NoErp(output)
                     /\ c.save # "none" /\ ~NoErp(output) => output.tainted \/ c.marked
                     /\ c.name = "emitReport" /\ output.value = "erp" => Running.marks # {}
    BY <1>1, <1>2, <1>3 DEF NoErp
  <1>5. FlowType' /\ FlowMarked' /\ RetryKnown'
    <2>1. Complete(Running, c, output)
      BY DEF c, output
    <2> QED
      BY <1>1, <1>2, <1>3, <1>4, <2>1, CommandCompletes
  <1> QED
    BY <1>1, <1>5, NoPreviewYet DEF FlowInv

\* A local command saves no more than its arguments rendered to.
LEMMA LocalCommandKeeps ==
    ASSUME FlowInv, NEW name \in Local, NEW paths \in Arguments, NEW save \in Saves,
           LocalCommand(name, paths, save)
    PROVE  FlowInv'
  <1>1. Top /\ UNCHANGED <<built, suite, previews, uploaded, escaped>>
    BY DEF LocalCommand, Takes
  <1>2. Beside
    BY <1>1 DEF Beside, FlowInv, FlowType
  <1>3. \E value \in {"plain", Rendered(Running, paths)} :
           Complete(Running, CommandFor(name, paths, save), [NoResult EXCEPT !.value = value])
    BY DEF LocalCommand
  <1> QED
    BY <1>1, <1>2, <1>3, OutputKeeps

\* Marked arguments end the flow with what is not marked.
LEMMA CloudRefusedKeeps ==
    ASSUME FlowInv, NEW paths, CloudRefused(paths)
    PROVE  FlowInv'
  <1>1. Top /\ UNCHANGED <<built, suite, previews, uploaded, escaped>> /\ Return(TaintResult(Running))
    BY DEF CloudRefused, Takes
  <1>2. Beside
    BY <1>1 DEF Beside, FlowInv, FlowType
  <1> QED
    BY <1>1, <1>2, Going, FlowLeft

\* Arguments without a mark hold no ERP data.
LEMMA CloudCommandKeeps ==
    ASSUME FlowInv, NEW paths \in Arguments, NEW save \in Saves, CloudCommand(paths, save)
    PROVE  FlowInv'
  <1>1. Top /\ UNCHANGED <<built, suite, previews, escaped>> /\ ~AnyReferenced(Running.marks, paths)
        /\ uploaded' = (uploaded \/ (~built.dry /\ Rendered(Running, paths) = "erp"))
    BY DEF CloudCommand, Takes
  <1>2. Rendered(Running, paths) \in Carried /\ (~escaped => Rendered(Running, paths) # "erp")
    BY <1>1, Going, CommandKnown
  <1>3. Beside
    BY <1>1, <1>2 DEF Beside, FlowInv, FlowType
  <1>4. \/ Complete(Running, CommandFor("searchKnowledge", paths, save),
                    [NoResult EXCEPT !.value = Rendered(Running, paths)])
        \/ Raise(Rendered(Running, paths))
    BY DEF CloudCommand
  <1> QED
    BY <1>1, <1>2, <1>3, <1>4, RaiseKeeps, OutputKeeps

\* A command that fails may tell of its arguments.
LEMMA CommandFailsKeeps ==
    ASSUME FlowInv, NEW paths \in Arguments, CommandFails(paths)
    PROVE  FlowInv'
  <1>1. Top /\ UNCHANGED <<built, suite, previews, uploaded, escaped>> /\ Raise(Rendered(Running, paths))
    BY DEF CommandFails, Takes
  <1>2. Rendered(Running, paths) \in Carried /\ (~escaped /\ built.gate => Rendered(Running, paths) # "erp")
    <2>1. "none" \in Saves
      BY DEF Saves
    <2> QED
      BY <1>1, <2>1, Going, CommandKnown
  <1>3. Beside
    BY <1>1 DEF Beside, FlowInv, FlowType
  <1> QED
    BY <1>1, <1>2, <1>3, RaiseKeeps

\* What the ERP returned is marked where it is saved.
LEMMA ErpReadKeeps ==
    ASSUME FlowInv, NEW paths \in Arguments, NEW save \in Saves, ErpRead(paths, save)
    PROVE  FlowInv'
  <1>1. Top /\ UNCHANGED <<built, suite, previews, uploaded, escaped>> /\ (built.dry \/ built.erp)
    BY DEF ErpRead, Takes
  <1>2. Beside
    BY <1>1 DEF Beside, FlowInv, FlowType
  <1>3. CASE built.dry
    BY <1>1, <1>2, <1>3, OutputKeeps DEF ErpRead
  <1>4. CASE ~built.dry
    <2> DEFINE output == [NoResult EXCEPT !.tainted = TRUE, !.value = "erp"]
               c == CommandFor("erpRead", paths, save)
    <2>1. Complete(Running, c, output)
      BY <1>4 DEF ErpRead
    <2>2. output \in FlowResults /\ output.tainted = TRUE /\ output.status = "none"
      BY DEF NoResult, FlowResults, Carried
    <2> HIDE DEF output, c
    <2>3. c.name = "erpRead" /\ c.save = save /\ c.marked \in BOOLEAN
      BY <1>1, CommandKnown DEF c
    <2>4. ~built.gate
      BY <1>1, <1>4 DEF FlowInv, FlowType
    <2>5. /\ FlowType /\ FlowMarked /\ RetryKnown /\ Previewed /\ frames # <<>> /\ phase = "running"
          /\ Follows(Running) /\ (~escaped => Marked(Running))
      BY <1>1, Going
    <2>6. FlowType' /\ FlowMarked' /\ RetryKnown'
      BY <1>1, <1>2, <2>1, <2>2, <2>3, <2>4, <2>5, CommandCompletes
    <2> QED
      BY <1>1, <2>5, <2>6, NoPreviewYet DEF FlowInv
  <1> QED
    BY <1>3, <1>4

\* A preview is made where no retry waits, and the flow ends with it.
LEMMA ErpWritePreviewKeeps ==
    ASSUME FlowInv, NEW paths \in Arguments, NEW save \in Saves, ErpWritePreview(paths, save)
    PROVE  FlowInv'
  <1>1. Top /\ UNCHANGED <<built, suite, uploaded, escaped>> /\ Running.call = NoCall
    BY DEF ErpWritePreview, Takes
  <1>2. /\ FlowType /\ FlowMarked /\ RetryKnown /\ Previewed /\ frames # <<>> /\ phase = "running"
        /\ Follows(Running) /\ previews = 0
        /\ ~escaped => Marked(Running) /\ (built.gate => ErpFree(Running))
    BY <1>1, Going
  <1>3. previews' \in Nat => Beside
    BY <1>1 DEF Beside, FlowInv, FlowType
  <1>4. CASE built.dry
    BY <1>1, <1>2, <1>3, <1>4, OutputKeeps DEF ErpWritePreview
  <1>5. CASE ~built.dry /\ ~MayPreview(Running)
    <2>1. frames' = frames /\ result' = result /\ previews' = previews /\ phase' = "refusing"
      BY <1>5 DEF ErpWritePreview
    <2>0. result' \in FlowResults /\ (~escaped' /\ built.gate => NoErp(result'))
      BY <1>1, <2>1, Going DEF FlowType
    <2>2. FlowType' /\ FlowMarked' /\ RetryKnown'
      BY <1>2, <1>3, <2>0, <2>1, StackStays
    <2> QED
      BY <1>1, <1>2, <2>1, <2>2, NoPreviewYet DEF FlowInv
  <1>6. CASE ~built.dry /\ MayPreview(Running)
    <2> DEFINE output == [NoResult EXCEPT !.status = "confirmation_required"]
               c == CommandFor("erpWritePreview", paths, save)
    <2>1. previews' = previews + 1 /\ (Complete(Running, c, output) \/ Raise("plain"))
      BY <1>6 DEF ErpWritePreview
    <2>2. output \in FlowResults /\ NoErp(output) /\ output.value = "plain" /\ output.status = "confirmation_required"
      BY DEF NoResult, FlowResults, Carried, NoErp
    <2> HIDE DEF output, c
    <2>3. c.name = "erpWritePreview" /\ c.save = save /\ c.marked \in BOOLEAN
      BY <1>1, CommandKnown DEF c
    <2>4. Beside
      BY <1>2, <1>3, <2>1
    <2>5. CASE Complete(Running, c, output)
      <3>1. /\ FlowType' /\ FlowMarked' /\ RetryKnown'
            /\ phase' = "returning" /\ result'.status = "confirmation_required"
        BY <1>1, <1>2, <2>2, <2>3, <2>4, <2>5, CommandCompletes
      <3>2. Previewed'
        BY <1>1, <1>2, <3>1 DEF Previewed
      <3> QED
        BY <3>1, <3>2 DEF FlowInv
    <2>6. CASE Raise("plain")
      <3>0. frames' = frames /\ phase' = "raising" /\ result' \in FlowResults /\ NoErp(result')
        BY <2>6 DEF Raise, NoResult, FlowResults, Carried, NoErp
      <3>1. FlowType' /\ FlowMarked' /\ RetryKnown'
        BY <1>2, <2>4, <3>0, StackStays
      <3>2. \A i \in DOMAIN frames : frames[i].call.name # "retry"
        <4> SUFFICES ASSUME NEW i \in DOMAIN frames, frames[i].call.name = "retry" PROVE FALSE
          OBVIOUS
        <4>1. /\ Len(frames) \in DOMAIN frames /\ Len(frames) \in Nat /\ DOMAIN frames = 1 .. Len(frames)
              /\ Running = frames[Len(frames)]
          BY <1>2, TopRemoved DEF FlowType
        <4>2. i # Len(frames)
          BY <1>1, <4>1 DEF NoCall
        <4>3. i < Len(frames)
          BY <4>1, <4>2
        <4>4. Running.retrying
          BY <1>2, <4>1, <4>3 DEF RetryKnown
        <4> QED
          BY <1>6, <4>4 DEF MayPreview
      <3>3. Previewed'
        BY <1>1, <1>2, <2>6, <3>2 DEF Previewed, Raise
      <3> QED
        BY <3>1, <3>3 DEF FlowInv
    <2> QED
      BY <2>1, <2>5, <2>6
  <1> QED
    BY <1>4, <1>5, <1>6

\* The env of a child is rendered with the marks of what it came from.
LEMMA GroupCommandKeeps ==
    ASSUME FlowInv, NEW name \in {"runFlow", "repeat", "retry"}, NEW save \in Saves, NEW over \in Overrides,
           NEW whole \in BOOLEAN, NEW condition \in SUBSET EnvPaths, NEW count \in Nat,
           GroupCommand(name, save, over, whole, condition, count)
    PROVE  FlowInv'
  <1> DEFINE used == UNION {over[n] : n \in DOMAIN over}
             marked == AnyReferenced(Running.marks, used)
             given == [n \in DOMAIN over |-> Rendered(Running, over[n])]
             begun == [NoCall EXCEPT !.name = name, !.save = save, !.marked = marked,
                                     !.overMarked = ~whole /\ marked, !.whole = whole /\ marked,
                                     !.over = given, !.while = condition, !.left = count]
             g == [Running EXCEPT !.call = begun]
  <1>1. Top /\ frames' = WithTop(g) /\ UNCHANGED <<built, phase, result, suite, previews, uploaded, escaped>>
    BY DEF GroupCommand, Takes
  <1>2. /\ FlowType /\ FlowMarked /\ RetryKnown /\ Previewed /\ frames # <<>> /\ phase = "running"
        /\ Running \in FrameSet
        /\ ~escaped => /\ Marked(Running)
                       /\ built.gate => ErpFree(Running) /\ NoErp(result)
    BY <1>1, Going
  <1>3. DOMAIN over \subseteq Names /\ \A n \in DOMAIN over : over[n] \in SUBSET Paths
    <2>1. over = <<>> \/ \E k \in Names : over \in [{k} -> {{<<v>>} : v \in Names}]
      BY DEF Overrides
    <2>2. CASE over = <<>>
      BY <2>2
    <2>3. ASSUME NEW k \in Names, over \in [{k} -> {{<<v>>} : v \in Names}]
          PROVE  DOMAIN over \subseteq Names /\ \A n \in DOMAIN over : over[n] \in SUBSET Paths
      BY <2>3 DEF Paths
    <2> QED
      BY <2>1, <2>2, <2>3
  <1>4. ASSUME NEW n \in DOMAIN over
        PROVE  /\ given[n] \in Carried /\ given[n] = Rendered(Running, over[n])
               /\ Marked(Running) /\ given[n] = "erp" => marked
               /\ ErpFree(Running) => given[n] = "plain"
    <2>1. /\ Rendered(Running, over[n]) \in Carried
          /\ Marked(Running) /\ Rendered(Running, over[n]) = "erp" => AnyReferenced(Running.marks, over[n])
          /\ ErpFree(Running) => Rendered(Running, over[n]) = "plain"
      BY <1>2, <1>3, RenderedMarked
    <2>2. AnyReferenced(Running.marks, over[n]) => marked
      BY DEF AnyReferenced
    <2> QED
      BY <2>1, <2>2
  <1>5. given \in UNION {[K -> Carried] : K \in SUBSET Names} /\ DOMAIN given = DOMAIN over
    <2>1. given \in [DOMAIN over -> Carried]
      <3> SUFFICES ASSUME NEW n \in DOMAIN over PROVE Rendered(Running, over[n]) \in Carried
        OBVIOUS
      <3> QED
        BY <1>4
    <2> HIDE DEF given
    <2> QED
      BY <1>3, <2>1
  <1>6. marked \in BOOLEAN
    BY DEF AnyReferenced
  <1> HIDE DEF given, marked
  <1>7. /\ begun \in CallSet /\ begun.seen = "plain" /\ begun.loose = "plain" /\ begun.over = given
        /\ begun.overMarked = (~whole /\ marked) /\ begun.whole = (whole /\ marked)
    <2>1. begun \in CallSet
      BY <1>5, <1>6, NoCallKnown DEF CallSet
    <2>2. /\ begun.seen = NoCall.seen /\ begun.loose = NoCall.loose /\ begun.over = given
          /\ begun.overMarked = (~whole /\ marked) /\ begun.whole = (whole /\ marked)
      BY NoCallKnown DEF CallSet
    <2> QED
      BY <2>1, <2>2, NoCallKnown
  <1> HIDE DEF begun
  <1>8. /\ g \in FrameSet /\ g.env = Running.env /\ g.saved = Running.saved /\ g.marks = Running.marks
        /\ g.artifacts = Running.artifacts /\ g.call = begun /\ g.retrying = Running.retrying
        /\ g.heard = Running.heard
    BY <1>2, <1>7 DEF FrameSet
  <1> HIDE DEF g
  <1>9. Follows(g) /\ (Marked(Running) => Marked(g)) /\ (ErpFree(Running) => ErpFree(g))
    BY <1>4, <1>5, <1>7, <1>8 DEF Follows, Marked, ErpFree
  <1>10. Beside /\ result' \in FlowResults
    BY <1>1, <1>2 DEF Beside, FlowType
  <1>11. FlowType' /\ FlowMarked' /\ RetryKnown'
    BY <1>1, <1>2, <1>9, <1>10, TopMoves
  <1> QED
    BY <1>1, <1>2, <1>11, NoPreviewYet DEF FlowInv

\* A flow at its end returns all it holds, marked when anything was.
LEMMA FlowEndKeeps ==
    ASSUME FlowInv, FlowEnd
    PROVE  FlowInv'
  <1>1. Top /\ UNCHANGED <<built, suite, previews, uploaded, escaped>>
        /\ \E status \in {"ok", "planned"} : Return(Ended(Running, status))
    BY DEF FlowEnd
  <1>2. Beside
    BY <1>1 DEF Beside, FlowInv, FlowType
  <1> QED
    BY <1>1, <1>2, Going, FlowLeft

\* A condition sees env only.
LEMMA ConditionRendered ==
    ASSUME NEW f \in FrameSet, f.call \in CallSet
    PROVE  /\ Rendered(f, f.call.while) \in Carried
           /\ ErpFree(f) => Rendered(f, f.call.while) = "plain"
  <1>1. f.call.while \in SUBSET Paths
    BY DEF CallSet, EnvPaths, Paths
  <1> QED
    BY <1>1, RenderedMarked

\* What a group command that waits may rely on.
LEMMA CallKnown ==
    ASSUME FlowType, NEW f \in FrameSet
    PROVE  /\ f.call \in CallSet /\ f.call.left \in Nat /\ f.call.seen \in Carried /\ f.call.tainted \in BOOLEAN
           /\ f.call.loose \in Carried /\ f.call.save \in Saves /\ f.call.marked \in BOOLEAN
           /\ f.call.name # "emitReport"
           /\ Marked(f) => (f.call.seen = "erp" => f.call.tainted)
           /\ ErpFree(f) => f.call.seen # "erp" /\ f.call.loose # "erp"
  <1>1. f.call \in CallSet
    BY DEF FrameSet
  <1> QED
    BY <1>1 DEF CallSet, Marked, ErpFree

\* The frame at the top, but for what the command that waits has counted and seen.
Counts(f) ==
    /\ f \in FrameSet /\ f.env = Running.env /\ f.saved = Running.saved /\ f.marks = Running.marks
    /\ f.artifacts = Running.artifacts /\ f.retrying = Running.retrying /\ f.call.over = Running.call.over
    /\ f.call.overMarked = Running.call.overMarked /\ f.call.name = Running.call.name
    /\ f.call.whole = Running.call.whole /\ f.heard = Running.heard

\* What the command has seen is marked still.
LEMMA CallStays ==
    ASSUME FlowInv, frames # <<>>, NEW f, Counts(f),
           ~escaped => /\ f.call.seen = "erp" => f.call.tainted
                       /\ built.gate => f.call.seen # "erp" /\ f.call.loose # "erp"
    PROVE  /\ Follows(f) /\ (~escaped => Marked(f) /\ (built.gate => ErpFree(f)))
           /\ f.call.name # "emitReport"
  <1>1. /\ FlowType /\ FlowMarked /\ Running \in FrameSet /\ Follows(Running)
        /\ ~escaped => Marked(Running) /\ (built.gate => ErpFree(Running))
    BY TopKnown DEF FlowInv
  <1>2. Running.call.name # "emitReport"
    BY <1>1, CallKnown
  <1>3. Follows(f) /\ f.call.name # "emitReport"
    BY <1>1, <1>2 DEF Follows, Counts
  <1>4. ~escaped => Marked(f)
    BY <1>1 DEF Marked, Counts
  <1>5. ~escaped /\ built.gate => ErpFree(f)
    BY <1>1 DEF ErpFree, Counts
  <1> QED
    BY <1>3, <1>4, <1>5

\* A group command starts its flow, with one try fewer and what it tested.
LEMMA CallEnters ==
    ASSUME FlowInv, Top, NEW own \in SUBSET Names, NEW f, Counts(f), EnterChild(f, own),
           f.call.seen = Running.call.seen, f.call.tainted = Running.call.tainted,
           ~escaped /\ built.gate => f.call.loose # "erp",
           UNCHANGED <<built, phase, result, suite, previews, uploaded>>
    PROVE  FlowInv'
  <1>1. /\ FlowType /\ FlowMarked /\ RetryKnown /\ Previewed /\ frames # <<>> /\ phase = "running"
        /\ Running \in FrameSet
        /\ ~escaped => Marked(Running) /\ (built.gate => ErpFree(Running))
    BY Going
  <1>2. ~escaped => /\ f.call.seen = "erp" => f.call.tainted
                    /\ built.gate => f.call.seen # "erp" /\ f.call.loose # "erp"
    BY <1>1, CallKnown
  <1>3. Follows(f) /\ (~escaped => Marked(f) /\ (built.gate => ErpFree(f)))
    BY <1>1, <1>2, CallStays
  <1>4. escaped' = (escaped \/ Unlooked(f))
    BY DEF EnterChild
  <1>5. Beside
    BY <1>1, <1>4 DEF Beside, FlowType
  <1>6. FlowType' /\ FlowMarked' /\ RetryKnown'
    BY <1>1, <1>3, <1>4, <1>5, ChildEnters
  <1> QED
    BY <1>1, <1>6, NoPreviewYet DEF FlowInv

\* A repeat that tested its condition holds what it rendered to.
LEMMA TestedCounts ==
    ASSUME FlowInv, Top
    PROVE  /\ Counts(Tested) /\ Tested.call.seen = Running.call.seen
           /\ Tested.call.tainted = Running.call.tainted /\ Tested.call.left = Running.call.left
           /\ Tested.call \in CallSet /\ (~escaped /\ built.gate => Tested.call.loose # "erp")
  <1> DEFINE r == Running
             new == Mix({r.call.loose, Rendered(r, r.call.while)})
  <1>1. /\ FlowType /\ r \in FrameSet
        /\ ~escaped => (built.gate => ErpFree(r))
    BY Going
  <1>2. /\ r.call \in CallSet /\ r.call.loose \in Carried
        /\ ErpFree(r) => r.call.loose # "erp"
    BY <1>1, CallKnown
  <1>3. new \in Carried /\ (ErpFree(r) => new # "erp")
    BY <1>1, <1>2, ConditionRendered DEF Mix, Carried
  <1>4. CASE r.call.while = {}
    <2>1. Tested = r
      BY <1>4 DEF Tested
    <2> QED
      BY <1>1, <1>2, <2>1 DEF Counts
  <1>5. CASE r.call.while # {}
    <2>1. Tested = [r EXCEPT !.call.loose = new]
      BY <1>1, <1>2, <1>5 DEF Tested, FrameSet, CallSet
    <2> HIDE DEF new
    <2>2. /\ Counts(Tested) /\ Tested.call.seen = r.call.seen /\ Tested.call.tainted = r.call.tainted
          /\ Tested.call.left = r.call.left /\ Tested.call \in CallSet /\ Tested.call.loose = new
      BY <1>1, <1>2, <1>3, <2>1 DEF Counts, FrameSet, CallSet
    <2> QED
      BY <1>1, <1>3, <2>2
  <1> QED
    BY <1>4, <1>5

\* runFlow, repeat and retry start a child.
LEMMA GroupEntersKeeps ==
    ASSUME FlowInv, NEW own \in SUBSET Names,
           RepeatIterates(own) \/ RunFlowEnters(own) \/ RetryEnters(own)
    PROVE  FlowInv'
  <1> DEFINE r == Running
             left == r.call.left - 1
  <1>1. Top /\ UNCHANGED <<built, phase, result, suite, previews, uploaded>> /\ r.call.left > 0
    BY DEF RepeatIterates, RunFlowEnters, RetryEnters, Waits
  <1>2. /\ r \in FrameSet /\ r.call \in CallSet /\ r.call.left \in Nat
        /\ ~escaped /\ built.gate => r.call.loose # "erp"
    BY <1>1, Going, CallKnown
  <1>3. left \in Nat
    BY <1>1, <1>2
  <1>4. CASE RepeatIterates(own)
    <2> DEFINE f == [Tested EXCEPT !.call.left = left]
    <2>1. /\ Counts(Tested) /\ Tested.call.seen = r.call.seen /\ Tested.call.tainted = r.call.tainted
          /\ Tested.call.left = r.call.left /\ Tested.call \in CallSet
          /\ ~escaped /\ built.gate => Tested.call.loose # "erp"
      BY <1>1, TestedCounts
    <2>2. f = [Tested EXCEPT !.call.left = @ - 1]
      BY <2>1 DEF Counts, FrameSet, CallSet
    <2>3. EnterChild(f, own)
      <3> HIDE DEF f
      <3> QED
        BY <1>4, <2>2 DEF RepeatIterates
    <2> HIDE DEF left
    <2>4. /\ Counts(f) /\ f.call.seen = r.call.seen /\ f.call.tainted = r.call.tainted
          /\ f.call.loose = Tested.call.loose
      BY <1>3, <2>1 DEF Counts, FrameSet, CallSet
    <2> HIDE DEF f
    <2> QED
      BY <1>1, <2>1, <2>3, <2>4, CallEnters
  <1>5. CASE RunFlowEnters(own)
    <2> DEFINE f == [r EXCEPT !.call.left = 0]
    <2>1. EnterChild(f, own)
      BY <1>5 DEF RunFlowEnters
    <2>2. /\ Counts(f) /\ f.call.seen = r.call.seen /\ f.call.tainted = r.call.tainted
          /\ f.call.loose = r.call.loose
      BY <1>2 DEF Counts, FrameSet, CallSet
    <2> HIDE DEF f
    <2> QED
      BY <1>1, <1>2, <2>1, <2>2, CallEnters
  <1>6. CASE RetryEnters(own)
    <2> DEFINE f == [r EXCEPT !.call.left = left]
    <2>1. f = [Running EXCEPT !.call.left = @ - 1]
      BY <1>2 DEF FrameSet, CallSet
    <2>2. EnterChild(f, own)
      <3> HIDE DEF f
      <3> QED
        BY <1>6, <2>1 DEF RetryEnters
    <2> HIDE DEF left
    <2>3. /\ Counts(f) /\ f.call.seen = r.call.seen /\ f.call.tainted = r.call.tainted
          /\ f.call.loose = r.call.loose
      BY <1>2, <1>3 DEF Counts, FrameSet, CallSet
    <2> HIDE DEF f
    <2> QED
      BY <1>1, <1>2, <2>2, <2>3, CallEnters
  <1> QED
    BY <1>4, <1>5, <1>6

\* What a repeat returns, with the marks of what it holds.
LEMMA RepeatCompletes ==
    ASSUME FlowInv, frames # <<>>, UNCHANGED <<built, previews, uploaded>>, NEW f, Follows(f),
           NEW status \in {"ok", "confirmation_required", "erp_to_cloud_taint"}, EndRepeat(f, status),
           f.call.name # "emitReport", ~escaped => Marked(f) /\ (built.gate => ErpFree(f))
    PROVE  /\ FlowType' /\ FlowMarked' /\ RetryKnown'
           /\ status = "confirmation_required" => phase' = "returning" /\ result'.status = "confirmation_required"
  <1> DEFINE output == RepeatOutput(f, status)
             c == f.call
  <1>1. f \in FrameSet /\ FlowType /\ FlowMarked /\ RetryKnown
    BY DEF Follows, FlowInv
  <1>2. /\ c.save \in Saves /\ c.marked \in BOOLEAN /\ c.tainted \in BOOLEAN /\ c.seen \in Carried
        /\ c.loose \in Carried
        /\ Marked(f) => (c.seen = "erp" => c.tainted)
        /\ ErpFree(f) => c.seen # "erp" /\ c.loose # "erp"
    BY <1>1, CallKnown
  <1>3. /\ Complete(f, c, output) /\ escaped' = (escaped \/ SavedUnmarked(c, output))
        /\ output = [status |-> status, tainted |-> c.tainted, value |-> c.seen, loose |-> c.loose]
    BY DEF EndRepeat, RepeatOutput
  <1> HIDE DEF output
  <1>4. output \in FlowResults /\ output.status = status /\ output.tainted = c.tainted
        /\ output.value = c.seen /\ output.loose = c.loose
    <2>1. status \in {"none", "ok", "planned", "blocked", "confirmation_required", "erp_to_cloud_taint"}
      OBVIOUS
    <2> HIDE DEF c
    <2> QED
      BY <1>2, <1>3, <2>1 DEF FlowResults
  <1>5. Beside
    <2>1. escaped' \in BOOLEAN /\ (escaped => escaped')
      BY <1>1, <1>3 DEF FlowType, SavedUnmarked
    <2> QED
      BY <1>1, <2>1 DEF Beside, FlowType
  <1>6. ~escaped' => /\ Marked(f)
                     /\ built.gate => ErpFree(f) /\ NoErp(output)
                     /\ c.save # "none" /\ ~NoErp(output) => output.tainted \/ c.marked
                     /\ c.name = "emitReport" /\ output.value = "erp" => f.marks # {}
    BY <1>2, <1>3, <1>4 DEF NoErp, SavedUnmarked
  <1> HIDE DEF c
  <1>7. /\ FlowType' /\ FlowMarked' /\ RetryKnown'
        /\ output.status = "confirmation_required" => phase' = "returning" /\ result'.status = "confirmation_required"
    BY <1>1, <1>2, <1>3, <1>4, <1>5, <1>6, CommandCompletes
  <1> QED
    BY <1>4, <1>7

\* A repeat that ran its last iteration, or whose condition is false.
LEMMA RepeatEndsKeeps ==
    ASSUME FlowInv, RepeatEnds
    PROVE  FlowInv'
  <1> DEFINE r == Running
  <1>1. Top /\ UNCHANGED <<built, suite, previews, uploaded>>
    BY DEF RepeatEnds, Waits
  <1>2. /\ FlowType /\ FlowMarked /\ RetryKnown /\ Previewed /\ frames # <<>> /\ phase = "running"
        /\ r \in FrameSet /\ (~escaped => Marked(r) /\ (built.gate => ErpFree(r)))
    BY <1>1, Going
  <1>3. /\ r.call \in CallSet
        /\ Marked(r) => (r.call.seen = "erp" => r.call.tainted)
        /\ ErpFree(r) => r.call.seen # "erp" /\ r.call.loose # "erp"
    BY <1>2, CallKnown
  <1>4. \E f \in {r, Tested} : EndRepeat(f, "ok")
    BY DEF RepeatEnds
  <1>5. PICK f \in {r, Tested} : EndRepeat(f, "ok")
    BY <1>4
  <1>6. /\ Counts(f) /\ f.call.seen = r.call.seen /\ f.call.tainted = r.call.tainted
        /\ ~escaped /\ built.gate => f.call.loose # "erp"
    <2>1. CASE f = r
      BY <1>2, <1>3, <2>1 DEF Counts
    <2>2. CASE f = Tested
      BY <1>1, <2>2, TestedCounts
    <2> QED
      BY <2>1, <2>2
  <1>7. Follows(f) /\ (~escaped => Marked(f) /\ (built.gate => ErpFree(f))) /\ f.call.name # "emitReport"
    BY <1>2, <1>3, <1>6, CallStays
  <1>8. FlowType' /\ FlowMarked' /\ RetryKnown'
    BY <1>1, <1>2, <1>5, <1>7, RepeatCompletes
  <1>9. previews' = previews /\ suite' = suite
    BY <1>1
  <1> QED
    BY <1>2, <1>8, <1>9, NoPreviewYet DEF FlowInv

\* One try fewer, and the error passes on.
LEMMA GroupFailsKeeps ==
    ASSUME FlowInv, GroupFails
    PROVE  FlowInv'
  <1> DEFINE r == Running
             left == r.call.left - 1
             f == [r EXCEPT !.call.left = left]
  <1>1. Top /\ UNCHANGED <<built, result, suite, previews, uploaded, escaped>> /\ phase' = "raising" /\ r.call.left > 0
    BY DEF GroupFails
  <1>2. /\ FlowType /\ FlowMarked /\ RetryKnown /\ Previewed /\ frames # <<>> /\ phase = "running"
        /\ r \in FrameSet /\ (~escaped => /\ Marked(r)
                                          /\ built.gate => ErpFree(r) /\ NoErp(result))
    BY <1>1, Going
  <1>3. /\ r.call \in CallSet /\ r.call.left \in Nat /\ r.call.seen \in Carried /\ r.call.tainted \in BOOLEAN
        /\ Marked(r) => (r.call.seen = "erp" => r.call.tainted)
        /\ ErpFree(r) => r.call.seen # "erp" /\ r.call.loose # "erp"
    BY <1>2, CallKnown
  <1>4. left \in Nat
    BY <1>1, <1>3
  <1>5. f = [Running EXCEPT !.call.left = @ - 1]
    BY <1>2, <1>3 DEF FrameSet, CallSet
  <1>6. /\ Counts(f) /\ f.call.seen = r.call.seen /\ f.call.tainted = r.call.tainted
        /\ f.call.loose = r.call.loose
    <2> HIDE DEF left
    <2> QED
      BY <1>2, <1>3, <1>4 DEF Counts, FrameSet, CallSet
  <1> HIDE DEF f, left
  <1>7. Follows(f) /\ (~escaped => Marked(f) /\ (built.gate => ErpFree(f)))
    BY <1>2, <1>3, <1>6, CallStays
  <1>8. frames' = WithTop(f)
    BY <1>5 DEF GroupFails
  <1>9. Beside /\ result' \in FlowResults
    BY <1>1, <1>2 DEF Beside, FlowType
  <1>10. FlowType' /\ FlowMarked' /\ RetryKnown'
    BY <1>1, <1>2, <1>7, <1>8, <1>9, TopMoves
  <1> QED
    BY <1>1, <1>2, <1>10, NoPreviewYet DEF FlowInv

\* The result of a child reaches the command that waits for it, with its mark.
LEMMA ChildReturnsKeeps ==
    ASSUME FlowInv, ChildReturns
    PROVE  FlowInv'
  <1> DEFINE r == Running
             seen == Mix({r.call.seen, result.value})
             loose == Mix({r.call.loose, result.loose})
             tainted == r.call.tainted \/ result.tainted
             f == [r EXCEPT !.call.seen = seen, !.call.tainted = tainted, !.call.loose = loose]
             output == [result EXCEPT !.loose = Mix({result.loose, r.call.loose})]
  <1>1. UNCHANGED <<built, suite, previews, uploaded>> /\ phase = "returning" /\ frames # <<>>
    BY DEF ChildReturns
  <1>2. /\ FlowType /\ FlowMarked /\ RetryKnown /\ Previewed /\ r \in FrameSet /\ Follows(r)
        /\ result \in FlowResults
        /\ ~escaped => /\ Marked(r) /\ (built.gate => ErpFree(r) /\ NoErp(result))
                       /\ result.value = "erp" => result.tainted
    <2>1. FlowType /\ FlowMarked /\ RetryKnown /\ Previewed
      BY DEF FlowInv
    <2> QED
      BY <1>1, <2>1, TopKnown DEF FlowMarked, FlowType
  <1>3. /\ r.call \in CallSet /\ r.call.left \in Nat /\ r.call.seen \in Carried /\ r.call.tainted \in BOOLEAN
        /\ r.call.loose \in Carried
        /\ r.call.save \in Saves /\ r.call.marked \in BOOLEAN /\ r.call.name # "emitReport"
        /\ Marked(r) => (r.call.seen = "erp" => r.call.tainted)
        /\ ErpFree(r) => r.call.seen # "erp" /\ r.call.loose # "erp"
    BY <1>2, CallKnown
  <1>4. /\ result.tainted \in BOOLEAN /\ result.value \in Carried /\ result.loose \in Carried
        /\ loose \in Carried /\ seen \in Carried /\ tainted \in BOOLEAN
        /\ loose = "erp" => r.call.loose = "erp" \/ result.loose = "erp"
        /\ seen = "erp" => r.call.seen = "erp" \/ result.value = "erp"
    BY <1>2 DEF FlowResults, Mix, Carried
  <1>5. suite.found /\ (previews > 0 => result.status = "confirmation_required")
    BY <1>1, <1>2 DEF Previewed
  <1>6. ASSUME FlowType', FlowMarked', RetryKnown',
               result.status = "confirmation_required" =>
                   phase' = "returning" /\ result'.status = "confirmation_required"
        PROVE  FlowInv'
    BY <1>1, <1>2, <1>5, <1>6 DEF FlowInv, Previewed
  <1>7. CASE r.call.name # "repeat"
    <2> DEFINE more == Mix({result.loose, r.call.loose})
    <2>0. more \in Carried /\ (more = "erp" => r.call.loose = "erp" \/ result.loose = "erp")
      BY <1>4 DEF Mix, Carried
    <2>1. /\ Complete(Running, r.call, output)
          /\ escaped' = (escaped \/ SavedUnmarked(r.call, output))
      BY <1>2, <1>7 DEF ChildReturns, FlowResults
    <2> HIDE DEF more
    <2>2. /\ output \in FlowResults /\ output.status = result.status /\ output.tainted = result.tainted
          /\ output.value = result.value /\ output.loose = more
      <3>1. output = [result EXCEPT !.loose = more]
        BY DEF more
      <3> HIDE DEF output
      <3> QED
        BY <1>2, <2>0, <3>1 DEF FlowResults
    <2> HIDE DEF output
    <2>3. Beside
      <3>1. escaped' \in BOOLEAN /\ (escaped => escaped')
        BY <1>2, <2>1 DEF FlowType, SavedUnmarked
      <3> QED
        BY <1>1, <1>2, <3>1 DEF Beside, FlowType
    <2>4. ~escaped' => /\ Marked(r)
                       /\ built.gate => ErpFree(r) /\ NoErp(output)
                       /\ r.call.save # "none" /\ ~NoErp(output) => output.tainted \/ r.call.marked
                       /\ r.call.name = "emitReport" /\ output.value = "erp" => r.marks # {}
      BY <1>2, <1>3, <2>0, <2>1, <2>2 DEF NoErp, SavedUnmarked
    <2>5. /\ FlowType' /\ FlowMarked' /\ RetryKnown'
          /\ output.status = "confirmation_required" =>
                phase' = "returning" /\ result'.status = "confirmation_required"
      BY <1>1, <1>2, <1>3, <2>1, <2>2, <2>3, <2>4, CommandCompletes
    <2> QED
      BY <1>6, <2>2, <2>5
  <1>8. CASE r.call.name = "repeat"
    <2>1. f = [Running EXCEPT !.call.seen = Mix({@, result.value}), !.call.tainted = @ \/ result.tainted,
                              !.call.loose = Mix({@, result.loose})]
      BY <1>2, <1>3 DEF FrameSet, CallSet
    <2>2. tainted = (r.call.tainted \/ result.tainted)
      OBVIOUS
    <2> HIDE DEF seen, tainted, loose
    <2>3. /\ Counts(f) /\ f.call.seen = seen /\ f.call.tainted = tainted /\ f.call.loose = loose
      BY <1>2, <1>3, <1>4 DEF Counts, FrameSet, CallSet
    <2> HIDE DEF f
    <2>4. ~escaped => /\ seen = "erp" => tainted
                      /\ built.gate => seen # "erp" /\ loose # "erp"
      BY <1>2, <1>3, <1>4, <2>2 DEF NoErp
    <2>5. /\ Follows(f) /\ (~escaped => Marked(f) /\ (built.gate => ErpFree(f)))
          /\ f.call.name # "emitReport"
      BY <1>1, <2>3, <2>4, CallStays
    <2>6. CASE StopsRepeat(result)
      <3>1. EndRepeat(f, result.status) /\ result.status \in {"confirmation_required", "erp_to_cloud_taint"}
        BY <1>8, <2>1, <2>6 DEF ChildReturns, StopsRepeat
      <3>2. /\ FlowType' /\ FlowMarked' /\ RetryKnown'
            /\ result.status = "confirmation_required" =>
                  phase' = "returning" /\ result'.status = "confirmation_required"
        BY <1>1, <2>5, <3>1, RepeatCompletes
      <3> QED
        BY <1>6, <3>2
    <2>7. CASE ~StopsRepeat(result)
      <3>1. frames' = WithTop(f) /\ phase' = "running" /\ result' = NoResult /\ escaped' = escaped
        BY <1>8, <2>1, <2>7 DEF ChildReturns
      <3>2. result' \in FlowResults /\ NoErp(result')
        BY <3>1 DEF NoResult, FlowResults, Carried, NoErp
      <3>3. Beside
        BY <1>1, <1>2, <3>1 DEF Beside, FlowType
      <3>4. FlowType' /\ FlowMarked' /\ RetryKnown'
        BY <1>1, <1>2, <2>5, <3>1, <3>2, <3>3, TopMoves
      <3> QED
        BY <1>6, <2>7, <3>4 DEF StopsRepeat
    <2> QED
      BY <2>6, <2>7
  <1> QED
    BY <1>7, <1>8

\* A retry tries again only where no preview was made.
LEMMA ChildRaisesKeeps ==
    ASSUME FlowInv, ChildRaises
    PROVE  FlowInv'
  <1> DEFINE r == Running
  <1>1. /\ UNCHANGED <<built, suite, previews, uploaded, escaped>>
        /\ phase \in {"raising", "refusing"} /\ frames # <<>>
    BY DEF ChildRaises
  <1>2. /\ FlowType /\ FlowMarked /\ RetryKnown /\ Previewed /\ result \in FlowResults /\ r \in FrameSet
        /\ ~escaped => /\ Marked(r)
                       /\ built.gate => ErpFree(r) /\ NoErp(result)
    BY <1>1, TopKnown DEF FlowInv, FlowType
  <1>3. Beside
    BY <1>1, <1>2 DEF Beside, FlowType
  <1>4. /\ Len(frames) \in DOMAIN frames /\ Running = frames[Len(frames)]
        /\ DOMAIN Front(frames) = 1 .. Len(frames) - 1 /\ DOMAIN frames = 1 .. Len(frames) /\ Len(frames) \in Nat
        /\ \A i \in 1 .. Len(frames) - 1 : Front(frames)[i] = frames[i]
    BY <1>1, <1>2, TopRemoved DEF FlowType
  <1>5. CASE /\ Running.call.name = "retry" /\ phase = "raising" /\ phase' = "running" /\ result' = NoResult
             /\ frames' = WithTop([Running EXCEPT !.call.loose = Mix({@, result.value})])
    <2> DEFINE loose == Mix({r.call.loose, result.value})
               f == [r EXCEPT !.call.loose = loose]
    <2>a. /\ r.call \in CallSet /\ r.call.loose \in Carried
          /\ Marked(r) => (r.call.seen = "erp" => r.call.tainted)
          /\ ErpFree(r) => r.call.seen # "erp" /\ r.call.loose # "erp"
      BY <1>2, CallKnown
    <2>b. loose \in Carried /\ (~escaped /\ built.gate => loose # "erp")
      BY <1>2, <2>a DEF Mix, Carried, NoErp
    <2>c. frames' = WithTop(f)
      <3>1. f = [Running EXCEPT !.call.loose = Mix({@, result.value})]
        BY <1>2, <2>a DEF FrameSet, CallSet
      <3> HIDE DEF f
      <3> QED
        BY <1>5, <3>1
    <2> HIDE DEF loose
    <2>d. /\ Counts(f) /\ f.call.seen = r.call.seen /\ f.call.tainted = r.call.tainted /\ f.call.loose = loose
      BY <1>2, <2>a, <2>b DEF Counts, FrameSet, CallSet
    <2> HIDE DEF f
    <2>e. Follows(f) /\ (~escaped => Marked(f) /\ (built.gate => ErpFree(f)))
      BY <1>1, <1>2, <2>a, <2>b, <2>d, CallStays
    <2>f. result' \in FlowResults /\ NoErp(result')
      BY <1>5 DEF NoResult, FlowResults, Carried, NoErp
    <2>1. FlowType' /\ FlowMarked' /\ RetryKnown'
      BY <1>1, <1>2, <1>3, <1>5, <2>c, <2>e, <2>f, TopMoves
    <2>2. ~(previews > 0)
      BY <1>2, <1>4, <1>5 DEF Previewed
    <2>3. Previewed'
      BY <1>1, <1>2, <1>5, <2>2 DEF Previewed
    <2> QED
      BY <2>1, <2>3 DEF FlowInv
  <1>6. CASE frames' = Front(frames) /\ phase' = phase /\ result' = result
    <2>1. FlowType' /\ FlowMarked' /\ RetryKnown'
      BY <1>1, <1>2, <1>3, <1>6, TopLeaves
    <2>2. \A i \in DOMAIN frames' : i \in DOMAIN frames /\ frames'[i] = frames[i]
      BY <1>4, <1>6
    <2>3. Previewed'
      BY <1>1, <1>2, <1>6, <2>2 DEF Previewed
    <2> QED
      BY <2>1, <2>3 DEF FlowInv
  <1> QED
    BY <1>5, <1>6 DEF ChildRaises

\* The first flow has not started.
LEMMA FlowStarts ==
    ASSUME FlowInit
    PROVE  FlowInv
  <1> USE DEF FlowInit
  <1>1. FlowType
    <2>1. built \in [dry : BOOLEAN, erp : BOOLEAN, gate : BOOLEAN] /\ ~(built.erp /\ built.gate)
      BY FlowAssumption
    <2>2. result \in FlowResults
      BY DEF NoResult, FlowResults, Carried
    <2>3. frames \in Seq(FrameSet)
      OBVIOUS
    <2> QED
      BY <2>1, <2>2, <2>3 DEF FlowType
  <1>2. FlowMarked /\ RetryKnown
    BY DEF FlowMarked, RetryKnown, NoErp, NoResult
  <1>3. Previewed
    BY DEF Previewed
  <1> QED
    BY <1>1, <1>2, <1>3 DEF FlowInv

\* The commands a flow may come to.
CommandsNext ==
    \E paths \in Arguments :
        \/ CommandFails(paths) \/ CloudRefused(paths)
        \/ \E name \in Local : \E save \in SavesOf(name) : LocalCommand(name, paths, save)
        \/ \E save \in SavesOf("searchKnowledge") : CloudCommand(paths, save)
        \/ \E save \in SavesOf("erpRead") : ErpRead(paths, save)
        \/ \E save \in SavesOf("erpWritePreview") : ErpWritePreview(paths, save)

LEMMA CommandsKeep ==
    ASSUME FlowInv, CommandsNext
    PROVE  FlowInv'
  <1>1. \A name : SavesOf(name) \subseteq Saves
    BY DEF SavesOf
  <1> QED
    BY <1>1, CommandFailsKeeps, LocalCommandKeeps, CloudRefusedKeeps, CloudCommandKeeps, ErpReadKeeps,
       ErpWritePreviewKeeps DEF CommandsNext

\* The commands that run other flows, with the counts they may have.
GroupsNext ==
    \E over \in Overrides : \E whole \in {FALSE, over # <<>>} :
        \/ \E save \in SavesOf("runFlow") : GroupCommand("runFlow", save, over, whole, {}, 1)
        \/ \E save \in SavesOf("retry"), n \in {0, MaxRetries} :
             GroupCommand("retry", save, over, whole, {}, n + 1)
        \/ \E save \in SavesOf("repeat"), k \in 0..MaxIterations, condition \in Conditions :
             GroupCommand("repeat", save, over, whole, condition, k)

LEMMA GroupsKeep ==
    ASSUME FlowInv, GroupsNext
    PROVE  FlowInv'
  <1>1. MaxRetries \in Nat /\ MaxIterations \in Nat
    BY FlowAssumption
  <1>2. {} \in SUBSET EnvPaths /\ 1 \in Nat /\ \A name : SavesOf(name) \subseteq Saves
    BY DEF SavesOf
  <1>3. PICK over \in Overrides, whole \in BOOLEAN :
            \/ \E save \in SavesOf("runFlow") : GroupCommand("runFlow", save, over, whole, {}, 1)
            \/ \E save \in SavesOf("retry"), n \in {0, MaxRetries} :
                 GroupCommand("retry", save, over, whole, {}, n + 1)
            \/ \E save \in SavesOf("repeat"), k \in 0..MaxIterations, condition \in Conditions :
                 GroupCommand("repeat", save, over, whole, condition, k)
    BY DEF GroupsNext
  <1>4. ASSUME NEW save \in SavesOf("runFlow"), GroupCommand("runFlow", save, over, whole, {}, 1) PROVE FlowInv'
    BY <1>2, <1>4, GroupCommandKeeps
  <1>5. ASSUME NEW save \in SavesOf("retry"), NEW n \in {0, MaxRetries},
               GroupCommand("retry", save, over, whole, {}, n + 1)
        PROVE  FlowInv'
    <2>1. n + 1 \in Nat
      BY <1>1
    <2> QED
      BY <1>2, <1>5, <2>1, GroupCommandKeeps
  <1>6. ASSUME NEW save \in SavesOf("repeat"), NEW k \in 0..MaxIterations, NEW condition \in Conditions,
               GroupCommand("repeat", save, over, whole, condition, k)
        PROVE  FlowInv'
    <2>1. k \in Nat /\ condition \in SUBSET EnvPaths
      BY <1>1 DEF EnvPaths, Conditions
    <2> QED
      BY <1>2, <1>6, <2>1, GroupCommandKeeps
  <1> QED
    BY <1>3, <1>4, <1>5, <1>6

\* Every step of a flow keeps its invariant.
LEMMA FlowKept ==
    ASSUME FlowInv, FlowNext \/ UNCHANGED flowVars
    PROVE  FlowInv'
  <1>1. ASSUME NEW selected \in SUBSET Files, NEW invalid \in SUBSET Files, NEW order \in Orders,
               Discover(selected, invalid, order)
        PROVE  FlowInv'
    <2>1. /\ ~suite.found /\ \E todo : suite' = [found |-> TRUE, todo |-> todo]
          /\ UNCHANGED <<built, frames, phase, result, previews, uploaded, escaped>>
      BY <1>1 DEF Discover
    <2> QED
      BY <2>1, DiscoverKeeps
  <1>2. ASSUME NEW selected \in SUBSET Files, NEW invalid \in SUBSET Files, NEW order \in Orders,
               NEW config \in BOOLEAN, NEW refused \in BOOLEAN,
               RunFlowFiles(selected, invalid, order, config, refused)
        PROVE  FlowInv'
    <2>1. /\ ~suite.found /\ \E todo : suite' = [found |-> TRUE, todo |-> todo]
          /\ UNCHANGED <<built, frames, phase, result, previews, uploaded, escaped>>
      BY <1>2 DEF RunFlowFiles
    <2> QED
      BY <2>1, DiscoverKeeps
  <1>3. ASSUME NEW own \in {{}, Names},
               StartFlow(own) \/ RepeatIterates(own) \/ RunFlowEnters(own) \/ RetryEnters(own)
        PROVE  FlowInv'
    <2>1. own \in SUBSET Names
      OBVIOUS
    <2> QED
      BY <1>3, <2>1, StartFlowKeeps, GroupEntersKeeps
  <1>4. ASSUME NEW b \in BOOLEAN, FlowEnds(b) PROVE FlowInv'
    BY <1>4, FlowEndsKeeps
  <1>6. CASE UNCHANGED flowVars
    BY <1>6 DEF flowVars, FlowInv, FlowType, FlowMarked, RetryKnown, Previewed
  <1>7. ASSUME NEW save \in Saves, CapabilityBlocked(save) PROVE FlowInv'
    BY <1>7, CapabilityBlockedKeeps
  <1>8. ASSUME SkipCommand \/ FlowEnd \/ RepeatEnds \/ GroupFails \/ ChildReturns \/ ChildRaises
        PROVE  FlowInv'
    BY <1>8, SkipCommandKeeps, FlowEndKeeps, RepeatEndsKeeps, GroupFailsKeeps, ChildReturnsKeeps, ChildRaisesKeeps
  <1> QED
    BY <1>1, <1>2, <1>3, <1>4, <1>6, <1>7, <1>8, CommandsKeep, GroupsKeep DEF FlowNext, CommandsNext, GroupsNext

(* The runner keeps its invariant: as long as no ERP data went where the    *)
(* marks do not follow it, it is marked where it lies; what runs below a    *)
(* retry knows it, and a preview only lets the flow end.                    *)
THEOREM FlowInvariant == FlowSpec => []FlowInv
  <1>1. FlowInit => FlowInv
    BY FlowStarts
  <1>2. FlowInv /\ [FlowNext]_flowVars => FlowInv'
    BY FlowKept
  <1> QED
    BY <1>1, <1>2, PTL DEF FlowSpec

\* A command runs only where no preview was made.
LEMMA CommandsRunAtTop ==
    ASSUME \/ SkipCommand \/ FlowEnd \/ RepeatEnds \/ GroupFails
           \/ \E own \in {{}, Names} : RepeatIterates(own) \/ RunFlowEnters(own) \/ RetryEnters(own)
           \/ \E save \in Saves : CapabilityBlocked(save)
           \/ CommandsNext \/ GroupsNext
    PROVE  Top
  <1>1. SkipCommand \/ FlowEnd \/ RepeatEnds \/ GroupFails => Top
    BY DEF SkipCommand, FlowEnd, RepeatEnds, GroupFails, Takes, Waits
  <1>2. \A own : RepeatIterates(own) \/ RunFlowEnters(own) \/ RetryEnters(own) => Top
    BY DEF RepeatIterates, RunFlowEnters, RetryEnters, Waits
  <1>3. \A save : CapabilityBlocked(save) => Top
    BY DEF CapabilityBlocked, Takes
  <1>4. \A paths, save : (CommandFails(paths) \/ CloudRefused(paths) \/ CloudCommand(paths, save)
                          \/ ErpRead(paths, save) \/ ErpWritePreview(paths, save)) => Top
    BY DEF CommandFails, CloudRefused, CloudCommand, ErpRead, ErpWritePreview, Takes
  <1>5. \A name, paths, save : LocalCommand(name, paths, save) => Top
    BY DEF LocalCommand, Takes
  <1>6. \A name, save, over, whole, condition, count :
           GroupCommand(name, save, over, whole, condition, count) => Top
    BY DEF GroupCommand, Takes
  <1> QED
    BY <1>1, <1>2, <1>3, <1>4, <1>5, <1>6 DEF CommandsNext, GroupsNext

\* After a preview every step leads to the end of the flow.
LEMMA PreviewEndsFlow ==
    ASSUME FlowInv, FlowNext, previews > 0
    PROVE  previews' = 0 \/ (previews' = previews /\ phase' # "running")
  <1>1. /\ FlowType /\ Previewed /\ ~Top
        /\ \/ phase = "idle"
           \/ phase = "returning" /\ result.status = "confirmation_required"
           \/ phase = "raising" /\ \A i \in DOMAIN frames : frames[i].call.name # "retry"
    BY Going DEF FlowInv, Previewed
  <1>2. \A selected, invalid, order : Discover(selected, invalid, order)
           => previews' = previews /\ phase' # "running"
    BY <1>1 DEF Discover, Previewed
  <1>3. \A selected, invalid, order, config, refused : RunFlowFiles(selected, invalid, order, config, refused)
           => previews' = previews /\ phase' # "running"
    BY <1>1 DEF RunFlowFiles, Previewed
  <1>4. \A own : StartFlow(own) => previews' = 0
    BY DEF StartFlow
  <1>5. \A b : FlowEnds(b) => previews' = previews /\ phase' # "running"
    BY DEF FlowEnds
  <1>6. CASE ChildReturns
    <2>1. phase = "returning" /\ result.status = "confirmation_required" /\ previews' = previews
      BY <1>1, <1>6 DEF ChildReturns
    <2>2. \A f, c, output : output.status = "confirmation_required" /\ Complete(f, c, output) => phase' = "returning"
      BY DEF Complete, Return
    <2>3. \A f : EndRepeat(f, "confirmation_required") => phase' = "returning"
      BY <2>2 DEF RepeatOutput, EndRepeat
    <2>4. CASE Running.call.name = "repeat"
      BY <1>6, <2>1, <2>3, <2>4 DEF ChildReturns, StopsRepeat
    <2>5. CASE Running.call.name # "repeat"
      <3>1. PICK output : /\ output = [result EXCEPT !.loose = Mix({@, Running.call.loose})]
                          /\ Complete(Running, Running.call, output)
        BY <1>6, <2>5 DEF ChildReturns
      <3>2. output.status = result.status
        BY <1>1, <3>1 DEF FlowType, FlowResults
      <3> QED
        BY <2>1, <2>2, <3>1, <3>2
    <2> QED
      BY <2>1, <2>4, <2>5
  <1>7. CASE ChildRaises
    <2>1. frames # <<>> /\ phase = "raising" /\ \A i \in DOMAIN frames : frames[i].call.name # "retry"
      BY <1>1, <1>7 DEF ChildRaises
    <2>2. Running.call.name # "retry"
      BY <1>1, <2>1, TopRemoved DEF FlowType
    <2> QED
      BY <1>7, <2>1, <2>2 DEF ChildRaises
  <1> QED
    BY <1>1, <1>2, <1>3, <1>4, <1>5, <1>6, <1>7, CommandsRunAtTop DEF FlowNext, CommandsNext, GroupsNext

(* What an ERP read returned reaches the cloud only through what the marks  *)
(* do not follow: step summaries, messages of attempts and conditions that  *)
(* were saved, a value saved as env, an env that is one template.  A write  *)
(* preview is the last thing its flow does.                                 *)
THEOREM FlowTheorem == FlowSpec => FlowContained
  <1>1. FlowInv => ErpStaysLocal
    BY DEF FlowInv, FlowMarked, ErpStaysLocal
  <1>2. FlowInv /\ [FlowNext]_flowVars
        => [previews > 0 => previews' = 0 \/ (previews' = previews /\ phase' # "running")]_flowVars
    BY PreviewEndsFlow
  <1> QED
    BY <1>1, <1>2, FlowInvariant, PTL DEF FlowSpec, FlowContained, PreviewIsLast

-----------------------------------------------------------------------------
(***************************************************************************)
(* Reconciling rows: every row given is in one group of the result.        *)
(***************************************************************************)
\* A function from a finite set that reaches all of T makes T finite.
LEMMA FiniteRange ==
    ASSUME NEW S, IsFiniteSet(S), NEW T, NEW g \in [S -> T], \A t \in T : \E s \in S : g[s] = t
    PROVE  IsFiniteSet(T)
  <1>1. g \in Surjection(S, T)
    BY DEF Surjection
  <1>2. QED
    BY <1>1, FS_Surjection

(* The rows of one side as the call sees them. *)
CanonicalRows(given) == {Canonical(row) : row \in Range(given)}

GivenRows(given) ==
    /\ given \in Seq(Range(given))
    /\ \A row \in Range(given) : row.id \in Nat

(* A set of rows no two of which share an identifier. *)
Identified(rows) ==
    /\ IsFiniteSet(rows)
    /\ \A r \in rows : r.id \in Nat
    /\ \A r, q \in rows : r.id = q.id => r = q

\* Accepted rows keep their identifiers, which tell them apart.
LEMMA AcceptedRows ==
    ASSUME NEW given, GivenRows(given), RowsAccepted(given)
    PROVE  /\ Identified(CanonicalRows(given))
           /\ {row.id : row \in Range(given)} = {r.id : r \in CanonicalRows(given)}
           /\ \A r \in CanonicalRows(given) :
                 Canonical(CHOOSE row \in Range(given) : row.id = r.id) = r
  <1> DEFINE rows == CanonicalRows(given)
  <1>1. \A row : Canonical(row).id = row.id
    BY DEF Canonical
  <1>2. DOMAIN given = 1..Len(given) /\ Len(given) \in Nat
    BY DEF GivenRows
  <1>3. \A a, b \in Range(given) : a.id = b.id => a = b
    BY DEF RowsAccepted, Range
  <1>4. IsFiniteSet(Range(given))
    <2>1. IsFiniteSet(1..Len(given))
      BY <1>2, FS_Interval
    <2>2. Range(given) = {given[i] : i \in 1..Len(given)}
      BY <1>2 DEF Range
    <2> QED
      BY <1>2, <2>1, <2>2, FiniteRange DEF GivenRows
  <1>5. IsFiniteSet(rows)
    <2> DEFINE g == [row \in Range(given) |-> Canonical(row)]
    <2>1. g \in [Range(given) -> rows] /\ \A r \in rows : \E row \in Range(given) : g[row] = r
      BY DEF CanonicalRows
    <2> QED
      BY <1>4, <2>1, FiniteRange
  <1>6. \A r \in rows : \E row \in Range(given) : r = Canonical(row) /\ r.id = row.id
    BY <1>1 DEF CanonicalRows
  <1>7. \A r \in rows : r.id \in Nat
    BY <1>6 DEF GivenRows
  <1>8. \A r, q \in rows : r.id = q.id => r = q
    BY <1>6, <1>3
  <1>9. \A r \in rows : Canonical(CHOOSE row \in Range(given) : row.id = r.id) = r
    <2> TAKE r \in rows
    <2>1. PICK row \in Range(given) : r = Canonical(row) /\ r.id = row.id
      BY <1>6
    <2>2. (CHOOSE a \in Range(given) : a.id = r.id) = row
      BY <2>1, <1>3
    <2> QED
      BY <2>1, <2>2
  <1>10. {row.id : row \in Range(given)} = {r.id : r \in rows}
    <2>1. \A row \in Range(given) : Canonical(row) \in rows
      BY DEF CanonicalRows
    <2> QED
      BY <1>1, <1>6, <2>1
  <1> QED
    BY <1>5, <1>7, <1>8, <1>9, <1>10 DEF Identified

(* The identifiers of the duplicates that were set aside. *)
SetAside(split) == UNION {d.ids \ {d.canonical} : d \in split.aside}

(* What is asked of a partition of rows: of the rows with one key exactly  *)
(* one is kept, and every row is kept or set aside, never both.            *)
Partitioned(rows, split) ==
    /\ split.kept \subseteq rows
    /\ \A k, j \in split.kept : DuplicateKey(k) = DuplicateKey(j) => k = j
    /\ {r.id : r \in rows} = {k.id : k \in split.kept} \cup SetAside(split)
    /\ \A k \in split.kept : k.id \notin SetAside(split)

\* _partition_duplicates keeps one row of each group.
LEMMA DuplicatesPartition ==
    ASSUME NEW rows, Identified(rows)
    PROVE  Partitioned(rows, PartitionDuplicates(rows))
  <1> DEFINE split == PartitionDuplicates(rows)
             group(row) == {other \in rows : DuplicateKey(other) = DuplicateKey(row)}
             first(row) == \A other \in group(row) : row.id <= other.id
             crowd == {r \in rows : first(r) /\ Cardinality(group(r)) > 1}
             evidence(row) == [canonical |-> row.id, ids |-> {other.id : other \in group(row)}]
  <1>1. split.kept = {row \in rows : first(row)} /\ split.aside = {evidence(row) : row \in crowd}
    BY DEF PartitionDuplicates
  <1>2. \A r \in rows : r.id \in Nat
    BY DEF Identified
  <1>3. \A k, j \in split.kept : DuplicateKey(k) = DuplicateKey(j) => k = j
    <2> SUFFICES ASSUME NEW k \in split.kept, NEW j \in split.kept,
                        DuplicateKey(k) = DuplicateKey(j)
                 PROVE  k = j
      OBVIOUS
    <2>1. k \in group(j) /\ j \in group(k)
      BY <1>1
    <2>2. k.id <= j.id /\ j.id <= k.id
      BY <1>1, <2>1
    <2> QED
      BY <1>1, <1>2, <2>2 DEF Identified
  <1>4. \A r \in rows : \E k \in split.kept : r \in group(k)
    <2> TAKE r \in rows
    <2> DEFINE numbers == {other.id : other \in group(r)}
    <2>1. numbers \in SUBSET Nat /\ r.id \in numbers
      BY <1>2
    <2>2. PICK m \in numbers : \A n \in numbers : m <= n
      BY <2>1, LeastOne
    <2>3. PICK k \in group(r) : k.id = m
      OBVIOUS
    <2>4. group(k) = group(r)
      BY <2>3
    <2>5. first(k)
      BY <2>2, <2>3, <2>4
    <2> QED
      BY <1>1, <2>3, <2>4, <2>5
  <1>5. \A k \in split.kept : \A r \in group(k) :
          r # k => k \in crowd /\ r.id \in evidence(k).ids \ {evidence(k).canonical}
    <2> SUFFICES ASSUME NEW k \in split.kept, NEW r \in group(k), r # k
                 PROVE  k \in crowd /\ r.id \in evidence(k).ids \ {evidence(k).canonical}
      OBVIOUS
    <2>1. k \in rows /\ r \in rows /\ k \in group(k) /\ first(k)
      BY <1>1
    <2>2. r.id # k.id
      BY <2>1 DEF Identified
    <2>3. IsFiniteSet(group(k)) /\ Cardinality(group(k)) \in Nat
      BY FS_Subset, FS_CardinalityType DEF Identified
    <2>4. Cardinality(group(k)) > 1
      <3>1. Cardinality(group(k)) # 0
        BY <2>1, <2>3, FS_EmptySet
      <3>2. Cardinality(group(k)) # 1
        <4> SUFFICES ASSUME Cardinality(group(k)) = 1 PROVE FALSE
          OBVIOUS
        <4>1. PICK x : group(k) = {x}
          BY <2>3, FS_Singleton
        <4> QED
          BY <4>1, <2>1
      <3> QED
        BY <2>3, <3>1, <3>2
    <2> QED
      BY <2>1, <2>2, <2>4
  <1>6. \A d \in split.aside :
          \E k \in split.kept : /\ d = evidence(k)
                                /\ k \in crowd
    BY <1>1
  <1>7. \A x \in SetAside(split) :
          \E k \in split.kept : \E r \in group(k) : r # k /\ x = r.id
    <2> TAKE x \in SetAside(split)
    <2>1. PICK d \in split.aside : x \in d.ids \ {d.canonical}
      BY DEF SetAside
    <2>2. PICK k \in split.kept : d = evidence(k)
      BY <1>6
    <2>3. PICK r \in group(k) : x = r.id
      BY <2>1, <2>2
    <2> QED
      BY <2>1, <2>2, <2>3
  <1>8. \A k \in split.kept : \A r \in group(k) : r # k => r.id \in SetAside(split)
    <2> SUFFICES ASSUME NEW k \in split.kept, NEW r \in group(k), r # k
                 PROVE  r.id \in SetAside(split)
      OBVIOUS
    <2>1. k \in crowd /\ r.id \in evidence(k).ids \ {evidence(k).canonical}
      BY <1>5
    <2> HIDE DEF split, evidence, crowd, group
    <2>2. evidence(k) \in split.aside
      BY <1>1, <2>1
    <2> QED
      BY <2>1, <2>2 DEF SetAside
  <1>9. {r.id : r \in rows} = {k.id : k \in split.kept} \cup SetAside(split)
    <2>1. ASSUME NEW r \in rows
          PROVE  r.id \in {k.id : k \in split.kept} \cup SetAside(split)
      BY <1>4, <1>8
    <2>2. ASSUME NEW x \in {k.id : k \in split.kept} \cup SetAside(split)
          PROVE  x \in {r.id : r \in rows}
      BY <1>1, <1>7
    <2> QED
      BY <2>1, <2>2
  <1>10. \A j \in split.kept : j.id \notin SetAside(split)
    <2> SUFFICES ASSUME NEW j \in split.kept, j.id \in SetAside(split) PROVE FALSE
      OBVIOUS
    <2>1. PICK k \in split.kept : \E r \in group(k) : r # k /\ j.id = r.id
      BY <1>7
    <2>2. PICK r \in group(k) : r # k /\ j.id = r.id
      BY <2>1
    <2>3. j = r
      BY <1>1, <2>2 DEF Identified
    <2>4. j = k
      BY <1>3, <2>2, <2>3
    <2> QED
      BY <2>2, <2>3, <2>4
  <1> QED
    BY <1>1, <1>3, <1>9, <1>10 DEF Partitioned

(* The rows of side s, the policy and the candidates of the call.          *)
SideRows(s) == CanonicalRows(call.rows[s])

\* Every candidate pairs two rows that take part, and its first quality is one
\* of the two classes.
LEMMA CandidatesOfRows ==
    ASSUME NEW lefts, NEW rights, NEW tolerances, NEW c \in ScoreCandidates(lefts, rights, tolerances)
    PROVE  /\ \E row \in lefts : c.left = row.id
           /\ \E row \in rights : c.right = row.id
           /\ c.quality[1] \in {0, 1}
  <1>1. PICK pair \in lefts \X rights :
            c = [left |-> pair[1].id, right |-> pair[2].id,
                 quality |-> Quality(pair[1], pair[2], tolerances)]
    BY DEF ScoreCandidates
  <1>2. Quality(pair[1], pair[2], tolerances)[1] \in {0, 1}
    BY DEF Quality
  <1>3. QED
    BY <1>1, <1>2

(* The key of the row that was given with an identifier.                   *)
KeyOf(given, id) == DuplicateKey(Canonical(CHOOSE row \in Range(given) : row.id = id))

(* The rows given are those paired, those missed and those set aside, each *)
(* in one of the groups, and no two paired rows have one key.              *)
Accounted(given, paired, missed, aside) ==
    /\ paired \cup missed \cup aside = {row.id : row \in Range(given)}
    /\ paired \cap missed = {}
    /\ paired \cap aside = {}
    /\ missed \cap aside = {}
    /\ \A id, other \in paired : KeyOf(given, id) = KeyOf(given, other) => id = other

(* The identifiers of the pairs of the result, by side.                    *)
PairedIds ==
    LET pairs == report.matched \cup report.differences
    IN  <<{p.left : p \in pairs}, {p.right : p \in pairs}>>

SidesAccounted ==
    stage = "done" =>
        \A s \in {1, 2} : Accounted(call.rows[s], PairedIds[s], {u.id : u \in report.unmatched[s]},
                                    UNION {d.ids \ {d.canonical} : d \in report.duplicates[s]})

(* From the start of the matching on, the rows that take part and the      *)
(* duplicates set aside are a partition of the rows given, and candidates  *)
(* are pairs of the former.                                                *)
RowsInv ==
    /\ call \in [rows : Inputs, policy : Policies]
    /\ stage \in {"called", "matching", "done", "refused"}
    /\ stage \in {"matching", "done"} =>
          /\ \A s \in {1, 2} : /\ RowsAccepted(call.rows[s])
                               /\ Partitioned(SideRows(s), sides[s])
          /\ \A c \in candidates : /\ \E row \in sides[1].kept : c.left = row.id
                                   /\ \E row \in sides[2].kept : c.right = row.id
                                   /\ c.quality[1] \in {0, 1}
    /\ SidesAccounted

\* The rows of each side are well formed.
LEMMA GivenSides ==
    ASSUME call \in [rows : Inputs, policy : Policies], NEW s \in {1, 2}
    PROVE  GivenRows(call.rows[s])
  BY ReconciliationAssumption DEF GivenRows

\* Preparing establishes the invariant: both sides are partitioned.
LEMMA PrepareRows ==
    ASSUME RowsInv, Prepare
    PROVE  RowsInv'
  <1> DEFINE given(s) == {Canonical(row) : row \in Range(call.rows[s])}
             split == <<PartitionDuplicates(given(1)), PartitionDuplicates(given(2))>>
  <1>1. /\ stage' = "matching" /\ call' = call /\ sides' = split
        /\ candidates' = ScoreCandidates(split[1].kept, split[2].kept, CanonicalPolicy(call.policy))
        /\ \A s \in {1, 2} : RowsAccepted(call.rows[s])
    BY DEF Prepare
  <1>2. \A s \in {1, 2} : given(s) = SideRows(s)
    BY DEF SideRows, CanonicalRows
  <1>3. \A s \in {1, 2} : split[s] = PartitionDuplicates(SideRows(s))
    BY <1>2
  <1>4. ASSUME NEW s \in {1, 2} PROVE Partitioned(SideRows(s), split[s])
    <2>1. Identified(SideRows(s))
      BY <1>1, GivenSides, AcceptedRows DEF SideRows, RowsInv
    <2>2. QED
      BY <1>3, <2>1, DuplicatesPartition
  <1> HIDE DEF split, given
  <1>5. \A s \in {1, 2} : SideRows(s)' = SideRows(s)
    BY <1>1 DEF SideRows
  <1>6. \A s \in {1, 2} : Partitioned(SideRows(s), sides[s])'
    BY <1>1, <1>4, <1>5 DEF Partitioned, SetAside
  <1>7. \A c \in candidates' : /\ \E row \in sides'[1].kept : c.left = row.id
                               /\ \E row \in sides'[2].kept : c.right = row.id
                               /\ c.quality[1] \in {0, 1}
    BY <1>1, CandidatesOfRows
  <1>8. SidesAccounted'
    BY <1>1 DEF SidesAccounted
  <1>9. QED
    BY <1>1, <1>6, <1>7, <1>8 DEF RowsInv

\* Of one side: the rows paired, those reported unmatched and the duplicates set
\* aside account for all the rows.
LEMMA SideAccounted ==
    ASSUME NEW given, GivenRows(given), RowsAccepted(given),
           NEW split, Partitioned(CanonicalRows(given), split),
           NEW paired, \A id \in paired : \E row \in split.kept : id = row.id,
           NEW contended
    PROVE  Accounted(given, paired, {u.id : u \in Unmatched(split.kept, paired, contended)},
                     SetAside(split))
  <1> DEFINE missed == {u.id : u \in Unmatched(split.kept, paired, contended)}
  <1>1. \A id : id \in missed <=> id \notin paired /\ \E row \in split.kept : id = row.id
    <2>1. ASSUME NEW id \in missed PROVE id \notin paired /\ \E row \in split.kept : id = row.id
      BY DEF Unmatched
    <2>2. ASSUME NEW row \in split.kept, row.id \notin paired PROVE row.id \in missed
      <3> DEFINE u == [id |-> row.id,
                       reason |-> IF row.id \in contended THEN "contention" ELSE "none_eligible"]
      <3>1. u \in Unmatched(split.kept, paired, contended) /\ u.id = row.id
        BY <2>2 DEF Unmatched
      <3>2. QED
        BY <3>1
    <2>3. QED
      BY <2>1, <2>2
  <1>2. paired \cup missed = {k.id : k \in split.kept}
    BY <1>1
  <1>3. paired \cap missed = {}
    BY <1>1
  <1>4. \A k \in split.kept : k.id \notin SetAside(split)
    BY DEF Partitioned
  <1>5. {row.id : row \in Range(given)} = {k.id : k \in split.kept} \cup SetAside(split)
    BY AcceptedRows DEF Partitioned
  <1>6. \A k \in split.kept : KeyOf(given, k.id) = DuplicateKey(k)
    BY AcceptedRows DEF Partitioned, KeyOf
  <1>7. ASSUME NEW id \in paired, NEW other \in paired, KeyOf(given, id) = KeyOf(given, other)
        PROVE  id = other
    <2>1. PICK k \in split.kept : id = k.id
      OBVIOUS
    <2>2. PICK j \in split.kept : other = j.id
      OBVIOUS
    <2>3. k = j
      BY <1>6, <1>7, <2>1, <2>2 DEF Partitioned
    <2>4. QED
      BY <2>1, <2>2, <2>3
  <1> HIDE DEF missed
  <1>8. paired \cap SetAside(split) = {} /\ missed \cap SetAside(split) = {}
    BY <1>2, <1>4
  <1>9. paired \cup missed \cup SetAside(split) = {row.id : row \in Range(given)}
    BY <1>2, <1>5
  <1>10. QED
    BY <1>3, <1>7, <1>8, <1>9 DEF Accounted, missed

\* The three groups of one side, as a sequence.
LEMMA ThreeGroups ==
    ASSUME NEW a, NEW b, NEW c
    PROVE  /\ UNION Range(<<a, b, c>>) = a \cup b \cup c
           /\ a \cap b = {} /\ a \cap c = {} /\ b \cap c = {} =>
                 \A i, j \in 1..3 : i # j => <<a, b, c>>[i] \cap <<a, b, c>>[j] = {}
  <1>1. Range(<<a, b, c>>) = {a, b, c}
    BY DEF Range
  <1>2. QED
    BY <1>1

\* The property, side by side and group by group.
LEMMA RowsBySide == SidesAccounted => RowsAccounted
  <1> SUFFICES ASSUME SidesAccounted, stage = "done", NEW s \in {1, 2}
               PROVE  LET groups == Named(s, PairedIds[s])
                      IN  /\ UNION Range(groups) = {row.id : row \in Range(call.rows[s])}
                          /\ \A i, j \in 1..3 : i # j => groups[i] \intersect groups[j] = {}
                          /\ \A id, other \in PairedIds[s] :
                                KeyOf(call.rows[s], id) = KeyOf(call.rows[s], other) => id = other
    BY DEF RowsAccounted, PairedIds, KeyOf
  <1> DEFINE missed == {u.id : u \in report.unmatched[s]}
             aside == UNION {d.ids \ {d.canonical} : d \in report.duplicates[s]}
  <1>1. Accounted(call.rows[s], PairedIds[s], missed, aside)
    BY DEF SidesAccounted
  <1>2. Named(s, PairedIds[s]) = <<PairedIds[s], missed, aside>>
    BY DEF Named
  <1> HIDE DEF missed, aside
  <1>3. QED
    BY <1>1, <1>2, ThreeGroups DEF Accounted

\* The result puts every row in one group, whatever the pairs chosen.
LEMMA ConcludeRows ==
    ASSUME RowsInv, Conclude
    PROVE  RowsInv'
  <1> DEFINE taken == <<{c.left : c \in Assigned}, {c.right : c \in Assigned}>>
             contended == <<{c.left : c \in candidates}, {c.right : c \in candidates}>>
             pairs == report'.matched \cup report'.differences
  <1>1. /\ stage = "matching" /\ stage' = "done" /\ call' = call
        /\ sides' = sides /\ candidates' = candidates
    BY DEF Conclude
  <1>2. /\ report'.matched = {Pair(c) : c \in {d \in Assigned : d.quality[1] = 0}}
        /\ report'.differences = {Pair(c) : c \in {d \in Assigned : d.quality[1] = 1}}
        /\ report'.duplicates = <<sides[1].aside, sides[2].aside>>
        /\ report'.unmatched = <<Unmatched(sides[1].kept, taken[1], contended[1]),
                                 Unmatched(sides[2].kept, taken[2], contended[2])>>
    BY DEF Conclude
  <1>3. \A c \in Assigned : c \in candidates
    BY DEF Assigned
  <1>4. pairs = {Pair(c) : c \in Assigned}
    <2>1. \A c \in Assigned : c.quality[1] \in {0, 1}
      BY <1>1, <1>3 DEF RowsInv
    <2> HIDE DEF taken, contended
    <2>2. QED
      BY <1>2, <2>1
  <1>5. \A c : Pair(c).left = c.left /\ Pair(c).right = c.right
    BY DEF Pair
  <1>6. PairedIds' = taken
    BY <1>4, <1>5 DEF PairedIds
  <1> HIDE DEF taken, contended, pairs
  <1>7. ASSUME NEW s \in {1, 2}
        PROVE  Accounted(call'.rows[s], PairedIds'[s], {u.id : u \in report'.unmatched[s]},
                         UNION {d.ids \ {d.canonical} : d \in report'.duplicates[s]})
    <2>1. GivenRows(call.rows[s]) /\ RowsAccepted(call.rows[s])
      BY <1>1, GivenSides DEF RowsInv
    <2>2. Partitioned(CanonicalRows(call.rows[s]), sides[s])
      BY <1>1 DEF RowsInv, SideRows
    <2>3. \A id \in taken[s] : \E row \in sides[s].kept : id = row.id
      BY <1>1, <1>3 DEF RowsInv, taken
    <2>4. report'.unmatched[s] = Unmatched(sides[s].kept, taken[s], contended[s])
      BY <1>2
    <2>5. Accounted(call.rows[s], taken[s],
                    {u.id : u \in Unmatched(sides[s].kept, taken[s], contended[s])},
                    SetAside(sides[s]))
      BY <2>1, <2>2, <2>3, SideAccounted
    <2>6. UNION {d.ids \ {d.canonical} : d \in report'.duplicates[s]} = SetAside(sides[s])
      <3>1. report'.duplicates[s] = sides[s].aside
        BY <1>2
      <3>2. QED
        BY <3>1, Zenon DEF SetAside
    <2>7. QED
      BY <1>1, <1>6, <2>4, <2>5, <2>6
  <1>8. SidesAccounted'
    BY <1>7 DEF SidesAccounted
  <1>9. QED
    BY <1>1, <1>8 DEF RowsInv, SideRows, Partitioned, SetAside

\* The partition of each side and the candidates among the rows that take part
\* hold in every state of a call, and so do the groups of its result.
THEOREM RowsInvariant == ReconciliationSpec => []RowsInv
  <1>1. ReconciliationInit => RowsInv
    BY DEF ReconciliationInit, RowsInv, SidesAccounted
  <1>2. RowsInv /\ [ReconciliationNext]_reconciliationVars => RowsInv'
    <2> SUFFICES ASSUME RowsInv, [ReconciliationNext]_reconciliationVars
                 PROVE  RowsInv'
      OBVIOUS
    <2>1. CASE Prepare
      BY <2>1, PrepareRows
    <2>2. CASE Conclude
      BY <2>2, ConcludeRows
    <2>3. CASE Refuse
      <3>1. stage' = "refused" /\ call' = call
        BY <2>3 DEF Refuse
      <3>2. QED
        BY <3>1 DEF RowsInv, SidesAccounted
    <2>4. ASSUME UNCHANGED <<stage, call, sides, candidates, report>>
          PROVE  RowsInv'
      BY <2>4 DEF RowsInv, SideRows, Partitioned, SetAside, SidesAccounted, PairedIds
    <2>5. CASE Visit
      BY <2>4, <2>5 DEF Visit
    <2>6. CASE Augment
      BY <2>4, <2>6 DEF Augment
    <2>7. CASE UNCHANGED reconciliationVars
      BY <2>4, <2>7 DEF reconciliationVars
    <2>8. QED
      BY <2>1, <2>2, <2>3, <2>5, <2>6, <2>7 DEF ReconciliationNext
  <1>3. QED
    BY <1>1, <1>2, PTL DEF ReconciliationSpec

\* Every row that was submitted is in exactly one group of the result, and rows
\* that are duplicates of one another never meet two partners (match_transactions).
THEOREM RowsTheorem == ReconciliationSpec => []RowsAccounted
  <1>1. RowsInv => RowsAccounted
    BY RowsBySide DEF RowsInv
  <1>2. QED
    BY <1>1, RowsInvariant, PTL
=============================================================================
