---------------------- MODULE ProviderConnectionProofs ----------------------
(***************************************************************************)
(* Proofs about the authorisation of a company, for any number of          *)
(* callbacks and workers and any revision of the connection.               *)
(***************************************************************************)
EXTENDS ProviderConnection, TLAPS

Labels == {"idle", "peeked", "begin", "exchange", "attach", "validate", "resolve",
           "finalize", "ack", "fail", "recover", "revoke", "complete", "save",
           "material", "disconnect", "revoke_conn", "complete_conn"}

\* What was handed to a connection never becomes a pending attempt again.
HandedOver == {"finalized", "failed", "revoked"}

\* What a worker knows at its place in the code, of its own callback ...
OwnerKnows(w) ==
    LET a == Mine(w)
    IN /\ pc[w] = "begin" => attempt[a].status = "none"
       /\ pc[w] = "exchange" => attempt[a].status = "exchange_pending"
       /\ pc[w] = "attach" => attempt[a].status = "exchange_pending" /\ grant[a] = "live"
       /\ pc[w] \in {"validate", "resolve"} => attempt[a].status = "material_attached"
       /\ pc[w] = "finalize" => attempt[a].status \in {"material_attached", "finalized"}
       /\ pc[w] = "ack" => attempt[a].status = "finalized"
       /\ pc[w] = "fail" => attempt[a].status \in
             {"exchange_pending", "material_attached", "finalized", "failed"}
       /\ pc[w] \in {"recover", "revoke", "complete"} => attempt[a].status = "failed"
       /\ pc[w] = "revoke" => job[w].material = a
       /\ pc[w] = "complete" => grant[a] # "live"

\* ... and of the connection it has read: as long as its revision is the next
\* one, nothing that matters to it has changed.
ReaderKnows(w) ==
    /\ pc[w] = "finalize" =>
          job[w].revision <= conn.revision + 1 /\ (Saveable(job[w].revision) => Resolvable)
    /\ pc[w] = "save" =>
          /\ job[w].revision <= conn.revision + 1
          /\ Saveable(job[w].revision) =>
                conn.readiness = "ready" /\ job[w].material = conn.envelopes
    /\ pc[w] \in {"disconnect", "revoke_conn", "complete_conn"} /\ job[w].material # None =>
          attempt[job[w].material].status \in HandedOver
    /\ pc[w] = "material" => job[w].material = None
    /\ pc[w] = "revoke_conn" => job[w].material # None /\ conn.envelopes # job[w].material

Knows(w) ==
    /\ pc[w] = "idle" => job[w] = NoJob
    /\ pc[w] \in CallbackSteps \cup {"peeked"} => Mine(w) \in Attempts
    /\ pc[w] \in CallbackSteps => state[Mine(w)] = "consumed"
    /\ OwnerKnows(w)
    /\ ReaderKnows(w)

\* What the row of an attempt says of the provider's grant.
Ledger(a) ==
    /\ attempt[a].status = "none" => attempt[a] = NoAttempt /\ grant[a] = "none"
    /\ state[a] # "consumed" => attempt[a].status = "none"
    /\ attempt[a].status \in {"exchange_pending", "material_attached", "failed"} =>
          attempt[a].revocation
    /\ attempt[a].held \in {a, None}
    /\ attempt[a].status = "material_attached" => grant[a] = "live"
    /\ attempt[a].status = "finalized" => attempt[a].held = None /\ attempt[a].target
    /\ attempt[a].target => attempt[a].status \in HandedOver
    /\ attempt[a].status = "revoked" => grant[a] # "live"

\* What the row of the connection says of the attempts.
ConnectionOwned ==
    /\ conn.readiness \in {"absent", "disconnected"} => conn.envelopes = None
    /\ conn.generation # None =>
          attempt[conn.generation].target
          /\ attempt[conn.generation].status \in {"finalized", "failed"}

ConnectionInv ==
    /\ ConnectionTypeOK
    /\ \A w \in Workers : Knows(w)
    /\ \A a \in Attempts : Ledger(a)
    /\ ConnectionOwned
    /\ ConnectionCoherent

JobType == [attempt : Maybe, tries : 0 .. 1, revision : Nat,
            sealed : Nat, material : Maybe, endpoint : BOOLEAN]

AttemptType ==
    [status : {"none", "exchange_pending", "material_attached", "finalized", "failed", "revoked"},
     revocation : BOOLEAN, held : Maybe, target : BOOLEAN, material : 0 .. 2, acked : BOOLEAN]

ConnType == [readiness : {"absent", "requires_validation", "ready", "disconnected"},
             revision : Nat, generation : Maybe, envelopes : Maybe, sealed : Nat,
             endpoint : BOOLEAN, revocation : BOOLEAN]

LEMMA Types ==
    ASSUME ConnectionInv
    PROVE  /\ state \in [Attempts -> {"none", "authorizing", "open", "consumed", "expired"}]
           /\ attempt \in [Attempts -> AttemptType]
           /\ conn \in ConnType
           /\ grant \in [Attempts -> {"none", "live", "revoked"}]
           /\ pc \in [Workers -> Labels]
           /\ job \in [Workers -> JobType]
  BY DEF ConnectionInv, ConnectionTypeOK, AttemptType, ConnType, Labels, JobType

LEMMA TypesMake ==
    ASSUME state' \in [Attempts -> {"none", "authorizing", "open", "consumed", "expired"}],
           attempt' \in [Attempts -> AttemptType],
           conn' \in ConnType,
           grant' \in [Attempts -> {"none", "live", "revoked"}],
           pc' \in [Workers -> Labels],
           job' \in [Workers -> JobType]
    PROVE  ConnectionTypeOK'
  BY DEF ConnectionTypeOK, AttemptType, ConnType, Labels, JobType

\* Only worker w moves.
Moved(w) ==
    /\ pc' \in [Workers -> Labels]
    /\ job' \in [Workers -> JobType]
    /\ \A v \in Workers \ {w} : pc'[v] = pc[v] /\ job'[v] = job[v]

\* What it knows of its call goes with it, until it is done.
KeepsJob(w) ==
    IF pc'[w] = "idle" THEN job'[w] = NoJob
    ELSE /\ job'[w].attempt = job[w].attempt /\ job'[w].revision = job[w].revision
         /\ job'[w].sealed = job[w].sealed /\ job'[w].material = job[w].material
         /\ job'[w].endpoint = job[w].endpoint

LEMMA GoesMoves ==
    ASSUME ConnectionInv, NEW w \in Workers, NEW l \in Labels, Goes(w, l)
    PROVE  Moved(w) /\ KeepsJob(w) /\ pc'[w] = l
  <1>1. pc \in [Workers -> Labels] /\ job \in [Workers -> JobType] /\ job[w] \in JobType
    BY Types
  <1>2. /\ pc' \in [Workers -> Labels] /\ pc'[w] = l
        /\ \A v \in Workers \ {w} : pc'[v] = pc[v]
    BY <1>1 DEF Goes
  <1>3. job' = [job EXCEPT ![w] = IF l = "idle" THEN NoJob ELSE [@ EXCEPT !.tries = 0]]
    BY DEF Goes
  <1>4. NoJob \in JobType
    BY DEF NoJob, JobType, Maybe
  <1>5. CASE l = "idle"
    <2>1. job'[w] = NoJob /\ job' \in [Workers -> JobType]
          /\ \A v \in Workers \ {w} : job'[v] = job[v]
      BY <1>1, <1>3, <1>4, <1>5
    <2> QED BY <1>2, <1>5, <2>1 DEF Moved, KeepsJob
  <1>6. CASE l # "idle"
    <2>1. job'[w] = [job[w] EXCEPT !.tries = 0]
      BY <1>1, <1>3, <1>6
    <2>2. job'[w] \in JobType
      BY <1>1, <2>1 DEF JobType
    <2>3. job' \in [Workers -> JobType] /\ \A v \in Workers \ {w} : job'[v] = job[v]
      BY <1>1, <1>3, <2>2
    <2> QED BY <1>1, <1>2, <1>6, <2>1, <2>3 DEF Moved, KeepsJob, JobType
  <1> QED BY <1>5, <1>6

LEMMA UnansweredMoves ==
    ASSUME ConnectionInv, NEW w \in Workers, NEW l \in Labels, pc[w] # "idle", Unanswered(w, l)
    PROVE  Moved(w) /\ KeepsJob(w) /\ pc'[w] \in {pc[w], l}
  <1>1. pc \in [Workers -> Labels] /\ job \in [Workers -> JobType] /\ job[w] \in JobType
    BY Types
  <1>2. CASE Goes(w, l)
    BY <1>2, GoesMoves
  <1>3. CASE job' = [job EXCEPT ![w].tries = 1] /\ UNCHANGED pc
    <2>1. job'[w] = [job[w] EXCEPT !.tries = 1]
      BY <1>1, <1>3
    <2>2. job'[w] \in JobType
      BY <1>1, <2>1 DEF JobType
    <2>3. job' \in [Workers -> JobType] /\ \A v \in Workers \ {w} : job'[v] = job[v]
      BY <1>1, <1>3, <2>2
    <2> QED BY <1>1, <1>3, <2>1, <2>3 DEF Moved, KeepsJob, JobType
  <1> QED BY <1>2, <1>3 DEF Unanswered

LEMMA OwnerKeepsKnowing ==
    ASSUME ConnectionInv, NEW v \in Workers, pc'[v] = pc[v], job'[v] = job[v],
           pc[v] \in CallbackSteps =>
              /\ attempt'[Mine(v)] = attempt[Mine(v)]
              /\ \/ grant'[Mine(v)] = grant[Mine(v)]
                 \/ grant'[Mine(v)] = "revoked" /\ attempt[Mine(v)].status \in HandedOver
    PROVE  OwnerKnows(v)'
  <1>1. OwnerKnows(v)
    BY DEF ConnectionInv, Knows
  <1> QED BY <1>1 DEF OwnerKnows, Mine, CallbackSteps, HandedOver

\* How the row of the connection may change: not at all, with its revision, or,
\* once disconnected, only towards owing nothing.
ConnMoves ==
    /\ \/ conn' = conn
       \/ conn'.revision > conn.revision
       \/ /\ conn.readiness = "disconnected" /\ conn'.readiness = "disconnected"
          /\ conn'.revision = conn.revision /\ conn'.envelopes = None
          /\ conn'.revocation => conn.revocation
    /\ \/ conn'.envelopes \in {conn.envelopes, None}
       \/ conn'.envelopes \in Attempts /\ attempt[conn'.envelopes].status \notin HandedOver

LEMMA ReaderKeepsKnowing ==
    ASSUME ConnectionInv, NEW v \in Workers, pc'[v] = pc[v], job'[v] = job[v],
           conn' \in ConnType, ConnMoves,
           \A b \in Attempts : attempt[b].status \in HandedOver => attempt'[b].status \in HandedOver
    PROVE  ReaderKnows(v)'
  <1>1. ReaderKnows(v)
    BY DEF ConnectionInv, Knows
  <1>2. /\ conn \in ConnType /\ job[v] \in JobType
        /\ conn.revision \in Nat /\ conn'.revision \in Nat /\ job[v].revision \in Nat
        /\ job[v].material \in Maybe
    BY Types DEF ConnType, JobType
  <1>3. pc[v] = "finalize" =>
          /\ job[v].revision <= conn'.revision + 1
          /\ Saveable(job[v].revision)' => Resolvable'
    <2> SUFFICES ASSUME pc[v] = "finalize"
                 PROVE  /\ job[v].revision <= conn'.revision + 1
                        /\ job[v].revision = conn'.revision + 1 => Resolvable'
      BY DEF Saveable
    <2>1. /\ job[v].revision <= conn.revision + 1
          /\ job[v].revision = conn.revision + 1 => Resolvable
      BY <1>1 DEF ReaderKnows, Saveable
    <2>2. CASE conn' = conn
      BY <2>1, <2>2 DEF Resolvable
    <2>3. CASE conn'.revision > conn.revision
      BY <1>2, <2>1, <2>3
    <2>4. CASE /\ conn.readiness = "disconnected" /\ conn'.readiness = "disconnected"
               /\ conn'.revision = conn.revision /\ conn'.envelopes = None
               /\ conn'.revocation => conn.revocation
      BY <1>2, <2>1, <2>4 DEF Resolvable
    <2> QED BY <2>2, <2>3, <2>4 DEF ConnMoves
  <1>4. pc[v] = "save" =>
          /\ job[v].revision <= conn'.revision + 1
          /\ Saveable(job[v].revision)' =>
                conn'.readiness = "ready" /\ job[v].material = conn'.envelopes
    <2> SUFFICES ASSUME pc[v] = "save"
                 PROVE  /\ job[v].revision <= conn'.revision + 1
                        /\ job[v].revision = conn'.revision + 1 =>
                              conn'.readiness = "ready" /\ job[v].material = conn'.envelopes
      BY DEF Saveable
    <2>1. /\ job[v].revision <= conn.revision + 1
          /\ job[v].revision = conn.revision + 1 =>
                conn.readiness = "ready" /\ job[v].material = conn.envelopes
      BY <1>1 DEF ReaderKnows, Saveable
    <2>2. CASE conn' = conn
      BY <2>1, <2>2
    <2>3. CASE conn'.revision > conn.revision
      BY <1>2, <2>1, <2>3
    <2>4. CASE conn.readiness = "disconnected" /\ conn'.revision = conn.revision
      BY <1>2, <2>1, <2>4
    <2> QED BY <2>2, <2>3, <2>4 DEF ConnMoves
  <1>5. pc[v] \in {"disconnect", "revoke_conn", "complete_conn"} /\ job[v].material # None =>
          attempt'[job[v].material].status \in HandedOver
    BY <1>1, <1>2 DEF ReaderKnows, Maybe
  <1>6. pc[v] = "revoke_conn" => job[v].material # None /\ conn'.envelopes # job[v].material
    BY <1>1, <1>2 DEF ReaderKnows, ConnMoves
  <1>7. pc[v] = "material" => job[v].material = None
    BY <1>1 DEF ReaderKnows
  <1> QED BY <1>3, <1>4, <1>5, <1>6, <1>7 DEF ReaderKnows, Saveable

\* The workers that do not move know what they knew.
LEMMA OthersKeepKnowing ==
    ASSUME ConnectionInv, NEW w \in Workers, Moved(w), conn' \in ConnType, ConnMoves,
           \A b \in Attempts : state[b] = "consumed" => state'[b] = "consumed",
           \A b \in Attempts : attempt[b].status \in HandedOver => attempt'[b].status \in HandedOver,
           \A v \in Workers \ {w} : pc[v] \in CallbackSteps =>
              /\ attempt'[Mine(v)] = attempt[Mine(v)]
              /\ \/ grant'[Mine(v)] = grant[Mine(v)]
                 \/ grant'[Mine(v)] = "revoked" /\ attempt[Mine(v)].status \in HandedOver
    PROVE  \A v \in Workers \ {w} : Knows(v)'
  <1> SUFFICES ASSUME NEW v \in Workers \ {w} PROVE Knows(v)'
    OBVIOUS
  <1>1. pc'[v] = pc[v] /\ job'[v] = job[v] /\ Knows(v)
    BY DEF Moved, ConnectionInv
  <1>2. OwnerKnows(v)'
    BY <1>1, OwnerKeepsKnowing
  <1>3. ReaderKnows(v)'
    BY <1>1, ReaderKeepsKnowing
  <1> QED BY <1>1, <1>2, <1>3 DEF Knows, Mine, CallbackSteps

LEMMA StillHandledOnce ==
    ASSUME ConnectionInv, NEW w \in Workers, Moved(w),
           pc'[w] \in CallbackSteps => pc[w] \in CallbackSteps /\ job'[w].attempt = job[w].attempt
    PROVE  CallbackHandledOnce'
  BY DEF ConnectionInv, ConnectionCoherent, CallbackHandledOnce, Mine, Moved

\* A callback has one owner, so what it does to its attempt nobody else sees.
LEMMA OwnedAlone ==
    ASSUME ConnectionInv, NEW w \in Workers, pc[w] \in CallbackSteps,
           NEW v \in Workers \ {w}, pc[v] \in CallbackSteps
    PROVE  Mine(v) # Mine(w) /\ Mine(v) \in Attempts
  BY DEF ConnectionInv, ConnectionCoherent, CallbackHandledOnce, Knows

\* A step of one worker, put together from what it does to each table.
LEMMA StepKeeps ==
    ASSUME ConnectionInv, NEW w \in Workers, Moved(w), conn' \in ConnType, ConnMoves,
           state' \in [Attempts -> {"none", "authorizing", "open", "consumed", "expired"}],
           attempt' \in [Attempts -> AttemptType],
           grant' \in [Attempts -> {"none", "live", "revoked"}],
           \A b \in Attempts : state[b] = "consumed" => state'[b] = "consumed",
           \A b \in Attempts : attempt[b].status \in HandedOver => attempt'[b].status \in HandedOver,
           \A v \in Workers \ {w} : pc[v] \in CallbackSteps =>
              /\ attempt'[Mine(v)] = attempt[Mine(v)]
              /\ \/ grant'[Mine(v)] = grant[Mine(v)]
                 \/ grant'[Mine(v)] = "revoked" /\ attempt[Mine(v)].status \in HandedOver,
           Knows(w)', \A a \in Attempts : Ledger(a)', ConnectionOwned',
           CallbackHandledOnce', GenerationCoherent', ConnectionUsable'
    PROVE  ConnectionInv'
  <1>1. ConnectionTypeOK'
    BY TypesMake DEF Moved
  <1>2. \A v \in Workers : Knows(v)'
    BY OthersKeepKnowing
  <1> QED BY <1>1, <1>2 DEF ConnectionInv, ConnectionCoherent

\* A worker that only reads.
LEMMA ReadingKeeps ==
    ASSUME ConnectionInv, NEW w \in Workers, Moved(w), UNCHANGED <<state, records, grant>>,
           Knows(w)',
           pc'[w] \in CallbackSteps => pc[w] \in CallbackSteps /\ job'[w].attempt = job[w].attempt
    PROVE  ConnectionInv'
  <1>1. UNCHANGED <<state, attempt, conn, grant>>
    BY DEF records
  <1>2. ConnMoves
    BY <1>1 DEF ConnMoves
  <1>3. \A a \in Attempts : Ledger(a)'
    BY <1>1 DEF ConnectionInv, Ledger
  <1>4. ConnectionOwned' /\ GenerationCoherent' /\ ConnectionUsable'
    BY <1>1 DEF ConnectionInv, ConnectionOwned, ConnectionCoherent, GenerationCoherent,
                ConnectionUsable
  <1>5. CallbackHandledOnce'
    BY StillHandledOnce
  <1> QED BY <1>1, <1>2, <1>3, <1>4, <1>5, StepKeeps, Types

\* The owner of a callback writes its own attempt, and with it the connection.
LEMMA OwnerStepKeeps ==
    ASSUME ConnectionInv, NEW w \in Workers, pc[w] \in CallbackSteps,
           NEW a \in Attempts, a = Mine(w),
           Moved(w), KeepsJob(w), pc'[w] \in CallbackSteps \cup {"idle"}, UNCHANGED state,
           attempt' \in [Attempts -> AttemptType], \A b \in Attempts \ {a} : attempt'[b] = attempt[b],
           grant' \in [Attempts -> {"none", "live", "revoked"}],
           \A b \in Attempts \ {a} : grant'[b] = grant[b],
           conn' \in ConnType, ConnMoves,
           attempt[a].status \in HandedOver => attempt'[a].status \in HandedOver,
           OwnerKnows(w)', ReaderKnows(w)', Ledger(a)',
           ConnectionOwned', GenerationCoherent', ConnectionUsable'
    PROVE  ConnectionInv'
  <1>1. CallbackHandledOnce'
    BY StillHandledOnce DEF KeepsJob, CallbackSteps
  <1>2. \A b \in Attempts : Ledger(b)'
    BY DEF ConnectionInv, Ledger
  <1>3. \A v \in Workers \ {w} : pc[v] \in CallbackSteps =>
           attempt'[Mine(v)] = attempt[Mine(v)] /\ grant'[Mine(v)] = grant[Mine(v)]
    BY OwnedAlone
  <1>4. Knows(w)
    BY DEF ConnectionInv
  <1>5. Knows(w)'
    BY <1>4 DEF Knows, KeepsJob, Mine, CallbackSteps
  <1> QED BY <1>1, <1>2, <1>3, <1>5, StepKeeps, Types

\* The deed of an owner that leaves the connection alone, on an attempt that was
\* not handed over: the connection does not depend on it.
LEMMA PendingStepKeeps ==
    ASSUME ConnectionInv, NEW w \in Workers, pc[w] \in CallbackSteps,
           NEW a \in Attempts, a = Mine(w), attempt[a].status \notin HandedOver,
           Moved(w), KeepsJob(w), pc'[w] \in CallbackSteps \cup {"idle"}, UNCHANGED <<state, conn>>,
           attempt' \in [Attempts -> AttemptType], \A b \in Attempts \ {a} : attempt'[b] = attempt[b],
           grant' \in [Attempts -> {"none", "live", "revoked"}],
           \A b \in Attempts \ {a} : grant'[b] = grant[b],
           OwnerKnows(w)', ReaderKnows(w)', Ledger(a)'
    PROVE  ConnectionInv'
  <1>1. conn \in ConnType /\ conn.generation \in Maybe /\ conn.envelopes \in Maybe
    BY Types DEF ConnType
  <1>2. conn.generation # a
    BY ConnectionAssumption DEF ConnectionInv, ConnectionOwned, HandedOver
  <1>3. conn.envelopes # None => conn.envelopes = conn.generation
    <2>1. conn.readiness \in {"absent", "requires_validation", "ready", "disconnected"}
      BY Types DEF ConnType
    <2>2. ConnectionOwned /\ GenerationCoherent
      BY DEF ConnectionInv, ConnectionCoherent
    <2> QED BY <2>1, <2>2 DEF ConnectionOwned, GenerationCoherent
  <1>4. conn.envelopes # a
    BY <1>2, <1>3, ConnectionAssumption
  <1>5. ConnectionOwned'
    BY <1>1, <1>2 DEF ConnectionInv, ConnectionOwned, Maybe
  <1>6. GenerationCoherent'
    BY <1>1, <1>2, <1>4 DEF ConnectionInv, ConnectionCoherent, GenerationCoherent, Maybe
  <1>7. ConnectionUsable'
    BY <1>1, <1>4 DEF ConnectionInv, ConnectionCoherent, ConnectionUsable, Maybe
  <1>8. ConnMoves
    BY DEF ConnMoves
  <1> QED BY <1>1, <1>5, <1>6, <1>7, <1>8, OwnerStepKeeps

\* Until the tokens are handed over.
LEMMA BeginKeeps ==
    ASSUME ConnectionInv, NEW w \in Workers, NEW a \in Attempts, a = Mine(w), Begin(w)
    PROVE  ConnectionInv'
  <1>1. /\ pc[w] = "begin" /\ pc[w] \in CallbackSteps /\ a \in Attempts
        /\ attempt[a].status = "none" /\ state[a] = "consumed"
        /\ attempt[a] = NoAttempt /\ grant[a] = "none" /\ attempt[a] \in AttemptType
    BY Types DEF Begin, ConnectionInv, Knows, OwnerKnows, CallbackSteps, Ledger
  <1>2. Moved(w) /\ KeepsJob(w) /\ pc'[w] = "exchange"
    BY GoesMoves DEF Begin, Labels
  <1>3. UNCHANGED <<state, conn, grant>>
    BY DEF Begin
  <1>4. /\ attempt' = [attempt EXCEPT ![a] = Begun(a)]
        /\ Begun(a) = [attempt[a] EXCEPT !.status = "exchange_pending", !.revocation = TRUE]
    BY DEF Begin, Begun
  <1>5. /\ Begun(a) \in AttemptType /\ Begun(a).status = "exchange_pending" /\ Begun(a).revocation
        /\ Begun(a).held = None /\ Begun(a).target = FALSE
    <2>1. attempt[a].held = None /\ attempt[a].target = FALSE
      BY <1>1 DEF NoAttempt
    <2> QED BY <1>1, <1>4, <2>1 DEF AttemptType
  <1>6. /\ attempt' \in [Attempts -> AttemptType] /\ attempt'[a] = Begun(a)
        /\ \A b \in Attempts \ {a} : attempt'[b] = attempt[b]
    BY <1>1, <1>4, <1>5, Types
  <1>7. OwnerKnows(w)' /\ ReaderKnows(w)'
    BY <1>2, <1>5, <1>6 DEF OwnerKnows, ReaderKnows, Mine, KeepsJob
  <1>8. Ledger(a)'
    BY <1>1, <1>3, <1>5, <1>6 DEF Ledger, HandedOver
  <1>9. attempt[a].status \notin HandedOver /\ pc'[w] \in CallbackSteps
    BY <1>1, <1>2 DEF HandedOver, CallbackSteps
  <1> QED BY <1>1, <1>2, <1>3, <1>6, <1>7, <1>8, <1>9, PendingStepKeeps, Types

LEMMA ExchangeKeeps ==
    ASSUME ConnectionInv, NEW w \in Workers, NEW a \in Attempts, a = Mine(w), Exchange(w)
    PROVE  ConnectionInv'
  <1>1. /\ pc[w] = "exchange" /\ pc[w] \in CallbackSteps /\ a \in Attempts
        /\ attempt[a].status = "exchange_pending" /\ Ledger(a)
    BY DEF Exchange, ConnectionInv, Knows, OwnerKnows, CallbackSteps
  <1>2. Moved(w) /\ KeepsJob(w) /\ pc'[w] \in {"attach", "idle"}
    BY GoesMoves DEF Exchange, Labels
  <1>3. UNCHANGED <<state, attempt, conn>>
    BY DEF Exchange, records
  <1>4. /\ grant' \in [Attempts -> {"none", "live", "revoked"}]
        /\ \A b \in Attempts \ {a} : grant'[b] = grant[b]
        /\ pc'[w] = "attach" => grant'[a] = "live"
    <2>1. CASE grant' = [grant EXCEPT ![a] = "live"]
      BY <1>1, <2>1, Types
    <2>2. CASE Goes(w, "idle") /\ UNCHANGED grant
      <3>1. pc'[w] = "idle"
        BY <2>2, GoesMoves DEF Labels
      <3> QED BY <2>2, <3>1, Types
    <2> QED BY <2>1, <2>2 DEF Exchange
  <1>5. OwnerKnows(w)' /\ ReaderKnows(w)'
    BY <1>1, <1>2, <1>3, <1>4 DEF OwnerKnows, ReaderKnows, Mine, KeepsJob
  <1>6. Ledger(a)'
    BY <1>1, <1>3 DEF Ledger
  <1>7. attempt[a].status \notin HandedOver /\ pc'[w] \in CallbackSteps \cup {"idle"}
    BY <1>1, <1>2 DEF HandedOver, CallbackSteps
  <1> QED BY <1>1, <1>2, <1>3, <1>4, <1>5, <1>6, <1>7, PendingStepKeeps, Types

LEMMA AttachKeeps ==
    ASSUME ConnectionInv, NEW w \in Workers, NEW a \in Attempts, a = Mine(w), Attach(w)
    PROVE  ConnectionInv'
  <1>1. /\ pc[w] = "attach" /\ pc[w] \in CallbackSteps /\ a \in Attempts
        /\ attempt[a].status = "exchange_pending" /\ grant[a] = "live" /\ Ledger(a)
        /\ attempt[a] \in AttemptType
    BY Types DEF Attach, ConnectionInv, Knows, OwnerKnows, CallbackSteps
  <1>2. Moved(w) /\ KeepsJob(w) /\ pc'[w] \in {"validate", "fail"}
    BY GoesMoves DEF Attach, Labels
  <1>3. UNCHANGED <<state, conn, grant>>
    BY DEF Attach
  <1>4. /\ Attached(a) \in AttemptType /\ Attached(a).status = "material_attached"
        /\ Attached(a).held = a /\ Attached(a).revocation = attempt[a].revocation
        /\ Attached(a).target = attempt[a].target
    <2> DEFINE b == [attempt[a] EXCEPT !.status = "material_attached", !.held = a]
    <2>1. /\ b \in AttemptType /\ b.status = "material_attached" /\ b.held = a
          /\ b.revocation = attempt[a].revocation /\ b.target = attempt[a].target
      BY <1>1 DEF AttemptType, Maybe
    <2>2. Attached(a) = [b EXCEPT !.material = 1]
      BY DEF Attached
    <2> HIDE DEF b
    <2> QED BY <2>1, <2>2 DEF AttemptType
  <1>5. /\ attempt' \in [Attempts -> AttemptType]
        /\ \A b \in Attempts \ {a} : attempt'[b] = attempt[b]
        /\ \/ attempt'[a] = Attached(a)
           \/ attempt'[a] = attempt[a] /\ pc'[w] = "fail"
    <2>1. CASE attempt' = [attempt EXCEPT ![a] = Attached(a)]
      BY <1>1, <1>4, <2>1, Types
    <2>2. CASE Goes(w, "fail") /\ UNCHANGED attempt
      <3>1. pc'[w] = "fail"
        BY <2>2, GoesMoves DEF Labels
      <3> QED BY <2>2, <3>1, Types
    <2> QED BY <2>1, <2>2 DEF Attach
  <1>6. OwnerKnows(w)' /\ ReaderKnows(w)'
    BY <1>1, <1>2, <1>4, <1>5 DEF OwnerKnows, ReaderKnows, Mine, KeepsJob
  <1>7. Ledger(a)'
    BY <1>1, <1>3, <1>4, <1>5 DEF Ledger, HandedOver
  <1>8. attempt[a].status \notin HandedOver /\ pc'[w] \in CallbackSteps
    BY <1>1, <1>2 DEF HandedOver, CallbackSteps
  <1> QED BY <1>1, <1>2, <1>3, <1>5, <1>6, <1>7, <1>8, PendingStepKeeps, Types

LEMMA RefreshMaterialKeeps ==
    ASSUME ConnectionInv, NEW w \in Workers, NEW a \in Attempts, a = Mine(w), RefreshMaterial(w)
    PROVE  ConnectionInv'
  <1>1. /\ pc[w] = "validate" /\ pc[w] \in CallbackSteps /\ a \in Attempts
        /\ attempt[a].status = "material_attached" /\ attempt[a].material = 1 /\ Ledger(a)
        /\ attempt[a] \in AttemptType
    BY Types DEF RefreshMaterial, Replaceable, ConnectionInv, Knows, OwnerKnows, CallbackSteps
  <1>2. Moved(w) /\ KeepsJob(w) /\ pc'[w] = "validate"
    BY <1>1, Types DEF RefreshMaterial, Moved, KeepsJob
  <1>3. UNCHANGED <<state, conn, grant>>
    BY DEF RefreshMaterial
  <1>4. attempt' = [attempt EXCEPT ![a].material = @ + 1]
    BY DEF RefreshMaterial
  <1>5. attempt'[a] = [attempt[a] EXCEPT !.material = 2]
    BY <1>1, <1>4, Types
  <1>6. /\ attempt'[a] \in AttemptType /\ attempt'[a].status = attempt[a].status
        /\ attempt'[a].held = attempt[a].held /\ attempt'[a].revocation = attempt[a].revocation
        /\ attempt'[a].target = attempt[a].target
    BY <1>1, <1>5 DEF AttemptType
  <1>7. /\ attempt' \in [Attempts -> AttemptType]
        /\ \A b \in Attempts \ {a} : attempt'[b] = attempt[b]
    BY <1>1, <1>4, <1>6, Types
  <1>8. OwnerKnows(w)' /\ ReaderKnows(w)'
    BY <1>1, <1>2, <1>6 DEF OwnerKnows, ReaderKnows, Mine, KeepsJob
  <1>9. Ledger(a)'
    BY <1>1, <1>3, <1>6 DEF Ledger, HandedOver
  <1>10. attempt[a].status \notin HandedOver /\ pc'[w] \in CallbackSteps
    BY <1>1, <1>2 DEF HandedOver, CallbackSteps
  <1> QED BY <1>1, <1>2, <1>3, <1>7, <1>8, <1>9, <1>10, PendingStepKeeps, Types

\* The owner reads, and goes on where its attempt allows it to.
LEMMA OwnerReadingKeeps ==
    ASSUME ConnectionInv, NEW w \in Workers, NEW a \in Attempts, a = Mine(w),
           pc[w] \in CallbackSteps, Moved(w), KeepsJob(w), UNCHANGED <<state, records, grant>>,
           pc'[w] \in {"ack", "fail", "finalize", "recover", "resolve", "idle"},
           pc'[w] = "finalize" => pc[w] = "finalize",
           pc'[w] = "ack" => attempt[a].status = "finalized",
           pc'[w] = "resolve" => attempt[a].status = "material_attached",
           pc'[w] = "fail" => attempt[a].status \in
               {"exchange_pending", "material_attached", "finalized", "failed"},
           pc'[w] = "recover" => attempt[a].status = "failed"
    PROVE  ConnectionInv'
  <1>1. Knows(w) /\ UNCHANGED <<state, attempt, conn, grant>>
    BY DEF ConnectionInv, records
  <1>2. OwnerKnows(w)'
    BY <1>1 DEF Knows, OwnerKnows, Mine, KeepsJob
  <1>3. ReaderKnows(w)'
    BY <1>1 DEF Knows, ReaderKnows, KeepsJob, Saveable, Resolvable
  <1>4. Knows(w)'
    BY <1>1, <1>2, <1>3 DEF Knows, KeepsJob, Mine, CallbackSteps
  <1> QED BY <1>4, ReadingKeeps DEF KeepsJob, CallbackSteps

LEMMA FinalizedRows ==
    ASSUME ConnectionInv, NEW a \in Attempts, NEW r \in Nat, Finalized(a, r)
    PROVE  /\ conn' \in ConnType /\ conn'.readiness = "requires_validation"
           /\ conn'.revision = r /\ conn'.generation = a /\ conn'.envelopes = a
           /\ attempt' \in [Attempts -> AttemptType]
           /\ \A b \in Attempts \ {a} : attempt'[b] = attempt[b]
           /\ attempt'[a].status = "finalized" /\ attempt'[a].held = None
           /\ attempt'[a].target = TRUE /\ attempt'[a].acked = FALSE
  <1>1. conn' = [readiness |-> "requires_validation", revision |-> r, generation |-> a,
                 envelopes |-> a, sealed |-> r, endpoint |-> TRUE, revocation |-> FALSE]
    BY DEF Finalized
  <1>2. /\ conn' \in ConnType /\ conn'.readiness = "requires_validation"
        /\ conn'.revision = r /\ conn'.generation = a /\ conn'.envelopes = a
    BY <1>1 DEF ConnType, Maybe
  <1> DEFINE b == [attempt[a] EXCEPT !.status = "finalized", !.held = None, !.target = TRUE]
             c == [b EXCEPT !.acked = FALSE, !.revocation = FALSE]
  <1>3. attempt \in [Attempts -> AttemptType] /\ attempt[a] \in AttemptType
    BY Types
  <1>4. b \in AttemptType /\ b.status = "finalized" /\ b.held = None /\ b.target = TRUE
    BY <1>3 DEF AttemptType, Maybe
  <1>5. attempt' = [attempt EXCEPT ![a] = c]
    BY <1>3 DEF Finalized
  <1> HIDE DEF b
  <1>6. /\ c \in AttemptType /\ c.status = "finalized" /\ c.held = None /\ c.target = TRUE
        /\ c.acked = FALSE
    BY <1>4 DEF AttemptType
  <1> HIDE DEF c
  <1> QED BY <1>2, <1>3, <1>5, <1>6

LEMMA FinalizeKeeps ==
    ASSUME ConnectionInv, NEW w \in Workers, NEW a \in Attempts, a = Mine(w), Finalize(w)
    PROVE  ConnectionInv'
  <1>1. /\ pc[w] = "finalize" /\ pc[w] \in CallbackSteps /\ Ledger(a) /\ state[a] = "consumed"
        /\ attempt[a].status \in {"material_attached", "finalized"}
        /\ ReaderKnows(w) /\ UNCHANGED <<state, grant>>
    BY DEF Finalize, ConnectionInv, Knows, OwnerKnows, CallbackSteps
  <1>2. CASE /\ attempt[a].status = "material_attached" /\ attempt[a].revocation
             /\ Saveable(job[w].revision)
             /\ Finalized(a, job[w].revision)
             /\ Goes(w, "ack") \/ Unanswered(w, "fail")
    <2>1. Moved(w) /\ KeepsJob(w) /\ pc'[w] \in {"ack", "finalize", "fail"}
      BY <1>1, <1>2, GoesMoves, UnansweredMoves DEF Labels
    <2>2. /\ job[w].revision \in Nat /\ conn.revision \in Nat
          /\ job[w].revision = conn.revision + 1
      BY <1>2, Types DEF JobType, ConnType, Saveable
    <2>3. /\ conn' \in ConnType /\ conn'.readiness = "requires_validation"
          /\ conn'.revision = job[w].revision /\ conn'.generation = a /\ conn'.envelopes = a
          /\ attempt' \in [Attempts -> AttemptType]
          /\ \A b \in Attempts \ {a} : attempt'[b] = attempt[b]
          /\ attempt'[a].status = "finalized" /\ attempt'[a].held = None
          /\ attempt'[a].target = TRUE /\ attempt'[a].acked = FALSE
      BY <1>2, <2>2, FinalizedRows
    <2>4. ConnMoves
      BY <1>2, <2>2, <2>3 DEF ConnMoves, HandedOver
    <2>5. OwnerKnows(w)'
      BY <2>1, <2>3 DEF OwnerKnows, Mine, KeepsJob
    <2>6. ReaderKnows(w)'
      BY <2>1, <2>2, <2>3 DEF ReaderKnows, KeepsJob, Saveable
    <2>7. Ledger(a)'
      BY <1>1, <2>3 DEF Ledger, HandedOver
    <2>8. ConnectionOwned'
      BY <2>3 DEF ConnectionOwned
    <2>9. GenerationCoherent'
      BY <2>3, ConnectionAssumption DEF GenerationCoherent
    <2>10. ConnectionUsable'
      BY <1>1, <1>2, <2>3 DEF ConnectionUsable, Ledger
    <2>11. pc'[w] \in CallbackSteps
      BY <2>1 DEF CallbackSteps
    <2>12. attempt'[a].status \in HandedOver /\ grant' \in [Attempts -> {"none", "live", "revoked"}]
           /\ \A b \in Attempts \ {a} : grant'[b] = grant[b]
      BY <1>1, <2>3, Types DEF HandedOver
    <2> QED BY <1>1, <2>1, <2>3, <2>4, <2>5, <2>6, <2>7, <2>8, <2>9, <2>10, <2>11, <2>12,
               OwnerStepKeeps
  <1>3. CASE UNCHANGED records /\ (Goes(w, "fail") \/ Unanswered(w, "fail"))
    <2>1. Moved(w) /\ KeepsJob(w) /\ pc'[w] \in {"finalize", "fail"}
      BY <1>1, <1>3, GoesMoves, UnansweredMoves DEF Labels
    <2> QED BY <1>1, <1>3, <2>1, OwnerReadingKeeps
  <1>4. CASE UNCHANGED records /\ StillCurrent(a) /\ Goes(w, "ack")
    <2>1. Moved(w) /\ KeepsJob(w) /\ pc'[w] = "ack"
      BY <1>4, GoesMoves DEF Labels
    <2>2. attempt[a].status = "finalized"
      BY <1>4 DEF StillCurrent
    <2> QED BY <1>1, <1>4, <2>1, <2>2, OwnerReadingKeeps
  <1> QED BY <1>2, <1>3, <1>4 DEF Finalize

LEMMA AcknowledgeKeeps ==
    ASSUME ConnectionInv, NEW w \in Workers, NEW a \in Attempts, a = Mine(w), Acknowledge(w)
    PROVE  ConnectionInv'
  <1>1. /\ pc[w] = "ack" /\ pc[w] \in CallbackSteps /\ Ledger(a) /\ state[a] = "consumed"
        /\ attempt[a].status = "finalized" /\ UNCHANGED <<state, grant>>
        /\ attempt[a] \in AttemptType /\ attempt \in [Attempts -> AttemptType]
        /\ conn \in ConnType
    BY Types DEF Acknowledge, ConnectionInv, Knows, OwnerKnows, CallbackSteps
  <1>2. CASE /\ StillCurrent(a) /\ ~attempt[a].acked
             /\ Acknowledged(a)
             /\ Goes(w, "idle") \/ Unanswered(w, "fail")
    <2>1. Moved(w) /\ KeepsJob(w) /\ pc'[w] \in {"ack", "idle", "fail"}
      BY <1>1, <1>2, GoesMoves, UnansweredMoves DEF Labels
    <2>2. conn.readiness = "requires_validation" /\ conn.generation \in {a, None}
      BY <1>2 DEF StillCurrent
    <2>3. conn.generation = a /\ conn.envelopes = a
      BY <2>2 DEF ConnectionInv, ConnectionCoherent, GenerationCoherent
    <2>4. conn' = [conn EXCEPT !.readiness = "ready", !.revision = @ + 1]
      BY <1>2 DEF Acknowledged
    <2>5. /\ conn' \in ConnType /\ conn'.readiness = "ready" /\ conn'.generation = a
          /\ conn'.envelopes = a /\ conn'.revision > conn.revision
      <3>1. conn.revision \in Nat
        BY <1>1 DEF ConnType
      <3>2. conn.revision + 1 \in Nat /\ conn.revision + 1 > conn.revision
        BY <3>1
      <3>3. conn' = [conn EXCEPT !.readiness = "ready", !.revision = conn.revision + 1]
        BY <1>1, <2>4
      <3> QED BY <1>1, <2>3, <3>2, <3>3 DEF ConnType
    <2>6. attempt' = [attempt EXCEPT ![a].acked = TRUE]
      BY <1>2 DEF Acknowledged
    <2>7. attempt'[a] = [attempt[a] EXCEPT !.acked = TRUE]
      BY <1>1, <2>6
    <2>8. /\ attempt'[a] \in AttemptType /\ attempt'[a].status = "finalized"
          /\ attempt'[a].held = attempt[a].held /\ attempt'[a].target = attempt[a].target
          /\ attempt'[a].acked = TRUE
      BY <1>1, <2>7 DEF AttemptType
    <2>9. /\ attempt' \in [Attempts -> AttemptType]
          /\ \A b \in Attempts \ {a} : attempt'[b] = attempt[b]
      BY <1>1, <2>6, <2>8
    <2>10. ConnMoves
      BY <2>3, <2>5 DEF ConnMoves
    <2>11. OwnerKnows(w)' /\ ReaderKnows(w)'
      BY <2>1, <2>8 DEF OwnerKnows, ReaderKnows, Mine, KeepsJob
    <2>12. Ledger(a)'
      BY <1>1, <2>8 DEF Ledger, HandedOver
    <2>13. ConnectionOwned'
      BY <1>1, <2>5, <2>8 DEF ConnectionOwned, Ledger
    <2>14. GenerationCoherent'
      <3>1. attempt'[a].held = None
        BY <1>1, <2>8 DEF Ledger
      <3> QED BY <2>5, <2>8, <2>9, <3>1, ConnectionAssumption DEF GenerationCoherent
    <2>15. ConnectionUsable'
      BY <1>1, <2>3, <2>5 DEF ConnectionInv, ConnectionCoherent, ConnectionUsable
    <2>16. pc'[w] \in CallbackSteps \cup {"idle"} /\ attempt'[a].status \in HandedOver
      BY <2>1, <2>8 DEF CallbackSteps, HandedOver
    <2>17. /\ grant' \in [Attempts -> {"none", "live", "revoked"}]
           /\ \A b \in Attempts \ {a} : grant'[b] = grant[b]
      BY <1>1, Types
    <2> QED BY <1>1, <2>1, <2>5, <2>9, <2>10, <2>11, <2>12, <2>13, <2>14, <2>15, <2>16, <2>17,
               OwnerStepKeeps
  <1>3. CASE UNCHANGED records /\ (Goes(w, "idle") \/ Goes(w, "fail") \/ Unanswered(w, "fail"))
    <2>1. Moved(w) /\ KeepsJob(w) /\ pc'[w] \in {"ack", "idle", "fail"}
      BY <1>1, <1>3, GoesMoves, UnansweredMoves DEF Labels
    <2> QED BY <1>1, <1>3, <2>1, OwnerReadingKeeps
  <1> QED BY <1>2, <1>3 DEF Acknowledge

LEMMA DisconnectedRow ==
    ASSUME ConnectionInv, NEW required \in BOOLEAN, NEW c, c = Disconnected(required)
    PROVE  /\ c \in ConnType /\ c.readiness = "disconnected" /\ c.envelopes = None
           /\ c.generation = conn.generation
           /\ \/ c.revision > conn.revision /\ conn.readiness # "disconnected"
              \/ /\ conn.readiness = "disconnected" /\ c.revision = conn.revision
                 /\ c.revocation = conn.revocation
  <1>1. conn \in ConnType /\ conn.revision \in Nat /\ conn.revocation \in BOOLEAN
    BY Types DEF ConnType
  <1>2. CASE conn.readiness = "disconnected"
    <2>1. c = [conn EXCEPT !.envelopes = None]
      BY <1>2 DEF Disconnected
    <2> QED BY <1>1, <1>2, <2>1 DEF ConnType, Maybe
  <1>3. CASE conn.readiness # "disconnected"
    <2>1. conn.revision + 1 \in Nat /\ conn.revision + 1 > conn.revision
      BY <1>1
    <2>2. (conn.revocation \/ required) \in BOOLEAN
      OBVIOUS
    <2> DEFINE owed == conn.revocation \/ required
               d == [conn EXCEPT !.readiness = "disconnected", !.revision = conn.revision + 1]
    <2>3. c = [d EXCEPT !.envelopes = None, !.revocation = owed]
      BY <1>1, <1>3 DEF Disconnected, ConnType
    <2> HIDE DEF owed
    <2>4. /\ d \in ConnType /\ d.readiness = "disconnected" /\ d.revision = conn.revision + 1
          /\ d.generation = conn.generation
      BY <1>1, <2>1 DEF ConnType
    <2>5. owed \in BOOLEAN
      BY <2>2 DEF owed
    <2> HIDE DEF d
    <2>6. /\ c \in ConnType /\ c.readiness = "disconnected" /\ c.envelopes = None
          /\ c.generation = conn.generation /\ c.revision = conn.revision + 1
      BY <2>3, <2>4, <2>5 DEF ConnType, Maybe
    <2> QED BY <1>3, <2>1, <2>6
  <1> QED BY <1>2, <1>3

LEMMA FailedRow ==
    ASSUME ConnectionInv, NEW a \in Attempts, NEW h \in Maybe,
           attempt' = [attempt EXCEPT ![a] = [@ EXCEPT !.status = "failed", !.revocation = TRUE,
                                                       !.held = h]]
    PROVE  /\ attempt' \in [Attempts -> AttemptType]
           /\ \A b \in Attempts \ {a} : attempt'[b] = attempt[b]
           /\ attempt'[a].status = "failed" /\ attempt'[a].revocation = TRUE
           /\ attempt'[a].held = h /\ attempt'[a].target = attempt[a].target
  <1>1. attempt \in [Attempts -> AttemptType] /\ attempt[a] \in AttemptType
    BY Types
  <1>2. attempt'[a] = [attempt[a] EXCEPT !.status = "failed", !.revocation = TRUE, !.held = h]
    BY <1>1
  <1>3. /\ attempt'[a] \in AttemptType
        /\ attempt'[a].status = "failed" /\ attempt'[a].revocation = TRUE
        /\ attempt'[a].held = h /\ attempt'[a].target = attempt[a].target
    BY <1>1, <1>2 DEF AttemptType
  <1> QED BY <1>1, <1>3

LEMMA FailKeeps ==
    ASSUME ConnectionInv, NEW w \in Workers, NEW a \in Attempts, a = Mine(w), Fail(w)
    PROVE  ConnectionInv'
  <1>1. /\ pc[w] = "fail" /\ pc[w] \in CallbackSteps /\ Ledger(a) /\ state[a] = "consumed"
        /\ attempt[a].status \in {"exchange_pending", "material_attached", "finalized", "failed"}
        /\ UNCHANGED <<state, grant>>
        /\ attempt[a] \in AttemptType /\ conn \in ConnType /\ ConnectionOwned
        /\ GenerationCoherent /\ ConnectionUsable
    BY Types DEF Fail, ConnectionInv, Knows, OwnerKnows, CallbackSteps, ConnectionCoherent
  <1>2. CASE /\ attempt[a].status \notin {"failed", "revoked"}
             /\ Failed(a)
             /\ Goes(w, "recover") \/ Unanswered(w, "idle")
    <2>1. Moved(w) /\ KeepsJob(w) /\ pc'[w] \in {"recover", "idle", "fail"}
      BY <1>1, <1>2, GoesMoves, UnansweredMoves DEF Labels
    <2>2. PICK h : /\ h = (IF Owns(a) /\ conn.readiness # "disconnected" THEN conn.envelopes
                           ELSE attempt[a].held)
      OBVIOUS
    <2>3. attempt' = [attempt EXCEPT ![a] = [@ EXCEPT !.status = "failed", !.revocation = TRUE,
                                                      !.held = h]]
      <3>1. CASE Owns(a) /\ conn.readiness # "disconnected"
        BY <1>2, <2>2, <3>1 DEF Failed
      <3>2. CASE ~(Owns(a) /\ conn.readiness # "disconnected")
        BY <1>2, <2>2, <3>2 DEF Failed
      <3> QED BY <3>1, <3>2
    <2>4. h \in {a, None} /\ h \in Maybe
      <3>1. attempt[a].held \in {a, None}
        BY <1>1 DEF Ledger
      <3>2. Owns(a) /\ conn.readiness # "disconnected" => conn.envelopes \in {a, None}
        BY <1>1 DEF Owns, GenerationCoherent, ConnectionOwned, ConnType
      <3> QED BY <2>2, <3>1, <3>2 DEF Maybe
    <2>5. /\ attempt' \in [Attempts -> AttemptType]
          /\ \A b \in Attempts \ {a} : attempt'[b] = attempt[b]
          /\ attempt'[a].status = "failed" /\ attempt'[a].revocation = TRUE
          /\ attempt'[a].held = h /\ attempt'[a].target = attempt[a].target
      BY <2>3, <2>4, FailedRow
    <2>6. Ledger(a)'
      BY <1>1, <2>4, <2>5 DEF Ledger, HandedOver
    <2>7. OwnerKnows(w)' /\ ReaderKnows(w)'
      BY <2>1, <2>5 DEF OwnerKnows, ReaderKnows, Mine, KeepsJob
    <2>8. /\ conn' \in ConnType /\ ConnMoves /\ ConnectionOwned'
          /\ GenerationCoherent' /\ ConnectionUsable'
      <3>1. CASE Owns(a) /\ conn.readiness # "disconnected"
        <4>1. conn' = Disconnected(TRUE)
          BY <1>2, <3>1 DEF Failed
        <4>2. /\ conn' \in ConnType /\ conn'.readiness = "disconnected" /\ conn'.envelopes = None
              /\ conn'.generation = conn.generation /\ conn'.revision > conn.revision
          BY <3>1, <4>1, DisconnectedRow
        <4> QED BY <1>1, <2>5, <3>1, <4>2, ConnectionAssumption
                DEF ConnMoves, ConnectionOwned, GenerationCoherent, ConnectionUsable, Owns
      <3>2. CASE ~(Owns(a) /\ conn.readiness # "disconnected")
        <4>1. conn' = conn /\ h = attempt[a].held
          BY <1>2, <2>2, <3>2 DEF Failed
        <4>2. conn.generation = a => conn.readiness = "disconnected"
          BY <1>1, <3>2, ConnectionAssumption DEF Owns, ConnectionOwned
        <4>3. conn.generation \in Maybe
          BY <1>1 DEF ConnType
        <4>4. ConnectionOwned'
          BY <1>1, <2>5, <4>1, <4>3 DEF ConnectionOwned, Maybe
        <4>5. GenerationCoherent'
          BY <1>1, <2>5, <4>1, <4>2, <4>3 DEF GenerationCoherent, Maybe
        <4> QED BY <1>1, <4>1, <4>4, <4>5 DEF ConnMoves, ConnectionUsable
      <3> QED BY <3>1, <3>2
    <2>9. pc'[w] \in CallbackSteps \cup {"idle"} /\ attempt'[a].status \in HandedOver
      BY <2>1, <2>5 DEF CallbackSteps, HandedOver
    <2>10. /\ grant' \in [Attempts -> {"none", "live", "revoked"}]
           /\ \A b \in Attempts \ {a} : grant'[b] = grant[b]
      BY <1>1, Types
    <2> QED BY <1>1, <2>1, <2>5, <2>6, <2>7, <2>8, <2>9, <2>10, OwnerStepKeeps
  <1>3. CASE UNCHANGED records /\ attempt[a].status = "failed" /\ Goes(w, "recover")
    <2>1. Moved(w) /\ KeepsJob(w) /\ pc'[w] = "recover"
      BY <1>3, GoesMoves DEF Labels
    <2> QED BY <1>1, <1>3, <2>1, OwnerReadingKeeps
  <1>4. CASE UNCHANGED records /\ Unanswered(w, "idle")
    <2>1. Moved(w) /\ KeepsJob(w) /\ pc'[w] \in {"fail", "idle"}
      BY <1>1, <1>4, UnansweredMoves DEF Labels
    <2> QED BY <1>1, <1>4, <2>1, OwnerReadingKeeps
  <1> QED BY <1>2, <1>3, <1>4 DEF Fail

LEMMA CompleteAttemptKeeps ==
    ASSUME ConnectionInv, NEW w \in Workers, NEW a \in Attempts, a = Mine(w), CompleteAttempt(w)
    PROVE  ConnectionInv'
  <1>1. /\ pc[w] = "complete" /\ pc[w] \in CallbackSteps /\ Ledger(a) /\ state[a] = "consumed"
        /\ attempt[a].status = "failed" /\ grant[a] # "live" /\ UNCHANGED <<state, grant>>
        /\ attempt[a] \in AttemptType /\ conn \in ConnType /\ ConnectionOwned
        /\ attempt \in [Attempts -> AttemptType]
        /\ GenerationCoherent /\ ConnectionUsable /\ Completed(a)
    BY Types DEF CompleteAttempt, ConnectionInv, Knows, OwnerKnows, CallbackSteps, ConnectionCoherent
  <1>2. Moved(w) /\ KeepsJob(w) /\ pc'[w] = "idle"
    BY GoesMoves DEF Labels, CompleteAttempt
  <1>3. attempt'[a] = [attempt[a] EXCEPT !.status = "revoked", !.held = None, !.revocation = FALSE]
    BY <1>1 DEF Completed
  <1>4. /\ attempt'[a] \in AttemptType /\ attempt'[a].status = "revoked"
        /\ attempt'[a].held = None /\ attempt'[a].target = attempt[a].target
    BY <1>1, <1>3 DEF AttemptType, Maybe
  <1>5. /\ attempt' \in [Attempts -> AttemptType]
        /\ \A b \in Attempts \ {a} : attempt'[b] = attempt[b]
    BY <1>1, <1>4 DEF Completed
  <1>6. Ledger(a)'
    BY <1>1, <1>4 DEF Ledger, HandedOver
  <1>7. OwnerKnows(w)' /\ ReaderKnows(w)'
    BY <1>2 DEF OwnerKnows, ReaderKnows
  <1>8. /\ conn' \in ConnType /\ ConnMoves /\ ConnectionOwned'
        /\ GenerationCoherent' /\ ConnectionUsable'
    <2>1. CASE Owns(a)
      <3>1. /\ conn' = [conn EXCEPT !.revocation = FALSE, !.generation = None]
            /\ conn.readiness = "disconnected" /\ conn.envelopes = None
        BY <1>1, <2>1 DEF Completed, Settleable
      <3>2. /\ conn' \in ConnType /\ conn'.readiness = "disconnected" /\ conn'.envelopes = None
            /\ conn'.generation = None /\ conn'.revision = conn.revision /\ conn'.revocation = FALSE
        BY <1>1, <3>1 DEF ConnType, Maybe
      <3> QED BY <3>1, <3>2, ConnectionAssumption
              DEF ConnMoves, ConnectionOwned, GenerationCoherent, ConnectionUsable
    <2>2. CASE ~Owns(a)
      <3>1. conn' = conn
        BY <1>1, <2>2 DEF Completed
      <3>2. conn.generation # a
        BY <1>1, <2>2, ConnectionAssumption DEF Owns, ConnectionOwned
      <3>3. conn.generation \in Maybe
        BY <1>1 DEF ConnType
      <3>4. ConnectionOwned'
        BY <1>1, <1>5, <3>1, <3>2, <3>3 DEF ConnectionOwned, Maybe
      <3>5. GenerationCoherent'
        BY <1>1, <1>4, <1>5, <3>1, <3>2, <3>3, ConnectionAssumption DEF GenerationCoherent, Maybe
      <3> QED BY <1>1, <3>1, <3>4, <3>5 DEF ConnMoves, ConnectionUsable
    <2> QED BY <2>1, <2>2
  <1>9. attempt'[a].status \in HandedOver
    BY <1>4 DEF HandedOver
  <1>10. /\ grant' \in [Attempts -> {"none", "live", "revoked"}]
         /\ \A b \in Attempts \ {a} : grant'[b] = grant[b]
    BY <1>1, Types
  <1> QED BY <1>1, <1>2, <1>5, <1>6, <1>7, <1>8, <1>9, <1>10, OwnerStepKeeps

LEMMA RevokeKeeps ==
    ASSUME ConnectionInv, NEW w \in Workers, Revoke(w)
    PROVE  ConnectionInv'
  <1> DEFINE m == job[w].material
  <1>1. /\ pc[w] \in {"revoke", "revoke_conn"} /\ UNCHANGED <<state, attempt, conn>>
        /\ Knows(w) /\ m \in Maybe /\ grant \in [Attempts -> {"none", "live", "revoked"}]
    BY Types DEF Revoke, records, ConnectionInv, JobType
  <1>2. CASE grant' = [grant EXCEPT ![m] = "revoked"]
    <2>1. /\ Moved(w) /\ KeepsJob(w)
          /\ \/ pc'[w] = "idle"
             \/ pc[w] = "revoke" /\ pc'[w] = "complete"
             \/ pc[w] = "revoke_conn" /\ pc'[w] = "complete_conn"
      BY <1>1, GoesMoves DEF Revoke, Labels
    <2>2. m \in Attempts /\ attempt[m].status \in HandedOver /\ conn.envelopes # m
      <3>1. CASE pc[w] = "revoke"
        <4>1. m = Mine(w) /\ m \in Attempts /\ attempt[m].status = "failed"
          BY <1>1, <3>1 DEF Knows, OwnerKnows, CallbackSteps
        <4>2. conn.envelopes = m => attempt[m].status = "finalized"
          <5>1. conn.readiness \in {"absent", "requires_validation", "ready", "disconnected"}
            BY Types DEF ConnType
          <5> QED BY <4>1, <5>1, ConnectionAssumption
                  DEF ConnectionInv, ConnectionOwned, ConnectionCoherent, GenerationCoherent
        <4> QED BY <4>1, <4>2 DEF HandedOver
      <3>2. CASE pc[w] = "revoke_conn"
        BY <1>1, <3>2 DEF Knows, ReaderKnows, Maybe
      <3> QED BY <1>1, <3>1, <3>2
    <2>3. /\ grant' \in [Attempts -> {"none", "live", "revoked"}] /\ grant'[m] = "revoked"
          /\ \A b \in Attempts \ {m} : grant'[b] = grant[b]
      BY <1>1, <1>2, <2>2
    <2>4. Knows(w)'
      <3>1. OwnerKnows(w)'
        BY <1>1, <2>1, <2>2, <2>3 DEF Knows, OwnerKnows, Mine, KeepsJob, CallbackSteps
      <3>2. ReaderKnows(w)'
        BY <1>1, <2>1 DEF Knows, ReaderKnows, KeepsJob
      <3> QED BY <1>1, <2>1, <3>1, <3>2 DEF Knows, Mine, KeepsJob, CallbackSteps
    <2>5. CallbackHandledOnce'
      BY <2>1, StillHandledOnce DEF KeepsJob, CallbackSteps
    <2>6. \A b \in Attempts : Ledger(b)'
      <3> SUFFICES ASSUME NEW b \in Attempts PROVE Ledger(b)'
        OBVIOUS
      <3>1. Ledger(b)
        BY DEF ConnectionInv
      <3> QED BY <1>1, <2>2, <2>3, <3>1 DEF Ledger, HandedOver
    <2>7. ConnectionOwned' /\ GenerationCoherent'
      BY <1>1 DEF ConnectionInv, ConnectionCoherent, ConnectionOwned, GenerationCoherent
    <2>8. ConnectionUsable'
      <3>1. conn.envelopes \in Maybe
        BY Types DEF ConnType
      <3> QED BY <1>1, <2>2, <2>3, <3>1 DEF ConnectionInv, ConnectionCoherent, ConnectionUsable, Maybe
    <2>9. ConnMoves
      BY <1>1 DEF ConnMoves
    <2>10. \A v \in Workers \ {w} : pc[v] \in CallbackSteps =>
              /\ attempt'[Mine(v)] = attempt[Mine(v)]
              /\ \/ grant'[Mine(v)] = grant[Mine(v)]
                 \/ grant'[Mine(v)] = "revoked" /\ attempt[Mine(v)].status \in HandedOver
      BY <1>1, <2>2, <2>3 DEF ConnectionInv, Knows
    <2> HIDE DEF m
    <2> QED BY <1>1, <2>1, <2>3, <2>4, <2>5, <2>6, <2>7, <2>8, <2>9, <2>10, StepKeeps, Types
  <1>3. CASE Goes(w, "idle") /\ UNCHANGED grant
    <2>1. Moved(w) /\ KeepsJob(w) /\ pc'[w] = "idle"
      BY <1>3, GoesMoves DEF Labels
    <2>2. Knows(w)'
      BY <2>1 DEF Knows, OwnerKnows, ReaderKnows, KeepsJob, CallbackSteps
    <2> QED BY <1>1, <1>3, <2>1, <2>2, ReadingKeeps DEF records, CallbackSteps
  <1> QED BY <1>2, <1>3 DEF Revoke

\* Steps of a worker on the connection, outside any callback.
LEMMA ConnectionStepKeeps ==
    ASSUME ConnectionInv, NEW w \in Workers, Moved(w), pc'[w] \notin CallbackSteps,
           UNCHANGED <<state, attempt, grant>>, conn' \in ConnType, ConnMoves, Knows(w)',
           conn'.generation = conn.generation, conn'.envelopes \in {conn.envelopes, None},
           \/ conn'.readiness = conn.readiness /\ conn'.envelopes = conn.envelopes
           \/ conn'.readiness = "disconnected" /\ conn'.envelopes = None
    PROVE  ConnectionInv'
  <1>1. CallbackHandledOnce'
    BY StillHandledOnce
  <1>2. \A b \in Attempts : Ledger(b)'
    BY DEF ConnectionInv, Ledger
  <1>3. ConnectionOwned'
    BY DEF ConnectionInv, ConnectionOwned
  <1>4. GenerationCoherent'
    BY ConnectionAssumption DEF ConnectionInv, ConnectionCoherent, GenerationCoherent
  <1>5. ConnectionUsable'
    BY DEF ConnectionInv, ConnectionCoherent, ConnectionUsable
  <1> QED BY <1>1, <1>2, <1>3, <1>4, <1>5, StepKeeps, Types

LEMMA SaveRefreshedKeeps ==
    ASSUME ConnectionInv, NEW w \in Workers, SaveRefreshed(w)
    PROVE  ConnectionInv'
  <1>1. /\ pc[w] = "save" /\ UNCHANGED <<state, attempt, grant>> /\ Knows(w)
        /\ conn \in ConnType /\ job[w].revision \in Nat /\ conn.revision \in Nat
    BY Types DEF SaveRefreshed, ConnectionInv, ConnType, JobType
  <1>2. Moved(w) /\ KeepsJob(w) /\ pc'[w] = "idle"
    BY GoesMoves DEF SaveRefreshed, Labels
  <1>3. Knows(w)'
    BY <1>2 DEF Knows, OwnerKnows, ReaderKnows, KeepsJob, CallbackSteps
  <1>4. pc'[w] \notin CallbackSteps
    BY <1>2 DEF CallbackSteps
  <1>5. CASE /\ Saveable(job[w].revision)
             /\ conn' = [conn EXCEPT !.readiness = "ready", !.revision = job[w].revision,
                                     !.envelopes = job[w].material, !.sealed = job[w].revision,
                                     !.endpoint = FALSE, !.revocation = FALSE]
    <2>1. conn.readiness = "ready" /\ job[w].material = conn.envelopes
      BY <1>1, <1>5 DEF Knows, ReaderKnows
    <2> DEFINE d == [conn EXCEPT !.readiness = "ready", !.revision = job[w].revision,
                                 !.envelopes = job[w].material]
    <2>2. /\ d \in ConnType /\ d.readiness = "ready" /\ d.revision = job[w].revision
          /\ d.envelopes = conn.envelopes /\ d.generation = conn.generation
      BY <1>1, <2>1 DEF ConnType
    <2>3. conn' = [d EXCEPT !.sealed = job[w].revision, !.endpoint = FALSE, !.revocation = FALSE]
      BY <1>5
    <2> HIDE DEF d
    <2>4. /\ conn' \in ConnType /\ conn'.readiness = "ready" /\ conn'.revision = job[w].revision
          /\ conn'.envelopes = conn.envelopes /\ conn'.generation = conn.generation
      BY <1>1, <2>2, <2>3 DEF ConnType
    <2>5. ConnMoves
      BY <1>1, <1>5, <2>4 DEF ConnMoves, Saveable
    <2> QED BY <1>1, <1>2, <1>3, <1>4, <2>1, <2>4, <2>5, ConnectionStepKeeps
  <1>6. CASE UNCHANGED conn
    <2>1. ConnMoves
      BY <1>6 DEF ConnMoves
    <2> QED BY <1>1, <1>2, <1>3, <1>4, <1>6, <2>1, ConnectionStepKeeps
  <1> QED BY <1>5, <1>6 DEF SaveRefreshed

LEMMA DisconnectKeeps ==
    ASSUME ConnectionInv, NEW w \in Workers, Disconnect(w)
    PROVE  ConnectionInv'
  <1>1. pc[w] = "disconnect" /\ UNCHANGED <<state, attempt, grant>> /\ Knows(w)
    BY DEF Disconnect, ConnectionInv
  <1>2. /\ Moved(w) /\ KeepsJob(w)
        /\ \/ pc'[w] = "idle"
           \/ pc'[w] = "revoke_conn" /\ job[w].material # None
    BY GoesMoves DEF Disconnect, Labels
  <1>3. PICK required \in BOOLEAN : conn' = Disconnected(required)
    BY DEF Disconnect
  <1>4. /\ conn' \in ConnType /\ conn'.readiness = "disconnected" /\ conn'.envelopes = None
        /\ conn'.generation = conn.generation
        /\ \/ conn'.revision > conn.revision /\ conn.readiness # "disconnected"
           \/ /\ conn.readiness = "disconnected" /\ conn'.revision = conn.revision
              /\ conn'.revocation = conn.revocation
    BY <1>3, DisconnectedRow
  <1>5. ConnMoves
    BY <1>4 DEF ConnMoves
  <1>6. Knows(w)'
    <2>1. OwnerKnows(w)'
      BY <1>2 DEF OwnerKnows
    <2>2. ReaderKnows(w)'
      BY <1>1, <1>2, <1>4 DEF Knows, ReaderKnows, KeepsJob
    <2> QED BY <1>2, <2>1, <2>2 DEF Knows, KeepsJob, CallbackSteps
  <1>7. pc'[w] \notin CallbackSteps
    BY <1>2 DEF CallbackSteps
  <1> QED BY <1>1, <1>2, <1>4, <1>5, <1>6, <1>7, ConnectionStepKeeps

LEMMA CompleteRevocationKeeps ==
    ASSUME ConnectionInv, NEW w \in Workers, CompleteRevocation(w)
    PROVE  ConnectionInv'
  <1>1. UNCHANGED <<state, attempt, grant>> /\ conn \in ConnType
    BY Types DEF CompleteRevocation
  <1>2. Moved(w) /\ KeepsJob(w) /\ pc'[w] = "idle"
    BY GoesMoves DEF CompleteRevocation, Labels
  <1>3. Knows(w)'
    BY <1>2 DEF Knows, OwnerKnows, ReaderKnows, KeepsJob, CallbackSteps
  <1>4. /\ conn' \in ConnType /\ conn'.generation = conn.generation
        /\ conn'.readiness = conn.readiness /\ conn'.envelopes = conn.envelopes
        /\ ConnMoves
    <2>1. CASE Settleable
      <3>1. conn' = [conn EXCEPT !.revocation = FALSE]
        BY <2>1 DEF CompleteRevocation
      <3>2. /\ conn' \in ConnType /\ conn'.generation = conn.generation
            /\ conn'.readiness = conn.readiness /\ conn'.envelopes = conn.envelopes
            /\ conn'.revision = conn.revision /\ conn'.revocation = FALSE
        BY <1>1, <3>1 DEF ConnType
      <3> QED BY <2>1, <3>2 DEF ConnMoves, Settleable
    <2>2. CASE ~Settleable
      BY <1>1, <2>2 DEF CompleteRevocation, ConnMoves
    <2> QED BY <2>1, <2>2
  <1>5. pc'[w] \notin CallbackSteps
    BY <1>2 DEF CallbackSteps
  <1> QED BY <1>1, <1>2, <1>3, <1>4, <1>5, ConnectionStepKeeps

\* A state moves towards being consumed; the attempts do not notice.
LEMMA StateStepKeeps ==
    ASSUME ConnectionInv, UNCHANGED <<records, grant, pc, job>>,
           state' \in [Attempts -> {"none", "authorizing", "open", "consumed", "expired"}],
           \A b \in Attempts : state[b] = "consumed" => state'[b] = "consumed"
    PROVE  ConnectionInv'
  <1>1. UNCHANGED <<attempt, conn, grant, pc, job>>
    BY DEF records
  <1>2. ConnectionTypeOK'
    BY <1>1, TypesMake, Types
  <1>3. \A w \in Workers : Knows(w)'
    BY <1>1 DEF ConnectionInv, Knows, OwnerKnows, ReaderKnows, Mine, Saveable, Resolvable, CallbackSteps
  <1>4. \A a \in Attempts : Ledger(a)'
    BY <1>1 DEF ConnectionInv, Ledger
  <1>5. ConnectionOwned' /\ ConnectionCoherent'
    BY <1>1 DEF ConnectionInv, ConnectionOwned, ConnectionCoherent, CallbackHandledOnce, Mine,
                GenerationCoherent, ConnectionUsable
  <1> QED BY <1>2, <1>3, <1>4, <1>5 DEF ConnectionInv

\* Whoever leaves the code knows nothing any more.
LEMMA LeavingKeeps ==
    ASSUME ConnectionInv, NEW w \in Workers, Goes(w, "idle"), UNCHANGED <<state, records, grant>>
    PROVE  ConnectionInv'
  <1>1. Moved(w) /\ KeepsJob(w) /\ pc'[w] = "idle"
    BY GoesMoves DEF Labels
  <1>2. Knows(w)'
    BY <1>1 DEF Knows, OwnerKnows, ReaderKnows, KeepsJob, CallbackSteps
  <1> QED BY <1>1, <1>2, ReadingKeeps DEF CallbackSteps

LEMMA PeekKeeps ==
    ASSUME ConnectionInv, NEW w \in Workers, NEW a \in Attempts, Peek(w, a)
    PROVE  ConnectionInv'
  <1>1. /\ pc' = [pc EXCEPT ![w] = "peeked"] /\ job' = [job EXCEPT ![w].attempt = a]
        /\ UNCHANGED <<state, records, grant>>
    BY DEF Peek
  <1>2. job'[w] = [job[w] EXCEPT !.attempt = a]
    BY <1>1, Types
  <1>3. job'[w] \in JobType /\ job'[w].attempt = a
    BY <1>2, Types DEF JobType, Maybe
  <1>4. Moved(w) /\ pc'[w] = "peeked"
    BY <1>1, <1>3, Types DEF Moved, Labels
  <1>5. Knows(w)'
    BY <1>3, <1>4 DEF Knows, OwnerKnows, ReaderKnows, Mine, CallbackSteps
  <1> QED BY <1>1, <1>4, <1>5, ReadingKeeps DEF CallbackSteps

\* The state of a callback is used up: whoever does so is alone with it.
LEMMA ConsumeKeeps ==
    ASSUME ConnectionInv, NEW w \in Workers, NEW a \in Attempts, a = Mine(w), pc[w] = "peeked",
           Consumable(a), state' = [state EXCEPT ![a] = "consumed"],
           NEW l \in {"begin", "idle"}, Goes(w, l), UNCHANGED <<records, grant>>
    PROVE  ConnectionInv'
  <1>1. Moved(w) /\ KeepsJob(w) /\ pc'[w] = l
    BY GoesMoves DEF Labels
  <1>2. state[a] = "open" /\ attempt[a].status = "none" /\ UNCHANGED <<attempt, conn, grant>>
    BY DEF Consumable, ConnectionInv, Ledger, records
  <1>3. /\ state' \in [Attempts -> {"none", "authorizing", "open", "consumed", "expired"}]
        /\ state'[a] = "consumed" /\ \A b \in Attempts \ {a} : state'[b] = state[b]
    BY Types
  <1>4. Knows(w)'
    BY <1>1, <1>2, <1>3 DEF Knows, OwnerKnows, ReaderKnows, KeepsJob, Mine, CallbackSteps
  <1>5. \A v \in Workers \ {w} : pc'[v] \in CallbackSteps => Mine(v)' # a
    BY <1>1, <1>2 DEF Moved, Mine, ConnectionInv, Knows
  <1>6. CallbackHandledOnce'
    BY <1>1, <1>5 DEF CallbackHandledOnce, Mine, KeepsJob, Moved, ConnectionInv,
                      ConnectionCoherent, CallbackSteps
  <1>7. \A b \in Attempts : Ledger(b)'
    BY <1>2, <1>3 DEF ConnectionInv, Ledger
  <1>8. ConnectionOwned' /\ GenerationCoherent' /\ ConnectionUsable' /\ ConnMoves
    BY <1>2 DEF ConnectionInv, ConnectionOwned, ConnectionCoherent, GenerationCoherent,
                ConnectionUsable, ConnMoves
  <1> QED BY <1>1, <1>2, <1>3, <1>4, <1>6, <1>7, <1>8, StepKeeps, Types

LEMMA ResolveKeeps ==
    ASSUME ConnectionInv, NEW w \in Workers, NEW a \in Attempts, a = Mine(w), Resolve(w)
    PROVE  ConnectionInv'
  <1>1. /\ pc[w] = "resolve" /\ pc[w] \in CallbackSteps /\ UNCHANGED <<state, records, grant>>
        /\ attempt[a].status = "material_attached" /\ Knows(w)
    BY DEF Resolve, ConnectionInv, Knows, OwnerKnows, CallbackSteps
  <1>2. CASE Goes(w, "fail")
    <2>1. Moved(w) /\ KeepsJob(w) /\ pc'[w] = "fail"
      BY <1>2, GoesMoves DEF Labels
    <2> QED BY <1>1, <2>1, OwnerReadingKeeps
  <1>3. CASE /\ Resolvable /\ pc' = [pc EXCEPT ![w] = "finalize"]
             /\ job' = [job EXCEPT ![w].revision = conn.revision + 1]
    <2>1. job[w] \in JobType /\ conn.revision \in Nat /\ conn.revision + 1 \in Nat
      BY Types DEF ConnType
    <2>2. job'[w] = [job[w] EXCEPT !.revision = conn.revision + 1]
      BY <1>3, Types
    <2>3. /\ job'[w] \in JobType /\ job'[w].attempt = a /\ job'[w].revision = conn.revision + 1
      BY <2>1, <2>2 DEF JobType, Mine
    <2>4. Moved(w) /\ pc'[w] = "finalize"
      BY <1>3, <2>3, Types DEF Moved, Labels
    <2>5. UNCHANGED <<state, attempt, conn, grant>>
      BY <1>1 DEF records
    <2>6. OwnerKnows(w)'
      BY <1>1, <2>3, <2>4, <2>5 DEF OwnerKnows, Mine
    <2>7. ReaderKnows(w)'
      BY <1>3, <2>1, <2>3, <2>4, <2>5 DEF ReaderKnows, Saveable, Resolvable
    <2>8. Knows(w)'
      BY <1>1, <2>3, <2>4, <2>5, <2>6, <2>7 DEF Knows, Mine, CallbackSteps
    <2> QED BY <1>1, <2>3, <2>4, <2>8, ReadingKeeps DEF Mine
  <1> QED BY <1>2, <1>3 DEF Resolve

LEMMA RecoverKeeps ==
    ASSUME ConnectionInv, NEW w \in Workers, NEW a \in Attempts, a = Mine(w), Recover(w)
    PROVE  ConnectionInv'
  <1>1. /\ pc[w] = "recover" /\ pc[w] \in CallbackSteps /\ UNCHANGED <<state, records, grant>>
        /\ attempt[a].status = "failed" /\ Knows(w) /\ Ledger(a)
    BY DEF Recover, ConnectionInv, Knows, OwnerKnows, CallbackSteps
  <1>2. CASE /\ Recoverable(a) /\ pc' = [pc EXCEPT ![w] = "revoke"]
             /\ job' = [job EXCEPT ![w].material = attempt[a].held]
    <2>1. attempt[a].held = a
      BY <1>1, <1>2 DEF Recoverable, Ledger
    <2>2. job'[w] = [job[w] EXCEPT !.material = a] /\ job[w] \in JobType
      BY <1>2, <2>1, Types
    <2>3. job'[w] \in JobType /\ job'[w].attempt = a /\ job'[w].material = a
      BY <2>2 DEF JobType, Mine, Maybe
    <2>4. Moved(w) /\ pc'[w] = "revoke"
      BY <1>2, <2>3, Types DEF Moved, Labels
    <2>5. UNCHANGED <<state, attempt, conn, grant>>
      BY <1>1 DEF records
    <2>6. OwnerKnows(w)' /\ ReaderKnows(w)'
      BY <1>1, <2>3, <2>4, <2>5 DEF OwnerKnows, ReaderKnows, Mine
    <2>7. Knows(w)'
      BY <1>1, <2>3, <2>4, <2>5, <2>6 DEF Knows, Mine, CallbackSteps
    <2> QED BY <1>1, <2>3, <2>4, <2>7, ReadingKeeps DEF Mine
  <1> QED BY <1>1, <1>2, LeavingKeeps DEF Recover

LEMMA LoadExpiredKeeps ==
    ASSUME ConnectionInv, NEW w \in Workers, LoadExpired(w)
    PROVE  ConnectionInv'
  <1>1. /\ pc' = [pc EXCEPT ![w] = "save"] /\ conn.readiness = "ready"
        /\ job' = [job EXCEPT ![w].revision = conn.revision + 1, ![w].material = conn.envelopes]
        /\ UNCHANGED <<state, records, grant>> /\ UNCHANGED conn
    BY DEF LoadExpired, records
  <1>2. job[w] \in JobType /\ conn.revision \in Nat /\ conn.revision + 1 \in Nat /\ conn.envelopes \in Maybe
    BY Types DEF ConnType
  <1>3. job'[w] = [job[w] EXCEPT !.revision = conn.revision + 1, !.material = conn.envelopes]
    BY <1>1, Types
  <1>4. /\ job'[w] \in JobType /\ job'[w].revision = conn.revision + 1
        /\ job'[w].material = conn.envelopes
    BY <1>2, <1>3 DEF JobType
  <1>5. Moved(w) /\ pc'[w] = "save"
    BY <1>1, <1>4, Types DEF Moved, Labels
  <1>6. Knows(w)'
    BY <1>1, <1>2, <1>4, <1>5 DEF Knows, OwnerKnows, ReaderKnows, CallbackSteps, Saveable
  <1> QED BY <1>1, <1>5, <1>6, ReadingKeeps DEF CallbackSteps

LEMMA LoadConnectionKeeps ==
    ASSUME ConnectionInv, NEW w \in Workers, LoadConnection(w)
    PROVE  ConnectionInv'
  <1>1. /\ pc[w] = "idle" /\ pc' = [pc EXCEPT ![w] = "material"]
        /\ job' = [job EXCEPT ![w].sealed = conn.sealed]
        /\ UNCHANGED <<state, records, grant>>
    BY DEF LoadConnection
  <1>2. job[w] \in JobType /\ conn.sealed \in Nat
    BY Types DEF ConnType
  <1>3. job[w].material = None
    BY <1>1 DEF ConnectionInv, Knows, NoJob
  <1>4. job'[w] = [job[w] EXCEPT !.sealed = conn.sealed]
    BY <1>1, Types
  <1>5. job'[w] \in JobType /\ job'[w].material = None
    BY <1>2, <1>3, <1>4 DEF JobType
  <1>6. Moved(w) /\ pc'[w] = "material"
    BY <1>1, <1>5, Types DEF Moved, Labels
  <1>7. Knows(w)'
    BY <1>5, <1>6 DEF Knows, OwnerKnows, ReaderKnows, CallbackSteps
  <1> QED BY <1>1, <1>6, <1>7, ReadingKeeps DEF CallbackSteps

LEMMA LoadMaterialKeeps ==
    ASSUME ConnectionInv, NEW w \in Workers, LoadMaterial(w)
    PROVE  ConnectionInv'
  <1>1. /\ pc[w] = "material" /\ pc' = [pc EXCEPT ![w] = "disconnect"]
        /\ UNCHANGED <<state, records, grant>> /\ UNCHANGED attempt
        /\ job[w] \in JobType /\ job[w].material = None
    BY Types DEF LoadMaterial, records, ConnectionInv, Knows, ReaderKnows
  <1>2. /\ job' \in [Workers -> JobType] /\ \A v \in Workers \ {w} : job'[v] = job[v]
        /\ job'[w].material # None => attempt[job'[w].material].status \in HandedOver
    <2>1. CASE UNCHANGED job
      BY <1>1, <2>1, Types
    <2>2. CASE /\ EnvelopesReadable(job[w].sealed)
               /\ job' = [job EXCEPT ![w].material = conn.envelopes, ![w].endpoint = conn.endpoint]
      <3>1. conn.envelopes \in Maybe /\ conn.endpoint \in BOOLEAN
            /\ conn.readiness \in {"absent", "requires_validation", "ready", "disconnected"}
        BY Types DEF ConnType
      <3>2. job'[w] = [job[w] EXCEPT !.material = conn.envelopes, !.endpoint = conn.endpoint]
        BY <2>2, Types
      <3>3. job'[w] \in JobType /\ job'[w].material = conn.envelopes
        BY <1>1, <3>1, <3>2 DEF JobType
      <3>4. conn.envelopes # None => attempt[conn.envelopes].status \in HandedOver
        BY <3>1 DEF ConnectionInv, ConnectionOwned, ConnectionCoherent, GenerationCoherent, HandedOver
      <3> QED BY <2>2, <3>3, <3>4, Types
    <2> QED BY <2>1, <2>2 DEF LoadMaterial
  <1>3. Moved(w) /\ pc'[w] = "disconnect"
    BY <1>1, <1>2, Types DEF Moved, Labels
  <1>4. Knows(w)'
    BY <1>1, <1>2, <1>3 DEF Knows, OwnerKnows, ReaderKnows, CallbackSteps
  <1> QED BY <1>1, <1>3, <1>4, ReadingKeeps DEF CallbackSteps

LEMMA ConnectionInvInit == Init => ConnectionInv
  <1> SUFFICES ASSUME Init PROVE ConnectionInv
    OBVIOUS
  <1> USE DEF Init
  <1>1. ConnectionTypeOK
    <2>1. attempt \in [Attempts -> AttemptType] /\ conn \in ConnType /\ job \in [Workers -> JobType]
      BY DEF AttemptType, ConnType, JobType, NoAttempt, NoConnection, NoJob, Maybe
    <2> QED BY <2>1 DEF ConnectionTypeOK, AttemptType, ConnType, JobType
  <1>2. \A w \in Workers : Knows(w)
    BY DEF Knows, OwnerKnows, ReaderKnows, CallbackSteps
  <1>3. \A a \in Attempts : Ledger(a)
    BY DEF Ledger, NoAttempt
  <1>4. ConnectionOwned /\ GenerationCoherent /\ ConnectionUsable
    BY ConnectionAssumption
       DEF ConnectionOwned, GenerationCoherent, ConnectionUsable, NoConnection, NoAttempt
  <1>5. CallbackHandledOnce
    BY DEF CallbackHandledOnce, CallbackSteps
  <1> QED BY <1>1, <1>2, <1>3, <1>4, <1>5 DEF ConnectionInv, ConnectionCoherent

\* Whoever is inside a callback has one.
LEMMA OwnerHasAttempt ==
    ASSUME ConnectionInv, NEW w \in Workers, pc[w] \in CallbackSteps \cup {"peeked"}
    PROVE  \E a \in Attempts : a = Mine(w)
  BY DEF ConnectionInv, Knows

\* Every step keeps the inductive invariant.
LEMMA ConnectionInvNext == ConnectionInv /\ [Next]_vars => ConnectionInv'
  <1> SUFFICES ASSUME ConnectionInv, [Next]_vars PROVE ConnectionInv'
    OBVIOUS
  <1>1. ASSUME NEW a \in Attempts, Start(a) \/ CreateState(a) \/ StartRefused(a) \/ Expire(a)
        PROVE  ConnectionInv'
    <2>1. /\ UNCHANGED <<records, grant, pc, job>> /\ state[a] # "consumed"
          /\ \E t \in {"none", "authorizing", "open", "expired"} : state' = [state EXCEPT ![a] = t]
      BY <1>1 DEF Start, CreateState, StartRefused, Expire
    <2>2. /\ state' \in [Attempts -> {"none", "authorizing", "open", "consumed", "expired"}]
          /\ \A b \in Attempts : state[b] = "consumed" => state'[b] = "consumed"
      BY <2>1, Types
    <2> QED BY <2>1, <2>2, StateStepKeeps
  <1>2. ASSUME NEW w \in Workers, NEW a \in Attempts, Peek(w, a) PROVE ConnectionInv'
    BY <1>2, PeekKeeps
  <1>3. ASSUME NEW w \in Workers, CancelState(w) PROVE ConnectionInv'
    <2>1. pc[w] = "peeked" /\ Goes(w, "idle") /\ UNCHANGED <<records, grant>>
      BY <1>3 DEF CancelState
    <2>2. PICK a \in Attempts : a = Mine(w)
      BY <2>1, OwnerHasAttempt
    <2>3. CASE Consumable(a)
      BY <1>3, <2>1, <2>2, <2>3, ConsumeKeeps DEF CancelState
    <2>4. CASE ~Consumable(a)
      BY <1>3, <2>1, <2>2, <2>4, LeavingKeeps DEF CancelState
    <2> QED BY <2>3, <2>4
  <1>4. ASSUME NEW w \in Workers, Consume(w) PROVE ConnectionInv'
    <2>1. pc[w] = "peeked" /\ UNCHANGED <<records, grant>>
      BY <1>4 DEF Consume
    <2>2. PICK a \in Attempts : a = Mine(w)
      BY <2>1, OwnerHasAttempt
    <2>3. CASE Consumable(a)
      BY <1>4, <2>1, <2>2, <2>3, ConsumeKeeps DEF Consume
    <2>4. CASE ~Consumable(a)
      BY <1>4, <2>1, <2>2, <2>4, LeavingKeeps DEF Consume
    <2> QED BY <2>3, <2>4
  <1>5. ASSUME NEW w \in Workers,
               \/ Begin(w) \/ Exchange(w) \/ Attach(w) \/ RefreshMaterial(w) \/ Validate(w)
               \/ Resolve(w) \/ Finalize(w) \/ Acknowledge(w) \/ Fail(w) \/ Recover(w)
               \/ CompleteAttempt(w)
        PROVE  ConnectionInv'
    <2>1. pc[w] \in CallbackSteps
      BY <1>5 DEF Begin, Exchange, Attach, RefreshMaterial, Validate, Resolve, Finalize,
                  Acknowledge, Fail, Recover, CompleteAttempt, CallbackSteps
    <2>2. PICK a \in Attempts : a = Mine(w)
      BY <2>1, OwnerHasAttempt
    <2>3. CASE Validate(w)
      <3>1. /\ pc[w] = "validate" /\ attempt[a].status = "material_attached"
            /\ UNCHANGED <<state, records, grant>>
        BY <2>2, <2>3 DEF Validate, ConnectionInv, Knows, OwnerKnows
      <3>2. Moved(w) /\ KeepsJob(w) /\ pc'[w] \in {"resolve", "fail"}
        BY <2>3, GoesMoves DEF Validate, Labels
      <3> QED BY <2>1, <2>2, <3>1, <3>2, OwnerReadingKeeps
    <2>4. CASE Begin(w) \/ Exchange(w) \/ Attach(w) \/ RefreshMaterial(w)
      BY <2>2, <2>4, BeginKeeps, ExchangeKeeps, AttachKeeps, RefreshMaterialKeeps
    <2>5. CASE Resolve(w) \/ Finalize(w) \/ Acknowledge(w)
      BY <2>2, <2>5, ResolveKeeps, FinalizeKeeps, AcknowledgeKeeps
    <2>6. CASE Fail(w) \/ Recover(w) \/ CompleteAttempt(w)
      BY <2>2, <2>6, FailKeeps, RecoverKeeps, CompleteAttemptKeeps
    <2> QED BY <1>5, <2>3, <2>4, <2>5, <2>6
  <1>6. ASSUME NEW w \in Workers, Abandon(w) PROVE ConnectionInv'
    BY <1>6, LeavingKeeps DEF Abandon
  <1>7. CASE UNCHANGED vars
    BY <1>7, StateStepKeeps, Types DEF vars, records
  <1> QED
    BY <1>1, <1>2, <1>3, <1>4, <1>5, <1>6, <1>7, RevokeKeeps, LoadExpiredKeeps, SaveRefreshedKeeps,
       LoadConnectionKeeps, LoadMaterialKeeps, DisconnectKeeps, CompleteRevocationKeeps DEF Next

\* The inductive invariant holds in every reachable state.
THEOREM ConnectionInvHolds == Spec => []ConnectionInv
  BY ConnectionInvInit, ConnectionInvNext, PTL DEF Spec

\* Every variable of the authorisation keeps its type, for any number of
\* callbacks and workers.
THEOREM ConnectionTypeCorrect == Spec => []ConnectionTypeOK
  <1>1. ConnectionInv => ConnectionTypeOK
    BY DEF ConnectionInv
  <1> QED BY <1>1, ConnectionInvHolds, PTL

\* Tokens that work and are not the connection's are on record as to be revoked:
\* begin_oauth_attempt notes the obligation before the provider is asked, and
\* fail_oauth_attempt takes it back.
THEOREM PendingGrantsStayOwed == Spec => []PendingGrantsOwed
  <1>1. ConnectionInv => PendingGrantsOwed
    <2> SUFFICES ASSUME ConnectionInv, NEW a \in Attempts,
                        grant[a] = "live", attempt[a].status # "finalized"
                 PROVE  attempt[a].revocation
      BY DEF PendingGrantsOwed
    <2>1. Ledger(a) /\ attempt[a].status \in
             {"none", "exchange_pending", "material_attached", "finalized", "failed", "revoked"}
      BY Types DEF ConnectionInv, AttemptType
    <2> QED BY <2>1 DEF Ledger
  <1> QED BY <1>1, ConnectionInvHolds, PTL

\* One worker handles a callback, and a connection that is not disconnected holds
\* working tokens of its own generation, whichever callbacks, refreshes and
\* disconnects overlap.
THEOREM ConnectionStaysCoherent == Spec => []ConnectionCoherent
  <1>1. ConnectionInv => ConnectionCoherent
    BY DEF ConnectionInv
  <1> QED BY <1>1, ConnectionInvHolds, PTL

\* A connection loses its tokens to a disconnect or to the failure of its own
\* callback only, and a completed revocation is final.
THEOREM ConnectionStaysUndisturbed == Spec => ConnectionUndisturbed
  <1> DEFINE A == conn.envelopes # None /\ conn'.envelopes # conn.envelopes =>
                      \/ \E w \in Workers : pc[w] = "disconnect"
                      \/ attempt'[conn.envelopes].status = "failed"
             B == conn.readiness = "disconnected" /\ ~conn.revocation => ~conn'.revocation
  <1>1. ConnectionInv /\ [Next]_vars => [A]_vars /\ [B]_vars
    <2> SUFFICES ASSUME ConnectionInv, Next PROVE A /\ B
      OBVIOUS
    <2>1. CASE UNCHANGED conn
      BY <2>1
    <2>2. ASSUME NEW w \in Workers, Finalize(w), conn' # conn PROVE A /\ B
      <3>1. /\ pc[w] = "finalize" /\ Saveable(job[w].revision)
            /\ Finalized(Mine(w), job[w].revision)
        BY <2>2 DEF Finalize, records
      <3>2. Resolvable
        BY <3>1 DEF ConnectionInv, Knows, ReaderKnows
      <3>3. conn.envelopes = None /\ conn'.revocation = FALSE
        BY <3>1, <3>2 DEF Resolvable, Finalized, ConnectionInv, ConnectionOwned
      <3> QED BY <3>3
    <2>3. ASSUME NEW w \in Workers, Acknowledge(w), conn' # conn PROVE A /\ B
      <3>1. /\ conn' = [conn EXCEPT !.readiness = "ready", !.revision = @ + 1]
            /\ conn \in ConnType
        BY <2>3, Types DEF Acknowledge, Acknowledged, records
      <3>2. conn'.envelopes = conn.envelopes /\ conn'.revocation = conn.revocation
        BY <3>1 DEF ConnType
      <3> QED BY <3>2
    <2>4. ASSUME NEW w \in Workers, Fail(w), conn' # conn PROVE A /\ B
      <3>1. pc[w] \in CallbackSteps /\ Failed(Mine(w))
        BY <2>4 DEF Fail, CallbackSteps, records
      <3>2. PICK a \in Attempts : a = Mine(w)
        BY <3>1, OwnerHasAttempt
      <3>3. Owns(a) /\ conn.readiness # "disconnected"
        BY <2>4, <3>1, <3>2 DEF Failed
      <3>4. attempt'[a].status = "failed"
        BY <3>1, <3>2, Types DEF Failed, AttemptType
      <3>5. conn.readiness \in {"absent", "requires_validation", "ready", "disconnected"}
        BY Types DEF ConnType
      <3>6. conn.envelopes # None => conn.envelopes = a
        BY <3>3, <3>5 DEF Owns, ConnectionInv, ConnectionOwned, ConnectionCoherent, GenerationCoherent
      <3> QED BY <3>3, <3>4, <3>6
    <2>5. ASSUME NEW w \in Workers, CompleteAttempt(w), conn' # conn PROVE A /\ B
      <3>1. /\ conn' = [conn EXCEPT !.revocation = FALSE, !.generation = None]
            /\ conn \in ConnType
        BY <2>5, Types DEF CompleteAttempt, Completed
      <3>2. conn'.envelopes = conn.envelopes /\ conn'.revocation = FALSE
        BY <3>1 DEF ConnType
      <3> QED BY <3>2
    <2>6. ASSUME NEW w \in Workers, SaveRefreshed(w), conn' # conn PROVE A /\ B
      <3>1. /\ pc[w] = "save" /\ Saveable(job[w].revision) /\ conn \in ConnType
            /\ conn' = [conn EXCEPT !.readiness = "ready", !.revision = job[w].revision,
                                    !.envelopes = job[w].material, !.sealed = job[w].revision,
                                    !.endpoint = FALSE, !.revocation = FALSE]
        BY <2>6, Types DEF SaveRefreshed
      <3>2. job[w].material = conn.envelopes
        BY <3>1 DEF ConnectionInv, Knows, ReaderKnows
      <3>3. conn'.envelopes = conn.envelopes /\ conn'.revocation = FALSE
        BY <3>1, <3>2 DEF ConnType
      <3> QED BY <3>3
    <2>7. ASSUME NEW w \in Workers, Disconnect(w) PROVE A /\ B
      <3>1. pc[w] = "disconnect" /\ \E required \in BOOLEAN : conn' = Disconnected(required)
        BY <2>7 DEF Disconnect
      <3>2. conn.readiness = "disconnected" => conn'.revocation = conn.revocation
        BY <3>1, DisconnectedRow
      <3> QED BY <3>1, <3>2
    <2>8. ASSUME NEW w \in Workers, CompleteRevocation(w), conn' # conn PROVE A /\ B
      <3>1. conn' = [conn EXCEPT !.revocation = FALSE] /\ conn \in ConnType
        BY <2>8, Types DEF CompleteRevocation
      <3>2. conn'.envelopes = conn.envelopes /\ conn'.revocation = FALSE
        BY <3>1 DEF ConnType
      <3> QED BY <3>2
    <2> HIDE DEF A, B
    <2> QED
      BY <2>1, <2>2, <2>3, <2>4, <2>5, <2>6, <2>7, <2>8
         DEF Next, records, Start, CreateState, StartRefused, Expire, Peek, CancelState, Consume,
             Begin, Exchange, Attach, RefreshMaterial, Validate, Resolve, Recover, Revoke,
             LoadExpired, LoadConnection, LoadMaterial, Abandon
  <1> QED
    BY <1>1, ConnectionInvHolds, PTL
       DEF Spec, ConnectionUndisturbed, NewerGenerationUndisturbed, RevocationStaysComplete
=============================================================================
