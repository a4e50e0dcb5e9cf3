------------------------ MODULE LocalExecutorProofs ------------------------
(***************************************************************************)
(* Proofs about the request store, for any number of requests, hashes and  *)
(* callers; then about the executor that keeps its requests there, for any *)
(* number of processes, tasks, requests and preflights, and any            *)
(* interleaving of their steps with crashes, cancellations, late provider  *)
(* decisions and status reads.                                             *)
(***************************************************************************)
EXTENDS LocalExecutor, TLAPS

(***************************************************************************)
(* A step of the store changes one stored row, adds one row, or fails some *)
(* pending rows.  The lemma restates the nine methods in that form, which  *)
(* is what the invariants look at.                                         *)
(***************************************************************************)
NewRow(h) == [payload_hash |-> h, state |-> "awaiting_confirmation",
              expires_at |-> now + TTL, approval_count |-> 0,
              failure_reason |-> "none"]

Inserts(r, h) ==
    /\ r \in RequestIds \ Stored
    /\ h \in Hashes
    /\ ReplayAllowed(h, {})
    /\ requests' = [x \in Stored \cup {r} |-> IF x = r THEN NewRow(h) ELSE requests[x]]
    /\ now' = now

\* The legal changes of one row.
Approves(row, new) ==
    /\ row.state = "awaiting_confirmation" /\ ~Expired(row)
    /\ new = [row EXCEPT !.state = "ready_to_execute", !.approval_count = 1]
Fails(row, new) ==
    /\ row.state \in PendingStates
    /\ \E reason \in FailureReasons \ {"none"} : new = Failed(row, reason)
Starts(r, row, new) ==
    /\ row.state = "ready_to_execute" /\ ~Expired(row)
    /\ ReplayAllowed(row.payload_hash, {r})
    /\ new = [row EXCEPT !.state = "executing"]
Settles(row, new) ==
    /\ row.state \in {"executing", "outcome_unknown"}
    /\ \E o \in Outcomes :
          /\ row.state = "outcome_unknown" => o # "outcome_unknown"
          /\ new = [row EXCEPT !.state = o, !.failure_reason = CompletionReason(o)]

Changes(r, row, new) ==
    \/ Approves(row, new)
    \/ Fails(row, new)
    \/ Starts(r, row, new)
    \/ Settles(row, new)

Updates(r) ==
    /\ r \in Stored
    /\ \E new \in Row :
          /\ Changes(r, requests[r], new)
          /\ requests' = [requests EXCEPT ![r] = new]
    /\ now' = now

Sweeps ==
    /\ DOMAIN requests' = Stored
    /\ requests' = [r \in Stored |-> requests'[r]]
    /\ \A r \in Stored : requests'[r] = requests[r] \/ Fails(requests[r], requests'[r])
    /\ now' = now

\* Time passes, or nothing happens.
Ticks == now' \in Nat /\ now <= now' /\ requests' = requests

(***************************************************************************)
(* Which updates leave a row a row.                                        *)
(***************************************************************************)
LEMMA RowUpdates ==
    ASSUME NEW row \in Row
    PROVE  /\ \A reason \in FailureReasons : Failed(row, reason) \in Row
           /\ [row EXCEPT !.state = "ready_to_execute", !.approval_count = 1] \in Row
           /\ [row EXCEPT !.state = "executing"] \in Row
           /\ \A o \in Outcomes :
                 [row EXCEPT !.state = o, !.failure_reason = CompletionReason(o)] \in Row
    BY DEF Row, Failed, CompletionReason, Outcomes, RequestState, PendingStates,
           ReplayBlockingStates, FailureReasons, InvalidationReasons

(***************************************************************************)
(* Every call of the store has one of the shapes above.                    *)
(***************************************************************************)
LEMMA StepShapes ==
    ASSUME TypeOK, [StoreNext]_storeVars
    PROVE  \/ \E r \in RequestIds, h \in Hashes : Inserts(r, h)
           \/ \E r \in Stored : Updates(r)
           \/ Sweeps
           \/ Ticks
  <1>0. ASSUME NEW r \in Stored PROVE requests[r] \in Row
    BY <1>0 DEF TypeOK
  <1>1. ASSUME NEW r \in RequestIds, NEW h \in Hashes, CreatePreview(r, h)
        PROVE  Inserts(r, h)
    BY <1>1 DEF CreatePreview, Inserts, NewRow
  <1>2. ASSUME NEW r \in Stored, Get(r)
        PROVE  Updates(r) \/ Ticks
    <2>1. CASE Expired(requests[r])
      <3>1. Fails(requests[r], Failed(requests[r], "preview_expired"))
        BY <2>1 DEF Fails, Expired, FailureReasons
      <3>2. Failed(requests[r], "preview_expired") \in Row
        BY <1>0, RowUpdates DEF FailureReasons
      <3> QED BY <1>2, <2>1, <3>1, <3>2 DEF Updates, Changes, Get, Store, ExpireIfNeeded
    <2>2. CASE ~Expired(requests[r])
      BY <1>2, <2>2 DEF Get, Store, ExpireIfNeeded, TypeOK, Ticks
    <2> QED BY <2>1, <2>2
  <1>3. ASSUME NEW r \in Stored, NEW h \in Hashes, NEW c \in Classes, Approve(r, h, c)
        PROVE  Updates(r)
    <2>1. requests[r].state = "awaiting_confirmation" /\ ~Expired(requests[r])
      BY <1>3, <1>0 DEF Approve, ApprovalCandidate, Live, ExpireIfNeeded, Failed, Row
    <2> QED BY <1>3, <1>0, <2>1, RowUpdates DEF Approve, Store, Updates, Changes, Approves
  <1>4. ASSUME NEW r \in Stored, NEW reason \in InvalidationReasons, Invalidate(r, reason)
        PROVE  Updates(r)
    <2>1. requests[r].state \in PendingStates
      BY <1>4, <1>0 DEF Invalidate, Live, ExpireIfNeeded, Failed, Row, PendingStates
    <2>2. Fails(requests[r], Failed(requests[r], reason))
      BY <2>1 DEF Fails, FailureReasons, InvalidationReasons
    <2> QED BY <1>4, <1>0, <2>2, RowUpdates
            DEF Invalidate, Store, Updates, Changes, FailureReasons
  <1>5. ASSUME NEW r \in Stored, RequireReady(r)
        PROVE  requests[r].state = "ready_to_execute" /\ ~Expired(requests[r])
    BY <1>5, <1>0 DEF RequireReady, Live, ExpireIfNeeded, Failed, Row
  <1>6. ASSUME NEW r \in Stored, FailBeforeDispatch(r)
        PROVE  Updates(r)
    <2>1. Fails(requests[r], Failed(requests[r], "pre_dispatch_failed"))
      BY <1>6, <1>5 DEF FailBeforeDispatch, Fails, FailureReasons, PendingStates
    <2> QED BY <1>6, <1>0, <2>1, RowUpdates
            DEF FailBeforeDispatch, Store, Updates, Changes, FailureReasons
  <1>7. ASSUME NEW r \in Stored, StartExecution(r)
        PROVE  Updates(r)
    BY <1>7, <1>5, <1>0, RowUpdates DEF StartExecution, Store, Updates, Changes, Starts
  <1>8. ASSUME NEW r \in Stored, NEW o \in Outcomes,
               Complete(r, o) \/ ResolveOutcomeUnknown(r, o)
        PROVE  Updates(r)
    <2>1. Settles(requests[r], [requests[r] EXCEPT !.state = o,
                                                !.failure_reason = CompletionReason(o)])
      BY <1>8 DEF Complete, ResolveOutcomeUnknown, Settles
    <2> QED BY <1>8, <1>0, <2>1, RowUpdates
            DEF Complete, ResolveOutcomeUnknown, Store, Updates, Changes
  <1>9. ASSUME NEW C, NEW E, InvalidatePending(C, E)
        PROVE  Sweeps
    <2>1. ASSUME NEW r \in Stored
          PROVE  requests'[r] = requests[r] \/ Fails(requests[r], requests'[r])
      <3>1. CASE Expired(requests[r])
        <4>1. ExpireIfNeeded(requests[r]).state = "failed"
          BY <3>1, <1>0 DEF ExpireIfNeeded, Failed, Row
        <4>2. requests'[r] = Failed(requests[r], "preview_expired")
          BY <1>9, <3>1, <4>1 DEF InvalidatePending, ExpireIfNeeded, PendingStates
        <4> QED BY <4>2, <3>1 DEF Fails, Expired, FailureReasons
      <3>2. CASE ~Expired(requests[r])
        <4>1. \/ requests'[r] = requests[r]
              \/ /\ requests[r].state \in PendingStates
                 /\ requests'[r] = Failed(requests[r], "credentials_cleared")
          BY <1>9, <3>2 DEF InvalidatePending, ExpireIfNeeded
        <4> QED BY <4>1 DEF Fails, FailureReasons
      <3> QED BY <3>1, <3>2
    <2> QED BY <1>9, <2>1 DEF InvalidatePending, Sweeps
  <1>10. CASE Tick
    BY <1>10 DEF Tick, Ticks, TypeOK
  <1>11. CASE UNCHANGED storeVars
    BY <1>11 DEF storeVars, Ticks, TypeOK
  <1> QED
    BY <1>1, <1>2, <1>3, <1>4, <1>6, <1>7, <1>8, <1>9, <1>10, <1>11 DEF StoreNext, StoreOp

(***************************************************************************)
(* Typing.                                                                 *)
(***************************************************************************)
LEMMA NewRowType ==
    ASSUME TypeOK, NEW h \in Hashes
    PROVE  NewRow(h) \in Row
    BY StoreAssumption DEF TypeOK, NewRow, Row, RequestState, PendingStates, FailureReasons

LEMMA TypeStep ==
    ASSUME TypeOK, [StoreNext]_storeVars
    PROVE  TypeOK'
  <1>1. ASSUME NEW r \in RequestIds, NEW h \in Hashes, Inserts(r, h) PROVE TypeOK'
    BY <1>1, NewRowType DEF Inserts, TypeOK, Stored
  <1>2. ASSUME NEW r \in Stored, Updates(r) PROVE TypeOK'
    BY <1>2 DEF Updates, TypeOK, Stored
  <1>3. CASE Sweeps
    <2>1. ASSUME NEW r \in Stored PROVE requests'[r] \in Row
      <3>1. requests[r] \in Row
        BY DEF TypeOK
      <3> QED BY <1>3, <3>1, RowUpdates DEF Sweeps, Fails
    <2> QED BY <1>3, <2>1 DEF Sweeps, TypeOK, Stored
  <1>4. CASE Ticks
    BY <1>4 DEF Ticks, TypeOK, Stored
  <1> QED BY <1>1, <1>2, <1>3, <1>4, StepShapes

\* Whatever its callers do, the table holds well-formed rows only.
THEOREM StoreTypeCorrect == StoreSpec => []TypeOK
  <1>1. StoreInit => TypeOK
    BY DEF StoreInit, TypeOK, Stored
  <1>2. TypeOK /\ [StoreNext]_storeVars => TypeOK'
    BY TypeStep
  <1> QED BY <1>1, <1>2, PTL DEF StoreSpec

(***************************************************************************)
(* What a change of one row keeps and what it may alter.                   *)
(***************************************************************************)
FieldsValid(row) ==
    /\ row.state \in {"previewed", "awaiting_confirmation"} => row.approval_count = 0
    /\ row.state \in ReplayBlockingStates \cup {"ready_to_execute"} => row.approval_count = 1
    /\ (row.failure_reason = "none") <=> (row.state \notin {"failed", "outcome_unknown"})

Keeps(row, new) ==
    /\ new.payload_hash = row.payload_hash
    /\ new.expires_at = row.expires_at

LEMMA RowChange ==
    ASSUME NEW r, NEW row \in Row, NEW new \in Row, Changes(r, row, new)
    PROVE  /\ Keeps(row, new)
           /\ row.state \notin {"succeeded", "failed"}
           /\ Expired(row) => new.state = "failed"
           /\ FieldsValid(row) => FieldsValid(new)
           /\ \/ new.state \notin ReplayBlockingStates
              \/ row.state \in ReplayBlockingStates
              \/ new.state = "executing" /\ ReplayAllowed(row.payload_hash, {r})
  <1>1. CASE Approves(row, new)
    BY <1>1 DEF Approves, Row, FieldsValid, Keeps, ReplayBlockingStates
  <1>2. CASE Fails(row, new)
    BY <1>2 DEF Fails, Failed, Row, FieldsValid, Keeps, ReplayBlockingStates, PendingStates
  <1>3. CASE Starts(r, row, new)
    BY <1>3 DEF Starts, Row, FieldsValid, Keeps, ReplayBlockingStates
  <1>4. CASE Settles(row, new)
    BY <1>4 DEF Settles, Row, FieldsValid, Keeps, ReplayBlockingStates, CompletionReason, Outcomes,
                Expired, PendingStates
  <1> QED BY <1>1, <1>2, <1>3, <1>4 DEF Changes

(***************************************************************************)
(* The same for a whole step: every stored row is kept or legally changed. *)
(***************************************************************************)
LEMMA StepOnRow ==
    ASSUME TypeOK, [StoreNext]_storeVars, NEW r \in Stored
    PROVE  /\ r \in Stored'
           /\ \/ requests'[r] = requests[r]
              \/ requests'[r] \in Row /\ Changes(r, requests[r], requests'[r])
  <1>1. ASSUME NEW s \in RequestIds, NEW h \in Hashes, Inserts(s, h)
        PROVE  r \in Stored' /\ requests'[r] = requests[r]
    BY <1>1 DEF Inserts, Stored
  <1>2. ASSUME NEW s \in Stored, Updates(s)
        PROVE  /\ r \in Stored'
               /\ \/ requests'[r] = requests[r]
                  \/ requests'[r] \in Row /\ Changes(r, requests[r], requests'[r])
    BY <1>2 DEF Updates, Stored, TypeOK
  <1>3. CASE Sweeps
    BY <1>3, TypeStep DEF Sweeps, Changes, TypeOK, Stored
  <1>4. CASE Ticks
    BY <1>4 DEF Ticks, Stored
  <1> QED BY <1>1, <1>2, <1>3, <1>4, StepShapes

\* A row that was not there before is a fresh preview whose hash was free.
LEMMA StepNewRow ==
    ASSUME TypeOK, [StoreNext]_storeVars, NEW r \in Stored', r \notin Stored
    PROVE  \E h \in Hashes : /\ requests'[r] = NewRow(h)
                             /\ \A s \in Stored : requests'[s] = requests[s]
  <1>1. ASSUME NEW s \in RequestIds, NEW h \in Hashes, Inserts(s, h)
        PROVE  r = s /\ requests'[r] = NewRow(h) /\ \A x \in Stored : requests'[x] = requests[x]
    BY <1>1 DEF Inserts, Stored
  <1>2. ~(\E s \in Stored : Updates(s)) /\ ~Sweeps /\ ~Ticks
    BY DEF Updates, Sweeps, Ticks, Stored
  <1> QED BY <1>1, <1>2, StepShapes

(***************************************************************************)
(* The invariants.                                                         *)
(***************************************************************************)
StoreInv == TypeOK /\ StateFieldsValid /\ OneBlockingRequestPerHash

LEMMA FieldsStep ==
    ASSUME TypeOK, StateFieldsValid, [StoreNext]_storeVars
    PROVE  StateFieldsValid'
  <1> SUFFICES ASSUME NEW r \in Stored' PROVE FieldsValid(requests'[r])
    BY DEF StateFieldsValid, FieldsValid
  <1>1. CASE r \in Stored
    <2>1. requests[r] \in Row /\ FieldsValid(requests[r])
      BY <1>1 DEF TypeOK, StateFieldsValid, FieldsValid
    <2> QED BY <1>1, <2>1, StepOnRow, RowChange
  <1>2. CASE r \notin Stored
    <2>1. PICK h \in Hashes : requests'[r] = NewRow(h)
      BY <1>2, StepNewRow
    <2> QED BY <2>1 DEF NewRow, FieldsValid, ReplayBlockingStates
  <1> QED BY <1>1, <1>2

LEMMA BlockingStep ==
    ASSUME TypeOK, OneBlockingRequestPerHash, [StoreNext]_storeVars
    PROVE  OneBlockingRequestPerHash'
  <1>1. ASSUME NEW r \in RequestIds, NEW h \in Hashes, Inserts(r, h)
        PROVE  OneBlockingRequestPerHash'
    BY <1>1 DEF Inserts, NewRow, OneBlockingRequestPerHash, Stored, ReplayBlockingStates
  <1>2. ASSUME NEW r \in Stored, Updates(r)
        PROVE  OneBlockingRequestPerHash'
    <2>1. PICK new \in Row : /\ Changes(r, requests[r], new)
                             /\ requests' = [requests EXCEPT ![r] = new]
      BY <1>2 DEF Updates
    <2>2. /\ new.payload_hash = requests[r].payload_hash
          /\ \/ new.state \notin ReplayBlockingStates
             \/ requests[r].state \in ReplayBlockingStates
             \/ ReplayAllowed(requests[r].payload_hash, {r})
      BY <2>1, RowChange DEF TypeOK, Keeps
    <2>3. /\ Stored' = Stored
          /\ \A s \in Stored : requests'[s] = IF s = r THEN new ELSE requests[s]
      BY <2>1 DEF Stored, TypeOK
    <2> QED BY <2>2, <2>3 DEF OneBlockingRequestPerHash, ReplayAllowed
  <1>3. CASE Sweeps
    <2>1. ASSUME NEW r \in Stored
          PROVE  requests'[r] = requests[r] \/ requests'[r].state \notin ReplayBlockingStates
      <3>1. requests[r] \in Row
        BY DEF TypeOK
      <3> QED BY <1>3, <3>1 DEF Sweeps, Fails, Failed, Row, ReplayBlockingStates
    <2> QED BY <1>3, <2>1 DEF Sweeps, OneBlockingRequestPerHash, Stored
  <1>4. CASE Ticks
    BY <1>4 DEF Ticks, OneBlockingRequestPerHash, Stored
  <1> QED BY <1>1, <1>2, <1>3, <1>4, StepShapes

LEMMA StoreInvInductive ==
    /\ StoreInit => StoreInv
    /\ StoreInv /\ [StoreNext]_storeVars => StoreInv'
  <1>1. StoreInit => StoreInv
    BY DEF StoreInit, StoreInv, TypeOK, Stored, StateFieldsValid, OneBlockingRequestPerHash
  <1>2. StoreInv /\ [StoreNext]_storeVars => StoreInv'
    BY TypeStep, FieldsStep, BlockingStep DEF StoreInv
  <1> QED BY <1>1, <1>2

\* Nothing is executed without its approval, and states and reasons agree.
THEOREM FieldsAlwaysValid == StoreSpec => []StateFieldsValid
  <1>1. StoreInv => StateFieldsValid
    BY DEF StoreInv
  <1> QED BY <1>1, StoreInvInductive, PTL DEF StoreSpec

\* A payload hash is never executing, succeeded or of unknown outcome twice.
THEOREM ReplayBlocked == StoreSpec => []OneBlockingRequestPerHash
  <1>1. StoreInv => OneBlockingRequestPerHash
    BY DEF StoreInv
  <1> QED BY <1>1, StoreInvInductive, PTL DEF StoreSpec

(***************************************************************************)
(* Action properties.                                                      *)
(***************************************************************************)
\* An expired preview never moves on, however often its expiry is rolled back.
THEOREM ExpiryIsFinal == StoreSpec => ExpiredIsInert
  <1>1. ASSUME TypeOK, [StoreNext]_storeVars, NEW r \in Stored, Expired(requests[r])
        PROVE  requests'[r] = requests[r] \/ requests'[r].state = "failed"
    <2>1. requests[r] \in Row
      BY <1>1 DEF TypeOK
    <2> QED BY <1>1, <2>1, StepOnRow, RowChange
  <1>2. TypeOK /\ [StoreNext]_storeVars =>
          [\A r \in Stored : Expired(requests[r]) =>
              requests'[r] = requests[r] \/ requests'[r].state = "failed"]_storeVars
    BY <1>1
  <1> QED BY <1>2, StoreTypeCorrect, PTL DEF StoreSpec, ExpiredIsInert

\* Finished rows never change, and no row is removed or rebound.
THEOREM HistoryKept == StoreSpec => HistoryIsImmutable
  <1>1. ASSUME TypeOK, [StoreNext]_storeVars, NEW r \in Stored
        PROVE  /\ r \in Stored'
               /\ requests[r].state \in {"succeeded", "failed"} => requests'[r] = requests[r]
               /\ requests'[r].payload_hash = requests[r].payload_hash
               /\ requests'[r].expires_at = requests[r].expires_at
    <2>1. requests[r] \in Row
      BY <1>1 DEF TypeOK
    <2>2. /\ r \in Stored'
          /\ \/ requests'[r] = requests[r]
             \/ requests'[r] \in Row /\ Changes(r, requests[r], requests'[r])
      BY <1>1, StepOnRow
    <2>3. CASE requests'[r] \in Row /\ Changes(r, requests[r], requests'[r])
      <3>1. Keeps(requests[r], requests'[r]) /\ requests[r].state \notin {"succeeded", "failed"}
        BY <2>1, <2>3, RowChange
      <3> QED BY <2>2, <3>1 DEF Keeps
    <2> QED BY <2>2, <2>3
  <1>2. TypeOK /\ [StoreNext]_storeVars =>
          [\A r \in Stored :
              /\ r \in Stored'
              /\ requests[r].state \in {"succeeded", "failed"} => requests'[r] = requests[r]
              /\ requests'[r].payload_hash = requests[r].payload_hash
              /\ requests'[r].expires_at = requests[r].expires_at]_storeVars
    BY <1>1
  <1> QED BY <1>2, StoreTypeCorrect, PTL DEF StoreSpec, HistoryIsImmutable

(***************************************************************************)
(* The store implements the write ledger.                                  *)
(***************************************************************************)
Claims == {AsClaim(r) : r \in BlockingRows}

\* The claims depend only on the blocking rows: a step that leaves those alone
\* is a stuttering step of the ledger.
LEMMA SameClaims ==
    ASSUME BlockingRows' = BlockingRows,
           \A r \in BlockingRows : requests'[r] = requests[r]
    PROVE  Claims' = Claims
    BY DEF Claims, AsClaim

LEMMA LedgerStep ==
    ASSUME StoreInv, [StoreNext]_storeVars
    PROVE  [Ledger!Next]_Claims
  <1> USE DEF StoreInv
  <1>1. ASSUME NEW r \in RequestIds, NEW h \in Hashes, Inserts(r, h)
        PROVE  Claims' = Claims
    <2>1. Stored' = Stored \cup {r} /\ \A s \in Stored : requests'[s] = requests[s]
      BY <1>1 DEF Inserts, Stored
    <2>2. requests'[r].state \notin ReplayBlockingStates
      BY <1>1 DEF Inserts, NewRow, ReplayBlockingStates, Stored
    <2>3. BlockingRows' = BlockingRows
      BY <2>1, <2>2, <1>1 DEF BlockingRows, Inserts
    <2> QED BY <2>1, <2>3, SameClaims DEF BlockingRows
  <1>2. ASSUME NEW r \in Stored, Updates(r)
        PROVE  [Ledger!Next]_Claims
    <2>1. PICK new \in Row : /\ Changes(r, requests[r], new)
                             /\ requests' = [requests EXCEPT ![r] = new]
      BY <1>2 DEF Updates
    <2>2. /\ Stored' = Stored
          /\ requests'[r] = new
          /\ \A s \in Stored \ {r} : requests'[s] = requests[s]
      BY <2>1 DEF Stored, TypeOK
    <2>3. requests[r] \in Row /\ r \in RequestIds
      BY DEF TypeOK
    <2>4. CASE Approves(requests[r], new) \/ Fails(requests[r], new)
      <3>1. new.state \notin ReplayBlockingStates /\ requests[r].state \notin ReplayBlockingStates
        BY <2>3, <2>4 DEF Approves, Fails, Failed, Row, ReplayBlockingStates, PendingStates
      <3>2. BlockingRows' = BlockingRows
        BY <2>2, <3>1 DEF BlockingRows
      <3> QED BY <2>2, <3>1, <3>2, SameClaims DEF BlockingRows
    <2>5. CASE Starts(r, requests[r], new)
      <3> DEFINE h == requests[r].payload_hash
      <3>1. /\ h \in Hashes
            /\ new.payload_hash = h /\ new.state = "executing"
            /\ requests[r].state = "ready_to_execute"
        BY <2>3, <2>5 DEF Starts, Row
      <3>2. BlockingRows' = BlockingRows \cup {r} /\ r \notin BlockingRows
        BY <2>2, <3>1 DEF BlockingRows, ReplayBlockingStates
      <3>3. AsClaim(r)' = [request |-> r, hash |-> h, state |-> "executing"]
        BY <2>2, <3>1 DEF AsClaim
      <3>4. \A s \in BlockingRows : AsClaim(s)' = AsClaim(s)
        BY <2>2, <3>2 DEF AsClaim, BlockingRows
      <3>5. Claims' = Claims \cup {[request |-> r, hash |-> h, state |-> "executing"]}
        BY <3>2, <3>3, <3>4 DEF Claims
      <3>6. ~(\E c \in Claims : c.hash = h)
        BY <2>5, <3>2 DEF Claims, AsClaim, BlockingRows, Starts, ReplayAllowed
      <3>7. Ledger!Acquire(r, h)
        BY <3>5, <3>6 DEF Ledger!Acquire, Ledger!Claimed, Claims
      <3> QED BY <2>3, <3>1, <3>7 DEF Ledger!Next
    <2>6. CASE Settles(requests[r], new)
      <3>1. PICK o \in Outcomes :
               /\ requests[r].state = "outcome_unknown" => o # "outcome_unknown"
               /\ new = [requests[r] EXCEPT !.state = o, !.failure_reason = CompletionReason(o)]
        BY <2>6 DEF Settles
      <3> DEFINE c == AsClaim(r)
      <3>2. /\ new.payload_hash = requests[r].payload_hash /\ new.state = o
            /\ requests[r].state \in {"executing", "outcome_unknown"}
        BY <2>3, <2>6, <3>1 DEF Settles, Row
      <3>3. r \in BlockingRows /\ c \in Claims
            /\ c.state = requests[r].state
        BY <3>2 DEF BlockingRows, ReplayBlockingStates, Claims, AsClaim
      <3>4. \A s \in BlockingRows \ {r} : AsClaim(s)' = AsClaim(s) /\ AsClaim(s) # c
        BY <2>2 DEF AsClaim, BlockingRows
      <3>5. CASE o = "failed"
        <4>1. BlockingRows' = BlockingRows \ {r}
          BY <2>2, <3>2, <3>5 DEF BlockingRows, ReplayBlockingStates
        <4>2. Claims' = Claims \ {c}
          BY <4>1, <3>3, <3>4 DEF Claims
        <4>3. Ledger!Release(c)
          BY <4>2, <3>2, <3>3 DEF Ledger!Release, Claims
        <4> QED BY <3>3, <4>3 DEF Ledger!Next, Claims
      <3>6. CASE o \in {"succeeded", "outcome_unknown"}
        <4>1. BlockingRows' = BlockingRows
          BY <2>2, <3>2, <3>3, <3>6 DEF BlockingRows, ReplayBlockingStates
        <4>2. AsClaim(r)' = [c EXCEPT !.state = o]
          BY <2>2, <3>2 DEF AsClaim
        <4>3. Claims' = (Claims \ {c}) \cup {[c EXCEPT !.state = o]}
          BY <4>1, <4>2, <3>3, <3>4 DEF Claims
        <4>4. Ledger!Keep(c, o)
          BY <4>3, <3>1, <3>2, <3>3, <3>6 DEF Ledger!Keep, Claims
        <4> QED BY <3>3, <3>6, <4>4 DEF Ledger!Next, Claims
      <3> QED BY <3>5, <3>6 DEF Outcomes
    <2> QED BY <2>1, <2>4, <2>5, <2>6 DEF Changes
  <1>3. CASE Sweeps
    <2>1. ASSUME NEW r \in Stored
          PROVE  \/ requests'[r] = requests[r]
                 \/ /\ requests'[r].state \notin ReplayBlockingStates
                    /\ requests[r].state \notin ReplayBlockingStates
      <3>1. requests[r] \in Row
        BY DEF TypeOK
      <3> QED BY <1>3, <3>1 DEF Sweeps, Fails, Failed, Row, ReplayBlockingStates, PendingStates
    <2>2. BlockingRows' = BlockingRows
      BY <1>3, <2>1 DEF Sweeps, BlockingRows, Stored
    <2> QED BY <2>1, <2>2, SameClaims DEF BlockingRows
  <1>4. CASE Ticks
    BY <1>4, SameClaims DEF Ticks, BlockingRows, Stored
  <1> QED BY <1>1, <1>2, <1>3, <1>4, StepShapes

\* The store is an implementation of the abstract write ledger.
THEOREM StoreImplementsLedger == StoreSpec => ImplementsLedger
  <1>1. StoreInit => Ledger!Init
    BY DEF StoreInit, Ledger!Init, BlockingRows, Stored
  <1>2. StoreInv /\ [StoreNext]_storeVars => [Ledger!Next]_Claims
    BY LedgerStep
  <1> QED BY <1>1, <1>2, StoreInvInductive, PTL
          DEF StoreSpec, ImplementsLedger, Ledger!Spec, Claims

(***************************************************************************)
(* The executor.                                                           *)
(***************************************************************************)
Labels == Awaiting \cup Running

\* What a task does by itself or for a caller: it moves that task alone.
TaskAction(t) == Begin(t) \/ Continue(t) \/ Cancel(t)

\* What a task that is not idle knows of its own request and variables.
Local ==
    \A t \in Tasks :
        /\ pc[t] = "preview" =>
              /\ Job(t) \in RequestIds \ Stored
              /\ frame[t].draft \in Bindings
              /\ frame[t].draft.revision.proc = Home[t]
              /\ frame[t].draft.revision.key = key[Home[t]]
              /\ \A u \in Tasks \ {t} : pc[u] = "preview" => Job(u) # Job(t)
        /\ pc[t] \notin {"idle", "preview"} => Job(t) \in Stored
        /\ pc[t] = "invalidate" => frame[t].plan \in InvalidationReasons
        /\ pc[t] = "complete" => frame[t].plan \in Outcomes
        /\ pc[t] = "resolve" => frame[t].plan \in {"succeeded", "failed"}

(***************************************************************************)
(* One task moves, and the world around it stays.                          *)
(***************************************************************************)
LEMMA MoveEffect ==
    ASSUME ExecutorTypeOK, NEW t \in Tasks, NEW l, NEW f, Move(t, l, f)
    PROVE  /\ pc'[t] = l /\ frame'[t] = f
           /\ \A u \in Tasks \ {t} : pc'[u] = pc[u] /\ frame'[u] = frame[u]
    BY DEF Move, ExecutorTypeOK

\* Each form of a move, read at the task that makes it.
LEMMA MoveForms ==
    ASSUME ExecutorTypeOK, NEW t \in Tasks
    PROVE  /\ \A l : GoTo(t, l) => pc'[t] = l /\ frame'[t] = frame[t]
           /\ \A l, r : Start(t, l, r) => pc'[t] = l /\ frame'[t].job = r
           /\ \A l, x : Plan(t, l, x) => /\ pc'[t] = l /\ frame'[t].plan = x
                                        /\ frame'[t].job = Job(t)
                                        /\ frame'[t].auth = frame[t].auth
           /\ Return(t) => pc'[t] = "idle"
  <1>1. frame[t] \in Frame
    BY DEF ExecutorTypeOK
  <1>2. \A l, r : Start(t, l, r) => pc'[t] = l /\ frame'[t].job = r
    BY MoveEffect DEF Start, EmptyFrame
  <1>3. \A l, x : Plan(t, l, x) => /\ pc'[t] = l /\ frame'[t].plan = x
                                  /\ frame'[t].job = Job(t)
                                  /\ frame'[t].auth = frame[t].auth
    BY <1>1, MoveEffect DEF Plan, Frame, Job
  <1> QED BY <1>2, <1>3, MoveEffect DEF GoTo, Return

\* The three steps that note something in the frame on their way.
LEMMA NotingMoves ==
    ASSUME ExecutorTypeOK, NEW t \in Tasks
    PROVE  /\ ExecuteSnapshot(t) =>
                 /\ pc[t] = "snapshot" /\ frame'[t].job = Job(t)
                 /\ \/ /\ pc'[t] = "auth" /\ frame'[t].auth = secret
                       /\ CredentialsUnchanged(t)
                    \/ pc'[t] = "invalidate" /\ frame'[t].plan = "preview_invalidated"
           /\ ExecuteAuth(t) =>
                 /\ pc[t] = "auth"
                 /\ \/ /\ pc'[t] \in {"preflight", "recheck", "fail"}
                       /\ frame'[t].job = Job(t) /\ frame'[t].auth = frame[t].auth
                    \/ pc'[t] = "idle"
           /\ PreflightAnswer(t) =>
                 /\ pc[t] = "probing"
                 /\ \/ /\ pc'[t] \in {"preflight", "recheck", "fail"}
                       /\ frame'[t].job = Job(t) /\ frame'[t].auth = frame[t].auth
                    \/ pc'[t] = "idle"
  <1>1. frame[t] \in Frame
    BY DEF ExecutorTypeOK
  <1>2. ASSUME ExecuteSnapshot(t), CredentialsUnchanged(t)
        PROVE  pc'[t] = "auth" /\ frame'[t].auth = secret /\ frame'[t].job = Job(t)
    <2>1. Move(t, "auth", [frame[t] EXCEPT !.auth = secret])
      BY <1>2 DEF ExecuteSnapshot
    <2>2. pc'[t] = "auth" /\ frame'[t] = [frame[t] EXCEPT !.auth = secret]
      BY <2>1, MoveEffect
    <2> QED BY <1>1, <2>2 DEF Frame, Job
  <1>3. ASSUME NEW l, NEW n, Move(t, l, [frame[t] EXCEPT !.step = n])
        PROVE  pc'[t] = l /\ frame'[t].job = Job(t) /\ frame'[t].auth = frame[t].auth
    <2>1. pc'[t] = l /\ frame'[t] = [frame[t] EXCEPT !.step = n]
      BY <1>3, MoveEffect
    <2> QED BY <1>1, <2>1 DEF Frame, Job
  <1>4. ASSUME ExecuteAuth(t)
        PROVE  \/ /\ pc'[t] \in {"preflight", "recheck", "fail"}
                  /\ frame'[t].job = Job(t) /\ frame'[t].auth = frame[t].auth
               \/ pc'[t] = "idle"
    <2>1. CASE Move(t, IF Preflights = 0 THEN "recheck" ELSE "preflight",
                    [frame[t] EXCEPT !.step = 1])
      BY <1>3, <2>1
    <2> QED BY <1>4, <2>1, MoveForms DEF ExecuteAuth, Job
  <1>5. ASSUME PreflightAnswer(t)
        PROVE  \/ /\ pc'[t] \in {"preflight", "recheck", "fail"}
                  /\ frame'[t].job = Job(t) /\ frame'[t].auth = frame[t].auth
               \/ pc'[t] = "idle"
    <2>1. CASE Move(t, "preflight", [frame[t] EXCEPT !.step = @ + 1])
      BY <1>3, <2>1
    <2> QED BY <1>5, <2>1, MoveForms DEF PreflightAnswer, Job
  <1> QED BY <1>2, <1>4, <1>5, MoveForms
          DEF ExecuteSnapshot, ExecuteAuth, PreflightAnswer, Resumes

Moves(t) == \E l \in Labels, f \in Frame : Move(t, l, f)

\* A draft is a binding.
LEMMA DraftType ==
    ASSUME ExecutorTypeOK, NEW p \in Procs, NEW x \in Payloads, NEW c \in Classes,
           NEW n \in Connectors, NEW e \in Environments
    PROVE  Draft(p, x, c, n, e) \in Bindings
    BY DEF ExecutorTypeOK, Draft, Bindings, Revision, Revisions

\* The updates the executor makes leave a frame a frame.
LEMMA FrameUpdates ==
    ASSUME NEW f \in Frame
    PROVE  /\ EmptyFrame \in Frame
           /\ \A r \in RequestIds : [EmptyFrame EXCEPT !.job = r] \in Frame
           /\ \A r \in RequestIds, d \in Bindings :
                 [EmptyFrame EXCEPT !.job = r, !.draft = d] \in Frame
           /\ \A x \in Outcomes \cup InvalidationReasons : [f EXCEPT !.plan = x] \in Frame
           /\ \A s \in Secrets : [f EXCEPT !.auth = s] \in Frame
           /\ \A n \in Nat : [f EXCEPT !.step = n] \in Frame
    BY DEF Frame, EmptyFrame

\* Every action of a task is a move of that task.
LEMMA TaskMoves ==
    ASSUME ExecutorTypeOK, Local, NEW t \in Tasks, TaskAction(t)
    PROVE  Moves(t) /\ UNCHANGED <<catalog, key, secret, wire>>
  <1> USE DEF Labels, Running, Auditing, Awaiting
  <1>0. frame[t] \in Frame /\ Home[t] \in Procs /\ EmptyFrame \in Frame /\ Stored \subseteq RequestIds
        /\ Job(t) \in RequestIds \cup {None}
    BY ExecutorAssumption, FrameUpdates DEF ExecutorTypeOK, TypeOK, Job, Frame
  <1>1. CASE Begin(t)
    <2>1. ASSUME NEW r \in RequestIds, NEW x \in Payloads, NEW c \in Classes,
                 NEW n \in Connectors, NEW e \in Environments, PreviewBegin(t, r, x, c, n, e)
          PROVE  Moves(t) /\ UNCHANGED <<catalog, key, secret, wire>>
      BY <1>0, <2>1, DraftType, FrameUpdates DEF PreviewBegin, Moves, worldVars
    <2>2. ASSUME NEW r \in Stored, \/ ConfirmBegin(t, r)
                                   \/ ApproveAndExecute(t, r, requests[r].payload_hash,
                                         requests[r].payload_hash.mutation_class)
                                   \/ ExecuteBegin(t, r)
                                   \/ ResolveBegin(t, r)
          PROVE  Moves(t) /\ UNCHANGED <<catalog, key, secret, wire>>
      <3>1. [EmptyFrame EXCEPT !.job = r] \in Frame
        BY <1>0, FrameUpdates
      <3> QED BY <2>2, <3>1 DEF ConfirmBegin, ApproveAndExecute, ExecuteBegin, ResolveBegin,
            Moves, Start, worldVars
    <2> QED BY <1>1, <2>1, <2>2 DEF Begin
  <1>2. CASE PreviewCreate(t) \/ ConfirmApprove(t) \/ ExecuteApproved(t) \/ SendRaises(t)
             \/ ExecuteComplete(t) \/ ExecuteFail(t) \/ TaskInvalidate(t) \/ ResolveRecord(t)
             \/ Cancel(t)
    <2>1. pc[t] = "preview" => [EmptyFrame EXCEPT !.job = Job(t)] \in Frame
      BY <1>0, FrameUpdates DEF Local
    <2> QED BY <1>0, <1>2, <2>1
       DEF PreviewCreate, ConfirmApprove, ExecuteApproved, SendRaises, ExecuteComplete,
           ExecuteFail, TaskInvalidate, ResolveRecord, Cancel, Moves, Return, GoTo, Start, worldVars
  <1>3. CASE AuditRequest(t) \/ ExecuteValidate(t) \/ ExecuteSnapshot(t) \/ ExecuteAuth(t)
             \/ PreflightSend(t) \/ PreflightAnswer(t) \/ ExecuteRecheck(t)
    <2>1. /\ \A x \in {"audit_failed", "preview_invalidated"} : [frame[t] EXCEPT !.plan = x] \in Frame
          /\ [frame[t] EXCEPT !.auth = secret] \in Frame
          /\ [frame[t] EXCEPT !.step = 1] \in Frame
          /\ [frame[t] EXCEPT !.step = @ + 1] \in Frame
      <3>1. frame[t].step \in Nat /\ frame[t].step + 1 \in Nat /\ secret \in Secrets
        BY <1>0 DEF ExecutorTypeOK, Frame
      <3> QED BY <1>0, <3>1, FrameUpdates DEF InvalidationReasons
    <2>2. CASE AuditRequest(t) \/ ExecuteValidate(t) \/ ExecuteSnapshot(t)
      BY <1>0, <2>1, <2>2
         DEF AuditRequest, ExecuteValidate, ExecuteSnapshot, Moves, Return, GoTo, Plan,
             worldVars
    <2>3. CASE ExecuteAuth(t) \/ PreflightSend(t) \/ PreflightAnswer(t) \/ ExecuteRecheck(t)
      BY <1>0, <2>1, <2>3 DEF ExecuteAuth, PreflightSend, PreflightAnswer, ExecuteRecheck,
         Moves, Return, GoTo, Plan, worldVars
    <2> QED BY <1>3, <2>2, <2>3
  <1>4. CASE ExecuteStart(t) \/ AuditDispatch(t) \/ SendReturns(t) \/ StatusAnswer(t)
    <2>1. \A x \in Outcomes : [frame[t] EXCEPT !.plan = x] \in Frame
      BY <1>0, FrameUpdates
    <2>2. SendOutcomes(wire[Job(t)]) \subseteq Outcomes \/ pc[t] # "sending"
      <3>1. pc[t] = "sending" => Job(t) \in RequestIds
        BY <1>0 DEF Local
      <3> QED BY <3>1 DEF SendOutcomes, Outcomes, ExecutorTypeOK, WireStates
    <2>3. StatusOutcomes(wire[Job(t)]) \subseteq Outcomes
      BY DEF StatusOutcomes, Outcomes
    <2> QED BY <1>0, <1>4, <2>1, <2>2, <2>3
       DEF ExecuteStart, AuditDispatch, SendReturns, StatusAnswer, Moves, Return, GoTo, Plan,
           worldVars, Outcomes, Resumes
  <1> QED BY <1>1, <1>2, <1>3, <1>4 DEF TaskAction, Continue

\* What the step of a task does to the table.
StoreEffect(t) ==
    \/ UNCHANGED storeVars
    \/ /\ pc[t] = "preview" /\ pc'[t] = "audit_preview" /\ frame'[t].job = Job(t)
       /\ CreatePreview(Job(t), frame[t].draft)
    \/ /\ pc[t] = "idle" /\ pc'[t] = "confirm"
       /\ \E r \in Stored : Get(r)
    \/ /\ pc[t] \in {"idle", "confirm"}
       /\ pc'[t] \in {"audit_confirmation", "audit_approval"}
       /\ \E r \in Stored :
             /\ frame'[t].job = r
             /\ Approve(r, requests[r].payload_hash, requests[r].payload_hash.mutation_class)
    \/ /\ pc[t] = "starting" /\ pc'[t] = "audit_dispatch" /\ frame'[t] = frame[t]
       /\ StartExecution(Job(t))
    \/ /\ pc'[t] = "idle"
       /\ \/ pc[t] = "complete" /\ Complete(Job(t), frame[t].plan)
          \/ pc[t] = "fail" /\ FailBeforeDispatch(Job(t))
          \/ pc[t] = "invalidate" /\ Invalidate(Job(t), frame[t].plan)
          \/ pc[t] = "resolve" /\ ResolveOutcomeUnknown(Job(t), frame[t].plan)

\* The actions of a task read as store calls.
LEMMA TaskStoreEffect ==
    ASSUME ExecutorTypeOK, Local, NEW t \in Tasks, TaskAction(t)
    PROVE  StoreEffect(t)
  <1>1. CASE Begin(t)
    <2>1. ASSUME NEW r \in Stored, ConfirmBegin(t, r) PROVE StoreEffect(t)
      BY <2>1, MoveForms DEF ConfirmBegin, StoreEffect, Ready
    <2>2. ASSUME NEW r \in Stored,
                 ApproveAndExecute(t, r, requests[r].payload_hash,
                                   requests[r].payload_hash.mutation_class)
          PROVE StoreEffect(t)
      BY <2>2, MoveForms DEF ApproveAndExecute, StoreEffect, Ready
    <2> QED BY <1>1, <2>1, <2>2
            DEF Begin, PreviewBegin, ExecuteBegin, ResolveBegin, StoreEffect
  <1>2. CASE PreviewCreate(t)
    BY <1>2, MoveForms DEF PreviewCreate, StoreEffect
  <1>3. CASE ConfirmApprove(t)
    <2>1. Job(t) \in Stored \/ pc[t] # "confirm"
      BY DEF Local
    <2> QED BY <1>3, <2>1, MoveForms DEF ConfirmApprove, StoreEffect, Bound, Job
  <1>4. CASE ExecuteStart(t)
    BY <1>4, MoveForms DEF ExecuteStart, StoreEffect
  <1>5. CASE ExecuteComplete(t) \/ ExecuteFail(t) \/ TaskInvalidate(t) \/ ResolveRecord(t)
    BY <1>5, MoveForms DEF ExecuteComplete, ExecuteFail, TaskInvalidate, ResolveRecord,
                      StoreEffect
  <1> QED BY <1>1, <1>2, <1>3, <1>4, <1>5
          DEF TaskAction, Continue, StoreEffect, Cancel, AuditRequest, ExecuteApproved,
              ExecuteValidate, ExecuteSnapshot, ExecuteAuth, PreflightSend, PreflightAnswer,
              ExecuteRecheck, AuditDispatch, SendReturns, SendRaises, StatusAnswer

(***************************************************************************)
(* The executor changes the table only through the store's methods.        *)
(***************************************************************************)
LEMMA StoreStep ==
    ASSUME ExecutorTypeOK, Local, [Next]_vars
    PROVE  [StoreNext]_storeVars
  <1>0. /\ Stored \subseteq RequestIds
        /\ \A r \in Stored : /\ requests[r].payload_hash \in Hashes
                             /\ requests[r].payload_hash.mutation_class \in Classes
    BY StoreAssumption DEF ExecutorTypeOK, TypeOK, Row
  <1>1. ASSUME NEW t \in Tasks, TaskAction(t) PROVE [StoreNext]_storeVars
    <2>0. StoreEffect(t)
      BY <1>1, TaskStoreEffect
    <2>1. CASE pc[t] = "preview" /\ CreatePreview(Job(t), frame[t].draft)
      <3>1. Job(t) \in RequestIds /\ frame[t].draft \in Hashes
        BY <2>1, ExecutorAssumption DEF Local
      <3> QED BY <2>1, <3>1 DEF StoreNext, StoreOp
    <2>2. ASSUME NEW r \in Stored,
                 \/ Get(r)
                 \/ Approve(r, requests[r].payload_hash, requests[r].payload_hash.mutation_class)
          PROVE  StoreNext
      BY <1>0, <2>2 DEF StoreNext, StoreOp
    <2>3. CASE \/ pc[t] = "starting" /\ StartExecution(Job(t))
               \/ pc[t] = "complete" /\ Complete(Job(t), frame[t].plan)
               \/ pc[t] = "fail" /\ FailBeforeDispatch(Job(t))
               \/ pc[t] = "invalidate" /\ Invalidate(Job(t), frame[t].plan)
               \/ pc[t] = "resolve" /\ ResolveOutcomeUnknown(Job(t), frame[t].plan)
      <3>1. /\ Job(t) \in Stored
            /\ pc[t] = "invalidate" => frame[t].plan \in InvalidationReasons
            /\ pc[t] \in {"complete", "resolve"} => frame[t].plan \in Outcomes
        BY <2>3 DEF Local, Outcomes
      <3> QED BY <2>3, <3>1 DEF StoreNext, StoreOp
    <2> QED BY <2>0, <2>1, <2>2, <2>3 DEF StoreEffect
  <1>2. CASE StoreCall
    BY <1>2 DEF StoreCall, StoreNext, StoreOp
  <1>3. CASE \/ \E t \in Tasks : Transmit(t)
             \/ \E r \in RequestIds : ProviderDecides(r)
             \/ \E p \in Procs : ReplaceCatalog(p) \/ Restart(p)
             \/ SaveCredentials
             \/ UNCHANGED vars
    BY <1>3
       DEF Transmit, ProviderDecides, ReplaceCatalog, Restart, SaveCredentials, vars, storeVars
  <1> QED BY <1>1, <1>2, <1>3 DEF Next, TaskAction

(***************************************************************************)
(* How a task comes to be where it is after its step.                      *)
(***************************************************************************)
Arrives(t) ==
    /\ pc'[t] \notin Awaiting => pc[t] \notin Awaiting \/ LoopFree(Home[t], t)
    /\ pc'[t] = "preview" =>
          /\ UNCHANGED storeVars
          /\ frame'[t].job \in RequestIds \ Stored
          /\ \A u \in Tasks : Job(u) # frame'[t].job
          /\ frame'[t].draft \in Bindings
          /\ frame'[t].draft.revision.proc = Home[t]
          /\ frame'[t].draft.revision.key = key[Home[t]]
    /\ pc'[t] \notin {"idle", "preview"} =>
          \/ frame'[t].job \in Stored
          \/ /\ pc[t] = "preview" /\ pc'[t] = "audit_preview" /\ frame'[t].job = Job(t)
             /\ CreatePreview(Job(t), frame[t].draft)
    /\ pc'[t] = "invalidate" =>
          frame'[t].plan \in InvalidationReasons
    /\ pc'[t] = "complete" => frame'[t].plan \in Outcomes
    /\ pc'[t] = "resolve" => frame'[t].plan \in {"succeeded", "failed"}

\* Proved action by action.
LEMMA TaskArrives ==
    ASSUME ExecutorTypeOK, Local, NEW t \in Tasks, TaskAction(t)
    PROVE  Arrives(t)
  <1>0. /\ frame[t] \in Frame
        /\ pc[t] \notin {"idle", "preview"} => Job(t) \in Stored
    BY DEF ExecutorTypeOK, Local
  <1> USE DEF Awaiting
  <1>1. ASSUME NEW r \in RequestIds, NEW x \in Payloads, NEW c \in Classes,
               NEW n \in Connectors, NEW e \in Environments, PreviewBegin(t, r, x, c, n, e)
        PROVE  Arrives(t)
    <2> DEFINE d == Draft(Home[t], x, c, n, e)
    <2>1. d \in Bindings /\ d.revision.proc = Home[t] /\ d.revision.key = key[Home[t]]
      <3>1. d \in Bindings
        BY DraftType, ExecutorAssumption
      <3> QED BY <3>1 DEF Draft, Revision
    <2> HIDE DEF d
    <2>2. pc'[t] = "preview" /\ frame'[t].job = r /\ frame'[t].draft = d
      <3>1. Move(t, "preview", [EmptyFrame EXCEPT !.job = r, !.draft = d])
        BY <1>1 DEF PreviewBegin, d
      <3>2. pc'[t] = "preview" /\ frame'[t] = [EmptyFrame EXCEPT !.job = r, !.draft = d]
        BY <3>1, MoveEffect
      <3> QED BY <3>2 DEF EmptyFrame
    <2> QED BY <1>1, <2>1, <2>2 DEF PreviewBegin, Ready, Arrives
  <1>2. ASSUME NEW r \in Stored,
               \/ ConfirmBegin(t, r)
               \/ ApproveAndExecute(t, r, requests[r].payload_hash,
                                    requests[r].payload_hash.mutation_class)
               \/ ExecuteBegin(t, r)
               \/ ResolveBegin(t, r)
        PROVE  Arrives(t)
    BY <1>2, MoveForms DEF ConfirmBegin, ApproveAndExecute, ExecuteBegin, ResolveBegin,
       Ready, Arrives
  <1>3. CASE \/ PreviewCreate(t) \/ ConfirmApprove(t) \/ ExecuteApproved(t) \/ SendRaises(t)
             \/ ExecuteComplete(t) \/ ExecuteFail(t) \/ TaskInvalidate(t) \/ ResolveRecord(t)
             \/ Cancel(t)
    BY <1>3, <1>0, MoveForms DEF PreviewCreate, ConfirmApprove, ExecuteApproved, SendRaises,
       ExecuteComplete, ExecuteFail, TaskInvalidate, ResolveRecord, Cancel, Arrives,
       Job
  <1>4. CASE AuditRequest(t) \/ ExecuteValidate(t) \/ ExecuteRecheck(t) \/ PreflightSend(t)
    BY <1>4, <1>0, MoveForms DEF AuditRequest, ExecuteValidate, ExecuteRecheck, PreflightSend,
       Auditing, Arrives, Job, InvalidationReasons
  <1>5. CASE ExecuteSnapshot(t) \/ ExecuteAuth(t) \/ PreflightAnswer(t)
    BY <1>5, <1>0, NotingMoves DEF ExecuteAuth, PreflightAnswer, Resumes, Arrives,
       InvalidationReasons
  <1>6. CASE ExecuteStart(t) \/ AuditDispatch(t) \/ SendReturns(t) \/ StatusAnswer(t)
    <2>1. pc[t] = "sending" => SendOutcomes(wire[Job(t)]) \subseteq Outcomes
      BY <1>0 DEF SendOutcomes, Outcomes, ExecutorTypeOK, TypeOK, WireStates
    <2>2. StatusOutcomes(wire[Job(t)]) \subseteq {"succeeded", "failed"}
      BY DEF StatusOutcomes
    <2> QED BY <1>6, <1>0, MoveForms, <2>1, <2>2
            DEF ExecuteStart, AuditDispatch, SendReturns, StatusAnswer, Resumes,
                Arrives, Job, Outcomes
  <1> QED BY <1>1, <1>2, <1>3, <1>4, <1>5, <1>6 DEF TaskAction, Begin, Continue

\* Rows come from previews only, and none ever goes away.
LEMMA StoredChange ==
    ASSUME ExecutorTypeOK, Local, NEW t \in Tasks, TaskAction(t)
    PROVE  \/ Stored' = Stored
           \/ /\ pc[t] = "preview" /\ pc'[t] = "audit_preview" /\ frame'[t].job = Job(t)
              /\ Stored' = Stored \cup {Job(t)}
  <1>0. requests \in [Stored -> Row]
    BY DEF ExecutorTypeOK, TypeOK
  <1>1. StoreEffect(t)
    BY TaskStoreEffect
  <1> QED BY <1>0, <1>1 DEF StoreEffect, storeVars, Stored, CreatePreview, Get, Approve,
       StartExecution, Complete, FailBeforeDispatch, Invalidate, ResolveOutcomeUnknown, Store

\* Calls from outside the tasks add no row.
LEMMA CallKeepsRows ==
    ASSUME ExecutorTypeOK, StoreCall
    PROVE  Stored' = Stored
    BY DEF ExecutorTypeOK, TypeOK, StoreCall, Stored, Get, InvalidatePending, Tick, Store

\* Everything but a task's own step leaves the tasks where they are, except
\* that a restart sends those of its process back to idle.
EnvironmentStep ==
    \/ \E t \in Tasks : Transmit(t)
    \/ \E r \in RequestIds : ProviderDecides(r)
    \/ \E p \in Procs : ReplaceCatalog(p)
    \/ SaveCredentials
    \/ UNCHANGED vars

\* The four kinds of steps the proofs below distinguish.
LEMMA StepKinds ==
    ASSUME [Next]_vars
    PROVE  \/ \E t \in Tasks : TaskAction(t)
           \/ \E p \in Procs : Restart(p)
           \/ StoreCall
           \/ EnvironmentStep
    BY DEF Next, TaskAction, EnvironmentStep

(***************************************************************************)
(* The audit ledger only grows, and what a task at an audit step does.     *)
(***************************************************************************)
LedgerEffect(t) ==
    /\ ledger \subseteq ledger'
    /\ ledger' \subseteq Events \X RequestIds
    /\ pc[t] \in Auditing =>
          /\ UNCHANGED storeVars
          /\ \/ <<AuditEvent(pc[t]), Job(t)>> \in ledger'
             \/ pc'[t] = "invalidate" /\ frame'[t].job = Job(t)
    /\ pc'[t] = "sending" => <<"dispatch_started", Job(t)>> \in ledger'

\* Only the two audit actions write the ledger.
LEMMA TaskLedgerEffect ==
    ASSUME ExecutorTypeOK, Local, NEW t \in Tasks, TaskAction(t)
    PROVE  LedgerEffect(t)
  <1>0. ledger \subseteq Events \X RequestIds /\ Stored \subseteq RequestIds
    BY DEF ExecutorTypeOK, TypeOK
  <1>1. CASE AuditRequest(t)
    <2>1. AuditEvent(pc[t]) \in Events /\ Job(t) \in RequestIds
      BY <1>0, <1>1 DEF AuditRequest, AuditEvent, Auditing, Events, Local
    <2> HIDE DEF AuditEvent
    <2> QED BY <1>0, <1>1, <2>1, MoveForms DEF AuditRequest, Record, LedgerEffect, Auditing
  <1>2. CASE AuditDispatch(t)
    <2>1. Job(t) \in RequestIds
      BY <1>0, <1>2 DEF AuditDispatch, Local
    <2> QED BY <1>0, <1>2, <2>1, MoveForms
       DEF AuditDispatch, Record, LedgerEffect, Auditing, Events
  <1>3. CASE TaskAction(t) /\ ~AuditRequest(t) /\ ~AuditDispatch(t)
    <2>1. UNCHANGED ledger /\ pc[t] \notin Auditing
      BY <1>3, ExecutorAssumption
         DEF TaskAction, Begin, Continue, PreviewBegin, ConfirmBegin, ApproveAndExecute,
             ExecuteBegin, ResolveBegin, Ready, Resumes, Auditing, PreviewCreate, ConfirmApprove,
             ExecuteApproved, ExecuteValidate, ExecuteSnapshot, ExecuteAuth, PreflightSend,
             PreflightAnswer, ExecuteRecheck, ExecuteStart, SendReturns, SendRaises,
             ExecuteComplete, ExecuteFail, TaskInvalidate, StatusAnswer, ResolveRecord, Cancel
    <2>2. pc'[t] # "sending"
      <3>1. CASE Begin(t)
        <4>1. ASSUME NEW r \in RequestIds, NEW x \in Payloads, NEW c \in Classes,
                     NEW n \in Connectors, NEW e \in Environments,
                     PreviewBegin(t, r, x, c, n, e)
              PROVE  pc'[t] = "preview"
          BY <4>1, MoveEffect DEF PreviewBegin
        <4> QED BY <3>1, <4>1, MoveForms
                DEF Begin, ConfirmBegin, ApproveAndExecute, ExecuteBegin, ResolveBegin
      <3>2. CASE Continue(t) \/ Cancel(t)
        BY <1>3, <3>2, MoveForms, NotingMoves
           DEF Continue, PreviewCreate, ConfirmApprove,
               ExecuteApproved, ExecuteValidate, PreflightSend, ExecuteRecheck, ExecuteStart, SendReturns, SendRaises,
               ExecuteComplete, ExecuteFail, TaskInvalidate, StatusAnswer, ResolveRecord, Cancel
      <3> QED BY <3>1, <3>2 DEF TaskAction
    <2> QED BY <1>0, <2>1, <2>2 DEF LedgerEffect
  <1> QED BY <1>1, <1>2, <1>3

-----------------------------------------------------------------------------
(***************************************************************************)
(* The base invariant: types, what a task knows of its request, and that   *)
(* an event loop runs one task at a time.                                  *)
(***************************************************************************)
LoopExclusive ==
    \A t, u \in Tasks :
        t # u /\ Home[t] = Home[u] => pc[t] \in Awaiting \/ pc[u] \in Awaiting

Base == ExecutorTypeOK /\ Local /\ LoopExclusive /\ StoreInv

\* The base invariant holds at the start.
LEMMA BaseInit == Init => Base
  <1> SUFFICES ASSUME Init PROVE Base
    OBVIOUS
  <1>1. StoreInv
    BY StoreInvInductive DEF Init
  <1>2. ExecutorTypeOK
    <2>1. EmptyFrame \in Frame
      BY DEF EmptyFrame, Frame
    <2> QED BY <1>1, <2>1, ExecutorAssumption
            DEF Init, ExecutorTypeOK, StoreInv, Awaiting, WireStates
  <1>3. Local /\ LoopExclusive
    BY DEF Init, Local, LoopExclusive, Awaiting
  <1> QED BY <1>1, <1>2, <1>3 DEF Base

\* Types are kept, and every step is a step of the store.
LEMMA TypeNext ==
    ASSUME Base, [Next]_vars
    PROVE  ExecutorTypeOK' /\ StoreInv' /\ [StoreNext]_storeVars
  <1>0. ExecutorTypeOK /\ Local /\ StoreInv
    BY DEF Base
  <1>1. [StoreNext]_storeVars /\ StoreInv'
    BY <1>0, StoreStep, StoreInvInductive
  <1>2. TypeOK'
    BY <1>1 DEF StoreInv
  <1> SUFFICES ExecutorTypeOK'
    BY <1>1
  <1>3. ASSUME NEW t \in Tasks, TaskAction(t) PROVE ExecutorTypeOK'
    <2>1. Moves(t) /\ UNCHANGED <<catalog, key, secret, wire>>
      BY <1>0, <1>3, TaskMoves
    <2>2. ledger' \subseteq Events \X RequestIds
      BY <1>0, <1>3, TaskLedgerEffect DEF LedgerEffect
    <2> QED BY <1>0, <1>2, <2>1, <2>2 DEF ExecutorTypeOK, Moves, Move, Labels
  <1>4. ASSUME NEW p \in Procs, Restart(p) PROVE ExecutorTypeOK'
    <2>1. EmptyFrame \in Frame
      BY DEF EmptyFrame, Frame
    <2> QED BY <1>0, <1>2, <1>4, <2>1, ExecutorAssumption DEF ExecutorTypeOK, Restart, Awaiting
  <1>5. CASE StoreCall
    BY <1>0, <1>2, <1>5 DEF StoreCall, ExecutorTypeOK, worldVars, taskVars
  <1>6. CASE EnvironmentStep
    <2>1. CASE \E t \in Tasks : Transmit(t)
      BY <1>0, <1>2, <2>1 DEF Transmit, ExecutorTypeOK, worldVars, taskVars, WireStates
    <2>2. CASE \E r \in RequestIds : ProviderDecides(r)
      BY <1>0, <1>2, <2>2 DEF ProviderDecides, ExecutorTypeOK, worldVars, taskVars, WireStates
    <2>3. CASE \E p \in Procs : ReplaceCatalog(p)
      BY <1>0, <1>2, <2>3 DEF ReplaceCatalog, ExecutorTypeOK, taskVars
    <2>4. CASE SaveCredentials
      BY <1>0, <1>2, <2>4 DEF SaveCredentials, ExecutorTypeOK, taskVars
    <2>5. CASE UNCHANGED vars
      BY <1>0, <1>2, <2>5 DEF vars, ExecutorTypeOK
    <2> QED BY <1>6, <2>1, <2>2, <2>3, <2>4, <2>5 DEF EnvironmentStep
  <1> QED BY <1>3, <1>4, <1>5, <1>6, StepKinds

\* What tasks know of their requests stays true, whoever moves.
LEMMA LocalNext ==
    ASSUME Base, [Next]_vars
    PROVE  Local' /\ LoopExclusive'
  <1>0. ExecutorTypeOK /\ Local /\ LoopExclusive
    BY DEF Base
  <1>1. ASSUME NEW t \in Tasks, TaskAction(t) PROVE Local' /\ LoopExclusive'
    <2>1. /\ \A u \in Tasks \ {t} : pc'[u] = pc[u] /\ frame'[u] = frame[u]
          /\ UNCHANGED key
      BY <1>0, <1>1, TaskMoves, MoveEffect DEF Moves
    <2>2. Arrives(t)
      BY <1>0, <1>1, TaskArrives
    <2>3. \/ Stored' = Stored
          \/ /\ pc[t] = "preview" /\ pc'[t] = "audit_preview" /\ frame'[t].job = Job(t)
             /\ Stored' = Stored \cup {Job(t)}
      BY <1>0, <1>1, StoredChange
    <2>4. LoopExclusive'
      <3>1. pc'[t] \notin Awaiting => \A u \in Tasks \ {t} : Home[u] = Home[t] => pc[u] \in Awaiting
        BY <1>0, <2>2 DEF LoopExclusive, Arrives, LoopFree
      <3> QED BY <1>0, <2>1, <3>1 DEF LoopExclusive
    <2>5. Local'
      <3> SUFFICES ASSUME NEW u \in Tasks
                   PROVE  /\ pc'[u] = "preview" =>
                             /\ frame'[u].job \in RequestIds \ Stored'
                             /\ frame'[u].draft \in Bindings
                             /\ frame'[u].draft.revision.proc = Home[u]
                             /\ frame'[u].draft.revision.key = key'[Home[u]]
                             /\ \A v \in Tasks \ {u} : pc'[v] = "preview" => frame'[v].job # frame'[u].job
                          /\ pc'[u] \notin {"idle", "preview"} => frame'[u].job \in Stored'
                          /\ pc'[u] = "invalidate" => frame'[u].plan \in InvalidationReasons
                          /\ pc'[u] = "complete" => frame'[u].plan \in Outcomes
                          /\ pc'[u] = "resolve" => frame'[u].plan \in {"succeeded", "failed"}
        BY DEF Local, Job
      <3>1. CASE u = t
        <4>1. pc'[t] \notin {"idle", "preview"} => frame'[t].job \in Stored'
          BY <2>2, <2>3 DEF Arrives, CreatePreview, Stored
        <4>2. pc'[t] = "preview" =>
                /\ frame'[t].job \in RequestIds \ Stored'
                /\ \A v \in Tasks \ {t} : frame'[v].job # frame'[t].job
          BY <2>1, <2>2, <2>3 DEF Arrives, Job
        <4> QED BY <2>1, <2>2, <3>1, <4>1, <4>2 DEF Arrives
      <3>2. CASE u # t
        BY <1>0, <2>1, <2>2, <2>3, <3>2 DEF Local, Arrives, Job
      <3> QED BY <3>1, <3>2
    <2> QED BY <2>4, <2>5
  <1>2. ASSUME NEW p \in Procs, Restart(p) PROVE Local' /\ LoopExclusive'
    <2>1. /\ requests' = requests
          /\ \A t \in Tasks : \/ pc'[t] = "idle"
                              \/ Home[t] # p /\ pc'[t] = pc[t] /\ frame'[t] = frame[t]
          /\ \A q \in Procs \ {p} : key'[q] = key[q]
      BY <1>0, <1>2 DEF Restart, ExecutorTypeOK, storeVars
    <2>2. Home \in [Tasks -> Procs]
      BY ExecutorAssumption
    <2> QED BY <1>0, <2>1, <2>2 DEF Local, LoopExclusive, Awaiting, Job, Stored
  <1>3. CASE StoreCall
    BY <1>0, <1>3, CallKeepsRows
       DEF StoreCall, worldVars, taskVars, Local, LoopExclusive, Job
  <1>4. CASE EnvironmentStep
    BY <1>0, <1>4
       DEF EnvironmentStep, Transmit, ProviderDecides, ReplaceCatalog, SaveCredentials, vars,
           storeVars, worldVars, taskVars, Local, LoopExclusive, Job, Stored
  <1> QED BY <1>1, <1>2, <1>3, <1>4, StepKinds

\* The base invariant is inductive.
LEMMA BaseNext == Base /\ [Next]_vars => Base'
    BY TypeNext, LocalNext DEF Base

\* Every variable of the executor keeps its type.
THEOREM ExecutorTypeCorrect == Spec => []ExecutorTypeOK
  <1>1. Base => ExecutorTypeOK
    BY DEF Base
  <1> QED BY <1>1, BaseInit, BaseNext, PTL DEF Spec

-----------------------------------------------------------------------------
(***************************************************************************)
(* The road to the wire.  A task that has taken its credential snapshot is *)
(* committed to one request; once the row is executing it is dispatching.  *)
(***************************************************************************)
Committed == {"auth", "preflight", "probing", "recheck", "starting"}

Advances(t) ==
    /\ pc'[t] \in Committed \cup Dispatching =>
          /\ frame'[t].job = Job(t)
          /\ \/ /\ pc[t] \in Committed \cup Dispatching
                /\ frame'[t].auth = frame[t].auth
             \/ /\ pc[t] = "snapshot" /\ pc'[t] = "auth"
                /\ CredentialsUnchanged(t) /\ frame'[t].auth = secret
    /\ pc'[t] \in Committed => pc[t] \in {"snapshot"} \cup Committed /\ UNCHANGED storeVars
    /\ pc'[t] = "starting" => ActionsActive(t, Actions)
    /\ pc'[t] = "audit_dispatch" => pc[t] = "starting" /\ StartExecution(Job(t))
    /\ pc'[t] = "sending" => pc[t] = "audit_dispatch" /\ UNCHANGED storeVars
    /\ pc'[t] = "complete" =>
          /\ UNCHANGED storeVars
          /\ \/ pc[t] = "audit_dispatch" /\ frame'[t].plan = "failed"
             \/ pc[t] = "sending" /\ frame'[t].plan \in SendOutcomes(wire[Job(t)])
    /\ pc'[t] = "resolve" =>
          /\ UNCHANGED storeVars
          /\ pc[t] = "status" /\ frame'[t].job = Job(t)
          /\ frame'[t].plan \in StatusOutcomes(wire[Job(t)])

\* Proved action by action.
LEMMA TaskAdvances ==
    ASSUME ExecutorTypeOK, NEW t \in Tasks, TaskAction(t)
    PROVE  Advances(t)
  <1> USE DEF Committed, Dispatching
  <1>1. CASE Begin(t)
    <2>1. ASSUME NEW r \in RequestIds, NEW x \in Payloads, NEW c \in Classes,
                 NEW n \in Connectors, NEW e \in Environments, PreviewBegin(t, r, x, c, n, e)
          PROVE  pc'[t] = "preview"
      BY <2>1, MoveEffect DEF PreviewBegin
    <2>2. pc'[t] \in {"preview", "confirm", "audit_approval", "validate", "status"}
      BY <1>1, <2>1, MoveForms
         DEF Begin, ConfirmBegin, ApproveAndExecute, ExecuteBegin, ResolveBegin
    <2> QED BY <2>2 DEF Advances
  <1>2. CASE \/ PreviewCreate(t) \/ ConfirmApprove(t) \/ AuditRequest(t) \/ ExecuteApproved(t)
             \/ ExecuteValidate(t) \/ SendRaises(t) \/ ExecuteComplete(t) \/ ExecuteFail(t)
             \/ TaskInvalidate(t) \/ ResolveRecord(t) \/ Cancel(t)
    <2>1. pc'[t] \in {"idle", "audit_preview", "audit_confirmation", "execute", "invalidate",
                      "validate", "snapshot"}
      BY <1>2, MoveForms DEF PreviewCreate, ConfirmApprove, AuditRequest, ExecuteApproved,
         ExecuteValidate, SendRaises, ExecuteComplete, ExecuteFail, TaskInvalidate,
         ResolveRecord, Cancel
    <2> QED BY <2>1 DEF Advances
  <1>3. CASE ExecuteSnapshot(t) \/ ExecuteAuth(t) \/ PreflightAnswer(t)
    <2>1. UNCHANGED storeVars
      BY <1>3 DEF ExecuteSnapshot, ExecuteAuth, PreflightAnswer
    <2> QED BY <1>3, <2>1, NotingMoves DEF Advances
  <1>4. CASE PreflightSend(t) \/ ExecuteRecheck(t)
    BY <1>4, MoveForms DEF PreflightSend, ExecuteRecheck, Advances, Job
  <1>5. CASE ExecuteStart(t) \/ AuditDispatch(t)
    BY <1>5, MoveForms DEF ExecuteStart, AuditDispatch, Advances, Job
  <1>6. CASE SendReturns(t)
    <2>1. PICK x \in SendOutcomes(wire[Job(t)]) : Plan(t, "complete", x)
      BY <1>6 DEF SendReturns
    <2> QED BY <1>6, <2>1, MoveForms DEF SendReturns, Resumes, Advances
  <1>7. CASE StatusAnswer(t)
    <2>1. CASE \E x \in StatusOutcomes(wire[Job(t)]) : Plan(t, "resolve", x)
      <3>1. PICK x \in StatusOutcomes(wire[Job(t)]) : Plan(t, "resolve", x)
        BY <2>1
      <3> QED BY <1>7, <3>1, MoveForms DEF StatusAnswer, Resumes, Advances
    <2> QED BY <1>7, <2>1, MoveForms DEF StatusAnswer, Advances
  <1> QED BY <1>1, <1>2, <1>3, <1>4, <1>5, <1>6, <1>7 DEF TaskAction, Continue

(***************************************************************************)
(* What the step of a task may do to one stored row.                       *)
(***************************************************************************)
RowEffect(t, r) ==
    LET row == requests[r]
        new == requests'[r]
    IN  \/ new = row
        \/ row.state \in PendingStates /\ new.state = "failed"
        \/ /\ row.state = "awaiting_confirmation" /\ new.state = "ready_to_execute"
           /\ pc'[t] \in {"audit_confirmation", "audit_approval"} /\ frame'[t].job = r
        \/ /\ pc[t] = "starting" /\ Job(t) = r /\ pc'[t] = "audit_dispatch"
           /\ row.state = "ready_to_execute" /\ ~Expired(row) /\ new.state = "executing"
        \/ /\ pc[t] = "complete" /\ Job(t) = r /\ pc'[t] = "idle"
           /\ row.state = "executing" /\ new.state = frame[t].plan
        \/ /\ pc[t] = "resolve" /\ Job(t) = r /\ pc'[t] = "idle"
           /\ row.state = "outcome_unknown" /\ new.state = frame[t].plan

\* The states of a row a method of the store accepts.
LEMMA LiveState ==
    ASSUME TypeOK, NEW r \in Stored, NEW S, "failed" \notin S, Live(r, S)
    PROVE  requests[r].state \in S /\ ~Expired(requests[r])
  <1>1. requests[r] \in Row
    BY DEF TypeOK
  <1> QED BY <1>1 DEF Live, ExpireIfNeeded, Failed, Row

\* Expiry leaves a row alone or fails a pending one.
LEMMA ExpiryState ==
    ASSUME TypeOK, NEW r \in Stored
    PROVE  \/ ExpireIfNeeded(requests[r]) = requests[r]
           \/ requests[r].state \in PendingStates /\ ExpireIfNeeded(requests[r]).state = "failed"
  <1>1. requests[r] \in Row
    BY DEF TypeOK
  <1> QED BY <1>1 DEF ExpireIfNeeded, Expired, Failed, Row

\* Every store call of a task read at one row.
LEMMA TaskRowEffect ==
    ASSUME ExecutorTypeOK, Local, NEW t \in Tasks, TaskAction(t), NEW r \in Stored
    PROVE  RowEffect(t, r)
  <1>0. StoreEffect(t) /\ TypeOK /\ requests[r] \in Row /\ requests \in [Stored -> Row]
    BY TaskStoreEffect DEF ExecutorTypeOK, TypeOK
  <1>1. CASE UNCHANGED storeVars
    BY <1>1 DEF storeVars, RowEffect
  <1>2. CASE pc[t] = "preview" /\ CreatePreview(Job(t), frame[t].draft)
    BY <1>2 DEF CreatePreview, RowEffect
  <1>3. ASSUME NEW s \in Stored, Get(s) PROVE RowEffect(t, r)
    BY <1>0, <1>3, ExpiryState DEF Get, Store, RowEffect
  <1>4. ASSUME NEW s \in Stored,
               Approve(s, requests[s].payload_hash, requests[s].payload_hash.mutation_class),
               frame'[t].job = s, pc'[t] \in {"audit_confirmation", "audit_approval"}
        PROVE  RowEffect(t, r)
    <2>1. requests[s].state \in {"awaiting_confirmation"}
      BY <1>0, <1>4, LiveState DEF Approve, ApprovalCandidate
    <2> QED BY <1>0, <1>4, <2>1 DEF Approve, Store, RowEffect, Row
  <1>5. CASE pc[t] = "starting" /\ pc'[t] = "audit_dispatch" /\ StartExecution(Job(t))
    <2>1. Job(t) \in Stored
      BY <1>5 DEF Local
    <2>2. requests[Job(t)].state \in {"ready_to_execute"} /\ ~Expired(requests[Job(t)])
      BY <1>0, <1>5, <2>1, LiveState DEF StartExecution, RequireReady
    <2> QED BY <1>0, <1>5, <2>1, <2>2 DEF StartExecution, Store, RowEffect, Row
  <1>6. CASE pc[t] = "complete" /\ pc'[t] = "idle" /\ Complete(Job(t), frame[t].plan)
    BY <1>0, <1>6 DEF Complete, Store, RowEffect, Row
  <1>7. CASE pc[t] = "resolve" /\ pc'[t] = "idle" /\ ResolveOutcomeUnknown(Job(t), frame[t].plan)
    BY <1>0, <1>7 DEF ResolveOutcomeUnknown, Store, RowEffect, Row
  <1>8. CASE pc[t] = "fail" /\ FailBeforeDispatch(Job(t))
    <2>1. Job(t) \in Stored
      BY <1>8 DEF Local
    <2>2. requests[Job(t)].state \in {"ready_to_execute"}
      BY <1>0, <1>8, <2>1, LiveState DEF FailBeforeDispatch, RequireReady
    <2> QED BY <1>0, <1>8, <2>1, <2>2
            DEF FailBeforeDispatch, Store, Failed, RowEffect, Row, PendingStates
  <1>9. CASE pc[t] = "invalidate" /\ Invalidate(Job(t), frame[t].plan)
    <2>1. Job(t) \in Stored
      BY <1>9 DEF Local
    <2>2. requests[Job(t)].state \in PendingStates
      BY <1>0, <1>9, <2>1, LiveState DEF Invalidate, PendingStates
    <2> QED BY <1>0, <1>9, <2>1, <2>2 DEF Invalidate, Store, Failed, RowEffect, Row
  <1> QED BY <1>0, <1>1, <1>2, <1>3, <1>4, <1>5, <1>6, <1>7, <1>8, <1>9 DEF StoreEffect

\* A call from outside the tasks only ever fails pending rows.
LEMMA CallRowEffect ==
    ASSUME ExecutorTypeOK, StoreCall, NEW r \in Stored
    PROVE  \/ requests'[r] = requests[r]
           \/ requests[r].state \in PendingStates /\ requests'[r].state = "failed"
  <1>0. TypeOK /\ requests[r] \in Row /\ requests \in [Stored -> Row]
    BY DEF ExecutorTypeOK, TypeOK
  <1>1. CASE \E s \in Stored : Get(s)
    BY <1>0, <1>1, ExpiryState DEF Get, Store
  <1>2. ASSUME NEW C, NEW E, InvalidatePending(C, E)
        PROVE  \/ requests'[r] = requests[r]
               \/ requests[r].state \in PendingStates /\ requests'[r].state = "failed"
    <2> DEFINE row == ExpireIfNeeded(requests[r])
    <2>0. row = requests[r] \/ (requests[r].state \in PendingStates /\ row.state = "failed")
      BY <1>0, ExpiryState
    <2>1. \/ requests'[r] = row
          \/ row.state \in PendingStates /\ requests'[r] = Failed(row, "credentials_cleared")
      BY <1>2 DEF InvalidatePending
    <2> HIDE DEF row
    <2>2. CASE row = requests[r]
      BY <1>0, <2>1, <2>2 DEF Failed, Row
    <2>3. CASE requests[r].state \in PendingStates /\ row.state = "failed"
      BY <2>1, <2>3 DEF PendingStates
    <2> QED BY <2>0, <2>2, <2>3
  <1>3. CASE Tick
    BY <1>3 DEF Tick
  <1> QED BY <1>1, <1>2, <1>3 DEF StoreCall

\* No step of anyone changes the binding of a stored row.
LEMMA BindingKept ==
    ASSUME Base, [Next]_vars, NEW r \in Stored
    PROVE  r \in Stored' /\ requests'[r].payload_hash = requests[r].payload_hash
  <1>1. TypeOK /\ [StoreNext]_storeVars /\ requests[r] \in Row
    BY TypeNext DEF Base, ExecutorTypeOK, TypeOK
  <1>2. /\ r \in Stored'
        /\ \/ requests'[r] = requests[r]
           \/ requests'[r] \in Row /\ Changes(r, requests[r], requests'[r])
    BY <1>1, StepOnRow
  <1>3. ASSUME requests'[r] \in Row, Changes(r, requests[r], requests'[r])
        PROVE  Keeps(requests[r], requests'[r])
    BY <1>1, <1>3, RowChange
  <1> QED BY <1>2, <1>3 DEF Keeps

-----------------------------------------------------------------------------
(***************************************************************************)
(* ExecutionOwned: whoever is dispatching has its row to itself.           *)
(***************************************************************************)
LEMMA OwnedNext ==
    ASSUME Base, ExecutionOwned, [Next]_vars
    PROVE  ExecutionOwned'
  <1>0. ExecutorTypeOK /\ Local /\ \A r \in Stored : r \in Stored'
    BY BindingKept DEF Base
  <1> SUFFICES ASSUME NEW u \in Tasks, pc'[u] \in Dispatching
               PROVE  /\ frame'[u].job \in Stored' /\ requests'[frame'[u].job].state = "executing"
                      /\ \A v \in Tasks \ {u} : pc'[v] \in Dispatching => frame'[v].job # frame'[u].job
    BY DEF ExecutionOwned, Job
  <1>1. ASSUME NEW t \in Tasks, TaskAction(t)
        PROVE  /\ frame'[u].job \in Stored' /\ requests'[frame'[u].job].state = "executing"
               /\ \A v \in Tasks \ {u} : pc'[v] \in Dispatching => frame'[v].job # frame'[u].job
    <2>1. \A v \in Tasks \ {t} : pc'[v] = pc[v] /\ frame'[v] = frame[v]
      BY <1>0, <1>1, TaskMoves, MoveEffect DEF Moves
    <2>2. Advances(t) /\ \A r \in Stored : RowEffect(t, r)
      BY <1>0, <1>1, TaskAdvances, TaskRowEffect
    \* An executing row stays executing unless its own dispatcher completes it.
    <2>3. ASSUME NEW r \in Stored, requests[r].state = "executing"
          PROVE  requests'[r].state = "executing" \/ (pc[t] = "complete" /\ Job(t) = r /\ pc'[t] = "idle")
      BY <2>2, <2>3 DEF RowEffect, PendingStates
    \* The acting task, if it is dispatching now, either was already or has just
    \* found the row ready, which no dispatcher's row is.
    <2>4. CASE pc'[t] \in Dispatching /\ pc[t] \in Dispatching
      <3>1. frame'[t].job = Job(t) /\ UNCHANGED storeVars
        BY <2>2, <2>4 DEF Advances, Dispatching
      <3>2. \A v \in Tasks : pc'[v] \in Dispatching => pc[v] \in Dispatching /\ frame'[v].job = Job(v)
        BY <2>1, <2>4, <3>1 DEF Job
      <3> QED BY <3>1, <3>2 DEF ExecutionOwned, storeVars, Stored
    <2>5. CASE pc'[t] \in Dispatching /\ pc[t] \notin Dispatching
      <3>1. pc[t] = "starting" /\ frame'[t].job = Job(t) /\ StartExecution(Job(t))
        BY <2>2, <2>5 DEF Advances, Dispatching
      <3>2. Job(t) \in Stored
        BY <1>0, <3>1 DEF Local
      <3>3. /\ requests[Job(t)].state = "ready_to_execute"
            /\ requests'[Job(t)].state = "executing"
        <4>1. requests[Job(t)].state \in {"ready_to_execute"}
          BY <1>0, <3>1, <3>2, LiveState DEF ExecutorTypeOK, StartExecution, RequireReady
        <4> QED BY <1>0, <3>1, <3>2, <4>1 DEF StartExecution, Store, ExecutorTypeOK, TypeOK, Row
      <3>4. \A v \in Tasks \ {t} : pc[v] \in Dispatching => Job(v) # Job(t) /\ Job(v) \in Stored
        BY <3>3 DEF ExecutionOwned
      <3>5. \A v \in Tasks \ {t} : pc[v] \in Dispatching => requests'[Job(v)].state = "executing"
        BY <2>3, <3>1 DEF ExecutionOwned
      <3> QED BY <1>0, <2>1, <3>1, <3>2, <3>3, <3>4, <3>5 DEF ExecutionOwned, Job
    <2>6. CASE pc'[t] \notin Dispatching
      <3>1. u # t /\ pc[u] \in Dispatching /\ frame'[u].job = Job(u)
        BY <2>1, <2>6 DEF Job
      <3>2. Job(u) \in Stored /\ requests[Job(u)].state = "executing"
        BY <3>1 DEF ExecutionOwned
      <3>3. pc[t] = "complete" => Job(t) # Job(u)
        BY <3>1 DEF ExecutionOwned, Dispatching
      <3>4. requests'[Job(u)].state = "executing"
        BY <2>3, <3>2, <3>3
      <3>5. \A v \in Tasks \ {u} : pc'[v] \in Dispatching => frame'[v].job # Job(u)
        BY <2>1, <2>6, <3>1 DEF ExecutionOwned, Job
      <3> QED BY <1>0, <3>1, <3>2, <3>4, <3>5
    <2> QED BY <2>4, <2>5, <2>6
  <1>2. ASSUME NEW p \in Procs, Restart(p)
        PROVE  /\ frame'[u].job \in Stored' /\ requests'[frame'[u].job].state = "executing"
               /\ \A v \in Tasks \ {u} : pc'[v] \in Dispatching => frame'[v].job # frame'[u].job
    <2>1. /\ requests' = requests
          /\ \A t \in Tasks : \/ pc'[t] = "idle"
                              \/ pc'[t] = pc[t] /\ frame'[t] = frame[t]
      BY <1>0, <1>2 DEF Restart, ExecutorTypeOK, storeVars
    <2> QED BY <2>1 DEF ExecutionOwned, Dispatching, Job, Stored
  <1>3. CASE StoreCall
    <2>1. \A r \in Stored : requests[r].state = "executing" => requests'[r].state = "executing"
      BY <1>0, <1>3, CallRowEffect DEF PendingStates
    <2> QED BY <1>0, <1>3, <2>1 DEF StoreCall, taskVars, ExecutionOwned, Job
  <1>4. CASE EnvironmentStep
    BY <1>4 DEF EnvironmentStep, Transmit, ProviderDecides, ReplaceCatalog, SaveCredentials,
       vars, storeVars, taskVars, ExecutionOwned, Job, Stored
  <1> QED BY <1>1, <1>2, <1>3, <1>4, StepKinds

\* The row of a task past start_execution is executing and no other task's, so
\* no two tasks ever send the same request and complete is never refused.
THEOREM ExecutionsAreOwned == Spec => []ExecutionOwned
  <1>1. Init => ExecutionOwned
    BY DEF Init, ExecutionOwned, Dispatching
  <1>2. Base /\ ExecutionOwned /\ [Next]_vars => ExecutionOwned'
    BY OwnedNext
  <1> QED BY <1>1, <1>2, BaseInit, BaseNext, PTL DEF Spec

-----------------------------------------------------------------------------
(***************************************************************************)
(* DispatchFenced: a committed task is in the process life, and holds the  *)
(* secret, that its binding names.                                         *)
(***************************************************************************)
Fenced ==
    \A t \in Tasks :
        /\ pc[t] \in Committed \cup Dispatching =>
              /\ Bound(t).revision.proc = Home[t]
              /\ Bound(t).revision.key = key[Home[t]]
              /\ frame[t].auth = Bound(t).revision.secret
        /\ pc[t] \in {"starting", "audit_dispatch"} => ActionsActive(t, Actions)

\* The fence is raised by the snapshot and comes down only with the process.
LEMMA FencedNext ==
    ASSUME Base, Fenced, [Next]_vars
    PROVE  Fenced'
  <1>0. ExecutorTypeOK /\ Local
    BY DEF Base
  <1>a. \A u \in Tasks : pc[u] \in Committed \cup Dispatching =>
           Job(u) \in Stored /\ requests'[Job(u)].payload_hash = Bound(u)
    BY <1>0, BindingKept DEF Local, Committed, Dispatching, Bound
  <1> DEFINE Goal(u) ==
          /\ pc'[u] \in Committed \cup Dispatching =>
                /\ Bound(u)'.revision.proc = Home[u]
                /\ Bound(u)'.revision.key = key'[Home[u]]
                /\ frame'[u].auth = Bound(u)'.revision.secret
          /\ pc'[u] \in {"starting", "audit_dispatch"} => ActionsActive(u, Actions)'
  <1> SUFFICES ASSUME NEW u \in Tasks PROVE Goal(u)
    BY DEF Fenced
  \* A task that stays where it is keeps its fence while its process lives and
  \* its catalog stays.
  <1>b. ASSUME pc'[u] = pc[u], frame'[u] = frame[u], key'[Home[u]] = key[Home[u]],
               pc[u] \in {"starting", "audit_dispatch"} => catalog'[Home[u]] = catalog[Home[u]]
        PROVE  Goal(u)
    <2>1. pc[u] \in Committed \cup Dispatching => Bound(u)' = Bound(u)
      BY <1>a, <1>b DEF Bound, Job
    <2>2. {"starting", "audit_dispatch"} \subseteq Committed \cup Dispatching
      BY DEF Committed, Dispatching
    <2> QED BY <1>b, <2>1, <2>2 DEF Fenced, ActionsActive
  <1>1. ASSUME NEW t \in Tasks, TaskAction(t) PROVE Goal(u)
    <2>1. /\ \A v \in Tasks \ {t} : pc'[v] = pc[v] /\ frame'[v] = frame[v]
          /\ UNCHANGED <<catalog, key, secret>>
      BY <1>0, <1>1, TaskMoves, MoveEffect DEF Moves
    <2>2. Advances(t)
      BY <1>0, <1>1, TaskAdvances
    <2>3. CASE u = t /\ pc'[t] \in Committed \cup Dispatching
      <3>1. frame'[t].job = Job(t)
        BY <2>2, <2>3 DEF Advances
      <3>2. pc[t] \in Committed \cup Dispatching \cup {"snapshot"}
        BY <2>2, <2>3 DEF Advances
      <3>3. Job(t) \in Stored
        BY <1>0, <3>2 DEF Local, Committed, Dispatching
      <3>4. Bound(t)' = Bound(t)
        BY <3>1, <3>3, BindingKept DEF Bound, Job
      <3>5. /\ Bound(t).revision.proc = Home[t]
            /\ Bound(t).revision.key = key[Home[t]]
            /\ frame'[t].auth = Bound(t).revision.secret
        <4>1. CASE pc[t] = "snapshot"
          <5>1. CredentialsUnchanged(t) /\ frame'[t].auth = secret
            BY <2>2, <2>3, <4>1 DEF Advances, Committed, Dispatching
          <5> QED BY <5>1 DEF CredentialsUnchanged, Revision
        <4>2. CASE pc[t] \in Committed \cup Dispatching
          <5>1. frame'[t].auth = frame[t].auth
            BY <2>2, <2>3, <4>2 DEF Advances, Committed, Dispatching
          <5> QED BY <4>2, <5>1 DEF Fenced
        <4> QED BY <3>2, <4>1, <4>2
      <3>6. pc'[t] \in {"starting", "audit_dispatch"} => ActionsActive(t, Actions)
        BY <2>2 DEF Advances, Fenced
      <3> QED BY <2>1, <2>3, <3>4, <3>5, <3>6 DEF ActionsActive
    <2>4. CASE u = t /\ pc'[t] \notin Committed \cup Dispatching
      BY <2>4 DEF Committed, Dispatching
    <2>5. CASE u # t
      BY <2>1, <2>5, <1>b
    <2> QED BY <2>3, <2>4, <2>5
  <1>2. ASSUME NEW p \in Procs, Restart(p) PROVE Goal(u)
    <2>1. \/ pc'[u] = "idle"
          \/ /\ pc'[u] = pc[u] /\ frame'[u] = frame[u]
             /\ key'[Home[u]] = key[Home[u]] /\ catalog' = catalog
      BY <1>0, <1>2, ExecutorAssumption DEF Restart, ExecutorTypeOK
    <2>2. CASE pc'[u] = "idle"
      BY <2>2 DEF Committed, Dispatching
    <2> QED BY <2>1, <2>2, <1>b
  <1>3. CASE StoreCall
    BY <1>3, <1>b DEF StoreCall, worldVars, taskVars
  <1>4. ASSUME NEW p \in Procs, ReplaceCatalog(p) PROVE Goal(u)
    <2>1. /\ pc' = pc /\ frame' = frame /\ key' = key
          /\ Home[u] # p => catalog'[Home[u]] = catalog[Home[u]]
      BY <1>0, <1>4, ExecutorAssumption DEF ReplaceCatalog, ExecutorTypeOK, taskVars
    <2>2. Home[u] = p => pc[u] \notin {"starting", "audit_dispatch"}
      BY <1>4 DEF ReplaceCatalog, Awaiting
    <2> QED BY <2>1, <2>2, <1>b
  <1>5. CASE EnvironmentStep
    <2>1. CASE \/ \E t \in Tasks : Transmit(t)
               \/ \E r \in RequestIds : ProviderDecides(r)
               \/ SaveCredentials
               \/ UNCHANGED vars
      BY <1>b, <2>1 DEF Transmit, ProviderDecides, SaveCredentials, vars, worldVars, taskVars
    <2> QED BY <1>4, <1>5, <2>1 DEF EnvironmentStep
  <1> QED BY <1>1, <1>2, <1>3, <1>5, StepKinds

\* What is sent is what was approved: the same process life, the same secret,
\* and catalog versions that were active when the task committed to sending.
THEOREM DispatchIsFenced == Spec => []DispatchFenced
  <1>1. Init => Fenced
    BY DEF Init, Fenced, Committed, Dispatching
  <1>2. Base /\ Fenced /\ [Next]_vars => Fenced'
    BY FencedNext
  <1>3. Fenced => DispatchFenced
    BY DEF Fenced, DispatchFenced
  <1> QED BY <1>1, <1>2, <1>3, BaseInit, BaseNext, PTL DEF Spec

-----------------------------------------------------------------------------
(***************************************************************************)
(* OutcomeTruthful: what the tasks know of the wire when they record an    *)
(* outcome.                                                                *)
(***************************************************************************)
WireKnown ==
    /\ \A r \in RequestIds \ Stored : wire[r] = "unsent"
    /\ \A t \in Tasks :
        /\ pc[t] = "audit_dispatch" => wire[Job(t)] = "unsent"
        /\ pc[t] = "complete" =>
              /\ frame[t].plan = "failed" => wire[Job(t)] \in {"unsent", "rejected"}
              /\ frame[t].plan = "succeeded" => wire[Job(t)] = "applied"
        /\ pc[t] = "resolve" =>
              /\ frame[t].plan = "failed" => wire[Job(t)] = "rejected"
              /\ frame[t].plan = "succeeded" => wire[Job(t)] = "applied"

Truth == WireKnown /\ OutcomeTruthful

\* The step of a task records an outcome the wire bears out.
LEMMA TruthTask ==
    ASSUME Base, Truth, [Next]_vars, NEW t \in Tasks, TaskAction(t)
    PROVE  Truth'
  <1>0. ExecutorTypeOK /\ Local /\ TypeOK /\ WireKnown /\ OutcomeTruthful /\ Stored \subseteq RequestIds
    BY DEF Base, Truth, ExecutorTypeOK, TypeOK
  <1>1. /\ \A v \in Tasks \ {t} : pc'[v] = pc[v] /\ frame'[v] = frame[v]
        /\ wire' = wire
    BY <1>0, TaskMoves, MoveEffect DEF Moves
  <1>2. Advances(t) /\ \A r \in Stored : RowEffect(t, r)
    BY <1>0, TaskAdvances, TaskRowEffect
  <1>3. [StoreNext]_storeVars /\ TypeOK' /\ \A r \in Stored : r \in Stored'
    BY TypeNext, BindingKept DEF StoreInv
  <1>4. OutcomeTruthful'
    <2> SUFFICES ASSUME NEW r \in Stored'
                 PROVE  /\ requests'[r].state \in PendingStates => wire[r] = "unsent"
                        /\ requests'[r].state = "failed" => wire[r] \in {"unsent", "rejected"}
                        /\ requests'[r].state = "succeeded" => wire[r] = "applied"
      BY <1>1 DEF OutcomeTruthful
    <2>1. CASE r \notin Stored
      <3>1. requests'[r].state = "awaiting_confirmation"
        <4>1. PICK h \in Hashes : requests'[r] = NewRow(h)
          BY <1>0, <1>3, <2>1, StepNewRow
        <4> QED BY <4>1 DEF NewRow
      <3>2. r \in RequestIds \ Stored
        BY <1>3, <2>1 DEF TypeOK
      <3> QED BY <1>0, <3>1, <3>2 DEF WireKnown
    <2>2. CASE r \in Stored
      <3>1. RowEffect(t, r)
        BY <1>2, <2>2
      <3>2. /\ requests[r].state \in PendingStates => wire[r] = "unsent"
            /\ requests[r].state = "failed" => wire[r] \in {"unsent", "rejected"}
            /\ requests[r].state = "succeeded" => wire[r] = "applied"
        BY <1>0, <2>2 DEF OutcomeTruthful
      <3>3. /\ pc[t] = "complete" => frame[t].plan \in Outcomes
            /\ pc[t] = "resolve" => frame[t].plan \in {"succeeded", "failed"}
        BY <1>0 DEF Local
      <3>4. /\ pc[t] = "complete" =>
                  /\ frame[t].plan = "failed" => wire[Job(t)] \in {"unsent", "rejected"}
                  /\ frame[t].plan = "succeeded" => wire[Job(t)] = "applied"
            /\ pc[t] = "resolve" =>
                  /\ frame[t].plan = "failed" => wire[Job(t)] = "rejected"
                  /\ frame[t].plan = "succeeded" => wire[Job(t)] = "applied"
        BY <1>0 DEF WireKnown
      <3> QED BY <3>1, <3>2, <3>3, <3>4 DEF RowEffect, PendingStates, Outcomes
    <2> QED BY <2>1, <2>2
  <1>5. WireKnown'
    <2>1. \A r \in RequestIds \ Stored' : wire'[r] = "unsent"
      BY <1>0, <1>1, <1>3 DEF WireKnown
    <2>2. pc'[t] = "audit_dispatch" => wire[frame'[t].job] = "unsent"
      <3> SUFFICES ASSUME pc'[t] = "audit_dispatch" PROVE wire[frame'[t].job] = "unsent"
        OBVIOUS
      <3>1. pc[t] = "starting" /\ StartExecution(Job(t)) /\ frame'[t].job = Job(t)
        BY <1>2 DEF Advances, Dispatching
      <3>2. Job(t) \in Stored
        BY <1>0, <3>1 DEF Local
      <3>3. requests[Job(t)].state \in {"ready_to_execute"}
        BY <1>0, <3>1, <3>2, LiveState DEF StartExecution, RequireReady
      <3> QED BY <1>0, <3>1, <3>2, <3>3 DEF OutcomeTruthful, PendingStates
    <2>3. pc'[t] = "complete" =>
              /\ frame'[t].plan = "failed" => wire[frame'[t].job] \in {"unsent", "rejected"}
              /\ frame'[t].plan = "succeeded" => wire[frame'[t].job] = "applied"
      <3> SUFFICES ASSUME pc'[t] = "complete"
                   PROVE  /\ frame'[t].plan = "failed" => wire[frame'[t].job] \in {"unsent", "rejected"}
                          /\ frame'[t].plan = "succeeded" => wire[frame'[t].job] = "applied"
        OBVIOUS
      <3>1. /\ frame'[t].job = Job(t)
            /\ \/ pc[t] = "audit_dispatch" /\ frame'[t].plan = "failed"
               \/ pc[t] = "sending" /\ frame'[t].plan \in SendOutcomes(wire[Job(t)])
        BY <1>2 DEF Advances, Dispatching
      <3>2. wire[Job(t)] \in WireStates
        BY <1>0, <3>1 DEF Local, ExecutorTypeOK
      <3> QED BY <1>0, <3>1, <3>2 DEF WireKnown, SendOutcomes, WireStates
    <2>4. pc'[t] = "resolve" =>
              /\ frame'[t].plan = "failed" => wire[frame'[t].job] = "rejected"
              /\ frame'[t].plan = "succeeded" => wire[frame'[t].job] = "applied"
      BY <1>2 DEF Advances, StatusOutcomes
    <2> QED BY <1>0, <1>1, <2>1, <2>2, <2>3, <2>4 DEF WireKnown, Job
  <1> QED BY <1>4, <1>5 DEF Truth

\* The bytes move only for the owner of an executing row.
LEMMA TruthNext ==
    ASSUME Base, ExecutionOwned, Truth, [Next]_vars
    PROVE  Truth'
  <1>0. ExecutorTypeOK /\ Local /\ WireKnown /\ OutcomeTruthful
    BY DEF Base, Truth
  <1>1. ASSUME NEW t \in Tasks, TaskAction(t) PROVE Truth'
    BY <1>1, TruthTask
  <1>2. ASSUME NEW p \in Procs, Restart(p) PROVE Truth'
    <2>1. /\ requests' = requests /\ wire' = wire
          /\ \A t \in Tasks : \/ pc'[t] = "idle"
                              \/ pc'[t] = pc[t] /\ frame'[t] = frame[t]
      BY <1>0, <1>2 DEF Restart, ExecutorTypeOK, storeVars
    <2> QED BY <1>0, <2>1 DEF Truth, WireKnown, OutcomeTruthful, Job, Stored
  <1>3. CASE StoreCall
    <2>1. /\ Stored' = Stored /\ pc' = pc /\ frame' = frame /\ wire' = wire
          /\ \A r \in Stored : \/ requests'[r] = requests[r]
                               \/ requests[r].state \in PendingStates /\ requests'[r].state = "failed"
      BY <1>0, <1>3, CallKeepsRows, CallRowEffect DEF StoreCall, taskVars
    <2> QED BY <1>0, <2>1 DEF Truth, WireKnown, OutcomeTruthful, Job, PendingStates
  \* Only the owner of an executing row puts its bytes on the wire.
  <1>4. ASSUME NEW t \in Tasks, Transmit(t) PROVE Truth'
    <2>1. /\ requests' = requests /\ pc' = pc /\ frame' = frame
          /\ pc[t] = "sending" /\ wire[Job(t)] = "unsent"
          /\ \A r \in RequestIds \ {Job(t)} : wire'[r] = wire[r]
      BY <1>0, <1>4 DEF Transmit, storeVars, taskVars, ExecutorTypeOK
    <2>2. Job(t) \in Stored /\ requests[Job(t)].state = "executing"
      BY <2>1 DEF ExecutionOwned, Dispatching
    <2>3. \A u \in Tasks : pc[u] \in {"audit_dispatch", "complete"} => Job(u) # Job(t) /\ Job(u) \in RequestIds
      BY <1>0, <2>1 DEF ExecutionOwned, Dispatching, Local, ExecutorTypeOK, TypeOK
    <2>4. \A u \in Tasks : pc[u] = "resolve" =>
             Job(u) # Job(t) /\ Job(u) \in RequestIds
      <3>1. \A u \in Tasks : pc[u] = "resolve" => wire[Job(u)] # "unsent" /\ Job(u) \in RequestIds
        BY <1>0 DEF WireKnown, Local, ExecutorTypeOK, TypeOK
      <3> QED BY <2>1, <3>1
    <2>5. WireKnown'
      BY <1>0, <2>1, <2>2, <2>3, <2>4 DEF WireKnown, Job, Stored
    <2>6. OutcomeTruthful'
      BY <1>0, <2>1, <2>2 DEF OutcomeTruthful, Stored, PendingStates, ExecutorTypeOK, TypeOK
    <2> QED BY <2>5, <2>6 DEF Truth
  <1>5. ASSUME NEW r \in RequestIds, ProviderDecides(r) PROVE Truth'
    <2>1. /\ requests' = requests /\ pc' = pc /\ frame' = frame
          /\ wire[r] = "in_flight"
          /\ \A s \in RequestIds \ {r} : wire'[s] = wire[s]
      BY <1>0, <1>5 DEF ProviderDecides, storeVars, taskVars, ExecutorTypeOK
    <2>2. \A u \in Tasks : pc[u] \notin {"idle", "preview"} => Job(u) \in RequestIds
      BY <1>0 DEF Local, ExecutorTypeOK, TypeOK
    <2>3. WireKnown'
      BY <1>0, <2>1, <2>2 DEF WireKnown, Job, Stored
    <2>4. OutcomeTruthful'
      BY <1>0, <2>1 DEF OutcomeTruthful, Stored, ExecutorTypeOK, TypeOK
    <2> QED BY <2>3, <2>4 DEF Truth
  <1>6. CASE \/ \E p \in Procs : ReplaceCatalog(p)
             \/ SaveCredentials
             \/ UNCHANGED vars
    BY <1>0, <1>6 DEF ReplaceCatalog, SaveCredentials, vars, storeVars, taskVars,
       Truth, WireKnown, OutcomeTruthful, Job, Stored
  <1> QED BY <1>1, <1>2, <1>3, <1>4, <1>5, <1>6, StepKinds DEF EnvironmentStep

\* Nothing is stored or sent at the start.
LEMMA TruthInit == Init => Truth
    BY DEF Init, StoreInit, Truth, WireKnown, OutcomeTruthful, Stored

\* What the store says of a request agrees with what happened to it.
THEOREM OutcomesAreTruthful == Spec => []OutcomeTruthful
  <1>1. Base /\ ExecutionOwned /\ Truth /\ [Next]_vars => Truth'
    BY TruthNext
  <1>2. Truth => OutcomeTruthful
    BY DEF Truth
  <1> QED BY <1>1, <1>2, TruthInit, BaseInit, BaseNext, ExecutionsAreOwned, PTL DEF Spec

\* A request whose bytes may have arrived blocks its hash, and the store lets
\* one request block a hash: a mutation is never sent twice under one hash.
THEOREM NeverReplayed == Spec => []NoReplayAfterPossibleDispatch
  <1>1. Base /\ OutcomeTruthful => NoReplayAfterPossibleDispatch
    <2> SUFFICES ASSUME Base, OutcomeTruthful PROVE NoReplayAfterPossibleDispatch
      OBVIOUS
    <2>1. ASSUME NEW r \in Stored, PossiblySent(r)
          PROVE  requests[r].state \in ReplayBlockingStates
      <3>1. requests[r].state \in RequestState
        BY DEF Base, StoreInv, TypeOK, Row
      <3> QED BY <2>1, <3>1 DEF OutcomeTruthful, PossiblySent, RequestState
    <2> QED BY <2>1 DEF NoReplayAfterPossibleDispatch, Base, StoreInv, OneBlockingRequestPerHash
  <1> QED BY <1>1, BaseInit, BaseNext, OutcomesAreTruthful, PTL DEF Spec

-----------------------------------------------------------------------------
(***************************************************************************)
(* DispatchAudited.  A preview whose record is missing is dead, or pending *)
(* and out of reach: the process life it is bound to is over, or still has *)
(* the task that will record or invalidate it, which holds the event loop. *)
(***************************************************************************)
Revised(r) == requests[r].payload_hash.revision
Dead(r) == requests[r].state = "failed" \/ Expired(requests[r])
Orphaned(r) == key[Revised(r).proc] # Revised(r).key
InHand(r, labels) ==
    \E t \in Tasks : pc[t] \in labels /\ Job(t) = r /\ Home[t] = Revised(r).proc

KeysOnlyGrow == \A r \in Stored : Revised(r).key <= key[Revised(r).proc]

PreviewOnRecord(r) == <<"preview_created", r>> \in ledger

PreviewsRecorded ==
    /\ \A r \in Stored :
          \/ PreviewOnRecord(r)
          \/ Dead(r)
          \/ /\ requests[r].state \in PendingStates
             /\ Orphaned(r) \/ InHand(r, {"audit_preview", "invalidate"})
    /\ \A t \in Tasks :
          /\ pc[t] \in Committed => PreviewOnRecord(Job(t)) \/ Dead(Job(t))
          /\ pc[t] = "sending" => <<"dispatch_started", Job(t)>> \in ledger

\* The clock does not run backwards.
LEMMA TimeForward ==
    ASSUME TypeOK, [StoreNext]_storeVars
    PROVE  now \in Nat /\ now' \in Nat /\ now <= now'
  <1>1. now \in Nat
    BY DEF TypeOK
  <1>2. CASE now' = now
    BY <1>1, <1>2
  <1>3. CASE Ticks
    BY <1>1, <1>3 DEF Ticks
  <1> QED BY <1>2, <1>3, StepShapes DEF Inserts, Updates, Sweeps

\* No call revives a failed row, and an expired one stays expired.
LEMMA DeadStays ==
    ASSUME Base, [Next]_vars, NEW r \in Stored, Dead(r)
    PROVE  Dead(r)'
  <1>1. TypeOK /\ [StoreNext]_storeVars /\ requests[r] \in Row
    BY TypeNext DEF Base, ExecutorTypeOK, TypeOK
  <1>2. \/ requests'[r] = requests[r]
        \/ requests'[r] \in Row /\ Changes(r, requests[r], requests'[r])
    BY <1>1, StepOnRow
  <1>3. CASE requests'[r] = requests[r]
    <2>1. now \in Nat /\ now' \in Nat /\ now <= now' /\ requests[r].expires_at \in Nat
      BY <1>1, TimeForward DEF Row
    <2> QED BY <1>3, <2>1 DEF Dead, Expired
  <1>4. ASSUME requests'[r] \in Row, Changes(r, requests[r], requests'[r])
        PROVE  requests'[r].state = "failed"
    BY <1>1, <1>4, RowChange DEF Dead
  <1> QED BY <1>2, <1>3, <1>4 DEF Dead

\* A stored binding names a process and a generation.
LEMMA RevisionType ==
    ASSUME Base, NEW r \in Stored
    PROVE  Revised(r).proc \in Procs /\ Revised(r).key \in Nat
  <1>1. requests[r].payload_hash \in Bindings
    BY ExecutorAssumption DEF Base, ExecutorTypeOK, TypeOK, Row
  <1> QED BY <1>1, ExecutorAssumption DEF Revised, Bindings, Revisions

\* The row a task adds is the preview it drafted.
LEMMA AddedRow ==
    ASSUME ExecutorTypeOK, Local, NEW t \in Tasks, TaskAction(t), NEW r \in Stored', r \notin Stored
    PROVE  /\ pc[t] = "preview" /\ pc'[t] = "audit_preview" /\ frame'[t].job = r /\ Job(t) = r
           /\ requests'[r].payload_hash = frame[t].draft
           /\ requests'[r].state = "awaiting_confirmation"
  <1>1. /\ pc[t] = "preview" /\ pc'[t] = "audit_preview" /\ frame'[t].job = Job(t)
        /\ Stored' = Stored \cup {Job(t)}
    BY StoredChange
  <1>2. CreatePreview(Job(t), frame[t].draft)
    <2>1. Arrives(t) /\ StoreEffect(t)
      BY TaskArrives, TaskStoreEffect
    <2>2. Job(t) \notin Stored
      BY <1>1 DEF Local
    <2> QED BY <1>1, <2>1, <2>2 DEF Arrives
  <1> QED BY <1>1, <1>2 DEF CreatePreview

\* Generations only grow, so a binding that is out of date stays so.
LEMMA KeysNext ==
    ASSUME Base, KeysOnlyGrow, [Next]_vars
    PROVE  /\ KeysOnlyGrow'
           /\ \A r \in Stored : Orphaned(r) => Orphaned(r)'
  <1>0. ExecutorTypeOK /\ Local /\ key \in [Procs -> 0 .. MaxRestarts] /\ MaxRestarts \in Nat
    BY ExecutorAssumption DEF Base, ExecutorTypeOK
  <1>1. \A r \in Stored : r \in Stored' /\ Revised(r)' = Revised(r)
    BY BindingKept DEF Revised
  <1>2. \A p \in Procs : key[p] \in Nat /\ key'[p] \in Nat /\ key[p] <= key'[p]
    <2>1. \A p \in Procs : key[p] \in Nat
      BY <1>0
    <2>2. CASE key' = key
      BY <2>1, <2>2
    <2>3. ASSUME NEW q \in Procs, Restart(q)
          PROVE  \A p \in Procs : key'[p] \in Nat /\ key[p] <= key'[p]
      BY <1>0, <2>1, <2>3 DEF Restart
    <2>4. (\E t \in Tasks : TaskAction(t)) => key' = key
      BY <1>0, TaskMoves
    <2>5. StoreCall \/ EnvironmentStep => key' = key
      BY DEF StoreCall, EnvironmentStep, Transmit, ProviderDecides, ReplaceCatalog,
             SaveCredentials, vars, worldVars
    <2> QED BY <2>1, <2>2, <2>3, <2>4, <2>5, StepKinds
  <1>3. \A r \in Stored : Orphaned(r) => Orphaned(r)'
    <2> SUFFICES ASSUME NEW r \in Stored, Orphaned(r) PROVE Orphaned(r)'
      OBVIOUS
    <2>1. Revised(r).proc \in Procs /\ Revised(r).key \in Nat /\ Revised(r).key <= key[Revised(r).proc]
      BY RevisionType DEF KeysOnlyGrow
    <2> QED BY <1>1, <1>2, <2>1 DEF Orphaned
  <1>4. KeysOnlyGrow'
    <2> SUFFICES ASSUME NEW r \in Stored' PROVE Revised(r)'.key <= key'[Revised(r)'.proc]
      BY DEF KeysOnlyGrow
    <2>1. CASE r \in Stored
      <3>1. Revised(r).proc \in Procs /\ Revised(r).key \in Nat /\ Revised(r).key <= key[Revised(r).proc]
        BY <2>1, RevisionType DEF KeysOnlyGrow
      <3> QED BY <1>1, <1>2, <2>1, <3>1
    <2>2. CASE r \notin Stored
      <3>1. ASSUME NEW t \in Tasks, TaskAction(t)
            PROVE  Revised(r)'.key <= key'[Revised(r)'.proc]
        <4>1. pc[t] = "preview" /\ requests'[r].payload_hash = frame[t].draft
          BY <1>0, <2>2, <3>1, AddedRow
        <4>2. frame[t].draft.revision.proc = Home[t] /\ frame[t].draft.revision.key = key[Home[t]]
          BY <1>0, <4>1 DEF Local
        <4> QED BY <1>2, <4>1, <4>2, ExecutorAssumption DEF Revised
      <3>2. StoreCall \/ EnvironmentStep \/ (\E p \in Procs : Restart(p)) => Stored' = Stored
        BY <1>0, CallKeepsRows
           DEF EnvironmentStep, Transmit, ProviderDecides, ReplaceCatalog,
               SaveCredentials, Restart, vars, storeVars, Stored
      <3> QED BY <2>2, <3>1, <3>2, StepKinds
    <2> QED BY <2>1, <2>2
  <1> QED BY <1>3, <1>4

\* A task that has to invalidate does so, unless the request is dead already.
LEMMA InvalidationKills ==
    ASSUME Base, [Next]_vars, NEW t \in Tasks, TaskAction(t), NEW r \in Stored,
           pc[t] = "invalidate", Job(t) = r, requests[r].state \in PendingStates
    PROVE  Dead(r)'
  <1>0. ExecutorTypeOK /\ Local /\ TypeOK /\ requests[r] \in Row
        /\ requests \in [Stored -> Row]
    BY DEF Base, Local, ExecutorTypeOK, TypeOK
  <1>1. \/ Invalidate(r, frame[t].plan)
        \/ ~Live(r, PendingStates)
    BY ExecutorAssumption
       DEF TaskAction, Begin, Continue, PreviewBegin, ConfirmBegin, ApproveAndExecute,
         ExecuteBegin, ResolveBegin, Ready, Resumes, Auditing, PreviewCreate, ConfirmApprove,
         AuditRequest, AuditDispatch, ExecuteApproved, ExecuteValidate, ExecuteSnapshot,
         ExecuteAuth, PreflightSend, PreflightAnswer, ExecuteRecheck, ExecuteStart, SendReturns,
         SendRaises, ExecuteComplete, ExecuteFail, TaskInvalidate, StatusAnswer,
         ResolveRecord, Cancel
  <1>2. CASE Invalidate(r, frame[t].plan)
    <2>1. requests'[r].state = "failed"
      BY <1>0, <1>2 DEF Invalidate, Store, Failed, Row
    <2> QED BY <2>1 DEF Dead
  <1>3. CASE ~Live(r, PendingStates)
    <2>1. Dead(r)
      BY <1>0, <1>3 DEF Live, ExpireIfNeeded, Dead
    <2> QED BY <1>0, <2>1, DeadStays
  <1> QED BY <1>1, <1>2, <1>3

\* The step of a task: the one that has the preview in hand records or kills it,
\* and no other task of its process gets past its snapshot meanwhile.
LEMMA PreviewsTask ==
    ASSUME Base, Fenced, KeysOnlyGrow, PreviewsRecorded, [Next]_vars, NEW t \in Tasks, TaskAction(t)
    PROVE  PreviewsRecorded'
  <1> DEFINE Held == {"audit_preview", "invalidate"}
  <1>0. ExecutorTypeOK /\ Local /\ LoopExclusive /\ TypeOK
    BY DEF Base, ExecutorTypeOK
  <1>1. /\ \A v \in Tasks \ {t} : pc'[v] = pc[v] /\ frame'[v] = frame[v]
        /\ key' = key
    BY <1>0, TaskMoves, MoveEffect DEF Moves
  <1>2. Advances(t) /\ LedgerEffect(t) /\ \A r \in Stored : RowEffect(t, r)
    BY <1>0, TaskAdvances, TaskLedgerEffect, TaskRowEffect
  <1>3. \A r \in Stored : r \in Stored' /\ Revised(r)' = Revised(r)
    BY BindingKept DEF Revised
  <1>4. \A r : PreviewOnRecord(r) => PreviewOnRecord(r)'
    BY <1>2 DEF PreviewOnRecord, LedgerEffect
  <1>5. \A r \in Stored : Dead(r) => Dead(r)'
    BY DeadStays
  <1>6. ASSUME NEW r \in Stored', r \notin Stored
        PROVE  requests'[r].state \in PendingStates /\ InHand(r, Held)'
    <2>1. /\ pc[t] = "preview" /\ pc'[t] = "audit_preview" /\ frame'[t].job = r
          /\ requests'[r].payload_hash = frame[t].draft
          /\ requests'[r].state = "awaiting_confirmation"
      BY <1>0, <1>6, AddedRow
    <2>2. frame[t].draft.revision.proc = Home[t]
      BY <1>0, <2>1 DEF Local
    <2> QED BY <2>1, <2>2 DEF InHand, Revised, Job, PendingStates
  <1>7. ASSUME NEW r \in Stored
        PROVE  \/ PreviewOnRecord(r)'
               \/ Dead(r)'
               \/ /\ requests'[r].state \in PendingStates
                  /\ Orphaned(r)' \/ InHand(r, Held)'
    <2>1. CASE PreviewOnRecord(r) \/ Dead(r)
      BY <1>4, <1>5, <2>1
    <2>2. CASE ~PreviewOnRecord(r) /\ ~Dead(r)
      <3>1. requests[r].state \in PendingStates /\ (Orphaned(r) \/ InHand(r, Held))
        BY <2>2 DEF PreviewsRecorded
      <3>2. requests'[r].state \in PendingStates \/ Dead(r)'
        <4>1. RowEffect(t, r)
          BY <1>2
        <4>2. ~(pc[t] = "starting" /\ Job(t) = r)
          BY <2>2 DEF PreviewsRecorded, Committed
        <4> QED BY <3>1, <4>1, <4>2 DEF RowEffect, PendingStates, Dead
      <3>3. CASE Orphaned(r)
        BY <1>1, <1>3, <3>2, <3>3 DEF Orphaned
      <3>4. CASE InHand(r, Held)
        <4>1. PICK u \in Tasks : pc[u] \in Held /\ Job(u) = r /\ Home[u] = Revised(r).proc
          BY <3>4 DEF InHand
        <4>2. CASE u # t
          <5>1. pc'[u] \in Held /\ frame'[u].job = r /\ Home[u] = Revised(r)'.proc
            BY <1>1, <1>3, <4>1, <4>2 DEF Job
          <5> QED BY <3>2, <5>1 DEF InHand, Job
        <4>3. CASE u = t /\ pc[t] = "audit_preview"
          <5>1. \/ <<"preview_created", r>> \in ledger'
                \/ pc'[t] = "invalidate" /\ frame'[t].job = r
            BY <1>2, <4>1, <4>3 DEF LedgerEffect, Auditing, AuditEvent
          <5>2. pc'[t] = "invalidate" /\ frame'[t].job = r => InHand(r, Held)'
            BY <1>3, <4>1, <4>3 DEF InHand, Job
          <5> QED BY <3>2, <5>1, <5>2 DEF PreviewOnRecord
        <4>4. CASE u = t /\ pc[t] = "invalidate"
          BY <3>1, <4>1, <4>4, InvalidationKills
        <4> QED BY <4>1, <4>2, <4>3, <4>4
      <3> QED BY <3>1, <3>3, <3>4
    <2> QED BY <2>1, <2>2
  <1>8. ASSUME NEW u \in Tasks, pc'[u] \in Committed
        PROVE  PreviewOnRecord(Job(u))' \/ Dead(Job(u))'
    <2>1. ASSUME NEW r \in Stored, frame'[u].job = r, PreviewOnRecord(r) \/ Dead(r)
          PROVE  PreviewOnRecord(Job(u))' \/ Dead(Job(u))'
      <3>1. PreviewOnRecord(r)' \/ Dead(r)'
        BY <1>4, <1>5, <2>1
      <3> QED BY <2>1, <3>1 DEF PreviewOnRecord, Dead, Job
    <2>2. CASE pc[u] \in Committed
      <3>1. frame'[u].job = Job(u)
        BY <1>1, <1>2, <1>8 DEF Advances, Job
      <3>2. Job(u) \in Stored /\ (PreviewOnRecord(Job(u)) \/ Dead(Job(u)))
        BY <1>0, <2>2 DEF PreviewsRecorded, Local, Committed
      <3> QED BY <2>1, <3>1, <3>2
    <2>3. CASE pc[u] \notin Committed
      <3>1. u = t /\ pc[t] = "snapshot" /\ frame'[t].job = Job(t) /\ CredentialsUnchanged(t)
        BY <1>1, <1>2, <1>8, <2>3 DEF Advances, Committed, Dispatching
      <3>2. Job(t) \in Stored
        BY <1>0, <3>1 DEF Local
      <3>3. Revised(Job(t)).proc = Home[t] /\ ~Orphaned(Job(t))
        BY <3>1 DEF CredentialsUnchanged, Revision, Bound, Revised, Orphaned
      <3>4. ~InHand(Job(t), Held)
        <4> SUFFICES ASSUME NEW v \in Tasks, pc[v] \in Held, Home[v] = Home[t] PROVE FALSE
          BY <3>3 DEF InHand
        <4>1. v # t /\ pc[v] \notin Awaiting /\ pc[t] \notin Awaiting
          BY <3>1 DEF Awaiting
        <4> QED BY <1>0, <4>1 DEF LoopExclusive
      <3>5. PreviewOnRecord(Job(t)) \/ Dead(Job(t))
        BY <3>2, <3>3, <3>4 DEF PreviewsRecorded
      <3> QED BY <2>1, <3>1, <3>2, <3>5
    <2> QED BY <2>2, <2>3
  <1>9. ASSUME NEW u \in Tasks, pc'[u] = "sending"
        PROVE  <<"dispatch_started", frame'[u].job>> \in ledger'
    <2>1. CASE u = t
      BY <1>2, <1>9, <2>1 DEF LedgerEffect, Advances, Dispatching
    <2>2. CASE u # t
      BY <1>1, <1>2, <1>9, <2>2 DEF LedgerEffect, PreviewsRecorded, Job
    <2> QED BY <2>1, <2>2
  <1>10. \A r \in Stored' : \/ PreviewOnRecord(r)'
                            \/ Dead(r)'
                            \/ /\ requests'[r].state \in PendingStates
                               /\ Orphaned(r)' \/ InHand(r, Held)'
    BY <1>6, <1>7
  <1>11. \A u \in Tasks : /\ pc'[u] \in Committed => PreviewOnRecord(Job(u))' \/ Dead(Job(u))'
                          /\ pc'[u] = "sending" => <<"dispatch_started", Job(u)'>> \in ledger'
    BY <1>8, <1>9 DEF Job, PreviewOnRecord, Dead
  <1> QED BY <1>10, <1>11 DEF PreviewsRecorded

\* The other steps: a restart orphans what the process had in hand.
LEMMA PreviewsNext ==
    ASSUME Base, Fenced, KeysOnlyGrow, PreviewsRecorded, [Next]_vars
    PROVE  PreviewsRecorded'
  <1>0. ExecutorTypeOK /\ Local /\ TypeOK /\ key \in [Procs -> 0 .. MaxRestarts] /\ MaxRestarts \in Nat
    BY ExecutorAssumption DEF Base, ExecutorTypeOK
  <1>1. ASSUME NEW t \in Tasks, TaskAction(t) PROVE PreviewsRecorded'
    BY <1>1, PreviewsTask
  <1>2. ASSUME NEW p \in Procs, Restart(p) PROVE PreviewsRecorded'
    <2>1. /\ requests' = requests /\ now' = now /\ ledger' = ledger
          /\ key'[p] = key[p] + 1 /\ \A q \in Procs \ {p} : key'[q] = key[q]
          /\ \A t \in Tasks : \/ Home[t] = p /\ pc'[t] = "idle"
                              \/ Home[t] # p /\ pc'[t] = pc[t] /\ frame'[t] = frame[t]
      BY <1>0, <1>2 DEF Restart, ExecutorTypeOK, storeVars
    <2>2. Stored' = Stored /\ \A r : /\ Dead(r)' <=> Dead(r)
                                     /\ PreviewOnRecord(r)' <=> PreviewOnRecord(r)
                                     /\ Revised(r)' = Revised(r)
      BY <2>1 DEF Stored, Dead, Expired, PreviewOnRecord, Revised
    <2>3. ASSUME NEW r \in Stored, Orphaned(r) \/ InHand(r, {"audit_preview", "invalidate"})
          PROVE  Orphaned(r)' \/ InHand(r, {"audit_preview", "invalidate"})'
      <3>1. Revised(r).proc \in Procs /\ Revised(r).key \in Nat /\ Revised(r).key <= key[Revised(r).proc]
        BY RevisionType DEF KeysOnlyGrow
      <3>2. key[p] \in Nat
        BY <1>0
      <3>3. CASE Revised(r).proc = p
        BY <2>1, <2>2, <3>1, <3>2, <3>3 DEF Orphaned
      <3>4. CASE Revised(r).proc # p
        BY <2>1, <2>2, <2>3, <3>1, <3>4 DEF Orphaned, InHand, Job
      <3> QED BY <3>3, <3>4
    <2> QED BY <2>1, <2>2, <2>3
       DEF PreviewsRecorded, Job, Committed, Dead, Expired, PreviewOnRecord
  <1>3. CASE StoreCall
    <2>1. /\ Stored' = Stored /\ pc' = pc /\ frame' = frame /\ ledger' = ledger /\ key' = key
          /\ \A r \in Stored : \/ requests'[r] = requests[r]
                               \/ requests[r].state \in PendingStates /\ requests'[r].state = "failed"
      BY <1>0, <1>3, CallKeepsRows, CallRowEffect DEF StoreCall, taskVars, worldVars
    <2>2. \A r \in Stored : Dead(r) => Dead(r)'
      BY DeadStays
    <2>3. ASSUME NEW r \in Stored
          PROVE  \/ PreviewOnRecord(r)'
                 \/ Dead(r)'
                 \/ /\ requests'[r].state \in PendingStates
                    /\ Orphaned(r)' \/ InHand(r, {"audit_preview", "invalidate"})'
      <3>1. CASE requests'[r].state = "failed"
        BY <3>1 DEF Dead
      <3>2. CASE requests'[r] = requests[r]
        BY <2>1, <2>2, <3>2 DEF PreviewsRecorded, PreviewOnRecord, Orphaned, InHand, Revised, Job
      <3> QED BY <2>1, <3>1, <3>2
    <2>4. ASSUME NEW u \in Tasks, pc'[u] \in Committed
          PROVE  PreviewOnRecord(Job(u))' \/ Dead(Job(u))'
      <3>1. Job(u) \in Stored /\ (PreviewOnRecord(Job(u)) \/ Dead(Job(u)))
        BY <1>0, <2>1, <2>4 DEF PreviewsRecorded, Local, Committed
      <3>2. ASSUME NEW r \in Stored, Job(u) = r PROVE PreviewOnRecord(r)' \/ Dead(r)'
        BY <2>1, <2>2, <3>1, <3>2 DEF PreviewOnRecord
      <3> QED BY <2>1, <3>1, <3>2 DEF PreviewOnRecord, Dead, Job
    <2> QED BY <2>1, <2>3, <2>4 DEF PreviewsRecorded, Job
  <1>4. CASE EnvironmentStep
    <2>1. /\ requests' = requests /\ now' = now /\ ledger' = ledger /\ key' = key
          /\ pc' = pc /\ frame' = frame
      BY <1>4 DEF EnvironmentStep, Transmit, ProviderDecides, ReplaceCatalog, SaveCredentials,
         vars, storeVars, worldVars, taskVars
    <2> QED BY <2>1 DEF PreviewsRecorded, PreviewOnRecord, Dead, Expired, Orphaned, InHand,
            Revised, Job, Stored
  <1> QED BY <1>1, <1>2, <1>3, <1>4, StepKinds

\* Records are never taken back, and only a transmission starts a request's
\* way to the provider.
LEMMA LedgerGrows ==
    ASSUME ExecutorTypeOK, Local, [Next]_vars
    PROVE  ledger \subseteq ledger'
  <1>1. \A t \in Tasks : TaskAction(t) => ledger \subseteq ledger'
    BY TaskLedgerEffect DEF LedgerEffect
  <1>2. StoreCall \/ EnvironmentStep \/ (\E p \in Procs : Restart(p)) => ledger' = ledger
    BY DEF StoreCall, EnvironmentStep, Transmit, ProviderDecides, ReplaceCatalog,
           SaveCredentials, Restart, vars
  <1> QED BY <1>1, <1>2, StepKinds

\* Nothing but a transmission puts a request on the wire.
LEMMA WireStays ==
    ASSUME ExecutorTypeOK, Local, [Next]_vars, ~(\E t \in Tasks : Transmit(t))
    PROVE  \A r \in RequestIds : wire'[r] # "unsent" => wire[r] # "unsent"
  <1>1. \A t \in Tasks : TaskAction(t) => wire' = wire
    BY TaskMoves
  <1>2. ASSUME NEW s \in RequestIds, ProviderDecides(s)
        PROVE  \A r \in RequestIds : wire'[r] # "unsent" => wire[r] # "unsent"
    BY <1>2 DEF ProviderDecides, ExecutorTypeOK
  <1>3. \/ StoreCall \/ SaveCredentials \/ UNCHANGED vars
        \/ \E p \in Procs : Restart(p) \/ ReplaceCatalog(p)
        => wire' = wire
    BY DEF StoreCall, ReplaceCatalog, SaveCredentials, Restart, vars
  <1> QED BY <1>1, <1>2, <1>3, StepKinds DEF EnvironmentStep

Audited == KeysOnlyGrow /\ PreviewsRecorded /\ DispatchAudited

\* At a transmission the row is executing, so its preview is on record.
LEMMA AuditedNext ==
    ASSUME Base, ExecutionOwned, Fenced, Audited, [Next]_vars
    PROVE  Audited'
  <1>0. ExecutorTypeOK /\ Local /\ KeysOnlyGrow /\ PreviewsRecorded /\ DispatchAudited
    BY DEF Base, Audited
  <1>1. KeysOnlyGrow' /\ PreviewsRecorded'
    BY <1>0, KeysNext, PreviewsNext
  <1>2. ledger \subseteq ledger'
    BY <1>0, LedgerGrows
  <1>3. CASE \E t \in Tasks : Transmit(t)
    <2>1. PICK t \in Tasks : Transmit(t)
      BY <1>3
    <2>2. /\ pc[t] = "sending" /\ Job(t) \in Stored
          /\ requests[Job(t)].state = "executing"
      BY <2>1 DEF Transmit, ExecutionOwned, Dispatching
    <2>3. <<"dispatch_started", Job(t)>> \in ledger /\ <<"preview_created", Job(t)>> \in ledger
      BY <1>0, <2>2 DEF PreviewsRecorded, PreviewOnRecord, Dead, Expired, PendingStates
    <2>4. \A r \in RequestIds : wire'[r] # "unsent" => wire[r] # "unsent" \/ r = Job(t)
      BY <1>0, <2>1 DEF Transmit, ExecutorTypeOK
    <2> QED BY <1>0, <1>1, <1>2, <2>3, <2>4 DEF Audited, DispatchAudited
  <1>4. CASE ~(\E t \in Tasks : Transmit(t))
    <2>1. \A r \in RequestIds : wire'[r] # "unsent" => wire[r] # "unsent"
      BY <1>0, <1>4, WireStays
    <2> QED BY <1>0, <1>1, <1>2, <2>1 DEF Audited, DispatchAudited
  <1> QED BY <1>3, <1>4

\* Nothing is stored or sent at the start.
LEMMA AuditedInit == Init => Audited
    BY DEF Init, StoreInit, Audited, KeysOnlyGrow, PreviewsRecorded, DispatchAudited,
           Committed, Stored

\* Nothing reaches the wire whose preview and dispatch are not on record.
THEOREM DispatchesAreAudited == Spec => []DispatchAudited
  <1>1. Base /\ ExecutionOwned /\ Fenced /\ Audited /\ [Next]_vars => Audited'
    BY AuditedNext
  <1>2. Init => Fenced
    BY DEF Init, Fenced, Committed, Dispatching
  <1>3. Base /\ Fenced /\ [Next]_vars => Fenced'
    BY FencedNext
  <1>4. Audited => DispatchAudited
    BY DEF Audited
  <1> QED BY <1>1, <1>2, <1>3, <1>4, AuditedInit, BaseInit, BaseNext, ExecutionsAreOwned, PTL
          DEF Spec

-----------------------------------------------------------------------------
(***************************************************************************)
(* ApprovalAudited, which only holds within one process: there the task    *)
(* that approved a request holds the event loop until its approval is on   *)
(* record or the request is invalidated.                                   *)
(***************************************************************************)
SingleProcess == \A p, q \in Procs : p = q

ApprovalOnRecord(r) ==
    <<"confirmation_recorded", r>> \in ledger \/ <<"approval_recorded", r>> \in ledger

Unapproved == {"previewed", "awaiting_confirmation"}
Approving == {"audit_confirmation", "audit_approval", "invalidate"}

\* The labels a task reaches only for a request that has been approved.
Passed == {"audit_confirmation", "audit_approval", "execute", "validate", "snapshot"} \cup Committed

ApprovalsRecorded ==
    /\ \A r \in Stored :
          \/ ApprovalOnRecord(r)
          \/ Dead(r)
          \/ requests[r].state \in Unapproved
          \/ /\ requests[r].state = "ready_to_execute"
             /\ Orphaned(r) \/ InHand(r, Approving)
    /\ \A t \in Tasks :
          /\ pc[t] \in Passed => requests[Job(t)].state \notin Unapproved
          /\ pc[t] \in Committed => ApprovalOnRecord(Job(t)) \/ Dead(Job(t))

\* How a task comes to work on an approved request.
LEMMA TaskPasses ==
    ASSUME ExecutorTypeOK, Local, NEW t \in Tasks, TaskAction(t), pc'[t] \in Passed
    PROVE  /\ frame'[t].job \in Stored
           /\ \/ pc[t] \in Passed /\ frame'[t].job = Job(t)
              \/ requests[frame'[t].job].state = "ready_to_execute"
              \/ requests'[frame'[t].job].state = "ready_to_execute"
  <1> USE DEF Passed, Committed
  <1>0. TypeOK /\ requests \in [Stored -> Row]
    BY DEF ExecutorTypeOK, TypeOK
  <1>a. frame'[t].job \in Stored
    BY TaskArrives DEF Arrives
  <1>b. \A r \in Stored : RequireReady(r) => requests[r].state = "ready_to_execute"
    BY <1>0, LiveState DEF RequireReady
  <1>c. \A r \in Stored : \A h, c : Approve(r, h, c) => requests'[r].state = "ready_to_execute"
    BY <1>0 DEF Approve, Store, Row
  <1>1. CASE Begin(t)
    <2>1. ASSUME NEW r \in RequestIds, NEW x \in Payloads, NEW c \in Classes,
                 NEW n \in Connectors, NEW e \in Environments, PreviewBegin(t, r, x, c, n, e)
          PROVE  pc'[t] = "preview"
      BY <2>1, MoveEffect DEF PreviewBegin
    <2>2. ASSUME NEW r \in Stored,
                 ApproveAndExecute(t, r, requests[r].payload_hash,
                                   requests[r].payload_hash.mutation_class)
          PROVE  requests'[frame'[t].job].state = "ready_to_execute"
      BY <2>2, <1>c, MoveForms DEF ApproveAndExecute
    <2>3. ASSUME NEW r \in Stored, ExecuteBegin(t, r)
          PROVE  requests[frame'[t].job].state = "ready_to_execute"
      BY <2>3, <1>b, MoveForms DEF ExecuteBegin
    <2>4. ASSUME NEW r \in Stored, ConfirmBegin(t, r) \/ ResolveBegin(t, r)
          PROVE  pc'[t] \in {"confirm", "status"}
      BY <2>4, MoveForms DEF ConfirmBegin, ResolveBegin
    <2> QED BY <1>1, <1>a, <2>1, <2>2, <2>3, <2>4 DEF Begin
  <1>2. CASE ConfirmApprove(t)
    <2>1. pc[t] = "confirm" /\ Job(t) \in Stored
      BY <1>2 DEF ConfirmApprove, Local
    <2> QED BY <1>2, <1>a, <1>c, <2>1, MoveForms DEF ConfirmApprove, Job
  <1>3. CASE \/ AuditRequest(t) \/ ExecuteApproved(t) \/ ExecuteValidate(t)
             \/ PreflightSend(t) \/ ExecuteRecheck(t)
    BY <1>3, <1>a, MoveForms DEF AuditRequest, ExecuteApproved, ExecuteValidate, PreflightSend,
       ExecuteRecheck, Job, Auditing
  <1>4. CASE ExecuteSnapshot(t) \/ ExecuteAuth(t) \/ PreflightAnswer(t)
    BY <1>4, <1>a, NotingMoves
  <1>5. CASE \/ PreviewCreate(t) \/ ExecuteStart(t) \/ AuditDispatch(t) \/ SendReturns(t)
             \/ SendRaises(t) \/ ExecuteComplete(t) \/ ExecuteFail(t) \/ TaskInvalidate(t)
             \/ StatusAnswer(t) \/ ResolveRecord(t) \/ Cancel(t)
    <2>1. pc'[t] \in {"idle", "audit_preview", "audit_dispatch", "sending", "complete", "resolve"}
      BY <1>5, MoveForms DEF PreviewCreate, ExecuteStart, AuditDispatch, SendReturns, SendRaises,
         ExecuteComplete, ExecuteFail, TaskInvalidate, StatusAnswer, ResolveRecord, Cancel
    <2> QED BY <2>1
  <1> QED BY <1>1, <1>2, <1>3, <1>4, <1>5 DEF TaskAction, Continue

\* The step of a task, within one process.
LEMMA ApprovalsTask ==
    ASSUME SingleProcess, Base, KeysOnlyGrow, Fenced, ApprovalsRecorded, [Next]_vars,
           NEW t \in Tasks, TaskAction(t)
    PROVE  ApprovalsRecorded'
  <1>0. ExecutorTypeOK /\ Local /\ LoopExclusive /\ TypeOK /\ Home \in [Tasks -> Procs]
    BY ExecutorAssumption DEF Base, ExecutorTypeOK
  <1>1. /\ \A v \in Tasks \ {t} : pc'[v] = pc[v] /\ frame'[v] = frame[v]
        /\ key' = key
    BY <1>0, TaskMoves, MoveEffect DEF Moves
  <1>2. Advances(t) /\ LedgerEffect(t) /\ \A r \in Stored : RowEffect(t, r)
    BY <1>0, TaskAdvances, TaskLedgerEffect, TaskRowEffect
  <1>3. \A r \in Stored : r \in Stored' /\ Revised(r)' = Revised(r) /\ Revised(r).proc \in Procs
    BY BindingKept, RevisionType DEF Revised
  <1>4. \A r : ApprovalOnRecord(r) => ApprovalOnRecord(r)'
    BY <1>2 DEF ApprovalOnRecord, LedgerEffect
  <1>5. \A r \in Stored : Dead(r) => Dead(r)'
    BY DeadStays
  <1>p. /\ pc[t] = "complete" => frame[t].plan \in Outcomes
        /\ pc[t] = "resolve" => frame[t].plan \in {"succeeded", "failed"}
    BY <1>0 DEF Local
  <1>6. ASSUME NEW r \in Stored', r \notin Stored
        PROVE  requests'[r].state \in Unapproved
    BY <1>0, <1>6, AddedRow DEF Unapproved
  <1>7. ASSUME NEW r \in Stored
        PROVE  \/ ApprovalOnRecord(r)'
               \/ Dead(r)'
               \/ requests'[r].state \in Unapproved
               \/ /\ requests'[r].state = "ready_to_execute"
                  /\ Orphaned(r)' \/ InHand(r, Approving)'
    <2>0. RowEffect(t, r)
      BY <1>2
    <2>1. CASE ApprovalOnRecord(r) \/ Dead(r)
      BY <1>4, <1>5, <2>1
    <2>2. CASE requests[r].state \in Unapproved
      <3>1. \/ requests'[r].state \in Unapproved
            \/ requests'[r].state = "failed"
            \/ /\ requests'[r].state = "ready_to_execute"
               /\ pc'[t] \in Approving /\ frame'[t].job = r
        BY <2>0, <2>2 DEF RowEffect, Unapproved, Approving
      <3>2. Home[t] = Revised(r)'.proc
        BY <1>0, <1>3 DEF SingleProcess
      <3>3. pc'[t] \in Approving /\ frame'[t].job = r => InHand(r, Approving)'
        BY <3>2 DEF InHand, Job
      <3> QED BY <3>1, <3>3 DEF Dead
    <2>3. CASE ~ApprovalOnRecord(r) /\ ~Dead(r) /\ requests[r].state \notin Unapproved
      <3>1. requests[r].state = "ready_to_execute" /\ (Orphaned(r) \/ InHand(r, Approving))
        BY <2>3 DEF ApprovalsRecorded
      <3>2. requests'[r].state = "ready_to_execute" \/ Dead(r)'
        <4>1. ~(pc[t] = "starting" /\ Job(t) = r)
          BY <2>3 DEF ApprovalsRecorded, Committed
        <4> QED BY <2>0, <3>1, <4>1 DEF RowEffect, PendingStates, Dead
      <3>3. CASE Orphaned(r)
        BY <1>1, <1>3, <3>2, <3>3 DEF Orphaned
      <3>4. CASE InHand(r, Approving)
        <4>1. PICK u \in Tasks : pc[u] \in Approving /\ Job(u) = r /\ Home[u] = Revised(r).proc
          BY <3>4 DEF InHand
        <4>2. CASE u # t
          <5>1. pc'[u] \in Approving /\ frame'[u].job = r /\ Home[u] = Revised(r)'.proc
            BY <1>1, <1>3, <4>1, <4>2 DEF Job
          <5> QED BY <3>2, <5>1 DEF InHand, Job
        <4>3. CASE u = t /\ pc[t] \in {"audit_confirmation", "audit_approval"}
          <5>1. \/ <<AuditEvent(pc[t]), r>> \in ledger'
                \/ pc'[t] = "invalidate" /\ frame'[t].job = r
            BY <1>2, <4>1, <4>3 DEF LedgerEffect, Auditing
          <5>2. AuditEvent(pc[t]) \in {"confirmation_recorded", "approval_recorded"}
            BY <4>3 DEF AuditEvent
          <5>3. pc'[t] = "invalidate" /\ frame'[t].job = r => InHand(r, Approving)'
            BY <1>3, <4>1, <4>3 DEF InHand, Job, Approving
          <5> QED BY <3>2, <5>1, <5>2, <5>3 DEF ApprovalOnRecord
        <4>4. CASE u = t /\ pc[t] = "invalidate"
          <5>1. requests[r].state \in PendingStates
            BY <3>1 DEF PendingStates
          <5> QED BY <4>1, <4>4, <5>1, InvalidationKills
        <4> QED BY <4>1, <4>2, <4>3, <4>4 DEF Approving
      <3> QED BY <3>1, <3>3, <3>4
    <2> QED BY <2>1, <2>2, <2>3
  \* Nothing turns an approved request into an unapproved one.
  <1>8. \A r \in Stored : requests[r].state \notin Unapproved => requests'[r].state \notin Unapproved
    BY <1>2, <1>p DEF RowEffect, Unapproved, Outcomes
  <1>9. ASSUME NEW u \in Tasks, pc'[u] \in Passed
        PROVE  requests'[frame'[u].job].state \notin Unapproved
    <2>1. CASE u = t
      <3>1. /\ frame'[t].job \in Stored
            /\ \/ pc[t] \in Passed /\ frame'[t].job = Job(t)
               \/ requests[frame'[t].job].state = "ready_to_execute"
               \/ requests'[frame'[t].job].state = "ready_to_execute"
        BY <1>0, <1>9, <2>1, TaskPasses
      <3> QED BY <1>8, <2>1, <3>1 DEF ApprovalsRecorded, Unapproved
    <2>2. CASE u # t
      <3>1. pc[u] \in Passed /\ frame'[u].job = Job(u)
        BY <1>1, <1>9, <2>2 DEF Job
      <3>2. Job(u) \in Stored
        BY <1>0, <3>1 DEF Local, Passed, Committed
      <3> QED BY <1>8, <3>1, <3>2 DEF ApprovalsRecorded
    <2> QED BY <2>1, <2>2
  <1>10. ASSUME NEW u \in Tasks, pc'[u] \in Committed
         PROVE  ApprovalOnRecord(Job(u))' \/ Dead(Job(u))'
    <2>1. ASSUME NEW r \in Stored, frame'[u].job = r, ApprovalOnRecord(r) \/ Dead(r)
          PROVE  ApprovalOnRecord(Job(u))' \/ Dead(Job(u))'
      <3>1. ApprovalOnRecord(r)' \/ Dead(r)'
        BY <1>4, <1>5, <2>1
      <3> QED BY <2>1, <3>1 DEF ApprovalOnRecord, Dead, Job
    <2>2. CASE pc[u] \in Committed
      <3>1. frame'[u].job = Job(u)
        BY <1>1, <1>2, <1>10 DEF Advances, Job
      <3>2. Job(u) \in Stored /\ (ApprovalOnRecord(Job(u)) \/ Dead(Job(u)))
        BY <1>0, <2>2 DEF ApprovalsRecorded, Local, Committed
      <3> QED BY <2>1, <3>1, <3>2
    <2>3. CASE pc[u] \notin Committed
      <3>1. u = t /\ pc[t] = "snapshot" /\ frame'[t].job = Job(t) /\ CredentialsUnchanged(t)
        BY <1>1, <1>2, <1>10, <2>3 DEF Advances, Committed, Dispatching
      <3>2. Job(t) \in Stored /\ requests[Job(t)].state \notin Unapproved
        BY <1>0, <3>1 DEF Local, ApprovalsRecorded, Passed
      <3>3. Revised(Job(t)).proc = Home[t] /\ ~Orphaned(Job(t))
        BY <3>1 DEF CredentialsUnchanged, Revision, Bound, Revised, Orphaned
      <3>4. ~InHand(Job(t), Approving)
        <4> SUFFICES ASSUME NEW v \in Tasks, pc[v] \in Approving, Home[v] = Home[t] PROVE FALSE
          BY <3>3 DEF InHand
        <4>1. v # t /\ pc[v] \notin Awaiting /\ pc[t] \notin Awaiting
          BY <3>1 DEF Awaiting, Approving
        <4> QED BY <1>0, <4>1 DEF LoopExclusive
      <3>5. ApprovalOnRecord(Job(t)) \/ Dead(Job(t))
        BY <3>2, <3>3, <3>4 DEF ApprovalsRecorded
      <3> QED BY <2>1, <3>1, <3>2, <3>5
    <2> QED BY <2>2, <2>3
  <1>11. \A r \in Stored' : \/ ApprovalOnRecord(r)'
                            \/ Dead(r)'
                            \/ requests'[r].state \in Unapproved
                            \/ /\ requests'[r].state = "ready_to_execute"
                               /\ Orphaned(r)' \/ InHand(r, Approving)'
    BY <1>6, <1>7
  <1>12. \A u \in Tasks : /\ pc'[u] \in Passed => requests'[Job(u)'].state \notin Unapproved
                          /\ pc'[u] \in Committed => ApprovalOnRecord(Job(u))' \/ Dead(Job(u))'
    BY <1>9, <1>10 DEF Job
  <1> QED BY <1>11, <1>12 DEF ApprovalsRecorded

\* The other steps, within one process.
LEMMA ApprovalsNext ==
    ASSUME SingleProcess, Base, KeysOnlyGrow, Fenced, ApprovalsRecorded, [Next]_vars
    PROVE  ApprovalsRecorded'
  <1>0. ExecutorTypeOK /\ Local /\ TypeOK /\ key \in [Procs -> 0 .. MaxRestarts] /\ MaxRestarts \in Nat
    BY ExecutorAssumption DEF Base, ExecutorTypeOK
  <1>1. ASSUME NEW t \in Tasks, TaskAction(t) PROVE ApprovalsRecorded'
    BY <1>1, ApprovalsTask
  <1>2. ASSUME NEW p \in Procs, Restart(p) PROVE ApprovalsRecorded'
    <2>1. /\ requests' = requests /\ now' = now /\ ledger' = ledger
          /\ key'[p] = key[p] + 1 /\ \A q \in Procs \ {p} : key'[q] = key[q]
          /\ \A t \in Tasks : pc'[t] = "idle"
      <3>1. \A t \in Tasks : Home[t] = p
        BY ExecutorAssumption DEF SingleProcess
      <3> QED BY <1>0, <1>2, <3>1 DEF Restart, ExecutorTypeOK, storeVars
    <2>2. Stored' = Stored /\ \A r : /\ Dead(r)' <=> Dead(r)
                                     /\ ApprovalOnRecord(r)' <=> ApprovalOnRecord(r)
                                     /\ Revised(r)' = Revised(r)
      BY <2>1 DEF Stored, Dead, Expired, ApprovalOnRecord, Revised
    <2>3. ASSUME NEW r \in Stored PROVE Orphaned(r)'
      <3>1. Revised(r).proc = p /\ Revised(r).key \in Nat /\ Revised(r).key <= key[p]
        BY RevisionType DEF KeysOnlyGrow, SingleProcess
      <3>2. key[p] \in Nat
        BY <1>0
      <3> QED BY <2>1, <2>2, <3>1, <3>2 DEF Orphaned
    <2> QED BY <2>1, <2>2, <2>3 DEF ApprovalsRecorded, Committed, Passed
  <1>3. CASE StoreCall
    <2>1. /\ Stored' = Stored /\ pc' = pc /\ frame' = frame /\ ledger' = ledger /\ key' = key
          /\ \A r \in Stored : \/ requests'[r] = requests[r]
                               \/ requests[r].state \in PendingStates /\ requests'[r].state = "failed"
      BY <1>0, <1>3, CallKeepsRows, CallRowEffect DEF StoreCall, taskVars, worldVars
    <2>2. \A r \in Stored : Dead(r) => Dead(r)'
      BY DeadStays
    <2>3. ASSUME NEW r \in Stored
          PROVE  \/ ApprovalOnRecord(r)'
                 \/ Dead(r)'
                 \/ requests'[r].state \in Unapproved
                 \/ /\ requests'[r].state = "ready_to_execute"
                    /\ Orphaned(r)' \/ InHand(r, Approving)'
      <3>1. CASE requests'[r].state = "failed"
        BY <3>1 DEF Dead
      <3>2. CASE requests'[r] = requests[r]
        BY <2>1, <2>2, <3>2
           DEF ApprovalsRecorded, ApprovalOnRecord, Orphaned, InHand, Revised, Job
      <3> QED BY <2>1, <3>1, <3>2
    <2>4. ASSUME NEW u \in Tasks, pc'[u] \in Committed
          PROVE  ApprovalOnRecord(Job(u))' \/ Dead(Job(u))'
      <3>1. Job(u) \in Stored /\ (ApprovalOnRecord(Job(u)) \/ Dead(Job(u)))
        BY <1>0, <2>1, <2>4 DEF ApprovalsRecorded, Local, Committed
      <3>2. ASSUME NEW r \in Stored, Job(u) = r PROVE ApprovalOnRecord(r)' \/ Dead(r)'
        BY <2>1, <2>2, <3>1, <3>2 DEF ApprovalOnRecord
      <3> QED BY <2>1, <3>1, <3>2 DEF ApprovalOnRecord, Dead, Job
    <2>5. ASSUME NEW u \in Tasks, pc'[u] \in Passed
          PROVE  requests'[Job(u)'].state \notin Unapproved
      <3>1. Job(u)' = Job(u) /\ Job(u) \in Stored /\ requests[Job(u)].state \notin Unapproved
        BY <1>0, <2>1, <2>5 DEF ApprovalsRecorded, Local, Passed, Committed, Job
      <3> QED BY <2>1, <3>1 DEF Unapproved
    <2> QED BY <2>1, <2>3, <2>4, <2>5 DEF ApprovalsRecorded
  <1>4. CASE EnvironmentStep
    <2>1. /\ requests' = requests /\ now' = now /\ ledger' = ledger /\ key' = key
          /\ pc' = pc /\ frame' = frame
      BY <1>4 DEF EnvironmentStep, Transmit, ProviderDecides, ReplaceCatalog, SaveCredentials,
         vars, storeVars, worldVars, taskVars
    <2> QED BY <2>1 DEF ApprovalsRecorded, ApprovalOnRecord, Dead, Expired, Orphaned, InHand,
            Revised, Job, Stored
  <1> QED BY <1>1, <1>2, <1>3, <1>4, StepKinds

\* The approval of a committed task carries over to its dispatching row.
Approvals == ApprovalsRecorded /\ ApprovalAudited

\* At a transmission the row is executing, so its approval is on record.
LEMMA ApprovalAuditedNext ==
    ASSUME SingleProcess, Base, ExecutionOwned, KeysOnlyGrow, Fenced, Approvals, [Next]_vars
    PROVE  Approvals'
  <1>0. ExecutorTypeOK /\ Local /\ ApprovalsRecorded /\ ApprovalAudited
    BY DEF Base, Approvals
  <1>1. ApprovalsRecorded'
    BY <1>0, ApprovalsNext
  <1>2. ledger \subseteq ledger'
    BY <1>0, LedgerGrows
  <1>3. CASE \E t \in Tasks : Transmit(t)
    <2>1. PICK t \in Tasks : Transmit(t)
      BY <1>3
    <2>2. /\ pc[t] = "sending" /\ Job(t) \in Stored
          /\ requests[Job(t)].state = "executing"
      BY <2>1 DEF Transmit, ExecutionOwned, Dispatching
    <2>3. ApprovalOnRecord(Job(t))
      BY <1>0, <2>2 DEF ApprovalsRecorded, Dead, Expired, PendingStates, Unapproved
    <2>4. \A r \in RequestIds : wire'[r] # "unsent" => wire[r] # "unsent" \/ r = Job(t)
      BY <1>0, <2>1 DEF Transmit, ExecutorTypeOK
    <2> QED BY <1>0, <1>1, <1>2, <2>3, <2>4 DEF Approvals, ApprovalAudited, ApprovalOnRecord
  <1>4. CASE ~(\E t \in Tasks : Transmit(t))
    <2>1. \A r \in RequestIds : wire'[r] # "unsent" => wire[r] # "unsent"
      BY <1>0, <1>4, WireStays
    <2> QED BY <1>0, <1>1, <1>2, <2>1 DEF Approvals, ApprovalAudited
  <1> QED BY <1>3, <1>4

\* Nothing is stored or sent at the start.
LEMMA ApprovalsInit == Init => Approvals
    BY DEF Init, StoreInit, Approvals, ApprovalsRecorded, ApprovalAudited, Passed,
           Committed, Stored

\* Within one process a task that is about to send, or has sent, owns its row,
\* sends what was approved, and its approval is on record.
THEOREM ExecutionsAreGuarded ==
    ASSUME SingleProcess
    PROVE  Spec => []ExecutionGuarded
  <1>1. Base /\ ExecutionOwned /\ Fenced /\ Audited /\ [Next]_vars => Audited'
    BY AuditedNext
  <1>2. Init => Fenced
    BY DEF Init, Fenced, Committed, Dispatching
  <1>3. Base /\ Fenced /\ [Next]_vars => Fenced'
    BY FencedNext
  <1>4. Base /\ ExecutionOwned /\ Fenced /\ Audited /\ Approvals /\ [Next]_vars => Approvals'
    BY ApprovalAuditedNext DEF Audited
  <1>5. ExecutionOwned /\ DispatchFenced /\ Approvals => ExecutionGuarded
    BY DEF Approvals, ExecutionGuarded
  <1> QED BY <1>1, <1>2, <1>3, <1>4, <1>5, AuditedInit, ApprovalsInit, BaseInit, BaseNext,
             ExecutionsAreOwned, DispatchIsFenced, PTL DEF Spec
=============================================================================
