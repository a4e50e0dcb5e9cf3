---------------------------- MODULE LocalProofs ----------------------------
(***************************************************************************)
(* Proofs about what a local installation keeps: its audit ledger, its     *)
(* action catalog with the evidence behind it, and the repository files    *)
(* with the credentials they hold.                                         *)
(***************************************************************************)
EXTENDS AuditLedger, LocalCatalog, LocalRepository, FiniteSetTheorems, TLAPS

(***************************************************************************)
(* AuditLedger.  The index is only a hint, so what has to be shown is how  *)
(* far it can be wrong: it may lack rows, but the entries it has are right *)
(* whatever a crash mixed, and an index that is as long as the file and    *)
(* has no wrong entry covers the file.                                     *)
(***************************************************************************)
LedgerTypes ==
    /\ rows \in Seq(EventIds \cup {Torn})
    /\ pc \in [Procs -> {"idle", "append", "index"}]
    /\ drawn \in [Procs -> EventIds \cup {Torn}]

\* Every entry of the index points at the row of its event.
EntriesRight(x) ==
    \A e \in DOMAIN x.events : x.events[e] \in DOMAIN rows /\ rows[x.events[e]] = e

\* The exclusive lock of the file.
OneRecorder == \A p, q \in Procs : pc[p] # "idle" /\ pc[q] # "idle" => p = q

\* A readable index, and the one a call works with, has no wrong entry.
IndexRight == index \in Indexes \/ ~LockFree => EntriesRight(index)

\* About to append: the index covers a file without a fragment and the id is new.
AppendReady ==
    \A p \in Procs : pc[p] = "append" =>
        /\ Intact
        /\ drawn[p] \in EventIds
        /\ drawn[p] \notin ToSet(rows)

\* About to index: the row is the last one of a file without a fragment.
IndexReady ==
    \A p \in Procs : pc[p] = "index" =>
        /\ drawn[p] \in EventIds
        /\ rows # <<>>
        /\ rows[Len(rows)] = drawn[p]

LedgerInv ==
    /\ LedgerTypes
    /\ OneRecorder
    /\ IndexRight
    /\ AppendReady
    /\ IndexReady
    /\ EvidenceIntact
    /\ returned \subseteq Written

\* A file with rows in order and no fragment at its end has none anywhere: it
\* is one that _rebuild_index accepts.
LEMMA NoFragmentIsIntact ==
    ASSUME LedgerTypes, EvidenceIntact, Torn \notin ToSet(rows)
    PROVE  Intact
  <1>1. /\ DOMAIN rows = 1 .. Len(rows) /\ Len(rows) \in Nat
    BY DEF LedgerTypes
  <1>2. ASSUME NEW i \in DOMAIN rows, NEW j \in DOMAIN rows, rows[i] = rows[j]
        PROVE  i = j
    <2>1. i \in Nat /\ j \in Nat /\ ~(i < j) /\ ~(j < i)
      BY <1>1, <1>2 DEF EvidenceIntact
    <2> QED BY <2>1
  <1> QED BY <1>2 DEF Intact, IsInjective

\* The index built from a beginning of the file has an entry for each of its
\* rows and no wrong one: what _rebuild_index writes.
LEMMA BuiltIndexIsRight ==
    ASSUME LedgerTypes, NEW file \in Seq(EventIds \cup {Torn}),
           Len(file) <= Len(rows),
           \A i \in DOMAIN file : file[i] = rows[i]
    PROVE  EntriesRight(IndexOf(file)) /\ DOMAIN IndexOf(file).events = ToSet(file)
  <1> DEFINE place(e) == CHOOSE i \in DOMAIN file : file[i] = e
  <1>1. IndexOf(file).events = [e \in ToSet(file) |-> place(e)]
    BY DEF IndexOf
  <1>2. DOMAIN file \subseteq DOMAIN rows
    BY DEF LedgerTypes
  <1>3. ASSUME NEW e \in ToSet(file)
        PROVE  place(e) \in DOMAIN rows /\ rows[place(e)] = e
    <2>1. \E i \in DOMAIN file : file[i] = e
      BY <1>3 DEF ToSet
    <2>2. place(e) \in DOMAIN file /\ file[place(e)] = e
      BY <2>1
    <2> QED BY <1>2, <2>2
  <1> HIDE DEF place
  <1> QED BY <1>1, <1>3 DEF EntriesRight

\* An index of right entries that is as long as the file covers it, so that
\* neither a fragment nor an id written twice can hide behind the comparison of
\* counts in _ensure_index.
LEMMA TrustedIndexCovers ==
    ASSUME LedgerTypes, NEW x, EntriesRight(x), Trustworthy(x)
    PROVE  Intact /\ DOMAIN x.events = ToSet(rows)
  <1> DEFINE D == DOMAIN x.events
             R == 1 .. Len(rows)
  <1>1. /\ DOMAIN rows = R /\ Len(rows) \in Nat
    BY DEF LedgerTypes
  <1>2. x.events \in [D -> R] /\ \A e \in D : rows[x.events[e]] = e
    <2>1. PICK S \in SUBSET EventIds : x.events \in [S -> Places]
      BY DEF Trustworthy, Indexes
    <2> QED BY <1>1, <2>1 DEF EntriesRight
  <1>3. x.events \in Injection(D, R)
    BY <1>2 DEF Injection, IsInjective
  <1>4. IsFiniteSet(R) /\ Cardinality(R) = Len(rows)
    <2>1. 1 \in Int /\ Len(rows) \in Int
      BY <1>1
    <2>2. IsFiniteSet(R) /\ Cardinality(R) = IF 1 > Len(rows) THEN 0 ELSE Len(rows) - 1 + 1
      BY <2>1, FS_Interval
    <2> QED BY <1>1, <2>2
  <1>5. Cardinality(D) = Cardinality(R)
    BY <1>4 DEF Trustworthy
  <1>6. x.events \in Surjection(D, R)
    BY <1>3, <1>4, <1>5, FS_Injection
  <1>7. \A i \in R : \E e \in D : x.events[e] = i
    BY <1>6 DEF Surjection
  <1>8. D \subseteq EventIds
    BY DEF Trustworthy, Indexes
  <1>9. \A i \in R : rows[i] \in D /\ x.events[rows[i]] = i
    BY <1>2, <1>7
  <1>10. Torn \notin ToSet(rows)
    BY <1>1, <1>8, <1>9, LedgerAssumption DEF ToSet
  <1>11. IsInjective(rows)
    BY <1>1, <1>9 DEF IsInjective
  <1>12. D = ToSet(rows)
    BY <1>1, <1>2, <1>9 DEF ToSet
  <1> QED BY <1>10, <1>11, <1>12 DEF Intact

\* The index a process opens has no wrong entry.
LEMMA OpenedIsRight ==
    ASSUME LedgerInv
    PROVE  EntriesRight(Opened)
  <1>1. EntriesRight(NewIndex)
    BY DEF EntriesRight, NewIndex
  <1> QED BY <1>1 DEF LedgerInv, IndexRight, Opened

\* What _open_ready_index returns covers an intact file and has no wrong entry.
LEMMA ReadyIndexCovers ==
    ASSUME LedgerInv, Trustworthy(Opened) \/ Intact
    PROVE  /\ Intact
           /\ EntriesRight(ReadyIndex)
           /\ DOMAIN ReadyIndex.events = ToSet(rows)
  <1>1. LedgerTypes /\ EntriesRight(Opened)
    BY OpenedIsRight DEF LedgerInv
  <1>2. CASE Trustworthy(Opened)
    <2>1. ReadyIndex = Opened
      BY <1>2 DEF ReadyIndex
    <2>2. Intact /\ DOMAIN Opened.events = ToSet(rows)
      BY <1>1, <1>2, TrustedIndexCovers
    <2> QED BY <1>1, <2>1, <2>2
  <1>3. CASE ~Trustworthy(Opened)
    <2>1. ReadyIndex = IndexOf(rows)
      BY <1>3 DEF ReadyIndex
    <2>2. EntriesRight(IndexOf(rows)) /\ DOMAIN IndexOf(rows).events = ToSet(rows)
      BY <1>1, BuiltIndexIsRight DEF LedgerTypes
    <2> QED BY <1>3, <2>1, <2>2
  <1> QED BY <1>2, <1>3

\* Pages of two indexes without wrong entries make another one: what is left of
\* a transaction that was not committed misleads no lookup.
LEMMA MixtureIsRight ==
    ASSUME NEW old, NEW new, EntriesRight(old), EntriesRight(new),
           NEW x \in Mixtures(old, new), x \in Indexes
    PROVE  EntriesRight(x)
  <1>1. x # Unreadable
    BY LedgerAssumption
  <1>2. PICK S \in SUBSET (DOMAIN old.events \cup DOMAIN new.events),
             mt \in {old.meta, NoMetadata, new.meta} :
          x = [events |-> [e \in S |-> IF e \in DOMAIN new.events THEN new.events[e]
                                       ELSE old.events[e]], meta |-> mt]
    BY <1>1 DEF Mixtures
  <1>3. x.events = [e \in S |-> IF e \in DOMAIN new.events THEN new.events[e] ELSE old.events[e]]
    BY <1>2
  <1>4. ASSUME NEW e \in S
        PROVE  x.events[e] \in DOMAIN rows /\ rows[x.events[e]] = e
    <2>1. CASE e \in DOMAIN new.events
      BY <1>3, <2>1 DEF EntriesRight
    <2>2. CASE e \notin DOMAIN new.events
      BY <1>3, <2>2 DEF EntriesRight
    <2> QED BY <2>1, <2>2
  <1> QED BY <1>3, <1>4 DEF EntriesRight

\* Appending leaves the rows before it where they are.
LEMMA AppendKeepsRows ==
    ASSUME LedgerTypes, NEW d \in EventIds \cup {Torn}, rows' = Append(rows, d)
    PROVE  /\ rows' \in Seq(EventIds \cup {Torn})
           /\ Len(rows') = Len(rows) + 1
           /\ rows'[Len(rows')] = d
           /\ \A i \in DOMAIN rows : i \in DOMAIN rows' /\ rows'[i] = rows[i]
           /\ \A i \in DOMAIN rows' : i \in DOMAIN rows \/ i = Len(rows')
           /\ ToSet(rows') = ToSet(rows) \cup {d}
  <1>1. /\ rows' \in Seq(EventIds \cup {Torn})
        /\ Len(rows') = Len(rows) + 1
        /\ rows'[Len(rows')] = d
        /\ \A i \in DOMAIN rows : i \in DOMAIN rows' /\ rows'[i] = rows[i]
        /\ \A i \in DOMAIN rows' : i \in DOMAIN rows \/ i = Len(rows')
        /\ Len(rows') \in DOMAIN rows'
    BY DEF LedgerTypes
  <1>2. ToSet(rows') = ToSet(rows) \cup {d}
    BY <1>1, Zenon DEF ToSet
  <1> QED BY <1>1, <1>2

\* A row that is new, or a fragment, behind a file without a fragment damages
\* nothing.
LEMMA AppendKeepsEvidence ==
    ASSUME LedgerTypes, Intact, NEW d \in EventIds \cup {Torn}, d \notin ToSet(rows),
           rows' = Append(rows, d)
    PROVE  EvidenceIntact'
  <1>1. /\ DOMAIN rows = 1 .. Len(rows) /\ Len(rows) \in Nat
        /\ DOMAIN rows' = 1 .. Len(rows')
        /\ Len(rows') = Len(rows) + 1
        /\ rows'[Len(rows')] = d
        /\ \A i \in DOMAIN rows : rows'[i] = rows[i]
    BY AppendKeepsRows DEF LedgerTypes
  <1>2. ASSUME NEW i \in DOMAIN rows', NEW j \in DOMAIN rows', i < j
        PROVE  rows'[i] # Torn /\ rows'[i] # rows'[j]
    <2>1. i \in DOMAIN rows /\ rows'[i] = rows[i]
      BY <1>1, <1>2
    <2>2. rows[i] \in ToSet(rows)
      BY <2>1 DEF ToSet
    <2>3. rows[i] # Torn
      BY <2>2 DEF Intact
    <2>4. CASE j = Len(rows')
      BY <1>1, <2>1, <2>2, <2>3, <2>4
    <2>5. CASE j # Len(rows')
      <3>1. j \in DOMAIN rows /\ rows'[j] = rows[j]
        BY <1>1, <2>5
      <3>2. i # j
        BY <1>1, <1>2
      <3> QED BY <2>1, <2>3, <3>1, <3>2 DEF Intact, IsInjective
    <2> QED BY <2>4, <2>5
  <1> QED BY <1>2 DEF EvidenceIntact

\* When the process leaves, nobody holds the lock.
LEMMA LeaveFreesTheLock ==
    ASSUME LedgerInv, NEW p \in Procs, pc[p] # "idle", Leave(p)
    PROVE  /\ LockFree'
           /\ pc' \in [Procs -> {"idle", "append", "index"}]
           /\ drawn' \in [Procs -> EventIds \cup {Torn}]
           /\ \A q \in Procs : pc'[q] = "idle"
  <1>1. pc \in [Procs -> {"idle", "append", "index"}] /\ drawn \in [Procs -> EventIds \cup {Torn}]
    BY DEF LedgerInv, LedgerTypes
  <1>2. \A q \in Procs : pc'[q] = "idle"
    BY <1>1 DEF LedgerInv, OneRecorder, Leave
  <1>3. pc' \in [Procs -> {"idle", "append", "index"}]
    BY <1>1 DEF Leave
  <1>4. drawn' \in [Procs -> EventIds \cup {Torn}]
    BY <1>1 DEF Leave
  <1> QED BY <1>2, <1>3, <1>4 DEF LockFree

\* A record that starts finds or rebuilds an index that covers the file.
LEMMA LedgerBegin ==
    ASSUME LedgerInv, NEW p \in Procs, NEW e \in EventIds, RecordBegin(p, e)
    PROVE  LedgerInv'
  <1>1. /\ Intact
        /\ EntriesRight(ReadyIndex)
        /\ DOMAIN ReadyIndex.events = ToSet(rows)
    BY ReadyIndexCovers DEF RecordBegin
  <1>2. /\ pc \in [Procs -> {"idle", "append", "index"}]
        /\ drawn \in [Procs -> EventIds \cup {Torn}]
        /\ \A q \in Procs : pc[q] = "idle"
        /\ index' = ReadyIndex /\ rows' = rows /\ returned' = returned
        /\ e \notin DOMAIN index'.events
        /\ pc' = [pc EXCEPT ![p] = "append"]
        /\ drawn' = [drawn EXCEPT ![p] = e]
    BY DEF LedgerInv, LedgerTypes, RecordBegin, LockFree
  <1>3. /\ pc' \in [Procs -> {"idle", "append", "index"}]
        /\ drawn' \in [Procs -> EventIds \cup {Torn}]
        /\ \A q \in Procs : pc'[q] # "idle" => q = p /\ pc'[q] = "append" /\ drawn'[q] = e
    BY <1>2
  <1>4. LedgerTypes'
    BY <1>2, <1>3 DEF LedgerInv, LedgerTypes
  <1>5. OneRecorder'
    BY <1>3 DEF OneRecorder
  <1>6. IndexRight'
    BY <1>1, <1>2 DEF IndexRight, EntriesRight
  <1>7. AppendReady'
    BY <1>1, <1>2, <1>3 DEF AppendReady, Intact
  <1>8. IndexReady'
    BY <1>3 DEF IndexReady
  <1>9. (EvidenceIntact /\ returned \subseteq Written)'
    BY <1>2 DEF LedgerInv, EvidenceIntact, Written
  <1> QED BY <1>4, <1>5, <1>6, <1>7, <1>8, <1>9 DEF LedgerInv

\* The appended row is the last one, and every earlier row stays.
LEMMA LedgerAppend ==
    ASSUME LedgerInv, NEW p \in Procs, RecordAppend(p)
    PROVE  LedgerInv'
  <1>1. /\ pc \in [Procs -> {"idle", "append", "index"}]
        /\ LedgerTypes
        /\ pc[p] = "append"
        /\ \A q \in Procs : pc[q] # "idle" => q = p
        /\ index' = index /\ drawn' = drawn /\ returned' = returned
        /\ pc' = [pc EXCEPT ![p] = "index"]
        /\ rows' = Append(rows, drawn[p])
    BY DEF LedgerInv, LedgerTypes, RecordAppend, OneRecorder
  <1>2. Intact /\ drawn[p] \in EventIds /\ drawn[p] \notin ToSet(rows)
    BY <1>1 DEF LedgerInv, AppendReady
  <1>3. /\ rows' \in Seq(EventIds \cup {Torn})
        /\ Len(rows') = Len(rows) + 1
        /\ rows'[Len(rows')] = drawn[p]
        /\ \A i \in DOMAIN rows : i \in DOMAIN rows' /\ rows'[i] = rows[i]
        /\ ToSet(rows') = ToSet(rows) \cup {drawn[p]}
    BY <1>1, <1>2, AppendKeepsRows
  <1>4. /\ pc' \in [Procs -> {"idle", "append", "index"}]
        /\ \A q \in Procs : pc'[q] # "idle" => q = p /\ pc'[q] = "index"
    BY <1>1
  <1>5. LedgerTypes'
    BY <1>1, <1>3, <1>4 DEF LedgerTypes
  <1>6. OneRecorder'
    BY <1>4 DEF OneRecorder
  <1>7. IndexRight'
    <2>1. EntriesRight(index)
      BY <1>1 DEF LedgerInv, IndexRight, LockFree
    <2> QED BY <1>1, <1>3, <2>1 DEF IndexRight, EntriesRight
  <1>8. AppendReady'
    BY <1>4 DEF AppendReady
  <1>9. IndexReady'
    <2>1. rows' # <<>>
      BY <1>1, <1>3 DEF LedgerTypes
    <2> QED BY <1>1, <1>2, <1>3, <1>4, <2>1 DEF IndexReady
  <1>10. EvidenceIntact'
    BY <1>1, <1>2, AppendKeepsEvidence
  <1>11. (returned \subseteq Written)'
    BY <1>1, <1>3 DEF LedgerInv, Written
  <1> QED BY <1>5, <1>6, <1>7, <1>8, <1>9, <1>10, <1>11 DEF LedgerInv

\* A process that stops in its append leaves a prefix of the row, or nothing.
LEMMA LedgerStopInAppend ==
    ASSUME LedgerInv, NEW p \in Procs, StopInAppend(p)
    PROVE  LedgerInv'
  <1>1. /\ LedgerTypes
        /\ pc[p] = "append" /\ Leave(p)
        /\ index' = index /\ returned' = returned
    BY DEF LedgerInv, StopInAppend
  <1>2. Intact /\ drawn[p] \in EventIds /\ drawn[p] \notin ToSet(rows)
    BY <1>1 DEF LedgerInv, AppendReady
  <1>3. /\ LockFree'
        /\ pc' \in [Procs -> {"idle", "append", "index"}]
        /\ drawn' \in [Procs -> EventIds \cup {Torn}]
        /\ \A q \in Procs : pc'[q] = "idle"
    BY <1>1, LeaveFreesTheLock
  <1>4. EntriesRight(index)
    BY <1>1 DEF LedgerInv, IndexRight, LockFree
  <1>5. /\ rows' \in Seq(EventIds \cup {Torn})
        /\ \A i \in DOMAIN rows : i \in DOMAIN rows' /\ rows'[i] = rows[i]
        /\ ToSet(rows) \subseteq ToSet(rows')
        /\ EvidenceIntact'
    <2>1. CASE rows' = rows
      BY <1>1, <2>1 DEF LedgerInv, LedgerTypes, EvidenceIntact
    <2>2. CASE \E d \in {Torn, drawn[p]} : rows' = Append(rows, d)
      <3> PICK d \in {Torn, drawn[p]} : rows' = Append(rows, d)
        BY <2>2
      <3>1. d \in EventIds \cup {Torn} /\ d \notin ToSet(rows)
        BY <1>2 DEF Intact
      <3> QED BY <1>1, <1>2, <3>1, AppendKeepsRows, AppendKeepsEvidence
    <2>3. rows' \in {rows, Append(rows, Torn), Append(rows, drawn[p])}
      BY DEF StopInAppend
    <2> QED BY <2>1, <2>2, <2>3
  <1>6. LedgerTypes'
    BY <1>3, <1>5 DEF LedgerTypes
  <1>7. OneRecorder' /\ AppendReady' /\ IndexReady'
    BY <1>3 DEF OneRecorder, AppendReady, IndexReady
  <1>8. IndexRight'
    BY <1>1, <1>4, <1>5 DEF IndexRight, EntriesRight
  <1>9. (returned \subseteq Written)'
    BY <1>1, <1>5 DEF LedgerInv, Written
  <1> QED BY <1>5, <1>6, <1>7, <1>8, <1>9 DEF LedgerInv

\* The entry that _index_insert adds is right.
LEMMA InsertedIsRight ==
    ASSUME LedgerInv, NEW p \in Procs, pc[p] = "index"
    PROVE  /\ EntriesRight(index) /\ EntriesRight(WithRow(p))
           /\ drawn[p] \in ToSet(rows) \ {Torn}
  <1>1. EntriesRight(index)
    BY DEF LedgerInv, IndexRight, LockFree
  <1>2. /\ drawn[p] \in EventIds
        /\ Len(rows) \in DOMAIN rows
        /\ rows[Len(rows)] = drawn[p]
    BY DEF LedgerInv, IndexReady, LedgerTypes
  <1>3. WithRow(p).events = [e \in DOMAIN index.events \cup {drawn[p]} |->
                               IF e = drawn[p] THEN Len(rows) ELSE index.events[e]]
    BY DEF WithRow
  <1>4. EntriesRight(WithRow(p))
    <2> SUFFICES ASSUME NEW e \in DOMAIN index.events \cup {drawn[p]}
                 PROVE  /\ WithRow(p).events[e] \in DOMAIN rows
                        /\ rows[WithRow(p).events[e]] = e
      BY <1>3 DEF EntriesRight
    <2>1. CASE e = drawn[p]
      BY <1>2, <1>3, <2>1
    <2>2. CASE e # drawn[p]
      BY <1>1, <1>3, <2>2 DEF EntriesRight
    <2> QED BY <2>1, <2>2
  <1>5. drawn[p] \in ToSet(rows) \ {Torn}
    BY <1>2, LedgerAssumption DEF ToSet
  <1> QED BY <1>1, <1>4, <1>5

\* Writing the index, or stopping in it, leaves an index without a wrong entry.
LEMMA LedgerIndex ==
    ASSUME LedgerInv, NEW p \in Procs, RecordIndex(p) \/ StopInIndex(p)
    PROVE  LedgerInv'
  <1>1. pc[p] = "index" /\ Leave(p) /\ rows' = rows
    BY DEF RecordIndex, StopInIndex
  <1>2. /\ EntriesRight(index) /\ EntriesRight(WithRow(p))
        /\ drawn[p] \in ToSet(rows) \ {Torn}
    BY <1>1, InsertedIsRight
  <1>3. /\ LockFree'
        /\ pc' \in [Procs -> {"idle", "append", "index"}]
        /\ drawn' \in [Procs -> EventIds \cup {Torn}]
        /\ \A q \in Procs : pc'[q] = "idle"
    BY <1>1, LeaveFreesTheLock
  <1>4. LedgerTypes'
    BY <1>1, <1>3 DEF LedgerInv, LedgerTypes
  <1>5. OneRecorder' /\ AppendReady' /\ IndexReady'
    BY <1>3 DEF OneRecorder, AppendReady, IndexReady
  <1>6. IndexRight'
    <2>1. ASSUME index' \in Indexes PROVE EntriesRight(index')
      <3>1. CASE RecordIndex(p)
        BY <1>2, <3>1 DEF RecordIndex
      <3>2. CASE StopInIndex(p)
        BY <1>2, <2>1, <3>2, MixtureIsRight DEF StopInIndex
      <3> QED BY <3>1, <3>2
    <2> QED BY <1>1, <1>3, <2>1 DEF IndexRight, EntriesRight
  <1>7. (returned \subseteq Written)'
    BY <1>1, <1>2 DEF LedgerInv, Written, RecordIndex, StopInIndex
  <1>8. EvidenceIntact'
    BY <1>1 DEF LedgerInv, EvidenceIntact
  <1> QED BY <1>4, <1>5, <1>6, <1>7, <1>8 DEF LedgerInv

\* A step of the index alone keeps the rest.
LEMMA LedgerIndexOnly ==
    ASSUME LedgerInv, LockFree, UNCHANGED <<rows, pc, drawn, returned>>,
           index' \in Indexes => EntriesRight(index')
    PROVE  LedgerInv'
  <1>1. LockFree'
    BY DEF LockFree
  <1>2. IndexRight'
    BY <1>1 DEF IndexRight, EntriesRight
  <1>3. LedgerTypes' /\ OneRecorder' /\ EvidenceIntact' /\ (returned \subseteq Written)'
    BY DEF LedgerInv, LedgerTypes, OneRecorder, EvidenceIntact, Written
  <1>4. AppendReady' /\ IndexReady'
    BY DEF LedgerInv, AppendReady, IndexReady, Intact
  <1> QED BY <1>2, <1>3, <1>4 DEF LedgerInv

\* A lookup returns a row of the file and changes nothing but the index.
LEMMA LedgerGet ==
    ASSUME LedgerInv, NEW e \in EventIds, GetEvent(e)
    PROVE  LedgerInv'
  <1>1. Trustworthy(Opened) \/ Intact
    BY DEF GetEvent, Lookup
  <1>2. EntriesRight(ReadyIndex)
    BY <1>1, ReadyIndexCovers
  <1>3. EntriesRight(IndexOf(rows))
    BY BuiltIndexIsRight DEF LedgerInv, LedgerTypes
  <1>4. EntriesRight(index')
    BY <1>2, <1>3 DEF GetEvent
  <1> QED BY <1>4, LedgerIndexOnly DEF GetEvent

\* A call that is refused leaves the rows alone.
LEMMA LedgerRefused ==
    ASSUME LedgerInv, CallRefused
    PROVE  LedgerInv'
  <1>1. PICK n \in 0 .. Len(rows) : index' \in Mixtures(Opened, IndexOf(SubSeq(rows, 1, n)))
    BY DEF CallRefused, FailedRebuild
  <1>2. /\ SubSeq(rows, 1, n) \in Seq(EventIds \cup {Torn})
        /\ Len(SubSeq(rows, 1, n)) <= Len(rows)
        /\ \A i \in DOMAIN SubSeq(rows, 1, n) : SubSeq(rows, 1, n)[i] = rows[i]
    BY DEF LedgerInv, LedgerTypes
  <1>3. EntriesRight(IndexOf(SubSeq(rows, 1, n)))
    BY <1>2, BuiltIndexIsRight DEF LedgerInv
  <1>4. index' \in Indexes => EntriesRight(index')
    BY <1>1, <1>3, OpenedIsRight, MixtureIsRight
  <1> QED BY <1>4, LedgerIndexOnly DEF CallRefused

\* A rebuild cut short leaves entries of the file, of the old index, or none.
LEMMA LedgerStopInRebuild ==
    ASSUME LedgerInv, StopInRebuild
    PROVE  LedgerInv'
  <1>1. EntriesRight(IndexOf(rows))
    BY BuiltIndexIsRight DEF LedgerInv, LedgerTypes
  <1>2. index' \in Indexes => index' \in Mixtures(Opened, IndexOf(rows))
    BY LedgerAssumption DEF StopInRebuild
  <1>3. index' \in Indexes => EntriesRight(index')
    BY <1>1, <1>2, OpenedIsRight, MixtureIsRight
  <1> QED BY <1>3, LedgerIndexOnly DEF StopInRebuild

\* The ledger's invariant holds whatever the processes do and wherever they die.
THEOREM LedgerInvHolds == Spec => []LedgerInv
  <1>1. Init => LedgerInv
    <2> SUFFICES ASSUME Init PROVE LedgerInv
      OBVIOUS
    <2>1. LedgerTypes
      BY DEF Init, LedgerTypes
    <2>2. OneRecorder /\ AppendReady /\ IndexReady /\ LockFree
      BY DEF Init, OneRecorder, AppendReady, IndexReady, LockFree
    <2>3. IndexRight
      BY <2>2, LedgerAssumption DEF Init, IndexRight
    <2>4. EvidenceIntact /\ returned \subseteq Written
      BY DEF Init, EvidenceIntact
    <2> QED BY <2>1, <2>2, <2>3, <2>4 DEF LedgerInv
  <1>2. LedgerInv /\ [Next]_vars => LedgerInv'
    <2> SUFFICES ASSUME LedgerInv, [Next]_vars PROVE LedgerInv'
      OBVIOUS
    <2>1. CASE \E p \in Procs, e \in EventIds : RecordBegin(p, e)
      BY <2>1, LedgerBegin
    <2>2. CASE \E p \in Procs : RecordAppend(p)
      BY <2>2, LedgerAppend
    <2>3. CASE \E p \in Procs : StopInAppend(p)
      BY <2>3, LedgerStopInAppend
    <2>4. CASE \E p \in Procs : RecordIndex(p) \/ StopInIndex(p)
      BY <2>4, LedgerIndex
    <2>5. CASE \E e \in EventIds : GetEvent(e)
      BY <2>5, LedgerGet
    <2>6. CASE CallRefused
      BY <2>6, LedgerRefused
    <2>7. CASE StopInRebuild
      BY <2>7, LedgerStopInRebuild
    <2>8. CASE UNCHANGED vars
      BY <2>8 DEF vars, LedgerInv, LedgerTypes, OneRecorder, IndexRight, EntriesRight, LockFree,
                  AppendReady, IndexReady, Intact, EvidenceIntact, Written
    <2> QED BY <2>1, <2>2, <2>3, <2>4, <2>5, <2>6, <2>7, <2>8 DEF Next
  <1> QED BY <1>1, <1>2, PTL DEF Spec

\* The audit ledger can be relied on through crashes, short writes and mixtures
\* of index pages: a later call never damages the evidence, get answers what the
\* file holds, and what record returned can be read while no fragment is left.
THEOREM LedgerStaysTrustworthy == Spec => []LedgerTrustworthy
  <1>1. LedgerInv => LedgerTrustworthy
    <2> SUFFICES ASSUME LedgerInv PROVE LedgerTrustworthy
      OBVIOUS
    <2>1. EntriesRight(IndexOf(rows)) /\ DOMAIN IndexOf(rows).events = ToSet(rows)
      BY BuiltIndexIsRight DEF LedgerInv, LedgerTypes
    <2>2. ASSUME NEW x, NEW e \in EventIds, EntriesRight(x), Verifies(x, e)
          PROVE  e \in Written
      BY <2>2, LedgerAssumption DEF EntriesRight, Verifies, Written, ToSet
    <2>3. ASSUME NEW e \in ToSet(rows) PROVE Verifies(IndexOf(rows), e)
      <3>1. e \in DOMAIN IndexOf(rows).events
        BY <2>1
      <3>2. IndexOf(rows).events[e] \in DOMAIN rows /\ rows[IndexOf(rows).events[e]] = e
        BY <2>1, <3>1 DEF EntriesRight
      <3>3. IndexOf(rows).events[e] <= Len(rows)
        BY <3>2 DEF LedgerInv, LedgerTypes
      <3> QED BY <3>1, <3>2, <3>3 DEF Verifies
    <2>4. LookupTruthful
      <3> SUFFICES ASSUME NEW e \in EventIds
                   PROVE  /\ Lookup(e) = "row" => e \in Written
                          /\ Lookup(e) = "none" => e \notin Written
        BY DEF LookupTruthful
      <3>1. Lookup(e) = "row" => e \in Written
        BY <2>1, <2>2, ReadyIndexCovers DEF Lookup
      <3>2. Lookup(e) = "none" => e \notin Written
        BY <2>3 DEF Lookup, Written
      <3> QED BY <3>1, <3>2
    <2>5. RecordedIsReadable
      <3> SUFFICES ASSUME NEW e \in returned, Torn \notin ToSet(rows) PROVE Lookup(e) = "row"
        BY DEF RecordedIsReadable
      <3>1. Intact
        BY NoFragmentIsIntact DEF LedgerInv
      <3>2. Verifies(IndexOf(rows), e)
        BY <2>3 DEF LedgerInv, Written
      <3> QED BY <3>1, <3>2 DEF Lookup
    <2> QED BY <2>4, <2>5 DEF LedgerInv, LedgerTrustworthy
  <1> QED BY <1>1, LedgerInvHolds, PTL

(***************************************************************************)
(* LocalCatalog.  An import that stops at any point leaves either files    *)
(* that belong together or a temporary file that makes list_actions refuse *)
(* the directory.  The argument needs what the files were before the       *)
(* import, how many of them are replaced, and that no import removes the   *)
(* temporary files of another one.                                         *)
(***************************************************************************)
ImportStates ==
    {"read", "resolve", "send", "peer", "chunk", "parse", "stage", "backup", "commit", "sync",
     "rollback", "clean", "give up"}

Renaming == {"commit", "sync", "rollback"}

Early == ImportStates \ (Renaming \cup {"clean", "give up"})

Importing(w) == w.at \in ImportStates

IsFiles(f) == DOMAIN f \subseteq Actions /\ f \in [DOMAIN f -> Versions]

ContractedScopes == {<<c[1], c[2], e>> : c \in Contracts, e \in LiveEnvironments}

\* The record of a runtime; the id of its import is older than the requests
\* that are still to come.
WorkFits(w, requests) ==
    /\ DOMAIN w = DOMAIN AtRest
    /\ w.plan \in Seq(Actions \X Versions)
    /\ w.done \in Nat
    /\ IsFiles(w.backup)
    /\ w.pending \in Seq(ContractedScopes)
    /\ Importing(w) => w.id \in Nat /\ w.id > requests
    /\ w.at \in Early => w.done = 0

\* A temporary file of another import, whose process died.
Foreign(w, temps) == \E temp \in temps : temp[2] # w.id

\* The files an import has not yet replaced are those it found.
Restorable(w, present) ==
    \A a \in Actions : (\A i \in 1 .. w.done : w.plan[i][1] # a) =>
        /\ a \in DOMAIN present <=> a \in DOMAIN w.backup
        /\ a \in DOMAIN present => present[a] = w.backup[a]

Completed(w) == w.at = "sync" /\ w.done = Len(w.plan)

\* How far an import may be when its process dies.
ImportSafe(w, present, temps, complete) ==
    /\ w.at \in ImportStates \ Renaming => present = complete \/ Foreign(w, temps)
    /\ w.at = "backup" => \A i \in 1 .. Len(w.plan) : <<"staged", w.id, i>> \in temps
    /\ w.at = "commit" => w.done < Len(w.plan) \/ w.plan = <<>>
    /\ w.at \in {"commit", "sync"} =>
          \A i \in (w.done + 1) .. Len(w.plan) : <<"staged", w.id, i>> \in temps
    /\ w.at = "rollback" => w.plan = <<>> \/ <<"staged", w.id, Len(w.plan)>> \in temps
    /\ w.at \in Renaming =>
          /\ w.done \in 0 .. Len(w.plan)
          /\ Restorable(w, present)
          /\ IF Completed(w) THEN present = complete
             ELSE complete = w.backup \/ Foreign(w, temps)

CatalogTypes ==
    /\ work = [r \in Runtimes |-> work[r]]
    /\ contexts = [r \in Runtimes |-> contexts[r]]
    /\ left \in [requests : Nat, publications : Nat]
    /\ \A temp \in litter : temp[2] \in Nat /\ temp[2] > left.requests
    /\ IsFiles(overlay)
    /\ \A r \in Runtimes : WorkFits(work[r], left.requests)

OneImport == \A r, q \in Runtimes : Importing(work[r]) /\ Importing(work[q]) => r = q

ImportsAreSafe ==
    ~damaged => \A r \in Runtimes :
        Importing(work[r]) => ImportSafe(work[r], overlay, litter, whole)

CatalogInv ==
    /\ CatalogTypes
    /\ OneImport
    /\ ImportsAreSafe
    /\ HalfImportsAreRefused
    /\ EvidenceIsTheActions

\* A runtime that does nothing satisfies every condition on a running import.
LEMMA IdleFits ==
    ASSUME NEW n \in Nat
    PROVE  WorkFits(AtRest, n) /\ AtRest.done = 0 /\ ~Importing(AtRest)
  <1>1. IsFiles(<<>>)
    BY DEF IsFiles
  <1> QED BY <1>1 DEF WorkFits, AtRest, Importing, ImportStates, Early

\* A step of one runtime that leaves the overlay's directory alone.
LEMMA CatalogFrame ==
    ASSUME CatalogInv, NEW r \in Runtimes,
           work' = [work EXCEPT ![r] = work'[r]],
           left' \in [requests : Nat, publications : Nat],
           left'.requests <= left.requests,
           UNCHANGED <<overlay, litter, whole, damaged>>,
           WorkFits(work'[r], left'.requests),
           Importing(work'[r]) => Importing(work[r]) \/ NobodyImports,
           Importing(work'[r]) /\ ~damaged => ImportSafe(work'[r], overlay, litter, whole),
           Importing(work[r]) /\ ~Importing(work'[r]) /\ ~damaged => overlay = whole \/ litter # {},
           contexts' = [q \in Runtimes |-> contexts'[q]],
           EvidenceIsTheActions'
    PROVE  CatalogInv'
  <1>1. /\ work' = [q \in Runtimes |-> work'[q]]
        /\ \A q \in Runtimes : q # r => work'[q] = work[q]
    BY DEF CatalogInv, CatalogTypes
  <1>2. \A q \in Runtimes : WorkFits(work'[q], left'.requests)
    <2> SUFFICES ASSUME NEW q \in Runtimes, q # r PROVE WorkFits(work[q], left'.requests)
      BY <1>1
    <2>1. WorkFits(work[q], left.requests) /\ left.requests \in Nat /\ left'.requests \in Nat
      BY DEF CatalogInv, CatalogTypes
    <2> QED BY <2>1 DEF WorkFits
  <1>3. CatalogTypes'
    <2>1. \A temp \in litter : temp[2] \in Nat /\ temp[2] > left'.requests
      BY DEF CatalogInv, CatalogTypes
    <2>2. IsFiles(overlay)'
      BY DEF CatalogInv, CatalogTypes, IsFiles
    <2> QED BY <1>1, <1>2, <2>1, <2>2 DEF CatalogTypes
  <1>4. OneImport'
    BY <1>1 DEF CatalogInv, OneImport, NobodyImports, Importing, ImportStates
  <1>5. ImportsAreSafe'
    BY <1>1 DEF CatalogInv, ImportsAreSafe
  <1>6. HalfImportsAreRefused'
    <2> SUFFICES ASSUME NobodyImports', ~damaged PROVE overlay = whole \/ litter # {}
      BY DEF HalfImportsAreRefused, Listable
    <2>1. ~Importing(work'[r])
      BY DEF NobodyImports, Importing, ImportStates
    <2>2. CASE Importing(work[r])
      BY <2>1, <2>2
    <2>3. CASE ~Importing(work[r])
      <3>1. NobodyImports
        BY <1>1, <2>3 DEF NobodyImports, Importing, ImportStates
      <3> QED BY <3>1 DEF CatalogInv, HalfImportsAreRefused, Listable
    <2> QED BY <2>2, <2>3
  <1> QED BY <1>3, <1>4, <1>5, <1>6 DEF CatalogInv

\* A step of the runtime that imports, in the overlay's directory.
LEMMA ImportFrame ==
    ASSUME CatalogInv, NEW r \in Runtimes, Importing(work[r]),
           work' = [work EXCEPT ![r] = work'[r]],
           UNCHANGED <<left, contexts>>,
           IsFiles(overlay'),
           \A temp \in litter' : temp[2] \in Nat /\ temp[2] > left.requests,
           damaged => damaged',
           WorkFits(work'[r], left.requests),
           ~damaged' => IF Importing(work'[r])
                        THEN ImportSafe(work'[r], overlay', litter', whole')
                        ELSE overlay' = whole' \/ litter' # {}
    PROVE  CatalogInv'
  <1>1. /\ work' = [q \in Runtimes |-> work'[q]]
        /\ \A q \in Runtimes : q # r => work'[q] = work[q] /\ ~Importing(work[q])
    BY DEF CatalogInv, CatalogTypes, OneImport
  <1>2. CatalogTypes'
    <2>1. \A q \in Runtimes : WorkFits(work'[q], left.requests)
      BY <1>1 DEF CatalogInv, CatalogTypes
    <2>2. /\ left \in [requests : Nat, publications : Nat]
          /\ contexts = [q \in Runtimes |-> contexts[q]]
      BY DEF CatalogInv, CatalogTypes
    <2> QED BY <1>1, <2>1, <2>2 DEF CatalogTypes
  <1>3. OneImport'
    BY <1>1 DEF OneImport
  <1>4. ImportsAreSafe'
    BY <1>1 DEF ImportsAreSafe
  <1>5. HalfImportsAreRefused'
    BY DEF HalfImportsAreRefused, Listable, NobodyImports, Importing, ImportStates
  <1>6. EvidenceIsTheActions'
    BY DEF CatalogInv, EvidenceIsTheActions
  <1> QED BY <1>2, <1>3, <1>4, <1>5, <1>6 DEF CatalogInv

\* What dies or gives up before a file is renamed, or after all are, leaves the
\* files of one import or a temporary file.
LEMMA StoppedImportIsRefused ==
    ASSUME CatalogInv, NEW r \in Runtimes, Importing(work[r]), ~damaged
    PROVE  overlay = whole \/ litter # {}
  <1> DEFINE w == work[r]
  <1>1. ImportSafe(w, overlay, litter, whole)
    BY DEF CatalogInv, ImportsAreSafe
  <1>2. WorkFits(w, left.requests) /\ IsFiles(overlay)
    BY DEF CatalogInv, CatalogTypes
  <1>3. /\ w.plan \in Seq(Actions \X Versions) /\ w.done \in Nat /\ Len(w.plan) \in Nat
        /\ IsFiles(w.backup)
    BY <1>2 DEF WorkFits
  <1> HIDE DEF w
  <1>4. CASE w.at \notin Renaming
    <2>1. w.at \in ImportStates \ Renaming
      BY <1>4 DEF Importing, w
    <2> QED BY <1>1, <2>1 DEF ImportSafe, Foreign
  <1>5. CASE w.at \in Renaming
    <2>1. /\ w.done \in 0 .. Len(w.plan)
          /\ Restorable(w, overlay)
          /\ IF Completed(w) THEN overlay = whole ELSE whole = w.backup \/ Foreign(w, litter)
      BY <1>1, <1>5 DEF ImportSafe
    <2>2. CASE Completed(w) \/ Foreign(w, litter)
      BY <2>1, <2>2 DEF Foreign
    <2>3. CASE ~Completed(w) /\ w.plan # <<>>
      <3>1. Len(w.plan) \in Nat \ {0}
        BY <1>3, <2>3
      <3>2. w.at \in {"commit", "sync"} => w.done < Len(w.plan)
        BY <1>1, <2>1, <2>3, <1>3 DEF ImportSafe, Completed
      <3>3. w.at \in {"commit", "sync"} => <<"staged", w.id, Len(w.plan)>> \in litter
        <4>1. ASSUME w.at \in {"commit", "sync"}
              PROVE  Len(w.plan) \in (w.done + 1) .. Len(w.plan)
          BY <1>3, <3>1, <3>2, <4>1
        <4> QED BY <1>1, <4>1 DEF ImportSafe
      <3>4. w.at = "rollback" => <<"staged", w.id, Len(w.plan)>> \in litter
        BY <1>1, <2>3 DEF ImportSafe
      <3> QED BY <1>5, <3>3, <3>4 DEF Renaming
    <2>4. CASE ~Completed(w) /\ w.plan = <<>> /\ whole = w.backup
      <3>1. w.done = 0
        BY <2>1, <2>4
      <3>2. \A a \in Actions : /\ a \in DOMAIN overlay <=> a \in DOMAIN w.backup
                               /\ a \in DOMAIN overlay => overlay[a] = w.backup[a]
        BY <2>1, <3>1 DEF Restorable
      <3>3. overlay = w.backup
        BY <1>2, <1>3, <3>2 DEF IsFiles
      <3> QED BY <2>4, <3>3
    <2> QED BY <2>1, <2>2, <2>3, <2>4
  <1> QED BY <1>4, <1>5

\* Fields of a runtime's record.
LEMMA RecordFields ==
    DOMAIN AtRest = {"at", "etag", "fetched", "plan", "done", "backup", "time", "chunks", "id",
                     "pending", "answer"}
  BY DEF AtRest

\* Moving on to another label, with or without progress of the remote read,
\* keeps the record fit.
LEMMA StepFits ==
    ASSUME NEW w, NEW n \in Nat, WorkFits(w, n), NEW v,
           DOMAIN v = DOMAIN w,
           \A f \in {"plan", "done", "backup", "id", "pending"} : v[f] = w[f],
           Importing(v) => Importing(w),
           v.at \in Early => w.at \in Early
    PROVE  /\ WorkFits(v, n)
           /\ v.plan = w.plan /\ v.done = w.done /\ v.backup = w.backup /\ v.id = w.id
  BY RecordFields DEF WorkFits

\* A request that is about something else leaves imports alone.
LEMMA QuietStep ==
    ASSUME CatalogInv, NEW r \in Runtimes, NEW v, Set(r, v),
           ~Importing(work[r]), ~Importing(v),
           WorkFits(v, left.requests),
           left' \in [requests : Nat, publications : Nat],
           left'.requests <= left.requests,
           UNCHANGED <<overlay, litter, whole, damaged>>,
           contexts' = [q \in Runtimes |-> contexts'[q]],
           EvidenceIsTheActions'
    PROVE  CatalogInv'
  <1>1. work' = [work EXCEPT ![r] = work'[r]] /\ work'[r] = v
    BY DEF Set, CatalogInv, CatalogTypes
  <1>2. WorkFits(v, left'.requests)
    BY DEF WorkFits
  <1> QED BY <1>1, <1>2, CatalogFrame

\* The import moves on without touching the overlay's directory.
LEMMA EarlyStep ==
    ASSUME CatalogInv, NEW r \in Runtimes, NEW v, Set(r, v),
           work[r].at \in ImportStates \ Renaming,
           WorkFits(v, left.requests),
           Importing(v) => v.id = work[r].id /\ v.at \notin Renaming \cup {"backup"},
           UNCHANGED <<overlay, litter, whole, damaged, left, contexts>>
    PROVE  CatalogInv'
  <1>1. work' = [work EXCEPT ![r] = work'[r]] /\ work'[r] = v
    BY DEF Set, CatalogInv, CatalogTypes
  <1>2. Importing(work[r])
    BY DEF Importing
  <1>3. /\ IsFiles(overlay)
        /\ \A temp \in litter : temp[2] \in Nat /\ temp[2] > left.requests
        /\ ~damaged => ImportSafe(work[r], overlay, litter, whole)
    BY <1>2 DEF CatalogInv, CatalogTypes, ImportsAreSafe
  <1>4. ~damaged => overlay = whole \/ Foreign(work[r], litter)
    BY <1>3 DEF ImportSafe
  <1>5. ~damaged /\ Importing(v) => ImportSafe(v, overlay, litter, whole)
    BY <1>4 DEF ImportSafe, Importing, Renaming, Foreign
  <1>6. ~damaged /\ ~Importing(v) => overlay = whole \/ litter # {}
    BY <1>4 DEF Foreign
  <1> QED BY <1>1, <1>2, <1>3, <1>5, <1>6, ImportFrame

\* What holds of a runtime's record and of the counters.
LEMMA CatalogFacts ==
    ASSUME CatalogInv, NEW r \in Runtimes
    PROVE  /\ WorkFits(work[r], left.requests)
           /\ left.requests \in Nat /\ left \in [requests : Nat, publications : Nat]
           /\ DOMAIN work[r] = DOMAIN AtRest
           /\ contexts = [q \in Runtimes |-> contexts[q]]
           /\ UNCHANGED contexts => EvidenceIsTheActions'
  BY DEF CatalogInv, CatalogTypes, WorkFits, EvidenceIsTheActions

\* The records of a refresh under way.
LEMMA RefreshFields ==
    ASSUME CatalogInv, NEW r \in Runtimes, NEW label \in {"cached", "store", "local"}, NEW x
    PROVE  /\ WorkFits([work[r] EXCEPT !.at = label], left.requests)
           /\ ~Importing([work[r] EXCEPT !.at = label])
           /\ WorkFits([work[r] EXCEPT !.fetched = x, !.at = label], left.requests)
           /\ ~Importing([work[r] EXCEPT !.fetched = x, !.at = label])
  <1>1. /\ WorkFits(work[r], left.requests)
        /\ left.requests \in Nat
        /\ DOMAIN work[r] = DOMAIN AtRest
    BY CatalogFacts
  <1>2. ASSUME NEW v, \/ v = [work[r] EXCEPT !.at = label]
                      \/ v = [work[r] EXCEPT !.fetched = x, !.at = label]
        PROVE  WorkFits(v, left.requests) /\ ~Importing(v)
    <2>1. /\ DOMAIN v = DOMAIN work[r] /\ v.at = label
          /\ \A f \in {"plan", "done", "backup", "id", "pending"} : v[f] = work[r][f]
      BY <1>1, <1>2, RecordFields
    <2>2. ~Importing(v)
      BY <2>1 DEF Importing, ImportStates
    <2>3. WorkFits(v, left.requests)
      BY <1>1, <2>1, <2>2, StepFits DEF Early, Importing
    <2> QED BY <2>2, <2>3
  <1> QED BY <1>2

\* Refreshing the catalog and merging it with the overlay.
LEMMA RefreshSteps ==
    ASSUME CatalogInv, NEW r \in Runtimes,
           \/ RefreshCatalog(r) \/ CloudAnswers(r) \/ ReplaceGlobal(r) \/ ListGlobal(r)
           \/ ReplaceView(r) \/ AnswerContexts(r)
    PROVE  CatalogInv'
  <1>1. /\ WorkFits(work[r], left.requests)
        /\ left.requests \in Nat /\ left \in [requests : Nat, publications : Nat]
        /\ DOMAIN work[r] = DOMAIN AtRest
        /\ contexts = [q \in Runtimes |-> contexts[q]]
        /\ UNCHANGED contexts => EvidenceIsTheActions'
    BY CatalogFacts
  <1>2. WorkFits(AtRest, left.requests) /\ ~Importing(AtRest)
    BY <1>1, IdleFits
  <1>3. /\ UNCHANGED <<overlay, litter, whole, damaged, contexts>>
        /\ ~Importing(work[r])
    BY DEF RefreshCatalog, CloudAnswers, ReplaceGlobal, ListGlobal, ReplaceView, AnswerContexts,
           Importing, ImportStates
  <1>4. /\ left' \in [requests : Nat, publications : Nat]
        /\ left'.requests <= left.requests
    <2>1. CASE RefreshCatalog(r)
      BY <1>1, <2>1 DEF RefreshCatalog
    <2>2. CASE left' = left
      BY <1>1, <2>2
    <2> QED BY <2>1, <2>2 DEF CloudAnswers, ReplaceGlobal, ListGlobal, ReplaceView, AnswerContexts
  <1>5. \E v : Set(r, v) /\ WorkFits(v, left.requests) /\ ~Importing(v)
    <2>1. CASE RefreshCatalog(r)
      <3> DEFINE v == [AtRest EXCEPT !.at = "request", !.etag = cache]
      <3>1. /\ DOMAIN v = DOMAIN AtRest /\ v.at = "request"
            /\ \A f \in {"plan", "done", "backup", "id", "pending"} : v[f] = AtRest[f]
        BY RecordFields
      <3>2. ~Importing(v)
        BY <3>1 DEF Importing, ImportStates
      <3>3. WorkFits(v, left.requests)
        BY <1>1, <1>2, <3>1, <3>2, StepFits DEF Early, Importing
      <3> QED BY <2>1, <3>2, <3>3 DEF RefreshCatalog
    <2>2. CASE ReplaceView(r) \/ AnswerContexts(r)
      BY <1>2, <2>2 DEF ReplaceView, AnswerContexts, Finishes
    <2>3. CASE CloudAnswers(r) \/ ReplaceGlobal(r) \/ ListGlobal(r)
      <3>1. CASE Step(r, "cached") \/ Step(r, "local")
        BY <3>1, RefreshFields DEF Step
      <3>2. CASE Set(r, [work[r] EXCEPT !.fetched = cloud, !.at = "store"])
        BY <3>2, RefreshFields
      <3>3. CASE ListGlobal(r)
        BY <3>3, RefreshFields DEF ListGlobal
      <3> QED BY <2>3, <3>1, <3>2, <3>3 DEF CloudAnswers, ReplaceGlobal
    <2> QED BY <2>1, <2>2, <2>3
  <1> QED BY <1>1, <1>3, <1>4, <1>5, QuietStep

\* Evidence is asked about only for scopes with a semantic contract.
LEMMA AskedAreContracted ==
    ASSUME NEW r \in Runtimes, NEW e \in LiveEnvironments
    PROVE  SetToSeq(EvidenceScopes(r, e)) \in Seq(ContractedScopes)
  <1> DEFINE S == EvidenceScopes(r, e)
             f == [s \in S |-> <<s[1], s[2]>>]
  <1>1. \A s \in S : /\ s = <<s[1], s[2], e>> /\ <<s[1], s[2]>> \in Contracts
    <2> SUFFICES ASSUME NEW s \in S
                 PROVE  s = <<s[1], s[2], e>> /\ <<s[1], s[2]>> \in Contracts
      OBVIOUS
    <2>1. PICK a \in DOMAIN view[r] :
             <<a, view[r][a]>> \in Contracts /\ s = <<a, view[r][a], e>>
      BY DEF EvidenceScopes
    <2>2. s[1] = a /\ s[2] = view[r][a]
      BY <2>1
    <2> QED BY <2>1, <2>2
  <1>2. f \in Injection(S, Contracts)
    BY <1>1 DEF Injection, IsInjective
  <1>3. IsFiniteSet(S)
    BY <1>2, FS_Injection, CatalogAssumption
  <1>4. Cardinality(S) \in Nat /\ ExistsBijection(1 .. Cardinality(S), S)
    BY <1>3, FS_CardinalityType
  <1>5. \E g \in [1 .. Cardinality(S) -> S] : IsInjective(g)
    BY <1>4 DEF ExistsBijection, Bijection, Injection
  <1>6. SetToSeq(S) \in [1 .. Cardinality(S) -> S]
    BY <1>5 DEF SetToSeq
  <1>7. S \subseteq ContractedScopes
    <2> SUFFICES ASSUME NEW s \in S PROVE s \in ContractedScopes
      OBVIOUS
    <2>1. s = <<s[1], s[2], e>> /\ <<s[1], s[2]>> \in Contracts
      BY <1>1
    <2> QED BY <2>1 DEF ContractedScopes
  <1>8. SetToSeq(S) \in [1 .. Cardinality(S) -> ContractedScopes]
    BY <1>6, <1>7
  <1> QED BY <1>4, <1>8

\* Asking the service for its contexts changes only the asking runtime.
LEMMA AskStep ==
    ASSUME CatalogInv, NEW r \in Runtimes, AskContexts(r)
    PROVE  CatalogInv'
  <1>1. /\ left.requests \in Nat /\ left \in [requests : Nat, publications : Nat]
        /\ contexts = [q \in Runtimes |-> contexts[q]]
    BY CatalogFacts
  <1>2. WorkFits(AtRest, left.requests)
    BY <1>1, IdleFits
  <1>3. /\ UNCHANGED <<overlay, litter, whole, damaged>>
        /\ ~Importing(work[r])
        /\ contexts' = [contexts EXCEPT ![r] = {}]
        /\ left' = [left EXCEPT !.requests = @ - 1] /\ left.requests > 0
    BY DEF AskContexts, Importing, ImportStates
  <1>4. /\ left' \in [requests : Nat, publications : Nat]
        /\ left'.requests <= left.requests
    BY <1>1, <1>3
  <1>5. /\ contexts' = [q \in Runtimes |-> contexts'[q]]
        /\ EvidenceIsTheActions'
    BY <1>1, <1>3 DEF CatalogInv, EvidenceIsTheActions
  <1>6. PICK p \in Seq(ContractedScopes) :
           Set(r, [AtRest EXCEPT !.at = "resolve evidence", !.pending = p])
    <2>1. PICK requested \in LiveEnvironments \cup {"none"} :
            LET environment == IF requested = "none" THEN ValidatedEnvironment ELSE requested
                asked == IF environment = "none" THEN {} ELSE EvidenceScopes(r, environment)
            IN  Set(r, [AtRest EXCEPT !.at = "resolve evidence", !.pending = SetToSeq(asked)])
      BY DEF AskContexts
    <2> DEFINE environment == IF requested = "none" THEN ValidatedEnvironment ELSE requested
               asked == IF environment = "none" THEN {} ELSE EvidenceScopes(r, environment)
    <2>2. environment = "none" \/ environment \in LiveEnvironments
      BY DEF ValidatedEnvironment
    <2>3. SetToSeq({}) \in Seq(ContractedScopes)
      <3>1. Cardinality({}) = 0
        BY FS_EmptySet
      <3>2. \E g \in [1 .. 0 -> {}] : IsInjective(g)
        <4>1. [i \in {} |-> i] \in [1 .. 0 -> {}] /\ IsInjective([i \in {} |-> i])
          BY DEF IsInjective
        <4> QED BY <4>1
      <3>3. SetToSeq({}) \in [1 .. 0 -> {}]
        BY <3>1, <3>2 DEF SetToSeq
      <3> QED BY <3>3
    <2>4. SetToSeq(asked) \in Seq(ContractedScopes)
      <3>1. CASE environment = "none"
        BY <2>3, <3>1
      <3>2. CASE environment # "none"
        BY <2>2, <3>2, AskedAreContracted
      <3> QED BY <3>1, <3>2
    <2> QED BY <2>1, <2>4
  <1> DEFINE v == [AtRest EXCEPT !.at = "resolve evidence", !.pending = p]
  <1>7. /\ DOMAIN v = DOMAIN AtRest /\ v.at = "resolve evidence" /\ v.pending = p
        /\ v.plan = AtRest.plan /\ v.done = AtRest.done /\ v.backup = AtRest.backup
    BY RecordFields
  <1>8. ~Importing(v)
    BY <1>7 DEF Importing, ImportStates
  <1>9. WorkFits(v, left.requests)
    BY <1>2, <1>7, <1>8 DEF WorkFits, Early, Importing
  <1> QED BY <1>3, <1>4, <1>5, <1>6, <1>8, <1>9, QuietStep

\* The cloud answers a batch, and the client checks the answer.
LEMMA AnswerSteps ==
    ASSUME CatalogInv, NEW r \in Runtimes, ResolveValidations(r) \/ ClientCheck(r)
    PROVE  CatalogInv'
  <1>1. /\ WorkFits(work[r], left.requests)
        /\ left.requests \in Nat /\ left \in [requests : Nat, publications : Nat]
        /\ DOMAIN work[r] = DOMAIN AtRest
        /\ contexts = [q \in Runtimes |-> contexts[q]]
        /\ UNCHANGED contexts => EvidenceIsTheActions'
    BY CatalogFacts
  <1>2. /\ UNCHANGED <<overlay, litter, whole, damaged, contexts, left>>
        /\ ~Importing(work[r])
    <2>1. /\ UNCHANGED <<overlay, litter, whole, damaged, contexts, left>>
          /\ work[r].at = "resolve evidence" \/ work[r].at = "client check"
      BY DEF ResolveValidations, ClientCheck
    <2> QED BY <2>1 DEF Importing, ImportStates
  <1>3. ASSUME NEW label \in {"client check", "runtime check"}, NEW x
        PROVE  /\ WorkFits([work[r] EXCEPT !.answer = x, !.at = label], left.requests)
               /\ ~Importing([work[r] EXCEPT !.answer = x, !.at = label])
    <2> DEFINE v == [work[r] EXCEPT !.answer = x, !.at = label]
    <2>1. /\ DOMAIN v = DOMAIN work[r] /\ v.at = label
          /\ \A f \in {"plan", "done", "backup", "id", "pending"} : v[f] = work[r][f]
      BY <1>1, RecordFields
    <2>2. ~Importing(v)
      BY <2>1 DEF Importing, ImportStates
    <2>3. WorkFits(v, left.requests)
      BY <1>1, <2>1, <2>2, StepFits DEF Early, Importing
    <2> QED BY <2>2, <2>3
  <1>4. \E v : Set(r, v) /\ WorkFits(v, left.requests) /\ ~Importing(v)
    <2>1. CASE ResolveValidations(r)
      <3>1. PICK x : Set(r, [work[r] EXCEPT !.answer = x, !.at = "client check"])
        BY <2>1 DEF ResolveValidations
      <3> QED BY <1>3, <3>1
    <2>2. CASE ClientCheck(r)
      <3> DEFINE batch == Batch(r)
                 foreign == \E i \in 1 .. Len(batch) :
                         work[r].answer[i] # NoEvidence /\ work[r].answer[i].scope # batch[i]
                 checked == [i \in 1 .. Len(batch) |->
                               IF foreign \/ ~Admissible(work[r].answer[i], instant) THEN NoEvidence
                               ELSE work[r].answer[i]]
      <3>1. Set(r, [work[r] EXCEPT !.answer = checked, !.at = "runtime check"])
        BY <2>2 DEF ClientCheck
      <3> HIDE DEF checked
      <3> QED BY <1>3, <3>1
    <2> QED BY <2>1, <2>2
  <1> QED BY <1>1, <1>2, <1>4, QuietStep

\* The runtime checks the answer with its own clock before it shows it.
LEMMA CheckStep ==
    ASSUME CatalogInv, NEW r \in Runtimes, RuntimeCheck(r)
    PROVE  CatalogInv'
  <1>1. /\ WorkFits(work[r], left.requests)
        /\ left.requests \in Nat /\ left \in [requests : Nat, publications : Nat]
        /\ DOMAIN work[r] = DOMAIN AtRest
        /\ contexts = [q \in Runtimes |-> contexts[q]]
    BY CatalogFacts
  <1> DEFINE batch == Batch(r)
             held == {i \in 1 .. Len(batch) : SelectionHolds(work[r].answer[i], batch[i], instant)}
             new == {[scope |-> batch[i],
                      evidence |-> IF i \in held THEN work[r].answer[i] ELSE NoEvidence,
                      at |-> instant] : i \in 1 .. Len(batch)}
             pending == work[r].pending
             rest == SubSeq(pending, BatchSize + 1, Len(pending))
             v == [work[r] EXCEPT !.pending = rest, !.answer = <<>>, !.at = "resolve evidence"]
  <1>2. /\ UNCHANGED <<overlay, litter, whole, damaged, left>>
        /\ ~Importing(work[r])
        /\ contexts' = [contexts EXCEPT ![r] = @ \cup new]
        /\ Set(r, v)
    BY DEF RuntimeCheck, Importing, ImportStates
  <1>3. pending \in Seq(ContractedScopes) /\ BatchSize \in Nat \ {0}
    BY <1>1, CatalogAssumption DEF WorkFits
  <1>4. batch \in Seq(ContractedScopes) /\ rest \in Seq(ContractedScopes)
    <2>1. batch \in Seq(ContractedScopes)
      BY <1>3 DEF Batch
    <2>2. rest \in Seq(ContractedScopes)
      BY <1>3
    <2> QED BY <2>1, <2>2
  <1>5. WorkFits(v, left.requests) /\ ~Importing(v)
    <2>1. /\ DOMAIN v = DOMAIN work[r] /\ v.at = "resolve evidence" /\ v.pending = rest
          /\ v.plan = work[r].plan /\ v.done = work[r].done /\ v.backup = work[r].backup
      BY <1>1, RecordFields
    <2>2. ~Importing(v)
      BY <2>1 DEF Importing, ImportStates
    <2> HIDE DEF v, rest
    <2> QED BY <1>1, <1>4, <2>1, <2>2 DEF WorkFits, Early, Importing
  <1>6. \A c \in new :
          /\ <<c.scope[1], c.scope[2]>> \in Contracts
          /\ c.evidence # NoEvidence => c.evidence.scope = c.scope /\ c.at < c.evidence.expires
    <2> SUFFICES ASSUME NEW i \in 1 .. Len(batch)
                 PROVE  /\ <<batch[i][1], batch[i][2]>> \in Contracts
                        /\ i \in held => /\ work[r].answer[i].scope = batch[i]
                                         /\ instant < work[r].answer[i].expires
      OBVIOUS
    <2>1. batch[i] \in ContractedScopes
      BY <1>4
    <2>2. PICK c \in Contracts, e \in LiveEnvironments : batch[i] = <<c[1], c[2], e>>
      BY <2>1 DEF ContractedScopes
    <2>3. batch[i][1] = c[1] /\ batch[i][2] = c[2] /\ c = <<c[1], c[2]>>
      BY <2>2, CatalogAssumption
    <2>4. <<batch[i][1], batch[i][2]>> \in Contracts
      BY <2>3
    <2>5. i \in held => work[r].answer[i].scope = batch[i] /\ instant < work[r].answer[i].expires
      BY DEF SelectionHolds, Admissible
    <2> QED BY <2>4, <2>5
  <1> HIDE DEF new, v
  <1>7. EvidenceIsTheActions'
    BY <1>1, <1>2, <1>6 DEF CatalogInv, EvidenceIsTheActions
  <1>8. contexts' = [q \in Runtimes |-> contexts'[q]]
    BY <1>1, <1>2
  <1> QED BY <1>1, <1>2, <1>5, <1>7, <1>8, QuietStep

\* An import begins: its number is new, so the temporary files there are of
\* another one.
LEMMA BeginImport ==
    ASSUME CatalogInv, NEW r \in Runtimes, ImportSpec(r)
    PROVE  CatalogInv'
  <1>1. /\ left.requests \in Nat /\ left \in [requests : Nat, publications : Nat]
        /\ contexts = [q \in Runtimes |-> contexts[q]]
        /\ UNCHANGED contexts => EvidenceIsTheActions'
    BY CatalogFacts
  <1>2. WorkFits(AtRest, left.requests) /\ AtRest.done = 0
    BY <1>1, IdleFits
  <1>3. PICK first \in {"resolve", "read"} : Accept(r, first)
    BY DEF ImportSpec
  <1> DEFINE v == [AtRest EXCEPT !.at = first, !.id = left.requests]
  <1>4. /\ NobodyImports
        /\ UNCHANGED <<overlay, litter, whole, damaged, contexts>>
        /\ left.requests > 0 /\ left' = [left EXCEPT !.requests = @ - 1]
        /\ Set(r, v)
    BY <1>3 DEF ImportSpec, Accept
  <1>5. /\ left' \in [requests : Nat, publications : Nat]
        /\ left'.requests < left.requests /\ left'.requests \in Nat
    BY <1>1, <1>4
  <1>6. /\ DOMAIN v = DOMAIN AtRest /\ v.at = first /\ v.id = left.requests
        /\ v.plan = AtRest.plan /\ v.done = AtRest.done /\ v.backup = AtRest.backup
        /\ v.pending = AtRest.pending
    BY RecordFields
  <1> HIDE DEF v
  <1>7. WorkFits(v, left'.requests) /\ Importing(v)
    BY <1>1, <1>2, <1>5, <1>6 DEF WorkFits, Importing, ImportStates
  <1>8. ~Importing(work[r])
    BY <1>4 DEF NobodyImports, Importing, ImportStates
  <1>9. ~damaged => ImportSafe(v, overlay, litter, whole)
    <2> SUFFICES ASSUME ~damaged PROVE ImportSafe(v, overlay, litter, whole)
      OBVIOUS
    <2>1. overlay = whole \/ litter # {}
      BY <1>4 DEF CatalogInv, HalfImportsAreRefused, Listable
    <2>2. overlay = whole \/ Foreign(v, litter)
      BY <1>1, <1>6, <2>1 DEF CatalogInv, CatalogTypes, Foreign
    <2> QED BY <1>6, <2>2 DEF ImportSafe, Renaming
  <1>10. work' = [work EXCEPT ![r] = work'[r]] /\ work'[r] = v
    BY <1>4 DEF Set, CatalogInv, CatalogTypes
  <1>11. left'.requests <= left.requests
    BY <1>1, <1>5
  <1> QED BY <1>1, <1>4, <1>5, <1>7, <1>8, <1>9, <1>10, <1>11, CatalogFrame

\* The specification is read and parsed.
LEMMA ReadSteps ==
    ASSUME CatalogInv, NEW r \in Runtimes,
           ReadLocalSource(r) \/ RemoteStep(r) \/ RemoteChunk(r) \/ Prepare(r)
    PROVE  CatalogInv'
  <1>1. /\ WorkFits(work[r], left.requests)
        /\ left.requests \in Nat
        /\ DOMAIN work[r] = DOMAIN AtRest
    BY CatalogFacts
  <1>2. /\ UNCHANGED <<overlay, litter, whole, damaged, left, contexts>>
        /\ work[r].at \in {"read", "resolve", "send", "peer", "chunk", "parse"}
    BY DEF ReadLocalSource, RemoteStep, RemoteChunk, Prepare
  <1>3. work[r].at \in ImportStates \ Renaming /\ Importing(work[r])
    BY <1>2 DEF ImportStates, Renaming, Importing
  <1>4. ASSUME NEW v, Set(r, v), DOMAIN v = DOMAIN work[r],
               \A f \in {"plan", "done", "backup", "id", "pending"} : v[f] = work[r][f],
               v.at \in {"send", "peer", "chunk", "parse"}
        PROVE  CatalogInv'
    <2>1. work[r].at \in Early
      BY <1>2 DEF Early, ImportStates, Renaming
    <2>2. WorkFits(v, left.requests) /\ v.id = work[r].id
      BY <1>1, <1>3, <1>4, <2>1, StepFits
    <2>3. v.at \notin Renaming \cup {"backup"}
      BY <1>4 DEF Renaming
    <2> QED BY <1>2, <1>3, <1>4, <2>2, <2>3, EarlyStep
  <1>5. CASE ReadLocalSource(r)
    <2> DEFINE v == [work[r] EXCEPT !.at = "parse"]
    <2>1. Set(r, v)
      BY <1>5 DEF ReadLocalSource, Step
    <2>2. /\ DOMAIN v = DOMAIN work[r] /\ v.at = "parse"
          /\ \A f \in {"plan", "done", "backup", "id", "pending"} : v[f] = work[r][f]
      BY <1>1, RecordFields
    <2> QED BY <1>4, <2>1, <2>2
  <1>6. CASE RemoteStep(r)
    <2>1. PICK v : /\ Set(r, v)
                   /\ \/ v = [work[r] EXCEPT !.at = "send", !.time = @ + 1]
                      \/ v = [work[r] EXCEPT !.at = "peer", !.time = @ + 1]
                      \/ v = [work[r] EXCEPT !.at = "chunk"]
      BY <1>6 DEF RemoteStep
    <2>2. /\ DOMAIN v = DOMAIN work[r] /\ v.at \in {"send", "peer", "chunk"}
          /\ \A f \in {"plan", "done", "backup", "id", "pending"} : v[f] = work[r][f]
      BY <1>1, <2>1, RecordFields
    <2> QED BY <1>4, <2>1, <2>2
  <1>7. CASE RemoteChunk(r)
    <2>1. work[r].at = "chunk"
      BY <1>7 DEF RemoteChunk
    <2>2. PICK v : /\ Set(r, v)
                   /\ \/ v = [work[r] EXCEPT !.chunks = @ + 1, !.time = @ + 1]
                      \/ v = [work[r] EXCEPT !.at = "parse"]
      BY <1>7 DEF RemoteChunk, Step
    <2>3. /\ DOMAIN v = DOMAIN work[r] /\ v.at \in {"chunk", "parse"}
          /\ \A f \in {"plan", "done", "backup", "id", "pending"} : v[f] = work[r][f]
      BY <1>1, <2>1, <2>2, RecordFields
    <2> QED BY <1>4, <2>2, <2>3
  <1>8. CASE Prepare(r)
    <2>1. PICK plan \in Imports :
             IF Unique(plan) THEN Set(r, [work[r] EXCEPT !.plan = plan, !.at = "stage"])
             ELSE Finishes(r)
      BY <1>8 DEF Prepare
    <2>2. CASE Unique(plan)
      <3> DEFINE v == [work[r] EXCEPT !.plan = plan, !.at = "stage"]
      <3>1. /\ DOMAIN v = DOMAIN work[r] /\ v.at = "stage" /\ v.plan = plan
            /\ v.done = work[r].done /\ v.backup = work[r].backup /\ v.id = work[r].id
            /\ v.pending = work[r].pending
        BY <1>1, RecordFields
      <3> HIDE DEF v
      <3>2. WorkFits(v, left.requests)
        <4>1. work[r].at \in Early
          BY <1>2 DEF Early, ImportStates, Renaming
        <4> QED BY <1>1, <1>3, <3>1, <4>1, CatalogAssumption DEF WorkFits
      <3>3. v.at \notin Renaming \cup {"backup"}
        BY <3>1 DEF Renaming
      <3>4. Set(r, v)
        BY <2>1, <2>2 DEF v
      <3> QED BY <1>2, <1>3, <3>1, <3>2, <3>3, <3>4, EarlyStep
    <2>3. CASE ~Unique(plan)
      <3>1. Set(r, AtRest)
        BY <2>1, <2>3 DEF Finishes
      <3>2. WorkFits(AtRest, left.requests) /\ ~Importing(AtRest)
        BY <1>1, IdleFits
      <3> QED BY <1>2, <1>3, <3>1, <3>2, EarlyStep
    <2> QED BY <2>2, <2>3
  <1> QED BY <1>5, <1>6, <1>7, <1>8

\* What holds of the runtime that imports.
LEMMA ImporterFacts ==
    ASSUME CatalogInv, NEW r \in Runtimes, Importing(work[r])
    PROVE  /\ work[r].id \in Nat /\ work[r].id > left.requests
           /\ work[r].plan \in Seq(Actions \X Versions) /\ Len(work[r].plan) \in Nat
           /\ work[r].done \in Nat /\ IsFiles(work[r].backup) /\ IsFiles(overlay)
           /\ \A temp \in litter : temp[2] \in Nat /\ temp[2] > left.requests
           /\ ~damaged => ImportSafe(work[r], overlay, litter, whole)
           /\ \A v : Set(r, v) => work' = [work EXCEPT ![r] = work'[r]] /\ work'[r] = v
  <1>1. WorkFits(work[r], left.requests)
    BY CatalogFacts
  <1>2. /\ work[r].id \in Nat /\ work[r].id > left.requests
        /\ work[r].plan \in Seq(Actions \X Versions) /\ Len(work[r].plan) \in Nat
        /\ work[r].done \in Nat /\ IsFiles(work[r].backup)
    BY <1>1 DEF WorkFits
  <1>3. /\ IsFiles(overlay)
        /\ \A temp \in litter : temp[2] \in Nat /\ temp[2] > left.requests
        /\ ~damaged => ImportSafe(work[r], overlay, litter, whole)
    BY DEF CatalogInv, CatalogTypes, ImportsAreSafe
  <1>4. \A v : Set(r, v) => work' = [work EXCEPT ![r] = work'[r]] /\ work'[r] = v
    BY DEF Set, CatalogInv, CatalogTypes
  <1> QED BY <1>2, <1>3, <1>4

\* Temporary files beside every destination.
LEMMA StageStep ==
    ASSUME CatalogInv, NEW r \in Runtimes, StageImport(r)
    PROVE  CatalogInv'
  <1> DEFINE w == work[r]
             v == [work[r] EXCEPT !.at = "backup"]
  <1>1. /\ WorkFits(w, left.requests) /\ left.requests \in Nat
        /\ DOMAIN w = DOMAIN AtRest
    BY CatalogFacts
  <1>2. /\ w.at = "stage" /\ Set(r, v)
        /\ litter' = litter \cup {<<"staged", w.id, i>> : i \in 1 .. Len(w.plan)}
        /\ UNCHANGED <<overlay, whole, damaged, left, contexts>>
    BY DEF StageImport, Step, Staged
  <1>3. Importing(w) /\ w.at \in Early /\ w.at \notin Renaming
    BY <1>2 DEF Importing, ImportStates, Early, Renaming
  <1>4. /\ DOMAIN v = DOMAIN w /\ v.at = "backup"
        /\ \A f \in {"plan", "done", "backup", "id", "pending"} : v[f] = w[f]
    BY <1>1, RecordFields
  <1>5. /\ w.id \in Nat /\ w.id > left.requests /\ IsFiles(overlay)
        /\ \A temp \in litter : temp[2] \in Nat /\ temp[2] > left.requests
        /\ ~damaged => ImportSafe(w, overlay, litter, whole)
        /\ work' = [work EXCEPT ![r] = work'[r]] /\ work'[r] = v
    BY <1>2, <1>3, ImporterFacts
  <1> HIDE DEF v, w
  <1>6. /\ WorkFits(v, left.requests)
        /\ v.plan = w.plan /\ v.done = w.done /\ v.backup = w.backup /\ v.id = w.id
    BY <1>1, <1>3, <1>4, StepFits
  <1>7. \A temp \in litter' : temp[2] \in Nat /\ temp[2] > left.requests
    BY <1>2, <1>5
  <1>8. Importing(v) /\ v.at \in ImportStates \ Renaming
    BY <1>4 DEF Importing, ImportStates, Renaming
  <1>9. ~damaged => ImportSafe(v, overlay, litter', whole)
    <2> SUFFICES ASSUME ~damaged PROVE ImportSafe(v, overlay, litter', whole)
      OBVIOUS
    <2>1. overlay = whole \/ Foreign(w, litter)
      BY <1>3, <1>5 DEF ImportSafe, Importing
    <2>2. overlay = whole \/ Foreign(v, litter')
      BY <1>2, <1>6, <2>1 DEF Foreign
    <2>3. \A i \in 1 .. Len(v.plan) : <<"staged", v.id, i>> \in litter'
      BY <1>2, <1>6
    <2> QED BY <1>4, <2>2, <2>3 DEF ImportSafe, Renaming
  <1>10. Importing(work[r])
    BY <1>3 DEF w
  <1> QED BY <1>2, <1>5, <1>6, <1>7, <1>8, <1>9, <1>10, ImportFrame

\* Copies of the files that are there: from here on they can be restored.
LEMMA BackUpStep ==
    ASSUME CatalogInv, NEW r \in Runtimes, BackUp(r)
    PROVE  CatalogInv'
  <1> DEFINE w == work[r]
             v == [work[r] EXCEPT !.at = "commit", !.backup = overlay]
             copies == {<<"backup", w.id, i>> : i \in Existing(w.plan)}
  <1>1. /\ WorkFits(w, left.requests) /\ left.requests \in Nat
        /\ DOMAIN w = DOMAIN AtRest
    BY CatalogFacts
  <1>2. /\ w.at = "backup" /\ Set(r, v)
        /\ litter' = litter \cup copies
        /\ UNCHANGED <<overlay, whole, damaged, left, contexts>>
    BY DEF BackUp, Backup
  <1>3. Importing(w) /\ w.at \in Early /\ w.at \notin Renaming
    BY <1>2 DEF Importing, ImportStates, Early, Renaming
  <1>4. /\ DOMAIN v = DOMAIN w /\ v.at = "commit" /\ v.backup = overlay
        /\ v.plan = w.plan /\ v.done = w.done /\ v.id = w.id /\ v.pending = w.pending
    BY <1>1, RecordFields
  <1>5. /\ w.id \in Nat /\ w.id > left.requests /\ IsFiles(overlay)
        /\ w.plan \in Seq(Actions \X Versions) /\ Len(w.plan) \in Nat
        /\ \A temp \in litter : temp[2] \in Nat /\ temp[2] > left.requests
        /\ ~damaged => ImportSafe(w, overlay, litter, whole)
        /\ work' = [work EXCEPT ![r] = work'[r]] /\ work'[r] = v
    BY <1>2, <1>3, ImporterFacts
  <1>6. w.done = 0
    BY <1>1, <1>3 DEF WorkFits
  <1>7. \A temp \in copies : temp[2] = w.id
    OBVIOUS
  <1> HIDE DEF v, w, copies
  <1>8. WorkFits(v, left.requests) /\ Importing(v)
    BY <1>1, <1>3, <1>4, <1>5 DEF WorkFits, Importing, ImportStates, Early, Renaming
  <1>9. \A temp \in litter' : temp[2] \in Nat /\ temp[2] > left.requests
    BY <1>2, <1>5, <1>7
  <1>10. ~damaged => ImportSafe(v, overlay, litter', whole)
    <2> SUFFICES ASSUME ~damaged PROVE ImportSafe(v, overlay, litter', whole)
      OBVIOUS
    <2>1. overlay = whole \/ Foreign(w, litter)
      BY <1>3, <1>5 DEF ImportSafe, Importing
    <2>2. overlay = whole \/ Foreign(v, litter')
      BY <1>2, <1>4, <2>1 DEF Foreign
    <2>3. \A i \in 1 .. Len(v.plan) : <<"staged", v.id, i>> \in litter'
      BY <1>2, <1>4, <1>5 DEF ImportSafe
    <2>4. Restorable(v, overlay)
      BY <1>4 DEF Restorable
    <2>5. v.done = 0 /\ (v.done < Len(v.plan) \/ v.plan = <<>>) /\ v.done \in 0 .. Len(v.plan)
      BY <1>4, <1>5, <1>6
    <2>6. \A i \in (v.done + 1) .. Len(v.plan) : <<"staged", v.id, i>> \in litter'
      BY <2>3, <2>5
    <2>7. ~Completed(v)
      BY <1>4 DEF Completed
    <2> QED BY <1>4, <2>2, <2>4, <2>5, <2>6, <2>7 DEF ImportSafe, Renaming, ImportStates
  <1>11. Importing(work[r])
    BY <1>3 DEF w
  <1> QED BY <1>2, <1>5, <1>8, <1>9, <1>10, <1>11, ImportFrame

\* Putting a file into place leaves a directory of files.
LEMMA PutFiles ==
    ASSUME NEW f, IsFiles(f), NEW a \in Actions, NEW x \in Versions
    PROVE  /\ IsFiles(Put(f, a, x))
           /\ DOMAIN Put(f, a, x) = DOMAIN f \cup {a}
           /\ Put(f, a, x)[a] = x
           /\ \A b \in DOMAIN f : b # a => Put(f, a, x)[b] = f[b]
  BY DEF Put, IsFiles

\* So does removing one.
LEMMA WithoutFiles ==
    ASSUME NEW f, IsFiles(f), NEW a
    PROVE  /\ IsFiles(Without(f, a))
           /\ DOMAIN Without(f, a) = DOMAIN f \ {a}
           /\ \A b \in DOMAIN f : b # a => Without(f, a)[b] = f[b]
  BY DEF Without, IsFiles

\* The next file is renamed into place.
LEMMA CommitStep ==
    ASSUME CatalogInv, NEW r \in Runtimes, CommitOne(r)
    PROVE  CatalogInv'
  <1> DEFINE w == work[r]
             i == work[r].done + 1
             v == [work[r] EXCEPT !.done = i, !.at = "sync"]
  <1>1. /\ WorkFits(w, left.requests) /\ left.requests \in Nat
        /\ DOMAIN w = DOMAIN AtRest
    BY CatalogFacts
  <1>2. /\ w.at = "commit" /\ w.done < Len(w.plan) /\ Set(r, v)
        /\ overlay' = Put(overlay, w.plan[i][1], w.plan[i][2])
        /\ litter' = litter \ {<<"staged", w.id, i>>}
        /\ whole' = IF i = Len(w.plan) THEN overlay' ELSE whole
        /\ UNCHANGED <<damaged, left, contexts>>
    BY DEF CommitOne, Staged
  <1>3. Importing(w) /\ w.at \in Renaming
    BY <1>2 DEF Importing, ImportStates, Renaming
  <1>4. /\ DOMAIN v = DOMAIN w /\ v.at = "sync" /\ v.done = i
        /\ v.plan = w.plan /\ v.backup = w.backup /\ v.id = w.id /\ v.pending = w.pending
    BY <1>1, RecordFields
  <1>5. /\ w.id \in Nat /\ w.id > left.requests /\ IsFiles(overlay)
        /\ w.plan \in Seq(Actions \X Versions) /\ Len(w.plan) \in Nat /\ w.done \in Nat
        /\ \A temp \in litter : temp[2] \in Nat /\ temp[2] > left.requests
        /\ ~damaged => ImportSafe(w, overlay, litter, whole)
        /\ work' = [work EXCEPT ![r] = work'[r]] /\ work'[r] = v
    BY <1>2, <1>3, ImporterFacts
  <1>6. i = w.done + 1 /\ i \in 1 .. Len(w.plan)
    BY <1>2, <1>5
  <1> HIDE DEF v, w, i
  <1>7. w.plan[i][1] \in Actions /\ w.plan[i][2] \in Versions
    BY <1>5, <1>6
  <1>8. /\ IsFiles(overlay')
        /\ DOMAIN overlay' = DOMAIN overlay \cup {w.plan[i][1]}
        /\ \A b \in DOMAIN overlay : b # w.plan[i][1] => overlay'[b] = overlay[b]
    <2> DEFINE a == w.plan[i][1]
               x == w.plan[i][2]
    <2>1. IsFiles(overlay) /\ a \in Actions /\ x \in Versions /\ overlay' = Put(overlay, a, x)
      BY <1>2, <1>5, <1>7
    <2> HIDE DEF a, x
    <2>2. /\ IsFiles(Put(overlay, a, x))
          /\ DOMAIN Put(overlay, a, x) = DOMAIN overlay \cup {a}
          /\ \A b \in DOMAIN overlay : b # a => Put(overlay, a, x)[b] = overlay[b]
      BY <2>1, PutFiles
    <2>3. /\ IsFiles(overlay')
          /\ DOMAIN overlay' = DOMAIN overlay \cup {a}
          /\ \A b \in DOMAIN overlay : b # a => overlay'[b] = overlay[b]
      BY <2>1, <2>2
    <2> QED BY <2>3 DEF a
  <1>9. WorkFits(v, left.requests) /\ Importing(v)
    <2>1. Importing(v) /\ v.at \notin Early
      BY <1>4 DEF Importing, ImportStates, Early, Renaming
    <2>2. v.done \in Nat
      BY <1>4, <1>6
    <2> QED BY <1>1, <1>3, <1>4, <2>1, <2>2 DEF WorkFits
  <1>10. \A temp \in litter' : temp[2] \in Nat /\ temp[2] > left.requests
    BY <1>2, <1>5
  <1>11. ~damaged => ImportSafe(v, overlay', litter', whole')
    <2> SUFFICES ASSUME ~damaged PROVE ImportSafe(v, overlay', litter', whole')
      OBVIOUS
    <2>1. /\ Restorable(w, overlay)
          /\ whole = w.backup \/ Foreign(w, litter)
          /\ \A j \in (w.done + 1) .. Len(w.plan) : <<"staged", w.id, j>> \in litter
      BY <1>2, <1>3, <1>5 DEF ImportSafe, Completed
    <2>2. Restorable(v, overlay')
      <3> SUFFICES ASSUME NEW a \in Actions, \A j \in 1 .. v.done : v.plan[j][1] # a
                   PROVE  /\ a \in DOMAIN overlay' <=> a \in DOMAIN v.backup
                          /\ a \in DOMAIN overlay' => overlay'[a] = v.backup[a]
        BY DEF Restorable
      <3>1. a # w.plan[i][1]
        BY <1>4, <1>6
      <3>2. \A j \in 1 .. w.done : w.plan[j][1] # a
        BY <1>4, <1>5, <1>6
      <3>3. /\ a \in DOMAIN overlay <=> a \in DOMAIN w.backup
            /\ a \in DOMAIN overlay => overlay[a] = w.backup[a]
        BY <2>1, <3>2 DEF Restorable
      <3> QED BY <1>4, <1>8, <3>1, <3>3
    <2>3. \A j \in (v.done + 1) .. Len(v.plan) : <<"staged", v.id, j>> \in litter'
      <3> SUFFICES ASSUME NEW j \in (i + 1) .. Len(w.plan)
                   PROVE  <<"staged", w.id, j>> \in litter \ {<<"staged", w.id, i>>}
        BY <1>2, <1>4
      <3>1. j \in (w.done + 1) .. Len(w.plan) /\ j # i
        BY <1>5, <1>6
      <3> QED BY <2>1, <3>1
    <2>4. Foreign(w, litter) => Foreign(v, litter')
      BY <1>2, <1>4 DEF Foreign
    <2>5. IF Completed(v) THEN overlay' = whole' ELSE whole' = v.backup \/ Foreign(v, litter')
      <3>1. CASE i = Len(w.plan)
        BY <1>2, <1>4, <3>1 DEF Completed
      <3>2. CASE i # Len(w.plan)
        BY <1>2, <1>4, <2>1, <2>4, <3>2 DEF Completed
      <3> QED BY <3>1, <3>2
    <2>6. v.done \in 0 .. Len(v.plan)
      BY <1>4, <1>6
    <2> QED BY <1>4, <2>2, <2>3, <2>5, <2>6 DEF ImportSafe, Renaming
  <1>12. Importing(work[r])
    BY <1>3 DEF w
  <1> QED BY <1>2, <1>5, <1>8, <1>9, <1>10, <1>11, <1>12, ImportFrame

\* A directory is synchronised after a rename, or that or the rename fails.
LEMMA SyncSteps ==
    ASSUME CatalogInv, NEW r \in Runtimes, SyncOne(r) \/ CommitFails(r)
    PROVE  CatalogInv'
  <1> DEFINE w == work[r]
  <1>1. /\ WorkFits(w, left.requests) /\ left.requests \in Nat
        /\ DOMAIN w = DOMAIN AtRest
    BY CatalogFacts
  <1>2. /\ w.at \in {"commit", "sync"}
        /\ UNCHANGED <<overlay, litter, whole, left, contexts>>
        /\ damaged => damaged'
    <2>1. /\ w.at \in {"commit", "sync"}
          /\ UNCHANGED <<overlay, litter, whole, left, contexts>>
      BY DEF SyncOne, CommitFails
    <2>2. SyncOne(r) => damaged' = damaged
      BY DEF SyncOne
    <2>3. CommitFails(r) => damaged' = (damaged \/ (w.at = "sync" /\ w.done = Len(w.plan)))
      BY DEF CommitFails
    <2>4. damaged => damaged'
      BY <2>2, <2>3, Zenon
    <2> QED BY <2>1, <2>4
  <1>3. Importing(w) /\ w.at \in Renaming
    BY <1>2 DEF Importing, ImportStates, Renaming
  <1>4. PICK label \in {"clean", "commit", "rollback"} :
          /\ Set(r, [work[r] EXCEPT !.at = label])
          /\ label = "clean" => w.at = "sync" /\ w.done = Len(w.plan)
          /\ label = "commit" => w.at = "sync" /\ w.done # Len(w.plan)
          /\ label = "rollback" /\ ~damaged' => ~(w.at = "sync" /\ w.done = Len(w.plan))
    <2>1. CASE SyncOne(r)
      <3>1. CASE w.done = Len(w.plan)
        BY <2>1, <3>1 DEF SyncOne, Step
      <3>2. CASE w.done # Len(w.plan)
        BY <2>1, <3>2 DEF SyncOne, Step
      <3> QED BY <3>1, <3>2
    <2>2. CASE CommitFails(r)
      BY <2>2 DEF CommitFails, Step
    <2> QED BY <2>1, <2>2
  <1> DEFINE v == [work[r] EXCEPT !.at = label]
  <1>5. /\ DOMAIN v = DOMAIN w /\ v.at = label
        /\ \A f \in {"plan", "done", "backup", "id", "pending"} : v[f] = w[f]
    BY <1>1, RecordFields
  <1>6. /\ IsFiles(overlay)
        /\ w.plan \in Seq(Actions \X Versions) /\ Len(w.plan) \in Nat /\ w.done \in Nat
        /\ \A temp \in litter : temp[2] \in Nat /\ temp[2] > left.requests
        /\ ~damaged => ImportSafe(w, overlay, litter, whole)
        /\ work' = [work EXCEPT ![r] = work'[r]] /\ work'[r] = v
    BY <1>3, <1>4, ImporterFacts
  <1> HIDE DEF v, w
  <1>7. Importing(v) /\ v.at \notin Early
    BY <1>5 DEF Importing, ImportStates, Early, Renaming
  <1>8. /\ WorkFits(v, left.requests)
        /\ v.plan = w.plan /\ v.done = w.done /\ v.backup = w.backup /\ v.id = w.id
    BY <1>1, <1>3, <1>5, <1>7, StepFits
  <1>9. ~damaged' => ImportSafe(v, overlay, litter, whole)
    <2> SUFFICES ASSUME ~damaged', ~damaged PROVE ImportSafe(v, overlay, litter, whole)
      BY <1>2
    <2>1. /\ w.done \in 0 .. Len(w.plan)
          /\ Restorable(w, overlay)
          /\ IF Completed(w) THEN overlay = whole ELSE whole = w.backup \/ Foreign(w, litter)
          /\ \A j \in (w.done + 1) .. Len(w.plan) : <<"staged", w.id, j>> \in litter
          /\ w.at = "commit" => w.done < Len(w.plan) \/ w.plan = <<>>
      BY <1>2, <1>3, <1>6 DEF ImportSafe
    <2>2. Restorable(v, overlay) /\ (Foreign(w, litter) => Foreign(v, litter))
      BY <1>8, <2>1 DEF Restorable, Foreign
    <2>3. CASE label = "clean"
      <3>1. overlay = whole
        BY <1>4, <2>1, <2>3 DEF Completed
      <3> QED BY <1>5, <2>3, <3>1 DEF ImportSafe, Renaming
    <2>4. CASE label = "commit"
      <3>1. v.done < Len(v.plan) /\ ~Completed(w) /\ ~Completed(v)
        BY <1>4, <1>5, <1>6, <1>8, <2>1, <2>4 DEF Completed
      <3>2. whole = v.backup \/ Foreign(v, litter)
        BY <1>8, <2>1, <2>2, <3>1
      <3> QED BY <1>5, <1>8, <2>1, <2>2, <2>4, <3>1, <3>2 DEF ImportSafe, Renaming
    <2>5. CASE label = "rollback"
      <3>1. ~Completed(w) /\ ~Completed(v)
        BY <1>4, <1>5, <2>5 DEF Completed
      <3>2. whole = v.backup \/ Foreign(v, litter)
        BY <1>8, <2>1, <2>2, <3>1
      <3>3. v.plan = <<>> \/ <<"staged", v.id, Len(v.plan)>> \in litter
        <4> SUFFICES ASSUME w.plan # <<>> PROVE <<"staged", w.id, Len(w.plan)>> \in litter
          BY <1>8
        <4>1. w.done < Len(w.plan)
          BY <1>2, <1>6, <2>1, <3>1 DEF Completed
        <4>2. Len(w.plan) \in (w.done + 1) .. Len(w.plan)
          BY <1>6, <4>1
        <4> QED BY <2>1, <4>2
      <3> QED BY <1>5, <1>8, <2>1, <2>2, <2>5, <3>1, <3>2, <3>3 DEF ImportSafe, Renaming
    <2> QED BY <2>3, <2>4, <2>5
  <1>10. Importing(work[r])
    BY <1>3 DEF w
  <1> QED BY <1>2, <1>6, <1>7, <1>8, <1>9, <1>10, ImportFrame

\* A file that was replaced is restored, the last one first.
LEMMA RollBackStep ==
    ASSUME CatalogInv, NEW r \in Runtimes, RollBackOne(r)
    PROVE  CatalogInv'
  <1> DEFINE w == work[r]
             n == work[r].done
             a == work[r].plan[work[r].done][1]
  <1>1. /\ WorkFits(w, left.requests) /\ left.requests \in Nat
        /\ DOMAIN w = DOMAIN AtRest
    BY CatalogFacts
  <1>2. /\ w.at = "rollback"
        /\ UNCHANGED <<whole, damaged, left, contexts>>
    BY DEF RollBackOne
  <1>3. Importing(w) /\ w.at \in Renaming /\ ~Completed(w) /\ Importing(work[r])
    BY <1>2 DEF Importing, ImportStates, Renaming, Completed
  <1>4. /\ IsFiles(overlay) /\ IsFiles(w.backup)
        /\ w.plan \in Seq(Actions \X Versions) /\ Len(w.plan) \in Nat /\ w.done \in Nat
        /\ \A temp \in litter : temp[2] \in Nat /\ temp[2] > left.requests
        /\ ~damaged => ImportSafe(w, overlay, litter, whole)
        /\ \A x : Set(r, x) => work' = [work EXCEPT ![r] = work'[r]] /\ work'[r] = x
    BY <1>3, ImporterFacts
  <1>5. ~damaged =>
          /\ w.done \in 0 .. Len(w.plan)
          /\ Restorable(w, overlay)
          /\ whole = w.backup \/ Foreign(w, litter)
          /\ w.plan = <<>> \/ <<"staged", w.id, Len(w.plan)>> \in litter
    BY <1>2, <1>3, <1>4 DEF ImportSafe
  <1>6. CASE w.done = 0
    <2> DEFINE v == [work[r] EXCEPT !.at = "give up"]
    <2>1. /\ Set(r, v) /\ UNCHANGED <<overlay, litter>>
      BY <1>6 DEF RollBackOne, Step
    <2>2. /\ DOMAIN v = DOMAIN w /\ v.at = "give up"
          /\ \A f \in {"plan", "done", "backup", "id", "pending"} : v[f] = w[f]
      BY <1>1, RecordFields
    <2>3. work' = [work EXCEPT ![r] = work'[r]] /\ work'[r] = v
      BY <1>4, <2>1
    <2> HIDE DEF v
    <2>4. Importing(v) /\ v.at \notin Early
      BY <2>2 DEF Importing, ImportStates, Early, Renaming
    <2>5. /\ WorkFits(v, left.requests)
          /\ v.plan = w.plan /\ v.done = w.done /\ v.backup = w.backup /\ v.id = w.id
      BY <1>1, <1>3, <2>2, <2>4, StepFits
    <2>6. ~damaged => overlay = w.backup
      <3> SUFFICES ASSUME ~damaged PROVE overlay = w.backup
        OBVIOUS
      <3>1. \A b \in Actions : /\ b \in DOMAIN overlay <=> b \in DOMAIN w.backup
                               /\ b \in DOMAIN overlay => overlay[b] = w.backup[b]
        BY <1>5, <1>6 DEF Restorable
      <3> QED BY <1>4, <3>1 DEF IsFiles
    <2>7. ~damaged => ImportSafe(v, overlay, litter, whole)
      BY <1>5, <2>2, <2>5, <2>6 DEF ImportSafe, Renaming, Foreign
    <2> QED BY <1>2, <1>3, <1>4, <2>1, <2>3, <2>4, <2>5, <2>7, ImportFrame
  <1>7. CASE w.done # 0
    <2> DEFINE v == [work[r] EXCEPT !.done = @ - 1]
    <2>1. /\ Set(r, v)
          /\ overlay' = RolledBack(r, n)
          /\ litter' = litter \ {<<"backup", w.id, n>>}
      BY <1>7 DEF RollBackOne, Backup
    <2>2. /\ DOMAIN v = DOMAIN w /\ v.at = "rollback" /\ v.done = w.done - 1
          /\ v.plan = w.plan /\ v.backup = w.backup /\ v.id = w.id /\ v.pending = w.pending
      BY <1>1, <1>2, RecordFields
    <2>3. work' = [work EXCEPT ![r] = work'[r]] /\ work'[r] = v
      BY <1>4, <2>1
    <2>4. overlay' = IF a \in DOMAIN w.backup THEN Put(overlay, a, w.backup[a])
                     ELSE Without(overlay, a)
      BY <2>1 DEF RolledBack
    <2> HIDE DEF v
    <2>5. Importing(v) /\ WorkFits(v, left.requests)
      <3>1. Importing(v) /\ v.at \notin Early
        BY <2>2 DEF Importing, ImportStates, Early, Renaming
      <3>2. v.done \in Nat
        BY <1>4, <1>7, <2>2
      <3> QED BY <1>1, <1>3, <2>2, <3>1, <3>2 DEF WorkFits
    <2>6. \A temp \in litter' : temp[2] \in Nat /\ temp[2] > left.requests
      BY <1>4, <2>1
    <2>7. /\ IsFiles(overlay')
          /\ \A b : b # a => /\ b \in DOMAIN overlay' <=> b \in DOMAIN overlay
                             /\ b \in DOMAIN overlay => overlay'[b] = overlay[b]
          /\ a \in DOMAIN overlay' <=> a \in DOMAIN w.backup
          /\ a \in DOMAIN overlay' => overlay'[a] = w.backup[a]
      <3>1. CASE a \in DOMAIN w.backup
        <4>1. a \in Actions /\ w.backup[a] \in Versions
          BY <1>4, <3>1 DEF IsFiles
        <4> DEFINE x == w.backup[a]
        <4>2. IsFiles(overlay) /\ overlay' = Put(overlay, a, x) /\ x \in Versions
          BY <1>4, <2>4, <3>1, <4>1
        <4> HIDE DEF a, w, x
        <4>3. /\ IsFiles(Put(overlay, a, x))
              /\ DOMAIN Put(overlay, a, x) = DOMAIN overlay \cup {a}
              /\ Put(overlay, a, x)[a] = x
              /\ \A b \in DOMAIN overlay : b # a => Put(overlay, a, x)[b] = overlay[b]
          BY <4>1, <4>2, PutFiles
        <4>4. /\ IsFiles(overlay') /\ overlay'[a] = x
              /\ DOMAIN overlay' = DOMAIN overlay \cup {a}
              /\ \A b \in DOMAIN overlay : b # a => overlay'[b] = overlay[b]
          BY <4>2, <4>3
        <4> QED BY <3>1, <4>4 DEF x
      <3>2. CASE a \notin DOMAIN w.backup
        <4>1. IsFiles(overlay) /\ overlay' = Without(overlay, a)
          BY <1>4, <2>4, <3>2
        <4> HIDE DEF a, w
        <4>2. /\ IsFiles(Without(overlay, a))
              /\ DOMAIN Without(overlay, a) = DOMAIN overlay \ {a}
              /\ \A b \in DOMAIN overlay : b # a => Without(overlay, a)[b] = overlay[b]
          BY <4>1, WithoutFiles
        <4>3. /\ IsFiles(overlay')
              /\ DOMAIN overlay' = DOMAIN overlay \ {a}
              /\ \A b \in DOMAIN overlay : b # a => overlay'[b] = overlay[b]
          BY <4>1, <4>2
        <4> QED BY <3>2, <4>3
      <3> QED BY <3>1, <3>2
    <2>8. ~damaged => ImportSafe(v, overlay', litter', whole)
      <3> SUFFICES ASSUME ~damaged PROVE ImportSafe(v, overlay', litter', whole)
        OBVIOUS
      <3>1. Restorable(v, overlay')
        <4> SUFFICES ASSUME NEW b \in Actions, \A j \in 1 .. v.done : v.plan[j][1] # b
                     PROVE  /\ b \in DOMAIN overlay' <=> b \in DOMAIN v.backup
                            /\ b \in DOMAIN overlay' => overlay'[b] = v.backup[b]
          BY DEF Restorable
        <4>1. CASE b = a
          BY <2>2, <2>7, <4>1
        <4>2. CASE b # a
          <5>1. \A j \in 1 .. w.done : w.plan[j][1] # b
            <6> SUFFICES ASSUME NEW j \in 1 .. w.done PROVE w.plan[j][1] # b
              OBVIOUS
            <6>1. CASE j = w.done
              BY <4>2, <6>1
            <6>2. CASE j # w.done
              BY <1>4, <2>2, <6>2
            <6> QED BY <6>1, <6>2
          <5>2. /\ b \in DOMAIN overlay <=> b \in DOMAIN w.backup
                /\ b \in DOMAIN overlay => overlay[b] = w.backup[b]
            BY <1>5, <5>1 DEF Restorable
          <5> QED BY <2>2, <2>7, <4>2, <5>2
        <4> QED BY <4>1, <4>2
      <3>2. whole = v.backup \/ Foreign(v, litter')
        BY <1>5, <2>1, <2>2 DEF Foreign
      <3>3. v.plan = <<>> \/ <<"staged", v.id, Len(v.plan)>> \in litter'
        BY <1>5, <2>1, <2>2
      <3>4. v.done \in 0 .. Len(v.plan) /\ ~Completed(v)
        BY <1>4, <1>5, <1>7, <2>2 DEF Completed
      <3> QED BY <2>2, <3>1, <3>2, <3>3, <3>4 DEF ImportSafe, Renaming
    <2> QED BY <1>2, <1>3, <2>3, <2>5, <2>6, <2>7, <2>8, ImportFrame
  <1> QED BY <1>6, <1>7

\* A rollback fails: no claim is made about the files any more.
LEMMA RollBackFailure ==
    ASSUME CatalogInv, NEW r \in Runtimes, RollBackFails(r)
    PROVE  CatalogInv'
  <1> DEFINE w == work[r]
             n == work[r].done
             a == work[r].plan[work[r].done][1]
             v == [work[r] EXCEPT !.at = "give up"]
  <1>1. /\ WorkFits(w, left.requests) /\ left.requests \in Nat
        /\ DOMAIN w = DOMAIN AtRest
    BY CatalogFacts
  <1>2. /\ w.at = "rollback" /\ Set(r, v) /\ damaged'
        /\ litter' \subseteq litter
        /\ overlay' = overlay \/ overlay' = RolledBack(r, n)
        /\ UNCHANGED <<whole, left, contexts>>
    BY DEF RollBackFails, Step
  <1>3. Importing(w) /\ Importing(work[r])
    BY <1>2 DEF Importing, ImportStates
  <1>4. /\ IsFiles(overlay) /\ IsFiles(w.backup)
        /\ \A temp \in litter : temp[2] \in Nat /\ temp[2] > left.requests
        /\ work' = [work EXCEPT ![r] = work'[r]] /\ work'[r] = v
    BY <1>2, <1>3, ImporterFacts
  <1>5. /\ DOMAIN v = DOMAIN w /\ v.at = "give up"
        /\ \A f \in {"plan", "done", "backup", "id", "pending"} : v[f] = w[f]
    BY <1>1, RecordFields
  <1>6. IsFiles(overlay')
    <2>1. CASE a \in DOMAIN w.backup
      <3>1. a \in Actions /\ w.backup[a] \in Versions
        BY <1>4, <2>1 DEF IsFiles
      <3>2. IsFiles(Put(overlay, a, w.backup[a]))
        BY <1>4, <3>1, PutFiles
      <3> QED BY <1>2, <1>4, <2>1, <3>2 DEF RolledBack
    <2>2. CASE a \notin DOMAIN w.backup
      <3>1. IsFiles(Without(overlay, a))
        BY <1>4, WithoutFiles
      <3> QED BY <1>2, <1>4, <2>2, <3>1 DEF RolledBack
    <2> QED BY <2>1, <2>2
  <1> HIDE DEF v, w
  <1>7. Importing(v) /\ v.at \notin Early
    BY <1>5 DEF Importing, ImportStates, Early, Renaming
  <1>8. WorkFits(v, left.requests)
    BY <1>1, <1>3, <1>5, <1>7, StepFits
  <1>9. \A temp \in litter' : temp[2] \in Nat /\ temp[2] > left.requests
    BY <1>2, <1>4
  <1> QED BY <1>2, <1>3, <1>4, <1>6, <1>8, <1>9, ImportFrame

\* A backup cannot be made: nothing was renamed yet.
LEMMA StagingFailure ==
    ASSUME CatalogInv, NEW r \in Runtimes, StagingFails(r)
    PROVE  CatalogInv'
  <1> DEFINE w == work[r]
             v == [work[r] EXCEPT !.at = "give up"]
  <1>1. /\ WorkFits(w, left.requests) /\ left.requests \in Nat
        /\ DOMAIN w = DOMAIN AtRest
    BY CatalogFacts
  <1>2. /\ w.at = "backup" /\ Set(r, v)
        /\ UNCHANGED <<overlay, litter, whole, damaged, left, contexts>>
    BY DEF StagingFails, Step
  <1>3. Importing(w) /\ w.at \in ImportStates \ Renaming /\ Importing(work[r])
    BY <1>2 DEF Importing, ImportStates, Renaming
  <1>4. /\ IsFiles(overlay)
        /\ \A temp \in litter : temp[2] \in Nat /\ temp[2] > left.requests
        /\ ~damaged => ImportSafe(w, overlay, litter, whole)
        /\ work' = [work EXCEPT ![r] = work'[r]] /\ work'[r] = v
    BY <1>2, <1>3, ImporterFacts
  <1>5. /\ DOMAIN v = DOMAIN w /\ v.at = "give up"
        /\ \A f \in {"plan", "done", "backup", "id", "pending"} : v[f] = w[f]
    BY <1>1, RecordFields
  <1> HIDE DEF v, w
  <1>6. Importing(v) /\ v.at \notin Early
    BY <1>5 DEF Importing, ImportStates, Early, Renaming
  <1>7. WorkFits(v, left.requests) /\ v.id = w.id
    BY <1>1, <1>3, <1>5, <1>6, StepFits
  <1>8. ~damaged => ImportSafe(v, overlay, litter, whole)
    BY <1>3, <1>4, <1>5, <1>7 DEF ImportSafe, Renaming, Foreign
  <1> QED BY <1>2, <1>3, <1>4, <1>6, <1>7, <1>8, ImportFrame

\* The temporary files of the import are removed, or some of them; those of
\* others stay.
LEMMA CleanSteps ==
    ASSUME CatalogInv, NEW r \in Runtimes, CleanUp(r) \/ CleanUpFails(r)
    PROVE  CatalogInv'
  <1> DEFINE w == work[r]
  <1>1. left.requests \in Nat
    BY CatalogFacts
  <1>2. PICK label \in {"cached", "idle"} : Set(r, [AtRest EXCEPT !.at = label])
    <2>1. CASE CleanUp(r)
      BY <2>1 DEF CleanUp
    <2>2. CASE CleanUpFails(r)
      <3>1. AtRest = [AtRest EXCEPT !.at = "idle"]
        BY DEF AtRest
      <3> QED BY <2>2, <3>1 DEF CleanUpFails, Finishes
    <2> QED BY <2>1, <2>2
  <1> DEFINE v == [AtRest EXCEPT !.at = label]
  <1>3. /\ w.at \in {"clean", "give up"}
        /\ litter' \subseteq litter
        /\ \A temp \in litter : temp[2] # w.id => temp \in litter'
        /\ UNCHANGED <<overlay, whole, damaged, left, contexts>>
    <2> DEFINE temps(n) == Temporaries(r, n)
    <2>1. \A n : \A temp \in temps(n) : temp[2] = w.id
      BY DEF Temporaries, Staged, Backup
    <2>2. \A i : Staged(r, i)[2] = w.id
      BY DEF Staged
    <2> HIDE DEF temps, w
    <2>3. CASE CleanUp(r)
      <3>1. litter' = litter \ temps(Len(work[r].plan))
        BY <2>3 DEF CleanUp, temps
      <3>2. /\ w.at \in {"clean", "give up"}
            /\ UNCHANGED <<overlay, whole, damaged, left, contexts>>
        BY <2>3 DEF CleanUp, w
      <3> QED BY <2>1, <3>1, <3>2
    <2>4. CASE CleanUpFails(r)
      <3>1. PICK i \in 1 .. Len(work[r].plan) :
                \/ litter' = litter \ temps(i - 1)
                \/ litter' = litter \ (temps(i - 1) \cup {Staged(r, i)})
        BY <2>4 DEF CleanUpFails, temps, w
      <3> QED BY <2>1, <2>2, <2>4, <3>1 DEF CleanUpFails, w
    <2> QED BY <2>3, <2>4
  <1>4. Importing(w) /\ w.at \in ImportStates \ Renaming /\ Importing(work[r])
    BY <1>3 DEF Importing, ImportStates, Renaming
  <1>5. WorkFits(AtRest, left.requests) /\ ~Importing(AtRest)
    BY <1>1, IdleFits
  <1>6. /\ DOMAIN v = DOMAIN AtRest /\ v.at = label
        /\ \A f \in {"plan", "done", "backup", "id", "pending"} : v[f] = AtRest[f]
    BY RecordFields
  <1>7. /\ IsFiles(overlay)
        /\ \A temp \in litter : temp[2] \in Nat /\ temp[2] > left.requests
        /\ ~damaged => ImportSafe(w, overlay, litter, whole)
        /\ work' = [work EXCEPT ![r] = work'[r]] /\ work'[r] = v
    BY <1>2, <1>4, ImporterFacts
  <1> HIDE DEF v, w
  <1>8. ~Importing(v) /\ v.at \notin Early
    BY <1>6 DEF Importing, ImportStates, Early
  <1>9. WorkFits(v, left.requests)
    BY <1>1, <1>5, <1>6, <1>8, StepFits
  <1>10. ~damaged => overlay = whole \/ litter' # {}
    BY <1>3, <1>4, <1>7 DEF ImportSafe, Foreign
  <1>11. \A temp \in litter' : temp[2] \in Nat /\ temp[2] > left.requests
    BY <1>3, <1>7
  <1> QED BY <1>3, <1>4, <1>7, <1>8, <1>9, <1>10, <1>11, ImportFrame

\* A request is given up before it made a file.
LEMMA AbandonStep ==
    ASSUME CatalogInv, NEW r \in Runtimes, Abandon(r)
    PROVE  CatalogInv'
  <1>1. /\ left.requests \in Nat /\ left \in [requests : Nat, publications : Nat]
        /\ contexts = [q \in Runtimes |-> contexts[q]]
        /\ UNCHANGED contexts => EvidenceIsTheActions'
    BY CatalogFacts
  <1>2. WorkFits(AtRest, left.requests) /\ ~Importing(AtRest)
    BY <1>1, IdleFits
  <1>3. /\ Set(r, AtRest)
        /\ UNCHANGED <<overlay, litter, whole, damaged, left, contexts>>
        /\ work[r].at \notin Renaming
    BY DEF Abandon, Finishes, Renaming
  <1>4. CASE ~Importing(work[r])
    BY <1>1, <1>2, <1>3, <1>4, QuietStep
  <1>5. CASE Importing(work[r])
    <2>1. /\ IsFiles(overlay)
          /\ \A temp \in litter : temp[2] \in Nat /\ temp[2] > left.requests
          /\ ~damaged => ImportSafe(work[r], overlay, litter, whole)
          /\ work' = [work EXCEPT ![r] = work'[r]] /\ work'[r] = AtRest
      BY <1>3, <1>5, ImporterFacts
    <2>2. ~damaged => overlay = whole \/ litter # {}
      BY <1>3, <1>5, <2>1 DEF ImportSafe, Foreign, Importing
    <2> QED BY <1>2, <1>3, <1>5, <2>1, <2>2, ImportFrame
  <1> QED BY <1>4, <1>5

\* A process dies, wherever its import is.
LEMMA DeathStep ==
    ASSUME CatalogInv, NEW r \in Runtimes, RuntimeDies(r)
    PROVE  CatalogInv'
  <1>1. /\ left.requests \in Nat /\ left \in [requests : Nat, publications : Nat]
        /\ contexts = [q \in Runtimes |-> contexts[q]]
    BY CatalogFacts
  <1>2. WorkFits(AtRest, left.requests) /\ ~Importing(AtRest)
    BY <1>1, IdleFits
  <1>3. /\ Set(r, AtRest)
        /\ contexts' = [contexts EXCEPT ![r] = {}]
        /\ UNCHANGED <<overlay, litter, whole, damaged, left>>
    BY DEF RuntimeDies, Finishes
  <1>4. work' = [work EXCEPT ![r] = work'[r]] /\ work'[r] = AtRest
    BY <1>3 DEF Set, CatalogInv, CatalogTypes
  <1>5. EvidenceIsTheActions' /\ contexts' = [q \in Runtimes |-> contexts'[q]]
    BY <1>1, <1>3 DEF CatalogInv, EvidenceIsTheActions
  <1>6. Importing(work[r]) /\ ~damaged => overlay = whole \/ litter # {}
    BY StoppedImportIsRefused
  <1>7. left' = left /\ left'.requests <= left.requests
    BY <1>1, <1>3
  <1> QED BY <1>1, <1>2, <1>3, <1>4, <1>5, <1>6, <1>7, CatalogFrame

\* The catalog's invariant holds whatever the runtimes, the cloud and the
\* failures of the file system do.
THEOREM CatalogInvHolds == CatalogSpec => []CatalogInv
  <1>1. CatalogInit => CatalogInv
    <2> SUFFICES ASSUME CatalogInit PROVE CatalogInv
      OBVIOUS
    <2>1. /\ work = [r \in Runtimes |-> AtRest] /\ contexts = [r \in Runtimes |-> {}]
          /\ left \in [requests : Nat, publications : Nat]
          /\ litter = {} /\ overlay = whole
      BY CatalogAssumption DEF CatalogInit
    <2>2. IsFiles(overlay)
      <3>1. CASE overlay = <<>>
        BY <3>1 DEF IsFiles
      <3>2. CASE overlay \in Snapshots
        BY <3>2, CatalogAssumption DEF IsFiles
      <3> QED BY <3>1, <3>2 DEF CatalogInit
    <2>3. WorkFits(AtRest, left.requests) /\ ~Importing(AtRest)
      BY <2>1, IdleFits
    <2>4. CatalogTypes
      BY <2>1, <2>2, <2>3 DEF CatalogTypes
    <2>5. OneImport /\ ImportsAreSafe
      BY <2>1, <2>3 DEF OneImport, ImportsAreSafe
    <2>6. HalfImportsAreRefused /\ EvidenceIsTheActions
      BY <2>1 DEF HalfImportsAreRefused, EvidenceIsTheActions
    <2> QED BY <2>4, <2>5, <2>6 DEF CatalogInv
  <1>2. CatalogInv /\ [CatalogNext]_catalogVars => CatalogInv'
    <2> SUFFICES ASSUME CatalogInv, [CatalogNext]_catalogVars PROVE CatalogInv'
      OBVIOUS
    <2>1. ASSUME NEW r \in Runtimes, CatalogStep(r) PROVE CatalogInv'
      BY <2>1, RefreshSteps, BeginImport, ReadSteps, StageStep, BackUpStep, CommitStep, SyncSteps,
         RollBackStep, RollBackFailure, StagingFailure, CleanSteps, AbandonStep, DeathStep, AskStep, AnswerSteps, CheckStep
         DEF CatalogStep
    <2>2. CASE Publish
      <3>1. /\ UNCHANGED <<overlay, litter, whole, damaged, work, contexts>>
            /\ left.publications > 0 /\ left' = [left EXCEPT !.publications = @ - 1]
        BY <2>2 DEF Publish
      <3>2. /\ left' \in [requests : Nat, publications : Nat]
            /\ left'.requests = left.requests
        BY <3>1 DEF CatalogInv, CatalogTypes
      <3> QED BY <3>1, <3>2 DEF CatalogInv, CatalogTypes, OneImport, ImportsAreSafe,
                 HalfImportsAreRefused, NobodyImports, Listable, EvidenceIsTheActions
    <2>3. CASE TimePasses \/ UNCHANGED catalogVars
      BY <2>3 DEF TimePasses, catalogVars, CatalogInv, CatalogTypes, OneImport, ImportsAreSafe,
                  HalfImportsAreRefused, NobodyImports, Listable, EvidenceIsTheActions
    <2> QED BY <2>1, <2>2, <2>3 DEF CatalogNext
  <1> QED BY <1>1, <1>2, PTL DEF CatalogSpec

\* The catalog of a runtime is whole and its evidence is about what it shows: as long
\* as no rollback and no fsync failed, no import that was interrupted, anywhere,
\* passes for a complete one, and no answer of the cloud is shown under another scope
\* or after its time.
THEOREM CatalogStaysSound == CatalogSpec => []CatalogSound
  <1>1. CatalogInv => CatalogSound
    BY DEF CatalogInv, CatalogSound
  <1> QED BY <1>1, CatalogInvHolds, PTL

(***************************************************************************)
(* LocalRepository.  A descriptor, once opened without following a link,   *)
(* leads inside; a configuration a runtime gets was validated as a whole;  *)
(* and while a writer of credentials holds the lock of the directory it    *)
(* opened, what it read or wrote is what that directory contains.          *)
(***************************************************************************)
Inside == Dirs \ {Outside}

IsDoc(doc) == DOMAIN doc \subseteq Profiles \X Fields /\ doc \in [DOMAIN doc -> Secrets]

FilesFit(f) ==
    /\ DOMAIN f = Dirs
    /\ \A d \in Dirs : DOMAIN f[d] = DOMAIN NewDirectory /\ IsDoc(f[d].creds)
    /\ f[Outside].subs = <<>> /\ f[Outside].creds = EmptyDocument

\* States in which a root, or .mercury, has been opened.
RootOpened ==
    {"open root", "mkdir", "open mercury", "subs", "config", "default", "root rules",
     "mercury rules", "entry", "root again", "validate", "read", "write", "verify", "close"}

DirOpened ==
    {"subs", "config", "default", "root rules", "mercury rules", "entry", "root again",
     "validate", "read", "write", "verify", "close"}

UnderLock == {"open parent", "validate", "read", "write", "verify", "close"}

Writer(w) == w.op \in {"save", "clear"}

\* What a writer is asked to write.
ArgumentFits(w) ==
    /\ w.op = "save" =>
          /\ w.profile \in Profiles
          /\ DOMAIN w.arg \subseteq Fields
          /\ \A g \in DOMAIN w.arg : w.arg[g] \in Secrets \cup {Empty}
    /\ w.op = "clear" => w.arg \subseteq Profiles

\* What a writer that locked the directory it opened knows of its document.
Current(w, f) ==
    /\ w.at \in {"verify", "close"} /\ Writer(w) => w.lock = w.dir
    /\ w.lock = w.dir =>
          /\ w.at = "write" \/ (w.at = "close" /\ w.op = "save") => w.read = f[w.dir].creds
          /\ w.at = "close" /\ w.op = "clear" =>
                \A s \in Touched(w) : s \notin DOMAIN f[w.dir].creds

\* What a process knows at each of its steps.
ProcFits(p, w, h, f, c) ==
    /\ DOMAIN w = DOMAIN Idle
    /\ ArgumentFits(w)
    /\ w.at \in RootOpened => w.root \in Roots
    /\ w.at \in DirOpened => w.dir \in Inside
    /\ w.at = "stores" => Loads(w.config)
    /\ w.at = "flock" => w.lock \in Dirs
    /\ w.at \in UnderLock /\ Writer(w) => w.lock \in Dirs /\ h[w.lock] = p
    /\ w.at \in {"write", "verify"} => Writer(w)
    /\ w.at = "verify" => w.op = "save"
    /\ w.at = "write" => IsDoc(w.read)
    /\ ~c => Current(w, f)

EntriesFit == entry \in [Roots -> Inside \cup {"link", "absent"}]

ToldFits == DOMAIN told \subseteq Profiles \X Fields /\ told = [s \in DOMAIN told |-> told[s]]

RepositoryInv ==
    /\ holder = [d \in Dirs |-> holder[d]]
    /\ proc = [p \in Processes |-> proc[p]]
    /\ runtime = [p \in Processes |-> runtime[p]]
    /\ EntriesFit
    /\ ToldFits
    /\ FilesFit(files)
    /\ \A p \in Processes : ProcFits(p, proc[p], holder, files, crossed)
    /\ RuntimeTrustsItsConnectors
    /\ CredentialsKept

\* The fields of a process's record and of a directory.
LEMMA ProcFields ==
    /\ DOMAIN Idle = {"at", "op", "root", "dir", "lock", "read", "config", "profile", "arg"}
    /\ DOMAIN NewDirectory = {"subs", "config", "rules", "creds"}
  BY DEF Idle, NewDirectory

\* A process that does nothing knows nothing.
LEMMA IdleProcFits ==
    ASSUME NEW p, NEW h, NEW f, NEW c
    PROVE  ProcFits(p, Idle, h, f, c)
  <1>1. DOMAIN Idle = DOMAIN Idle /\ Idle.at = "idle" /\ Idle.op = "none"
    BY DEF Idle
  <1> QED BY <1>1 DEF ProcFits, Current, ArgumentFits, RootOpened, DirOpened, UnderLock

\* A step of one process takes no lock from another.
LocksKept(p) ==
    /\ holder' = [d \in Dirs |-> holder'[d]]
    /\ \A q \in Processes, d \in Dirs : q # p /\ holder[d] = q => holder'[d] = q

LEMMA LocksStay ==
    ASSUME RepositoryInv, NEW p, Ends(p) \/ holder' = holder
    PROVE  LocksKept(p)
  BY DEF Ends, LocksKept, RepositoryInv

\* A step of one process that changes no credentials.
LEMMA RepositoryFrame ==
    ASSUME RepositoryInv, NEW p \in Processes,
           proc' = [proc EXCEPT ![p] = proc'[p]],
           LocksKept(p),
           FilesFit(files'),
           \A d \in Dirs : files'[d].creds = files[d].creds,
           EntriesFit',
           told' = told,
           crossed' = crossed,
           told # <<>> => name' = name /\ entry'[name] = entry[name],
           ProcFits(p, proc'[p], holder', files', crossed),
           runtime' = [q \in Processes |-> runtime'[q]],
           RuntimeTrustsItsConnectors'
    PROVE  RepositoryInv'
  <1>1. /\ proc' = [q \in Processes |-> proc'[q]]
        /\ \A q \in Processes : q # p => proc'[q] = proc[q]
    BY DEF RepositoryInv
  <1>2. \A q \in Processes : ProcFits(q, proc'[q], holder', files', crossed)
    <2> SUFFICES ASSUME NEW q \in Processes, q # p
                 PROVE  ProcFits(q, proc[q], holder', files', crossed)
      BY <1>1
    <2>1. ProcFits(q, proc[q], holder, files, crossed)
      BY DEF RepositoryInv
    <2> DEFINE w == proc[q]
    <2>2. w.at \in DirOpened => w.dir \in Dirs /\ files'[w.dir].creds = files[w.dir].creds
      BY <2>1 DEF ProcFits, Inside
    <2>3. w.at \in {"write", "close"} => w.at \in DirOpened
      BY DEF DirOpened
    <2> HIDE DEF w
    <2>4. ProcFits(q, w, holder, files, crossed)
      BY <2>1 DEF w
    <2>5. w.at \in UnderLock /\ Writer(w) => w.lock \in Dirs /\ holder'[w.lock] = q
      BY <2>4 DEF ProcFits, LocksKept
    <2>6. Current(w, files) => Current(w, files')
      BY <2>2, <2>3 DEF Current
    <2>7. ProcFits(q, w, holder', files', crossed)
      BY <2>4, <2>5, <2>6 DEF ProcFits
    <2> QED BY <2>7 DEF w
  <1>3. ToldFits'
    BY DEF RepositoryInv, ToldFits
  <1>4. CredentialsKept'
    <2> SUFFICES ASSUME told # <<>>
                 PROVE  /\ name' \in Roots /\ entry'[name'] \in Dirs
                        /\ ~crossed => \A s \in DOMAIN told :
                              LET doc == files'[entry'[name']].creds
                              IN  IF told[s] = Empty THEN s \notin DOMAIN doc
                                  ELSE s \in DOMAIN doc /\ doc[s] = told[s]
      BY DEF CredentialsKept
    <2>1. name' = name /\ entry'[name] = entry[name] /\ name \in Roots /\ entry[name] \in Dirs
      BY DEF RepositoryInv, CredentialsKept
    <2>2. files'[entry'[name']].creds = files[entry[name]].creds
      BY <2>1
    <2> QED BY <2>1, <2>2 DEF RepositoryInv, CredentialsKept
  <1> QED BY <1>1, <1>2, <1>3, <1>4 DEF RepositoryInv, LocksKept

\* A step that changes what the process knows and nothing else.
LEMMA ProcessMoves ==
    ASSUME RepositoryInv, NEW p \in Processes, NEW w,
           proc' = [proc EXCEPT ![p] = w],
           LocksKept(p),
           UNCHANGED <<name, entry, files, runtime, told, crossed>>,
           ProcFits(p, w, holder', files, crossed)
    PROVE  RepositoryInv'
  <1>1. proc'[p] = w /\ proc' = [proc EXCEPT ![p] = proc'[p]]
    BY DEF RepositoryInv
  <1>2. FilesFit(files') /\ EntriesFit' /\ runtime' = [q \in Processes |-> runtime'[q]]
    BY DEF RepositoryInv, EntriesFit
  <1>3. RuntimeTrustsItsConnectors'
    BY DEF RepositoryInv, RuntimeTrustsItsConnectors
  <1> QED BY <1>1, <1>2, <1>3, RepositoryFrame

\* A call that ends releases the lock if it is its own.
LEMMA CallEnds ==
    ASSUME RepositoryInv, NEW p \in Processes, Ends(p),
           UNCHANGED <<name, entry, files, runtime, told, crossed>>
    PROVE  RepositoryInv'
  <1>1. proc' = [proc EXCEPT ![p] = Idle]
    BY DEF Ends
  <1>2. LocksKept(p)
    BY LocksStay
  <1>3. ProcFits(p, Idle, holder', files, crossed)
    BY IdleProcFits
  <1> QED BY <1>1, <1>2, <1>3, ProcessMoves

\* Going on to a step that knows no more than the one before.
LEMMA LabelFits ==
    ASSUME NEW p, NEW h, NEW f, NEW g, NEW c, NEW w, ProcFits(p, w, h, f, c), NEW label,
           label \notin {"stores", "flock", "write", "verify", "close"},
           label \in RootOpened => w.at \in RootOpened,
           label \in DirOpened => w.at \in DirOpened,
           label \in UnderLock => w.at \in UnderLock
    PROVE  ProcFits(p, [w EXCEPT !.at = label], h, g, c)
  <1> DEFINE v == [w EXCEPT !.at = label]
  <1>1. /\ DOMAIN v = DOMAIN Idle /\ v.at = label
        /\ v.op = w.op /\ v.root = w.root /\ v.dir = w.dir /\ v.profile = w.profile
        /\ v.arg = w.arg /\ v.lock = w.lock
    BY ProcFields DEF ProcFits
  <1> HIDE DEF v
  <1>2. ArgumentFits(v) /\ (Writer(v) <=> Writer(w))
    BY <1>1 DEF ProcFits, ArgumentFits, Writer
  <1>3. ProcFits(p, v, h, g, c)
    BY <1>1, <1>2 DEF ProcFits, Current
  <1> QED BY <1>3 DEF v

\* Steps that only look.
LEMMA LookingSteps ==
    ASSUME RepositoryInv, NEW p \in Processes,
           \/ OpenRoot(p) \/ SeekConfig(p) \/ RootRules(p) \/ RecheckEntry(p) \/ RecheckRoot(p)
           \/ ValidateParent(p) \/ ValidateDescriptors(p)
    PROVE  RepositoryInv'
  <1>1. UNCHANGED <<name, entry, files, runtime, told, crossed>>
    BY DEF OpenRoot, SeekConfig, RootRules, RecheckEntry, RecheckRoot, ValidateParent,
           ValidateDescriptors, Rest
  <1>2. CASE Ends(p)
    BY <1>1, <1>2, CallEnds
  <1>3. CASE ~Ends(p)
    <2>1. holder' = holder
      BY <1>3 DEF OpenRoot, SeekConfig, RootRules, RecheckEntry, RecheckRoot, ValidateParent,
                  ValidateDescriptors
    <2>2. \E label \in {"mkdir", "default", "root rules", "mercury rules", "root again", "runtime",
                        "lock", "read"} :
            /\ proc' = [proc EXCEPT ![p] = [proc[p] EXCEPT !.at = label]]
            /\ label \in RootOpened => proc[p].at \in RootOpened
            /\ label \in DirOpened => proc[p].at \in DirOpened
            /\ label \in UnderLock => proc[p].at \in UnderLock
      <3> USE DEF RootOpened, DirOpened, UnderLock
      <3>1. CASE OpenRoot(p)
        <4>1. proc[p].at = "open root" /\ Now(p, "mkdir")
          BY <1>3, <3>1 DEF OpenRoot
        <4> QED BY <4>1 DEF Now
      <3>2. CASE SeekConfig(p)
        <4>1. proc[p].at = "config" /\ \E l \in {"default", "root rules"} : Now(p, l)
          BY <3>2 DEF SeekConfig
        <4> QED BY <4>1 DEF Now
      <3>3. CASE RootRules(p)
        <4>1. proc[p].at = "root rules" /\ Now(p, "mercury rules")
          BY <3>3 DEF RootRules
        <4> QED BY <4>1 DEF Now
      <3>4. CASE RecheckEntry(p)
        <4>1. proc[p].at = "entry" /\ Now(p, "root again")
          BY <1>3, <3>4 DEF RecheckEntry
        <4> QED BY <4>1 DEF Now
      <3>5. CASE RecheckRoot(p)
        <4>1. proc[p].at = "root again" /\ Now(p, "runtime")
          BY <1>3, <3>5 DEF RecheckRoot, Now
        <4> QED BY <4>1 DEF Now
      <3>6. CASE ValidateParent(p)
        <4>1. Now(p, "lock")
          BY <1>3, <3>6 DEF ValidateParent
        <4> QED BY <4>1 DEF Now
      <3>7. CASE ValidateDescriptors(p)
        <4>1. proc[p].at = "validate" /\ Now(p, "read")
          BY <1>3, <3>7 DEF ValidateDescriptors
        <4> QED BY <4>1 DEF Now
      <3> QED BY <3>1, <3>2, <3>3, <3>4, <3>5, <3>6, <3>7
    <2>3. PICK label \in {"mkdir", "default", "root rules", "mercury rules", "root again", "runtime",
                          "lock", "read"} :
            /\ proc' = [proc EXCEPT ![p] = [proc[p] EXCEPT !.at = label]]
            /\ label \in RootOpened => proc[p].at \in RootOpened
            /\ label \in DirOpened => proc[p].at \in DirOpened
            /\ label \in UnderLock => proc[p].at \in UnderLock
      BY <2>2
    <2>4. ProcFits(p, proc[p], holder, files, crossed)
      BY DEF RepositoryInv
    <2>5. ProcFits(p, [proc[p] EXCEPT !.at = label], holder, files, crossed)
      BY <2>3, <2>4, LabelFits
    <2>6. LocksKept(p)
      BY <2>1, LocksStay
    <2> QED BY <1>1, <2>1, <2>3, <2>5, <2>6, ProcessMoves
  <1> QED BY <1>2, <1>3

\* A call begins; save and clear come with what they are to write.
LEMMA CallBegins ==
    ASSUME RepositoryInv, NEW p \in Processes, NEW w,
           proc' = [proc EXCEPT ![p] = w],
           DOMAIN w = DOMAIN Idle,
           w.at \in {"lstat root", "load config", "parent"} \/ (w.at = "open parent" /\ ~Writer(w)),
           ArgumentFits(w),
           UNCHANGED <<name, entry, files, holder, runtime, told, crossed>>
    PROVE  RepositoryInv'
  <1>1. ProcFits(p, w, holder, files, crossed)
    BY DEF ProcFits, Current, RootOpened, DirOpened, UnderLock
  <1>2. LocksKept(p)
    BY LocksStay
  <1> QED BY <1>1, <1>2, ProcessMoves

\* The steps that take a call up keep the invariant of the files.
LEMMA BeginningSteps ==
    ASSUME RepositoryInv, NEW p \in Processes,
           \/ Bootstrap(p) \/ Configure(p) \/ RecordValidation(p) \/ ClearValidations(p)
           \/ Save(p) \/ Clear(p) \/ ClearAll(p) \/ Snapshot(p) \/ Load(p)
    PROVE  RepositoryInv'
  <1>1. UNCHANGED <<name, entry, files, holder, runtime, told, crossed>>
    BY DEF Bootstrap, Configure, RecordValidation, ClearValidations, Save, Clear, ClearAll,
           Snapshot, Load, Credential, Calls
  <1>2. CASE Bootstrap(p)
    <2> DEFINE w == [Idle EXCEPT !.op = "bootstrap", !.at = "lstat root"]
    <2>1. proc' = [proc EXCEPT ![p] = w]
      BY <1>2 DEF Bootstrap
    <2>2. DOMAIN w = DOMAIN Idle /\ w.at = "lstat root" /\ w.op = "bootstrap"
      BY ProcFields
    <2> HIDE DEF w
    <2> QED BY <1>1, <2>1, <2>2, CallBegins DEF ArgumentFits
  <1>3. CASE Configure(p)
    <2>1. PICK profile \in Profiles, record \in Records :
            proc' = [proc EXCEPT ![p] =
                [Idle EXCEPT !.op = "configure", !.at = "load config",
                             !.profile = profile, !.arg = record]]
      BY <1>3 DEF Configure
    <2> DEFINE w == [Idle EXCEPT !.op = "configure", !.at = "load config",
                             !.profile = profile, !.arg = record]
    <2>2. DOMAIN w = DOMAIN Idle /\ w.at = "load config" /\ w.op = "configure"
      BY ProcFields
    <2>3. proc' = [proc EXCEPT ![p] = w]
      BY <2>1
    <2> HIDE DEF w
    <2> QED BY <1>1, <2>2, <2>3, CallBegins DEF ArgumentFits
  <1>4. CASE RecordValidation(p) \/ ClearValidations(p) \/ Load(p)
    <2>1. PICK profile \in Profiles, op \in {"validate", "unvalidate", "load"},
               label \in {"load config", "open parent"} :
            proc' = [proc EXCEPT ![p] = [Idle EXCEPT !.op = op, !.at = label, !.profile = profile]]
      BY <1>4 DEF RecordValidation, ClearValidations, Load
    <2> DEFINE w == [Idle EXCEPT !.op = op, !.at = label, !.profile = profile]
    <2>2. DOMAIN w = DOMAIN Idle /\ w.at = label /\ w.op = op
      BY ProcFields
    <2>3. proc' = [proc EXCEPT ![p] = w]
      BY <2>1
    <2> HIDE DEF w
    <2> QED BY <1>1, <2>2, <2>3, CallBegins DEF ArgumentFits, Writer
  <1>5. ASSUME NEW op, NEW arg, NEW profile, Credential(p, op, arg, profile),
               op = "save" => /\ profile \in Profiles
                              /\ DOMAIN arg \subseteq Fields
                              /\ \A g \in DOMAIN arg : arg[g] \in Secrets \cup {Empty},
               op = "clear" => arg \subseteq Profiles
        PROVE  RepositoryInv'
    <2> DEFINE w == [Idle EXCEPT !.op = op, !.arg = arg, !.profile = profile, !.at = "parent"]
    <2>1. proc' = [proc EXCEPT ![p] = w]
      BY <1>5 DEF Credential
    <2>2. DOMAIN w = DOMAIN Idle /\ w.at = "parent" /\ w.op = op /\ w.arg = arg
          /\ w.profile = profile
      BY ProcFields
    <2> HIDE DEF w
    <2> QED BY <1>1, <1>5, <2>1, <2>2, CallBegins DEF ArgumentFits
  <1>6. CASE Save(p)
    <2>1. PICK profile \in Profiles, f \in Fields, x \in Secrets \cup {Empty} :
            Credential(p, "save", [g \in {f} |-> x], profile)
      BY <1>6 DEF Save
    <2>2. DOMAIN [g \in {f} |-> x] \subseteq Fields
          /\ \A h \in DOMAIN [g \in {f} |-> x] : [g \in {f} |-> x][h] \in Secrets \cup {Empty}
      OBVIOUS
    <2> QED BY <1>5, <2>1, <2>2
  <1>7. CASE Clear(p) \/ ClearAll(p)
    <2>1. CASE Clear(p)
      <3>1. PICK profile \in Profiles : Credential(p, "clear", {profile}, profile)
        BY <2>1 DEF Clear
      <3> QED BY <1>5, <3>1
    <2>2. CASE ClearAll(p)
      <3>1. Credential(p, "clear", Profiles, CHOOSE q \in Profiles : TRUE)
        BY <2>2 DEF ClearAll
      <3> QED BY <1>5, <3>1
    <2> QED BY <1>7, <2>1, <2>2
  <1>8. CASE Snapshot(p)
    <2>1. PICK profile \in Profiles : Credential(p, "snapshot", "none", profile)
      BY <1>8 DEF Snapshot
    <2> QED BY <1>5, <2>1
  <1> QED BY <1>2, <1>3, <1>4, <1>6, <1>7, <1>8

\* Steps that find something out: the repository, .mercury, the configuration.
LEMMA FindingSteps ==
    ASSUME RepositoryInv, NEW p \in Processes,
           \/ LstatRoot(p) \/ OpenMercury(p) \/ LoadForRuntime(p) \/ LoadConfig(p) \/ OpenLock(p) \/ OpenParent(p)
    PROVE  RepositoryInv'
  <1> DEFINE w == proc[p]
  <1>1. UNCHANGED <<name, entry, files, runtime, told, crossed>>
    BY DEF LstatRoot, OpenMercury, LoadForRuntime, LoadConfig, OpenLock, OpenParent, Rest
  <1>2. ProcFits(p, w, holder, files, crossed) /\ DOMAIN w = DOMAIN Idle
    BY DEF RepositoryInv, ProcFits
  <1>3. CASE Ends(p)
    BY <1>1, <1>3, CallEnds
  <1>4. ASSUME NEW v, proc' = [proc EXCEPT ![p] = v], holder' = holder,
               ProcFits(p, v, holder, files, crossed)
        PROVE  RepositoryInv'
    BY <1>1, <1>4, LocksStay, ProcessMoves
  <1>5. CASE LstatRoot(p) /\ ~Ends(p)
    <2> DEFINE v == [w EXCEPT !.root = name, !.at = "open root"]
    <2>1. proc' = [proc EXCEPT ![p] = v] /\ holder' = holder /\ name \in Roots
      BY <1>5 DEF LstatRoot
    <2>2. /\ DOMAIN v = DOMAIN Idle /\ v.at = "open root" /\ v.root = name
          /\ v.op = w.op /\ v.profile = w.profile /\ v.arg = w.arg
      BY <1>2, ProcFields
    <2> HIDE DEF v
    <2>3. ProcFits(p, v, holder, files, crossed)
      BY <1>2, <2>1, <2>2 DEF ProcFits, Current, ArgumentFits, RootOpened, DirOpened, UnderLock
    <2> QED BY <1>4, <2>1, <2>3
  <1>6. CASE OpenMercury(p) /\ ~Ends(p)
    <2> DEFINE d == entry[w.root]
               v == [w EXCEPT !.dir = d, !.at = "subs"]
    <2>1. /\ proc' = [proc EXCEPT ![p] = v] /\ holder' = holder /\ d \in Dirs
          /\ w.at = "open mercury"
      BY <1>6 DEF OpenMercury, OpensAs, IsDirectory
    <2>2. w.root \in Roots
      BY <1>2, <2>1 DEF ProcFits, RootOpened
    <2>3. d \in Inside
      BY <2>1, <2>2, RepositoryAssumption DEF RepositoryInv, EntriesFit, Inside
    <2>4. /\ DOMAIN v = DOMAIN Idle /\ v.at = "subs" /\ v.root = w.root /\ v.dir = d
          /\ v.op = w.op /\ v.profile = w.profile /\ v.arg = w.arg
      BY <1>2, ProcFields
    <2> HIDE DEF v, d
    <2>5. ProcFits(p, v, holder, files, crossed)
      BY <1>2, <2>2, <2>3, <2>4 DEF ProcFits, Current, ArgumentFits, UnderLock
    <2> QED BY <1>4, <2>1, <2>5
  <1>7. CASE LoadForRuntime(p) /\ ~Ends(p)
    <2> DEFINE c == ConfigByPath
               v == [w EXCEPT !.config = c, !.at = "stores"]
    <2>1. proc' = [proc EXCEPT ![p] = v] /\ holder' = holder /\ Loads(c)
      BY <1>7 DEF LoadForRuntime
    <2>2. /\ DOMAIN v = DOMAIN Idle /\ v.at = "stores" /\ v.config = c
          /\ v.op = w.op /\ v.profile = w.profile /\ v.arg = w.arg
      BY <1>2, ProcFields
    <2> HIDE DEF v, c
    <2>3. ProcFits(p, v, holder, files, crossed)
      BY <1>2, <2>1, <2>2 DEF ProcFits, Current, ArgumentFits, RootOpened, DirOpened, UnderLock
    <2> QED BY <1>4, <2>1, <2>3
  <1>8. CASE LoadConfig(p) /\ ~Ends(p)
    <2> DEFINE c == ConfigByPath
               v == [w EXCEPT !.config = c, !.at = "write config"]
    <2>1. proc' = [proc EXCEPT ![p] = v] /\ holder' = holder
      BY <1>8 DEF LoadConfig
    <2>2. /\ DOMAIN v = DOMAIN Idle /\ v.at = "write config"
          /\ v.op = w.op /\ v.profile = w.profile /\ v.arg = w.arg
      BY <1>2, ProcFields
    <2> HIDE DEF v, c
    <2>3. ProcFits(p, v, holder, files, crossed)
      BY <1>2, <2>1, <2>2 DEF ProcFits, Current, ArgumentFits, RootOpened, DirOpened, UnderLock
    <2> QED BY <1>4, <2>1, <2>3
  <1>9. CASE OpenLock(p) /\ ~Ends(p)
    <2> DEFINE d == entry[name]
               v == [w EXCEPT !.lock = d, !.at = "flock"]
    <2>1. proc' = [proc EXCEPT ![p] = v] /\ holder' = holder /\ d \in Dirs
      BY <1>9 DEF OpenLock, OpensAs, IsDirectory
    <2>2. /\ DOMAIN v = DOMAIN Idle /\ v.at = "flock" /\ v.lock = d
          /\ v.op = w.op /\ v.profile = w.profile /\ v.arg = w.arg
      BY <1>2, ProcFields
    <2> HIDE DEF v, d
    <2>3. ProcFits(p, v, holder, files, crossed)
      BY <1>2, <2>1, <2>2 DEF ProcFits, Current, ArgumentFits, RootOpened, DirOpened, UnderLock
    <2> QED BY <1>4, <2>1, <2>3
  <1>10. CASE OpenParent(p) /\ ~Ends(p)
    <2> DEFINE d == entry[name]
               v == [w EXCEPT !.root = name, !.dir = d, !.at = "validate"]
    <2>1. /\ proc' = [proc EXCEPT ![p] = v] /\ holder' = holder /\ d \in Dirs /\ name \in Roots
          /\ w.at = "open parent"
      BY <1>10 DEF OpenParent, OpensAs, IsDirectory
    <2>2. d \in Inside
      BY <2>1, RepositoryAssumption DEF RepositoryInv, EntriesFit, Inside
    <2>3. /\ DOMAIN v = DOMAIN Idle /\ v.at = "validate" /\ v.root = name /\ v.dir = d
          /\ v.op = w.op /\ v.profile = w.profile /\ v.arg = w.arg /\ v.lock = w.lock
      BY <1>2, ProcFields
    <2>4. Writer(w) => w.lock \in Dirs /\ holder[w.lock] = p
      BY <1>2, <2>1 DEF ProcFits, UnderLock
    <2> HIDE DEF v, d
    <2>5. ProcFits(p, v, holder, files, crossed)
      BY <1>2, <2>1, <2>2, <2>3, <2>4 DEF ProcFits, Current, ArgumentFits, Writer
    <2> QED BY <1>4, <2>1, <2>5
  <1> QED BY <1>3, <1>5, <1>6, <1>7, <1>8, <1>9, <1>10

\* The lock is taken.
LEMMA LockingStep ==
    ASSUME RepositoryInv, NEW p \in Processes, TakeLock(p)
    PROVE  RepositoryInv'
  <1> DEFINE w == proc[p]
             l == proc[p].lock
             v == [w EXCEPT !.at = "open parent"]
  <1>1. /\ UNCHANGED <<name, entry, files, runtime, told, crossed>>
        /\ proc' = [proc EXCEPT ![p] = v] /\ w.at = "flock"
        /\ holder' = [holder EXCEPT ![l] = p] /\ holder[l] = "free"
    BY DEF TakeLock, Now, Rest, Free
  <1>2. ProcFits(p, w, holder, files, crossed) /\ DOMAIN w = DOMAIN Idle
    BY DEF RepositoryInv, ProcFits
  <1>3. /\ DOMAIN v = DOMAIN Idle /\ v.at = "open parent"
        /\ v.op = w.op /\ v.profile = w.profile /\ v.arg = w.arg /\ v.lock = l
    BY <1>2, ProcFields
  <1>4. l \in Dirs /\ holder' = [d \in Dirs |-> holder'[d]] /\ holder'[l] = p
    BY <1>1, <1>2 DEF ProcFits, RepositoryInv
  <1>5. LocksKept(p)
    BY <1>1, <1>4, RepositoryAssumption DEF LocksKept, RepositoryInv
  <1> HIDE DEF v, l
  <1>6. ProcFits(p, v, holder', files, crossed)
    BY <1>2, <1>3, <1>4 DEF ProcFits, Current, ArgumentFits, RootOpened, DirOpened
  <1> QED BY <1>1, <1>5, <1>6, ProcessMoves

\* A document is read, or read back.
LEMMA ReadingSteps ==
    ASSUME RepositoryInv, NEW p \in Processes, Read(p) \/ Verify(p)
    PROVE  RepositoryInv'
  <1> DEFINE w == proc[p]
             doc == files[w.dir].creds
  <1>1. UNCHANGED <<name, entry, files, runtime, told, crossed>>
    BY DEF Read, Verify, Rest
  <1>2. ProcFits(p, w, holder, files, crossed) /\ DOMAIN w = DOMAIN Idle
    BY DEF RepositoryInv, ProcFits
  <1>3. CASE Ends(p)
    BY <1>1, <1>3, CallEnds
  <1>4. CASE ~Ends(p)
    <2>1. /\ holder' = holder
          /\ \E label \in {"write", "close"} :
               /\ proc' = [proc EXCEPT ![p] = [w EXCEPT !.read = doc, !.at = label]]
               /\ label = "write" => w.op \in {"save", "clear"}
               /\ label = "close" => w.op # "clear" /\ (Writer(w) => w.at = "verify")
          /\ w.at \in {"read", "verify"}
      <3>1. CASE Read(p)
        BY <1>4, <3>1 DEF Read, Writer
      <3>2. CASE Verify(p)
        <4>1. w.op = "save"
          BY <1>2, <3>2 DEF Verify, ProcFits
        <4> QED BY <3>2, <4>1 DEF Verify, Writer
      <3> QED BY <3>1, <3>2
    <2>2. PICK label \in {"write", "close"} :
               /\ proc' = [proc EXCEPT ![p] = [w EXCEPT !.read = doc, !.at = label]]
               /\ label = "write" => w.op \in {"save", "clear"}
               /\ label = "close" => w.op # "clear" /\ (Writer(w) => w.at = "verify")
      BY <2>1
    <2> DEFINE v == [w EXCEPT !.read = doc, !.at = label]
    <2>3. /\ DOMAIN v = DOMAIN Idle /\ v.at = label /\ v.read = doc /\ v.root = w.root
          /\ v.dir = w.dir /\ v.op = w.op /\ v.profile = w.profile /\ v.arg = w.arg
          /\ v.lock = w.lock
      BY <1>2, ProcFields
    <2>4. /\ w.root \in Roots /\ w.dir \in Inside
          /\ Writer(w) => w.lock \in Dirs /\ holder[w.lock] = p
      BY <1>2, <2>1 DEF ProcFits, RootOpened, DirOpened, UnderLock
    <2>5. proc' = [proc EXCEPT ![p] = v] /\ v.read = files[v.dir].creds
      BY <2>2, <2>3
    <2>6. IsDoc(doc)
      BY <2>4 DEF RepositoryInv, FilesFit, Inside
    <2>7. ~crossed /\ Writer(w) /\ label = "close" => w.lock = w.dir
      BY <1>2, <2>2 DEF ProcFits, Current
    <2> HIDE DEF v, doc
    <2>8. Current(v, files) \/ crossed
      BY <2>2, <2>3, <2>5, <2>7 DEF Current, Writer
    <2>9. ProcFits(p, v, holder, files, crossed)
      BY <1>2, <2>2, <2>3, <2>4, <2>6, <2>8 DEF ProcFits, ArgumentFits, Writer
    <2> QED BY <1>1, <2>1, <2>5, <2>9, LocksStay, ProcessMoves
  <1> QED BY <1>3, <1>4

\* A runtime gets the configuration that was validated as a whole.
LEMMA StartingStep ==
    ASSUME RepositoryInv, NEW p \in Processes, ForRepository(p)
    PROVE  RepositoryInv'
  <1> DEFINE c == proc[p].config
  <1>1. /\ proc[p].at = "stores" /\ Ends(p)
        /\ runtime' = runtime \/ runtime' = [runtime EXCEPT ![p] = {c}]
        /\ UNCHANGED <<name, entry, files, told, crossed>>
    BY DEF ForRepository
  <1>2. Loads(c)
    BY <1>1 DEF RepositoryInv, ProcFits
  <1>3. /\ DOMAIN c.connectors = DOMAIN c.hosts
        /\ \A q \in DOMAIN c.connectors :
              /\ c.hosts[q] = HostsOf(c.connectors[q])
              /\ \A url \in Endpoints(c.connectors[q]) :
                    /\ url.scheme # "https" => url.host \in PrivateHosts
                    /\ url.host \in PrivateHosts => q \in PrivateProfiles /\ AllowPrivateNetwork(c, q)
    <2>1. LoadConnectors(c)
      BY <1>2 DEF Loads
    <2>2. ASSUME NEW q \in DOMAIN c.connectors, NEW url \in Endpoints(c.connectors[q])
          PROVE  /\ url.scheme # "https" => url.host \in PrivateHosts
                 /\ url.host \in PrivateHosts => q \in PrivateProfiles /\ AllowPrivateNetwork(c, q)
      <3>1. ValidateEndpoint(url, q, c.connectors[q].private)
        BY <2>1 DEF LoadConnectors, Normalizes
      <3> QED BY <3>1 DEF ValidateEndpoint, PrivateNetworkHost, AllowPrivateNetwork
    <2> QED BY <2>1, <2>2 DEF LoadConnectors
  <1> HIDE DEF c
  <1>4. runtime' = [q \in Processes |-> runtime'[q]]
    BY <1>1 DEF RepositoryInv
  <1>5. RuntimeTrustsItsConnectors'
    BY <1>1, <1>3 DEF RepositoryInv, RuntimeTrustsItsConnectors
  <1>6. /\ proc' = [proc EXCEPT ![p] = Idle] /\ proc'[p] = Idle
        /\ LocksKept(p)
    BY <1>1, LocksStay DEF Ends, RepositoryInv
  <1>7. ProcFits(p, Idle, holder', files', crossed)
    BY IdleProcFits
  <1>8. FilesFit(files') /\ EntriesFit'
    BY <1>1 DEF RepositoryInv, EntriesFit
  <1> QED BY <1>1, <1>4, <1>5, <1>6, <1>7, <1>8, RepositoryFrame

\* An error or the death of a process.
LEMMA StoppingSteps ==
    ASSUME RepositoryInv, NEW p \in Processes, Fails(p) \/ Dies(p)
    PROVE  RepositoryInv'
  <1>1. CASE Fails(p)
    BY <1>1, CallEnds DEF Fails, Rest
  <1>2. CASE Dies(p)
    <2>1. /\ Ends(p) /\ runtime' = [runtime EXCEPT ![p] = {}]
          /\ UNCHANGED <<name, entry, files, told, crossed>>
      BY <1>2 DEF Dies, NoFile
    <2>2. runtime' = [q \in Processes |-> runtime'[q]]
      BY <2>1 DEF RepositoryInv
    <2>3. RuntimeTrustsItsConnectors'
      BY <2>1 DEF RepositoryInv, RuntimeTrustsItsConnectors
    <2>4. /\ proc' = [proc EXCEPT ![p] = Idle] /\ proc'[p] = Idle
          /\ LocksKept(p)
      BY <2>1, LocksStay DEF Ends, RepositoryInv
    <2>5. ProcFits(p, Idle, holder', files', crossed)
      BY IdleProcFits
    <2>6. FilesFit(files') /\ EntriesFit'
      BY <2>1 DEF RepositoryInv, EntriesFit
    <2> QED BY <2>1, <2>2, <2>3, <2>4, <2>5, <2>6, RepositoryFrame
  <1> QED BY <1>1, <1>2

\* Writing a file other than credentials.env, or working directories inside,
\* keeps the credentials.
LEMMA OtherFiles ==
    ASSUME FilesFit(files), NEW d \in Dirs, NEW x,
           \/ files' = [files EXCEPT ![d].config = x]
           \/ files' = [files EXCEPT ![d].rules = x]
           \/ d \in Inside /\ files' = [files EXCEPT ![d].subs = x]
    PROVE  FilesFit(files') /\ \A e \in Dirs : files'[e].creds = files[e].creds
  <1>1. /\ DOMAIN files = Dirs /\ Outside \in Dirs
        /\ \A e \in Dirs : DOMAIN files[e] = {"subs", "config", "rules", "creds"}
        /\ \A e \in Dirs : IsDoc(files[e].creds)
        /\ files[Outside].subs = <<>> /\ files[Outside].creds = EmptyDocument
    BY ProcFields, RepositoryAssumption DEF FilesFit
  <1>2. DOMAIN files' = Dirs /\ \A e \in Dirs : e # d => files'[e] = files[e]
    BY <1>1
  <1>3. /\ DOMAIN files'[d] = {"subs", "config", "rules", "creds"}
        /\ files'[d].creds = files[d].creds
        /\ d \in Inside \/ files'[d].subs = files[d].subs
    BY <1>1
  <1>4. \A e \in Dirs : /\ DOMAIN files'[e] = {"subs", "config", "rules", "creds"}
                        /\ files'[e].creds = files[e].creds
    BY <1>1, <1>2, <1>3
  <1>5. files'[Outside].subs = <<>>
    BY <1>1, <1>2, <1>3 DEF Inside
  <1> QED BY <1>1, <1>2, <1>4, <1>5, ProcFields DEF FilesFit

\* A step that changes entries or other files.
LEMMA WritingFrame ==
    ASSUME RepositoryInv, NEW p \in Processes, NEW v,
           proc' = [proc EXCEPT ![p] = v],
           LocksKept(p),
           FilesFit(files'),
           \A d \in Dirs : files'[d].creds = files[d].creds,
           EntriesFit',
           UNCHANGED <<name, told, crossed, runtime>>,
           told # <<>> => entry'[name] = entry[name],
           ProcFits(p, v, holder', files', crossed)
    PROVE  RepositoryInv'
  <1>1. proc'[p] = v /\ proc' = [proc EXCEPT ![p] = proc'[p]]
    BY DEF RepositoryInv
  <1>2. RuntimeTrustsItsConnectors' /\ runtime' = [q \in Processes |-> runtime'[q]]
    BY DEF RepositoryInv, RuntimeTrustsItsConnectors
  <1> QED BY <1>1, <1>2, RepositoryFrame

\* .mercury is made if it is missing.
LEMMA MakingStep ==
    ASSUME RepositoryInv, NEW p \in Processes, EnsureMercury(p)
    PROVE  RepositoryInv'
  <1> DEFINE w == proc[p]
             r == proc[p].root
             v == [w EXCEPT !.at = "open mercury"]
  <1>1. w.at = "mkdir" /\ UNCHANGED <<name, files, runtime, told, crossed>>
    BY DEF EnsureMercury
  <1>2. ProcFits(p, w, holder, files, crossed)
    BY DEF RepositoryInv
  <1>3. ProcFits(p, v, holder, files, crossed)
    BY <1>1, <1>2, LabelFits DEF RootOpened, DirOpened, UnderLock
  <1>4. r \in Roots
    BY <1>1, <1>2 DEF ProcFits, RootOpened
  <1>5. CASE entry' = entry /\ Ends(p)
    BY <1>1, <1>5, CallEnds
  <1>6. CASE entry' = entry /\ Now(p, "open mercury") /\ holder' = holder
    <2>1. proc' = [proc EXCEPT ![p] = v]
      BY <1>6 DEF Now
    <2> QED BY <1>1, <1>3, <1>6, <2>1, LocksStay, ProcessMoves
  <1>7. ASSUME NEW d \in Dirs, entry[r] = "absent", Fresh(d), entry' = [entry EXCEPT ![r] = d],
               Now(p, "open mercury"), holder' = holder
        PROVE  RepositoryInv'
    <2>1. proc' = [proc EXCEPT ![p] = v]
      BY <1>7 DEF Now
    <2>2. EntriesFit'
      BY <1>4, <1>7 DEF RepositoryInv, EntriesFit, Fresh, Inside
    <2>3. told # <<>> => name # r
      BY <1>7, RepositoryAssumption DEF RepositoryInv, CredentialsKept
    <2>4. told # <<>> => entry'[name] = entry[name]
      BY <1>7, <2>3 DEF RepositoryInv, CredentialsKept, EntriesFit
    <2>5. FilesFit(files') /\ \A e \in Dirs : files'[e].creds = files[e].creds
      BY <1>1 DEF RepositoryInv
    <2>6. ProcFits(p, v, holder', files', crossed)
      BY <1>1, <1>3, <1>7
    <2> HIDE DEF v
    <2>7. LocksKept(p)
      BY <1>7, LocksStay
    <2> QED BY <1>1, <1>7, <2>1, <2>2, <2>4, <2>5, <2>6, <2>7, WritingFrame
  <1> QED BY <1>5, <1>6, <1>7 DEF EnsureMercury

\* Working directories, the default configuration and .gitignore, through the
\* descriptor of .mercury.
LEMMA FillingSteps ==
    ASSUME RepositoryInv, NEW p \in Processes, EnsureSub(p) \/ WriteDefault(p) \/ MercuryRules(p)
    PROVE  RepositoryInv'
  <1> DEFINE w == proc[p]
             d == proc[p].dir
  <1>1. UNCHANGED <<name, entry, holder, runtime, told, crossed>>
    BY DEF EnsureSub, WriteDefault, MercuryRules
  <1>2. ProcFits(p, w, holder, files, crossed) /\ FilesFit(files) /\ EntriesFit'
    BY <1>1 DEF RepositoryInv, EntriesFit
  <1>3. w.at \in {"subs", "default", "mercury rules"}
    BY DEF EnsureSub, WriteDefault, MercuryRules
  <1>4. d \in Inside /\ d \in Dirs
    BY <1>2, <1>3 DEF ProcFits, DirOpened, Inside
  <1>5. FilesFit(files') /\ \A e \in Dirs : files'[e].creds = files[e].creds
    <2>1. CASE files' = files
      BY <1>2, <2>1
    <2>2. CASE files' # files
      <3>1. \E x : \/ files' = [files EXCEPT ![d].config = x]
                   \/ files' = [files EXCEPT ![d].rules = x]
                   \/ files' = [files EXCEPT ![d].subs = x]
        <4>1. CASE EnsureSub(p)
          <5>1. files' = [files EXCEPT ![d].subs = SubSeq(Subs, 1, Len(files[d].subs) + 1)]
            BY <2>2, <4>1 DEF EnsureSub
          <5> QED BY <5>1
        <4>2. CASE WriteDefault(p)
          BY <4>2 DEF WriteDefault
        <4>3. CASE MercuryRules(p)
          BY <4>3 DEF MercuryRules
        <4> QED BY <4>1, <4>2, <4>3
      <3> QED BY <1>2, <1>4, <3>1, OtherFiles
    <2> QED BY <2>1, <2>2
  <1>6. \E v : proc' = [proc EXCEPT ![p] = v] /\ ProcFits(p, v, holder, files', crossed)
    <2>1. CASE EnsureSub(p) /\ proc' = proc
      <3>1. proc' = [proc EXCEPT ![p] = w]
        BY <2>1 DEF RepositoryInv
      <3>2. w.at = "subs"
        BY <2>1 DEF EnsureSub
      <3>3. ProcFits(p, w, holder, files', crossed)
        BY <1>2, <3>2 DEF ProcFits, Current
      <3> QED BY <3>1, <3>3
    <2>2. CASE \E label \in {"config", "root rules", "entry"} : Now(p, label)
      <3>1. PICK label \in {"config", "root rules", "entry"} : Now(p, label)
        BY <2>2
      <3>2. proc' = [proc EXCEPT ![p] = [w EXCEPT !.at = label]]
        BY <3>1 DEF Now
      <3>3. ProcFits(p, [w EXCEPT !.at = label], holder, files', crossed)
        BY <1>2, <1>3, LabelFits DEF RootOpened, DirOpened, UnderLock
      <3> QED BY <3>2, <3>3
    <2> QED BY <2>1, <2>2 DEF EnsureSub, WriteDefault, MercuryRules
  <1>7. LocksKept(p)
    BY <1>1, LocksStay
  <1> QED BY <1>1, <1>2, <1>5, <1>6, <1>7, WritingFrame

\* The configuration is written by path, without the lock.
LEMMA ConfigWriteStep ==
    ASSUME RepositoryInv, NEW p \in Processes, WriteConfig(p)
    PROVE  RepositoryInv'
  <1>1. Ends(p) /\ UNCHANGED <<name, runtime, told, crossed>>
    BY DEF WriteConfig
  <1>2. proc' = [proc EXCEPT ![p] = Idle] /\ ProcFits(p, Idle, holder', files', crossed)
    BY <1>1, IdleProcFits DEF Ends
  <1>3. LocksKept(p)
    BY <1>1, LocksStay
  <1>4. FilesFit(files)
    BY DEF RepositoryInv
  <1> DEFINE x == {Rewritten(proc[p])}
  <1>5. CASE UNCHANGED <<entry, files>>
    BY <1>1, <1>5, CallEnds
  <1>6. CASE ByPath \in Dirs /\ files' = [files EXCEPT ![ByPath].config = x] /\ entry' = entry
    <2> HIDE DEF x
    <2>1. FilesFit(files') /\ \A e \in Dirs : files'[e].creds = files[e].creds
      BY <1>4, <1>6, OtherFiles
    <2>2. EntriesFit'
      BY <1>6 DEF RepositoryInv, EntriesFit
    <2> QED BY <1>1, <1>2, <1>3, <1>6, <2>1, <2>2, WritingFrame
  <1>7. ASSUME NEW d \in Dirs, ByPath = "absent", Fresh(d), entry' = [entry EXCEPT ![name] = d],
               files' = [files EXCEPT ![d].config = x]
        PROVE  RepositoryInv'
    <2> HIDE DEF x
    <2>1. FilesFit(files') /\ \A e \in Dirs : files'[e].creds = files[e].creds
      BY <1>4, <1>7, OtherFiles
    <2>2. EntriesFit'
      BY <1>7 DEF RepositoryInv, EntriesFit, Fresh, Inside
    <2>3. entry[name] = "absent" /\ told = <<>>
      BY <1>7, RepositoryAssumption DEF ByPath, RepositoryInv, CredentialsKept
    <2> QED BY <1>1, <1>2, <1>3, <2>1, <2>2, <2>3, WritingFrame
  <1> QED BY <1>5, <1>6, <1>7 DEF WriteConfig

\* Others rename the repository or .mercury, or edit the configuration.
LEMMA MeddlingSteps ==
    ASSUME RepositoryInv, SwapMercury \/ SwapRoot \/ EditConfig
    PROVE  RepositoryInv'
  <1>1. UNCHANGED <<holder, proc, runtime, crossed>>
    BY DEF SwapMercury, SwapRoot, EditConfig
  <1>2. RuntimeTrustsItsConnectors' /\ runtime' = [q \in Processes |-> runtime'[q]]
        /\ proc' = [q \in Processes |-> proc'[q]]
    BY <1>1 DEF RepositoryInv, RuntimeTrustsItsConnectors
  <1>3. EntriesFit'
    BY DEF RepositoryInv, SwapMercury, SwapRoot, EditConfig, EntriesFit, Inside
  <1>4. FilesFit(files') /\ \A e \in Dirs : files'[e].creds = files[e].creds
    <2>1. CASE SwapMercury \/ SwapRoot
      BY <2>1 DEF RepositoryInv, SwapMercury, SwapRoot
    <2>2. CASE EditConfig
      <3>1. \E d \in Dirs : \E x : files' = [files EXCEPT ![d].config = x]
        <4>1. PICK d \in {entry[name]} \cap Dirs, p \in Profiles, record \in Records,
                   hosts \in {HostsOf(r) : r \in Records} :
                files' = [files EXCEPT ![d].config =
                             {[DefaultConfig EXCEPT !.connectors = [q \in {p} |-> record],
                                                    !.hosts = [q \in {p} |-> hosts]]}]
          BY <2>2, Zenon DEF EditConfig
        <4> QED BY <4>1
      <3> QED BY <3>1, OtherFiles DEF RepositoryInv
    <2> QED BY <2>1, <2>2
  <1>5. \A p \in Processes : ProcFits(p, proc'[p], holder', files', crossed)
    <2> SUFFICES ASSUME NEW p \in Processes PROVE ProcFits(p, proc[p], holder, files', crossed)
      BY <1>1
    <2>1. ProcFits(p, proc[p], holder, files, crossed)
      BY DEF RepositoryInv
    <2>2. proc[p].at \in {"write", "close"} => files'[proc[p].dir].creds = files[proc[p].dir].creds
      BY <1>4, <2>1 DEF ProcFits, DirOpened, Inside
    <2> QED BY <2>1, <2>2 DEF ProcFits, Current
  <1>6. ToldFits' /\ CredentialsKept'
    <2>1. CASE told' = <<>>
      BY <2>1 DEF ToldFits, CredentialsKept
    <2>2. CASE EditConfig
      <3>1. UNCHANGED <<name, entry, told, crossed>>
        BY <2>2 DEF EditConfig
      <3> QED BY <1>1, <1>4, <3>1 DEF RepositoryInv, ToldFits, CredentialsKept
    <2> QED BY <2>1, <2>2 DEF SwapMercury, SwapRoot
  <1> QED BY <1>1, <1>2, <1>3, <1>4, <1>5, <1>6 DEF RepositoryInv

\* The document a writer makes of one: it differs only in the slots it speaks
\* about, and holds no empty value.
LEMMA NextDocumentFits ==
    ASSUME NEW w, ArgumentFits(w), Writer(w), IsDoc(w.read)
    PROVE  /\ IsDoc(NextDocument(w))
           /\ \A s \in (Profiles \X Fields) \ Touched(w) :
                 /\ s \in DOMAIN NextDocument(w) <=> s \in DOMAIN w.read
                 /\ s \in DOMAIN w.read => NextDocument(w)[s] = w.read[s]
           /\ w.op = "clear" => \A s \in Touched(w) : s \notin DOMAIN NextDocument(w)
           /\ Touched(w) \subseteq Profiles \X Fields
  <1>1. CASE w.op = "save"
    <2> DEFINE doc == w.read
               values == w.arg
               removed == {<<w.profile, f>> : f \in {g \in DOMAIN values : values[g] = Empty}}
               given == {<<w.profile, f>> : f \in {g \in DOMAIN values : values[g] # Empty}}
               new == [s \in (DOMAIN doc \ removed) \cup given |->
                          IF s \in given THEN values[s[2]] ELSE doc[s]]
    <2>1. NextDocument(w) = new /\ Touched(w) = {w.profile} \X DOMAIN values
      BY <1>1 DEF NextDocument, Saved, Touched
    <2>2. /\ w.profile \in Profiles /\ DOMAIN values \subseteq Fields
          /\ \A g \in DOMAIN values : values[g] \in Secrets \cup {Empty}
      BY <1>1 DEF ArgumentFits
    <2>3. /\ given \subseteq Touched(w) /\ removed \subseteq Touched(w)
          /\ Touched(w) \subseteq Profiles \X Fields
      BY <2>1, <2>2
    <2>4. \A s \in given : values[s[2]] \in Secrets
      BY <2>2
    <2>5. DOMAIN doc \subseteq Profiles \X Fields /\ \A s \in DOMAIN doc : doc[s] \in Secrets
      BY DEF IsDoc
    <2> HIDE DEF doc, values, removed, given
    <2>6. IsDoc(new)
      BY <2>3, <2>4, <2>5 DEF IsDoc
    <2>7. \A s \in (Profiles \X Fields) \ Touched(w) :
             /\ s \in DOMAIN new <=> s \in DOMAIN doc
             /\ s \in DOMAIN doc => new[s] = doc[s]
      BY <2>3
    <2> HIDE DEF new
    <2> QED BY <1>1, <2>1, <2>3, <2>6, <2>7 DEF doc
  <1>2. CASE w.op # "save"
    <2>1. w.op = "clear" /\ w.arg \subseteq Profiles
      BY <1>2 DEF Writer, ArgumentFits
    <2> DEFINE doc == w.read
               kept == {s \in DOMAIN doc : s[1] \notin w.arg}
    <2>2. NextDocument(w) = [s \in kept |-> doc[s]] /\ Touched(w) = w.arg \X Fields
      BY <2>1 DEF NextDocument, Cleared, Restrict, Touched
    <2>3. DOMAIN doc \subseteq Profiles \X Fields /\ \A s \in DOMAIN doc : doc[s] \in Secrets
      BY DEF IsDoc
    <2>4. IsDoc(NextDocument(w))
      BY <2>2, <2>3 DEF IsDoc
    <2>5. \A s \in (Profiles \X Fields) \ Touched(w) : s[1] \notin w.arg
      BY <2>2
    <2>6. \A s \in (Profiles \X Fields) \ Touched(w) :
             /\ s \in DOMAIN NextDocument(w) <=> s \in DOMAIN doc
             /\ s \in DOMAIN doc => NextDocument(w)[s] = doc[s]
      BY <2>2, <2>5
    <2>7. \A s \in Touched(w) : s \notin DOMAIN NextDocument(w)
      BY <2>2
    <2>8. Touched(w) \subseteq Profiles \X Fields
      BY <2>1, <2>2
    <2> QED BY <2>4, <2>6, <2>7, <2>8
  <1> QED BY <1>1, <1>2

\* One rename of credentials.env, under the lock.
LEMMA WriteStep ==
    ASSUME RepositoryInv, NEW p \in Processes, Write(p)
    PROVE  RepositoryInv'
  <1> DEFINE w == proc[p]
             d == proc[p].dir
             new == NextDocument(proc[p])
             label == IF w.op = "save" THEN "verify" ELSE "close"
             v == [w EXCEPT !.at = label]
  <1>1. w.at = "write" /\ UNCHANGED <<name, entry, runtime>>
    BY DEF Write
  <1>2. ProcFits(p, w, holder, files, crossed) /\ FilesFit(files)
    BY DEF RepositoryInv
  <1>3. /\ DOMAIN w = DOMAIN Idle /\ ArgumentFits(w) /\ w.root \in Roots /\ d \in Inside
        /\ Writer(w) /\ w.lock \in Dirs /\ holder[w.lock] = p /\ IsDoc(w.read)
        /\ ~crossed /\ w.lock = d => w.read = files[d].creds
    BY <1>1, <1>2 DEF ProcFits, Current, RootOpened, DirOpened, UnderLock
  <1>4. d \in Dirs /\ d # Outside
    BY <1>3 DEF Inside
  <1>5. CASE w.op = "save" /\ Ambiguous(w.read, w.profile, w.arg)
    BY <1>1, <1>5, CallEnds DEF Write
  <1>6. CASE ~(w.op = "save" /\ Ambiguous(w.read, w.profile, w.arg))
    <2>1. /\ files' = [files EXCEPT ![d].creds = new]
          /\ told' = [s \in DOMAIN told \ Touched(w) |-> told[s]]
          /\ proc' = [proc EXCEPT ![p] = v] /\ holder' = holder
          /\ crossed' = (crossed \/ w.lock # d)
      BY <1>6 DEF Write, Now
    <2>2. ~crossed' => ~crossed /\ w.lock = d
      BY <2>1
    <2>3. /\ IsDoc(new)
          /\ \A s \in (Profiles \X Fields) \ Touched(w) :
                /\ s \in DOMAIN new <=> s \in DOMAIN w.read
                /\ s \in DOMAIN w.read => new[s] = w.read[s]
          /\ w.op = "clear" => \A s \in Touched(w) : s \notin DOMAIN new
      BY <1>3, NextDocumentFits
    <2>4. /\ DOMAIN v = DOMAIN Idle /\ v.at = label /\ v.root = w.root
          /\ v.dir = w.dir /\ v.lock = w.lock /\ v.op = w.op /\ v.profile = w.profile /\ v.arg = w.arg
      BY <1>3, ProcFields
    <2>5. /\ \A q \in Processes : q # p => proc'[q] = proc[q]
          /\ proc'[p] = v /\ proc' = [q \in Processes |-> proc'[q]]
      BY <2>1 DEF RepositoryInv
    <2> HIDE DEF v, new
    <2>6. /\ DOMAIN files' = Dirs
          /\ \A e \in Dirs : e # d => files'[e] = files[e]
          /\ DOMAIN files'[d] = DOMAIN NewDirectory
          /\ files'[d].creds = new
      BY <1>2, <1>4, <2>1, ProcFields DEF FilesFit
    <2>7. FilesFit(files')
      BY <1>2, <1>4, <2>3, <2>6, RepositoryAssumption DEF FilesFit
    <2>8. ProcFits(p, v, holder, files', crossed')
      <3>1. Touched(v) = Touched(w) /\ ArgumentFits(v) /\ Writer(v)
        BY <1>3, <2>4 DEF Touched, ArgumentFits, Writer
      <3>2. v.at = "verify" => v.op = "save"
        BY <2>4
      <3>3. v.at = "close" => v.op = "clear"
        BY <1>3, <2>4 DEF Writer
      <3>4. v.at \in {"verify", "close"}
        BY <2>4
      <3>5. ~crossed' => Current(v, files')
        BY <1>3, <2>2, <2>3, <2>4, <2>6, <3>1, <3>2, <3>3, <3>4 DEF Current
      <3> QED BY <1>3, <2>4, <3>1, <3>2, <3>4, <3>5 DEF ProcFits
    <2>9. \A q \in Processes : ProcFits(q, proc'[q], holder', files', crossed')
      <3> SUFFICES ASSUME NEW q \in Processes, q # p PROVE ProcFits(q, proc[q], holder, files', crossed')
        BY <2>1, <2>5, <2>8
      <3> DEFINE u == proc[q]
      <3>1. ProcFits(q, u, holder, files, crossed)
        BY DEF RepositoryInv
      <3>2. ASSUME ~crossed'
            PROVE  Current(u, files')
        <4>1. Current(u, files)
          BY <2>2, <3>1, <3>2 DEF ProcFits
        <4>2. /\ u.at \in {"write", "close"} => u.dir \in Dirs
              /\ u.at = "write" => Writer(u)
              /\ u.at \in {"write", "close"} /\ Writer(u) => holder[u.lock] = q
          BY <3>1 DEF ProcFits, DirOpened, UnderLock, Inside
        <4>3. u.at \in {"write", "close"} /\ Writer(u) /\ u.lock = u.dir =>
                 files'[u.dir].creds = files[u.dir].creds
          BY <1>3, <2>2, <2>6, <3>2, <4>2
        <4> HIDE DEF u
        <4> QED BY <4>1, <4>2, <4>3 DEF Current, Writer
      <3> HIDE DEF u
      <3>3. ProcFits(q, u, holder, files', crossed')
        BY <3>1, <3>2 DEF ProcFits
      <3> QED BY <3>3 DEF u
    <2>10. ToldFits'
      BY <2>1 DEF RepositoryInv, ToldFits
    <2>11. CredentialsKept'
      <3> SUFFICES ASSUME told' # <<>>
                   PROVE  /\ name \in Roots /\ entry[name] \in Dirs
                          /\ ~crossed' => \A s \in DOMAIN told' :
                                LET doc == files'[entry[name]].creds
                                IN  IF told'[s] = Empty THEN s \notin DOMAIN doc
                                    ELSE s \in DOMAIN doc /\ doc[s] = told'[s]
        BY <1>1 DEF CredentialsKept
      <3>1. told # <<>>
        BY <2>1
      <3>2. name \in Roots /\ entry[name] \in Dirs
        BY <3>1 DEF RepositoryInv, CredentialsKept
      <3>3. ASSUME ~crossed', NEW s \in DOMAIN told'
            PROVE  LET doc == files'[entry[name]].creds
                   IN  IF told'[s] = Empty THEN s \notin DOMAIN doc
                       ELSE s \in DOMAIN doc /\ doc[s] = told'[s]
        <4>1. /\ s \in DOMAIN told /\ s \notin Touched(w) /\ told'[s] = told[s]
              /\ s \in Profiles \X Fields
          BY <2>1 DEF RepositoryInv, ToldFits
        <4>2. IF told[s] = Empty THEN s \notin DOMAIN files[entry[name]].creds
              ELSE s \in DOMAIN files[entry[name]].creds /\ files[entry[name]].creds[s] = told[s]
          BY <2>2, <3>1, <3>3, <4>1 DEF RepositoryInv, CredentialsKept
        <4>3. CASE entry[name] = d
          BY <1>3, <2>2, <2>3, <2>6, <3>3, <4>1, <4>2, <4>3
        <4>4. CASE entry[name] # d
          BY <2>6, <3>2, <4>1, <4>2, <4>4
        <4> QED BY <4>3, <4>4
      <3> QED BY <3>2, <3>3
    <2>12. RuntimeTrustsItsConnectors' /\ runtime' = [q \in Processes |-> runtime'[q]]
      BY <1>1 DEF RepositoryInv, RuntimeTrustsItsConnectors
    <2>13. EntriesFit'
      BY <1>1 DEF RepositoryInv, EntriesFit
    <2> QED BY <2>1, <2>5, <2>7, <2>9, <2>10, <2>11, <2>12, <2>13 DEF RepositoryInv
  <1> QED BY <1>5, <1>6

\* The descriptors still name what was opened: the caller is told.
LEMMA CloseStep ==
    ASSUME RepositoryInv, NEW p \in Processes, Close(p)
    PROVE  RepositoryInv'
  <1> DEFINE w == proc[p]
             d == proc[p].dir
             doc == files[proc[p].dir].creds
  <1>1. w.at = "close" /\ Ends(p) /\ UNCHANGED <<name, entry, files, runtime, crossed>>
    BY DEF Close
  <1>2. CASE told' = told
    BY <1>1, <1>2, CallEnds
  <1>3. CASE told' # told
    <2>1. /\ DescriptorsHold(p) /\ Writer(w)
          /\ told' = [s \in DOMAIN told \cup Touched(w) |->
                        IF s \in Touched(w) THEN Answer(w)[s] ELSE told[s]]
      BY <1>3 DEF Close, Writer
    <2>2. ProcFits(p, w, holder, files, crossed) /\ FilesFit(files)
      BY DEF RepositoryInv
    <2>3. /\ ArgumentFits(w) /\ w.root \in Roots /\ d \in Inside
          /\ ~crossed /\ w.op = "save" => w.read = doc
          /\ ~crossed /\ w.op = "clear" => \A s \in Touched(w) : s \notin DOMAIN doc
      BY <1>1, <2>1, <2>2 DEF ProcFits, Current, RootOpened, DirOpened
    <2>4. name \in Roots /\ entry[name] = d /\ d \in Dirs
      BY <2>1, <2>3 DEF DescriptorsHold, Inside
    <2>5. IsDoc(doc)
      BY <2>2, <2>4 DEF FilesFit
    <2>6. Touched(w) \subseteq Profiles \X Fields
      BY <2>1, <2>3 DEF Touched, ArgumentFits, Writer
    <2>7. ASSUME ~crossed, NEW s \in Touched(w)
          PROVE  IF Answer(w)[s] = Empty THEN s \notin DOMAIN doc
                 ELSE s \in DOMAIN doc /\ doc[s] = Answer(w)[s]
      <3>1. CASE w.op = "clear"
        <4>1. Answer(w)[s] = Empty
          BY <3>1 DEF Answer
        <4> QED BY <2>3, <2>7, <3>1, <4>1
      <3>2. CASE w.op = "save"
        <4>1. s = <<w.profile, s[2]>> /\ s[2] \in Fields
          BY <2>3, <3>2 DEF Touched, ArgumentFits
        <4>2. s[2] \in PresentFields(w.read, w.profile) <=> s \in DOMAIN doc
          BY <2>3, <2>7, <3>2, <4>1 DEF PresentFields
        <4>3. Answer(w)[s] = IF s \in DOMAIN doc THEN doc[s] ELSE Empty
          BY <2>3, <2>7, <3>2, <4>2 DEF Answer
        <4>4. s \in DOMAIN doc => doc[s] # Empty
          BY <2>5, RepositoryAssumption DEF IsDoc
        <4> QED BY <4>3, <4>4
      <3> QED BY <2>1, <3>1, <3>2 DEF Writer
    <2>8. ToldFits'
      BY <2>1, <2>6 DEF RepositoryInv, ToldFits
    <2>9. CredentialsKept'
      <3> SUFFICES ASSUME ~crossed, NEW s \in DOMAIN told'
                   PROVE  IF told'[s] = Empty THEN s \notin DOMAIN doc
                          ELSE s \in DOMAIN doc /\ doc[s] = told'[s]
        BY <1>1, <2>4 DEF CredentialsKept
      <3>1. CASE s \in Touched(w)
        <4>1. told'[s] = Answer(w)[s]
          BY <2>1, <3>1
        <4> QED BY <2>7, <3>1, <4>1
      <3>2. CASE s \notin Touched(w)
        <4>1. s \in DOMAIN told /\ told'[s] = told[s]
          BY <2>1, <3>2
        <4>2. told # <<>>
          BY <4>1
        <4> QED BY <2>4, <4>1, <4>2 DEF RepositoryInv, CredentialsKept
      <3> QED BY <3>1, <3>2
    <2>10. /\ proc' = [q \in Processes |-> proc'[q]]
           /\ \A q \in Processes : ProcFits(q, proc'[q], holder', files', crossed)
      <3>1. /\ proc' = [proc EXCEPT ![p] = Idle]
            /\ LocksKept(p)
        BY <1>1, LocksStay DEF Ends
      <3>2. /\ proc' = [q \in Processes |-> proc'[q]] /\ proc'[p] = Idle
            /\ \A q \in Processes : q # p => proc'[q] = proc[q]
        BY <3>1 DEF RepositoryInv
      <3>3. ASSUME NEW q \in Processes, q # p PROVE ProcFits(q, proc[q], holder', files', crossed)
        <4>1. ProcFits(q, proc[q], holder, files, crossed)
          BY DEF RepositoryInv
        <4>2. proc[q].at \in UnderLock /\ Writer(proc[q]) =>
                 proc[q].lock \in Dirs /\ holder'[proc[q].lock] = q
          BY <3>1, <3>3, <4>1 DEF ProcFits, LocksKept
        <4> QED BY <1>1, <4>1, <4>2 DEF ProcFits
      <3>4. ProcFits(p, Idle, holder', files', crossed)
        BY IdleProcFits
      <3> QED BY <3>2, <3>3, <3>4
    <2>11. RuntimeTrustsItsConnectors' /\ runtime' = [q \in Processes |-> runtime'[q]]
      BY <1>1 DEF RepositoryInv, RuntimeTrustsItsConnectors
    <2>12. EntriesFit' /\ FilesFit(files')
      BY <1>1, <2>2 DEF RepositoryInv, EntriesFit
    <2>13. holder' = [e \in Dirs |-> holder'[e]]
      BY <1>1, LocksStay DEF LocksKept
    <2> QED BY <1>1, <2>8, <2>9, <2>10, <2>11, <2>12, <2>13 DEF RepositoryInv
  <1> QED BY <1>2, <1>3

\* The repository's invariant holds whatever the processes and others do.
THEOREM RepositoryInvHolds == RepositorySpec => []RepositoryInv
  <1>1. RepositoryInit => RepositoryInv
    <2> SUFFICES ASSUME RepositoryInit PROVE RepositoryInv
      OBVIOUS
    <2>1. /\ proc = [p \in Processes |-> Idle] /\ runtime = [p \in Processes |-> {}]
          /\ told = <<>> /\ holder = [d \in Dirs |-> holder[d]]
      BY DEF RepositoryInit, NoFile
    <2>2. \A p \in Processes : ProcFits(p, proc[p], holder, files, crossed)
      BY <2>1, IdleProcFits
    <2>3. ToldFits /\ CredentialsKept /\ RuntimeTrustsItsConnectors
      BY <2>1 DEF ToldFits, CredentialsKept, RuntimeTrustsItsConnectors
    <2> DEFINE first == CHOOSE d \in Dirs : d # Outside
    <2>4. first \in Dirs /\ first # Outside
      BY RepositoryAssumption
    <2> HIDE DEF first
    <2>5. EntriesFit
      <3>1. CASE entry = [r \in Roots |-> "absent"]
        BY <3>1 DEF EntriesFit
      <3>2. CASE entry = [r \in Roots |-> IF r = name THEN first ELSE "absent"]
        BY <2>4, <3>2 DEF EntriesFit, Inside
      <3> QED BY <3>1, <3>2 DEF RepositoryInit, first
    <2>6. /\ DOMAIN Bootstrapped = DOMAIN NewDirectory
          /\ NewDirectory.creds = <<>> /\ Bootstrapped.creds = <<>> /\ NewDirectory.subs = <<>>
      BY DEF Bootstrapped, NewDirectory, EmptyDocument
    <2>7. IsDoc(<<>>)
      BY DEF IsDoc
    <2>8. FilesFit(files)
      <3>1. CASE files = [d \in Dirs |-> NewDirectory]
        BY <2>6, <2>7, <3>1, RepositoryAssumption DEF FilesFit, EmptyDocument
      <3>2. CASE files = [e \in Dirs |-> IF e = first THEN Bootstrapped ELSE NewDirectory]
        <4>1. \A e \in Dirs : files[e] = IF e = first THEN Bootstrapped ELSE NewDirectory
          BY <3>2
        <4>2. DOMAIN files = Dirs
          BY <3>2
        <4> QED BY <2>4, <2>6, <2>7, <4>1, <4>2, RepositoryAssumption DEF FilesFit, EmptyDocument
      <3>3. CASE files = [e \in Dirs |-> IF e = Outside THEN NewDirectory ELSE Bootstrapped]
        <4>1. \A e \in Dirs : files[e] = IF e = Outside THEN NewDirectory ELSE Bootstrapped
          BY <3>3
        <4>2. DOMAIN files = Dirs
          BY <3>3
        <4> QED BY <2>6, <2>7, <4>1, <4>2, RepositoryAssumption DEF FilesFit, EmptyDocument
      <3> QED BY <3>1, <3>2, <3>3 DEF RepositoryInit, first
    <2> QED BY <2>1, <2>2, <2>3, <2>5, <2>8 DEF RepositoryInv
  <1>2. RepositoryInv /\ [RepositoryNext]_repositoryVars => RepositoryInv'
    <2> SUFFICES ASSUME RepositoryInv, [RepositoryNext]_repositoryVars PROVE RepositoryInv'
      OBVIOUS
    <2>1. ASSUME NEW p \in Processes, RepositoryStep(p) PROVE RepositoryInv'
      BY <2>1, LookingSteps, BeginningSteps, FindingSteps, LockingStep, ReadingSteps, StartingStep,
         StoppingSteps, MakingStep, FillingSteps, ConfigWriteStep, WriteStep, CloseStep
         DEF RepositoryStep
    <2>2. CASE SwapMercury \/ SwapRoot \/ EditConfig
      BY <2>2, MeddlingSteps
    <2>3. CASE UNCHANGED repositoryVars
      BY <2>3 DEF repositoryVars, RepositoryInv, EntriesFit, ToldFits, RuntimeTrustsItsConnectors,
                  CredentialsKept
    <2> QED BY <2>1, <2>2, <2>3 DEF RepositoryNext
  <1> QED BY <1>1, <1>2, PTL DEF RepositorySpec

\* Secrets stay inside .mercury whatever links are put in place, a runtime trusts
\* only the hosts of connectors it may reach, and what a caller was told is
\* stored or gone stays so, unless a writer opened its lock in one .mercury and
\* its file in another.
THEOREM SecretsStayGuarded == RepositorySpec => []SecretsGuarded
  <1>1. RepositoryInv => SecretsGuarded
    BY DEF RepositoryInv, FilesFit, SecretsGuarded, SecretsStayInside
  <1> QED BY <1>1, RepositoryInvHolds, PTL
=============================================================================
