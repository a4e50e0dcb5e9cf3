---------------------------- MODULE AuditLedger ----------------------------
(***************************************************************************)
(* AuditLedger (local/audit.py): an append-only JSONL file, the evidence,  *)
(* and an SQLite index of it that may be thrown away and rebuilt.  Every   *)
(* call holds an exclusive lock of the file, so calls do not interleave;   *)
(* what is hard is where a call stops.  A process may die between or in    *)
(* the middle of the two writes of record, a write may be short, and the   *)
(* index is written without a journal (journal_mode=OFF), so a transaction *)
(* that is interrupted or rolled back leaves a mixture of old and new.     *)
(*                                                                         *)
(* A row is modelled by its event id, an offset by a row number.           *)
(***************************************************************************)
EXTENDS Naturals, Sequences, FiniteSets, SequencesExt

CONSTANTS
    Procs,          \* processes that use the repository
    EventIds,       \* "evt_" + secrets.token_hex(12)
    Torn,           \* the bytes a short or interrupted write leaves: no newline
    Absent,         \* the index file does not exist
    Unreadable,     \* SQLite cannot open the index file or its schema is not ours
    MaxRows         \* bound on the length of the file

\* The index: byte_offset by event id, and the ledger_metadata row, which holds
\* the fingerprint of the file and the number of events, or is missing.
None == MaxRows + 1
Places == 1 .. MaxRows
Metadata == [size : 0 .. None, count : 0 .. None]
NoMetadata == [size |-> None, count |-> None]
Indexes == [events : UNION {[S -> Places] : S \in SUBSET EventIds}, meta : Metadata]

ASSUME LedgerAssumption ==
    /\ Torn \notin EventIds
    /\ Absent # Unreadable
    /\ Absent \notin Indexes /\ Unreadable \notin Indexes
    /\ MaxRows \in Nat

VARIABLES
    rows,           \* the JSONL file
    index,          \* the index file
    pc,             \* where each process is in record; it holds the lock unless idle
    drawn,          \* the event id of each process's call
    returned        \* the ids that record has returned to its callers

vars == <<rows, index, pc, drawn, returned>>

Written == ToSet(rows) \ {Torn}

NewIndex == [events |-> [e \in {} |-> 1], meta |-> NoMetadata]

IndexOf(file) ==
    [events |-> [e \in ToSet(file) |-> CHOOSE i \in DOMAIN file : file[i] = e],
     meta |-> [size |-> Len(file), count |-> Len(file)]]

-----------------------------------------------------------------------------
\* What a transaction from one index to another may leave when it is not
\* committed: pages of either, or nothing that SQLite can read.
Mixtures(old, new) ==
    {Unreadable} \cup
    {[events |-> [e \in S |-> IF e \in DOMAIN new.events THEN new.events[e] ELSE old.events[e]],
      meta |-> mt] :
        S \in SUBSET (DOMAIN old.events \cup DOMAIN new.events),
        mt \in {old.meta, NoMetadata, new.meta}}

\* _ensure_index: the metadata match the file, and the table covers it.
Trustworthy(x) ==
    /\ x \in Indexes
    /\ x.meta = [size |-> Len(rows), count |-> Cardinality(DOMAIN x.events)]
    /\ Cardinality(DOMAIN x.events) = Len(rows)
    /\ rows # <<>> =>
          /\ \E e \in DOMAIN x.events : x.events[e] = Len(rows)
          /\ \E e \in DOMAIN x.events : x.events[e] = 1

\* What _rebuild_index accepts: only whole rows, and no id twice.
Intact == Torn \notin ToSet(rows) /\ IsInjective(rows)

\* _open_index: what is not readable is discarded and created anew.
Opened == IF index \in Indexes THEN index ELSE NewIndex

\* _open_ready_index on an intact file.
ReadyIndex == IF Trustworthy(Opened) THEN Opened ELSE IndexOf(rows)

\* _rebuild_index of a damaged file: it raises, and the roll-back of the rows
\* it had deleted and inserted has no journal to work from.
FailedRebuild ==
    UNION {Mixtures(Opened, IndexOf(SubSeq(rows, 1, n))) :
             n \in {k \in 0 .. Len(rows) : Torn \notin ToSet(SubSeq(rows, 1, k))}}

LockFree == \A p \in Procs : pc[p] = "idle"

-----------------------------------------------------------------------------
(***************************************************************************)
(* record                                                                  *)
(***************************************************************************)
\* The lock is taken, the index made ready and an id drawn that the index does
\* not hold.
RecordBegin(p, e) ==
    /\ LockFree
    /\ Len(rows) < MaxRows
    /\ Trustworthy(Opened) \/ Intact
    /\ index' = ReadyIndex
    /\ e \notin DOMAIN index'.events
    /\ pc' = [pc EXCEPT ![p] = "append"]
    /\ drawn' = [drawn EXCEPT ![p] = e]
    /\ UNCHANGED <<rows, returned>>

\* Any call on a damaged file fails in _open_ready_index, before it writes.
CallRefused ==
    /\ LockFree
    /\ ~Trustworthy(Opened) /\ ~Intact
    /\ index' \in FailedRebuild
    /\ UNCHANGED <<rows, pc, drawn, returned>>

Leave(p) ==
    /\ pc' = [pc EXCEPT ![p] = "idle"]
    /\ drawn' = [drawn EXCEPT ![p] = Torn]

\* One os.write and fsync.
RecordAppend(p) ==
    /\ pc[p] = "append"
    /\ rows' = Append(rows, drawn[p])
    /\ pc' = [pc EXCEPT ![p] = "index"]
    /\ UNCHANGED <<index, drawn, returned>>

\* A short write, an error of write or fsync, or the death of the process: the
\* call ends, the lock is released, and none, some or all of the bytes stay.
StopInAppend(p) ==
    /\ pc[p] = "append"
    /\ rows' \in {rows, Append(rows, Torn), Append(rows, drawn[p])}
    /\ Leave(p)
    /\ UNCHANGED <<index, returned>>

WithRow(p) ==
    [events |-> [e \in DOMAIN index.events \cup {drawn[p]} |->
                    IF e = drawn[p] THEN Len(rows) ELSE index.events[e]],
     meta |-> [size |-> Len(rows), count |-> Cardinality(DOMAIN index.events \cup {drawn[p]})]]

\* _index_insert
RecordIndex(p) ==
    /\ pc[p] = "index"
    /\ index' = WithRow(p)
    /\ returned' = returned \cup {drawn[p]}
    /\ Leave(p)
    /\ UNCHANGED rows

\* SQLite fails and the caller is told audit_index_unavailable, or the process
\* dies: the row stays in the file and record does not return.
StopInIndex(p) ==
    /\ pc[p] = "index"
    /\ index' \in Mixtures(index, WithRow(p))
    /\ Leave(p)
    /\ UNCHANGED <<rows, returned>>

(***************************************************************************)
(* get                                                                     *)
(***************************************************************************)
\* _read_indexed_event: the bytes at the indexed place are hashed and compared.
Verifies(x, e) == e \in DOMAIN x.events /\ x.events[e] <= Len(rows) /\ rows[x.events[e]] = e

\* Deviation: an event the index does not hold is reported missing.
LookupTrustingIndex(e) ==
    IF Trustworthy(Opened) \/ Intact
    THEN IF e \in DOMAIN Opened.events THEN "row" ELSE "none"
    ELSE "error"

\* An entry that is missing or does not verify makes get rebuild the index once
\* and look again.
Lookup(e) ==
    IF Trustworthy(Opened) \/ Intact
    THEN IF Verifies(ReadyIndex, e) THEN "row"
         ELSE IF ~Intact THEN "error"
         ELSE IF Verifies(IndexOf(rows), e) THEN "row" ELSE "none"
    ELSE "error"

GetEvent(e) ==
    /\ LockFree
    /\ Lookup(e) # "error"
    /\ index' = IF Verifies(ReadyIndex, e) THEN ReadyIndex ELSE IndexOf(rows)
    /\ UNCHANGED <<rows, pc, drawn, returned>>

\* The process dies, or SQLite fails, while the index is rebuilt or created.
StopInRebuild ==
    /\ LockFree
    /\ Intact /\ ~Trustworthy(Opened)
    /\ index' \in Mixtures(Opened, IndexOf(rows)) \cup {Absent}
    /\ UNCHANGED <<rows, pc, drawn, returned>>

-----------------------------------------------------------------------------
Init ==
    /\ rows = <<>>
    /\ index = Absent
    /\ pc = [p \in Procs |-> "idle"]
    /\ drawn = [p \in Procs |-> Torn]
    /\ returned = {}

Next ==
    \/ \E p \in Procs, e \in EventIds : RecordBegin(p, e)
    \/ \E p \in Procs : \/ RecordAppend(p) \/ StopInAppend(p)
                        \/ RecordIndex(p)  \/ StopInIndex(p)
    \/ \E e \in EventIds : GetEvent(e)
    \/ CallRefused
    \/ StopInRebuild

Spec == Init /\ [][Next]_vars

-----------------------------------------------------------------------------
(***************************************************************************)
(* Properties.                                                             *)
(***************************************************************************)

\* The evidence is never damaged by a later call: nothing is written after a
\* fragment, and no id is written twice although ids are only looked up in the
\* index, which may be a mixture of two states.
EvidenceIntact ==
    \A i, j \in DOMAIN rows : i < j => rows[i] # Torn /\ rows[i] # rows[j]

\* get never lies: it returns an event only if the file holds it, and reports
\* it missing only if the file does not, whatever happened to the index.
LookupTruthful ==
    \A e \in EventIds :
        /\ Lookup(e) = "row" => e \in Written
        /\ Lookup(e) = "none" => e \notin Written

\* What record returned stays readable through any number of crashes, as long
\* as no fragment was left in the file.
RecordedIsReadable ==
    \A e \in returned : Torn \in ToSet(rows) \/ Lookup(e) = "row"

\* The ledger can be relied on: later calls do not damage it, lookups tell what
\* the file holds, and what was answered as recorded can be read.
LedgerTrustworthy == EvidenceIntact /\ LookupTruthful /\ RecordedIsReadable
=============================================================================
