------------------------ MODULE OperationLockProofs ------------------------
(***************************************************************************)
(* Mutual exclusion of the repository lock for any number of processes,    *)
(* threads and nested calls, with flock and with the guard directory.      *)
(***************************************************************************)
EXTENDS OperationLock, TLAPS

\* A thread past the thread lock owns it, and one that runs a locked method also
\* holds the file lock for its process and has accounted for its nested calls.
Custody ==
    \A t \in Threads :
        /\ pc[t] \in {"file", "in"} => owner[Home[t]] = t
        /\ pc[t] = "in" => /\ file = Home[t]
                           /\ depth[Home[t]] + todo[t] <= MaxNested + 1

LockInv == LockTypeOK /\ Custody /\ NoStaleLock

LEMMA InitLock == Init => LockInv
BY LockAssumption DEF Init, LockInv, LockTypeOK, Custody, NoStaleLock

\* The step is split by action; the three parts of the invariant are proved
\* together, each from its own reading of the action.
LEMMA NextLock == LockInv /\ [Next]_vars => LockInv'
<1> SUFFICES ASSUME LockInv, [Next]_vars PROVE LockInv'
  OBVIOUS
<1> USE LockAssumption
<1>0. LockTypeOK /\ Custody /\ NoStaleLock
  BY DEF LockInv
<1>1. ASSUME NEW t \in Threads, Call(t) PROVE LockInv'
  <2>1. LockTypeOK'
    BY <1>0, <1>1 DEF Call, Moves, LockTypeOK
  <2>2. Custody'
    BY <1>0, <1>1 DEF Call, Moves, LockTypeOK, Custody
  <2>3. NoStaleLock'
    BY <1>0, <1>1 DEF Call, Moves, LockTypeOK, NoStaleLock
  <2> QED BY <2>1, <2>2, <2>3 DEF LockInv
<1>2. ASSUME NEW t \in Threads, TakeThreadLock(t) PROVE LockInv'
  <2>1. LockTypeOK'
    BY <1>0, <1>2 DEF TakeThreadLock, Moves, LockTypeOK
  <2>2. Custody'
    BY <1>0, <1>2 DEF TakeThreadLock, Moves, LockTypeOK, Custody
  <2>3. NoStaleLock'
    BY <1>0, <1>2 DEF TakeThreadLock, Moves, LockTypeOK, NoStaleLock
  <2> QED BY <2>1, <2>2, <2>3 DEF LockInv
<1>3. ASSUME NEW t \in Threads, TakeFileLock(t) PROVE LockInv'
  <2>1. LockTypeOK'
    BY <1>0, <1>3 DEF TakeFileLock, Moves, LockTypeOK
  <2>2. Custody'
    BY <1>0, <1>3 DEF TakeFileLock, Moves, LockTypeOK, Custody
  <2>3. NoStaleLock'
    BY <1>0, <1>3 DEF TakeFileLock, Moves, LockTypeOK, NoStaleLock
  <2> QED BY <2>1, <2>2, <2>3 DEF LockInv
<1>4. ASSUME NEW t \in Threads, FileLockUnavailable(t) PROVE LockInv'
  <2>1. LockTypeOK'
    BY <1>0, <1>4 DEF FileLockUnavailable, Moves, LockTypeOK
  <2>2. Custody'
    BY <1>0, <1>4 DEF FileLockUnavailable, Moves, LockTypeOK, Custody
  <2>3. NoStaleLock'
    BY <1>0, <1>4 DEF FileLockUnavailable, Moves, LockTypeOK, NoStaleLock
  <2> QED BY <2>1, <2>2, <2>3 DEF LockInv
<1>5. ASSUME NEW t \in Threads, Nest(t) PROVE LockInv'
  <2>0. depth[Home[t]] + todo[t] <= MaxNested + 1 /\ owner[Home[t]] = t
    BY <1>0, <1>5 DEF Nest, Custody
  <2>1. LockTypeOK'
    BY <1>0, <1>5, <2>0 DEF Nest, LockTypeOK
  <2>2. Custody'
    BY <1>0, <1>5, <2>0 DEF Nest, LockTypeOK, Custody
  <2>3. NoStaleLock'
    BY <1>0, <1>5 DEF Nest, LockTypeOK, NoStaleLock
  <2> QED BY <2>1, <2>2, <2>3 DEF LockInv
<1>6. ASSUME NEW t \in Threads, LeaveNested(t) PROVE LockInv'
  <2>1. LockTypeOK'
    BY <1>0, <1>6 DEF LeaveNested, LockTypeOK
  <2>2. Custody'
    BY <1>0, <1>6 DEF LeaveNested, LockTypeOK, Custody
  <2>3. NoStaleLock'
    BY <1>0, <1>6 DEF LeaveNested, LockTypeOK, NoStaleLock
  <2> QED BY <2>1, <2>2, <2>3 DEF LockInv
<1>7. ASSUME NEW t \in Threads, Leave(t) PROVE LockInv'
  <2>0. file = Home[t] /\ owner[Home[t]] = t
    BY <1>0, <1>7 DEF Leave, Custody
  <2>1. LockTypeOK'
    BY <1>0, <1>7 DEF Leave, Moves, LockTypeOK
  <2>2. Custody'
    <3>1. \A u \in Threads : u # t => pc[u] # "in"
      BY <1>0, <2>0 DEF Custody
    <3> QED BY <1>0, <1>7, <2>0, <3>1 DEF Leave, Moves, LockTypeOK, Custody
  <2>3. NoStaleLock'
    BY <1>0, <1>7 DEF Leave, Moves, LockTypeOK, NoStaleLock
  <2> QED BY <2>1, <2>2, <2>3 DEF LockInv
<1>8. ASSUME NEW p \in Procs, Crash(p) PROVE LockInv'
  <2>1. LockTypeOK'
    BY <1>0, <1>8 DEF Crash, LockTypeOK
  <2>2. Custody'
    BY <1>0, <1>8 DEF Crash, LockTypeOK, Custody
  <2>3. NoStaleLock'
    BY <1>0, <1>8 DEF Crash, LockTypeOK, NoStaleLock
  <2> QED BY <2>1, <2>2, <2>3 DEF LockInv
<1>9. CASE UNCHANGED vars
  BY <1>0, <1>9 DEF vars, LockInv, LockTypeOK, Custody, NoStaleLock
<1> QED
  BY <1>1, <1>2, <1>3, <1>4, <1>5, <1>6, <1>7, <1>8, <1>9 DEF Next

LEMMA LockInvHolds == Spec => []LockInv
BY InitLock, NextLock, PTL DEF Spec

\* Every variable keeps its type; in particular the depth of a process stays
\* between zero and the nesting of its calls.
THEOREM LockTypes == Spec => []LockTypeOK
BY LockInvHolds, PTL DEF LockInv

\* At most one thread of all processes is inside a locked method.
THEOREM LockExclusive == Spec => []MutualExclusion
<1>1. LockInv => MutualExclusion
  BY DEF LockInv, Custody, MutualExclusion
<1> QED
  BY <1>1, LockInvHolds, PTL

\* With flock, no error path and no crash leaves the repository locked.
THEOREM LockNeverStale == Spec => []NoStaleLock
BY LockInvHolds, PTL DEF LockInv

\* At most one thread runs a locked method, and with flock the lock is held only
\* while one does, whatever fails and whoever dies.
THEOREM LockIsSound == Spec => []LockSound
BY LockExclusive, LockNeverStale, PTL DEF LockSound
=============================================================================
