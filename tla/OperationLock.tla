--------------------------- MODULE OperationLock ---------------------------
(***************************************************************************)
(* repository_operation_lock (local/operation_lock.py): the lock that makes *)
(* every method of the local stores one step.  It is a re-entrant thread   *)
(* lock per process around one file lock per repository, whose .mercury is  *)
(* supposed to stay (LocalRepository lets it go).  The file lock is flock,   *)
(* which the system releases when its owner dies, or, where neither       *)
(* fcntl nor msvcrt exists, a guard directory, which nothing removes then  *)
(* and for which a caller waits a bounded time only.                       *)
(***************************************************************************)
EXTENDS Naturals

CONSTANTS
    Procs,          \* processes using the repository
    Threads,
    Home,           \* the process of each thread
    MaxNested,      \* bound on the locked calls a locked method makes
    Nobody

ASSUME LockAssumption ==
    /\ Home \in [Threads -> Procs]
    /\ MaxNested \in Nat
    /\ Nobody \notin Threads \cup Procs

VARIABLES
    guard,          \* TRUE: the platform has no flock, a directory is the file lock
    owner,          \* state.thread_lock of each process: who holds it
    depth,          \* state.depth of each process
    file,           \* the process that holds the file lock
    pc,             \* where each thread is
    todo            \* nested locked calls the method of each thread still makes

vars == <<guard, owner, depth, file, pc, todo>>

Moves(t, label) == pc' = [pc EXCEPT ![t] = label]

\* A call is made from outside the lock.
Call(t) ==
    /\ pc[t] = "out"
    /\ \E n \in 0 .. MaxNested : todo' = [todo EXCEPT ![t] = n]
    /\ Moves(t, "thread")
    /\ UNCHANGED <<guard, owner, depth, file>>

\* with state.thread_lock
TakeThreadLock(t) ==
    /\ pc[t] = "thread"
    /\ owner[Home[t]] = Nobody
    /\ owner' = [owner EXCEPT ![Home[t]] = t]
    /\ Moves(t, "file")
    /\ UNCHANGED <<guard, depth, file, todo>>

\* _acquire_process_lock succeeds: depth was 0.
TakeFileLock(t) ==
    /\ pc[t] = "file"
    /\ file = Nobody
    /\ file' = Home[t]
    /\ depth' = [depth EXCEPT ![Home[t]] = 1]
    /\ Moves(t, "in")
    /\ UNCHANGED <<guard, owner, todo>>

\* Deviation: the wait for the guard has no deadline.
FileLockUnavailableNever(t) == pc[t] = "file" /\ FALSE /\ UNCHANGED vars

\* The lock file cannot be opened or locked, or the wait for the guard times
\* out: the descriptor is closed and the thread lock left.
FileLockUnavailable(t) ==
    /\ pc[t] = "file"
    /\ owner' = [owner EXCEPT ![Home[t]] = Nobody]
    /\ Moves(t, "out")
    /\ UNCHANGED <<guard, depth, file, todo>>

\* A locked method calls another one of the same thread.
Nest(t) ==
    /\ pc[t] = "in"
    /\ todo[t] > 0
    /\ todo' = [todo EXCEPT ![t] = @ - 1]
    /\ depth' = [depth EXCEPT ![Home[t]] = @ + 1]
    /\ UNCHANGED <<guard, owner, file, pc>>

\* Deviation: the file lock is given up by the innermost call.
LeaveDroppingFileLock(t) ==
    /\ pc[t] = "in"
    /\ depth' = [depth EXCEPT ![Home[t]] = @ - 1]
    /\ file' = Nobody
    /\ IF depth[Home[t]] = 1
       THEN Moves(t, "out") /\ owner' = [owner EXCEPT ![Home[t]] = Nobody]
       ELSE UNCHANGED <<owner, pc>>
    /\ UNCHANGED <<guard, todo>>

LeaveNested(t) ==
    /\ pc[t] = "in"
    /\ depth[Home[t]] > 1
    /\ depth' = [depth EXCEPT ![Home[t]] = @ - 1]
    /\ UNCHANGED <<guard, owner, file, pc, todo>>

\* The outermost call ends: _release_process_lock, then the descriptor is
\* closed whatever the former said.  Closing it gives flock up; a guard
\* directory that cannot be removed stays.
Leave(t) ==
    /\ pc[t] = "in"
    /\ depth[Home[t]] = 1
    /\ depth' = [depth EXCEPT ![Home[t]] = 0]
    /\ file' = Nobody \/ (guard /\ file' = file)
    /\ owner' = [owner EXCEPT ![Home[t]] = Nobody]
    /\ Moves(t, "out")
    /\ UNCHANGED <<guard, todo>>

\* A process dies and is started again.
Crash(p) ==
    /\ \E t \in Threads : Home[t] = p /\ pc[t] # "out"
    /\ owner' = [owner EXCEPT ![p] = Nobody]
    /\ depth' = [depth EXCEPT ![p] = 0]
    /\ file' = IF file = p /\ ~guard THEN Nobody ELSE file
    /\ pc' = [t \in Threads |-> IF Home[t] = p THEN "out" ELSE pc[t]]
    /\ UNCHANGED <<guard, todo>>

Init ==
    /\ guard \in BOOLEAN
    /\ owner = [p \in Procs |-> Nobody]
    /\ depth = [p \in Procs |-> 0]
    /\ file = Nobody
    /\ pc = [t \in Threads |-> "out"]
    /\ todo = [t \in Threads |-> 0]

Next ==
    \/ \E t \in Threads :
          \/ Call(t) \/ TakeThreadLock(t) \/ TakeFileLock(t)
          \/ FileLockUnavailable(t) \/ Nest(t) \/ LeaveNested(t) \/ Leave(t)
    \/ \E p \in Procs : Crash(p)

Spec == Init /\ [][Next]_vars

Proceed(t) == TakeThreadLock(t) \/ TakeFileLock(t) \/ LeaveNested(t) \/ Leave(t)

\* Locked methods end (each calls finitely many others), locks that are free
\* again and again are obtained, and a wait for the guard has a deadline.
\* Errors and crashes are not fair.
FairSpec ==
    /\ Spec
    /\ \A t \in Threads : SF_vars(Proceed(t))
    /\ \A t \in Threads : WF_vars(guard /\ FileLockUnavailable(t))

-----------------------------------------------------------------------------
\* Every variable has its type.
LockTypeOK ==
    /\ guard \in BOOLEAN
    /\ owner \in [Procs -> Threads \cup {Nobody}]
    /\ depth \in [Procs -> 0 .. MaxNested + 1]
    /\ todo \in [Threads -> 0 .. MaxNested]
    /\ file \in Procs \cup {Nobody}
    /\ pc \in [Threads -> {"out", "thread", "file", "in"}]

\* Two locked methods never run at once, in one process or in two, however deep
\* the calls nest and wherever processes die.
MutualExclusion ==
    \A t, u \in Threads : pc[t] = "in" /\ pc[u] = "in" => t = u

\* With flock the repository is locked only while some locked method runs: no
\* error path and no crash leaves it locked.
NoStaleLock ==
    ~guard => (file # Nobody => \E t \in Threads : Home[t] = file /\ pc[t] = "in")

\* The lock keeps everybody but one out, and with flock nobody out for nothing.
LockSound == MutualExclusion /\ NoStaleLock

\* Whoever calls a locked method gets an answer: the method runs, the lock is
\* reported unavailable, or the process dies.
CallersServed == \A t \in Threads : pc[t] \in {"thread", "file"} ~> pc[t] \in {"in", "out"}
=============================================================================
