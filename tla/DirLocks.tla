------------------------------ MODULE DirLocks ------------------------------
(***************************************************************************)
(* The directory operations of class Inode (src/fs/src/vfs/inode.cpp):    *)
(* readdir, lookup, create, unlink, mkdir and rmdir, each under the        *)
(* directory's mutex_, and rename, which takes the mutexes of both        *)
(* directories ordered by inode number.  The InodeOperations call each one *)
(* makes (ops_->create, ops_->rename, ...) is one step inside its          *)
(* critical section; its outcome is left open (success or an error), as   *)
(* the Inode layer must work with any implementation.  Every directory of  *)
(* the model has ops_ set, so the is_dir / ops_ early returns are not      *)
(* taken.                                                                   *)
(***************************************************************************)
EXTENDS Integers, Sequences, FiniteSets

CONSTANTS
    Threads,    \* caller threads
    Dirs,       \* directory Inode objects
    Ino,        \* Dirs -> inode number (ino_)
    Writable,   \* directories whose attr_.mode is_writable()
    MaxOps,     \* bound: operations started over a behaviour
    NoThread    \* model value: a mutex nobody holds

(* create, unlink, mkdir and rmdir have one shape (lock, is_writable,      *)
(* ops_ call), as have lookup and readdir (lock, ops_ call): one kind each. *)
Modifying == {"create"}
Reading   == {"lookup"}
Ops == [kind : Modifying \cup Reading, dir : Dirs]
       \cup [kind : {"rename"}, src : Dirs, dst : Dirs]

VARIABLES
    held,    \* Inode::mutex_ of each directory: its owner
    pc,      \* per-thread program counter
    op,      \* per-thread operation
    nops     \* operations started so far

vars == <<held, pc, op, nops>>

\* Mutant of LockOrder: the mutexes taken in argument order.
LockOrderUnsorted(a, b) == IF a = b THEN <<a>> ELSE <<a, b>>

\* Mutant of LockOrder: the ino_ > new_dir->ino_ branch takes only lock2.
LockOrderHalf(a, b) ==
    IF Ino[a] < Ino[b] THEN <<a, b>>
    ELSE IF Ino[a] > Ino[b] THEN <<b>>
    ELSE <<a>>

(* rename's lock order: both mutexes, lower ino_ first; one when the       *)
(* numbers are equal ("same directory").                                   *)
LockOrder(a, b) ==
    IF Ino[a] < Ino[b] THEN <<a, b>>
    ELSE IF Ino[a] > Ino[b] THEN <<b, a>>
    ELSE <<a>>

\* The mutexes an operation takes, in order.
Locks(o) == IF o.kind = "rename" THEN LockOrder(o.src, o.dst) ELSE <<o.dir>>

\* The directories an operation's InodeOperations call works on.
Touched(o) == IF o.kind = "rename" THEN {o.src, o.dst} ELSE {o.dir}

Init ==
    /\ held = [d \in Dirs |-> NoThread]
    /\ pc = [t \in Threads |-> "idle"]
    /\ op = [t \in Threads |-> [kind |-> "none"]]
    /\ nops = 0

Start(t) ==
    /\ pc[t] = "idle"
    /\ nops < MaxOps
    /\ \E o \in Ops : op' = [op EXCEPT ![t] = o]
    /\ pc' = [pc EXCEPT ![t] = "lock1"]
    /\ nops' = nops + 1
    /\ UNCHANGED held

\* std::unique_lock / lock_guard construction: block until the mutex is
\* free.  A std::mutex is not recursive.
Acquire(t, d, next) ==
    /\ held[d] = NoThread
    /\ held' = [held EXCEPT ![d] = t]
    /\ pc' = [pc EXCEPT ![t] = next]
    /\ UNCHANGED <<op, nops>>

LockFirst(t) ==
    /\ pc[t] = "lock1"
    /\ Acquire(t, Locks(op[t])[1], IF Len(Locks(op[t])) = 2 THEN "lock2" ELSE "check")

LockSecond(t) ==
    /\ pc[t] = "lock2"
    /\ Acquire(t, Locks(op[t])[2], "check")

\* The locks go when the function returns (lock_guard / unique_lock).
ReleaseAll(t) == held' = [d \in Dirs |-> IF held[d] = t THEN NoThread ELSE held[d]]

(* The is_writable() check of create/unlink/mkdir/rmdir (this directory)   *)
(* and of rename (both directories): FS_EACCES returns, unlocking.         *)
CheckAccess(t) ==
    /\ pc[t] = "check"
    /\ IF op[t].kind \in Reading \/ Touched(op[t]) \subseteq Writable
       THEN pc' = [pc EXCEPT ![t] = "ops"] /\ UNCHANGED held
       ELSE pc' = [pc EXCEPT ![t] = "idle"] /\ ReleaseAll(t)
    /\ UNCHANGED <<op, nops>>

(* The ops_ call, then the return.  On success a modifying operation sets  *)
(* attr_.mtime and ctime of the directories it touched, under their       *)
(* mutexes; no control decision reads the times, so they are not kept.    *)
CallOps(t) ==
    /\ pc[t] = "ops"
    /\ ReleaseAll(t)
    /\ pc' = [pc EXCEPT ![t] = "idle"]
    /\ UNCHANGED <<op, nops>>

Step(t) == Start(t) \/ LockFirst(t) \/ LockSecond(t) \/ CheckAccess(t) \/ CallOps(t)

\* Every operation of the bounded run has returned.
Terminated == nops = MaxOps /\ (\A t \in Threads : pc[t] = "idle") /\ UNCHANGED vars

Next == (\E t \in Threads : Step(t)) \/ Terminated

(* Threads run when they can; a thread blocked on a mutex is woken each   *)
(* time it is unlocked and eventually gets it (strong fairness).           *)
Spec == Init /\ [][Next]_vars
        /\ \A t \in Threads : /\ WF_vars(CheckAccess(t) \/ CallOps(t))
                              /\ SF_vars(LockFirst(t)) /\ SF_vars(LockSecond(t))

-----------------------------------------------------------------------------
(* Inode::rename and the single-directory operations: no two threads run  *)
(* InodeOperations calls on a common directory at the same time, because   *)
(* each call runs holding the mutex of every directory it works on.        *)
DirOpsExclusive ==
    \A t1, t2 \in Threads :
        t1 # t2 /\ pc[t1] = "ops" /\ pc[t2] = "ops"
            => Touched(op[t1]) \cap Touched(op[t2]) = {}

(* rename's ordered locking: however renames in opposite directions and    *)
(* single-directory operations interleave, every operation returns (no     *)
(* deadlock, no thread left waiting for a mutex for ever).                 *)
OpsReturn == \A t \in Threads : pc[t] # "idle" ~> pc[t] = "idle"

====
