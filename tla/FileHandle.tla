----------------------------- MODULE FileHandle -----------------------------
(***************************************************************************)
(* What an open File promises its callers (spec.md, 4.G, "File handle"):  *)
(* read, write and seek take the File's lock, so each call takes effect   *)
(* atomically, at one instant between its invocation and its return, on   *)
(* the File's position and the inode's size, and every call returns.      *)
(* What a call does to them is the parameter Effect, so the promise is    *)
(* stated independently of the position arithmetic; truncate, which takes *)
(* no File lock, is one atomic step of the inode.                          *)
(***************************************************************************)
EXTENDS Integers

CONSTANTS
    Threads,       \* callers
    FileIds,       \* open Files
    Calls,         \* the calls a caller may make: records with a file field
    NoCall,        \* the call record of a caller that has made none
    Effect(_, _, _, _) \* Effect(call, pos, size, mode): the possible [pos, size]

VARIABLES
    pos,    \* each File's position
    size,   \* the inode's size
    busy,   \* whether each caller is inside a call that has not taken effect
    call,   \* the call each caller made last
    mode    \* the inode's fixed configuration (its access mode)

vars == <<pos, size, busy, call, mode>>

Init ==
    /\ pos = [f \in FileIds |-> 0]
    /\ size = 0
    /\ busy = [t \in Threads |-> FALSE]
    /\ call = [t \in Threads |-> NoCall]

\* A caller invokes a call on one of the open Files.
Invoke(t) ==
    /\ ~busy[t]
    /\ \E c \in Calls : call' = [call EXCEPT ![t] = c]
    /\ busy' = [busy EXCEPT ![t] = TRUE]
    /\ UNCHANGED <<pos, size, mode>>

\* The call takes effect in one step and the caller may return.
TakeEffect(t) ==
    /\ busy[t]
    /\ LET f == call[t].file
       IN  \E r \in Effect(call[t], pos[f], size, mode) :
              /\ pos' = [pos EXCEPT ![f] = r.pos]
              /\ size' = r.size
    /\ busy' = [busy EXCEPT ![t] = FALSE]
    /\ UNCHANGED <<call, mode>>

Next == \E t \in Threads : Invoke(t) \/ TakeEffect(t)

Spec == Init /\ [][Next]_vars /\ \A t \in Threads : WF_vars(TakeEffect(t))
=============================================================================
