------------------------------ MODULE BioFifo ------------------------------
(***************************************************************************)
(* What the memory block device's request queue promises (spec.md, 4.A,   *)
(* "Request queue (memory variant)"): submitted BIOs complete one at a     *)
(* time, in submission order, each with the result of the equivalent       *)
(* synchronous operation, and shutdown drains the queue before it is       *)
(* over.  The device operation is a parameter, so the promise is stated    *)
(* independently of what read, write, flush and trim do; it gives the set  *)
(* of results an operation may have, one for a deterministic device and    *)
(* several for one whose storage may fail.                                 *)
(***************************************************************************)
EXTENDS Integers, Sequences, TLC

CONSTANTS
    MaxBios,      \* bound: BIOs submitted over a behaviour
    BioChoices,   \* the requests a submitter may make (records without id)
    Apply(_, _, _) \* Apply(data, conf, bio): the set of possible [data, res, got]

VARIABLES
    pending,   \* submitted, not yet completed, in submission order
    done,      \* completion callbacks, in the order they ran
    data,      \* the device contents
    conf,      \* the device's fixed configuration (read-only, class)
    issued,    \* BIOs submitted so far
    phase      \* "open", "closing" (shutdown requested) or "closed"

vars == <<pending, done, data, conf, issued, phase>>

Init ==
    /\ pending = <<>> /\ done = <<>> /\ issued = 0 /\ phase = "open"

Submit ==
    /\ phase = "open"
    /\ issued < MaxBios
    /\ \E b \in BioChoices :
         pending' = Append(pending, b @@ [id |-> issued + 1])
    /\ issued' = issued + 1
    /\ UNCHANGED <<done, data, conf, phase>>

\* The oldest request runs against the device and its callback is called.
Complete ==
    /\ pending # <<>>
    /\ LET b == Head(pending)
       IN  \E r \in Apply(data, conf, b) :
              /\ data' = r.data
              /\ done' = Append(done, [id |-> b.id, res |-> r.res, got |-> r.got])
    /\ pending' = Tail(pending)
    /\ UNCHANGED <<conf, issued, phase>>

Close ==
    /\ phase = "open"
    /\ phase' = "closing"
    /\ UNCHANGED <<pending, done, data, conf, issued>>

\* Shutdown is over only once every submitted request has completed.
Finish ==
    /\ phase = "closing"
    /\ pending = <<>>
    /\ phase' = "closed"
    /\ UNCHANGED <<pending, done, data, conf, issued>>

\* Shutting down a device with nothing pending is over at once.
CloseIdle ==
    /\ phase = "open"
    /\ pending = <<>>
    /\ phase' = "closed"
    /\ UNCHANGED <<pending, done, data, conf, issued>>

Next == Submit \/ Complete \/ Close \/ Finish \/ CloseIdle

Spec == Init /\ [][Next]_vars /\ WF_vars(Complete) /\ WF_vars(Finish)

====
