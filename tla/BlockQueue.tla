----------------------------- MODULE BlockQueue -----------------------------
(***************************************************************************)
(* The block devices of src/fs/src/block/block_device.cpp behind their     *)
(* submit_bio. MemoryBlockDevice: the I/O thread (io_thread_func,          *)
(* process_bio), the synchronous read, write, flush and trim it runs, and  *)
(* the destructor that stops the thread. FileBlockDevice: submit_bio runs  *)
(* the same switch inline on the caller's thread against a host file whose *)
(* lseek, read, write and fsync may fail (the fault model: any host call   *)
(* may return -1), and the destructor only closes the file.                *)
(*                                                                         *)
(* A BIO covers one sector; data_ is a function from sector-sized slots to *)
(* a tag (0: the zero bytes of a fresh device, n: the bytes of BIO n).     *)
(* offset_t is a u64: sector * sector_size_ is taken modulo 2^Width, with  *)
(* Width, SectorSize and NumSectors scaled down together so that a        *)
(* product can wrap.                                                        *)
(***************************************************************************)
EXTENDS Integers, Sequences, SequencesExt

CONSTANTS
    MaxBios,      \* bound: BIOs submitted over a behaviour
    Sectors,      \* sector numbers a submitter may ask for
    NumSectors,   \* data_.size() / sector_size_
    SectorSize,   \* sector_size_ (a power of two)
    Width,        \* bits of offset_t
    OwnerWaits,   \* the owner destroys the device only after every callback
    Kinds,        \* device classes the owner may construct: "memory", "file"
    NoBio         \* model value: no BIO in hand

Types   == {"READ", "WRITE", "FLUSH", "DISCARD"}
Codes   == {"SUCCESS", "EINVAL", "EROFS", "EIO"}
Vals    == 0 .. MaxBios
Slots   == 0 .. NumSectors - 1
BioChoices == [type : Types, sector : Sectors]
BioRecs    == [type : Types, sector : Sectors, id : 1 .. MaxBios]

VARIABLES
    queue,      \* bio_queue_
    stop,       \* stop_io_thread_
    worker,     \* io_thread_: "top" of its loop, "proc", "loop", "exit"
    cur,        \* the BIO the I/O thread has dequeued, or the BIO a caller
                \* is inside FileBlockDevice::submit_bio with
    caller,     \* the submitter: "idle" or "inline" in FileBlockDevice::submit_bio
    kind,       \* which class the device is
    data,       \* data_
    readonly,   \* readonly_
    issued,     \* BIOs submitted so far
    completed,  \* the callbacks, in the order they ran
    owner       \* the destructor: "live", "stopping", "joined"

vars == <<queue, stop, worker, cur, caller, kind, data, readonly, issued, completed,
          owner>>

\* offset_t offset = sector * sector_size_; (u64 arithmetic)
Offset(s) == (s * SectorSize) % (2 ^ Width)

\* if (offset >= data_.size()) return ErrorCode::FS_EINVAL;
InRange(s) == Offset(s) < NumSectors * SectorSize

Slot(s) == Offset(s) \div SectorSize

\* Mutant of DeviceOp: trim fills the sectors with 0xFF instead of zeros.
DeviceOpTrimOnes(d, ro, b) ==
    LET fail(code) == [data |-> d, res |-> code, got |-> 0]
        ok(nd, g)  == [data |-> nd, res |-> "SUCCESS", got |-> g]
    IN CASE b.type = "READ"    -> IF InRange(b.sector) THEN ok(d, d[Slot(b.sector)])
                                  ELSE fail("EINVAL")
         [] b.type = "FLUSH"   -> ok(d, 0)
         [] ro                 -> fail("EROFS")
         [] ~InRange(b.sector) -> fail("EINVAL")
         [] b.type = "WRITE"   -> ok([d EXCEPT ![Slot(b.sector)] = b.id], 0)
         [] OTHER              -> ok([d EXCEPT ![Slot(b.sector)] = 255], 0)

\* Mutant of DeviceOp: write checks the range and stores before readonly_.
DeviceOpWriteFirst(d, ro, b) ==
    LET fail(code) == [data |-> d, res |-> code, got |-> 0]
        ok(nd, g)  == [data |-> nd, res |-> "SUCCESS", got |-> g]
    IN CASE b.type = "READ"    -> IF InRange(b.sector) THEN ok(d, d[Slot(b.sector)])
                                  ELSE fail("EINVAL")
         [] b.type = "FLUSH"   -> ok(d, 0)
         [] ~InRange(b.sector) -> fail("EINVAL")
         [] b.type = "WRITE"   -> ok([d EXCEPT ![Slot(b.sector)] = b.id], 0)
         [] ro                 -> fail("EROFS")
         [] OTHER              -> ok([d EXCEPT ![Slot(b.sector)] = 0], 0)

(* MemoryBlockDevice::read, write, flush and trim of one sector, as        *)
(* process_bio dispatches them: the new data_, the code the callback gets  *)
(* and the bytes a read left in the buffer (0 when nothing was read).      *)
DeviceOp(d, ro, b) ==
    LET fail(code) == [data |-> d, res |-> code, got |-> 0]
        ok(nd, g)  == [data |-> nd, res |-> "SUCCESS", got |-> g]
    IN CASE b.type = "READ"    -> IF InRange(b.sector) THEN ok(d, d[Slot(b.sector)])
                                  ELSE fail("EINVAL")
         [] b.type = "FLUSH"   -> ok(d, 0)
         [] ro                 -> fail("EROFS")
         [] ~InRange(b.sector) -> fail("EINVAL")
         [] b.type = "WRITE"   -> ok([d EXCEPT ![Slot(b.sector)] = b.id], 0)
         [] OTHER              -> ok([d EXCEPT ![Slot(b.sector)] = 0], 0)

(* FileBlockDevice::read, write, flush and trim of one sector, as its      *)
(* submit_bio dispatches them: the set of outcomes, since the host lseek,  *)
(* read, write and fsync may fail with -1 (FS_EIO). The size check is the  *)
(* memory device's; readonly_ is checked before the lock; trim does        *)
(* nothing and succeeds.                                                   *)
FileDeviceOp(d, ro, b) ==
    LET fail(code) == [data |-> d, res |-> code, got |-> 0]
        ok(nd, g)  == [data |-> nd, res |-> "SUCCESS", got |-> g]
    IN CASE b.type = "DISCARD" -> {ok(d, 0)}
         [] b.type = "FLUSH"   -> {ok(d, 0), fail("EIO")}
         [] b.type = "WRITE" /\ ro -> {fail("EROFS")}
         [] ~InRange(b.sector) -> {fail("EINVAL")}
         [] b.type = "READ"    -> {ok(d, d[Slot(b.sector)]), fail("EIO")}
         [] OTHER              -> {ok([d EXCEPT ![Slot(b.sector)] = b.id], 0),
                                   fail("EIO")}

(* What a BIO may complete with on a device of configuration c: the one    *)
(* outcome of the memory device, or any outcome of the file device.        *)
DeviceApply(d, c, b) ==
    IF c.kind = "memory" THEN {DeviceOp(d, c.ro, b)} ELSE FileDeviceOp(d, c.ro, b)

Init ==
    /\ queue = <<>> /\ stop = FALSE /\ worker = "top" /\ cur = NoBio
    /\ caller = "idle" /\ kind \in Kinds
    /\ data = [s \in Slots |-> 0]
    /\ readonly \in BOOLEAN
    /\ issued = 0 /\ completed = <<>> /\ owner = "live"

\* submit_bio: push under mutex_, notify_one.  Callers submit only while
\* the device is alive.
SubmitBio ==
    /\ kind = "memory" /\ owner = "live"
    /\ issued < MaxBios
    /\ \E b \in BioChoices : queue' = Append(queue, b @@ [id |-> issued + 1])
    /\ issued' = issued + 1
    /\ UNCHANGED <<stop, worker, cur, data, readonly, caller, kind, completed, owner>>

(* io_thread_func, top of the loop: wait until the queue is non-empty or   *)
(* stop is set; break if stop is set, else pop the first BIO and unlock.   *)
Dispatch ==
    /\ worker = "top"
    /\ queue # <<>> \/ stop
    /\ IF stop
       THEN worker' = "exit" /\ UNCHANGED <<queue, cur>>
       ELSE /\ cur' = Head(queue) /\ queue' = Tail(queue)
            /\ worker' = "proc"
    /\ UNCHANGED <<stop, data, readonly, caller, kind, issued, completed, owner>>

\* process_bio: the synchronous operation, then bio->callback(result).
ProcessBio ==
    /\ worker = "proc"
    /\ LET r == DeviceOp(data, readonly, cur) IN
         /\ data' = r.data
         /\ completed' = Append(completed, [id |-> cur.id, res |-> r.res, got |-> r.got])
    /\ cur' = NoBio
    /\ worker' = "loop"
    /\ UNCHANGED <<queue, stop, readonly, caller, kind, issued, owner>>

\* Mutant of InnerLoop: the newest BIO is popped (pop_back).
InnerLoopNewest ==
    /\ worker = "loop"
    /\ IF queue # <<>>
       THEN cur' = Last(queue) /\ queue' = Front(queue) /\ worker' = "proc"
       ELSE worker' = "top" /\ UNCHANGED <<queue, cur>>
    /\ UNCHANGED <<stop, data, readonly, caller, kind, issued, completed, owner>>

\* lock.lock(); while (!bio_queue_.empty()): the inner loop pops the next
\* BIO without looking at stop, or goes back to the wait.
InnerLoop ==
    /\ worker = "loop"
    /\ IF queue # <<>>
       THEN cur' = Head(queue) /\ queue' = Tail(queue) /\ worker' = "proc"
       ELSE worker' = "top" /\ UNCHANGED <<queue, cur>>
    /\ UNCHANGED <<stop, data, readonly, caller, kind, issued, completed, owner>>

\* ~MemoryBlockDevice: set stop_io_thread_ under mutex_, notify_all.
StopDevice ==
    /\ kind = "memory" /\ owner = "live"
    /\ OwnerWaits => Len(completed) = issued
    /\ stop' = TRUE
    /\ owner' = "stopping"
    /\ UNCHANGED <<queue, worker, cur, data, readonly, caller, kind, issued, completed>>

\* io_thread_.join()
JoinWorker ==
    /\ owner = "stopping"
    /\ worker = "exit"
    /\ owner' = "joined"
    /\ UNCHANGED <<queue, stop, worker, cur, data, readonly, caller, kind, issued, completed>>

\* FileBlockDevice::submit_bio: the caller enters with its BIO.
FileSubmitBio ==
    /\ kind = "file" /\ owner = "live" /\ caller = "idle"
    /\ issued < MaxBios
    /\ \E b \in BioChoices : cur' = b @@ [id |-> issued + 1]
    /\ issued' = issued + 1
    /\ caller' = "inline"
    /\ UNCHANGED <<queue, stop, worker, kind, data, readonly, completed, owner>>

(* The rest of FileBlockDevice::submit_bio on the caller's thread: the     *)
(* switch over the BIO type, catch (...) as FS_EIO, then bio->callback.    *)
FileProcessBio ==
    /\ caller = "inline"
    /\ \E r \in FileDeviceOp(data, readonly, cur) :
         /\ data' = r.data
         /\ completed' = Append(completed, [id |-> cur.id, res |-> r.res, got |-> r.got])
    /\ cur' = NoBio
    /\ caller' = "idle"
    /\ UNCHANGED <<queue, stop, worker, kind, readonly, issued, owner>>

\* ~FileBlockDevice: close(fd_); there is no thread to stop.
FileDestroy ==
    /\ kind = "file" /\ owner = "live" /\ caller = "idle"
    /\ owner' = "joined"
    /\ UNCHANGED <<queue, stop, worker, cur, caller, kind, data, readonly, issued,
                   completed>>

\* The device is destroyed: nothing more happens.
Destroyed == owner = "joined" /\ UNCHANGED vars

Next == SubmitBio \/ Dispatch \/ ProcessBio \/ InnerLoop \/ StopDevice
        \/ JoinWorker \/ FileSubmitBio \/ FileProcessBio \/ FileDestroy
        \/ Destroyed

(* The I/O thread is an OS thread that runs whenever it can; join() in    *)
(* the destructor returns once the thread has exited. A caller inside      *)
(* FileBlockDevice::submit_bio runs on to its callback.                    *)
Spec == Init /\ [][Next]_vars
        /\ WF_vars(Dispatch) /\ WF_vars(ProcessBio) /\ WF_vars(InnerLoop)
        /\ WF_vars(JoinWorker) /\ WF_vars(FileProcessBio)

-----------------------------------------------------------------------------
TypeOK ==
    /\ queue \in Seq(BioRecs) /\ stop \in BOOLEAN
    /\ worker \in {"top", "proc", "loop", "exit"}
    /\ cur \in BioRecs \cup {NoBio} /\ data \in [Slots -> Vals]
    /\ caller \in {"idle", "inline"} /\ kind \in Kinds
    /\ readonly \in BOOLEAN /\ issued \in 0 .. MaxBios
    /\ completed \in Seq([id : 1 .. MaxBios, res : Codes, got : Vals])
    /\ owner \in {"live", "stopping", "joined"}

(* The promise of spec.md 4.A: the queue, the BIO the I/O thread holds and *)
(* the callbacks it has run behave as BioFifo: callbacks in submission     *)
(* order, each with the synchronous result, every BIO eventually completed *)
(* and the destructor's join only after the queue has drained.             *)
Fifo == INSTANCE BioFifo WITH
    pending <- (IF worker = "proc" \/ caller = "inline" THEN <<cur>> ELSE <<>>)
               \o queue,
    done    <- completed,
    conf    <- [ro |-> readonly, kind |-> kind],
    phase   <- CASE owner = "live" -> "open"
                 [] owner = "stopping" -> "closing"
                 [] OTHER -> "closed",
    Apply   <- DeviceApply

FifoRefined == Fifo!Spec

(* spec.md 4.A, "ReadOnly write attempts fail before touching storage": on *)
(* a read-only device no step changes the stored data, on either class,    *)
(* through write or trim (the memory device refuses trim with EROFS, the   *)
(* file device's trim does nothing).                                       *)
ReadOnlyUntouched == [][readonly => data' = data]_vars

(* MemoryBlockDevice::read, write and trim under process_bio: a request   *)
(* whose sector lies past the end of the device fails, its offset never    *)
(* wrapping back into the device (spec.md 4.A: "out-of-range start fails   *)
(* with InvalidArgument", "does not wrap").                                *)
PastEndFails ==
    [][ProcessBio /\ cur.type # "FLUSH" /\ cur.sector >= NumSectors
         => Last(completed').res # "SUCCESS"]_vars

====
