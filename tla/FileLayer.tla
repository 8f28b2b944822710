----------------------------- MODULE FileLayer ------------------------------
(***************************************************************************)
(* The descriptor layer: FileDescriptorTable (src/fs/src/syscall/          *)
(* fd_table.cpp), File (src/fs/src/vfs/file.cpp), the descriptor system    *)
(* calls of src/fs/src/syscall/syscall.cpp and the libc wrappers of        *)
(* src/fs/src/libc/libc.cpp that call them, over one regular-file Inode.   *)
(*                                                                         *)
(* Positions and sizes are counted in pages and every read or write moves *)
(* one page; offset_t is a u64, taken modulo 2^Width with the width scaled *)
(* down, and off_t is its signed view. Inode::read and Inode::write hold   *)
(* the inode mutex for the whole call, so each is one step; reading a     *)
(* page fails when it lies past the end of the device (DevSize).           *)
(*                                                                         *)
(* VFS::open is a stub that always fails, so sys_open never installs a     *)
(* descriptor; Files enter the table through the table's public alloc_fd, *)
(* which is what sys_open calls with the File VFS::open returns.           *)
(***************************************************************************)
EXTENDS Integers, Sequences, SequencesExt

CONSTANTS
    Threads,      \* threads of one process sharing its fd_table
    NumFds,       \* files_.size()
    MaxFiles,     \* bound: Files constructed over a behaviour
    MaxCalls,     \* bound: calls started over a behaviour, all threads
    Width,        \* bits of offset_t
    DevSize,      \* pages of the block device under the inode
    BadFd,        \* a descriptor outside 0 .. NumFds - 1
    SeekOffsets,  \* off_t offsets a caller passes to lseek
    Lengths,      \* off_t lengths a caller passes to ftruncate
    NoFile,       \* model value: an empty slot of files_
    NoOwner       \* model value: a File's mutex_ is free

Modulus  == 2 ^ Width
U64      == 0 .. Modulus - 1
Fds      == 0 .. NumFds - 1
FileIds  == 1 .. MaxFiles
Whences  == {0, 1, 2, 3}          \* SEEK_SET, SEEK_CUR, SEEK_END, invalid

\* The ErrorCode values of types.h that this layer's calls return.
FS_EACCES == -13
FS_EINVAL == -22

\* static_cast<u64>(x) of an off_t, and the off_t that a u64 returns as.
ToU64(x) == x % Modulus
ToOffT(u) == IF u >= Modulus \div 2 THEN u - Modulus ELSE u

VARIABLES
    files,      \* FileDescriptorTable::files_
    nfiles,     \* Files constructed so far (their ids are 1 .. nfiles)
    pos,        \* File::pos_ of each File
    fmutex,     \* owner of File::mutex_ of each File
    size,       \* attr_.size of the inode
    writable,   \* attr_.mode.is_writable() of the inode
    pc,         \* where each thread is: "idle", "lock", "inode", "update",
                \* "seek", "truncate"
    call,       \* the call a thread is in: op, file and arguments
    res,        \* Inode::read / write result a thread holds: pages or an
                \* ErrorCode
    at,         \* the pos_ a thread passed to Inode::read / write
    calls,      \* calls started so far
    consumed,   \* ghost: pages each File moved over since pos_ was last set
    lastSeek    \* ghost: each thread's last lseek: the off_t it returned
                \* and the position before and after

vars == <<files, nfiles, pos, fmutex, size, writable, pc, call, res, at, calls,
          consumed, lastSeek>>

NoCall == [op |-> "none", file |-> 0, off |-> 0, whence |-> 0]
NoSeek == [rv |-> 0, from |-> 0, to |-> 0]

TypeOK ==
    /\ files \in [Fds -> FileIds \cup {NoFile}]
    /\ nfiles \in 0 .. MaxFiles
    /\ pos \in [FileIds -> U64]
    /\ fmutex \in [FileIds -> Threads \cup {NoOwner}]
    /\ size \in U64 /\ writable \in BOOLEAN
    /\ pc \in [Threads -> {"idle", "lock", "inode", "update", "seek", "truncate"}]
    /\ \A t \in Threads : pc[t] # "idle" => call[t].file \in 1 .. nfiles
    /\ res \in [Threads -> {FS_EINVAL, FS_EACCES, 0, 1}]
    /\ at \in [Threads -> U64]
    /\ calls \in 0 .. MaxCalls
    /\ consumed \in [FileIds -> Seq(U64)]

Init ==
    /\ files = [i \in Fds |-> NoFile]
    /\ nfiles = 0
    /\ pos = [f \in FileIds |-> 0]
    /\ fmutex = [f \in FileIds |-> NoOwner]
    /\ size = 0
    /\ writable \in BOOLEAN
    /\ pc = [t \in Threads |-> "idle"]
    /\ call = [t \in Threads |-> NoCall]
    /\ res = [t \in Threads |-> 0]
    /\ at = [t \in Threads |-> 0]
    /\ calls = 0
    /\ consumed = [f \in FileIds |-> <<>>]
    /\ lastSeek = [t \in Threads |-> NoSeek]

\* is_valid_fd: a range check only, whether or not the slot holds a File.
IsValidFd(fd) == fd \in Fds

FreeSlots == {i \in Fds : files[i] = NoFile}

\* The loop of alloc_fd and dup_fd: the lowest empty slot.
LowestFree == Min(FreeSlots)

StartCall(t) == pc[t] = "idle" /\ calls < MaxCalls

TableOnly == UNCHANGED <<pos, fmutex, size, writable, pc, call, res, at,
                         consumed, lastSeek>>
-----------------------------------------------------------------------------
(* FileDescriptorTable::alloc_fd of a newly constructed File (pos_ 0): the *)
(* lowest empty slot, or FS_ENOMEM and the File is dropped.                *)
AllocFd(t) ==
    /\ StartCall(t) /\ nfiles < MaxFiles
    /\ calls' = calls + 1
    /\ IF FreeSlots # {}
          THEN /\ files' = [files EXCEPT ![LowestFree] = nfiles + 1]
               /\ nfiles' = nfiles + 1
          ELSE UNCHANGED <<files, nfiles>>
    /\ TableOnly

(* free_fd: EINVAL for an fd out of range; otherwise the slot is reset and *)
(* the call succeeds, whether or not it held a File.                       *)
FreeFd(fd) == IF IsValidFd(fd) THEN [files EXCEPT ![fd] = NoFile] ELSE files

(* dup_fd: EINVAL for an invalid or empty fd, else the lowest empty slot   *)
(* shares the File, or FS_ENOMEM.                                          *)
DupFd(fd) ==
    IF IsValidFd(fd) /\ files[fd] # NoFile /\ FreeSlots # {}
       THEN [files EXCEPT ![LowestFree] = files[fd]]
       ELSE files

(* dup2_fd: EINVAL for an invalid old or new fd or an empty old fd;        *)
(* otherwise newfd is reset and set to old's File.                         *)
Dup2Fd(old, new) ==
    IF IsValidFd(old) /\ IsValidFd(new) /\ files[old] # NoFile
       THEN [files EXCEPT ![new] = files[old]]
       ELSE files

\* get_file: nullptr for an fd out of range, else the slot's File or none.
GetFileOf(fd) == IF IsValidFd(fd) THEN files[fd] ELSE NoFile

\* sys_close, sys_dup, sys_dup2: one call of the table under its mutex_.
SysClose(t, fd) ==
    /\ StartCall(t) /\ calls' = calls + 1
    /\ files' = FreeFd(fd)
    /\ UNCHANGED nfiles /\ TableOnly

SysDup(t, fd) ==
    /\ StartCall(t) /\ calls' = calls + 1
    /\ files' = DupFd(fd)
    /\ UNCHANGED nfiles /\ TableOnly

SysDup2(t, old, new) ==
    /\ StartCall(t) /\ calls' = calls + 1
    /\ files' = Dup2Fd(old, new)
    /\ UNCHANGED nfiles /\ TableOnly

\* sys_ftruncate passes static_cast<u64>(length) to File::truncate.
SysFtruncateLen(len) == ToU64(len)

\* Mutant: the system call goes on without its if (!file) check.
GetFileUnchecked(t, op, fd, off, whence) ==
    /\ StartCall(t)
    /\ calls' = calls + 1
    /\ IF IsValidFd(fd)
          THEN /\ call' = [call EXCEPT ![t] = [op |-> op, file |-> files[fd],
                                               off |-> off, whence |-> whence]]
               /\ pc' = [pc EXCEPT ![t] = IF op = "truncate" THEN "truncate"
                                          ELSE "lock"]
          ELSE UNCHANGED <<call, pc>>
    /\ UNCHANGED <<files, nfiles, pos, fmutex, size, writable, res, at,
                   consumed, lastSeek>>

(* sys_read, sys_write, sys_lseek, sys_ftruncate up to get_file: an empty  *)
(* or invalid fd returns -1 with EBADF; otherwise the thread holds the     *)
(* File (a SharedPtr, so a later close does not destroy it). read, write  *)
(* and seek then take File::mutex_; File::truncate does not.               *)
GetFile(t, op, fd, off, whence) ==
    /\ StartCall(t)
    /\ calls' = calls + 1
    /\ IF GetFileOf(fd) # NoFile
          THEN /\ call' = [call EXCEPT ![t] = [op |-> op, file |-> files[fd],
                                               off |-> off, whence |-> whence]]
               /\ pc' = [pc EXCEPT ![t] = IF op = "truncate" THEN "truncate"
                                          ELSE "lock"]
          ELSE UNCHANGED <<call, pc>>
    /\ UNCHANGED <<files, nfiles, pos, fmutex, size, writable, res, at,
                   consumed, lastSeek>>

\* Mutant: File::read / write / seek without the lock_guard.
FileLockSkipped(t) ==
    /\ pc[t] = "lock"
    /\ pc' = [pc EXCEPT ![t] = IF call[t].op = "seek" THEN "seek" ELSE "inode"]
    /\ UNCHANGED <<files, nfiles, pos, fmutex, size, writable, call, res, at,
                   calls, consumed, lastSeek>>

(* std::lock_guard<std::mutex> lock(mutex_) in File::read, write, seek.    *)
FileLock(t) ==
    LET f == call[t].file
    IN /\ pc[t] = "lock" /\ fmutex[f] = NoOwner
       /\ fmutex' = [fmutex EXCEPT ![f] = t]
       /\ pc' = [pc EXCEPT ![t] = IF call[t].op = "seek" THEN "seek" ELSE "inode"]
       /\ UNCHANGED <<files, nfiles, pos, size, writable, call, res, at,
                      calls, consumed, lastSeek>>

\* read_page fails for a page past the end of the device (FS_EINVAL).
PageReadable(p) == p < DevSize

(* Inode::read(pos_): EOF (0) at or past the size, else one page, or the  *)
(* error of read_page.                                                     *)
InodeRead(p, sz) ==
    IF p >= sz THEN 0 ELSE IF PageReadable(p) THEN 1 ELSE FS_EINVAL

(* Inode::write(pos_) of one whole page (no read_page): EACCES on a mode   *)
(* that is not writable; else attr_.size = pos + 1 when that u64 sum is    *)
(* larger.                                                                 *)
WriteResult(w) == IF w THEN 1 ELSE FS_EACCES
WriteSize(p, sz, w) == IF w /\ ToU64(p + 1) > sz THEN ToU64(p + 1) ELSE sz

InodeWrite(t) ==
    LET p == pos[call[t].file]
    IN /\ res' = [res EXCEPT ![t] = WriteResult(writable)]
       /\ size' = WriteSize(p, size, writable)

\* if (result.is_ok()) pos_ += result.unwrap(), a u64 sum.
Advance(p, n) == IF n \in {0, 1} THEN ToU64(p + n) ELSE p

\* File::read / File::write: the inode call with pos_ under File::mutex_.
FileInode(t) ==
    /\ pc[t] = "inode"
    /\ IF call[t].op = "read"
          THEN /\ res' = [res EXCEPT ![t] = InodeRead(pos[call[t].file], size)]
               /\ UNCHANGED size
          ELSE InodeWrite(t)
    /\ at' = [at EXCEPT ![t] = pos[call[t].file]]
    /\ pc' = [pc EXCEPT ![t] = "update"]
    /\ UNCHANGED <<files, nfiles, pos, fmutex, writable, call, calls,
                   consumed, lastSeek>>

\* Mutant: the error path of File::read / write returns without unlocking.
FileUpdateKeepsLockOnError(t) ==
    LET f == call[t].file
        n == res[t]
    IN /\ pc[t] = "update"
       /\ IF n \in {0, 1}
             THEN /\ pos' = [pos EXCEPT ![f] = ToU64(pos[f] + n)]
                  /\ fmutex' = [fmutex EXCEPT ![f] = NoOwner]
             ELSE UNCHANGED <<pos, fmutex>>
       /\ pc' = [pc EXCEPT ![t] = "idle"]
       /\ UNCHANGED <<files, nfiles, size, writable, call, res, at, calls,
                      consumed, lastSeek>>

(* if (result.is_ok()) pos_ += result.unwrap(); then the lock_guard        *)
(* releases mutex_ and the system call returns. The ghost records the page *)
(* moved over, and restarts when the u64 pos_ wraps.                       *)
FileUpdate(t) ==
    LET f == call[t].file
        n == res[t]
    IN /\ pc[t] = "update"
       /\ pos' = [pos EXCEPT ![f] = Advance(pos[f], n)]
       /\ IF n \in {0, 1}
             THEN /\ consumed' = [consumed EXCEPT ![f] =
                        IF n = 0 THEN @
                        ELSE IF pos[f] + n >= Modulus THEN <<>>
                        ELSE Append(@, at[t])]
             ELSE UNCHANGED consumed
       /\ fmutex' = [fmutex EXCEPT ![f] = NoOwner]
       /\ pc' = [pc EXCEPT ![t] = "idle"]
       /\ UNCHANGED <<files, nfiles, size, writable, call, res, at, calls,
                      lastSeek>>

(* File::seek's switch: SET, CUR (u64 sum), END (the inode's size, read   *)
(* by get_size without the inode mutex); any other whence leaves pos_.     *)
SeekTarget(p, sz, c) ==
    LET off == ToU64(c.off)
    IN CASE c.whence = 0 -> off
         [] c.whence = 1 -> ToU64(p + off)
         [] c.whence = 2 -> ToU64(sz + off)
         [] OTHER        -> p

(* File::seek under mutex_; sys_lseek returns pos_ as an off_t, or -1 on   *)
(* the FS_EINVAL of an unknown whence.                                     *)
FileSeek(t) ==
    LET f   == call[t].file
        w   == call[t].whence
        np  == SeekTarget(pos[f], size, call[t])
    IN /\ pc[t] = "seek"
       /\ pos' = [pos EXCEPT ![f] = np]
       /\ consumed' = IF w \in {0, 1, 2} THEN [consumed EXCEPT ![f] = <<>>]
                      ELSE consumed
       /\ lastSeek' = [lastSeek EXCEPT ![t] =
                        [rv |-> IF w \in {0, 1, 2} THEN ToOffT(np) ELSE -1,
                         from |-> pos[f], to |-> np]]
       /\ fmutex' = [fmutex EXCEPT ![f] = NoOwner]
       /\ pc' = [pc EXCEPT ![t] = "idle"]
       /\ UNCHANGED <<files, nfiles, size, writable, call, res, at, calls>>

(* sys_ftruncate: File::truncate -> Inode::truncate(static_cast<u64>(len)) *)
(* under the inode mutex; the pages it invalidates are the page cache's.  *)
InodeTruncate(t) ==
    /\ pc[t] = "truncate"
    /\ size' = SysFtruncateLen(call[t].off)
    /\ pc' = [pc EXCEPT ![t] = "idle"]
    /\ UNCHANGED <<files, nfiles, pos, fmutex, writable, call, res, at,
                   calls, consumed, lastSeek>>

(* What one File call does to the position and the size when it runs     *)
(* alone: File::read and write move pos_ past the page on success, seek    *)
(* sets it, truncate sets the size.                                        *)
FileEffect(c, p, sz, w) ==
    CASE c.op = "read"  -> [pos |-> Advance(p, InodeRead(p, sz)), size |-> sz]
      [] c.op = "write" -> [pos |-> Advance(p, WriteResult(w)),
                            size |-> WriteSize(p, sz, w)]
      [] c.op = "seek"  -> [pos |-> SeekTarget(p, sz, c), size |-> sz]
      [] OTHER          -> [pos |-> p, size |-> SysFtruncateLen(c.off)]

\* libc ftell(stream): lseek(fd, 0, SEEK_CUR) on the stream's descriptor.
Ftell(t, fd) == GetFile(t, "seek", fd, 0, 1)

\* libc fseek(stream, ...): 0 when lseek's off_t result is >= 0, else -1.
FseekResult(rv) == IF rv >= 0 THEN 0 ELSE -1

\* A bounded run has finished: every thread is idle and no call is left.
Terminated ==
    /\ calls = MaxCalls /\ \A t \in Threads : pc[t] = "idle"
    /\ UNCHANGED vars

Next ==
    \/ \E t \in Threads :
          \/ AllocFd(t)
          \/ \E fd \in Fds \cup {BadFd} : SysClose(t, fd) \/ SysDup(t, fd)
          \/ \E old \in Fds, new \in Fds \cup {BadFd} : SysDup2(t, old, new)
          \/ \E fd \in Fds :
                \/ GetFile(t, "read", fd, 0, 0)
                \/ GetFile(t, "write", fd, 0, 0)
                \/ \E off \in SeekOffsets, w \in Whences :
                      GetFile(t, "seek", fd, off, w)
                \/ \E len \in Lengths : GetFile(t, "truncate", fd, len, 0)
                \/ Ftell(t, fd)
          \/ FileLock(t) \/ FileInode(t) \/ FileUpdate(t)
          \/ FileSeek(t) \/ InodeTruncate(t)
    \/ Terminated

(* Threads are OS threads; a thread waiting for File::mutex_ is woken on   *)
(* every unlock, so it is strongly fair on the lock.                       *)
Fairness ==
    \A t \in Threads :
        /\ SF_vars(FileLock(t))
        /\ WF_vars(FileInode(t) \/ FileUpdate(t) \/ FileSeek(t) \/ InodeTruncate(t))

Spec == Init /\ [][Next]_vars /\ Fairness
-----------------------------------------------------------------------------
(* Reads and writes through one File (one open, shared by dup'd            *)
(* descriptors and by threads) move over distinct pages until the position *)
(* is set again: File::read and File::write hold mutex_ from reading pos_  *)
(* for the inode call until pos_ += n, so no two calls use one offset.     *)
OffsetsDisjoint == \A f \in FileIds : IsInjective(consumed[f])

(* The position a File shows its callers: a read or write that has done   *)
(* its inode call has taken effect, although pos_ += n is still to come.   *)
MappedPos ==
    [f \in FileIds |->
        IF \E t \in Threads : pc[t] = "update" /\ call[t].file = f
           THEN LET t == CHOOSE u \in Threads : pc[u] = "update" /\ call[u].file = f
                IN  Advance(pos[f], res[t])
           ELSE pos[f]]

Handle == INSTANCE FileHandle WITH
    pos    <- MappedPos,
    busy   <- [t \in Threads |-> pc[t] \in {"lock", "inode", "seek", "truncate"}],
    Calls  <- [op : {"read", "write", "seek", "truncate"}, file : FileIds,
               off : SeekOffsets \cup Lengths \cup {0}, whence : Whences],
    mode   <- writable,
    Effect <- LAMBDA c, p, sz, w : {FileEffect(c, p, sz, w)}

(* spec.md 4.G: File::read, write and seek take the File's lock, so every  *)
(* call through the fd table takes effect atomically on pos_ and the inode *)
(* size, at one step between its get_file and its return, and every call   *)
(* that got its File returns: FileLayer implements FileHandle.             *)
FileAtomic == Handle!Spec

(* POSIX and spec.md (InvalidArgument for a malformed offset): a seek that *)
(* reports failure, a -1 from libc's fseek on sys_lseek's off_t result,    *)
(* left the position where it was.                                         *)
SeekFailureKeepsPos ==
    \A t \in Threads :
        FseekResult(lastSeek[t].rv) = -1 => lastSeek[t].to = lastSeek[t].from
=============================================================================
