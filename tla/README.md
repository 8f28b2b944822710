# TLA+ models of the file system in `src/`

This directory holds TLA+ models of the concurrent parts of the file system under `src/fs` and `src/unnamed`. Each model comes with TLC configurations that check it.

## The system and how its parts interact

- **Inode** (`src/fs/src/vfs/inode.cpp`) implements `read`, `write` and `truncate` of file contents through the **page cache**. It implements the directory operations under its own `mutex_`, and `rename` under the mutexes of two directories.
- **PageCache / Page** (`src/fs/src/cache/page_cache.cpp`, `include/page_cache.h` = `src/unnamed/part_004`):
  - The cache is indexed by (inode, offset) under one cache mutex.
  - It keeps an LRU list and a dirty list.
  - Pages have a state word that is also used as their lock (`Page::lock` / `unlock`) and an atomic `u32` reference count.
  - The cache reads and writes pages on the block device.
- **MemoryBlockDevice** (`src/fs/src/block/block_device.cpp`) serves synchronous `read/write/flush/trim` calls. It also runs a BIO queue with an I/O thread (`submit_bio`, `io_thread_func`, `process_bio`), which the destructor stops.
- **FileBlockDevice** (same file) runs `submit_bio` inline on the caller's thread against a host file. Its host `lseek`, `read`, `write` and `fsync` can fail, and its `trim` does nothing.
- **File** (`src/fs/src/vfs/file.cpp`) is an open file: a dentry and a `u64` position `pos_`, with `read`, `write` and `seek` under the File's own mutex. Descriptors dup'd from one open share one File.
- **FileDescriptorTable** (`src/fs/src/syscall/fd_table.cpp`) maps descriptors to Files under a table mutex. The **system calls** (`syscall.cpp`) look up the File with `get_file` and then call it. The **libc** wrappers (`libc.cpp`) forward to the system calls; `fseek` and `ftell` are built on `lseek`.
- **SuperBlock** (`src/unnamed/part_000`) caches `Inode` objects by number (`get_inode`, `cache_inode`, `evict_inode`) under `inode_cache_mutex_`.
- The Ext4 file system (`part_001`), `VFS::open` and the VFS path walk are stubs. Because `VFS::open` always fails, `sys_open` never installs a descriptor in this build. See the last section.

## Modules

| Module | Models | State | Actions |
|---|---|---|---|
| `PageCache.tla` (+ `MC_PageCache.tla`) | `PageCache`, `Page`, and their callers `Inode::read/write/truncate`, `sync_pages`, a bare `read_page` caller, the demo's `find_or_create_page`/`mark_dirty`/`put`, and a client of the rest of the interface: `find_page`, `write_page`, `set_max_pages`, `flush_all` (= `sync_pages(nullptr)`) and `clear` | `index` (`pages_`), `lru`, `dirtyList`, `pages` (state, ref, buffer tag, `in_lru_`), `current` (`current_pages_`), `maxPages` (`max_pages_`), `freedErase` (history: an erase of an `lru_iter_` whose node `clear` freed), `disk`, inode `size` and `imutex`, per-thread `pc`/`page`/... | one per critical section of the code; helpers `UpdateLru` and `RemoveFromLru` (both test `in_lru_`, as the code does), `EvictLoop` (RECURSIVE), `FindOrCreate`, `ReleasePage`, `InvalidatePages`, `MarkDirty`, `ClearDirty`, `Unlock`, `FindPage`, `SetMaxPages`, `Clear` are the functions of the same names |
| `BioFifo.tla` | the promise of spec.md §4.A: a FIFO of BIOs, each completed with a result the synchronous operation can give (`Apply` returns the set of possible results), drained at shutdown | `pending`, `done`, `data`, `conf`, `phase` | `Submit`, `Complete`, `Close`, `Finish`, `CloseIdle` |
| `BlockQueue.tla` (+ `MC_BlockQueue.tla`) | `MemoryBlockDevice`: `submit_bio`, the I/O thread, `process_bio` with `read/write/flush/trim` (`DeviceOp`), and the destructor. `FileBlockDevice`: inline `submit_bio` with `read/write/flush/trim` (`FileDeviceOp`, a set of outcomes), and the destructor | `kind`, `queue`, `stop`, `worker`, `cur`, `caller`, `data`, `readonly`, `completed`, `owner` | `SubmitBio`, `Dispatch`, `ProcessBio`, `InnerLoop`, `StopDevice`, `JoinWorker`, `FileSubmitBio`, `FileProcessBio`, `FileDestroy` |
| `FileLayer.tla` (+ `MC_FileLayer.tla`) | `FileDescriptorTable`, `File::read/write/seek/truncate`, `sys_close/dup/dup2/read/write/lseek/ftruncate`, libc `fseek`/`ftell`, over one inode whose `read`/`write`/`truncate` are atomic steps | `files` (`files_`), `pos`, `fmutex` (owner of each `File::mutex_`), inode `size` and `writable`, per-thread `pc`/`call`/`res`/`at`, ghosts `consumed` and `lastSeek` | `AllocFd`, `SysClose`, `SysDup`, `SysDup2`, `GetFile`, `Ftell`, `FileLock`, `FileInode`, `FileUpdate`, `FileSeek`, `InodeTruncate`; helpers `FreeFd`, `DupFd`, `Dup2Fd`, `GetFileOf`, `LowestFree` are the table's methods |
| `FileHandle.tla` | the promise of spec.md §4.G: each `read`, `write` or `seek` on an open File takes effect at one instant on the File's position and the inode's size, and returns; `truncate` is one atomic step of the inode. What a call does is the parameter `Effect` | `pos`, `size`, `busy`, `call`, `mode` | `Invoke`, `TakeEffect` |
| `DirLocks.tla` (+ `MC_DirLocks.tla`) | the directory operations of `Inode` and `rename`'s lock order | `held` (owner of each directory mutex), `pc`, `op` | `Start`, `LockFirst`, `LockSecond`, `CheckAccess`, `CallOps` |
| `InodeCache.tla` (+ `MC_InodeCache.tla`) | `SuperBlock::get_inode`, `cache_inode`, `evict_inode` | `cache` (weak entries), `refs`, `owner` of the mutex | `GetLock`, `GetFind`, `CacheInode`, `EvictLock`, `EvictErase`, `DropInode` |

The modules share these conventions:

- **Atomic steps.** One step of a model is one critical section of the code, or one atomic load or store.
- **Data.** Data is a tag: 0 stands for the zero bytes, and n for the bytes written by operation n.
- **Wrapped integers.** Unsigned counters that the code can drive below zero are kept as negative integers. A negative value stands for the wrapped value, and the predicates `RefPinned`, `RefNonZero` and `AtCapacity` read it as such. The block device's `u64` offset is computed modulo `2^Width`.
- **The eviction loop.** `EvictLoop` is RECURSIVE and has a fuel bound. When a loop in the code would never end, the thread moves to `evict_spin`, where it holds the cache mutex for ever.
- **Refinement.** `BlockQueue` is checked to implement `BioFifo` through `INSTANCE BioFifo WITH pending <- <<cur>> \o queue, ..., Apply <- DeviceApply`. `DeviceApply` is the memory device's single outcome or the file device's set of outcomes.
- **Refinement of the file handle.** `FileLayer` is checked to implement `FileHandle` through `INSTANCE FileHandle WITH pos <- MappedPos, busy <- ..., Effect <- LAMBDA ... : {FileEffect(...)}`. A call is busy from the moment it holds its File until it takes effect. `MappedPos` already counts the advance of a thread that has done its inode call and not yet updated `pos_`, so the call takes effect at the inode step. `FileEffect` is built from the same helpers the actions use (`InodeRead`, `WriteResult`, `WriteSize`, `Advance`, `SeekTarget`), with the `u64` wrap included.
- **Fault model.** On the file device, any host `lseek`, `read`, `write` or `fsync` may return -1. The model makes this a nondeterministic `FS_EIO` outcome of the operation.
- **Pages as units in FileLayer.** Positions and sizes count pages, and each read or write moves one page. Reading a page past the device's end fails, as `read_page` does. Error results are the `ErrorCode` values of `types.h`.

## Runs

| Run (cfg) | Expect | What it shows |
|---|---|---|
| `PageCache.cfg` | pass | Three threads (under thread symmetry) run all six caller operations on one inode with two offsets and a one-page cache. In every reachable state: <ul><li>a locked page is held by a thread that will unlock it (`NoOrphanLock`);</li><li>every indexed page is in the LRU, and every page, cached or only held by a caller, has `in_lru_` set exactly when it is on the LRU, so each erase of its `lru_iter_` hits a live node (`IndexInLru`);</li><li>every indexed dirty page is on the dirty list (`DirtyListed`).</li></ul> About 4.4M states in 90 s. |
| `PageCacheLive.cfg` | pass | Two threads run `read_page`, the demo's dirtying pattern and `sync_pages`, together with `find_page`, `write_page`, `set_max_pages` (0 to 2), `flush_all` and `clear`. <ul><li>`DirtyListed` holds through `clear`, `write_page`, `set_max_pages` and `flush_all`.</li><li>`IndexInLru` is not checked here: `clear` leaves held pages with `in_lru_` set and a dangling `lru_iter_`, so it fails one step after `clear`. See `NoFreedLruErase` below.</li><li>`LockWaitEnds`: every thread waiting in `Page::lock` (read_page, sync_pages) eventually gets the lock.</li></ul> About 17k states in 35 s. |
| `PageCacheWriteRead.cfg` | violation | `ReadSeesWrite`: a write and then a read by one thread returns zeros. The write's `put` takes the ref count to 0, and `release_page` drops the dirty page unwritten. |
| `PageCacheSync.cfg` | violation | `SyncFlushes`: `sync_pages` locks the page first, which stores LOCKED, so its `!= DIRTY` check always skips the write. |
| `PageCacheLivelock.cfg` | violation | `EvictTerminates`: hits take no reference, so two `put`s wrap `ref_count_`. The page then looks pinned for ever, and `evict_pages` spins under the cache mutex. |
| `PageCacheClobber.cfg` | violation | `NoClobber`: `read_page` reads the device over a DIRTY page's unwritten bytes. |
| `BlockQueue.cfg` | pass | The device is a memory or a file device, read-only or not. <ul><li>`FifoRefined`: when the owner waits for its callbacks, either class implements `BioFifo`. Callbacks come in order, each with a result the synchronous operation can give (host failures included), and all complete.</li><li>`ReadOnlyUntouched`: no step changes a read-only device's data, through `write` or `trim`.</li></ul> |
| `BlockQueueShutdown.cfg` | violation | `FifoRefined`: a destructor run with BIOs queued joins the thread with those BIOs never processed. |
| `DirLocks.cfg` | pass | `DirOpsExclusive` and `OpsReturn`: renames in both directions and single-directory operations never run at once on a shared directory, and all of them return. |
| `FileLayer.cfg` | pass | Two threads share the fd table and call `alloc_fd`, `close`, `dup`, `dup2`, `read`, `write`, `lseek` (every whence, negative offsets), `ftell` and `ftruncate`. <ul><li>`OffsetsDisjoint`: reads and writes through one File never use the same offset twice between repositionings.</li><li>`FileAtomic`: the File operations implement `FileHandle`. Each call changes the position and the size at one step, as its `FileEffect` says, and every call returns.</li></ul> About 850k states in 2 minutes. |
| `PageCacheEvictHeld.cfg` | violation | `EvictSparesHeld`: `evict_pages` spares only pages with `ref_count() > 1`, and a page with one holder has count 1. A `read_page` miss at capacity therefore evicts the page an `Inode::write` is filling, between its `find_or_create_page` and its `put`. |
| `InodeCache.cfg` | violation | `NoSelfRelock`: `get_inode` holds `inode_cache_mutex_` and calls `cache_inode`, which locks it again. In this build a relocked `std::mutex` blocks for ever. |

`PROJECT.json` lists these runs, a mutant for every property of the passing runs, the findings behind each violation, and the hazards of the code.

## Bounds

- **PageCache.** Three threads and a one-page cache with two offsets make every miss of the second offset evict. A put can therefore race a find, and a reader can race a writer or a sync. The third thread lets a `mark_dirty` fall between `sync_pages`' lock and its check, the only path to its writeback. `MaxOps` 3 bounds the operations of all threads together.
- **The rest of the cache interface.** These operations run in `PageCacheLive.cfg`, not in `PageCache.cfg`. Enabled in the three-thread safety run, they pass `TypeOK`, `NoOrphanLock` and `DirtyListed`, but only after 11M states and nearly 4 minutes, too close to the time limit to keep as a run. The two-thread run still lets `clear` and `set_max_pages(0)` fall inside another thread's use of a page.
- **Violation runs.** Each uses the smallest configuration in which its trace exists. The traces are 4 to 12 steps long.
- **BlockQueue.** Three BIOs and two sectors, with sector 2 past the end. The queue can then hold two BIOs while the thread processes a third. Every BIO kind meets a read-only and a writable device of both classes.
- **FileLayer.**
  - Two threads and two descriptor slots give a dup'd File shared by two descriptors, a full table (ENOMEM), and two threads in one File at once.
  - Five calls in all cover install + dup + two concurrent transfers + a seek.
  - `Width` 3 gives 8 positions. That is enough for `pos_` and the size to wrap through seeks and writes.
  - The device has four pages, so a read past it fails.
- **DirLocks.** Two threads and three directories, two of them writable, give opposite-direction renames, an EACCES path and a rename against a single-directory operation. With three threads, a cycle of three renames (d1 to d2, d2 to d3, d3 to d1) also passes both properties: 166k states, but 3.5 minutes for the liveness check. The kept cfg uses two threads.

## Fairness

- **Weak fairness.** The code's threads are OS threads that run whenever they are able to, so their steps are weakly fair.
- **Strong fairness.** A thread waiting on a mutex, or on the page lock's condition variable, gets strong fairness on acquiring it. The wait is woken on every unlock (notify_all), and the lock is free infinitely often whenever its holders progress.
- **The I/O thread.** It is weakly fair on dispatch and processing, and `join()` returns once the thread has exited. A caller inside `FileBlockDevice::submit_bio` is weakly fair.
- **File mutex.** A thread waiting for `File::mutex_` is strongly fair on it, like the other mutexes. The later steps of a File call are weakly fair.
- **FileHandle.** The abstract handle is weakly fair on `TakeEffect`: once a caller has its File, the call takes effect. In FileLayer this follows from the strong fairness on `File::mutex_` and the weak fairness of the later steps. `FileAtomic` checks it, so a path that kept the mutex would break it.
- **Bounded termination.** The `Terminated` and `Destroyed` stutter steps say that a bounded run has finished. Deadlock checking stays on in every cfg.

## Not modelled

- **Ext4 stubs and VFS calls.** The Ext4 stubs return fixed errors. `VFS::open`, `mount` and the path walk are stubs. The path system calls (`mkdir`, `unlink`, `rename`, `stat`, ...) only forward to them.
- **How Files enter the table.** `sys_open` always fails, so FileLayer installs Files through the table's public `alloc_fd`.
- **Dentry and the VFS registry.** The `Dentry` child maps and the VFS registry are single critical sections on maps. Nothing in `src/` gives a dentry a parent, calls `remove_child` or builds a dentry tree, because mount, open and the path walk are stubs.
- **errno and libc forwards.** Return values and errno are left out of FileLayer, except the `lseek` result that `fseek` and `ftell` use. `error_to_errno` in `syscall.h` names enumerators that `types.h` does not have (`ErrorCode::ENOENT` rather than `FS_ENOENT`), so the errno mapping does not compile as written.
- **libc stream and directory wrappers, xattr calls.** The directory and xattr wrappers return constants or forward to stubs. The `FILE*` functions and the C++ `FileBuf` are loops and wrappers over the descriptor calls of FileLayer, and they are not modelled. `fgets` is a loop of separate `fgetc` reads, so it is not atomic; this is listed as a hazard. `FileBuf` gets its descriptor only from `::open`, which is the stub `sys_open`, so no `FileBuf` ever reads.
- **`O_APPEND`.** `File::write` ignores the open flags. No File carries flags here, because `sys_open` is a stub.
- **File device edge cases.** The `FileBlockDevice` constructor, which throws when `open` or `fstat` fails, is not modelled. Short host transfers are not modelled either.
- **Symbol interposition.** `libc.cpp` defines `open`, `read`, `write`, `lseek`, `close` and `fsync` in the library that also holds `FileBlockDevice`, which needs the host's versions. This is a link-time hazard, listed in `PROJECT.json`.
- **Counters and unused Page calls.** The statistics counters of the page cache are not modelled. `Page::try_lock`, `wait_unlock` and `get` have no caller in the repository.
- **One-call libc wrappers.** `fread`, `fwrite`, `fgetc`, `fputc`, `fputs`, `fclose`, `fflush`, `rewind`, `fgetpos`, `fsetpos` and `fileno` are each one system call of FileLayer plus a conversion of its result. `feof`, `ferror`, `fprintf` and `fscanf` return constants. What a model would add is their loops and error reporting. `fgets` returns a partial line on a read error; this is listed as a hazard.
- **Memory device image I/O.** `MemoryBlockDevice::load_from_file` and `save_to_file` copy the device to or from a host file under the device mutex, and nothing calls them.
- **Permission check of `Inode::write`.** `WrEnter` leaves out the `is_writable` EACCES return. Every inode of the runs is writable, so the path is never taken.
- **The `dirty_list_` data race.** `mark_dirty` appends without the cache mutex. This is listed as a hazard. A model whose steps are whole critical sections does not split a list operation into the memory accesses that race.

Defined but not checked by a run (each is violated, and each is listed as a hazard):

- `NoOrphanWriteback`: the `WRITEBACK` state is never left.
- `PageCountAccurate`: `current_pages_` is decremented twice.
- `NoFreedLruErase`: no erase goes through an `lru_iter_` whose node `clear` freed. Under `PageCacheLive.cfg`'s bounds TLC finds it violated in 8 steps: a `write_page` caller holds a page, another thread calls `clear`, and `write_page`'s `update_lru` then erases through the freed node, which is undefined behaviour in the code. After such an erase the model keeps the list as it was. That is one of the outcomes the code can produce; it can also corrupt `lru_list_`. A held page's later `put` reaches the same erase through `remove_from_lru`.
- `PageReadOnce`: two `read_page` calls read one Page twice.
- `PastEndFails`: the `u64` sector offset wraps.
- `SeekFailureKeepsPos` (FileLayer): `lseek(fd, -1, SEEK_SET)` sets `pos_` to 2^64-1 and returns the `off_t` -1 without errno. `fseek` therefore reports failure after the position has moved. TLC finds this in two steps. A one-line unit test also shows it, so the run budget went to `EvictSparesHeld`.
