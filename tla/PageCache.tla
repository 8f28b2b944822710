----------------------------- MODULE PageCache -----------------------------
(***************************************************************************)
(* The page cache of src/fs/src/cache/page_cache.cpp (class PageCache and  *)
(* class Page of include/page_cache.h), driven by the callers the         *)
(* repository has: Inode::read, Inode::write and Inode::truncate of        *)
(* src/fs/src/vfs/inode.cpp, PageCache::sync_pages, a bare read_page      *)
(* caller and the find_or_create_page / mark_dirty / put pattern of the    *)
(* demo program.                                                           *)
(*                                                                         *)
(* Atomicity.  A step of the model is one critical section of the code:   *)
(* everything done under the cache mutex (find_or_create_page with its    *)
(* allocation and eviction, release_page, invalidate_pages, the snapshot  *)
(* of sync_pages), one page-mutex section (lock, unlock, mark_dirty,       *)
(* clear_dirty), one atomic load or store of the page state or ref count,  *)
(* or one call of the memory block device (under the device mutex).       *)
(*                                                                         *)
(* Data is abstracted to a tag: page buffers and sectors hold a number of  *)
(* Data, 0 being the zero bytes a fresh page or a fresh memory device      *)
(* holds, and every write of a caller stores its own tag.  A page covers   *)
(* the sectors at offset / sector_size, so two inodes' pages at the same   *)
(* offset share a place on the device, as in the code.                     *)
(***************************************************************************)
EXTENDS Integers, Sequences, SequencesExt, FiniteSets

CONSTANTS
    Threads,     \* caller threads
    Inodes,      \* inodes whose pages the cache holds
    NumOffsets,  \* page-aligned offsets 0 .. NumOffsets-1 of every inode
    MaxPages,    \* PageCache::max_pages_ as constructed
    MaxOps,      \* bound: operations started over a whole behaviour
    OpKinds,     \* which caller operations the run lets threads start
    NoPage,      \* model value: a null SharedPtr<Page>
    NoThread     \* model value: an inode mutex nobody holds

ASSUME MaxPages \in Nat \ {0} /\ NumOffsets \in Nat \ {0} /\ MaxOps \in Nat

Offsets == 0 .. NumOffsets - 1
Keys    == Inodes \X Offsets          \* PageKey(inode, offset)
Data    == 0 .. MaxOps                \* 0: zero bytes; n: the n-th op's bytes
\* Each operation allocates at most two pages (Inode::write's own lookup
\* and the read_page it may call), so ids never run out.
PageIds == 1 .. 2 * MaxOps
PageStates == {"CLEAN", "DIRTY", "LOCKED", "ERROR", "UPTODATE", "WRITEBACK"}

(* ref_count_ is a std::atomic<u32> and current_pages_ a size_t.  Both     *)
(* can be decremented below zero by the code; a value below zero stands    *)
(* for the wrapped unsigned value 2^w + v, larger than any bound here.     *)
RefPinned(r)   == r > 1 \/ r < 0       \* page->ref_count() > 1
RefNonZero(r)  == r # 0                \* page->ref_count() > 0
AtCapacity(n, max) == n < 0 \/ n >= max   \* current_pages_ >= max_pages_

\* Arguments a client passes to set_max_pages (a size_t, zero included).
SetMaxArgs == 0 .. MaxPages + 1

Ops ==
       [kind : {"read"},     ino : Inodes, off : Offsets]
  \cup [kind : {"write"},    ino : Inodes, off : Offsets, partial : BOOLEAN]
  \cup [kind : {"truncate"}, ino : Inodes, len : 0 .. NumOffsets]
  \cup [kind : {"sync"},     ino : Inodes]
  \cup [kind : {"readpage"}, ino : Inodes, off : Offsets]
  \cup [kind : {"dirtypage"}, ino : Inodes, off : Offsets]
  \cup [kind : {"probe", "writepage"}, ino : Inodes, off : Offsets]
  \cup [kind : {"setmax"}, max : SetMaxArgs]
  \cup [kind : {"flush", "clear"}]

VARIABLES
    index,      \* pages_: PageKey -> page
    lru,        \* lru_list_, most recently used first
    dirtyList,  \* dirty_list_ (std::list, may hold a page twice)
    pages,      \* every Page object allocated so far: id -> record
    current,    \* current_pages_
    maxPages,   \* max_pages_
    freedErase, \* history: an lru_iter_ into a list clear() freed was erased
    disk,       \* MemoryBlockDevice::data_, one entry per page offset
    size,       \* attr_.size of each inode, in pages
    imutex,     \* Inode::mutex_ owner
    pc,         \* per-thread program counter
    op,         \* per-thread operation and its arguments
    page,       \* the caller's SharedPtr<Page> local
    rpage,      \* read_page's SharedPtr<Page> local
    ret,        \* where read_page or the release after put returns to
    todo,       \* sync_pages' pages_to_sync, still to process
    result,     \* the bytes a read copied out
    nops,       \* operations started so far (bound MaxOps)
    written,    \* history: last bytes a completed write left in each key
    devReads    \* history: device reads issued into each Page object

cacheVars  == <<index, lru, dirtyList, pages, current, maxPages, freedErase, disk>>
threadVars == <<pc, op, page, rpage, ret, todo, result>>
vars == <<cacheVars, size, imutex, threadVars, nops, written, devReads>>

PageRec == [key : Keys, st : PageStates, ref : Int, data : Data, inLru : BOOLEAN]
Labels == {"idle", "rd_enter", "rd_copy", "wr_enter", "wr_find", "wr_check",
           "wr_copy", "wr_dirty", "wr_put", "wr_exit", "tr_enter",
           "sy_snap", "sy_lock", "sy_check", "sy_wb", "sy_clear", "sy_unlock",
           "rp_find", "rp_check", "rp_lock", "rp_recheck", "rp_io", "rp_set",
           "rp_unlock", "rd_exit", "dp_put", "release", "evict_spin",
           "pr_find", "wp_lru", "sm_set", "cl_clear"}

-----------------------------------------------------------------------------
(* The cache state as one record, so the mutex-held helpers of the code   *)
(* are operators from a cache record to a cache record.                   *)
Cache == [idx |-> index, lru |-> lru, dl |-> dirtyList, pg |-> pages,
          cur |-> current, max |-> maxPages, uaf |-> freedErase, disk |-> disk,
          stuck |-> FALSE, got |-> NoPage]

SetCache(c) ==
    /\ index' = c.idx /\ lru' = c.lru /\ dirtyList' = c.dl
    /\ pages' = c.pg  /\ current' = c.cur /\ maxPages' = c.max
    /\ freedErase' = c.uaf /\ disk' = c.disk

KeyOf(t) == <<op[t].ino, op[t].off>>

\* A thread whose evict_pages never ends keeps the cache mutex for ever.
CacheMutexFree == \A t \in Threads : pc[t] # "evict_spin"

(* A page's in_lru_ is set while its lru_iter_ points into lru_list_;    *)
(* after clear() it still is set, and the node lru_iter_ points at was    *)
(* freed with the old list.  Erasing through it is undefined behaviour:   *)
(* the model records it in uaf and takes the outcome where only freed      *)
(* nodes were written, so the list itself is left as it is.               *)
FreedNode(c, p) == c.pg[p].inLru /\ ~Contains(c.lru, p)

\* remove_from_lru: if in_lru_, erase lru_iter_ and clear in_lru_.
RemoveFromLru(c, p) ==
    IF c.pg[p].inLru
    THEN [c EXCEPT !.lru = Remove(@, p), !.pg[p].inLru = FALSE,
                   !.uaf = @ \/ FreedNode(c, p)]
    ELSE c

\* remove_from_dirty_list: std::list::remove drops every occurrence.
RemoveFromDirty(c, p) == [c EXCEPT !.dl = Remove(@, p)]

\* Mutant of UpdateLru: the page is unlinked but not pushed back.
UpdateLruDropped(c, p) ==
    IF c.pg[p].inLru THEN [c EXCEPT !.lru = Remove(@, p)] ELSE c

\* update_lru: if in_lru_, erase lru_iter_ and push the page at the head.
UpdateLru(c, p) ==
    IF c.pg[p].inLru
    THEN [c EXCEPT !.lru = Cons(p, Remove(@, p)), !.uaf = @ \/ FreedNode(c, p)]
    ELSE c

\* One victim of evict_pages: a dirty victim is written to the device at
\* offset / sector_size and clear_dirty'ed, then the key is erased from
\* pages_ and the page unlinked from the LRU list.
EvictOne(c, p) ==
    LET k  == c.pg[p].key
        c1 == IF c.pg[p].st = "DIRTY"
              THEN [RemoveFromDirty(c, p) EXCEPT
                       !.disk[k[2]] = c.pg[p].data,
                       !.pg[p].st   = "UPTODATE"]
              ELSE c
    IN  [RemoveFromLru(c1, p) EXCEPT !.idx[k] = NoPage, !.cur = @ - 1]

(* evict_pages(count): scan from the LRU tail, rotating pinned pages to   *)
(* the head.  fuel counts rotations since the last eviction; when every   *)
(* page in the list is pinned the loop of the code never ends, and the    *)
(* result is marked stuck.                                                 *)
RECURSIVE EvictLoop(_, _, _)
EvictLoop(c, count, fuel) ==
    IF count = 0 \/ c.lru = <<>> THEN c
    ELSE IF fuel = 0 THEN [c EXCEPT !.stuck = TRUE]
    ELSE LET p == Last(c.lru) IN
         IF RefPinned(c.pg[p].ref)
         THEN EvictLoop([c EXCEPT !.lru = Cons(p, Front(@))], count, fuel - 1)
         ELSE LET c1 == EvictOne(c, p) IN EvictLoop(c1, count - 1, Len(c1.lru))

\* find_or_create_page: a hit promotes the page; a miss allocates a fresh
\* CLEAN page with ref_count 1 after evicting one page at capacity.
NextId == Cardinality(DOMAIN pages) + 1

FindOrCreate(c, k) ==
    IF c.idx[k] # NoPage
    THEN [UpdateLru(c, c.idx[k]) EXCEPT !.got = c.idx[k]]
    ELSE LET c1 == IF AtCapacity(c.cur, c.max)
                   THEN EvictLoop(c, 1, Len(c.lru)) ELSE c
             id == NextId
         IN  [c1 EXCEPT !.idx[k] = id, !.lru = Cons(id, @), !.cur = @ + 1,
                        !.pg = @ @@ (id :> [key |-> k, st |-> "CLEAN",
                                           ref |-> 1, data |-> 0,
                                           inLru |-> TRUE]),
                        !.got = id]

\* release_page: only at ref_count 0; erases whatever page the key maps to.
ReleasePage(c, p) ==
    IF RefNonZero(c.pg[p].ref) THEN c
    ELSE LET c1 == RemoveFromLru([c EXCEPT !.idx[c.pg[p].key] = NoPage], p)
             c2 == IF c1.pg[p].st = "DIRTY" THEN RemoveFromDirty(c1, p) ELSE c1
         IN  [c2 EXCEPT !.cur = @ - 1]

\* invalidate_pages(inode): drop every page of the inode, no writeback.
InvalidatePages(c, i) ==
    LET gone == {k \in Keys : k[1] = i /\ c.idx[k] # NoPage}
        ps   == {c.idx[k] : k \in gone}
    IN  [c EXCEPT
           !.idx = [k \in Keys |-> IF k \in gone THEN NoPage ELSE @[k]],
           !.lru = SelectSeq(@, LAMBDA p : p \notin ps),
           !.dl  = SelectSeq(@, LAMBDA p : ~(p \in ps /\ c.pg[p].st = "DIRTY")),
           !.pg  = [p \in DOMAIN @ |-> IF p \in ps THEN [@[p] EXCEPT !.inLru = FALSE]
                                                 ELSE @[p]],
           !.cur = @ - Cardinality(gone)]

\* Mutant of MarkDirty: the state changes but the page is not enrolled.
MarkDirtyUnlisted(c, p) ==
    IF c.pg[p].st \in {"DIRTY", "WRITEBACK"} THEN c
    ELSE [c EXCEPT !.pg[p].st = "DIRTY"]

\* Page::mark_dirty: Clean/Uptodate/Locked/Error -> Dirty and enrol.
MarkDirty(c, p) ==
    IF c.pg[p].st \in {"DIRTY", "WRITEBACK"} THEN c
    ELSE [c EXCEPT !.pg[p].st = "DIRTY", !.dl = Append(@, p)]

\* Page::clear_dirty: Dirty -> Uptodate and leave the dirty list.
ClearDirty(c, p) ==
    IF c.pg[p].st = "DIRTY"
    THEN [RemoveFromDirty(c, p) EXCEPT !.pg[p].st = "UPTODATE"]
    ELSE c

\* Page::unlock: Locked -> Uptodate, any other state is left alone.
Unlock(st) == IF st = "LOCKED" THEN "UPTODATE" ELSE st

-----------------------------------------------------------------------------
Init ==
    /\ index = [k \in Keys |-> NoPage]
    /\ lru = <<>>
    /\ dirtyList = <<>>
    /\ pages = <<>>
    /\ freedErase = FALSE
    /\ current = 0
    /\ maxPages = MaxPages
    /\ disk = [o \in Offsets |-> 0]
    /\ size = [i \in Inodes |-> 0]
    /\ imutex = [i \in Inodes |-> NoThread]
    /\ pc = [t \in Threads |-> "idle"]
    /\ op = [t \in Threads |-> [kind |-> "none"]]
    /\ page = [t \in Threads |-> NoPage]
    /\ rpage = [t \in Threads |-> NoPage]
    /\ ret = [t \in Threads |-> "idle"]
    /\ todo = [t \in Threads |-> <<>>]
    /\ result = [t \in Threads |-> 0]
    /\ nops = 0
    /\ written = [k \in Keys |-> 0]
    /\ devReads = [p \in PageIds |-> 0]

Goto(t, l) == pc' = [pc EXCEPT ![t] = l]

FirstLabel == [read |-> "rd_enter", write |-> "wr_enter", truncate |-> "tr_enter",
               sync |-> "sy_snap", readpage |-> "rp_find", dirtypage |-> "wr_find",
               probe |-> "pr_find", writepage |-> "wr_find", setmax |-> "sm_set",
               flush |-> "sy_snap", clear |-> "cl_clear"]

\* A thread starts one caller operation; its bytes are tagged nops + 1.
Start(t) ==
    /\ pc[t] = "idle"
    /\ nops < MaxOps
    /\ \E o \in Ops :
         /\ o.kind \in OpKinds
         /\ op' = [op EXCEPT ![t] = o @@ [val |-> nops + 1]]
         /\ Goto(t, FirstLabel[o.kind])
         /\ ret' = [ret EXCEPT ![t] = IF o.kind = "readpage" THEN "dp_put" ELSE @]
    /\ nops' = nops + 1
    /\ UNCHANGED <<cacheVars, size, imutex, page, rpage, todo, result, written, devReads>>

(* Page::put: the atomic decrement; reaching zero calls release_page,     *)
(* which is the separate step Release.                                     *)
Put(t, p, after) ==
    /\ pages' = [pages EXCEPT ![p].ref = @ - 1]
    /\ page' = [page EXCEPT ![t] = p]
    /\ IF pages[p].ref = 1
       THEN Goto(t, "release") /\ ret' = [ret EXCEPT ![t] = after]
       ELSE Goto(t, after) /\ UNCHANGED ret

Release(t) ==
    /\ pc[t] = "release"
    /\ CacheMutexFree
    /\ SetCache(ReleasePage(Cache, page[t]))
    /\ Goto(t, ret[t])
    /\ UNCHANGED <<size, imutex, op, page, rpage, ret, todo, result, nops, written, devReads>>

-----------------------------------------------------------------------------
(* PageCache::read_page, called with ret[t] set to where it returns.      *)

\* find_or_create_page under the cache mutex.  When its evict_pages finds
\* only pinned pages it loops for ever: the thread spins, mutex held.
FindStep(t, local, next) ==
    /\ CacheMutexFree
    /\ LET c == FindOrCreate(Cache, KeyOf(t)) IN
         IF c.stuck
         THEN Goto(t, "evict_spin") /\ UNCHANGED <<cacheVars, local>>
         ELSE /\ SetCache(c)
              /\ local' = [local EXCEPT ![t] = c.got]
              /\ Goto(t, next)

RpFind(t) ==
    /\ pc[t] = "rp_find"
    /\ FindStep(t, rpage, "rp_check")
    /\ UNCHANGED <<size, imutex, op, page, ret, todo, result, nops, written, devReads>>

\* if (page->is_uptodate()) return page;
RpCheck(t) ==
    /\ pc[t] = "rp_check"
    /\ Goto(t, IF pages[rpage[t]].st = "UPTODATE" THEN ret[t] ELSE "rp_lock")
    /\ UNCHANGED <<cacheVars, size, imutex, op, page, rpage, ret, todo, result, nops, written, devReads>>

\* Page::lock: wait until the state is not LOCKED, then store LOCKED.
\* Mutant of LockPage: the wait predicate tests for a free (CLEAN) page.
LockPageUntilClean(t, p, next) ==
    /\ pages[p].st = "CLEAN"
    /\ pages' = [pages EXCEPT ![p].st = "LOCKED"]
    /\ Goto(t, next)

\* Page::lock: cv_.wait until the state is not LOCKED, then store LOCKED.
LockPage(t, p, next) ==
    /\ pages[p].st # "LOCKED"
    /\ pages' = [pages EXCEPT ![p].st = "LOCKED"]
    /\ Goto(t, next)

RpLock(t) ==
    /\ pc[t] = "rp_lock"
    /\ LockPage(t, rpage[t], "rp_recheck")
    /\ UNCHANGED <<index, lru, dirtyList, current, maxPages, freedErase, disk, size, imutex, op, page, rpage, ret, todo, result, nops, written, devReads>>

\* The second is_uptodate check after taking the page lock.
RpRecheck(t) ==
    /\ pc[t] = "rp_recheck"
    /\ Goto(t, IF pages[rpage[t]].st = "UPTODATE" THEN "rp_unlock" ELSE "rp_io")
    /\ UNCHANGED <<cacheVars, size, imutex, op, page, rpage, ret, todo, result, nops, written, devReads>>

\* block_device->read(offset / sector_size, page->get_data(), PAGE_SIZE):
\* every offset is inside the device, so the read succeeds.
RpIo(t) ==
    /\ pc[t] = "rp_io"
    /\ pages' = [pages EXCEPT ![rpage[t]].data = disk[op[t].off]]
    /\ devReads' = [devReads EXCEPT ![rpage[t]] = @ + 1]
    /\ Goto(t, "rp_set")
    /\ UNCHANGED <<index, lru, dirtyList, current, maxPages, freedErase, disk, size, imutex, op, page, rpage, ret, todo, result, nops, written>>

\* page->set_state(PageState::UPTODATE);
RpSet(t) ==
    /\ pc[t] = "rp_set"
    /\ pages' = [pages EXCEPT ![rpage[t]].st = "UPTODATE"]
    /\ Goto(t, "rp_unlock")
    /\ UNCHANGED <<index, lru, dirtyList, current, maxPages, freedErase, disk, size, imutex, op, page, rpage, ret, todo, result, nops, written, devReads>>

\* page->unlock(); return page;
RpUnlock(t) ==
    /\ pc[t] = "rp_unlock"
    /\ pages' = [pages EXCEPT ![rpage[t]].st = Unlock(@)]
    /\ Goto(t, ret[t])
    /\ UNCHANGED <<index, lru, dirtyList, current, maxPages, freedErase, disk, size, imutex, op, page, rpage, ret, todo, result, nops, written, devReads>>

\* A bare read_page caller unpins the page it got.
DpPut(t) ==
    /\ pc[t] = "dp_put"
    /\ Put(t, rpage[t], "idle")
    /\ UNCHANGED <<index, lru, dirtyList, current, maxPages, freedErase, disk, size, imutex, op, rpage, todo, result, nops, written, devReads>>

-----------------------------------------------------------------------------
(* Inode::read of one page: under the inode mutex; EOF when pos >= size.  *)

RdEOF(t) ==
    /\ pc[t] = "rd_enter"
    /\ imutex[op[t].ino] = NoThread
    /\ op[t].off >= size[op[t].ino]
    /\ Goto(t, "idle")
    /\ UNCHANGED <<cacheVars, size, imutex, op, page, rpage, ret, todo, result, nops, written, devReads>>

RdEnter(t) ==
    /\ pc[t] = "rd_enter"
    /\ imutex[op[t].ino] = NoThread
    /\ op[t].off < size[op[t].ino]
    /\ imutex' = [imutex EXCEPT ![op[t].ino] = t]
    /\ ret' = [ret EXCEPT ![t] = "rd_copy"]
    /\ Goto(t, "rp_find")
    /\ UNCHANGED <<cacheVars, size, op, page, rpage, todo, result, nops, written, devReads>>

\* memcpy out of the page, then page->put().
RdCopy(t) ==
    /\ pc[t] = "rd_copy"
    /\ result' = [result EXCEPT ![t] = pages[rpage[t]].data]
    /\ Put(t, rpage[t], "rd_exit")
    /\ UNCHANGED <<index, lru, dirtyList, current, maxPages, freedErase, disk, size, imutex, op, rpage, todo, nops, written, devReads>>

RdExit(t) ==
    /\ pc[t] = "rd_exit"
    /\ imutex' = [imutex EXCEPT ![op[t].ino] = NoThread]
    /\ Goto(t, "idle")
    /\ UNCHANGED <<cacheVars, size, op, page, rpage, ret, todo, result, nops, written, devReads>>

-----------------------------------------------------------------------------
(* Inode::write of one page (partial or whole), and the demo's            *)
(* find_or_create_page / mark_dirty / put sequence, which shares its       *)
(* steps from wr_find on.                                                   *)

WrEnter(t) ==
    /\ pc[t] = "wr_enter"
    /\ imutex[op[t].ino] = NoThread
    /\ imutex' = [imutex EXCEPT ![op[t].ino] = t]
    /\ Goto(t, "wr_find")
    /\ UNCHANGED <<cacheVars, size, op, page, rpage, ret, todo, result, nops, written, devReads>>

WrFind(t) ==
    /\ pc[t] = "wr_find"
    /\ FindStep(t, page, "wr_check")
    /\ UNCHANGED <<size, imutex, op, rpage, ret, todo, result, nops, written, devReads>>

\* A partial write of a page that is not up to date reads it first.
WrCheck(t) ==
    /\ pc[t] = "wr_check"
    /\ IF op[t].kind = "write" /\ op[t].partial /\ pages[page[t]].st # "UPTODATE"
       THEN Goto(t, "rp_find") /\ ret' = [ret EXCEPT ![t] = "wr_copy"]
       ELSE Goto(t, "wr_copy") /\ UNCHANGED ret
    /\ UNCHANGED <<cacheVars, size, imutex, op, page, rpage, todo, result, nops, written, devReads>>

\* std::memcpy(page->get_data() + page_pos, ...): the new bytes.
WrCopy(t) ==
    /\ pc[t] = "wr_copy"
    /\ pages' = [pages EXCEPT ![page[t]].data = op[t].val]
    /\ Goto(t, "wr_dirty")
    /\ UNCHANGED <<index, lru, dirtyList, current, maxPages, freedErase, disk, size, imutex, op, page, rpage, ret, todo, result, nops, written, devReads>>

WrDirty(t) ==
    /\ pc[t] = "wr_dirty"
    /\ SetCache(MarkDirty(Cache, page[t]))
    /\ Goto(t, IF op[t].kind = "writepage" THEN "wp_lru" ELSE "wr_put")
    /\ UNCHANGED <<size, imutex, op, page, rpage, ret, todo, result, nops, written, devReads>>

WrPut(t) ==
    /\ pc[t] = "wr_put"
    /\ Put(t, page[t], IF op[t].kind = "write" THEN "wr_exit" ELSE "idle")
    /\ written' = IF op[t].kind \in {"dirtypage", "writepage"}
                  THEN [written EXCEPT ![KeyOf(t)] = op[t].val] ELSE written
    /\ UNCHANGED <<index, lru, dirtyList, current, maxPages, freedErase, disk, size, imutex, op, rpage, todo, result, nops, devReads>>

\* Mutant of WrExit: the new size counts one page past the write.
WrExitOverGrow(t) ==
    /\ pc[t] = "wr_exit"
    /\ size' = [size EXCEPT ![op[t].ino] = IF op[t].off + 1 > @ THEN op[t].off + 2 ELSE @]
    /\ written' = [written EXCEPT ![KeyOf(t)] = op[t].val]
    /\ imutex' = [imutex EXCEPT ![op[t].ino] = NoThread]
    /\ Goto(t, "idle")
    /\ UNCHANGED <<cacheVars, op, page, rpage, ret, todo, result, nops, devReads>>

\* Grow attr_.size, then leave the inode mutex.
WrExit(t) ==
    /\ pc[t] = "wr_exit"
    /\ size' = [size EXCEPT ![op[t].ino] = IF op[t].off + 1 > @ THEN op[t].off + 1 ELSE @]
    /\ written' = [written EXCEPT ![KeyOf(t)] = op[t].val]
    /\ imutex' = [imutex EXCEPT ![op[t].ino] = NoThread]
    /\ Goto(t, "idle")
    /\ UNCHANGED <<cacheVars, op, page, rpage, ret, todo, result, nops, devReads>>

-----------------------------------------------------------------------------
(* Inode::truncate: shrinking invalidates every page of the inode.  The   *)
(* inode mutex is held throughout and nothing else the steps of other     *)
(* threads observe happens in between, so it is one step.  A file shrunk  *)
(* and grown again should read zeros past the old end: written says so.   *)
TrEnter(t) ==
    /\ pc[t] = "tr_enter"
    /\ imutex[op[t].ino] = NoThread
    /\ op[t].len < size[op[t].ino] => CacheMutexFree
    /\ LET i == op[t].ino
           n == op[t].len
       IN  /\ IF n < size[i] THEN SetCache(InvalidatePages(Cache, i))
                             ELSE UNCHANGED cacheVars
           /\ size' = [size EXCEPT ![i] = n]
           /\ written' = [k \in Keys |-> IF k[1] = i /\ k[2] >= n THEN 0 ELSE written[k]]
    /\ Goto(t, "idle")
    /\ UNCHANGED <<imutex, op, page, rpage, ret, todo, result, nops, devReads>>

-----------------------------------------------------------------------------
(* PageCache::sync_pages(inode): snapshot under the cache mutex, then     *)
(* lock, check, write back and unlock each page outside it.               *)

SyncNext(t, rest) ==
    IF rest = <<>>
    THEN Goto(t, "idle") /\ UNCHANGED <<page, todo>>
    ELSE /\ page' = [page EXCEPT ![t] = Head(rest)]
         /\ todo' = [todo EXCEPT ![t] = Tail(rest)]
         /\ Goto(t, "sy_lock")

SySnap(t) ==
    /\ pc[t] = "sy_snap"
    /\ CacheMutexFree
    /\ SyncNext(t, SelectSeq(dirtyList, LAMBDA p :
                      /\ op[t].kind = "flush" \/ pages[p].key[1] = op[t].ino
                      /\ pages[p].st = "DIRTY"))
    /\ UNCHANGED <<cacheVars, size, imutex, op, rpage, ret, result, nops, written, devReads>>

SyLock(t) ==
    /\ pc[t] = "sy_lock"
    /\ LockPage(t, page[t], "sy_check")
    /\ UNCHANGED <<index, lru, dirtyList, current, maxPages, freedErase, disk, size, imutex, op, page, rpage, ret, todo, result, nops, written, devReads>>

\* Mutant of SyCheck: the skip path continues without page->unlock().
SyCheckNoUnlock(t) ==
    /\ pc[t] = "sy_check"
    /\ IF pages[page[t]].st # "DIRTY" THEN SyncNext(t, todo[t])
       ELSE Goto(t, "sy_wb") /\ UNCHANGED <<page, todo>>
    /\ UNCHANGED <<cacheVars, size, imutex, op, rpage, ret, result, nops, written, devReads>>

\* if (page->get_state() != PageState::DIRTY) { page->unlock(); continue; }
SyCheck(t) ==
    /\ pc[t] = "sy_check"
    /\ Goto(t, IF pages[page[t]].st # "DIRTY" THEN "sy_unlock" ELSE "sy_wb")
    /\ UNCHANGED <<cacheVars, size, imutex, op, page, rpage, ret, todo, result, nops, written, devReads>>

\* set_state(WRITEBACK) and the device write of the page's bytes.
SyWb(t) ==
    /\ pc[t] = "sy_wb"
    /\ LET p == page[t] IN
         /\ pages' = [pages EXCEPT ![p].st = "WRITEBACK"]
         /\ disk' = [disk EXCEPT ![pages[p].key[2]] = pages[p].data]
    /\ Goto(t, "sy_clear")
    /\ UNCHANGED <<index, lru, dirtyList, current, maxPages, freedErase, size, imutex, op, page, rpage, ret, todo, result, nops, written, devReads>>

SyClear(t) ==
    /\ pc[t] = "sy_clear"
    /\ SetCache(ClearDirty(Cache, page[t]))
    /\ Goto(t, "sy_unlock")
    /\ UNCHANGED <<size, imutex, op, page, rpage, ret, todo, result, nops, written, devReads>>

SyUnlock(t) ==
    /\ pc[t] = "sy_unlock"
    /\ pages' = [pages EXCEPT ![page[t]].st = Unlock(@)]
    /\ SyncNext(t, todo[t])
    /\ UNCHANGED <<index, lru, dirtyList, current, maxPages, freedErase, disk, size, imutex, op, rpage, ret, result, nops, written, devReads>>

-----------------------------------------------------------------------------
(* The rest of the public interface of PageCache, called by a client that  *)
(* holds no inode mutex: find_page, write_page (after the demo's           *)
(* find_or_create_page and memcpy, before its put), set_max_pages,         *)
(* flush_all (sync_pages of every inode, the sy_ steps) and clear.         *)

\* write_page: mark_dirty (the wr_dirty step), then update_lru under the mutex.
WpLru(t) ==
    /\ pc[t] = "wp_lru"
    /\ CacheMutexFree
    /\ SetCache(UpdateLru(Cache, page[t]))
    /\ Goto(t, "wr_put")
    /\ UNCHANGED <<size, imutex, op, page, rpage, ret, todo, result, nops, written, devReads>>

\* find_page: under the mutex, a hit moves the page to the LRU head; the
\* page is returned without a reference and a miss returns nullptr.
FindPage(c, k) == IF c.idx[k] # NoPage THEN UpdateLru(c, c.idx[k]) ELSE c

PrFind(t) ==
    /\ pc[t] = "pr_find"
    /\ CacheMutexFree
    /\ SetCache(FindPage(Cache, KeyOf(t)))
    /\ Goto(t, "idle")
    /\ UNCHANGED <<size, imutex, op, page, rpage, ret, todo, result, nops, written, devReads>>

(* set_max_pages: store the limit, then evict current_pages_ - max_pages_  *)
(* pages when current_pages_ is the larger (a wrapped count is the larger, *)
(* and asks for more pages than the list holds).                           *)
\* Mutant of SetMaxPages: the stored limit is one past the argument.
SetMaxPagesPastArg(c, n) ==
    LET c1 == [c EXCEPT !.max = n + 1]
    IN  IF c.cur < 0 THEN EvictLoop(c1, Len(c.lru) + 1, Len(c.lru))
        ELSE IF c.cur > n THEN EvictLoop(c1, c.cur - n, Len(c.lru))
        ELSE c1

SetMaxPages(c, n) ==
    LET c1 == [c EXCEPT !.max = n]
    IN  IF c.cur < 0 THEN EvictLoop(c1, Len(c.lru) + 1, Len(c.lru))
        ELSE IF c.cur > n THEN EvictLoop(c1, c.cur - n, Len(c.lru))
        ELSE c1

SmSet(t) ==
    /\ pc[t] = "sm_set"
    /\ CacheMutexFree
    /\ LET c == SetMaxPages(Cache, op[t].max) IN
         IF c.stuck
         THEN Goto(t, "evict_spin") /\ UNCHANGED cacheVars
         ELSE SetCache(c) /\ Goto(t, "idle")
    /\ UNCHANGED <<size, imutex, op, page, rpage, ret, todo, result, nops, written, devReads>>

\* clear: empty pages_, the LRU and the dirty list, and zero current_pages_.
\* Pages callers still hold keep in_lru_ set and a lru_iter_ into the freed
\* list.
Clear(c) == [c EXCEPT !.idx = [k \in Keys |-> NoPage], !.lru = <<>>,
                      !.dl = <<>>, !.cur = 0]

ClClear(t) ==
    /\ pc[t] = "cl_clear"
    /\ CacheMutexFree
    /\ SetCache(Clear(Cache))
    /\ Goto(t, "idle")
    /\ UNCHANGED <<size, imutex, op, page, rpage, ret, todo, result, nops, written, devReads>>

\* The loop of a livelocked evict_pages: it keeps running, changing nothing.
EvictSpin(t) ==
    /\ pc[t] = "evict_spin"
    /\ UNCHANGED vars

-----------------------------------------------------------------------------
Step(t) ==
    \/ Start(t) \/ Release(t) \/ EvictSpin(t)
    \/ RpFind(t) \/ RpCheck(t) \/ RpLock(t) \/ RpRecheck(t) \/ RpIo(t)
    \/ RpSet(t) \/ RpUnlock(t) \/ DpPut(t)
    \/ RdEOF(t) \/ RdEnter(t) \/ RdCopy(t) \/ RdExit(t)
    \/ WrEnter(t) \/ WrFind(t) \/ WrCheck(t) \/ WrCopy(t) \/ WrDirty(t)
    \/ WrPut(t) \/ WrExit(t)
    \/ TrEnter(t)
    \/ SySnap(t) \/ SyLock(t) \/ SyCheck(t) \/ SyWb(t) \/ SyClear(t) \/ SyUnlock(t)
    \/ WpLru(t) \/ PrFind(t) \/ SmSet(t) \/ ClClear(t)

\* Every caller operation of the bounded run has returned.
Terminated ==
    /\ nops = MaxOps
    /\ \A t \in Threads : pc[t] = "idle"
    /\ UNCHANGED vars

Next == (\E t \in Threads : Step(t)) \/ Terminated

(* Threads are OS threads: each that can run eventually does (weak        *)
(* fairness).  A thread waiting for a page lock or an inode mutex is       *)
(* woken by notify_all / the mutex release each time it is freed and       *)
(* retries; that it eventually wins is strong fairness on those steps.     *)
Fairness ==
    \A t \in Threads :
        /\ WF_vars(Step(t) /\ pc[t] # "idle")
        /\ SF_vars(RpLock(t)) /\ SF_vars(SyLock(t))
        /\ SF_vars(RdEnter(t) \/ RdEOF(t)) /\ SF_vars(WrEnter(t)) /\ SF_vars(TrEnter(t))

Spec == Init /\ [][Next]_vars /\ Fairness

-----------------------------------------------------------------------------
(* Properties.                                                              *)

TypeOK ==
    /\ index \in [Keys -> PageIds \cup {NoPage}]
    /\ lru \in Seq(PageIds) /\ dirtyList \in Seq(PageIds)
    /\ DOMAIN pages \subseteq PageIds /\ \A p \in DOMAIN pages : pages[p] \in PageRec
    /\ current \in Int /\ maxPages \in SetMaxArgs /\ freedErase \in BOOLEAN
    /\ disk \in [Offsets -> Data]
    /\ size \in [Inodes -> 0 .. NumOffsets]
    /\ imutex \in [Inodes -> Threads \cup {NoThread}]
    /\ pc \in [Threads -> Labels]
    /\ page \in [Threads -> PageIds \cup {NoPage}]
    /\ rpage \in [Threads -> PageIds \cup {NoPage}]
    /\ todo \in [Threads -> Seq(PageIds)]
    /\ result \in [Threads -> Data] /\ nops \in 0 .. MaxOps
    /\ written \in [Keys -> Data] /\ devReads \in [PageIds -> Nat]

\* Threads inside a region between Page::lock and Page::unlock of p.
LockHolder(t, p) ==
    \/ pc[t] \in {"rp_recheck", "rp_io", "rp_set", "rp_unlock"} /\ rpage[t] = p
    \/ pc[t] \in {"sy_check", "sy_wb", "sy_clear", "sy_unlock"} /\ page[t] = p

\* Threads inside sync_pages' writeback of p (set_state(WRITEBACK) .. unlock).
WritebackHolder(t, p) == pc[t] \in {"sy_clear", "sy_unlock"} /\ page[t] = p

(* Page::lock and Page::unlock, with read_page and sync_pages: a page is   *)
(* LOCKED only while some thread is between its lock() and its unlock(),   *)
(* so a waiter in lock() is never left waiting on a lock nobody holds.    *)
NoOrphanLock ==
    \A p \in DOMAIN pages :
        pages[p].st = "LOCKED" => \E t \in Threads : LockHolder(t, p)

(* find_or_create_page, evict_pages, update_lru, remove_from_lru,         *)
(* release_page and invalidate_pages: every page pages_ maps a key to is   *)
(* in lru_list_, so it stays reachable by eviction, and any page, cached   *)
(* or only held by a caller, has in_lru_ set exactly when it is on the     *)
(* list, so every erase of its lru_iter_ is an erase of a live node,       *)
(* whatever interleaving of hits, misses, rotations and releases ran.      *)
IndexInLru ==
    /\ \A k \in Keys : index[k] # NoPage => Contains(lru, index[k])
    /\ \A p \in DOMAIN pages : pages[p].inLru <=> Contains(lru, p)

(* mark_dirty, clear_dirty, release_page, evict_pages, invalidate_pages:   *)
(* a cached page in state DIRTY is on dirty_list_, so sync_pages, which    *)
(* only looks there, can find it.                                          *)
DirtyListed ==
    \A k \in Keys :
        index[k] # NoPage /\ pages[index[k]].st = "DIRTY" => Contains(dirtyList, index[k])

(* Inode::read after Inode::write: a read returns the bytes of the last    *)
(* completed write of that page (spec S1), or zeros past a truncation.     *)
ReadSeesWrite ==
    \A t \in Threads : pc[t] = "rd_exit" => result[t] = written[KeyOf(t)]

(* read_page's double-checked is_uptodate: a Page object is filled from   *)
(* the device at most once, however many threads miss on it together      *)
(* (spec S5).                                                              *)
PageReadOnce == \A p \in PageIds : devReads[p] <= 1

(* read_page of a page that holds unwritten bytes: the device read never   *)
(* overwrites a page that is waiting on dirty_list_ for writeback.         *)
NoClobber ==
    \A t \in Threads : pc[t] = "rp_io" => ~Contains(dirtyList, rpage[t])

(* sync_pages: each page it took from dirty_list_ has its bytes on the     *)
(* device when the page is unlocked (spec section 5: a dirty page is       *)
(* written back).                                                          *)
SyncFlushes ==
    \A t \in Threads :
        pc[t] = "sy_unlock" => disk[pages[page[t]].key[2]] = pages[page[t]].data

(* sync_pages' WRITEBACK state ends with its writeback: no page stays in   *)
(* WRITEBACK once the syncing thread has unlocked it, or mark_dirty would  *)
(* refuse the page for ever.                                               *)
NoOrphanWriteback ==
    \A p \in DOMAIN pages :
        pages[p].st = "WRITEBACK" => \E t \in Threads : WritebackHolder(t, p)

(* evict_pages under find_or_create_page: the victim scan ends, so the     *)
(* cache mutex is released and other callers of the cache can proceed.     *)
EvictTerminates == \A t \in Threads : pc[t] # "evict_spin"

(* allocate_page, evict_pages, release_page, invalidate_pages:            *)
(* current_pages_ counts the pages in pages_, which max_pages_ bounds.     *)
PageCountAccurate == current = Cardinality({k \in Keys : index[k] # NoPage})

(* clear() racing a caller that holds a page: no remove_from_lru or        *)
(* update_lru ever erases an lru_iter_ whose node clear() has freed.       *)
NoFreedLruErase == ~freedErase

(* spec.md 2 and 8.5: a page an in-flight writer holds is pinned, so       *)
(* evict_pages (or any step of another thread) never takes it out of       *)
(* pages_ between Inode::write's find_or_create_page and its put.          *)
EvictSparesHeld ==
    [][\A t \in Threads :
         LET p == page[t] IN
         (/\ pc[t] \in {"wr_check", "wr_copy", "wr_dirty", "wr_put"}
          /\ pc'[t] = pc[t]
          /\ index[pages[p].key] = p) => index'[pages[p].key] = p]_vars

(* Page::lock: every thread that waits for a page lock eventually gets     *)
(* it, in read_page and in sync_pages alike.                               *)
LockWaitEnds ==
    \A t \in Threads : pc[t] \in {"rp_lock", "sy_lock"} ~> pc[t] \notin {"rp_lock", "sy_lock"}

=============================================================================
