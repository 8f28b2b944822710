----------------------------- MODULE InodeCache -----------------------------
(***************************************************************************)
(* SuperBlock's inode cache (src/unnamed/part_000): get_inode,            *)
(* cache_inode and evict_inode over inode_cache_, a map from inode number *)
(* to WeakPtr<Inode>, under inode_cache_mutex_, a non-recursive           *)
(* std::mutex.  Callers hold the SharedPtr<Inode> they got and drop it     *)
(* later; an entry whose Inode has no SharedPtr left has expired.  A      *)
(* superblock made by Ext4FileSystem::mount has ops_ set, and its          *)
(* read_inode always returns a fresh Inode.                                *)
(***************************************************************************)
EXTENDS Integers, FiniteSets

CONSTANTS
    Threads,    \* caller threads
    Inos,       \* inode numbers
    MaxOps,     \* bound: operations started over a behaviour
    NoThread,   \* model value: inode_cache_mutex_ is free
    NoInode     \* model value: no entry / no SharedPtr in hand

Objs == 1 .. MaxOps   \* Inode objects read_inode may create

VARIABLES
    cache,      \* inode_cache_: ino -> Inode object (weak)
    refs,       \* strong references to each Inode object
    made,       \* Inode objects created so far
    owner,      \* inode_cache_mutex_ owner
    pc,         \* per-thread program counter
    ino,        \* the inode number the thread asked for
    got,        \* the SharedPtr<Inode> the thread holds
    nops        \* operations started so far

vars == <<cache, refs, made, owner, pc, ino, got, nops>>

Init ==
    /\ cache = [i \in Inos |-> NoInode]
    /\ refs = [o \in Objs |-> 0]
    /\ made = 0
    /\ owner = NoThread
    /\ pc = [t \in Threads |-> "idle"]
    /\ ino = [t \in Threads |-> CHOOSE i \in Inos : TRUE]
    /\ got = [t \in Threads |-> NoInode]
    /\ nops = 0

Goto(t, l) == pc' = [pc EXCEPT ![t] = l]

\* A thread without an inode in hand calls get_inode or evict_inode.
Start(t) ==
    /\ pc[t] = "idle" /\ got[t] = NoInode
    /\ nops < MaxOps
    /\ \E i \in Inos, f \in {"gi_lock", "ev_lock"} :
         ino' = [ino EXCEPT ![t] = i] /\ Goto(t, f)
    /\ nops' = nops + 1
    /\ UNCHANGED <<cache, refs, made, owner, got>>

\* The caller's SharedPtr<Inode> goes out of scope.
DropInode(t) ==
    /\ pc[t] = "idle" /\ got[t] # NoInode
    /\ refs' = [refs EXCEPT ![got[t]] = @ - 1]
    /\ got' = [got EXCEPT ![t] = NoInode]
    /\ UNCHANGED <<cache, made, owner, pc, ino, nops>>

\* std::lock_guard<std::mutex> lock(inode_cache_mutex_): wait until free.
Lock(t, next) ==
    /\ owner = NoThread
    /\ owner' = t
    /\ Goto(t, next)

GetLock(t) ==
    /\ pc[t] = "gi_lock"
    /\ Lock(t, "gi_find")
    /\ UNCHANGED <<cache, refs, made, ino, got, nops>>

(* get_inode under the mutex: a live cached Inode is returned (the lock    *)
(* goes with the return); an expired entry is erased; on a miss            *)
(* ops_->read_inode makes a new Inode, which cache_inode then caches.      *)
GetFind(t) ==
    LET e == cache[ino[t]] IN
    /\ pc[t] = "gi_find"
    /\ IF e # NoInode /\ refs[e] > 0
       THEN /\ refs' = [refs EXCEPT ![e] = @ + 1]
            /\ got' = [got EXCEPT ![t] = e]
            /\ owner' = NoThread
            /\ Goto(t, "idle")
            /\ UNCHANGED <<cache, made>>
       ELSE /\ cache' = [cache EXCEPT ![ino[t]] = NoInode]
            /\ made' = made + 1
            /\ refs' = [refs EXCEPT ![made + 1] = 1]
            /\ got' = [got EXCEPT ![t] = made + 1]
            /\ Goto(t, "ci_lock")
            /\ UNCHANGED owner
    /\ UNCHANGED <<ino, nops>>

(* cache_inode, called from get_inode with inode_cache_mutex_ held: its    *)
(* own lock_guard waits until the mutex is free, then stores the entry;    *)
(* both locks go as the two functions return.                             *)
CacheInode(t) ==
    /\ pc[t] = "ci_lock"
    /\ owner = NoThread
    /\ cache' = [cache EXCEPT ![ino[t]] = got[t]]
    /\ Goto(t, "idle")
    /\ UNCHANGED <<refs, made, owner, ino, got, nops>>

EvictLock(t) ==
    /\ pc[t] = "ev_lock"
    /\ Lock(t, "ev_erase")
    /\ UNCHANGED <<cache, refs, made, ino, got, nops>>

\* evict_inode: inode_cache_.erase(ino).
EvictErase(t) ==
    /\ pc[t] = "ev_erase"
    /\ cache' = [cache EXCEPT ![ino[t]] = NoInode]
    /\ owner' = NoThread
    /\ Goto(t, "idle")
    /\ UNCHANGED <<refs, made, ino, got, nops>>

Next == \E t \in Threads :
    \/ Start(t) \/ DropInode(t) \/ GetLock(t) \/ GetFind(t) \/ CacheInode(t)
    \/ EvictLock(t) \/ EvictErase(t)

Spec == Init /\ [][Next]_vars

-----------------------------------------------------------------------------
(* get_inode and cache_inode: no thread waits for inode_cache_mutex_      *)
(* while it holds it itself (a std::mutex locked twice by its owner        *)
(* blocks for ever, and every later caller of the cache with it).          *)
NoSelfRelock == \A t \in Threads : ~(pc[t] = "ci_lock" /\ owner = t)

====
