\* Lock waiters and the rest of the cache's interface: two threads, two
\* pages, the callers that take page locks (read_page, sync_pages), the
\* demo's dirtying pattern that races them, and a client calling
\* find_page, write_page, set_max_pages, flush_all and clear.
CONSTANTS
    Threads = {t1, t2}
    Inodes = {i1}
    NumOffsets = 2
    MaxPages = 1
    MaxOps = 2
    OpKinds = {"readpage", "dirtypage", "sync", "probe", "writepage", "setmax", "flush", "clear"}
    NoPage = NoPage
    NoThread = NoThread
SPECIFICATION Spec
INVARIANT DirtyListed
PROPERTIES LockWaitEnds
