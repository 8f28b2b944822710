\* The demo's dirtying pattern racing sync_pages of the same inode.
CONSTANTS
    Threads = {t1, t2}
    Inodes = {i1}
    NumOffsets = 1
    MaxPages = 2
    MaxOps = 2
    OpKinds = {"dirtypage", "sync"}
    NoPage = NoPage
    NoThread = NoThread
SPECIFICATION Spec
INVARIANT SyncFlushes
