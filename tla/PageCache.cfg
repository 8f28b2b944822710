\* Three threads racing over two pages of one inode in a one-page cache,
\* every caller operation enabled (a third thread lets a mark_dirty land
\* between sync_pages' lock and its check).
CONSTANTS
    Threads = {t1, t2, t3}
    Inodes = {i1}
    NumOffsets = 2
    MaxPages = 1
    MaxOps = 3
    OpKinds = {"read", "write", "truncate", "sync", "readpage", "dirtypage"}
    NoPage = NoPage
    NoThread = NoThread
SPECIFICATION Spec
INVARIANTS TypeOK NoOrphanLock IndexInLru DirtyListed
SYMMETRY ThreadSymmetry
