\* Inode::write filling page 0 of a one-page cache while a bare read_page
\* of page 1 misses and evicts.
CONSTANTS
    Threads = {t1, t2}
    Inodes = {i1}
    NumOffsets = 2
    MaxPages = 1
    MaxOps = 2
    OpKinds = {"write", "readpage"}
    NoPage = NoPage
    NoThread = NoThread
SPECIFICATION Spec
PROPERTY EvictSparesHeld
