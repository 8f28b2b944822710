\* A dirtying thread racing a read_page of the same page.
CONSTANTS
    Threads = {t1, t2}
    Inodes = {i1}
    NumOffsets = 1
    MaxPages = 2
    MaxOps = 2
    OpKinds = {"dirtypage", "readpage"}
    NoPage = NoPage
    NoThread = NoThread
SPECIFICATION Spec
INVARIANT NoClobber
