\* One thread: Inode::write of a page, then Inode::read of it.
CONSTANTS
    Threads = {t1}
    Inodes = {i1}
    NumOffsets = 1
    MaxPages = 2
    MaxOps = 2
    OpKinds = {"write", "read"}
    NoPage = NoPage
    NoThread = NoThread
SPECIFICATION Spec
INVARIANT ReadSeesWrite
