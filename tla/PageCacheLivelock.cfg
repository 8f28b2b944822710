\* Two threads dirty pages of a one-page cache with the demo's pattern.
CONSTANTS
    Threads = {t1, t2}
    Inodes = {i1}
    NumOffsets = 2
    MaxPages = 1
    MaxOps = 3
    OpKinds = {"dirtypage"}
    NoPage = NoPage
    NoThread = NoThread
SPECIFICATION Spec
INVARIANT EvictTerminates
