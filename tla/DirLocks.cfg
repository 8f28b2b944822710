\* Two threads renaming between and modifying three directories, one of
\* them read-only.
CONSTANTS
    Threads = {t1, t2}
    d1 = d1
    d2 = d2
    d3 = d3
    Dirs = {d1, d2, d3}
    Ino <- MCIno
    Writable = {d1, d2}
    MaxOps = 3
    NoThread = NoThread
SPECIFICATION Spec
INVARIANT DirOpsExclusive
PROPERTY OpsReturn
