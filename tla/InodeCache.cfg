\* Two threads getting, dropping and evicting two inode numbers.
CONSTANTS
    Threads = {t1, t2}
    Inos = {n1, n2}
    MaxOps = 3
    NoThread = NoThread
    NoInode = NoInode
SPECIFICATION Spec
INVARIANT NoSelfRelock
