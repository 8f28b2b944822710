\* Two threads share a two-slot fd table, two Files at most, five calls in
\* all; positions are 3-bit u64s over a four-page device.
CONSTANTS
    Threads = {t1, t2}
    NumFds = 2
    MaxFiles = 2
    MaxCalls = 5
    Width = 3
    DevSize = 4
    BadFd <- MC_BadFd
    SeekOffsets <- MC_SeekOffsets
    Lengths <- MC_Lengths
    NoFile = NoFile
    NoOwner = NoOwner
SPECIFICATION Spec
INVARIANTS TypeOK OffsetsDisjoint
PROPERTY FileAtomic
