---------------------------- MODULE MC_DirLocks ----------------------------
EXTENDS DirLocks, TLC

CONSTANTS d1, d2, d3

\* Three directories of one file system: distinct inode numbers.
MCIno == (d1 :> 11 @@ d2 :> 12 @@ d3 :> 13)
====
