---------------------------- MODULE MC_FileLayer ----------------------------
EXTENDS FileLayer, TLC

\* Negative off_t arguments and descriptors, which a .cfg cannot write.
MC_BadFd == -1
MC_SeekOffsets == {-1, 1}
MC_Lengths == {-1, 1}
====
