---------------------------- MODULE MC_InodeCache ----------------------------
EXTENDS InodeCache
====
