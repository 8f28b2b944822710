---------------------------- MODULE MC_BlockQueue ----------------------------
EXTENDS BlockQueue
====
