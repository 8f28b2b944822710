---------------------------- MODULE MC_PageCache ----------------------------
EXTENDS PageCache, TLC

(* Caller threads are interchangeable: every thread runs the same          *)
(* operations and no code path looks at which thread it is.  Used only by  *)
(* the safety run, whose properties are invariants.                        *)
ThreadSymmetry == Permutations(Threads)
=============================================================================
