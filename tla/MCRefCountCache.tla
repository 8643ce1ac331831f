--------------------------- MODULE MCRefCountCache ---------------------------
(* Instances of RefCountCache for TLC.                                     *)
EXTENDS RefCountCache, TLC

(* Callers and ids of entries are interchangeable.                         *)
Symmetry == Permutations(Procs) \cup Permutations(Entries)
=============================================================================
