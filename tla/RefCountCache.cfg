\* Three callers of a cache, in turns or at the granularity of its locks.
SPECIFICATION Spec
CONSTANTS
  Procs = {p1, p2, p3}
  Keys = {k1}
  Entries = {e1, e2, e3, e4}
  NoEntry = NoEntry
  NoKey = NoKey
  MaxHeld = 2
  DisableDeletion = FALSE
INVARIANTS HeldIsCached NoZombie
 
SYMMETRY Symmetry
CHECK_DEADLOCK FALSE
