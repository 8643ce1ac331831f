------------------------- MODULE MCSessionWatches -------------------------
EXTENDS SessionWatches, TLC

\* The globs are interchangeable.
GlobSymmetry == Permutations(Globs)
=============================================================================
