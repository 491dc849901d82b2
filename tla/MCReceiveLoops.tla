--------------------------- MODULE MCReceiveLoops ---------------------------
EXTENDS ReceiveLoops, TLC

\* Calls of the same kind are interchangeable
\* (safety runs only: symmetry is not sound for liveness).
Symmetry ==
  Permutations(PlainCalls) \cup Permutations(RegexCalls) \cup Permutations(Cleaners)
=============================================================================
