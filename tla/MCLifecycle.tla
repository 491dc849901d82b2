---------------------------- MODULE MCLifecycle ----------------------------
EXTENDS Lifecycle, TLC

\* The calls of cleanupWithContext are interchangeable.
Symmetry == Permutations(Stops)
=============================================================================
