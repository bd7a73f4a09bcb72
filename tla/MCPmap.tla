------------------------------ MODULE MCPmap ------------------------------
EXTENDS Pmap, TLC

\* The pages are interchangeable.
Symmetry == Permutations(Pages)
=============================================================================
