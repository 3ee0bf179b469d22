-------------------------- MODULE MCNodeLifecycle --------------------------
(* Model checking of NodeLifecycle: the symmetry of its safety run.        *)
EXTENDS NodeLifecycle, TLC

\* LDK instances, clients and seeds are interchangeable
Symmetry ==
    Permutations(Instances) \cup Permutations(Operators) \cup Permutations(Seeds)
=============================================================================
