------------------------------- MODULE MCSaga -------------------------------
EXTENDS SagaProperties, TLC
Symmetry == Permutations(Orders) \cup Permutations(Replicas)
=============================================================================
