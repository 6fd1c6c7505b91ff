------------------------ MODULE MCDynamicThreadPool ------------------------
(* DynamicThreadPool for TLC: workers and tasks are model values.           *)
EXTENDS DynamicThreadPool, TLC

Symmetry == Permutations(Workers) \cup Permutations(Tasks)
=============================================================================
