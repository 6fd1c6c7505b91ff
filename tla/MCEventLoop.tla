----------------------------- MODULE MCEventLoop -----------------------------
(* EventLoop for TLC: threads and tasks are model values given in the cfgs. *)
EXTENDS EventLoop, TLC

Symmetry == Permutations(Others \ {Creator}) \cup Permutations(Tasks)
=============================================================================
