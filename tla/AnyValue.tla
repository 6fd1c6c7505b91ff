------------------------------- MODULE AnyValue -------------------------------
(* What the class any promises: variables with values of their own.         *)
CONSTANTS Vars, AnyValues
VARIABLE val   \* variable -> <<>>, when empty, or <<value>>

Init == val = [x \in Vars |-> <<>>]
Put(x, v) == val' = [val EXCEPT ![x] = <<v>>]
Copy(x, y) == val' = [val EXCEPT ![x] = val[y]]
\* A moved variable is empty, also when it is moved to itself.
Move(x, y) == val' = [val EXCEPT ![x] = val[y], ![y] = <<>>]
Swap(x, y) == val' = [val EXCEPT ![x] = val[y], ![y] = val[x]]
Clear(x) == val' = [val EXCEPT ![x] = <<>>]

Next ==
  \E x \in Vars :
    \/ Clear(x) \/ \E v \in AnyValues : Put(x, v)
    \/ \E y \in Vars : Copy(x, y) \/ Move(x, y) \/ Swap(x, y)
Spec == Init /\ [][Next]_val
=============================================================================
