----------------------------- MODULE ByteQueue ------------------------------
(***************************************************************************)
(* What a ByteBuffer promises its users: a queue of bytes.  Bytes are put  *)
(* at the back, a header may be put in front, and what is taken is what    *)
(* stands in front.  io is the interface: the last call and its bytes.     *)
(***************************************************************************)
EXTENDS Integers, Sequences

VARIABLES q, io

Init == q = <<>> /\ io = [kind |-> "none", bytes |-> <<>>]

Put   == io'.kind = "put" /\ q' = q \o io'.bytes
Push  == io'.kind = "push" /\ q' = io'.bytes \o q
Take  == io'.kind = "take" /\ q = io'.bytes \o q'
Other == io'.kind = "none" /\ q' = q

\* The calls a user must avoid: a part is stored, or the bytes may be altered.
Cut    == io'.kind = "cut" /\ \E n \in 0..Len(io'.bytes) - 1 : q' = q \o SubSeq(io'.bytes, 1, n)
Excess == io'.kind \in {"excess", "overrun"} /\ Len(q') = Len(q)

Next == Put \/ Push \/ Take \/ Other \/ Cut \/ Excess

Spec == Init /\ [][Next]_<<q, io>>
=============================================================================
