---------------------------------- MODULE Any ---------------------------------
(***************************************************************************)
(* The class any (src/app/atp_any.hpp) with its holders on a heap.  Every  *)
(* operation builds on construction, clone, swap and the destructor of a   *)
(* temporary, as in the code; values are pairs of a type and a number.     *)
(***************************************************************************)
EXTENDS Integers, FiniteSets

CONSTANTS
  Vars,       \* variables of type any
  AnyValues,  \* values to store: <<type, number>>
  Cells       \* heap cells: natural numbers above 0

VARIABLES
  content,  \* variable -> cell of its holder, 0 when empty
  holders,  \* cells in use -> the value held
  cast      \* history: the last any_cast: variable, type asked for, result
dyn == <<content, holders, cast>>

NoCast == [x |-> 0, type |-> "void", r |-> <<>>, of |-> <<>>]
AnyInit == content = [x \in Vars |-> 0] /\ holders = [c \in {} |-> 0] /\ cast = NoCast

\* operator new does not fail: however the cells are used, one is free.
ASSUME HeapIsLarge ==
  /\ 0 \notin Cells
  /\ \A f \in [Vars -> Cells \cup {0}] : \E c \in Cells : \A x \in Vars : f[x] # c

Fresh == CHOOSE c \in Cells : c \notin DOMAIN holders
Held(c) == IF c \in DOMAIN holders THEN <<holders[c]>> ELSE <<>>

\* States of heap and variables: h is the heap, c the contents, tmp a temporary's.
\* new holder(v); clone of a holder.
New(h, v) == [c \in DOMAIN h \cup {Fresh} |-> IF c = Fresh THEN v ELSE h[c]]
\* ~any: the holder is deleted.
Destroy(h, c) == [d \in DOMAIN h \ {c} |-> h[d]]

\* any(value).swap(*this), and the temporary takes the old holder with it.
PutValue(x, v) ==
  /\ holders' = Destroy(New(holders, v), content[x])
  /\ content' = [content EXCEPT ![x] = Fresh] /\ cast' = NoCast

CopyAssign_Shares(x, y) ==
  /\ holders' = IF content[x] = content[y] THEN holders ELSE Destroy(holders, content[x])
  /\ content' = [content EXCEPT ![x] = content[y]] /\ cast' = NoCast
\* any(rhs).swap(*this): a clone, or nothing.
CopyAssign(x, y) ==
  /\ IF content[y] = 0
     THEN holders' = Destroy(holders, content[x]) /\ content' = [content EXCEPT ![x] = 0]
     ELSE holders' = Destroy(New(holders, holders[content[y]]), content[x]) /\ content' = [content EXCEPT ![x] = Fresh]
  /\ cast' = NoCast

\* rhs.swap(*this), then any().swap(rhs): what *this held goes with the temporary.
MoveAssign(x, y) ==
  LET swapped == [content EXCEPT ![x] = content[y], ![y] = content[x]] IN
  /\ holders' = Destroy(holders, swapped[y])
  /\ content' = [swapped EXCEPT ![y] = 0] /\ cast' = NoCast

swap(x, y) ==
  /\ content' = [content EXCEPT ![x] = content[y], ![y] = content[x]] /\ cast' = NoCast
  /\ UNCHANGED holders

\* any().swap(*this); the same for a variable that is destroyed and made again empty.
clear(x) == holders' = Destroy(holders, content[x]) /\ content' = [content EXCEPT ![x] = 0] /\ cast' = NoCast

type(x) == IF content[x] = 0 THEN "void" ELSE holders[content[x]][1]

\* any_cast<_Ty>: the value, or bad_cast (<<>>).
any_cast(x, ty) == IF type(x) = ty THEN Held(content[x]) ELSE <<>>
AnyCast(x, ty) ==
  /\ cast' = [x |-> x, type |-> ty, r |-> any_cast(x, ty), of |-> Held(content[x])]
  /\ UNCHANGED <<content, holders>>

Types == {v[1] : v \in AnyValues}
AnyNext ==
  \E x \in Vars :
    \/ clear(x) \/ \E v \in AnyValues : PutValue(x, v)
    \/ \E y \in Vars : CopyAssign(x, y) \/ MoveAssign(x, y) \/ swap(x, y)
    \/ \E ty \in Types : AnyCast(x, ty)
AnySpec == AnyInit /\ [][AnyNext]_dyn

-----------------------------------------------------------------------------
(* Properties.                                                             *)

\* The variables behave like values of their own: copies do not share, a moved one is
\* empty, also after a move or a copy to itself.
AV == INSTANCE AnyValue WITH val <- [x \in Vars |-> Held(content[x])]
ImplementsValue == AV!Spec

\* Every holder on the heap belongs to exactly one variable: none is lost, none is
\* deleted twice, whatever is assigned, moved, swapped and cleared.
OneOwner ==
  \A c \in DOMAIN holders \cup {content[x] : x \in Vars} :
    c # 0 => /\ c \in DOMAIN holders
             /\ \E x \in Vars : content[x] = c /\ \A y \in Vars : content[y] = c => y = x

\* any_cast gives the value exactly when the type asked for is the type of the value.
CastIsChecked ==
  cast.x # 0 => IF cast.r = <<>> THEN cast.of = <<>> \/ cast.of[1][1] # cast.type
                ELSE cast.r = cast.of /\ cast.r[1][1] = cast.type

\* any: the variables implement plain values, every holder has one owner, and any_cast
\* gives a value for its own type only.
AnyIsValue == ImplementsValue /\ [](OneOwner /\ CastIsChecked)
=============================================================================
