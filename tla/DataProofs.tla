----------------------------- MODULE DataProofs ------------------------------
(***************************************************************************)
(* Proofs about the data of the application layer: the class any, the RSA  *)
(* functions, Base64 and the Redis calls.                                  *)
(***************************************************************************)
EXTENDS Any, RsaCrypto, Base64, RedisDao, FiniteSetTheorems, WellFoundedInduction, TLAPS

-----------------------------------------------------------------------------
(* any: the holders.                                                       *)

\* Every holder is that of one variable, and every variable's holder exists.
Owned(con, hp) ==
  /\ con \in [Vars -> Cells \cup {0}]
  /\ \A c : c \in DOMAIN hp <=> c # 0 /\ \E x \in Vars : con[x] = c
  /\ \A x, y \in Vars : con[x] = con[y] /\ con[x] # 0 => x = y
AnyInv == Owned(content, holders)

\* What a variable holds in a given heap.
HeldIn(hp, c) == IF c \in DOMAIN hp THEN <<hp[c]>> ELSE <<>>

LEMMA FreshIsNew ==
  ASSUME AnyInv
  PROVE  Fresh \in Cells /\ Fresh \notin DOMAIN holders /\ Fresh # 0 /\ \A x \in Vars : content[x] # Fresh
<1>1. \E c \in Cells : c \notin DOMAIN holders
  BY Zenon, HeapIsLarge DEF AnyInv, Owned
<1>2. Fresh \in Cells /\ Fresh \notin DOMAIN holders
  BY Zenon, <1>1 DEF Fresh
<1> QED
  BY Zenon, <1>2, HeapIsLarge DEF AnyInv, Owned

\* The destructor of what x held, after x was given c2.
Replaced(con, hp, x, c2, con2, hp2) ==
  /\ con2 = [con EXCEPT ![x] = c2]
  /\ DOMAIN hp2 = ((DOMAIN hp) \cup ({c2} \ {0})) \ {con[x]}
  /\ \A c \in DOMAIN hp \ {con[x]} : hp2[c] = hp[c]

\* x has c2, and the other variables hold what they held.
Kept(con, hp, x, c2, con2, hp2) ==
  /\ Owned(con2, hp2) /\ con2[x] = c2
  /\ \A y \in Vars : y # x => HeldIn(hp2, con2[y]) = HeldIn(hp, con[y])

LEMMA ReplaceKeeps ==
  ASSUME 0 \notin Cells, NEW con, NEW hp, Owned(con, hp), NEW x \in Vars, NEW c2 \in Cells \cup {0},
         \A y \in Vars : con[y] = c2 => c2 = 0,
         NEW con2, NEW hp2, Replaced(con, hp, x, c2, con2, hp2)
  PROVE  Kept(con, hp, x, c2, con2, hp2)
<1>1. /\ con2 \in [Vars -> Cells \cup {0}] /\ con2[x] = c2
      /\ \A y \in Vars : y # x => con2[y] = con[y]
  BY Zenon DEF Owned, Replaced
<1>2. ASSUME NEW c PROVE c \in DOMAIN hp2 <=> c # 0 /\ \E y \in Vars : con2[y] = c
  <2>1. CASE c = con[x]
    BY Zenon, <1>1, <2>1 DEF Owned, Replaced
  <2>2. CASE c = c2 /\ c # con[x]
    BY Zenon, <1>1, <2>2 DEF Owned, Replaced
  <2>3. CASE c # c2 /\ c # con[x]
    <3>1. c \in DOMAIN hp2 <=> c \in DOMAIN hp
      BY Zenon, <2>3 DEF Replaced
    <3>2. \A y \in Vars : con2[y] = c <=> con[y] = c
      BY Zenon, <1>1, <2>3
    <3> QED
      BY Zenon, <3>1, <3>2 DEF Owned
  <2> QED
    BY Zenon, <2>1, <2>2, <2>3
<1>3. ASSUME NEW y \in Vars, NEW z \in Vars, con2[y] = con2[z], con2[y] # 0 PROVE y = z
  BY Zenon, <1>1, <1>3 DEF Owned
<1>4. ASSUME NEW y \in Vars, y # x PROVE HeldIn(hp2, con2[y]) = HeldIn(hp, con[y])
  <2>1. CASE con[y] = 0
    BY Zenon, <1>1, <1>2, <1>4, <2>1 DEF HeldIn, Owned
  <2>2. CASE con[y] # 0
    <3>1. con[y] \in DOMAIN hp \ {con[x]} /\ con[y] \in DOMAIN hp2
      BY Zenon, <1>4, <2>2 DEF Owned, Replaced
    <3> QED
      BY Zenon, <1>1, <1>4, <3>1 DEF HeldIn, Replaced
  <2> QED
    BY <2>1, <2>2
<1> QED
  BY Zenon, <1>1, <1>2, <1>3, <1>4 DEF Owned, Kept

\* x and y have each other's holders.
Swapped(con, hp, x, y, con2) ==
  /\ Owned(con2, hp) /\ con2[x] = con[y] /\ con2[y] = con[x]
  /\ \A z \in Vars : z # x /\ z # y => con2[z] = con[z]

LEMMA SwapKeeps ==
  ASSUME NEW con, NEW hp, Owned(con, hp), NEW x \in Vars, NEW y \in Vars,
         NEW con2, con2 = [con EXCEPT ![x] = con[y], ![y] = con[x]]
  PROVE  Swapped(con, hp, x, y, con2)
<1>1. /\ con2 \in [Vars -> Cells \cup {0}]
      /\ con2[x] = con[y] /\ con2[y] = con[x]
      /\ \A z \in Vars : z # x /\ z # y => con2[z] = con[z]
  BY Zenon DEF Owned
<1>2. ASSUME NEW c PROVE (\E z \in Vars : con2[z] = c) <=> \E z \in Vars : con[z] = c
  BY Zenon, <1>1
<1>0. \A v, w \in Vars : con[v] = con[w] /\ con[v] # 0 => v = w
  BY Zenon DEF Owned
<1>3. ASSUME NEW v \in Vars, NEW w \in Vars, con2[v] = con2[w], con2[v] # 0 PROVE v = w
  <2>1. CASE v = x
    BY Zenon, <1>0, <1>1, <1>3, <2>1
  <2>2. CASE v = y
    BY Zenon, <1>0, <1>1, <1>3, <2>2
  <2>3. CASE v # x /\ v # y
    BY Zenon, <1>0, <1>1, <1>3, <2>3
  <2> QED
    BY Zenon, <2>1, <2>2, <2>3
<1> QED
  BY Zenon, <1>1, <1>2, <1>3 DEF Owned, Swapped

-----------------------------------------------------------------------------
(* any: every operation is that of plain values.                           *)

Val == [x \in Vars |-> Held(content[x])]

LEMMA ValHeld == Val = [x \in Vars |-> HeldIn(holders, content[x])]
BY Zenon DEF Val, Held, HeldIn

LEMMA ValHeldNext == Val' = [x \in Vars |-> HeldIn(holders', content'[x])]
BY Zenon DEF Val, Held, HeldIn

\* A variable takes a new holder of v, and what it held is deleted.
LEMMA PutStep ==
  ASSUME AnyInv, NEW x \in Vars, NEW v,
         holders' = Destroy(New(holders, v), content[x]), content' = [content EXCEPT ![x] = Fresh]
  PROVE  AnyInv' /\ Val' = [Val EXCEPT ![x] = <<v>>]
<1>1. Fresh \in Cells /\ Fresh \notin DOMAIN holders /\ Fresh # 0 /\ \A y \in Vars : content[y] # Fresh
  BY Zenon, FreshIsNew
<1>2. PICK f : f = Fresh
  OBVIOUS
<1>3. holders' = [d \in (DOMAIN holders \cup {f}) \ {content[x]} |-> IF d = f THEN v ELSE holders[d]]
  BY Zenon, <1>2 DEF Destroy, New
<1>4. /\ DOMAIN holders' = (DOMAIN holders \cup {f}) \ {content[x]}
      /\ f \in DOMAIN holders' /\ holders'[f] = v
      /\ \A d \in DOMAIN holders \ {content[x]} : holders'[d] = holders[d]
  BY Zenon, <1>1, <1>2, <1>3
<1>5. Replaced(content, holders, x, f, content', holders')
  BY Zenon, <1>1, <1>2, <1>4 DEF Replaced
<1>6. /\ Owned(content', holders') /\ content'[x] = f
      /\ \A y \in Vars : y # x => HeldIn(holders', content'[y]) = HeldIn(holders, content[y])
  <2>1. 0 \notin Cells /\ f \in Cells \cup {0} /\ \A y \in Vars : content[y] = f => f = 0
    BY Zenon, <1>1, <1>2, HeapIsLarge
  <2>2. Kept(content, holders, x, f, content', holders')
    BY Zenon, <1>5, <2>1, ReplaceKeeps DEF AnyInv
  <2> QED
    BY Zenon, <2>2 DEF Kept
<1>7. HeldIn(holders', content'[x]) = <<v>>
  BY Zenon, <1>4, <1>6 DEF HeldIn
<1> QED
  BY Zenon, <1>6, <1>7, ValHeld, ValHeldNext DEF AnyInv

\* A variable becomes empty, and what it held is deleted.
LEMMA ClearStep ==
  ASSUME AnyInv, NEW x \in Vars,
         holders' = Destroy(holders, content[x]), content' = [content EXCEPT ![x] = 0]
  PROVE  AnyInv' /\ Val' = [Val EXCEPT ![x] = <<>>]
<1>1. Replaced(content, holders, x, 0, content', holders')
  BY Zenon DEF Destroy, Replaced
<1>2. /\ Owned(content', holders') /\ content'[x] = 0
      /\ \A y \in Vars : y # x => HeldIn(holders', content'[y]) = HeldIn(holders, content[y])
  <2>1. 0 \notin Cells /\ 0 \in Cells \cup {0}
    BY Zenon, HeapIsLarge
  <2>2. Kept(content, holders, x, 0, content', holders')
    BY Zenon, <1>1, <2>1, ReplaceKeeps DEF AnyInv
  <2> QED
    BY Zenon, <2>2 DEF Kept
<1>3. HeldIn(holders', content'[x]) = <<>>
  BY Zenon, <1>2 DEF HeldIn, Owned
<1> QED
  BY Zenon, <1>2, <1>3, ValHeld, ValHeldNext DEF AnyInv

LEMMA MoveStep ==
  ASSUME AnyInv, NEW x \in Vars, NEW y \in Vars, MoveAssign(x, y)
  PROVE  AnyInv' /\ Val' = [Val EXCEPT ![x] = Val[y], ![y] = <<>>]
<1>1. PICK sw : sw = [content EXCEPT ![x] = content[y], ![y] = content[x]]
  BY Zenon
<1>2. /\ Owned(sw, holders) /\ sw[x] = content[y] /\ sw[y] = content[x]
      /\ \A z \in Vars : z # x /\ z # y => sw[z] = content[z]
  <2>1. Swapped(content, holders, x, y, sw)
    BY Zenon, <1>1, SwapKeeps DEF AnyInv
  <2> QED
    BY Zenon, <2>1 DEF Swapped
<1>3. Replaced(sw, holders, y, 0, content', holders')
  BY Zenon, <1>1 DEF MoveAssign, Destroy, Replaced
<1>4. /\ Owned(content', holders') /\ content'[y] = 0
      /\ \A z \in Vars : z # y => HeldIn(holders', content'[z]) = HeldIn(holders, sw[z])
  <2>1. 0 \notin Cells /\ 0 \in Cells \cup {0}
    BY Zenon, HeapIsLarge
  <2>2. Kept(sw, holders, y, 0, content', holders')
    BY Zenon, <1>2, <1>3, <2>1, ReplaceKeeps
  <2> QED
    BY Zenon, <2>2 DEF Kept
<1>5. HeldIn(holders', content'[y]) = <<>>
  BY Zenon, <1>4 DEF HeldIn, Owned
<1>6. ASSUME NEW z \in Vars
      PROVE  HeldIn(holders', content'[z]) = IF z = y THEN <<>>
                                          ELSE IF z = x THEN HeldIn(holders, content[y]) ELSE HeldIn(holders, content[z])
  BY Zenon, <1>2, <1>4, <1>5
<1>7. Val' = [z \in Vars |-> IF z = y THEN <<>> ELSE IF z = x THEN Val[y] ELSE Val[z]]
  BY Zenon, <1>6, ValHeld, ValHeldNext
<1>8. Val' = [Val EXCEPT ![x] = Val[y], ![y] = <<>>]
  BY Zenon, <1>7 DEF Val
<1> QED
  BY Zenon, <1>4, <1>8 DEF AnyInv

LEMMA SwapStep ==
  ASSUME AnyInv, NEW x \in Vars, NEW y \in Vars, swap(x, y)
  PROVE  AnyInv' /\ Val' = [Val EXCEPT ![x] = Val[y], ![y] = Val[x]]
<1>1. /\ Owned(content', holders') /\ content'[x] = content[y] /\ content'[y] = content[x]
      /\ \A z \in Vars : z # x /\ z # y => content'[z] = content[z]
  <2>1. content' = [content EXCEPT ![x] = content[y], ![y] = content[x]] /\ holders' = holders
    BY Zenon DEF swap
  <2>2. Swapped(content, holders, x, y, content')
    BY Zenon, <2>1, SwapKeeps DEF AnyInv
  <2> QED
    BY Zenon, <2>1, <2>2 DEF Swapped
<1>2. ASSUME NEW z \in Vars
      PROVE  HeldIn(holders', content'[z]) = IF z = y THEN HeldIn(holders, content[x])
                                          ELSE IF z = x THEN HeldIn(holders, content[y]) ELSE HeldIn(holders, content[z])
  <2>1. holders' = holders
    BY Zenon DEF swap
  <2>2. content'[z] = IF z = y THEN content[x] ELSE IF z = x THEN content[y] ELSE content[z]
    BY Zenon, <1>1
  <2> QED
    BY Zenon, <2>1, <2>2
<1>3. Val' = [z \in Vars |-> IF z = y THEN Val[x] ELSE IF z = x THEN Val[y] ELSE Val[z]]
  BY Zenon, <1>2, ValHeld, ValHeldNext
<1>4. Val' = [Val EXCEPT ![x] = Val[y], ![y] = Val[x]]
  BY Zenon, <1>3 DEF Val
<1> QED
  BY Zenon, <1>1, <1>4 DEF AnyInv

LEMMA CopyStep ==
  ASSUME AnyInv, NEW x \in Vars, NEW y \in Vars, CopyAssign(x, y)
  PROVE  AnyInv' /\ Val' = [Val EXCEPT ![x] = Val[y]]
<1>1. CASE content[y] = 0
  <2>1. Val[y] = <<>>
    BY Zenon, <1>1 DEF Val, Held, AnyInv, Owned
  <2> QED
    BY Zenon, <1>1, <2>1, ClearStep DEF CopyAssign
<1>2. CASE content[y] # 0
  <2>1. Val[y] = <<holders[content[y]]>>
    BY Zenon, <1>2 DEF Val, Held, AnyInv, Owned
  <2> QED
    BY Zenon, <1>2, <2>1, PutStep DEF CopyAssign
<1> QED
  BY <1>1, <1>2

LEMMA AnyStep ==
  ASSUME AnyInv, [AnyNext]_dyn
  PROVE  AnyInv' /\ [AV!Next]_Val
<1>1. CASE UNCHANGED dyn
  BY Zenon, <1>1 DEF dyn, AnyInv, Val, Held
<1>2. ASSUME NEW x \in Vars, NEW y \in Vars, CopyAssign(x, y) \/ MoveAssign(x, y) \/ swap(x, y)
      PROVE  AnyInv' /\ AV!Next
  <2>1. CASE CopyAssign(x, y)
    BY Zenon, <2>1, CopyStep DEF AV!Next, AV!Copy, Val
  <2>2. CASE MoveAssign(x, y)
    BY Zenon, <2>2, MoveStep DEF AV!Next, AV!Move, Val
  <2>3. CASE swap(x, y)
    BY Zenon, <2>3, SwapStep DEF AV!Next, AV!Swap, Val
  <2> QED
    BY Zenon, <1>2, <2>1, <2>2, <2>3
<1>3. ASSUME NEW x \in Vars, NEW v \in AnyValues, PutValue(x, v) PROVE AnyInv' /\ AV!Next
  BY Zenon, <1>3, PutStep DEF PutValue, AV!Next, AV!Put, Val
<1>4. ASSUME NEW x \in Vars, clear(x) PROVE AnyInv' /\ AV!Next
  BY Zenon, <1>4, ClearStep DEF clear, AV!Next, AV!Clear, Val
<1>5. ASSUME NEW x \in Vars, NEW ty \in Types, AnyCast(x, ty) PROVE AnyInv' /\ Val' = Val
  BY Zenon, <1>5 DEF AnyCast, AnyInv, Val, Held
<1> QED
  BY Zenon, <1>1, <1>2, <1>3, <1>4, <1>5 DEF AnyNext

LEMMA AnyInitInv == AnyInit => AnyInv /\ AV!Init
<1> SUFFICES ASSUME AnyInit PROVE AnyInv /\ AV!Init
  OBVIOUS
<1>1. DOMAIN holders = {}
  BY Zenon DEF AnyInit
<1> QED
  BY Zenon, <1>1 DEF AnyInit, AnyInv, Owned, AV!Init, Held

\* any_cast gives a value only for the type of the holder.
LEMMA CastStep ==
  ASSUME AnyInv, CastIsChecked, [AnyNext]_dyn
  PROVE  CastIsChecked'
<1>1. CASE cast' = cast
  BY Zenon, <1>1 DEF CastIsChecked
<1>2. CASE cast' = NoCast
  BY <1>2 DEF CastIsChecked, NoCast
<1>3. ASSUME NEW x \in Vars, NEW ty \in Types, AnyCast(x, ty) PROVE CastIsChecked'
  <2>1. cast'.r = any_cast(x, ty) /\ cast'.of = Held(content[x]) /\ cast'.type = ty
    BY <1>3 DEF AnyCast
  <2>2. CASE content[x] = 0
    <3>1. Held(content[x]) = <<>>
      BY Zenon, <2>2 DEF Held, AnyInv, Owned
    <3> QED
      BY Zenon, <2>1, <3>1 DEF CastIsChecked, any_cast
  <2>3. CASE content[x] # 0
    <3>1. Held(content[x]) = <<holders[content[x]]>> /\ type(x) = holders[content[x]][1]
      BY Zenon, <2>3 DEF Held, AnyInv, Owned, type
    <3>2. PICK h : h = holders[content[x]]
      BY Zenon
    <3>3. <<h>> # <<>> /\ <<h>>[1] = h
      OBVIOUS
    <3> QED
      BY Zenon, <2>1, <3>1, <3>2, <3>3 DEF CastIsChecked, any_cast
  <2> QED
    BY <2>2, <2>3
<1> QED
  BY Zenon, <1>1, <1>2, <1>3 DEF AnyNext, clear, PutValue, CopyAssign, MoveAssign, swap, dyn

\* The owner of a holder is one variable.
LEMMA OwnerIsOne ==
  ASSUME AnyInv
  PROVE  OneOwner
<1> SUFFICES ASSUME NEW c \in DOMAIN holders \cup {content[x] : x \in Vars}, c # 0
             PROVE  /\ c \in DOMAIN holders
                    /\ \E x \in Vars : content[x] = c /\ \A y \in Vars : content[y] = c => y = x
  BY Zenon DEF OneOwner
<1>1. c \in DOMAIN holders
  BY Zenon DEF AnyInv, Owned
<1>2. PICK x \in Vars : content[x] = c
  BY Zenon, <1>1 DEF AnyInv, Owned
<1>3. \A y \in Vars : content[y] = c => y = x
  BY Zenon, <1>2 DEF AnyInv, Owned
<1> QED
  BY Zenon, <1>1, <1>2, <1>3

\* The variables of type any implement plain values, every holder has one owner, and
\* any_cast gives a value for its own type only, for any number of variables and values.
THEOREM AnyIsValueHolds == AnySpec => AnyIsValue
<1>1. AnyInit => AnyInv /\ CastIsChecked /\ AV!Init
  <2>1. AnyInit => CastIsChecked
    BY DEF AnyInit, CastIsChecked, NoCast
  <2> QED
    BY Zenon, <2>1, AnyInitInv
<1>2. AnyInv /\ CastIsChecked /\ [AnyNext]_dyn => AnyInv' /\ CastIsChecked' /\ [AV!Next]_Val
  BY Zenon, AnyStep, CastStep
<1>3. AnyInv => OneOwner
  BY Zenon, OwnerIsOne
<1> QED
  BY <1>1, <1>2, <1>3, PTL DEF AnySpec, AnyIsValue, ImplementsValue, AV!Spec, Val

-----------------------------------------------------------------------------
(* RSACrypto.                                                               *)

LEMMA TimesMonotone ==
  ASSUME NEW m \in Nat, NEW n \in Nat, NEW len \in Nat, m <= n
  PROVE  m * len <= n * len
<1>1. PICK k \in Nat : n = m + k
  <2>1. n - m \in Nat /\ n = m + (n - m)
    OBVIOUS
  <2> QED
    BY <2>1
<1>2. n * len = m * len + k * len /\ m * len \in Nat /\ k * len \in Nat
  BY <1>1
<1> QED
  BY <1>2

\* A total between n and n + 1 pieces is rounded up to n + 1.
LEMMA RoundsUp ==
  ASSUME NEW total \in Nat, NEW len \in Nat \ {0}, NEW n \in Nat,
         n * len < total, total <= (n + 1) * len
  PROVE  /\ total % len = 0 => total \div len = n + 1
         /\ total % len # 0 => total \div len = n
<1> DEFINE d == total \div len
           r == total % len
<1>1. d \in Nat /\ r \in Nat /\ r < len /\ total = d * len + r
  OBVIOUS
<1> HIDE DEF d, r
<1>2. (d + 1) * len = d * len + len /\ d * len \in Nat /\ n * len \in Nat /\ (n + 1) * len \in Nat
  BY <1>1
<1>3. d > n + 1 => (n + 2) * len <= d * len
  BY <1>1, TimesMonotone
<1>4. d <= n => d * len <= n * len
  BY <1>1, TimesMonotone
<1>5. d < n => (d + 1) * len <= n * len
  BY <1>1, TimesMonotone
<1>6. (n + 2) * len = (n + 1) * len + len
  OBVIOUS
<1>7. d <= n + 1
  BY <1>1, <1>2, <1>3, <1>6
<1>8. r = 0 => d = n + 1
  BY <1>1, <1>2, <1>4, <1>7
<1>9. d >= n
  BY <1>1, <1>2, <1>5
<1>10. r # 0 => d = n
  BY <1>1, <1>2, <1>7, <1>9
<1> QED
  BY <1>8, <1>10 DEF d, r

\* The base64 form of n pieces is decoded to between n and n + 1 pieces.
LEMMA PiecesAreCounted ==
  ASSUME rsa_len \in RsaLens, NEW n \in Nat
  PROVE  Pieces(n) = n
<1>1. rsa_len \in Nat /\ rsa_len >= 4
  BY KeysAreLong
<1> DEFINE p == n * rsa_len
           q == (p + 2) \div 3
<1>2. p \in Nat /\ (n + 1) * rsa_len = p + rsa_len
  BY <1>1
<1>3. OrigLen(n) = 4 * q
  BY DEF OrigLen
<1> HIDE DEF p
<1>4. q \in Nat /\ 3 * q >= p /\ 3 * q <= p + 2
  BY <1>2
<1> HIDE DEF q
<1>5. TotalLen(4 * q) = q * 3 + 2
  BY <1>4 DEF TotalLen
<1> DEFINE total == q * 3 + 2
<1>6. total \in Nat /\ p < total /\ total <= p + rsa_len
  BY <1>1, <1>2, <1>4
<1> HIDE DEF total
<1>7. /\ total % rsa_len = 0 => total \div rsa_len = n + 1
      /\ total % rsa_len # 0 => total \div rsa_len = n
  <2>1. n * rsa_len < total /\ total <= (n + 1) * rsa_len
    <3>1. n * rsa_len < total
      BY <1>6 DEF p
    <3> QED
      BY <1>2, <1>6, <3>1
  <2>2. rsa_len \in Nat \ {0}
    BY <1>1
  <2> QED
    BY Zenon, <1>6, <2>1, <2>2, RoundsUp
<1>8. Chunks(total) = n + 1
  BY <1>7 DEF Chunks
<1> QED
  BY <1>3, <1>5, <1>8 DEF Pieces, total

\* A set of numbers has a least one.
LEMMA LeastOf ==
  ASSUME NEW S \in SUBSET Nat, S # {}
  PROVE  \E m \in S : \A k \in S : m <= k
<1>1. IsWellFoundedOn(OpToRel(<, Nat), Nat)
  BY NatLessThanWellFounded
<1>2. PICK m \in S : \A k \in S : ~(<<k, m>> \in OpToRel(<, Nat))
  BY Zenon, <1>1, WFMin
<1>3. ASSUME NEW k \in S PROVE ~(k < m)
  BY Zenon, <1>2 DEF OpToRel
<1>4. ASSUME NEW k \in S PROVE m <= k
  BY <1>3
<1> QED
  BY Zenon, <1>4

\* The first zero byte of a text that has one.
LEMMA FirstZero ==
  ASSUME NEW p \in Seq(Nat), ZeroBytes(p) # {}
  PROVE  \E i \in 1..Len(p) :
           /\ ZString(p) = SubSeq(p, 1, i - 1) /\ p[i] = 0
           /\ \A j \in 1..(i - 1) : p[j] # 0
<1> DEFINE i == CHOOSE k \in ZeroBytes(p) : \A j \in ZeroBytes(p) : k <= j
<1>1. ZeroBytes(p) \subseteq 1..Len(p) /\ Len(p) \in Nat
  BY DEF ZeroBytes
<1>2. i \in ZeroBytes(p) /\ \A j \in ZeroBytes(p) : i <= j
  <2>1. ZeroBytes(p) \in SUBSET Nat
    BY <1>1
  <2> QED
    BY Zenon, <2>1, LeastOf
<1>3. ZString(p) = SubSeq(p, 1, i - 1)
  BY Zenon DEF ZString
<1> HIDE DEF i
<1>4. i \in 1..Len(p) /\ p[i] = 0
  BY <1>1, <1>2 DEF ZeroBytes
<1>5. ASSUME NEW j \in 1..(i - 1) PROVE p[j] # 0
  <2>1. j \in 1..Len(p) /\ ~(i <= j)
    BY <1>1, <1>4
  <2> QED
    BY <1>2, <2>1 DEF ZeroBytes
<1> QED
  BY Zenon, <1>3, <1>4, <1>5

LEMMA JoinIs ==
  ASSUME NEW T, NEW p \in Seq(T), NEW q \in Seq(T)
  PROVE  /\ p \o q \in Seq(T) /\ Len(p \o q) = Len(p) + Len(q) /\ Len(p \o q) >= Len(p)
         /\ SubSeq(p \o q, 1, Len(p)) = p
         /\ \A i \in 1..Len(q) : (p \o q)[Len(p) + i] = q[i]
<1>1. p \o q \in Seq(T) /\ Len(p \o q) = Len(p) + Len(q) /\ Len(p \o q) >= Len(p)
  OBVIOUS
<1>2. SubSeq(p \o q, 1, Len(p)) = p
  OBVIOUS
<1>3. \A i \in 1..Len(q) : (p \o q)[Len(p) + i] = q[i]
  OBVIOUS
<1> QED
  BY Zenon, <1>1, <1>2, <1>3

\* What a buffer of zeros makes of a text that fits into it.
LEMMA TextSurvives ==
  ASSUME NEW p \in Seq(Nat), NEW room \in Nat, NEW stray \in Stray, Len(p) <= room
  PROVE  StringOf(p, room, stray) \in Seq(Nat) /\ Survives(p, StringOf(p, room, stray), room)
<1> DEFINE s == StringOf(p, room, stray)
<1>1. CASE ZeroBytes(p) # {}
  <2>1. s = ZString(p)
    BY <1>1 DEF StringOf
  <2>2. PICK i \in 1..Len(p) : /\ ZString(p) = SubSeq(p, 1, i - 1) /\ p[i] = 0
                               /\ \A j \in 1..(i - 1) : p[j] # 0
    BY Zenon, <1>1, FirstZero
  <2> HIDE DEF s
  <2>3. s \in Seq(Nat) /\ Len(s) = i - 1 /\ \A j \in 1..(i - 1) : s[j] = p[j]
    BY <2>1, <2>2
  <2>4. DOMAIN s = 1..(i - 1)
    BY <2>3
  <2>5. ZeroBytes(s) = {}
    BY <2>2, <2>3, <2>4 DEF ZeroBytes
  <2>6. Len(s) < Len(p) /\ p[Len(s) + 1] = 0 /\ SubSeq(p, 1, Len(s)) = s
    BY <2>1, <2>2, <2>3
  <2> QED
    BY Zenon, <1>1, <2>3, <2>5, <2>6 DEF Survives, s
<1>2. CASE ZeroBytes(p) = {} /\ Len(p) = room
  <2>0. stray \in Seq(Nat)
    <3>1. <<>> \in Seq(Nat) /\ <<255>> \in Seq(Nat)
      OBVIOUS
    <3> QED
      BY Zenon, <3>1 DEF Stray
  <2>1. s = p \o stray
    BY Zenon, <1>2 DEF StringOf
  <2> HIDE DEF s
  <2>2. s \in Seq(Nat) /\ Len(s) >= Len(p) /\ SubSeq(s, 1, Len(p)) = p
    BY Zenon, <2>0, <2>1, JoinIs
  <2>3. ~(Len(p) < room)
    BY <1>2
  <2> QED
    BY Zenon, <1>2, <2>2, <2>3 DEF Survives, s
<1>3. CASE ZeroBytes(p) = {} /\ Len(p) # room
  <2>1. s = p
    BY Zenon, <1>3 DEF StringOf, ZString
  <2>2. Len(p) >= Len(p) /\ SubSeq(p, 1, Len(p)) = p
    OBVIOUS
  <2> QED
    BY Zenon, <1>3, <2>1, <2>2 DEF Survives
<1> QED
  BY Zenon, <1>1, <1>2, <1>3

\* A cipher text is a sequence of texts no longer than a piece.
LEMMA TextPieces ==
  ASSUME NEW in \in Texts
  PROVE  Len(in) \in Nat /\ \A i \in 1..Len(in) : in[i] \in Seq(Nat) /\ Len(in[i]) <= rsa_len
<1>1. PICK n \in 1..MaxPieces : in \in [1..n -> PieceTexts]
  BY Zenon DEF Texts
<1>2. n \in Nat /\ Len(in) = n
  BY <1>1, KeysAreLong
<1>3. \A p \in PieceTexts : p \in Seq(Nat) /\ Len(p) <= rsa_len
  BY Zenon, TextsAreBytes DEF PieceTexts
<1> QED
  BY <1>1, <1>2, <1>3

\* Appending one string per piece.
LEMMA AppendsPieces ==
  ASSUME NEW in, NEW n \in Nat, NEW stray \in Stray, decrypt_result_ \in Seq(Seq(Nat)),
         \A i \in 1..n : in[i] \in Seq(Nat) /\ Len(in[i]) <= BuffLen
  PROVE  /\ Appended(in, n, stray) \in Seq(Seq(Nat))
         /\ Len(Appended(in, n, stray)) = Len(decrypt_result_) + n
         /\ SubSeq(Appended(in, n, stray), 1, Len(decrypt_result_)) = decrypt_result_
         /\ \A i \in 1..n : Survives(in[i], Appended(in, n, stray)[Len(decrypt_result_) + i], BuffLen)
<1> DEFINE t == [i \in 1..n |-> StringOf(in[i], BuffLen, stray)]
<1>0. BuffLen \in Nat
  BY BuffersAssumption
<1>1. \A i \in 1..n : t[i] \in Seq(Nat) /\ Survives(in[i], t[i], BuffLen)
  BY Zenon, <1>0, TextSurvives
<1>2. t \in Seq(Seq(Nat)) /\ Len(t) = n
  BY <1>1
<1>3. Appended(in, n, stray) = decrypt_result_ \o t
  BY Zenon DEF Appended
<1> HIDE DEF t
<1> DEFINE r == decrypt_result_ \o t
<1>4. /\ r \in Seq(Seq(Nat)) /\ Len(r) = Len(decrypt_result_) + n
      /\ SubSeq(r, 1, Len(decrypt_result_)) = decrypt_result_
      /\ \A i \in 1..n : r[Len(decrypt_result_) + i] = t[i]
  BY Zenon, <1>2, JoinIs
<1> HIDE DEF r
<1>5. Appended(in, n, stray) = r
  BY Zenon, <1>3 DEF r
<1> QED
  BY Zenon, <1>1, <1>4, <1>5

RsaInv ==
  /\ rsa_len \in RsaLens /\ fds \in Nat /\ decrypt_result_ \in Seq(Seq(Nat))
  /\ ResultIsAppended /\ OverrunNeedsLongKey /\ OnlyEncryptLeaks /\ CrashNeedsExhaustion

LEMMA RsaStep ==
  ASSUME RsaInv, [RsaNext]_rsa
  PROVE  RsaInv'
<1> USE DEF Ready
<1>0. /\ rsa_len \in RsaLens /\ fds \in Nat /\ decrypt_result_ \in Seq(Seq(Nat)) /\ fds = encrypted
      /\ rsa_len \in Nat /\ BuffLen \in Nat /\ DecryptMax \in Nat /\ BuffLen < DecryptMax
  BY KeysAreLong, BuffersAssumption, Zenon DEF RsaInv, OnlyEncryptLeaks
<1>k. "overrun" \notin Keys /\ "no" \notin Keys /\ "no" # "overrun"
  BY DEF Keys
<1>1. CASE UNCHANGED rsa
  BY Zenon, <1>1 DEF rsa, RsaInv, ResultIsAppended, Decrypted, OverrunNeedsLongKey, OnlyEncryptLeaks, CrashNeedsExhaustion
\* A call that faults nothing and does not decrypt piecewise.
<1>2. ASSUME rsaLast'.op # "decrypt", rsaFault' = "no", UNCHANGED rsa_len,
             fds' \in Nat, fds' = encrypted', decrypt_result_' \in Seq(Seq(Nat))
      PROVE  RsaInv'
  BY Zenon, <1>0, <1>k, <1>2 DEF RsaInv, ResultIsAppended, Decrypted, OverrunNeedsLongKey, OnlyEncryptLeaks, CrashNeedsExhaustion
<1>3. ASSUME NEW k \in Keys, SetKeyPath(k) PROVE RsaInv'
  <2>1. rsaLast'.op # "decrypt" /\ rsaFault' = "no"
    BY <1>3 DEF SetKeyPath, RsaCall
  <2>2. UNCHANGED <<rsa_len, fds, encrypted, decrypt_result_>>
    BY Zenon, <1>3 DEF SetKeyPath
  <2> QED
    BY Zenon, <1>0, <1>2, <2>1, <2>2
<1>4. ASSUME NEW k \in Keys, RemoveKey(k) PROVE RsaInv'
  <2>1. rsaFault = "no" /\ UNCHANGED <<rsa_len, fds, decrypt_result_, rsaLast, encrypted, kept, rsaFault>>
    BY Zenon, <1>4 DEF RemoveKey
  <2> QED
    BY Zenon, <1>0, <1>k, <2>1 DEF RsaInv, ResultIsAppended, Decrypted, OverrunNeedsLongKey, OnlyEncryptLeaks, CrashNeedsExhaustion
<1>5. ASSUME NEW k \in Keys, NoFile(k) PROVE RsaInv'
  <2>1. UNCHANGED <<rsa_len, paths, fds, decrypt_result_, rsaLast, encrypted, kept>>
    BY Zenon, <1>5 DEF NoFile
  <2>2. rsaFault' = k /\ (encrypted = MaxFds \/ k \notin paths)
    BY Zenon, <1>0, <1>5 DEF NoFile
  <2> QED
    BY Zenon, <1>0, <1>k, <2>1, <2>2 DEF RsaInv, ResultIsAppended, Decrypted, OverrunNeedsLongKey, OnlyEncryptLeaks, CrashNeedsExhaustion
<1>6. ASSUME NEW p \in Plain, encryptContent(p) PROVE RsaInv'
  <2>1. rsaLast'.op # "decrypt" /\ rsaFault' = "no"
    BY <1>6 DEF encryptContent, RsaCall
  <2>2. UNCHANGED <<rsa_len, decrypt_result_>>
    BY Zenon, <1>6 DEF encryptContent
  <2>3. (fds' = fds /\ encrypted' = encrypted) \/ (fds' = fds + 1 /\ encrypted' = encrypted + 1)
    BY Zenon, <1>6 DEF encryptContent
  <2>4. fds' = encrypted' /\ fds' \in Nat
    BY <1>0, <2>3
  <2> QED
    BY Zenon, <1>0, <1>2, <2>1, <2>2, <2>4
<1>7. ASSUME getPublicKeyFromCertificate PROVE RsaInv'
  <2>1. rsaLast'.op # "decrypt" /\ rsaFault' = "no"
    BY <1>7 DEF getPublicKeyFromCertificate, RsaCall
  <2>2. UNCHANGED <<rsa_len, fds, encrypted, decrypt_result_>>
    BY Zenon, <1>7 DEF getPublicKeyFromCertificate
  <2> QED
    BY Zenon, <1>0, <1>2, <2>1, <2>2
\* A call that overruns a buffer.
<1>8. ASSUME rsaFault' = "overrun", rsaLast'.ret # 0, rsa_len > BuffLen,
             UNCHANGED <<rsa_len, fds, encrypted, decrypt_result_>>
      PROVE  RsaInv'
  BY Zenon, <1>0, <1>k, <1>8 DEF RsaInv, ResultIsAppended, Decrypted, OverrunNeedsLongKey, OnlyEncryptLeaks, CrashNeedsExhaustion
<1>9. ASSUME NEW p \in PieceTexts, decryptShort(p) PROVE RsaInv'
  <2>1. p \in Seq(Nat) /\ Len(p) <= rsa_len /\ Len(p) \in Nat
    BY TextsAreBytes DEF PieceTexts
  <2>2. rsaLast'.op # "decrypt" /\ UNCHANGED <<rsa_len, fds, encrypted>> /\ rsaFault = "no"
    BY <1>9 DEF decryptShort, RsaCall
  <2>3. CASE rsaFault' = rsaFault /\ decrypt_result_' = decrypt_result_
    BY Zenon, <1>0, <1>2, <2>2, <2>3
  <2>4. ASSUME NEW stray \in Stray, Len(p) <= DecryptMax, rsaFault' = rsaFault,
               decrypt_result_' = <<StringOf(p, DecryptMax, stray)>>
        PROVE  RsaInv'
    <3>1. StringOf(p, DecryptMax, stray) \in Seq(Nat)
      BY Zenon, <1>0, <2>1, <2>4, TextSurvives
    <3>2. <<StringOf(p, DecryptMax, stray)>> \in Seq(Seq(Nat))
      BY <3>1
    <3> QED
      BY Zenon, <1>0, <1>2, <2>2, <2>4, <3>2
  <2>5. ASSUME Len(p) > DecryptMax, RsaCall("decryptShort", -1, <<p>>), rsaFault' = "overrun", UNCHANGED decrypt_result_
        PROVE  RsaInv'
    <3>1. rsa_len > BuffLen
      BY <1>0, <2>1, <2>5
    <3>2. rsaLast'.ret # 0
      BY <2>5 DEF RsaCall
    <3> QED
      BY Zenon, <1>8, <2>2, <2>5, <3>1, <3>2
  <2> QED
    BY Zenon, <1>9, <2>3, <2>4, <2>5 DEF decryptShort
<1>10. ASSUME NEW in \in Texts, decryptContent(in) PROVE RsaInv'
  <2>1. Len(in) \in Nat /\ \A i \in 1..Len(in) : in[i] \in Seq(Nat) /\ Len(in[i]) <= rsa_len
    BY Zenon, TextPieces
  <2>2. Pieces(Len(in)) = Len(in)
    BY Zenon, <1>0, <2>1, PiecesAreCounted
  <2>3. kept' = decrypt_result_ /\ UNCHANGED <<rsa_len, fds, encrypted>> /\ rsaFault = "no"
    BY Zenon, <1>10 DEF decryptContent
  <2>4. CASE RsaCall("decrypt", -205, in) /\ UNCHANGED <<decrypt_result_, rsaFault>>
    <3>1. rsaLast'.ret # 0
      BY <2>4 DEF RsaCall
    <3> QED
      BY Zenon, <1>0, <1>k, <2>3, <2>4, <3>1 DEF RsaInv, ResultIsAppended, Decrypted, OverrunNeedsLongKey, OnlyEncryptLeaks, CrashNeedsExhaustion
  <2>5. ASSUME NEW n \in 0..Len(in), NEW stray \in Stray, \A i \in 1..n : ~Overruns(in[i]),
               RsaCall("decrypt", IF n < Len(in) THEN -207 ELSE 0, in),
               decrypt_result_' = Appended(in, n, stray), UNCHANGED rsaFault
        PROVE  RsaInv'
    <3>1. n \in Nat /\ \A i \in 1..n : i \in 1..Len(in)
      BY <2>1
    <3>2. \A i \in 1..n : in[i] \in Seq(Nat) /\ Len(in[i]) <= BuffLen
      <4> SUFFICES ASSUME NEW i \in 1..n PROVE in[i] \in Seq(Nat) /\ Len(in[i]) <= BuffLen
        OBVIOUS
      <4>1. in[i] \in Seq(Nat) /\ ~(Len(in[i]) > BuffLen)
        BY Zenon, <2>1, <2>5, <3>1 DEF Overruns
      <4> QED
        BY <1>0, <4>1
    <3>3. /\ decrypt_result_' \in Seq(Seq(Nat))
          /\ Len(decrypt_result_') = Len(kept') + n
          /\ SubSeq(decrypt_result_', 1, Len(kept')) = kept'
          /\ \A i \in 1..n : Survives(in[i], decrypt_result_'[Len(kept') + i], BuffLen)
      BY Zenon, <1>0, <2>3, <2>5, <3>1, <3>2, AppendsPieces
    <3>4. rsaLast'.ret = 0 => n = Len(in) /\ rsaLast'.in = in
      BY <2>1, <2>5 DEF RsaCall
    <3>5. ResultIsAppended'
      <4> SUFFICES ASSUME rsaLast'.ret = 0
                   PROVE  /\ Len(decrypt_result_') = Len(kept') + Len(rsaLast'.in)
                          /\ SubSeq(decrypt_result_', 1, Len(kept')) = kept'
                          /\ \A i \in 1..Len(rsaLast'.in) :
                               Survives(rsaLast'.in[i], decrypt_result_'[Len(kept') + i], BuffLen)
        BY Zenon DEF ResultIsAppended, Decrypted, Survives, ZeroBytes
      <4> QED
        BY Zenon, <3>3, <3>4
    <3> QED
      BY Zenon, <1>0, <1>k, <2>3, <2>5, <3>3, <3>5 DEF RsaInv, OverrunNeedsLongKey, OnlyEncryptLeaks, CrashNeedsExhaustion
  <2>6. ASSUME NEW i \in 1..Len(in), Overruns(in[i]), RsaCall("decrypt", -1, in), rsaFault' = "overrun", UNCHANGED decrypt_result_
        PROVE  RsaInv'
    <3>1. rsa_len > BuffLen
      <4>1. in[i] \in Seq(Nat) /\ Len(in[i]) <= rsa_len
        BY Zenon, <2>1
      <4> QED
        BY <1>0, <2>6, <4>1 DEF Overruns
    <3>2. rsaLast'.ret # 0
      BY <2>6 DEF RsaCall
    <3> QED
      BY Zenon, <1>8, <2>3, <2>6, <3>1, <3>2
  <2> QED
    BY Zenon, <1>10, <2>2, <2>4, <2>5, <2>6 DEF decryptContent
<1>11. CASE RsaNext
  BY Zenon, <1>3, <1>4, <1>5, <1>6, <1>7, <1>9, <1>10, <1>11 DEF RsaNext
<1> QED
  BY Zenon, <1>1, <1>11

\* Whatever the sizes of keys of at least 4 bytes and the texts, the pieces are counted
\* right and appended, each up to its first zero byte; a buffer is overrun only with a
\* key longer than it, and only encryptContent leaves descriptors open.
THEOREM RsaIsSoundHolds == RsaSpec => []RsaIsSound
<1>1. RsaInit => RsaInv
  <2> SUFFICES ASSUME RsaInit PROVE RsaInv
    OBVIOUS
  <2>1. /\ rsaLast.op = "new" /\ "new" # "decrypt" /\ fds \in Nat /\ fds = encrypted
        /\ decrypt_result_ \in Seq(Seq(Nat)) /\ rsa_len \in RsaLens
    BY DEF RsaInit
  <2>2. rsaFault \notin Keys /\ rsaFault # "overrun"
    BY DEF RsaInit, Keys
  <2> QED
    BY Zenon, <2>1, <2>2 DEF RsaInv, ResultIsAppended, Decrypted, OverrunNeedsLongKey, OnlyEncryptLeaks, CrashNeedsExhaustion
<1>2. RsaInv /\ [RsaNext]_rsa => RsaInv'
  BY Zenon, RsaStep
<1>3. RsaInv => RsaIsSound
  <2>1. \A n \in 1..MaxPieces : n \in Nat
    BY KeysAreLong
  <2> QED
    BY Zenon, <2>1, PiecesAreCounted DEF RsaInv, EveryPiece, RsaIsSound
<1> QED
  BY <1>1, <1>2, <1>3, PTL DEF RsaSpec

-----------------------------------------------------------------------------
(* Base64.                                                                 *)

Code == 0..63
Byte == 0..255

\* The decoder's table inverts the encoder's, and the padding is in neither.
LEMMA TableInverts ==
  ASSUME NEW n \in Code
  PROVE  char2Base(base64_code(n)) = n /\ base64_code(n) \notin {Pad, 0}
<1>1. CASE n < 26
  BY <1>1 DEF Code, char2Base, base64_code, Pad
<1>2. CASE n >= 26 /\ n < 52
  BY <1>2 DEF Code, char2Base, base64_code, Pad
<1>3. CASE n >= 52
  BY <1>3 DEF Code, char2Base, base64_code, Pad
<1> QED
  BY <1>1, <1>2, <1>3 DEF Code

LEMMA TableIsCode ==
  ASSUME NEW c \in Byte, char2Base(c) # 64
  PROVE  char2Base(c) \in Code
BY DEF Byte, Code, char2Base

\* A byte in two parts, and three bytes in the four codes.
LEMMA Parts ==
  ASSUME NEW a \in Byte
  PROVE  /\ \E a1 \in Code, a0 \in 0..3 : a = 4 * a1 + a0
         /\ \E b1 \in 0..15, b0 \in 0..15 : a = 16 * b1 + b0
         /\ \E c1 \in 0..3, c0 \in Code : a = 64 * c1 + c0
<1>1. \E a1 \in Code, a0 \in 0..3 : a = 4 * a1 + a0
  BY DEF Byte, Code
<1>2. \E b1 \in 0..15, b0 \in 0..15 : a = 16 * b1 + b0
  BY DEF Byte
<1>3. \E c1 \in 0..3, c0 \in Code : a = 64 * c1 + c0
  BY DEF Byte, Code
<1> QED
  BY Zenon, <1>1, <1>2, <1>3

Word(a, b, c) == a * 65536 + b * 256 + c
Low(x) == x % 256
Digit0(w) == (w \div 262144) % 64
Digit1(w) == (w \div 4096) % 64
Digit2(w) == (w \div 64) % 64
Digit3(w) == (w \div 1) % 64
Cut(a1, a0, b1, b0, c1, c0) == a1 \in Code /\ a0 \in 0..3 /\ b1 \in 0..15 /\ b0 \in 0..15 /\ c1 \in 0..3 /\ c0 \in Code
DigitsAre(w, a1, a0, b1, b0, c1, c0) == Digit0(w) = a1 /\ Digit1(w) = 16 * a0 + b1 /\ Digit2(w) = 4 * b0 + c1 /\ Digit3(w) = c0
LEMMA Digits ==
  ASSUME NEW a1, NEW a0, NEW b1, NEW b0, NEW c1, NEW c0, Cut(a1, a0, b1, b0, c1, c0), NEW w,
         w = Word(4 * a1 + a0, 16 * b1 + b0, 64 * c1 + c0)
  PROVE  DigitsAre(w, a1, a0, b1, b0, c1, c0)
<1>0. w \in Nat /\ w = (4 * a1 + a0) * 65536 + (16 * b1 + b0) * 256 + (64 * c1 + c0)
  BY SMT DEF Word, Cut, Code
<1>1. w \div 262144 = a1
  BY SMT, <1>0 DEF Cut, Code
<1>2. w \div 4096 = 64 * a1 + 16 * a0 + b1
  BY SMT, <1>0 DEF Cut, Code
<1>3. w \div 64 = 4096 * a1 + 1024 * a0 + 64 * b1 + 4 * b0 + c1
  BY SMT, <1>0 DEF Cut, Code
<1>4. w \div 1 = w
  BY SMT, <1>0
<1>5. a1 % 64 = a1
  BY SMT DEF Cut, Code
<1>6. (64 * a1 + 16 * a0 + b1) % 64 = 16 * a0 + b1
  BY SMT DEF Cut, Code
<1>7. (4096 * a1 + 1024 * a0 + 64 * b1 + 4 * b0 + c1) % 64 = 4 * b0 + c1
  BY SMT DEF Cut, Code
<1>8. w % 64 = c0
  BY SMT, <1>0 DEF Cut, Code
<1>9. Digit0(w) = a1
  BY SMT, <1>1, <1>5 DEF Digit0
<1>10. Digit1(w) = 16 * a0 + b1
  BY SMT, <1>2, <1>6 DEF Digit1
<1>11. Digit2(w) = 4 * b0 + c1
  BY SMT, <1>3, <1>7 DEF Digit2
<1>12. Digit3(w) = c0
  BY SMT, <1>4, <1>8 DEF Digit3
<1> QED
  BY Zenon, <1>9, <1>10, <1>11, <1>12 DEF DigitsAre

\* The bytes put together again from the codes.
JoinedAgain(a1, a0, b1, b0, c1, c0) ==
  /\ 16 * a0 + b1 \in Code /\ 4 * b0 + c1 \in Code
  /\ Low(Low(a1 * 4) + (16 * a0 + b1) \div 16) = 4 * a1 + a0
  /\ Low(Low((16 * a0 + b1) * 16) + (4 * b0 + c1) \div 4) = 16 * b1 + b0
  /\ Low(Low((4 * b0 + c1) * 64) + c0) = 64 * c1 + c0
LEMMA BytesBack ==
  ASSUME NEW a1, NEW a0, NEW b1, NEW b0, NEW c1, NEW c0, Cut(a1, a0, b1, b0, c1, c0)
  PROVE  JoinedAgain(a1, a0, b1, b0, c1, c0)
<1>1. 16 * a0 + b1 \in Code /\ 4 * b0 + c1 \in Code
  BY SMT DEF Cut, Code
<1>2. Low(a1 * 4) = a1 * 4 /\ (16 * a0 + b1) \div 16 = a0
  BY SMT DEF Cut, Code, Low
<1>3. Low((16 * a0 + b1) * 16) = b1 * 16 /\ (4 * b0 + c1) \div 4 = b0
  BY SMT DEF Cut, Code, Low
<1>4. Low((4 * b0 + c1) * 64) = c1 * 64
  BY SMT DEF Cut, Code, Low
<1>5. Low(a1 * 4 + a0) = 4 * a1 + a0 /\ Low(b1 * 16 + b0) = 16 * b1 + b0 /\ Low(c1 * 64 + c0) = 64 * c1 + c0
  BY SMT DEF Cut, Code, Low
<1> QED
  BY Zenon, <1>1, <1>2, <1>3, <1>4, <1>5 DEF JoinedAgain

\* The byte at j, 0 behind the end.
ByteAt(m, j) == IF j <= Len(m) THEN m[j] ELSE 0

LEMMA ByteAtType ==
  ASSUME NEW m \in Seq(Byte), NEW j \in Nat \ {0}
  PROVE  ByteAt(m, j) \in Byte
<1>1. 0 \in Byte
  BY DEF Byte
<1>2. CASE j <= Len(m)
  <2>1. m[j] \in Byte
    BY <1>2
  <2> QED
    BY Zenon, <1>2, <2>1 DEF ByteAt
<1>3. CASE ~(j <= Len(m))
  BY Zenon, <1>1, <1>3 DEF ByteAt
<1> QED
  BY <1>2, <1>3

\* The four characters of a group.
Digit(q, n, i) == IF i > n THEN Pad ELSE base64_code(q)
LEMMA GroupIs ==
  ASSUME NEW m, NEW i, NEW a1, NEW a0, NEW b1, NEW b0, NEW c1, NEW c0, Cut(a1, a0, b1, b0, c1, c0),
         ByteAt(m, i) = 4 * a1 + a0, ByteAt(m, i + 1) = 16 * b1 + b0, ByteAt(m, i + 2) = 64 * c1 + c0
  PROVE  Group(m, i) = <<base64_code(a1), base64_code(16 * a0 + b1), Digit(4 * b0 + c1, Len(m), i + 1), Digit(c0, Len(m), i + 2)>>
<1>1. PICK w : w = Word(ByteAt(m, i), ByteAt(m, i + 1), ByteAt(m, i + 2))
  BY Zenon
<1>2. w = ByteAt(m, i) * 65536 + ByteAt(m, i + 1) * 256 + ByteAt(m, i + 2)
  BY SMT, <1>1 DEF Word
<1>3. Group(m, i) = <<base64_code(Digit0(w)), base64_code(Digit1(w)), Digit(Digit2(w), Len(m), i + 1), Digit(Digit3(w), Len(m), i + 2)>>
  BY SMT, <1>2 DEF Group, Digit, ByteAt, Digit0, Digit1, Digit2, Digit3
<1>4. w = Word(4 * a1 + a0, 16 * b1 + b0, 64 * c1 + c0)
  BY Zenon, <1>1
<1>5. DigitsAre(w, a1, a0, b1, b0, c1, c0)
  BY Zenon, <1>4, Digits
<1> QED
  BY Zenon, <1>3, <1>5 DEF DigitsAre

\* Character 4 g + r + 1 of the encoded text is the one at r of its group.
LEMMA EncodedAt ==
  ASSUME NEW m \in Seq(Byte), NEW g \in Nat, NEW r \in 0..3, 4 * g + r < 4 * ((Len(m) + 2) \div 3)
  PROVE  base64Encode(m)[4 * g + r + 1] = Group(m, 3 * g + 1)[r + 1]
<1>1. PICK n \in Nat : n = 4 * ((Len(m) + 2) \div 3)
  OBVIOUS
<1>2. base64Encode(m) = [k \in 1..n |-> Group(m, 3 * ((k - 1) \div 4) + 1)[((k - 1) % 4) + 1]]
  BY Zenon, <1>1 DEF base64Encode
<1>3. PICK k \in 1..n : k = 4 * g + r + 1
  BY <1>1
<1>4. (k - 1) \div 4 = g /\ (k - 1) % 4 = r
  BY <1>3
<1>5. base64Encode(m)[k] = Group(m, 3 * ((k - 1) \div 4) + 1)[((k - 1) % 4) + 1]
  BY Zenon, <1>2
<1> QED
  BY Zenon, <1>3, <1>4, <1>5

\* How many bytes the decoder stored before a character at r of its group.
Before(r) == IF r = 0 THEN 0 ELSE r - 1

\* What the encoder's groups and the decoder's turns have in common.
Decodes(m, g, r, x, y) ==
  /\ 3 * g + r <= Len(m)
  /\ r = 1 => Low(Low(char2Base(x) * 4) + char2Base(y) \div 16) = m[3 * g + 1]
  /\ r = 2 => Low(Low(char2Base(x) * 16) + char2Base(y) \div 4) = m[3 * g + 2]
  /\ r = 3 => Low(Low(char2Base(x) * 64) + char2Base(y)) = m[3 * g + 3]
LEMMA GroupDecodes ==
  ASSUME NEW m \in Seq(Byte), NEW g \in Nat, NEW r \in 1..3, NEW x, NEW y,
         x = Group(m, 3 * g + 1)[r], y = Group(m, 3 * g + 1)[r + 1], y # Pad, 3 * g + 1 <= Len(m)
  PROVE  Decodes(m, g, r, x, y)
<1>13. SUFFICES /\ 3 * g + r <= Len(m)
                /\ r = 1 => Low(Low(char2Base(x) * 4) + char2Base(y) \div 16) = m[3 * g + 1]
                /\ r = 2 => Low(Low(char2Base(x) * 16) + char2Base(y) \div 4) = m[3 * g + 2]
                /\ r = 3 => Low(Low(char2Base(x) * 64) + char2Base(y)) = m[3 * g + 3]
  BY Zenon DEF Decodes
<1>1. /\ ByteAt(m, 3 * g + 1) \in Byte /\ ByteAt(m, 3 * g + 2) \in Byte /\ ByteAt(m, 3 * g + 3) \in Byte
  <2>1. 3 * g + 1 \in Nat \ {0} /\ 3 * g + 2 \in Nat \ {0} /\ 3 * g + 3 \in Nat \ {0}
    OBVIOUS
  <2> QED
    BY Zenon, <2>1, ByteAtType
<1>2. PICK a1 \in Code, a0 \in 0..3 : ByteAt(m, 3 * g + 1) = 4 * a1 + a0
  BY Zenon, <1>1, Parts
<1>3. PICK b1 \in 0..15, b0 \in 0..15 : ByteAt(m, 3 * g + 2) = 16 * b1 + b0
  BY Zenon, <1>1, Parts
<1>4. PICK c1 \in 0..3, c0 \in Code : ByteAt(m, 3 * g + 3) = 64 * c1 + c0
  BY Zenon, <1>1, Parts
<1>0. Cut(a1, a0, b1, b0, c1, c0)
  BY Zenon DEF Cut
<1>5. Group(m, 3 * g + 1) = <<base64_code(a1), base64_code(16 * a0 + b1), Digit(4 * b0 + c1, Len(m), 3 * g + 2), Digit(c0, Len(m), 3 * g + 3)>>
  <2>1. (3 * g + 1) + 1 = 3 * g + 2 /\ (3 * g + 1) + 2 = 3 * g + 3
    OBVIOUS
  <2>2. PICK i : i = 3 * g + 1 /\ i + 1 = 3 * g + 2 /\ i + 2 = 3 * g + 3
    BY Zenon, <2>1
  <2>3. ByteAt(m, i) = 4 * a1 + a0 /\ ByteAt(m, i + 1) = 16 * b1 + b0 /\ ByteAt(m, i + 2) = 64 * c1 + c0
    BY Zenon, <1>2, <1>3, <1>4, <2>2
  <2>4. Group(m, i) = <<base64_code(a1), base64_code(16 * a0 + b1), Digit(4 * b0 + c1, Len(m), i + 1), Digit(c0, Len(m), i + 2)>>
    BY Zenon, <1>0, <2>3, GroupIs
  <2> QED
    BY Zenon, <2>2, <2>4
<1>6. 16 * a0 + b1 \in Code /\ 4 * b0 + c1 \in Code
  BY Zenon, <1>0, BytesBack DEF JoinedAgain
<1>7. /\ char2Base(base64_code(a1)) = a1 /\ char2Base(base64_code(16 * a0 + b1)) = 16 * a0 + b1
      /\ char2Base(base64_code(4 * b0 + c1)) = 4 * b0 + c1 /\ char2Base(base64_code(c0)) = c0
  BY Zenon, <1>0, <1>6, TableInverts DEF Cut
<1>8. /\ Low(Low(a1 * 4) + (16 * a0 + b1) \div 16) = 4 * a1 + a0
      /\ Low(Low((16 * a0 + b1) * 16) + (4 * b0 + c1) \div 4) = 16 * b1 + b0
      /\ Low(Low((4 * b0 + c1) * 64) + c0) = 64 * c1 + c0
  <2>1. JoinedAgain(a1, a0, b1, b0, c1, c0)
    BY Zenon, <1>0, BytesBack
  <2> QED
    BY Zenon, <2>1 DEF JoinedAgain
<1>9. Len(m) \in Nat
  OBVIOUS
<1>10. CASE r = 1
  <2>1. x = base64_code(a1) /\ y = base64_code(16 * a0 + b1)
    BY <1>5, <1>10
  <2>2. m[3 * g + 1] = 4 * a1 + a0
    BY Zenon, <1>2 DEF ByteAt
  <2>3. Low(Low(char2Base(x) * 4) + char2Base(y) \div 16) = m[3 * g + 1]
    BY Zenon, <1>7, <1>8, <2>1, <2>2
  <2> QED
    BY <1>10, <2>3
<1>11. CASE r = 2
  <2>1. x = base64_code(16 * a0 + b1) /\ y = Digit(4 * b0 + c1, Len(m), 3 * g + 2)
    BY <1>5, <1>11
  <2>2. ~(3 * g + 2 > Len(m)) /\ y = base64_code(4 * b0 + c1)
    BY Zenon, <2>1 DEF Digit
  <2>3. 3 * g + 2 <= Len(m)
    BY <1>9, <2>2
  <2>4. m[3 * g + 2] = 16 * b1 + b0
    BY Zenon, <1>3, <2>3 DEF ByteAt
  <2>5. Low(Low(char2Base(x) * 16) + char2Base(y) \div 4) = m[3 * g + 2]
    BY Zenon, <1>7, <1>8, <2>1, <2>2, <2>4
  <2> QED
    BY <1>11, <2>3, <2>5
<1>12. CASE r = 3
  <2>1. x = Digit(4 * b0 + c1, Len(m), 3 * g + 2) /\ y = Digit(c0, Len(m), 3 * g + 3)
    BY <1>5, <1>12
  <2>2. ~(3 * g + 3 > Len(m)) /\ y = base64_code(c0)
    BY Zenon, <2>1 DEF Digit
  <2>3. 3 * g + 3 <= Len(m) /\ ~(3 * g + 2 > Len(m))
    BY <1>9, <2>2
  <2>4. m[3 * g + 3] = 64 * c1 + c0 /\ x = base64_code(4 * b0 + c1)
    BY Zenon, <1>4, <2>1, <2>3 DEF ByteAt, Digit
  <2>5. Low(Low(char2Base(x) * 64) + char2Base(y)) = m[3 * g + 3]
    BY Zenon, <1>7, <1>8, <2>2, <2>4
  <2> QED
    BY <1>12, <2>3, <2>5
<1> QED
  BY <1>10, <1>11, <1>12

\* A character of a group is a byte.
LEMMA CodeIsByte ==
  ASSUME NEW n \in Code
  PROVE  base64_code(n) \in Byte
BY SMT DEF Code, Byte, base64_code

LEMMA GroupIsBytes ==
  ASSUME NEW m \in Seq(Byte), NEW g \in Nat, NEW r \in 0..3
  PROVE  /\ Group(m, 3 * g + 1)[r + 1] \in Byte
         /\ r = 2 /\ Group(m, 3 * g + 1)[r + 1] \in {Pad, 0} => 3 * g + 2 > Len(m)
         /\ r = 3 /\ Group(m, 3 * g + 1)[r + 1] \in {Pad, 0} => 3 * g + 3 > Len(m)
         /\ r \in 0..1 => Group(m, 3 * g + 1)[r + 1] \notin {Pad, 0}
<1>1. /\ ByteAt(m, 3 * g + 1) \in Byte /\ ByteAt(m, 3 * g + 2) \in Byte /\ ByteAt(m, 3 * g + 3) \in Byte
  <2>1. 3 * g + 1 \in Nat \ {0} /\ 3 * g + 2 \in Nat \ {0} /\ 3 * g + 3 \in Nat \ {0}
    OBVIOUS
  <2> QED
    BY Zenon, <2>1, ByteAtType
<1>2. PICK a1 \in Code, a0 \in 0..3 : ByteAt(m, 3 * g + 1) = 4 * a1 + a0
  BY Zenon, <1>1, Parts
<1>3. PICK b1 \in 0..15, b0 \in 0..15 : ByteAt(m, 3 * g + 2) = 16 * b1 + b0
  BY Zenon, <1>1, Parts
<1>4. PICK c1 \in 0..3, c0 \in Code : ByteAt(m, 3 * g + 3) = 64 * c1 + c0
  BY Zenon, <1>1, Parts
<1>5. Cut(a1, a0, b1, b0, c1, c0)
  BY Zenon DEF Cut
<1>6. PICK i : i = 3 * g + 1 /\ i + 1 = 3 * g + 2 /\ i + 2 = 3 * g + 3
  OBVIOUS
<1>7. Group(m, i) = <<base64_code(a1), base64_code(16 * a0 + b1), Digit(4 * b0 + c1, Len(m), i + 1), Digit(c0, Len(m), i + 2)>>
  <2>1. ByteAt(m, i) = 4 * a1 + a0 /\ ByteAt(m, i + 1) = 16 * b1 + b0 /\ ByteAt(m, i + 2) = 64 * c1 + c0
    BY Zenon, <1>2, <1>3, <1>4, <1>6
  <2> QED
    BY Zenon, <1>5, <2>1, GroupIs
<1>8. a1 \in Code /\ 16 * a0 + b1 \in Code /\ 4 * b0 + c1 \in Code /\ c0 \in Code
  <2>1. JoinedAgain(a1, a0, b1, b0, c1, c0)
    BY Zenon, <1>5, BytesBack
  <2> QED
    BY Zenon, <2>1 DEF JoinedAgain
<1>9. Pad \in Byte
  BY DEF Pad, Byte
<1>10. \A q \in Code : base64_code(q) \in Byte /\ base64_code(q) \notin {Pad, 0}
  BY Zenon, CodeIsByte, TableInverts
<1>11. ASSUME NEW q \in Code, NEW n, NEW l PROVE Digit(q, n, l) \in Byte /\ (Digit(q, n, l) \in {Pad, 0} => l > n)
  BY Zenon, <1>9, <1>10 DEF Digit
<1>12. CASE r = 0
  <2>1. Group(m, i)[r + 1] = base64_code(a1)
    BY <1>7, <1>12
  <2> QED
    BY <1>6, <1>8, <1>10, <1>12, <2>1
<1>13. CASE r = 1
  <2>1. Group(m, i)[r + 1] = base64_code(16 * a0 + b1)
    BY <1>7, <1>13
  <2> QED
    BY <1>6, <1>8, <1>10, <1>13, <2>1
<1>14. CASE r = 2
  <2>1. Group(m, i)[r + 1] = Digit(4 * b0 + c1, Len(m), i + 1)
    BY <1>7, <1>14
  <2>2. Group(m, i)[r + 1] \in Byte /\ (Group(m, i)[r + 1] \in {Pad, 0} => i + 1 > Len(m))
    BY Zenon, <1>8, <1>11, <2>1
  <2>3. r # 3 /\ r \notin 0..1
    BY <1>14
  <2> QED
    BY Zenon, <1>6, <2>2, <2>3
<1>15. CASE r = 3
  <2>1. Group(m, i)[r + 1] = Digit(c0, Len(m), i + 2)
    BY <1>7, <1>15
  <2>2. Group(m, i)[r + 1] \in Byte /\ (Group(m, i)[r + 1] \in {Pad, 0} => i + 2 > Len(m))
    BY Zenon, <1>8, <1>11, <2>1
  <2>3. r # 2 /\ r \notin 0..1
    BY <1>15
  <2> QED
    BY Zenon, <1>6, <2>2, <2>3
<1> QED
  BY <1>12, <1>13, <1>14, <1>15

LEMMA EncodedType ==
  ASSUME NEW m \in Seq(Byte)
  PROVE  base64Encode(m) \in Seq(Byte) /\ Len(base64Encode(m)) = 4 * ((Len(m) + 2) \div 3)
<1>1. PICK n \in Nat : n = 4 * ((Len(m) + 2) \div 3)
  OBVIOUS
<1>2. base64Encode(m) = [k \in 1..n |-> Group(m, 3 * ((k - 1) \div 4) + 1)[((k - 1) % 4) + 1]]
  BY Zenon, <1>1 DEF base64Encode
<1>3. ASSUME NEW k \in 1..n PROVE Group(m, 3 * ((k - 1) \div 4) + 1)[((k - 1) % 4) + 1] \in Byte
  <2>1. (k - 1) \div 4 \in Nat /\ (k - 1) % 4 \in 0..3
    OBVIOUS
  <2> QED
    BY Zenon, <2>1, GroupIsBytes
<1>4. base64Encode(m) \in [1..n -> Byte]
  BY Zenon, <1>2, <1>3
<1>5. PICK e \in [1..n -> Byte] : e = base64Encode(m)
  BY Zenon, <1>4
<1>6. e \in Seq(Byte) /\ Len(e) = n
  OBVIOUS
<1> QED
  BY Zenon, <1>1, <1>5, <1>6

\* The decoder at r of its group g: the bytes it stored, the bits it carries over.
Bits(r, c) == IF r = 1 THEN Low(c * 4) ELSE IF r = 2 THEN Low(c * 16) ELSE Low(c * 64)
Turned(g, r) == index = 4 * g + r /\ Len(out) = 3 * g + Before(r) /\ (r # 0 => carry = Bits(r, char2Base(src[index])))
Sizes == src \in Seq(Byte) /\ index \in 0..Len(src) /\ carry \in Nat /\ out \in Seq(Byte)
Copied ==
  /\ msg \in Seq(Byte) /\ src = base64Encode(msg)
  /\ Len(out) <= Len(msg) /\ \A k \in 1..Len(out) : out[k] = msg[k]
  /\ done => Len(out) = Len(msg)
Base64Inv == Sizes /\ (\E g \in Nat, r \in 0..3 : Turned(g, r)) /\ (msg # <<>> => Copied)

\* One turn of the loop, by the place of the character in its group.
Stored(r, t, c) == IF r = 1 THEN Low(t + c \div 16) ELSE IF r = 2 THEN Low(t + c \div 4) ELSE Low(t + c)
LEMMA TurnIs ==
  ASSUME NEW g \in Nat, NEW r \in 0..3, index = 4 * g + r, NEW c \in Code, Turn(c), carry \in Nat
  PROVE  /\ index' = index + 1 /\ carry' \in Nat
         /\ r = 0 => out' = out
         /\ r # 0 => Stored(r, carry, c) \in Byte /\ out' = Append(out, Stored(r, carry, c))
         /\ r # 3 => carry' = Bits(r + 1, c)
<1>1. index % 4 = r
  OBVIOUS
<1>2. index' = index + 1
  BY Zenon DEF Turn
<1>3. CASE r = 0
  <2>1. carry' = (c * 4) % 256 /\ out' = out
    BY SMT, <1>1, <1>3 DEF Turn
  <2>2. (c * 4) % 256 \in Nat /\ (c * 4) % 256 = Bits(r + 1, c)
    BY SMT, <1>3 DEF Bits, Low, Code
  <2> QED
    BY SMT, <1>2, <1>3, <2>1, <2>2
<1>4. CASE r = 1
  <2>1. carry' = (c * 16) % 256 /\ out' = Append(out, (carry + c \div 16) % 256)
    BY SMT, <1>1, <1>4 DEF Turn, Store
  <2>2. (c * 16) % 256 \in Nat /\ (c * 16) % 256 = Bits(r + 1, c) /\ (carry + c \div 16) % 256 \in Byte
    BY SMT, <1>4 DEF Bits, Low, Code, Byte
  <2>3. Stored(r, carry, c) = (carry + c \div 16) % 256
    BY SMT, <1>4 DEF Stored, Low
  <2> QED
    BY SMT, <1>2, <1>4, <2>1, <2>2, <2>3
<1>5. CASE r = 2
  <2>1. carry' = (c * 64) % 256 /\ out' = Append(out, (carry + c \div 4) % 256)
    BY SMT, <1>1, <1>5 DEF Turn, Store
  <2>2. (c * 64) % 256 \in Nat /\ (c * 64) % 256 = Bits(r + 1, c) /\ (carry + c \div 4) % 256 \in Byte
    BY SMT, <1>5 DEF Bits, Low, Code, Byte
  <2>3. Stored(r, carry, c) = (carry + c \div 4) % 256
    BY SMT, <1>5 DEF Stored, Low
  <2> QED
    BY SMT, <1>2, <1>5, <2>1, <2>2, <2>3
<1>6. CASE r = 3
  <2>1. carry' = carry /\ out' = Append(out, (carry + c) % 256)
    BY SMT, <1>1, <1>6 DEF Turn, Store
  <2>2. (carry + c) % 256 \in Byte
    BY SMT DEF Code, Byte
  <2>3. Stored(r, carry, c) = (carry + c) % 256
    BY SMT, <1>6 DEF Stored, Low
  <2> QED
    BY SMT, <1>2, <1>6, <2>1, <2>2, <2>3
<1> QED
  BY <1>3, <1>4, <1>5, <1>6

\* The turn for a character of the encoded message stores the message's next byte.
LEMMA TurnCopies ==
  ASSUME NEW g \in Nat, NEW r \in 1..3, Turned(g, r), Sizes, Copied, ~Ends
  PROVE  3 * g + r <= Len(msg) /\ Stored(r, carry, char2Base(src[index + 1])) = msg[3 * g + r]
<1>1. PICK n \in Nat : n = Len(msg) /\ Len(src) = 4 * ((n + 2) \div 3)
  <2>1. Len(src) = 4 * ((Len(msg) + 2) \div 3) /\ msg \in Seq(Byte)
    BY Zenon, EncodedType DEF Copied
  <2>2. Len(msg) \in Nat
    BY <2>1
  <2> QED
    BY Zenon, <2>1, <2>2
<1>2. index # Len(src) /\ src[index + 1] \notin {Pad, 0}
  BY Zenon DEF Ends
<1>3. index \in Nat /\ index < Len(src) /\ index = 4 * g + r /\ Len(src) \in Nat
  BY <1>2 DEF Sizes, Turned
<1>4. 3 * g + 1 <= n
  BY <1>1, <1>3
<1>5. PICK q \in 0..3 : q = r - 1 /\ q + 1 = r /\ 4 * g + q + 1 = index
  BY <1>3
<1>6. 4 * g + q < 4 * ((Len(msg) + 2) \div 3) /\ 4 * g + r < 4 * ((Len(msg) + 2) \div 3) /\ r \in 0..3
  BY <1>1, <1>3, <1>5
<1>7. PICK x : x = src[index]
  BY Zenon
<1>8. PICK y : y = src[index + 1]
  BY Zenon
<1>9. x = Group(msg, 3 * g + 1)[r]
  <2>1. base64Encode(msg)[4 * g + q + 1] = Group(msg, 3 * g + 1)[q + 1]
    BY Zenon, <1>6, EncodedAt DEF Copied
  <2> QED
    BY Zenon, <1>5, <1>7, <2>1 DEF Copied
<1>10. y = Group(msg, 3 * g + 1)[r + 1]
  <2>1. base64Encode(msg)[4 * g + r + 1] = Group(msg, 3 * g + 1)[r + 1]
    BY Zenon, <1>6, EncodedAt DEF Copied
  <2> QED
    BY Zenon, <1>3, <1>8, <2>1 DEF Copied
<1>11. /\ 3 * g + r <= Len(msg)
       /\ r = 1 => Low(Low(char2Base(x) * 4) + char2Base(y) \div 16) = msg[3 * g + 1]
       /\ r = 2 => Low(Low(char2Base(x) * 16) + char2Base(y) \div 4) = msg[3 * g + 2]
       /\ r = 3 => Low(Low(char2Base(x) * 64) + char2Base(y)) = msg[3 * g + 3]
  <2>1. y # Pad /\ msg \in Seq(Byte) /\ 3 * g + 1 <= Len(msg)
    BY Zenon, <1>1, <1>2, <1>4, <1>8 DEF Copied
  <2>2. Decodes(msg, g, r, x, y)
    BY Zenon, <1>9, <1>10, <2>1, GroupDecodes
  <2> QED
    BY Zenon, <2>2 DEF Decodes
<1>12. carry = Bits(r, char2Base(x))
  <2>1. r # 0
    OBVIOUS
  <2> QED
    BY Zenon, <1>7, <2>1 DEF Turned
<1>13. CASE r = 1
  BY Zenon, <1>8, <1>11, <1>12, <1>13 DEF Bits, Stored
<1>14. CASE r = 2
  <2>1. r # 1
    BY <1>14
  <2> QED
    BY Zenon, <1>8, <1>11, <1>12, <1>14, <2>1 DEF Bits, Stored
<1>15. CASE r = 3
  <2>1. r # 1 /\ r # 2
    BY <1>15
  <2> QED
    BY Zenon, <1>8, <1>11, <1>12, <1>15, <2>1 DEF Bits, Stored
<1> QED
  BY <1>13, <1>14, <1>15

\* At the end of the encoded text every byte of the message has been stored.
LEMMA EndIsWhole ==
  ASSUME NEW g \in Nat, NEW r \in 0..3, Turned(g, r), Sizes, Copied, Ends
  PROVE  Len(out) = Len(msg)
<1>1. PICK n \in Nat : n = Len(msg) /\ Len(src) = 4 * ((n + 2) \div 3)
  <2>1. Len(src) = 4 * ((Len(msg) + 2) \div 3) /\ msg \in Seq(Byte)
    BY Zenon, EncodedType DEF Copied
  <2>2. Len(msg) \in Nat
    BY <2>1
  <2> QED
    BY Zenon, <2>1, <2>2
<1>2. index = 4 * g + r /\ Len(out) = 3 * g + Before(r) /\ Len(out) <= n /\ index <= Len(src) /\ Len(src) \in Nat
  BY <1>1 DEF Turned, Copied, Sizes
<1>3. CASE index = Len(src)
  <2>1. 4 * g + r = 4 * ((n + 2) \div 3) /\ 3 * g + Before(r) <= n
    BY <1>1, <1>2, <1>3
  <2>2. r = 0 /\ Before(r) = 0
    BY <2>1 DEF Before
  <2>3. 3 * g = n
    BY <2>1, <2>2
  <2> QED
    BY <1>1, <1>2, <2>2, <2>3
<1>4. CASE index # Len(src)
  <2>1. src[index + 1] \in {Pad, 0}
    BY Zenon, <1>4 DEF Ends
  <2>2. 4 * g + r < 4 * ((Len(msg) + 2) \div 3)
    BY <1>1, <1>2, <1>4
  <2>3. src[index + 1] = Group(msg, 3 * g + 1)[r + 1]
    BY Zenon, <1>2, <2>2, EncodedAt DEF Copied
  <2>4. msg \in Seq(Byte)
    BY Zenon DEF Copied
  <2>5. /\ r = 2 => 3 * g + 2 > Len(msg)
        /\ r = 3 => 3 * g + 3 > Len(msg)
        /\ r \notin 0..1
    BY Zenon, <2>1, <2>3, <2>4, GroupIsBytes
  <2>6. Before(r) = r - 1
    BY <2>5 DEF Before
  <2> QED
    BY <1>1, <1>2, <2>5, <2>6
<1> QED
  BY <1>3, <1>4

LEMMA DecodeStep ==
  ASSUME Base64Inv, base64Decode
  PROVE  Base64Inv'
<1>1. Sizes /\ ~done
  BY Zenon DEF Base64Inv, base64Decode
<1>2. PICK g \in Nat, r \in 0..3 : Turned(g, r)
  BY Zenon DEF Base64Inv
<1>3. CASE Ends
  <2>1. UNCHANGED <<msg, src, index, carry, out>>
    BY Zenon, <1>3 DEF base64Decode, DecodeReturns
  <2>2. msg # <<>> => Copied'
    <3>1. SUFFICES ASSUME msg # <<>> PROVE Copied'
      OBVIOUS
    <3>2. Copied
      BY Zenon, <3>1 DEF Base64Inv
    <3>3. Len(out) = Len(msg)
      BY Zenon, <1>1, <1>2, <1>3, <3>2, EndIsWhole
    <3> QED
      BY Zenon, <2>1, <3>2, <3>3 DEF Copied
  <2>3. Sizes' /\ Turned(g, r)'
    BY Zenon, <1>1, <1>2, <2>1 DEF Sizes, Turned
  <2> QED
    BY Zenon, <2>1, <2>2, <2>3 DEF Base64Inv
<1>4. CASE ~Ends /\ char2Base(src[index + 1]) = 64
  <2>1. UNCHANGED b64
    BY Zenon, <1>4 DEF base64Decode
  <2> QED
    BY Zenon, <2>1 DEF b64, Base64Inv, Sizes, Turned, Copied
<1>5. CASE ~Ends /\ char2Base(src[index + 1]) # 64
  <2>1. PICK c : c = char2Base(src[index + 1])
    BY Zenon
  <2>2. Turn(c) /\ UNCHANGED <<msg, src, done>>
    BY Zenon, <1>5, <2>1 DEF base64Decode
  <2>3. index + 1 \in 1..Len(src) /\ index \in Nat /\ index + 1 \in 0..Len(src) /\ index = 4 * g + r
    <3>1. src \in Seq(Byte) /\ index \in 0..Len(src) /\ index # Len(src) /\ index = 4 * g + r
      BY Zenon, <1>1, <1>2, <1>5 DEF Sizes, Ends, Turned
    <3> QED
      BY <3>1
  <2>4. src[index + 1] \in Byte
    <3>1. src \in Seq(Byte)
      BY Zenon, <1>1 DEF Sizes
    <3> QED
      BY <2>3, <3>1
  <2>5. c \in Code
    BY Zenon, <1>5, <2>1, <2>4, TableIsCode
  <2>6. /\ index' = index + 1 /\ carry' \in Nat
        /\ r = 0 => out' = out
        /\ r # 0 => Stored(r, carry, c) \in Byte /\ out' = Append(out, Stored(r, carry, c))
        /\ r # 3 => carry' = Bits(r + 1, c)
    BY Zenon, <1>1, <2>2, <2>3, <2>5, TurnIs DEF Sizes
  <2>7. out \in Seq(Byte) /\ Len(out) = 3 * g + Before(r)
    BY Zenon, <1>1, <1>2 DEF Sizes, Turned
  <2>8. /\ out' \in Seq(Byte) /\ Len(out') = 3 * g + r
        /\ r # 0 => out'[Len(out')] = Stored(r, carry, c) /\ Len(out) = Len(out') - 1
        /\ \A k \in 1..Len(out) : out'[k] = out[k]
    <3>1. CASE r = 0
      BY <2>6, <2>7, <3>1 DEF Before
    <3>2. CASE r # 0
      <4>1. PICK b \in Byte : b = Stored(r, carry, c) /\ out' = Append(out, b)
        BY Zenon, <2>6, <3>2
      <4>2. Len(out) = 3 * g + r - 1
        BY <2>7, <3>2 DEF Before
      <4>3. /\ Append(out, b) \in Seq(Byte) /\ Len(Append(out, b)) = Len(out) + 1
            /\ Append(out, b)[Len(out) + 1] = b /\ \A k \in 1..Len(out) : Append(out, b)[k] = out[k]
        BY <2>7
      <4>4. Len(out') = 3 * g + r /\ Len(out) = Len(out') - 1 /\ Len(out') = Len(out) + 1
        BY <4>1, <4>2, <4>3
      <4> QED
        BY Zenon, <4>1, <4>3, <4>4
    <3> QED
      BY <3>1, <3>2
  <2>9. Sizes'
    <3>1. src' = src
      BY Zenon, <2>2
    <3> QED
      BY Zenon, <1>1, <2>3, <2>6, <2>8, <3>1 DEF Sizes
  <2>10. \E h \in Nat, q \in 0..3 : Turned(h, q)'
    <3>1. CASE r # 3
      <4>1. r + 1 \in 0..3 /\ index' = 4 * g + (r + 1) /\ Before(r + 1) = r
        BY <2>3, <2>6, <3>1 DEF Before
      <4>2. carry' = Bits(r + 1, char2Base(src'[index']))
        BY Zenon, <2>1, <2>2, <2>6, <3>1
      <4>3. Turned(g, r + 1)'
        BY Zenon, <2>8, <4>1, <4>2 DEF Turned
      <4> QED
        BY Zenon, <4>1, <4>3
    <3>2. CASE r = 3
      <4>1. g + 1 \in Nat /\ index' = 4 * (g + 1) + 0 /\ Len(out') = 3 * (g + 1) + Before(0) /\ 0 \in 0..3
        BY <2>3, <2>6, <2>8, <3>2 DEF Before
      <4>2. Turned(g + 1, 0)'
        BY Zenon, <4>1 DEF Turned
      <4> QED
        BY Zenon, <4>1, <4>2
    <3> QED
      BY <3>1, <3>2
  <2>11. ASSUME msg # <<>> PROVE Copied'
    <3>1. Copied
      BY Zenon, <2>11 DEF Base64Inv
    <3>2. Len(out') <= Len(msg) /\ \A k \in 1..Len(out') : out'[k] = msg[k]
      <4>1. CASE r = 0
        <5>1. out' = out
          BY Zenon, <2>6, <4>1
        <5> QED
          BY Zenon, <3>1, <5>1 DEF Copied
      <4>2. CASE r # 0
        <5>1. r \in 1..3
          BY <4>2
        <5>2. 3 * g + r <= Len(msg) /\ Stored(r, carry, c) = msg[3 * g + r]
          BY Zenon, <1>1, <1>2, <1>5, <2>1, <3>1, <5>1, TurnCopies
        <5>3. out'[Len(out')] = msg[Len(out')] /\ Len(out') <= Len(msg)
          BY Zenon, <2>8, <4>2, <5>2
        <5>4. ASSUME NEW k \in 1..Len(out') PROVE k = Len(out') \/ k \in 1..Len(out)
          <6>1. Len(out') \in Nat /\ Len(out) = Len(out') - 1
            BY <2>8, <4>2
          <6> QED
            BY <6>1
        <5>5. \A k \in 1..Len(out) : out[k] = msg[k]
          BY Zenon, <3>1 DEF Copied
        <5> QED
          BY Zenon, <2>8, <5>3, <5>4, <5>5
      <4> QED
        BY <4>1, <4>2
    <3> QED
      BY Zenon, <1>1, <2>2, <3>1, <3>2 DEF Copied
  <2> QED
    BY Zenon, <2>2, <2>9, <2>10, <2>11 DEF Base64Inv
<1> QED
  BY Zenon, <1>3, <1>4, <1>5

LEMMA StringsFacts ==
  ASSUME NEW S, S \subseteq Byte, NEW n \in Nat, NEW m \in Strings(S, n)
  PROVE  m \in Seq(Byte)
<1>1. PICK k \in 1..n : m \in [1..k -> S]
  BY Zenon DEF Strings
<1>2. m \in [1..k -> Byte] /\ k \in Nat
  BY <1>1
<1> QED
  BY <1>2

LEMMA Base64Start == Base64Init => Base64Inv
<1> SUFFICES ASSUME Base64Init PROVE Base64Inv
  OBVIOUS
<1>1. Octets \subseteq Byte /\ Text \subseteq Byte /\ MaxBytes \in Nat /\ MaxText \in Nat
  BY SMT, OctetsAssumption DEF Byte
<1>2. index = 0 /\ carry = 0 /\ out = <<>> /\ ~done
  BY Zenon DEF Base64Init
<1>3. src \in Seq(Byte) /\ (msg # <<>> => msg \in Seq(Byte) /\ src = base64Encode(msg))
  <2>1. CASE \E m \in Strings(Octets, MaxBytes) : msg = m /\ src = base64Encode(m)
    BY Zenon, <1>1, <2>1, StringsFacts, EncodedType
  <2>2. CASE \E s \in Strings(Text, MaxText) : msg = <<>> /\ src = s
    BY Zenon, <1>1, <2>2, StringsFacts
  <2> QED
    BY Zenon, <2>1, <2>2 DEF Base64Init
<1>4. Sizes
  BY <1>2, <1>3 DEF Sizes
<1>5. Turned(0, 0) /\ 0 \in Nat /\ 0 \in 0..3
  BY <1>2 DEF Turned, Before
<1>6. msg # <<>> => Len(out) <= Len(msg) /\ \A k \in 1..Len(out) : out[k] = msg[k]
  BY <1>2, <1>3
<1>7. msg # <<>> => Copied
  BY Zenon, <1>2, <1>3, <1>6 DEF Copied
<1> QED
  BY Zenon, <1>4, <1>5, <1>7 DEF Base64Inv

\* RoundTrip for messages and texts of any length over any bytes: the decoder gives
\* back what the encoder made, and both stay inside the strings they resized.
THEOREM RoundTripHolds == Base64Spec => []RoundTrip
<1>1. Base64Inv /\ [Base64Next]_b64 => Base64Inv'
  <2> SUFFICES ASSUME Base64Inv, [Base64Next]_b64 PROVE Base64Inv'
    OBVIOUS
  <2>1. CASE Base64Next
    BY Zenon, <2>1, DecodeStep DEF Base64Next
  <2>2. CASE UNCHANGED b64
    BY Zenon, <2>2 DEF b64, Base64Inv, Sizes, Turned, Copied
  <2> QED
    BY Zenon, <2>1, <2>2
<1>2. Base64Inv => RoundTrip
  <2> SUFFICES ASSUME Base64Inv PROVE RoundTrip
    OBVIOUS
  <2>1. DecodesBack
    <3>1. SUFFICES ASSUME done, msg # <<>> PROVE out = msg
      BY Zenon DEF DecodesBack
    <3>2. out \in Seq(Byte) /\ msg \in Seq(Byte) /\ Len(out) = Len(msg) /\ \A k \in 1..Len(out) : out[k] = msg[k]
      BY Zenon, <3>1 DEF Base64Inv, Sizes, Copied
    <3> QED
      BY <3>2
  <2>2. Len(out) <= base64DecodeLen(Len(src))
    <3>1. PICK g \in Nat, r \in 0..3 : Turned(g, r)
      BY Zenon DEF Base64Inv
    <3>2. src \in Seq(Byte) /\ index \in 0..Len(src) /\ index = 4 * g + r /\ Len(out) = 3 * g + Before(r)
      BY Zenon, <3>1 DEF Base64Inv, Sizes, Turned
    <3>3. PICK n \in Nat : n = Len(src) /\ 4 * g + r <= n
      BY <3>2
    <3>4. 3 * g + Before(r) <= (n \div 4) * 3 + 2
      BY <3>3 DEF Before
    <3> QED
      BY Zenon, <3>2, <3>3, <3>4 DEF base64DecodeLen
  <2>3. msg # <<>> => Len(src) + 1 <= base64EncodeLen(Len(msg))
    <3>1. SUFFICES ASSUME msg # <<>> PROVE Len(src) + 1 <= base64EncodeLen(Len(msg))
      OBVIOUS
    <3>2. msg \in Seq(Byte) /\ Len(src) = 4 * ((Len(msg) + 2) \div 3)
      BY Zenon, <3>1, EncodedType DEF Base64Inv, Copied
    <3> QED
      BY <3>2 DEF base64EncodeLen
  <2> QED
    BY Zenon, <2>1, <2>2, <2>3 DEF RoundTrip, StaysInside
<1> QED
  BY <1>1, <1>2, Base64Start, PTL DEF Base64Spec

-----------------------------------------------------------------------------
(* RedisDao.                                                               *)

\* HGETALL's answer names each field once, its value behind it.
Hash(h) == IsFiniteSet(DOMAIN h) /\ h = [f \in DOMAIN h |-> h[f]]
Turns(e, h, n, fs) ==
  /\ n \in Nat /\ fs \in [1..n -> DOMAIN h]
  /\ \A j, k \in 1..n : fs[j] = fs[k] => j = k
  /\ \A f \in DOMAIN h : \E j \in 1..n : fs[j] = f
  /\ e = [k \in 1..2 * n |-> IF k % 2 = 1 THEN fs[(k + 1) \div 2] ELSE h[fs[k \div 2]]]

LEMMA FlatIs ==
  ASSUME NEW h, Hash(h)
  PROVE  \E n, fs : n = Cardinality(DOMAIN h) /\ Turns(Flat(h), h, n, fs)
<1> DEFINE n == Cardinality(DOMAIN h)
           fs == CHOOSE fs \in Bijection(1..n, DOMAIN h) : TRUE
<1>1. Flat(h) = [k \in 1..2 * n |-> IF k % 2 = 1 THEN fs[(k + 1) \div 2] ELSE h[fs[k \div 2]]]
  BY Zenon DEF Flat
<1>2. n \in Nat /\ Bijection(1..n, DOMAIN h) # {}
  BY Zenon, FS_CardinalityType DEF Hash, ExistsBijection
<1>3. fs \in Bijection(1..n, DOMAIN h)
  BY Zenon, <1>2
<1>n. n = Cardinality(DOMAIN h)
  BY Zenon
<1> HIDE DEF n, fs
<1>4. /\ fs \in [1..n -> DOMAIN h] /\ (\A j, k \in 1..n : fs[j] = fs[k] => j = k)
      /\ \A f \in DOMAIN h : \E j \in 1..n : fs[j] = f
  BY Zenon, <1>3 DEF Bijection, Injection, Surjection, IsInjective
<1>5. Turns(Flat(h), h, n, fs)
  BY Zenon, <1>1, <1>2, <1>4 DEF Turns
<1> QED
  BY Zenon, <1>n, <1>5

LEMMA TurnsAt ==
  ASSUME NEW e, NEW h, NEW n, NEW fs, Turns(e, h, n, fs)
  PROVE  /\ DOMAIN e = 1..2 * n /\ Len(e) = 2 * n
         /\ \A j \in 1..n : e[2 * j - 1] = fs[j] /\ e[(2 * j - 1) + 1] = h[fs[j]]
<1>1. n \in Nat /\ e = [k \in 1..2 * n |-> IF k % 2 = 1 THEN fs[(k + 1) \div 2] ELSE h[fs[k \div 2]]]
  BY Zenon DEF Turns
<1>2. DOMAIN e = 1..2 * n
  BY Zenon, <1>1
<1>3. Len(e) = 2 * n
  BY <1>1, <1>2
<1>4. ASSUME NEW j \in 1..n PROVE e[2 * j - 1] = fs[j] /\ e[(2 * j - 1) + 1] = h[fs[j]]
  <2>1. 2 * j - 1 \in 1..2 * n /\ (2 * j - 1) % 2 = 1 /\ ((2 * j - 1) + 1) \div 2 = j
    BY <1>1
  <2>2. (2 * j - 1) + 1 \in 1..2 * n /\ ((2 * j - 1) + 1) % 2 # 1
    BY <1>1
  <2>3. e[2 * j - 1] = fs[j]
    BY Zenon, <1>1, <2>1
  <2>4. e[(2 * j - 1) + 1] = h[fs[j]]
    BY Zenon, <1>1, <2>1, <2>2
  <2> QED
    BY <2>3, <2>4
<1> QED
  BY Zenon, <1>2, <1>3, <1>4

\* e lists each field of the hash h once, its value behind it.
Listed(e, h) ==
  /\ Len(e) = 2 * Cardinality(DOMAIN h)
  /\ {<<e[2 * k - 1], e[2 * k]>> : k \in 1..Cardinality(DOMAIN h)} = {<<f, h[f]>> : f \in DOMAIN h}

LEMMA FlatIsListed ==
  ASSUME NEW h, Hash(h)
  PROVE  Listed(Flat(h), h)
<1>e. PICK e : e = Flat(h)
  BY Zenon
<1>1. PICK n, fs : n = Cardinality(DOMAIN h) /\ Turns(e, h, n, fs)
  BY Zenon, <1>e, FlatIs
<1>2. Len(e) = 2 * n
  BY Zenon, <1>1, TurnsAt
<1>3. /\ n \in Nat /\ fs \in [1..n -> DOMAIN h]
      /\ \A f \in DOMAIN h : \E j \in 1..n : fs[j] = f
  BY Zenon, <1>1 DEF Turns
<1>4. \A j \in 1..n : (2 * j - 1) + 1 = 2 * j
  BY <1>3
<1>5. ASSUME NEW j \in 1..n PROVE <<e[2 * j - 1], e[2 * j]>> = <<fs[j], h[fs[j]]>> /\ fs[j] \in DOMAIN h
  <2>1. e[2 * j - 1] = fs[j] /\ e[(2 * j - 1) + 1] = h[fs[j]]
    BY <1>1, TurnsAt
  <2> QED
    BY Zenon, <1>3, <1>4, <2>1
<1>6. ASSUME NEW f \in DOMAIN h PROVE \E j \in 1..n : <<f, h[f]>> = <<e[2 * j - 1], e[2 * j]>>
  <2>1. PICK j \in 1..n : fs[j] = f
    BY Zenon, <1>3
  <2>2. <<f, h[f]>> = <<e[2 * j - 1], e[2 * j]>>
    BY Zenon, <1>5, <2>1
  <2> QED
    BY Zenon, <2>2
<1>7. {<<e[2 * k - 1], e[2 * k]>> : k \in 1..n} = {<<f, h[f]>> : f \in DOMAIN h}
  BY <1>5, <1>6
<1> QED
  BY Zenon, <1>e, <1>1, <1>2, <1>7 DEF Listed

\* redis_hgetall_2 makes the hash of it again.
LEMMA HashBack ==
  ASSUME NEW h, Hash(h), NEW r, Elements(r) = Flat(h)
  PROVE  redis_hgetall_2(r) = h
<1> DEFINE e == Elements(r)
           keys == {k \in DOMAIN e : k % 2 = 1 /\ k < Len(e)}
<1>1. PICK n, fs : Turns(e, h, n, fs)
  BY Zenon, FlatIs
<1>2. n \in Nat /\ fs \in [1..n -> DOMAIN h]
  BY Zenon, <1>1 DEF Turns
<1>3. redis_hgetall_2(r) = [f \in {e[k] : k \in keys} |-> e[(CHOOSE k \in keys : e[k] = f) + 1]]
  BY Zenon DEF redis_hgetall_2
<1> HIDE DEF e
<1>4. DOMAIN e = 1..2 * n /\ Len(e) = 2 * n
  BY Zenon, <1>1, TurnsAt
<1>5. \A j \in 1..n : e[2 * j - 1] = fs[j] /\ e[(2 * j - 1) + 1] = h[fs[j]]
  BY <1>1, TurnsAt
<1>6. \A k : k \in keys <=> \E j \in 1..n : k = 2 * j - 1
  <2>1. ASSUME NEW k \in 1..2 * n, k % 2 = 1 PROVE \E j \in 1..n : k = 2 * j - 1
    <3>1. (k + 1) \div 2 \in 1..n /\ k = 2 * ((k + 1) \div 2) - 1
      BY <1>2, <2>1
    <3> QED
      BY Zenon, <3>1
  <2>2. ASSUME NEW j \in 1..n PROVE 2 * j - 1 \in 1..2 * n /\ (2 * j - 1) % 2 = 1 /\ 2 * j - 1 < 2 * n
    BY <1>2
  <2> QED
    BY Zenon, <1>4, <2>1, <2>2
<1> HIDE DEF keys
<1>7. {e[k] : k \in keys} = DOMAIN h
  <2>1. ASSUME NEW k \in keys PROVE e[k] \in DOMAIN h
    <3>1. PICK j \in 1..n : k = 2 * j - 1
      BY Zenon, <1>6, <2>1
    <3>2. e[k] = fs[j] /\ fs[j] \in DOMAIN h
      BY Zenon, <1>2, <1>5, <3>1
    <3> QED
      BY Zenon, <3>2
  <2>2. ASSUME NEW f \in DOMAIN h PROVE \E k \in keys : e[k] = f
    <3>1. PICK j \in 1..n : fs[j] = f
      BY Zenon, <1>1 DEF Turns
    <3> QED
      BY Zenon, <1>5, <1>6, <3>1
  <2> QED
    BY Zenon, <2>1, <2>2
<1>8. ASSUME NEW f \in DOMAIN h PROVE e[(CHOOSE k \in keys : e[k] = f) + 1] = h[f]
  <2>1. PICK k : k = CHOOSE x \in keys : e[x] = f
    BY Zenon
  <2>2. k \in keys /\ e[k] = f
    BY Zenon, <1>7, <2>1
  <2>3. PICK j \in 1..n : k = 2 * j - 1
    BY Zenon, <1>6, <2>2
  <2>4. e[k] = fs[j] /\ e[k + 1] = h[fs[j]]
    BY Zenon, <1>5, <2>3
  <2> QED
    BY Zenon, <2>1, <2>2, <2>4
<1>9. [f \in {e[k] : k \in keys} |-> e[(CHOOSE k \in keys : e[k] = f) + 1]] = [f \in DOMAIN h |-> h[f]]
  BY <1>7, <1>8
<1> QED
  BY Zenon, <1>3, <1>9 DEF Hash

LEMMA NoElements ==
  ASSUME NEW r, r.type # "array"
  PROVE  redis_hgetall_2(r) = [f \in {} |-> 0] /\ redis_lrange(r) = <<>> /\ redis_hgetall(r) = <<>>
<1>1. Elements(r) = <<>>
  BY Zenon DEF Elements
<1>2. DOMAIN <<>> = {}
  OBVIOUS
<1> DEFINE e == Elements(r)
           keys == {k \in DOMAIN e : k % 2 = 1 /\ k < Len(e)}
<1>3. redis_hgetall_2(r) = [f \in {e[k] : k \in keys} |-> e[(CHOOSE k \in keys : e[k] = f) + 1]]
  BY Zenon DEF redis_hgetall_2
<1>4. keys = {}
  BY Zenon, <1>1, <1>2
<1> HIDE DEF e, keys
<1>5. {e[k] : k \in keys} = {}
  BY Zenon, <1>4
<1>6. redis_hgetall_2(r) = [f \in {} |-> 0]
  BY Zenon, <1>3, <1>5
<1> QED
  BY Zenon, <1>1, <1>6 DEF redis_lrange, redis_hgetall

\* A command leaves the hash a hash.
LEMMA EffectHash ==
  ASSUME NEW s, NEW c, Hash(s.hash)
  PROVE  Hash(Effect(s, c).hash)
<1>1. PICK h : h = s.hash /\ Hash(h)
  BY Zenon
<1>2. Effect(s, c).hash = HashAfter(h, c)
  BY Zenon, <1>1 DEF Effect
<1>3. CASE c.op = "hset"
  <2>1. PICK x : x = [f \in DOMAIN h \cup {c.f} |-> IF f = c.f THEN c.v ELSE h[f]]
    BY Zenon
  <2>2. DOMAIN x = DOMAIN h \cup {c.f} /\ x = [f \in DOMAIN x |-> x[f]]
    BY Zenon, <2>1
  <2>3. IsFiniteSet(DOMAIN h \cup {c.f})
    BY Zenon, <1>1, FS_AddElement DEF Hash
  <2>4. HashAfter(h, c) = x
    BY Zenon, <1>3, <2>1 DEF HashAfter
  <2> QED
    BY Zenon, <1>2, <2>2, <2>3, <2>4 DEF Hash
<1>4. CASE c.op = "hdel"
  <2>1. PICK x : x = [f \in DOMAIN h \ {c.f} |-> h[f]]
    BY Zenon
  <2>2. DOMAIN x = DOMAIN h \ {c.f} /\ x = [f \in DOMAIN x |-> x[f]]
    BY Zenon, <2>1
  <2>3. IsFiniteSet(DOMAIN h \ {c.f})
    BY Zenon, <1>1, FS_RemoveElement DEF Hash
  <2>4. HashAfter(h, c) = x
    BY Zenon, <1>4, <2>1 DEF HashAfter
  <2> QED
    BY Zenon, <1>2, <2>2, <2>3, <2>4 DEF Hash
<1>5. CASE c.op # "hset" /\ c.op # "hdel"
  <2>1. HashAfter(h, c) = h
    BY Zenon, <1>5 DEF HashAfter
  <2> QED
    BY Zenon, <1>1, <1>2, <2>1
<1> QED
  BY Zenon, <1>3, <1>4, <1>5

LEMMA EmptyHash == Hash(Empty.hash) /\ Hash(NoTx.st.hash)
<1>1. PICK h : h = [f \in {} |-> 0] /\ h = Empty.hash /\ h = NoTx.st.hash
  BY Zenon DEF Empty, NoTx
<1>2. DOMAIN h = {} /\ h = [f \in DOMAIN h |-> h[f]]
  BY Zenon, <1>1
<1>3. IsFiniteSet({})
  BY Zenon, FS_EmptySet
<1> QED
  BY Zenon, <1>1, <1>2, <1>3 DEF Hash

\* The call a step records.
RedisCall(op, r, did, in, lost, n) ==
  [op |-> op, ret |-> Ret(op, r), out |-> Out(op, r), done |-> did, multi |-> in, lost |-> lost, n |-> n]

\* The conjuncts of RedisIsTrue for a call: the data it left, and the context.
CallIsTrue(k, s, c) ==
  /\ k.ret = 0 /\ k.op \notin {"hget", "hdel", "hgetall", "hgetall_2", "lrange"} => k.done
  /\ k.ret = -1 /\ k.done =>
       \/ k.op \in {"expire", "hset"} /\ ~k.multi
       \/ k.op \in {"get", "del", "lpush", "lpop", "rpush", "rpop", "lrem"} /\ k.multi
       \/ k.op = "exec" /\ k.n = 0
       \/ k.lost /\ c \in {"broken", "corrupt"}
  /\ k.op = "exec" /\ k.ret = 0 => k.n > 0 /\ k.multi /\ ~k.lost
  /\ k.op = "hgetall" => IF k.multi \/ k.lost THEN k.out = <<>> ELSE Listed(k.out, s.hash)
  /\ k.op = "hgetall_2" => k.out = (IF k.multi \/ k.lost THEN [f \in {} |-> 0] ELSE s.hash)
  /\ k.op = "lrange" => k.out = (IF k.multi \/ k.lost THEN <<>> ELSE s.list)
  /\ c = "corrupt" <=> k.op = "hdel"

LEMMA RedisIsTrueIs == RedisIsTrue <=> CallIsTrue(last, st, ctx)
  BY Zenon DEF RedisIsTrue, SuccessIsTrue, FailureIsTrue, ExecIsNotEmpty, ReadsAreExact, CorruptByHdel, CallIsTrue, Listed

LEMMA RedisIsTrueIs2 == RedisIsTrue' <=> CallIsTrue(last', st', ctx')
  BY Zenon DEF RedisIsTrue, SuccessIsTrue, FailureIsTrue, ExecIsNotEmpty, ReadsAreExact, CorruptByHdel, CallIsTrue, Listed

Excused == {"hget", "hdel", "hgetall", "hgetall_2", "lrange"}
AllCalls == Writes \cup Reads \cup Control

\* What the functions make of each reply.
LEMMA OnNull ==
  ASSUME NEW op \in AllCalls, op \notin Excused
  PROVE  Ret(op, Null) = -1
  BY SMT DEF AllCalls, Excused, Writes, Reads, Control, Ret, Null, Reply, Ok, redis_expire, redis_multi, redis_discard,
    redis_exec, redis_set, redis_get, redis_del, redis_hset, redis_lpush, redis_lpop, redis_rpush, redis_rpop, redis_lrem

Waiting == {"get", "del", "lpush", "lpop", "rpush", "rpop", "lrem"}
Queued == Reply("status", 0, "QUEUED")

LEMMA OnQueued ==
  ASSUME NEW op \in Writes \cup Reads, op \notin Waiting
  PROVE  Ret(op, Queued) = 0
  BY SMT DEF Writes, Reads, Waiting, Ret, Queued, Reply, Ok, redis_expire, redis_multi, redis_discard,
    redis_exec, redis_set, redis_get, redis_del, redis_hset, redis_hget, redis_hdel, redis_lpush, redis_lpop, redis_rpush, redis_rpop, redis_lrem

\* An answer: 0 only for a command that found what it was about, -1 for one that
\* did only where a status was awaited.
LEMMA OnAnswer ==
  ASSUME NEW s, NEW c \in Commands, c.op \notin Excused, c.op \notin {"expire", "hset"}
  PROVE  Ret(c.op, Answer(s, c)) = Ok(Did(s, c))
<1>1. c.op \in {"set", "get", "del", "lpush", "rpush", "lpop", "rpop", "lrem"}
  BY SMT DEF Commands, Writes, Reads, Excused
<1>2. CASE c.op = "set"
  BY SMT, <1>2 DEF Ret, Ok, Answer, Did, Reply, redis_set
<1>3. CASE c.op = "get"
  BY SMT, <1>3 DEF Ret, Ok, Answer, Did, Reply, Found, redis_get
<1>4. CASE c.op = "del"
  BY SMT, <1>4 DEF Ret, Ok, Answer, Did, Reply, redis_del
<1>5. CASE c.op = "lpush"
  BY SMT, <1>5 DEF Ret, Ok, Answer, Did, Reply, redis_lpush
<1>6. CASE c.op = "rpush"
  BY SMT, <1>6 DEF Ret, Ok, Answer, Did, Reply, redis_rpush
<1>7. CASE c.op = "lpop"
  BY SMT, <1>7 DEF Ret, Ok, Answer, Did, Reply, Found, redis_lpop
<1>8. CASE c.op = "rpop"
  BY SMT, <1>8 DEF Ret, Ok, Answer, Did, Reply, Found, redis_rpop
<1>9. CASE c.op = "lrem"
  BY SMT, <1>9 DEF Ret, Ok, Answer, Did, Reply, redis_lrem
<1> QED
  BY Zenon, <1>1, <1>2, <1>3, <1>4, <1>5, <1>6, <1>7, <1>8, <1>9

LEMMA OnStatus ==
  ASSUME NEW s, NEW c, c.op \in {"expire", "hset"}
  PROVE  Ret(c.op, Answer(s, c)) = -1
<1>1. CASE c.op = "expire"
  BY SMT, <1>1 DEF Ret, Ok, Answer, Reply, redis_expire
<1>2. CASE c.op = "hset"
  BY SMT, <1>2 DEF Ret, Ok, Answer, Reply, redis_hset
<1> QED
  BY Zenon, <1>1, <1>2

LEMMA OnRead ==
  ASSUME NEW s, NEW c, Hash(s.hash)
  PROVE  /\ c.op = "hgetall" => Listed(Out(c.op, Answer(s, c)), s.hash) /\ Effect(s, c).hash = s.hash
         /\ c.op = "hgetall_2" => Out(c.op, Answer(s, c)) = s.hash /\ Effect(s, c).hash = s.hash
         /\ c.op = "lrange" => Out(c.op, Answer(s, c)) = s.list /\ Effect(s, c).list = s.list
<1>1. CASE c.op = "hgetall_2"
  <2>1. PICK r : r = Answer(s, c)
    BY Zenon
  <2>2. r.type = "array" /\ r.body = Flat(s.hash)
    BY SMT, <1>1, <2>1 DEF Answer, Reply
  <2>3. Elements(r) = Flat(s.hash)
    BY Zenon, <2>2 DEF Elements
  <2>4. redis_hgetall_2(r) = s.hash
    BY Zenon, <2>3, HashBack
  <2>5. Out(c.op, r) = redis_hgetall_2(r)
    BY SMT, <1>1 DEF Out
  <2>6. HashAfter(s.hash, c) = s.hash
    BY SMT, <1>1 DEF HashAfter
  <2>7. Effect(s, c).hash = s.hash
    BY Zenon, <2>6 DEF Effect
  <2>8. c.op \notin {"hgetall", "lrange"}
    BY SMT, <1>1
  <2> QED
    BY Zenon, <2>1, <2>4, <2>5, <2>7, <2>8
<1>2. CASE c.op = "lrange"
  <2>1. PICK r : r = Answer(s, c)
    BY Zenon
  <2>2. r.type = "array" /\ r.body = s.list
    BY SMT, <1>2, <2>1 DEF Answer, Reply
  <2>3. redis_lrange(r) = s.list
    BY Zenon, <2>2 DEF Elements, redis_lrange
  <2>4. Out(c.op, r) = redis_lrange(r)
    BY SMT, <1>2 DEF Out
  <2>5. ListAfter(s.list, c) = s.list
    BY SMT, <1>2 DEF ListAfter
  <2>6. Effect(s, c).list = s.list
    BY Zenon, <2>5 DEF Effect
  <2>7. c.op \notin {"hgetall", "hgetall_2"}
    BY SMT, <1>2
  <2> QED
    BY Zenon, <2>1, <2>3, <2>4, <2>6, <2>7
<1>3. CASE c.op = "hgetall"
  <2>1. PICK r : r = Answer(s, c)
    BY Zenon
  <2>2. r.type = "array" /\ r.body = Flat(s.hash)
    BY SMT, <1>3, <2>1 DEF Answer, Reply
  <2>3. redis_hgetall(r) = Flat(s.hash)
    BY Zenon, <2>2 DEF Elements, redis_hgetall
  <2>4. Out(c.op, r) = redis_hgetall(r)
    BY SMT, <1>3 DEF Out
  <2>5. HashAfter(s.hash, c) = s.hash
    BY SMT, <1>3 DEF HashAfter
  <2>6. Effect(s, c).hash = s.hash
    BY Zenon, <2>5 DEF Effect
  <2>7. c.op \notin {"hgetall_2", "lrange"}
    BY SMT, <1>3
  <2> QED
    BY Zenon, <2>1, <2>3, <2>4, <2>6, <2>7, FlatIsListed
<1> QED
  BY Zenon, <1>1, <1>2, <1>3

LEMMA OnNothing ==
  ASSUME NEW op, NEW r, r.type # "array"
  PROVE  (op = "hgetall_2" => Out(op, r) = [f \in {} |-> 0]) /\ (op \in {"hgetall", "lrange"} => Out(op, r) = <<>>)
<1>1. op = "hgetall_2" => Out(op, r) = redis_hgetall_2(r)
  BY SMT DEF Out
<1>2. op = "lrange" => Out(op, r) = redis_lrange(r)
  BY SMT DEF Out
<1>3. op = "hgetall" => Out(op, r) = redis_hgetall(r)
  BY SMT DEF Out
<1> QED
  BY Zenon, <1>1, <1>2, <1>3, NoElements

\* A call whose reply is NULL, whatever the server did.
LEMMA LostIsTrue ==
  ASSUME NEW op \in AllCalls, NEW did, NEW in, NEW n, NEW s,
         NEW c \in {"broken", "corrupt"}, c = "corrupt" <=> op = "hdel"
  PROVE  CallIsTrue(RedisCall(op, Null, did, in, TRUE, n), s, c)
<1>1. PICK k : k = RedisCall(op, Null, did, in, TRUE, n)
  BY Zenon
<1>2. /\ k.op = op /\ k.ret = Ret(op, Null) /\ k.out = Out(op, Null) /\ k.lost
  BY Zenon, <1>1 DEF RedisCall
<1>3. Null.type # "array"
  BY SMT DEF Null, Reply
<1>4. k.ret = 0 => op \in Excused
  <2>1. -1 # 0
    OBVIOUS
  <2> QED
    BY Zenon, <1>2, <2>1, OnNull
<1>5. op # "exec" \/ k.ret # 0
  BY SMT, <1>4 DEF Excused
<1>6. (op = "hgetall_2" => k.out = [f \in {} |-> 0]) /\ (op \in {"hgetall", "lrange"} => k.out = <<>>)
  BY Zenon, <1>2, <1>3, OnNothing
<1>7. CallIsTrue(k, s, c)
  BY Zenon, <1>2, <1>4, <1>5, <1>6 DEF CallIsTrue, Excused
<1> QED
  BY Zenon, <1>1, <1>7

\* A command that was queued.
LEMMA QueuedIsTrue ==
  ASSUME NEW op \in Writes \cup Reads, NEW n, NEW s, NEW c, c = "corrupt" <=> op = "hdel"
  PROVE  CallIsTrue(RedisCall(op, Queued, TRUE, TRUE, FALSE, n), s, c)
<1>1. PICK k : k = RedisCall(op, Queued, TRUE, TRUE, FALSE, n)
  BY Zenon
<1>2. /\ k.op = op /\ k.ret = Ret(op, Queued) /\ k.out = Out(op, Queued) /\ k.done /\ k.multi
  BY Zenon, <1>1 DEF RedisCall
<1>3. Queued.type # "array"
  BY SMT DEF Queued, Reply
<1>4. k.ret = -1 => op \in Waiting
  <2>1. -1 # 0
    OBVIOUS
  <2> QED
    BY Zenon, <1>2, <2>1, OnQueued
<1>5. op # "exec"
  BY SMT DEF Writes, Reads
<1>6. (op = "hgetall_2" => k.out = [f \in {} |-> 0]) /\ (op \in {"hgetall", "lrange"} => k.out = <<>>)
  BY Zenon, <1>2, <1>3, OnNothing
<1>7. CallIsTrue(k, s, c)
  BY Zenon, <1>2, <1>4, <1>5, <1>6 DEF CallIsTrue, Waiting
<1> QED
  BY Zenon, <1>1, <1>7

\* A command the server executed.
LEMMA AnsweredIsTrue ==
  ASSUME NEW m \in Commands, NEW n, NEW s, Hash(s.hash), NEW c, c = "corrupt" <=> m.op = "hdel"
  PROVE  CallIsTrue(RedisCall(m.op, Answer(s, m), Did(s, m), FALSE, FALSE, n), Effect(s, m), c)
<1>1. PICK k : k = RedisCall(m.op, Answer(s, m), Did(s, m), FALSE, FALSE, n)
  BY Zenon
<1>2. /\ k.op = m.op /\ k.ret = Ret(m.op, Answer(s, m)) /\ k.out = Out(m.op, Answer(s, m))
      /\ (k.done <=> Did(s, m)) /\ ~k.multi /\ ~k.lost
  <2>1. Did(s, m) \in BOOLEAN
    BY Zenon DEF Did
  <2> QED
    BY Zenon, <1>1, <2>1 DEF RedisCall
<1>3. m.op # "exec"
  BY SMT DEF Commands, Writes, Reads
<1>4. k.ret = 0 /\ m.op \notin Excused => k.done
  <2>1. CASE m.op \in {"expire", "hset"}
    <3>1. Ret(m.op, Answer(s, m)) = -1
      BY SMT, <2>1, OnStatus
    <3>2. Ret(m.op, Answer(s, m)) # 0
      BY SMT, <3>1
    <3> QED
      BY Zenon, <1>2, <3>2
  <2>2. CASE m.op \notin {"expire", "hset"}
    <3>1. Ok(FALSE) # 0
      BY DEF Ok
    <3> QED
      BY Zenon, <1>2, <2>2, <3>1, OnAnswer DEF Ok
  <2> QED
    BY Zenon, <2>1, <2>2
<1>5. k.ret = -1 /\ k.done => m.op \in {"expire", "hset"}
  <2>1. ASSUME m.op \in Excused PROVE k.ret = 0
    <3>1. Ret(m.op, Answer(s, m)) = 0
      BY SMT, <2>1 DEF Excused, Ret, redis_hget, redis_hdel
    <3> QED
      BY Zenon, <1>2, <3>1
  <2>2. ASSUME m.op \notin Excused, m.op \notin {"expire", "hset"}, k.done PROVE k.ret = 0
    BY Zenon, <1>2, <2>2, OnAnswer DEF Ok
  <2>3. -1 # 0
    OBVIOUS
  <2> QED
    BY Zenon, <2>1, <2>2, <2>3
<1>6. /\ m.op = "hgetall" => Listed(k.out, Effect(s, m).hash)
      /\ m.op = "hgetall_2" => k.out = Effect(s, m).hash
      /\ m.op = "lrange" => k.out = Effect(s, m).list
  BY Zenon, <1>2, OnRead
<1>7. CallIsTrue(k, Effect(s, m), c)
  BY Zenon, <1>2, <1>3, <1>4, <1>5, <1>6 DEF CallIsTrue, Excused
<1> QED
  BY Zenon, <1>1, <1>7

\* MULTI, EXEC and DISCARD, refused or not.
LEMMA RefusedIsTrue ==
  ASSUME NEW op \in Control, NEW in, NEW n, NEW s, NEW c, c # "corrupt"
  PROVE  CallIsTrue(RedisCall(op, Reply("error", 0, <<>>), FALSE, in, FALSE, n), s, c)
<1>1. PICK k : k = RedisCall(op, Reply("error", 0, <<>>), FALSE, in, FALSE, n)
  BY Zenon
<1>2. k.op = op /\ k.ret = Ret(op, Reply("error", 0, <<>>)) /\ ~k.done
  BY Zenon, <1>1 DEF RedisCall
<1>3. Ret(op, Reply("error", 0, <<>>)) = -1
  BY SMT DEF Control, Ret, Reply, Ok, redis_multi, redis_exec, redis_discard
<1>4. Ret(op, Reply("error", 0, <<>>)) # 0
  BY SMT, <1>3
<1>5. op \notin {"hgetall", "hgetall_2", "lrange", "hdel"}
  BY SMT DEF Control
<1>6. CallIsTrue(k, s, c)
  BY Zenon, <1>2, <1>4, <1>5 DEF CallIsTrue
<1> QED
  BY Zenon, <1>1, <1>6

LEMMA AcceptedIsTrue ==
  ASSUME NEW op \in {"multi", "discard"}, NEW in, NEW n, NEW s, NEW c, c # "corrupt"
  PROVE  CallIsTrue(RedisCall(op, Reply("status", 0, "OK"), TRUE, in, FALSE, n), s, c)
<1>1. PICK k : k = RedisCall(op, Reply("status", 0, "OK"), TRUE, in, FALSE, n)
  BY Zenon
<1>2. k.op = op /\ k.ret = Ret(op, Reply("status", 0, "OK")) /\ k.done
  BY Zenon, <1>1 DEF RedisCall
<1>3. Ret(op, Reply("status", 0, "OK")) = 0
  BY SMT DEF Ret, Reply, Ok, redis_multi, redis_discard
<1>4. Ret(op, Reply("status", 0, "OK")) # -1
  BY SMT, <1>3
<1>5. op \notin {"hgetall", "hgetall_2", "lrange", "hdel", "exec"}
  BY SMT
<1>6. CallIsTrue(k, s, c)
  BY Zenon, <1>2, <1>4, <1>5 DEF CallIsTrue
<1> QED
  BY Zenon, <1>1, <1>6

LEMMA ExecutedIsTrue ==
  ASSUME NEW n \in Nat, NEW s, NEW c, c # "corrupt"
  PROVE  CallIsTrue(RedisCall("exec", Reply("array", n, <<>>), TRUE, TRUE, FALSE, n), s, c)
<1>1. PICK k : k = RedisCall("exec", Reply("array", n, <<>>), TRUE, TRUE, FALSE, n)
  BY Zenon
<1>2. k.op = "exec" /\ k.ret = Ret("exec", Reply("array", n, <<>>)) /\ k.done /\ k.multi /\ ~k.lost /\ k.n = n
  BY Zenon, <1>1 DEF RedisCall
<1>3. Ret("exec", Reply("array", n, <<>>)) = IF n # 0 THEN 0 ELSE -1
  BY SMT DEF Ret, Reply, Ok, redis_exec
<1>4. (k.ret = 0 => k.n > 0) /\ (k.ret = -1 => k.n = 0)
  BY SMT, <1>2, <1>3
<1>5. "exec" \notin {"hgetall", "hgetall_2", "lrange", "hdel"}
  BY SMT
<1>6. CallIsTrue(k, s, c)
  BY Zenon, <1>2, <1>4, <1>5 DEF CallIsTrue
<1> QED
  BY Zenon, <1>1, <1>6

\* The invariant: both data hold a hash, transactions are counted, and the last
\* call is true of the data.
RedisInv ==
  /\ Hash(st.hash) /\ Hash(tx.st.hash) /\ tx.n \in Nat /\ multi \in BOOLEAN
  /\ RedisIsTrue

LEMMA NoCallIsTrue == ASSUME NEW s, NEW c, c # "corrupt" PROVE CallIsTrue(NoCall, s, c)
<1>1. NoCall.op = "none" /\ NoCall.ret = 0 /\ NoCall.done
  BY Zenon DEF NoCall
<1>2. "none" \notin {"hgetall", "hgetall_2", "lrange", "hdel", "exec"} /\ 0 # -1
  BY SMT
<1> QED
  BY Zenon, <1>1, <1>2 DEF CallIsTrue

LEMMA NoTxIs == Hash(NoTx.st.hash) /\ NoTx.n \in Nat
<1>1. NoTx.n = 0 /\ 0 \in Nat
  BY SMT DEF NoTx
<1> QED
  BY Zenon, <1>1, EmptyHash

LEMMA RedisInitInv == RedisInit => RedisInv
<1> SUFFICES ASSUME RedisInit PROVE RedisInv
  OBVIOUS
<1>1. st = Empty /\ tx = NoTx /\ multi = FALSE /\ ctx = "none" /\ last = NoCall
  BY Zenon DEF RedisInit
<1>2. "none" # "corrupt"
  BY SMT
<1>3. CallIsTrue(last, st, ctx)
  BY Zenon, <1>1, <1>2, NoCallIsTrue
<1> QED
  BY Zenon, <1>1, <1>3, EmptyHash, NoTxIs, RedisIsTrueIs DEF RedisInv

LEMMA RecordIs ==
  ASSUME NEW op, NEW r, NEW did, NEW lost, Record(op, r, did, lost)
  PROVE  last' = RedisCall(op, r, did, multi, lost, tx.n)
  BY Zenon DEF Record, RedisCall

LEMMA RedisInvFrom ==
  ASSUME Hash(st'.hash), Hash(tx'.st.hash), tx'.n \in Nat, multi' \in BOOLEAN, CallIsTrue(last', st', ctx')
  PROVE  RedisInv'
  BY Zenon, RedisIsTrueIs2 DEF RedisInv

LEMMA ContextKinds == "open" # "corrupt" /\ "broken" # "corrupt" /\ "none" # "corrupt" /\ "open" # "none"
  BY SMT

LEMMA ConnectKeeps == ASSUME RedisInv, redis_connect PROVE RedisInv'
<1>1. /\ st' = st /\ tx' = tx /\ multi' = multi /\ last' = last
      /\ ctx = "none" /\ ctx' \in {"open", "none"}
  BY Zenon DEF redis_connect
<1>2. last.op # "hdel"
  BY Zenon, <1>1, ContextKinds DEF RedisInv, RedisIsTrue, CorruptByHdel
<1>3. CallIsTrue(last, st, ctx)
  BY Zenon, RedisIsTrueIs DEF RedisInv
<1>4. CallIsTrue(last', st', ctx')
  BY Zenon, <1>1, <1>2, <1>3, ContextKinds DEF CallIsTrue
<1> QED
  BY Zenon, <1>1, <1>4, RedisInvFrom DEF RedisInv

LEMMA CloseKeeps == ASSUME RedisInv, redis_close PROVE RedisInv'
<1>1. st' = st /\ tx' = NoTx /\ multi' = FALSE /\ last' = NoCall /\ ctx' = "none"
  BY Zenon DEF redis_close
<1>2. CallIsTrue(last', st', ctx')
  BY Zenon, <1>1, NoCallIsTrue, ContextKinds
<1> QED
  BY Zenon, <1>1, <1>2, NoTxIs, RedisInvFrom DEF RedisInv

LEMMA MultiKeeps == ASSUME RedisInv, Multi PROVE RedisInv'
<1>1. st' = st /\ multi' = TRUE /\ ctx' = "open"
  BY Zenon DEF Multi
<1>2. Hash(tx'.st.hash) /\ tx'.n \in Nat
  <2>1. tx' = IF multi THEN tx ELSE [n |-> 0, st |-> st]
    BY Zenon DEF Multi
  <2>2. 0 \in Nat
    OBVIOUS
  <2> QED
    BY Zenon, <2>1, <2>2 DEF RedisInv
<1>3. CallIsTrue(last', st', ctx')
  <2>0. "multi" \in Control
    BY Zenon DEF Control
  <2>1. CASE multi
    <3>1. multi = TRUE
      BY Zenon, <2>1 DEF RedisInv
    <3>2. Record("multi", Reply("error", 0, <<>>), FALSE, FALSE)
      BY Zenon, <3>1 DEF Multi
    <3> QED
      BY Zenon, <1>1, <2>0, <3>2, RecordIs, RefusedIsTrue, ContextKinds
  <2>2. CASE ~multi
    <3>1. multi = FALSE
      BY Zenon, <2>2 DEF RedisInv
    <3>2. Record("multi", Reply("status", 0, "OK"), TRUE, FALSE)
      BY Zenon, <3>1 DEF Multi
    <3> QED
      BY Zenon, <1>1, <3>2, RecordIs, AcceptedIsTrue, ContextKinds
  <2> QED
    BY Zenon, <2>1, <2>2
<1> QED
  BY Zenon, <1>1, <1>2, <1>3, RedisInvFrom DEF RedisInv

LEMMA ExecKeeps == ASSUME RedisInv, Exec PROVE RedisInv'
<1>1. tx' = NoTx /\ multi' = FALSE /\ ctx' = "open"
  BY Zenon DEF Exec
<1>2. Hash(st'.hash)
  BY Zenon DEF Exec, RedisInv
<1>3. CallIsTrue(last', st', ctx')
  <2>0. "exec" \in Control /\ tx.n \in Nat
    BY Zenon DEF Control, RedisInv
  <2>1. CASE multi
    <3>1. multi = TRUE
      BY Zenon, <2>1 DEF RedisInv
    <3>2. Record("exec", Reply("array", tx.n, <<>>), TRUE, FALSE)
      BY Zenon, <3>1 DEF Exec
    <3>3. last' = RedisCall("exec", Reply("array", tx.n, <<>>), TRUE, TRUE, FALSE, tx.n)
      BY Zenon, <3>1, <3>2, RecordIs
    <3> QED
      BY Zenon, <1>1, <2>0, <3>3, ExecutedIsTrue, ContextKinds
  <2>2. CASE ~multi
    <3>1. multi = FALSE
      BY Zenon, <2>2 DEF RedisInv
    <3>2. Record("exec", Reply("error", 0, <<>>), FALSE, FALSE)
      BY Zenon, <3>1 DEF Exec
    <3> QED
      BY Zenon, <1>1, <2>0, <3>2, RecordIs, RefusedIsTrue, ContextKinds
  <2> QED
    BY Zenon, <2>1, <2>2
<1> QED
  BY Zenon, <1>1, <1>2, <1>3, NoTxIs, RedisInvFrom

LEMMA DiscardKeeps == ASSUME RedisInv, Discard PROVE RedisInv'
<1>1. st' = st /\ tx' = NoTx /\ multi' = FALSE /\ ctx' = "open"
  BY Zenon DEF Discard
<1>2. CallIsTrue(last', st', ctx')
  <2>0. "discard" \in Control
    BY Zenon DEF Control
  <2>1. CASE multi
    <3>1. multi = TRUE
      BY Zenon, <2>1 DEF RedisInv
    <3>2. Record("discard", Reply("status", 0, "OK"), TRUE, FALSE)
      BY Zenon, <3>1 DEF Discard
    <3> QED
      BY Zenon, <1>1, <3>2, RecordIs, AcceptedIsTrue, ContextKinds
  <2>2. CASE ~multi
    <3>1. multi = FALSE
      BY Zenon, <2>2 DEF RedisInv
    <3>2. Record("discard", Reply("error", 0, <<>>), FALSE, FALSE)
      BY Zenon, <3>1 DEF Discard
    <3> QED
      BY Zenon, <1>1, <2>0, <3>2, RecordIs, RefusedIsTrue, ContextKinds
  <2> QED
    BY Zenon, <2>1, <2>2
<1> QED
  BY Zenon, <1>1, <1>2, NoTxIs, RedisInvFrom DEF RedisInv

LEMMA CommandKeeps == ASSUME RedisInv, NEW c \in Commands, Command(c) PROVE RedisInv'
<1>1. multi' = multi /\ ctx = "open" /\ ctx' = After(c.op)
  BY Zenon DEF Command
<1>2. ctx' = "corrupt" <=> c.op = "hdel"
  BY Zenon, <1>1, ContextKinds DEF After
<1>3. c.op \in Writes \cup Reads
  BY SMT DEF Commands
<1>4. CASE multi
  <2>1. multi = TRUE
    BY Zenon, <1>4 DEF RedisInv
  <2>2. st' = st /\ tx' = [n |-> tx.n + 1, st |-> Effect(tx.st, c)]
    BY Zenon, <2>1 DEF Command
  <2>3. tx'.n = tx.n + 1 /\ tx'.st = Effect(tx.st, c)
    BY Zenon, <2>2
  <2>4. tx'.n \in Nat
    BY SMT, <2>3 DEF RedisInv
  <2>5. Hash(tx'.st.hash)
    BY Zenon, <2>3, EffectHash DEF RedisInv
  <2>6. (multi \/ Did(st, c)) = TRUE
    BY Zenon, <2>1
  <2>7. Record(c.op, Queued, TRUE, FALSE)
    BY Zenon, <2>1, <2>6 DEF Command, Queued
  <2>8. last' = RedisCall(c.op, Queued, TRUE, TRUE, FALSE, tx.n)
    BY Zenon, <2>1, <2>7, RecordIs
  <2>9. CallIsTrue(last', st', ctx')
    BY Zenon, <1>2, <1>3, <2>8, QueuedIsTrue
  <2> QED
    BY Zenon, <1>1, <2>2, <2>4, <2>5, <2>9, RedisInvFrom DEF RedisInv
<1>5. CASE ~multi
  <2>1. multi = FALSE
    BY Zenon, <1>5 DEF RedisInv
  <2>2. tx' = tx /\ st' = Effect(st, c)
    BY Zenon, <2>1 DEF Command
  <2>3. Hash(st'.hash)
    BY Zenon, <2>2, EffectHash DEF RedisInv
  <2>4. (multi \/ Did(st, c)) = Did(st, c)
    BY Zenon, <2>1 DEF Did
  <2>5. Record(c.op, Answer(st, c), Did(st, c), FALSE)
    BY Zenon, <2>1, <2>4 DEF Command
  <2>6. last' = RedisCall(c.op, Answer(st, c), Did(st, c), FALSE, FALSE, tx.n)
    BY Zenon, <2>1, <2>5, RecordIs
  <2>7. Hash(st.hash)
    BY Zenon DEF RedisInv
  <2>8. CallIsTrue(last', st', ctx')
    BY Zenon, <1>2, <2>2, <2>6, <2>7, AnsweredIsTrue
  <2> QED
    BY Zenon, <1>1, <2>2, <2>3, <2>8, RedisInvFrom DEF RedisInv
<1> QED
  BY Zenon, <1>4, <1>5

LEMMA BreakKeeps == ASSUME RedisInv, NEW c \in Commands, Break(c) PROVE RedisInv'
<1>1. tx' = NoTx /\ multi' = FALSE /\ ctx' = (IF c.op = "hdel" THEN "corrupt" ELSE "broken")
  BY Zenon DEF Break
<1>d. PICK did : Record(c.op, Null, did, TRUE)
  BY Zenon DEF Break
<1>2. st' = st \/ st' = Effect(st, c)
  BY Zenon DEF Break
<1>3. Hash(st'.hash)
  BY Zenon, <1>2, EffectHash DEF RedisInv
<1>4. (ctx' = "corrupt" <=> c.op = "hdel") /\ ctx' \in {"broken", "corrupt"}
  BY Zenon, <1>1, ContextKinds
<1>5. c.op \in AllCalls
  BY SMT DEF Commands, AllCalls
<1>6. CallIsTrue(last', st', ctx')
  BY Zenon, <1>d, <1>4, <1>5, RecordIs, LostIsTrue
<1> QED
  BY Zenon, <1>1, <1>3, <1>6, NoTxIs, RedisInvFrom

LEMMA BreakControlKeeps == ASSUME RedisInv, NEW op \in Control, BreakControl(op) PROVE RedisInv'
<1>1. tx' = NoTx /\ multi' = FALSE /\ ctx' = "broken"
  BY Zenon DEF BreakControl
<1>d. PICK did : Record(op, Null, did, TRUE)
  BY Zenon DEF BreakControl
<1>2. st' = st \/ st' = tx.st
  BY Zenon DEF BreakControl
<1>3. Hash(st'.hash)
  BY Zenon, <1>2 DEF RedisInv
<1>4. op \in AllCalls /\ op # "hdel"
  BY SMT DEF AllCalls, Control
<1>5. CallIsTrue(last', st', ctx')
  BY Zenon, <1>1, <1>d, <1>4, RecordIs, LostIsTrue, ContextKinds
<1> QED
  BY Zenon, <1>1, <1>3, <1>5, NoTxIs, RedisInvFrom

LEMMA BrokenKeeps == ASSUME RedisInv, NEW op \in AllCalls, Broken(op) PROVE RedisInv'
<1>1. /\ st' = st /\ tx' = tx /\ multi' = multi /\ ctx = "broken" /\ ctx' = After(op)
      /\ Record(op, Null, FALSE, TRUE)
  BY Zenon DEF Broken
<1>2. (ctx' = "corrupt" <=> op = "hdel") /\ ctx' \in {"broken", "corrupt"}
  BY Zenon, <1>1, ContextKinds DEF After
<1>3. CallIsTrue(last', st', ctx')
  BY Zenon, <1>1, <1>2, RecordIs, LostIsTrue
<1> QED
  BY Zenon, <1>1, <1>3, RedisInvFrom DEF RedisInv

LEMMA RedisNextInv == RedisInv /\ [RedisNext]_red => RedisInv'
<1> SUFFICES ASSUME RedisInv, [RedisNext]_red PROVE RedisInv'
  OBVIOUS
<1>1. CASE UNCHANGED red
  <2>1. st' = st /\ tx' = tx /\ multi' = multi /\ last' = last /\ ctx' = ctx
    BY Zenon, <1>1 DEF red
  <2>2. CallIsTrue(last', st', ctx')
    BY Zenon, <2>1, RedisIsTrueIs DEF RedisInv
  <2> QED
    BY Zenon, <2>1, <2>2, RedisInvFrom DEF RedisInv
<1>2. CASE RedisNext
  BY Zenon, <1>2, ConnectKeeps, CloseKeeps, MultiKeeps, ExecKeeps, DiscardKeeps, CommandKeeps, BreakKeeps,
    BreakControlKeeps, BrokenKeeps DEF RedisNext, AllCalls
<1> QED
  BY Zenon, <1>1, <1>2

\* What the Redis functions return and hand out says what the server did: 0 only for a
\* call that was executed or queued (hget and hdel apart), -1 on a call that was only
\* where the function awaits the wrong kind of reply or the reply was lost with the
\* connection, exactly the hash and the list outside a transaction, and a context that
\* only redis_hdel damages
\* (src/app/atp_dao.cpp).
THEOREM RedisIsTrueHolds == RedisSpec => []RedisIsTrue
<1>1. RedisInv => RedisIsTrue
  BY Zenon DEF RedisInv
<1> QED
  BY <1>1, RedisInitInv, RedisNextInv, PTL DEF RedisSpec
==============================================================================
