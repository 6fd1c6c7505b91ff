--------------------------- MODULE MemoryPoolProofs ---------------------------
(***************************************************************************)
(* Proofs about the memory pools (MemoryPool), for every size of the heap, *)
(* every table of size classes, every minimal increment and limit of the   *)
(* cache, and any sizes asked for.                                         *)
(***************************************************************************)
EXTENDS MemoryPool, WellFoundedInduction, TLAPS

-----------------------------------------------------------------------------
(* Sums over the blocks.  A recursive function is what CHOOSE finds: that  *)
(* there is such a function, and what it computes, is shown by a least     *)
(* argument at which it would fail.                                        *)

LEMMA LeastOf ==
  ASSUME NEW S \in SUBSET Nat, S # {}
  PROVE  \E m \in S : \A k \in Nat : k < m => k \notin S
<1>1. IsWellFoundedOn(OpToRel(<, Nat), Nat)
  BY NatLessThanWellFounded
<1>2. PICK m \in S : \A k \in S : ~(<<k, m>> \in OpToRel(<, Nat))
  BY Zenon, <1>1, WFMin
<1>3. ASSUME NEW k \in Nat, k < m PROVE k \notin S
  BY Zenon, <1>2, <1>3 DEF OpToRel
<1> QED
  BY Zenon, <1>3

\* Facts about numbers, for leaves that are about something else.
LEMMA GeqTrans == \A x, y, z \in Nat : x >= y /\ y >= z => x >= z
OBVIOUS
LEMMA LeqSum == \A x, y, z \in Nat : x <= y => x <= y + z
OBVIOUS
LEMMA IntSum == \A x \in Int, y \in Nat : x + y \in Int
OBVIOUS

Upto == 0..MaxBlocks
SumIs(f, u) == u = [n \in 0..MaxBlocks |-> IF n = 0 THEN 0 ELSE u[n - 1] + f[n]]
SumFn(f) == CHOOSE u : SumIs(f, u)
LEMMA TotalDef == ASSUME NEW f PROVE Total(f) = SumFn(f)[MaxBlocks]
BY Zenon DEF Total, SumFn, SumIs

\* u has the sums of f up to n.
Sums(f, u, n) == u[0] = 0 /\ \A k \in 1..n : u[k] = u[k - 1] + f[k]
LEMMA SumsExist ==
  ASSUME NEW f \in [Blocks -> Int]
  PROVE  \E u \in [Upto -> Int] : Sums(f, u, MaxBlocks)
<1> DEFINE Bad == {n \in Nat : n <= MaxBlocks /\ ~\E u \in [Upto -> Int] : Sums(f, u, n)}
<1>1. Bad \in SUBSET Nat
  OBVIOUS
<1>2. MaxBlocks \in Nat /\ MaxBlocks <= MaxBlocks
  BY MemoryAssumption
<1>3. SUFFICES ASSUME Bad # {} PROVE FALSE
  BY Zenon, <1>2
<1> HIDE DEF Bad
<1>4. PICK m \in Bad : \A k \in Nat : k < m => k \notin Bad
  BY Zenon, <1>1, <1>3, LeastOf
<1>5. m \in Nat /\ m <= MaxBlocks /\ ~\E u \in [Upto -> Int] : Sums(f, u, m)
  BY Zenon, <1>4 DEF Bad
<1>6. m # 0
  <2>1. [k \in Upto |-> 0] \in [Upto -> Int] /\ 0 \in Upto
    BY MemoryAssumption DEF Upto
  <2>2. Sums(f, [k \in Upto |-> 0], 0)
    BY <2>1 DEF Sums
  <2> QED
    BY Zenon, <1>5, <2>1, <2>2
<1>7. m - 1 \in Nat /\ m - 1 < m /\ m - 1 <= MaxBlocks /\ m - 1 \in Upto /\ m \in Upto /\ m \in Blocks /\ 0 \in Upto
  BY <1>5, <1>6, MemoryAssumption DEF Upto, Blocks
<1>8. PICK u \in [Upto -> Int] : Sums(f, u, m - 1)
  BY Zenon, <1>4, <1>7 DEF Bad
<1> DEFINE v == [u EXCEPT ![m] = u[m - 1] + f[m]]
<1>9. u[m - 1] + f[m] \in Int
  BY <1>7
<1>10. v \in [Upto -> Int] /\ v[m] = u[m - 1] + f[m] /\ \A k \in Upto : k # m => v[k] = u[k]
  BY Zenon, <1>7, <1>9
<1> HIDE DEF v
<1>11. ASSUME NEW k \in 1..m PROVE v[k] = v[k - 1] + f[k]
  <2>1. k \in Upto /\ k - 1 \in Upto /\ k - 1 # m /\ (k # m => k \in 1..m - 1)
    BY <1>5, MemoryAssumption DEF Upto
  <2>2. v[k - 1] = u[k - 1]
    BY Zenon, <1>10, <2>1
  <2>3. CASE k = m
    BY Zenon, <1>10, <2>2, <2>3
  <2>4. CASE k # m
    BY Zenon, <1>8, <1>10, <2>1, <2>2, <2>4 DEF Sums
  <2> QED
    BY <2>3, <2>4
<1>12. v[0] = 0
  BY Zenon, <1>6, <1>7, <1>8, <1>10 DEF Sums
<1> QED
  BY Zenon, <1>5, <1>10, <1>11, <1>12 DEF Sums

LEMMA SumFacts ==
  ASSUME NEW f \in [Blocks -> Int]
  PROVE  SumFn(f) \in [Upto -> Int] /\ Sums(f, SumFn(f), MaxBlocks)
<1>1. PICK u \in [Upto -> Int] : Sums(f, u, MaxBlocks)
  BY Zenon, SumsExist
<1>2. ASSUME NEW n \in Upto PROVE u[n] = IF n = 0 THEN 0 ELSE u[n - 1] + f[n]
  <2>1. n # 0 => n \in 1..MaxBlocks
    BY DEF Upto
  <2> QED
    BY Zenon, <1>1, <2>1 DEF Sums
<1>3. SumIs(f, u)
  <2>1. u = [n \in Upto |-> u[n]]
    BY Zenon
  <2>2. [n \in Upto |-> u[n]] = [n \in Upto |-> IF n = 0 THEN 0 ELSE u[n - 1] + f[n]]
    BY Zenon, <1>2
  <2>3. u = [n \in Upto |-> IF n = 0 THEN 0 ELSE u[n - 1] + f[n]]
    BY Zenon, <2>1, <2>2
  <2> QED
    BY Zenon, <2>3 DEF SumIs, Upto
<1> DEFINE s == SumFn(f)
<1>4. SumIs(f, s)
  BY Zenon, <1>3 DEF SumFn
<1> HIDE DEF s
<1>5. s = [n \in Upto |-> IF n = 0 THEN 0 ELSE s[n - 1] + f[n]]
  BY Zenon, <1>4 DEF SumIs, Upto
<1>6. \A n \in Upto : s[n] = IF n = 0 THEN 0 ELSE s[n - 1] + f[n]
  BY Zenon, <1>5
<1>7. ASSUME NEW k \in 1..MaxBlocks PROVE s[k] = s[k - 1] + f[k]
  <2>1. k \in Upto /\ k # 0
    BY MemoryAssumption DEF Upto
  <2> QED
    BY Zenon, <1>6, <2>1
<1>8. s[0] = 0
  <2>1. 0 \in Upto
    BY MemoryAssumption DEF Upto
  <2> QED
    BY Zenon, <1>6, <2>1
<1>9. Sums(f, s, MaxBlocks)
  BY Zenon, <1>7, <1>8 DEF Sums
<1> DEFINE Bad == {n \in Nat : n <= MaxBlocks /\ s[n] \notin Int}
<1>10. Bad = {}
  <2>1. SUFFICES ASSUME Bad # {} PROVE FALSE
    BY Zenon
  <2>2. Bad \in SUBSET Nat
    OBVIOUS
  <2> HIDE DEF Bad
  <2>3. PICK m \in Bad : \A k \in Nat : k < m => k \notin Bad
    BY Zenon, <2>1, <2>2, LeastOf
  <2>4. m \in Nat /\ m <= MaxBlocks /\ s[m] \notin Int
    BY Zenon, <2>3 DEF Bad
  <2>5. m # 0
    BY <1>8, <2>4
  <2>6. m \in 1..MaxBlocks /\ m - 1 \in Nat /\ m - 1 < m /\ m - 1 <= MaxBlocks
    BY <2>4, <2>5, MemoryAssumption
  <2>7. s[m - 1] \in Int
    BY Zenon, <2>3, <2>6 DEF Bad
  <2>8. f[m] \in Int
    BY Zenon, <2>6 DEF Blocks
  <2>9. s[m] = s[m - 1] + f[m]
    BY Zenon, <1>7, <2>6
  <2> QED
    BY <2>4, <2>7, <2>8, <2>9
<1>11. \A n \in Upto : s[n] \in Int
  BY <1>10, MemoryAssumption DEF Upto
<1>12. s \in [Upto -> Int]
  BY Zenon, <1>5, <1>11
<1> QED
  BY Zenon, <1>9, <1>12 DEF s

LEMMA TotalType == ASSUME NEW f \in [Blocks -> Int] PROVE Total(f) \in Int
<1>1. MaxBlocks \in Upto
  BY MemoryAssumption DEF Upto
<1> QED
  BY Zenon, <1>1, SumFacts, TotalDef

\* The sum changes by what one of its terms changes.
LEMMA TotalChanges ==
  ASSUME NEW f \in [Blocks -> Int], NEW g \in [Blocks -> Int], NEW b \in Blocks, NEW d \in Int,
         g[b] = f[b] + d, \A c \in Blocks : c # b => g[c] = f[c]
  PROVE  Total(g) = Total(f) + d
<1> DEFINE u == SumFn(f)
           v == SumFn(g)
<1>1. u \in [Upto -> Int] /\ Sums(f, u, MaxBlocks) /\ v \in [Upto -> Int] /\ Sums(g, v, MaxBlocks)
  BY Zenon, SumFacts
<1> HIDE DEF u, v
<1> DEFINE Ok(n) == v[n] = IF n >= b THEN u[n] + d ELSE u[n]
           Bad == {n \in Nat : n <= MaxBlocks /\ ~Ok(n)}
<1>2. Bad = {}
  <2>1. SUFFICES ASSUME Bad # {} PROVE FALSE
    BY Zenon
  <2>2. Bad \in SUBSET Nat
    OBVIOUS
  <2> HIDE DEF Bad
  <2>3. PICK m \in Bad : \A k \in Nat : k < m => k \notin Bad
    BY Zenon, <2>1, <2>2, LeastOf
  <2> HIDE DEF Ok
  <2>4. m \in Nat /\ m <= MaxBlocks /\ ~Ok(m)
    BY Zenon, <2>3 DEF Bad
  <2>5. b \in Nat /\ b >= 1
    BY DEF Blocks
  <2>6. m # 0
    <3>1. u[0] = 0 /\ v[0] = 0
      BY Zenon, <1>1 DEF Sums
    <3>2. Ok(0)
      BY <2>5, <3>1 DEF Ok
    <3> QED
      BY Zenon, <2>4, <3>2
  <2>7. /\ m \in 1..MaxBlocks /\ m \in Blocks /\ m - 1 \in Nat /\ m - 1 < m /\ m - 1 <= MaxBlocks
        /\ m \in Upto /\ m - 1 \in Upto
    BY <2>4, <2>6, MemoryAssumption DEF Blocks, Upto
  <2>8. Ok(m - 1)
    BY Zenon, <2>3, <2>7 DEF Bad
  <2>9. u[m] = u[m - 1] + f[m] /\ v[m] = v[m - 1] + g[m]
    BY Zenon, <1>1, <2>7 DEF Sums
  <2>10. f[m] \in Int /\ g[m] \in Int /\ u[m - 1] \in Int /\ v[m - 1] \in Int
    BY Zenon, <1>1, <2>7
  <2>11. CASE m = b
    <3>1. v[m - 1] = u[m - 1] /\ g[m] = f[m] + d
      BY <2>7, <2>8, <2>11 DEF Ok
    <3>2. v[m] = u[m] + d
      BY <2>9, <2>10, <3>1
    <3> QED
      BY <2>4, <2>7, <2>11, <3>2 DEF Ok
  <2>12. CASE m # b
    <3>1. g[m] = f[m]
      BY Zenon, <2>7, <2>12
    <3>2. m >= b <=> m - 1 >= b
      BY <2>4, <2>5, <2>12
    <3>3. CASE m >= b
      <4>1. v[m - 1] = u[m - 1] + d
        BY Zenon, <2>8, <3>2, <3>3 DEF Ok
      <4>2. v[m] = u[m] + d
        BY <2>9, <2>10, <3>1, <4>1
      <4> QED
        BY Zenon, <2>4, <3>3, <4>2 DEF Ok
    <3>4. CASE ~(m >= b)
      <4>1. v[m - 1] = u[m - 1]
        BY Zenon, <2>8, <3>2, <3>4 DEF Ok
      <4> QED
        BY Zenon, <2>4, <2>9, <3>1, <3>4, <4>1 DEF Ok
    <3> QED
      BY <3>3, <3>4
  <2> QED
    BY <2>11, <2>12
<1>3. MaxBlocks \in Nat /\ MaxBlocks <= MaxBlocks /\ MaxBlocks >= b
  BY MemoryAssumption DEF Blocks
<1>4. v[MaxBlocks] = u[MaxBlocks] + d
  BY Zenon, <1>2, <1>3
<1> QED
  BY Zenon, <1>4, TotalDef DEF u, v

LEMMA TotalSame ==
  ASSUME NEW f \in [Blocks -> Int], NEW g \in [Blocks -> Int], \A c \in Blocks : g[c] = f[c]
  PROVE  Total(g) = Total(f)
<1>1. f = g
  OBVIOUS
<1> QED
  BY Zenon, <1>1

\* A sum of naturals is one; it is 0 if they all are.
LEMMA TotalNat ==
  ASSUME NEW f \in [Blocks -> Nat]
  PROVE  Total(f) \in Nat /\ ((\A b \in Blocks : f[b] = 0) => Total(f) = 0)
<1> DEFINE u == SumFn(f)
<1>1. f \in [Blocks -> Int]
  OBVIOUS
<1>2. u \in [Upto -> Int] /\ Sums(f, u, MaxBlocks)
  BY Zenon, <1>1, SumFacts
<1> HIDE DEF u
<1> DEFINE Ok(n) == u[n] \in Nat /\ ((\A b \in Blocks : f[b] = 0) => u[n] = 0)
           Bad == {n \in Nat : n <= MaxBlocks /\ ~Ok(n)}
<1>3. Bad = {}
  <2>1. SUFFICES ASSUME Bad # {} PROVE FALSE
    BY Zenon
  <2>2. Bad \in SUBSET Nat
    OBVIOUS
  <2> HIDE DEF Bad, Ok
  <2>3. PICK m \in Bad : \A k \in Nat : k < m => k \notin Bad
    BY Zenon, <2>1, <2>2, LeastOf
  <2>4. m \in Nat /\ m <= MaxBlocks /\ ~Ok(m)
    BY Zenon, <2>3 DEF Bad
  <2>5. m # 0
    <3>1. u[0] = 0 /\ 0 \in Nat
      BY Zenon, <1>2 DEF Sums
    <3>2. Ok(0)
      BY <3>1 DEF Ok
    <3> QED
      BY Zenon, <2>4, <3>2
  <2>6. m \in 1..MaxBlocks /\ m \in Blocks /\ m - 1 \in Nat /\ m - 1 < m /\ m - 1 <= MaxBlocks
    BY <2>4, <2>5, MemoryAssumption DEF Blocks
  <2>7. Ok(m - 1)
    BY Zenon, <2>3, <2>6 DEF Bad
  <2>8. u[m] = u[m - 1] + f[m] /\ f[m] \in Nat
    BY Zenon, <1>2, <2>6 DEF Sums
  <2>9. u[m] \in Nat
    BY <2>7, <2>8 DEF Ok
  <2>10. ASSUME \A b \in Blocks : f[b] = 0 PROVE u[m] = 0
    <3>1. u[m - 1] = 0 /\ f[m] = 0
      BY Zenon, <2>6, <2>7, <2>10 DEF Ok
    <3> QED
      BY <2>8, <3>1
  <2> QED
    BY Zenon, <2>4, <2>9, <2>10 DEF Ok
<1>4. MaxBlocks \in Nat /\ MaxBlocks <= MaxBlocks
  BY MemoryAssumption
<1>5. Ok(MaxBlocks)
  BY Zenon, <1>3, <1>4
<1> QED
  BY Zenon, <1>5, TotalDef DEF u

-----------------------------------------------------------------------------
(* Sizes.                                                                  *)

Multiple(n) == \E k \in Nat : n = k * Alignment
LEMMA MultipleFacts ==
  ASSUME NEW n \in Nat
  PROVE  /\ n % Alignment = 0 <=> Multiple(n)
         /\ Aligned(n) \in Nat /\ Aligned(n) >= n /\ Multiple(Aligned(n))
         /\ n % Alignment = 0 => Aligned(n) = n
<1> DEFINE a == Alignment
<1>1. a \in Nat /\ a > 0
  BY MemoryAssumption
<1> HIDE DEF a
<1>2. \A x \in Nat : x = a * (x \div a) + (x % a) /\ x \div a \in Nat /\ x % a \in Nat /\ x % a < a
  BY <1>1
<1>3. ASSUME NEW k \in Nat PROVE (k * a) % a = 0 /\ k * a \in Nat
  BY <1>1
<1>4. n % a = 0 <=> Multiple(n)
  <2>1. n % a = 0 => Multiple(n)
    BY <1>1, <1>2 DEF Multiple, a
  <2>2. Multiple(n) => n % a = 0
    BY <1>3 DEF Multiple, a
  <2> QED
    BY <2>1, <2>2
<1>5. CASE n % a = 0
  BY <1>4, <1>5 DEF Aligned, a
<1>6. CASE n % a # 0
  <2>1. Aligned(n) = ((n + a) \div a) * a
    BY Zenon, <1>6 DEF Aligned, a
  <2>2. n + a \in Nat
    BY <1>1
  <2>3. PICK q \in Nat, r \in Nat : q = (n + a) \div a /\ n + a = a * q + r /\ r < a
    BY Zenon, <1>2, <2>2
  <2>4. q * a \in Nat /\ q * a >= n /\ Aligned(n) = q * a
    BY <1>1, <2>1, <2>3
  <2>5. Multiple(Aligned(n))
    BY Zenon, <2>3, <2>4 DEF Multiple, a
  <2> QED
    BY Zenon, <1>4, <1>6, <2>4, <2>5 DEF a
<1> QED
  BY <1>5, <1>6

LEMMA MultipleSum ==
  ASSUME NEW m \in Nat, NEW n \in Nat, Multiple(m), Multiple(n)
  PROVE  Multiple(m + n)
<1>1. PICK j \in Nat, k \in Nat : m = j * Alignment /\ n = k * Alignment
  BY Zenon DEF Multiple
<1>2. j + k \in Nat /\ (j + k) * Alignment = m + n
  BY <1>1, MemoryAssumption
<1> QED
  BY Zenon, <1>2 DEF Multiple

\* A new chunk holds its header.
LEMMA NewChunkFacts ==
  ASSUME NEW incr \in Nat, incr > 0, NEW size \in Nat
  PROVE  NewChunkSize(incr, size) \in Nat /\ NewChunkSize(incr, size) >= ChunkSize
<1>1. ChunkSize \in Nat /\ Alignment \in Nat
  BY MemoryAssumption
<1>2. CASE incr >= size + ChunkSize
  BY <1>1, <1>2 DEF NewChunkSize
<1>3. CASE ~(incr >= size + ChunkSize)
  <2> DEFINE x == size + ChunkSize + incr + Alignment
  <2>1. x \in Nat
    BY <1>1
  <2>2. x >= ChunkSize + incr
    BY <1>1
  <2>3. NewChunkSize(incr, size) = incr * (x \div incr)
    BY Zenon, <1>3 DEF NewChunkSize
  <2> HIDE DEF x
  <2>4. PICK q \in Nat, r \in Nat : q = x \div incr /\ x = incr * q + r /\ r < incr
    <3>1. /\ x \div incr \in Nat /\ x % incr \in Nat /\ x % incr < incr
          /\ x = incr * (x \div incr) + (x % incr)
      BY <2>1
    <3> QED
      BY Zenon, <3>1
  <2>5. NewChunkSize(incr, size) = incr * q
    BY Zenon, <2>3, <2>4
  <2> QED
    BY <1>1, <2>1, <2>2, <2>4, <2>5
<1> QED
  BY <1>2, <1>3

-----------------------------------------------------------------------------
(* The binary search.                                                      *)

Mid(s) == (s.left + s.right) \div 2
Body(value, g, s) == IF s.left > s.right THEN s.pos ELSE g[Narrowed(value, s, Mid(s))]
LoopIs(value, g) == g = [s \in Spans |-> Body(value, g, s)]
LoopOf(value) == CHOOSE g : LoopIs(value, g)
Whole == [left |-> 1, right |-> Classes, pos |-> 1]
LEMMA SearchDef ==
  ASSUME NEW value, ~(SizeArray[1] >= value), ~(SizeArray[Classes] < value)
  PROVE  BinarySearch(value) = LoopOf(value)[Whole]
BY Zenon DEF BinarySearch, LoopIs, LoopOf, Whole, Body, Mid

LEMMA SizeAt == \A i \in 1..Classes + 1 : i <= Classes => i \in 1..Classes /\ SizeArray[i] \in Nat
BY MemoryAssumption DEF Classes
LEMMA SizesFacts ==
  /\ Classes \in Nat /\ Classes >= 1
  /\ \A i \in 1..Classes : SizeArray[i] \in Nat
  /\ \A i, j \in 1..Classes : i <= j => SizeArray[i] <= SizeArray[j]
<1>1. SizeArray \in Seq(Nat) /\ SizeArray # <<>>
  BY Zenon, MemoryAssumption
<1>2. Classes \in Nat /\ Classes >= 1 /\ \A i \in 1..Classes : SizeArray[i] \in Nat
  BY <1>1 DEF Classes
<1>3. ASSUME NEW i \in 1..Classes, NEW j \in 1..Classes, i <= j PROVE SizeArray[i] <= SizeArray[j]
  <2>1. i < j => SizeArray[i] < SizeArray[j]
    BY Zenon, MemoryAssumption
  <2> QED
    BY <1>2, <1>3, <2>1
<1> QED
  BY Zenon, <1>2, <1>3

\* The steps the loop still takes at most.
Level(s) == IF s.left > s.right THEN 0 ELSE s.right - s.left + 1
LEMMA SpanFacts ==
  ASSUME NEW s \in Spans
  PROVE  /\ s.left \in 1..Classes + 1 /\ s.right \in 0..Classes /\ s.pos \in 1..Classes
         /\ Level(s) \in Nat /\ Level(s) <= Classes
<1>1. s.left \in 1..Classes + 1 /\ s.right \in 0..Classes /\ s.pos \in 1..Classes
  BY Zenon DEF Spans
<1> QED
  BY <1>1, SizesFacts DEF Level

LEMMA NarrowedFacts ==
  ASSUME NEW value, NEW s \in Spans, ~(s.left > s.right)
  PROVE  LET t == Narrowed(value, s, Mid(s)) IN
         /\ Mid(s) \in s.left..s.right /\ Mid(s) \in 1..Classes
         /\ t \in Spans /\ Level(t) < Level(s)
         /\ IF SizeArray[Mid(s)] >= value
            THEN t.left = s.left /\ t.right = Mid(s) - 1 /\ t.pos = Mid(s)
            ELSE t.left = Mid(s) + 1 /\ t.right = s.right /\ t.pos = s.pos
<1> DEFINE t == Narrowed(value, s, Mid(s))
           mid == Mid(s)
<1>1. s.left \in 1..Classes + 1 /\ s.right \in 0..Classes /\ s.pos \in 1..Classes /\ Classes \in Nat
  BY Zenon, SpanFacts, SizesFacts
<1>2. mid \in s.left..s.right /\ mid \in 1..Classes /\ mid - 1 \in 0..Classes /\ mid + 1 \in 1..Classes + 1
  BY <1>1 DEF Mid
<1>3. t = IF SizeArray[mid] >= value THEN [s EXCEPT !.right = mid - 1, !.pos = mid] ELSE [s EXCEPT !.left = mid + 1]
  BY Zenon DEF Narrowed
<1> HIDE DEF t, mid
<1>4. CASE SizeArray[mid] >= value
  <2>1. t \in Spans /\ t.left = s.left /\ t.right = mid - 1 /\ t.pos = mid
    BY Zenon, <1>2, <1>3, <1>4 DEF Spans
  <2>2. Level(t) < Level(s)
    BY <1>1, <1>2, <2>1 DEF Level
  <2> QED
    BY Zenon, <1>2, <1>4, <2>1, <2>2 DEF t, mid
<1>5. CASE ~(SizeArray[mid] >= value)
  <2>1. t \in Spans /\ t.left = mid + 1 /\ t.right = s.right /\ t.pos = s.pos
    BY Zenon, <1>2, <1>3, <1>5 DEF Spans
  <2>2. Level(t) < Level(s)
    BY <1>1, <1>2, <2>1 DEF Level
  <2> QED
    BY Zenon, <1>2, <1>5, <2>1, <2>2 DEF t, mid
<1> QED
  BY <1>4, <1>5

\* g is the loop on the spans up to level n.
LoopTo(value, g, n) ==
  g \in [Spans -> 1..Classes] /\ \A s \in Spans : Level(s) <= n => g[s] = Body(value, g, s)
LEMMA LoopExists ==
  ASSUME NEW value
  PROVE  LoopIs(value, LoopOf(value))
<1> DEFINE Bad == {n \in Nat : ~\E g : LoopTo(value, g, n)}
<1>1. Bad = {}
  <2>1. SUFFICES ASSUME Bad # {} PROVE FALSE
    BY Zenon
  <2>2. Bad \in SUBSET Nat
    OBVIOUS
  <2> HIDE DEF Bad
  <2>3. PICK m \in Bad : \A k \in Nat : k < m => k \notin Bad
    BY Zenon, <2>1, <2>2, LeastOf
  <2>4. m \in Nat /\ ~\E g : LoopTo(value, g, m)
    BY Zenon, <2>3 DEF Bad
  <2>5. PICK g \in [Spans -> 1..Classes] : \A s \in Spans : Level(s) < m => g[s] = Body(value, g, s)
    <3>1. CASE m = 0
      <4>1. [s \in Spans |-> s.pos] \in [Spans -> 1..Classes]
        BY Zenon, SpanFacts
      <4>2. \A s \in Spans : ~(Level(s) < m)
        BY <3>1, SpanFacts
      <4> QED
        BY Zenon, <4>1, <4>2
    <3>2. CASE m # 0
      <4>1. m - 1 \in Nat /\ m - 1 < m
        BY <2>4, <3>2
      <4>2. PICK g : LoopTo(value, g, m - 1)
        BY Zenon, <2>3, <4>1 DEF Bad
      <4>3. \A s \in Spans : Level(s) < m => Level(s) <= m - 1
        BY <2>4, SpanFacts
      <4> QED
        BY Zenon, <4>2, <4>3 DEF LoopTo
    <3> QED
      BY <3>1, <3>2
  <2> DEFINE h == [s \in Spans |-> IF Level(s) < m THEN g[s] ELSE Body(value, g, s)]
  <2>6. ASSUME NEW s \in Spans PROVE Body(value, g, s) \in 1..Classes
    BY Zenon, SpanFacts, NarrowedFacts DEF Body
  <2>7. h \in [Spans -> 1..Classes]
    BY Zenon, <2>6
  <2>8. \A s \in Spans : h[s] = IF Level(s) < m THEN g[s] ELSE Body(value, g, s)
    BY Zenon
  <2> HIDE DEF h
  <2>9. ASSUME NEW s \in Spans PROVE h[s] = Body(value, g, s)
    BY Zenon, <2>5, <2>8
  <2>10. ASSUME NEW s \in Spans, Level(s) <= m PROVE h[s] = Body(value, h, s)
    <3>1. CASE s.left > s.right
      BY Zenon, <2>9, <3>1 DEF Body
    <3>2. CASE ~(s.left > s.right)
      <4> DEFINE t == Narrowed(value, s, Mid(s))
      <4>1. t \in Spans /\ Level(t) < Level(s)
        BY Zenon, <3>2, NarrowedFacts
      <4>2. h[s] = g[t] /\ Body(value, h, s) = h[t]
        BY Zenon, <2>9, <3>2 DEF Body
      <4> HIDE DEF t
      <4>3. Level(t) < m
        <5>1. Level(t) \in Nat /\ Level(s) \in Nat
          BY Zenon, <4>1, SpanFacts
        <5> QED
          BY <2>4, <2>10, <4>1, <5>1
      <4> QED
        BY Zenon, <2>8, <4>1, <4>2, <4>3
    <3> QED
      BY <3>1, <3>2
  <2> QED
    BY Zenon, <2>4, <2>7, <2>10 DEF LoopTo
<1>2. PICK g : LoopTo(value, g, Classes)
  BY Zenon, <1>1, SizesFacts
<1>3. g \in [Spans -> 1..Classes] /\ \A s \in Spans : g[s] = Body(value, g, s)
  BY Zenon, <1>2, SpanFacts DEF LoopTo
<1>4. LoopIs(value, g)
  <2>1. g = [s \in Spans |-> g[s]]
    BY Zenon, <1>3
  <2>2. [s \in Spans |-> g[s]] = [s \in Spans |-> Body(value, g, s)]
    BY Zenon, <1>3
  <2> QED
    BY Zenon, <2>1, <2>2 DEF LoopIs
<1> QED
  BY Zenon, <1>4 DEF LoopOf

\* p is the first class that is large enough.
First(value, p) == p \in 1..Classes + 1 /\ \A i \in 1..Classes : SizeArray[i] >= value <=> p <= i

\* What the loop knows: the classes before left are too small, those behind right are large
\* enough, and pos is the first of them.
SpanInv(value, s) ==
  /\ s.left <= s.right + 1 /\ (s.right < Classes => s.pos = s.right + 1)
  /\ \A i \in 1..Classes : (i < s.left => ~(SizeArray[i] >= value)) /\ (i > s.right => SizeArray[i] >= value)

LEMMA NarrowedInv ==
  ASSUME NEW value \in Nat, NEW s \in Spans, ~(s.left > s.right), SpanInv(value, s)
  PROVE  SpanInv(value, Narrowed(value, s, Mid(s)))
<1> DEFINE t == Narrowed(value, s, Mid(s))
           mid == Mid(s)
<1>0. s.left \in 1..Classes + 1 /\ s.right \in 0..Classes /\ s.pos \in 1..Classes /\ Classes \in Nat
  BY Zenon, SpanFacts, SizesFacts
<1>1. /\ mid \in s.left..s.right /\ mid \in 1..Classes
      /\ IF SizeArray[mid] >= value
         THEN t.left = s.left /\ t.right = mid - 1 /\ t.pos = mid
         ELSE t.left = mid + 1 /\ t.right = s.right /\ t.pos = s.pos
  BY Zenon, NarrowedFacts
<1> HIDE DEF t, mid
<1>2. CASE SizeArray[mid] >= value
  <2>1. t.left = s.left /\ t.right = mid - 1 /\ t.pos = mid
    BY Zenon, <1>1, <1>2
  <2>2. t.left <= t.right + 1 /\ (t.right < Classes => t.pos = t.right + 1)
    BY <1>0, <1>1, <2>1
  <2>3. ASSUME NEW i \in 1..Classes, i > t.right PROVE SizeArray[i] >= value
    <3>1. mid <= i
      BY <1>0, <1>1, <2>1, <2>3
    <3>2. SizeArray[mid] <= SizeArray[i] /\ SizeArray[mid] \in Nat /\ SizeArray[i] \in Nat
      BY Zenon, <1>1, <3>1, SizesFacts
    <3> QED
      BY <1>2, <3>2
  <2>4. \A i \in 1..Classes : i < t.left => ~(SizeArray[i] >= value)
    BY Zenon, <2>1 DEF SpanInv
  <2> QED
    BY Zenon, <2>2, <2>3, <2>4 DEF SpanInv, t
<1>3. CASE ~(SizeArray[mid] >= value)
  <2>1. t.left = mid + 1 /\ t.right = s.right /\ t.pos = s.pos
    BY Zenon, <1>1, <1>3
  <2>2. t.left <= t.right + 1
    BY <1>0, <1>1, <2>1
  <2>3. ASSUME NEW i \in 1..Classes, i < t.left PROVE ~(SizeArray[i] >= value)
    <3>1. i <= mid
      BY <1>0, <1>1, <2>1, <2>3
    <3>2. SizeArray[i] <= SizeArray[mid] /\ SizeArray[mid] \in Nat /\ SizeArray[i] \in Nat
      BY Zenon, <1>1, <3>1, SizesFacts
    <3> QED
      BY <1>3, <3>2
  <2>4. /\ \A i \in 1..Classes : i > t.right => SizeArray[i] >= value
        /\ t.right < Classes => t.pos = t.right + 1
    BY Zenon, <2>1 DEF SpanInv
  <2> QED
    BY Zenon, <2>2, <2>3, <2>4 DEF SpanInv, t
<1> QED
  BY <1>2, <1>3

LEMMA LoopFinds ==
  ASSUME NEW value \in Nat, ~(SizeArray[Classes] < value), NEW s \in Spans, SpanInv(value, s)
  PROVE  First(value, LoopOf(value)[s])
<1> DEFINE g == LoopOf(value)
           Wrong(x) == SpanInv(value, x) /\ ~First(value, g[x])
           Bad == {n \in Nat : \E x \in Spans : Level(x) = n /\ Wrong(x)}
<1>1. \A x \in Spans : g[x] = Body(value, g, x)
  <2>1. LoopIs(value, g)
    BY Zenon, LoopExists
  <2> HIDE DEF g
  <2> QED
    BY Zenon, <2>1 DEF LoopIs
<1> HIDE DEF g
<1>2. SUFFICES ASSUME Wrong(s) PROVE FALSE
  BY Zenon DEF g
<1> HIDE DEF Wrong
<1>3. Level(s) \in Bad
  BY Zenon, <1>2, SpanFacts
<1>4. Bad \in SUBSET Nat
  OBVIOUS
<1> HIDE DEF Bad
<1>5. PICK m \in Bad : \A k \in Nat : k < m => k \notin Bad
  BY Zenon, <1>3, <1>4, LeastOf
<1>6. PICK x \in Spans : Level(x) = m /\ Wrong(x)
  BY Zenon, <1>5 DEF Bad
<1>7. SpanInv(value, x) /\ ~First(value, g[x])
  BY Zenon, <1>6 DEF Wrong
<1>8. CASE x.left > x.right
  <2>1. g[x] = x.pos
    BY Zenon, <1>1, <1>8 DEF Body
  <2>2. x.left \in 1..Classes + 1 /\ x.right \in 0..Classes /\ x.pos \in 1..Classes /\ Classes \in Nat /\ Classes >= 1
    BY Zenon, SpanFacts, SizesFacts
  <2>3. x.left = x.right + 1
    BY <1>7, <1>8, <2>2 DEF SpanInv
  <2>4. x.right < Classes
    <3>1. SUFFICES ASSUME ~(x.right < Classes) PROVE FALSE
      BY Zenon
    <3>2. Classes \in 1..Classes /\ Classes < x.left
      BY <2>2, <2>3, <3>1
    <3>3. ~(SizeArray[Classes] >= value)
      BY Zenon, <1>7, <3>2 DEF SpanInv
    <3>4. SizeArray[Classes] \in Nat
      BY Zenon, <3>2, SizesFacts
    <3> QED
      BY <3>3, <3>4
  <2>5. x.pos = x.right + 1
    BY Zenon, <1>7, <2>4 DEF SpanInv
  <2>6. ASSUME NEW i \in 1..Classes PROVE SizeArray[i] >= value <=> x.pos <= i
    <3>1. i < x.left <=> ~(x.pos <= i)
      BY <2>2, <2>3, <2>5
    <3>2. i > x.right <=> x.pos <= i
      BY <2>2, <2>5
    <3> QED
      BY Zenon, <1>7, <3>1, <3>2 DEF SpanInv
  <2>7. x.pos \in 1..Classes + 1
    BY <2>2
  <2> QED
    BY Zenon, <1>7, <2>1, <2>6, <2>7 DEF First
<1>9. CASE ~(x.left > x.right)
  <2> DEFINE t == Narrowed(value, x, Mid(x))
  <2>1. t \in Spans /\ Level(t) < Level(x) /\ SpanInv(value, t)
    BY Zenon, <1>7, <1>9, NarrowedFacts, NarrowedInv
  <2>2. g[x] = g[t]
    BY Zenon, <1>1, <1>9 DEF Body
  <2> HIDE DEF t
  <2>3. Level(t) \in Nat /\ Level(t) < m
    BY Zenon, <1>6, <2>1, SpanFacts
  <2>4. Wrong(t)
    BY Zenon, <1>7, <2>1, <2>2 DEF Wrong
  <2> QED
    BY Zenon, <1>5, <2>1, <2>3, <2>4 DEF Bad
<1> QED
  BY <1>8, <1>9

\* atp_binary_search finds the smallest class that is large enough, in any ascending array of
\* sizes, and returns the number of classes if there is none.
THEOREM SearchFinds == \A value \in Nat : First(value, BinarySearch(value))
<1> SUFFICES ASSUME NEW value \in Nat PROVE First(value, BinarySearch(value))
  OBVIOUS
<1>0. 1 \in 1..Classes /\ Classes \in 1..Classes /\ 1 \in 1..Classes + 1 /\ Classes + 1 \in 1..Classes + 1 /\ Classes \in Nat
  BY SizesFacts
<1>1. CASE SizeArray[1] >= value
  <2>1. ASSUME NEW i \in 1..Classes PROVE SizeArray[i] >= value /\ 1 <= i
    <3>1. 1 <= i
      OBVIOUS
    <3>2. SizeArray[1] <= SizeArray[i] /\ SizeArray[1] \in Nat /\ SizeArray[i] \in Nat
      BY Zenon, <1>0, <3>1, SizesFacts
    <3> QED
      BY <1>1, <3>1, <3>2
  <2>2. ~(SizeArray[Classes] < value)
    <3>1. SizeArray[Classes] >= value /\ SizeArray[Classes] \in Nat
      BY Zenon, <1>0, <2>1, SizesFacts
    <3> QED
      BY <3>1
  <2>3. BinarySearch(value) = 1
    BY Zenon, <1>1, <2>2 DEF BinarySearch
  <2> QED
    BY Zenon, <1>0, <2>1, <2>3 DEF First
<1>2. CASE ~(SizeArray[1] >= value) /\ SizeArray[Classes] < value
  <2>1. BinarySearch(value) = Classes + 1
    BY Zenon, <1>2 DEF BinarySearch
  <2>2. ASSUME NEW i \in 1..Classes PROVE ~(SizeArray[i] >= value) /\ ~(Classes + 1 <= i)
    <3>1. i <= Classes /\ ~(Classes + 1 <= i)
      BY <1>0
    <3>2. SizeArray[i] <= SizeArray[Classes] /\ SizeArray[Classes] \in Nat /\ SizeArray[i] \in Nat
      BY Zenon, <1>0, <3>1, SizesFacts
    <3> QED
      BY <1>2, <3>1, <3>2
  <2> QED
    BY Zenon, <1>0, <2>1, <2>2 DEF First
<1>3. CASE ~(SizeArray[1] >= value) /\ ~(SizeArray[Classes] < value)
  <2>1. Whole \in Spans /\ Whole.left = 1 /\ Whole.right = Classes /\ Whole.pos = 1
    <3>1. Classes \in 0..Classes
      BY <1>0
    <3> QED
      BY Zenon, <1>0, <3>1 DEF Whole, Spans
  <2>2. SpanInv(value, Whole)
    BY <1>0, <2>1 DEF SpanInv
  <2> QED
    BY Zenon, <1>3, <2>1, <2>2, SearchDef, LoopFinds
<1> QED
  BY Zenon, <1>1, <1>2, <1>3

-----------------------------------------------------------------------------
(* The heap: which block a chunk is in, and what was handed out from it.   *)

Chunks == [blk : Blocks, buf : Nat, cur : Nat, end : Nat]
Header(p, blk) == ChunkSize + (IF blk = p THEN PoolSize ELSE 0)
ChunkOk(h, p, c) ==
  c.cur <= c.end /\ h[c.blk] = c.end /\ c.end > 0 /\ Multiple(c.cur) /\ c.cur >= Header(p, c.blk)
ListOk(h, p, cs) ==
  /\ cs \in Seq(Chunks) /\ Len(cs) >= 1 /\ cs[Len(cs)].blk = p
  /\ \A i \in 1..Len(cs) : ChunkOk(h, p, cs[i])

\* A piece of memory is behind the header of its chunk, in what the chunk has given away.
PieceOk(ch, g) ==
  /\ g.pool \in DOMAIN ch /\ g.from \in Nat /\ g.to \in Nat
  /\ Multiple(g.from) /\ g.from >= Header(g.pool, g.blk)
  /\ \E i \in 1..Len(ch[g.pool]) : ch[g.pool][i].blk = g.blk /\ g.to <= ch[g.pool][i].cur
Apart(g, k) == g.to <= k.from \/ k.to <= g.from

\* The chunks ch of the pools in the heap h, and the pieces gs: every chunk has a block of its
\* own, as long as the chunk.
OwnBlocks(ch) ==
  \A p, q \in DOMAIN ch : \A i \in 1..Len(ch[p]), j \in 1..Len(ch[q]) :
    ch[p][i].blk = ch[q][j].blk => p = q /\ i = j
HeapOk(h, ch, gs) ==
  /\ h \in [Blocks -> Nat] /\ DOMAIN ch \in SUBSET Blocks
  /\ \A p \in DOMAIN ch : ListOk(h, p, ch[p])
  /\ OwnBlocks(ch)
  /\ \A g \in gs : PieceOk(ch, g)
  /\ \A g, k \in gs : g # k /\ g.blk = k.blk => Apart(g, k)

ChunksOf(ps) == [p \in DOMAIN ps |-> ps[p].chunks]
HeapInv == HeapOk(heap, ChunksOf(pools), given)

Same(q, r, j, k) == q = r /\ j = k
LEMMA SameBlock ==
  ASSUME NEW ch, OwnBlocks(ch), NEW q \in DOMAIN ch, NEW r \in DOMAIN ch,
         NEW j \in 1..Len(ch[q]), NEW k \in 1..Len(ch[r]), ch[q][j].blk = ch[r][k].blk
  PROVE  Same(q, r, j, k)
  BY DEF OwnBlocks, Same

\* A block that is free has no chunk, and is no pool.
LEMMA FreeIsUnused ==
  ASSUME NEW h, NEW ch, NEW gs, HeapOk(h, ch, gs), NEW b \in Blocks, h[b] = 0
  PROVE  /\ \A p \in DOMAIN ch : \A i \in 1..Len(ch[p]) : ch[p][i].blk # b
         /\ b \notin DOMAIN ch
<1>1. ASSUME NEW p \in DOMAIN ch, NEW i \in 1..Len(ch[p]) PROVE ch[p][i].blk # b
  <2>1. ch[p] \in Seq(Chunks) /\ ChunkOk(h, p, ch[p][i])
    BY Zenon DEF HeapOk, ListOk
  <2>2. h[ch[p][i].blk] > 0
    BY Zenon, <2>1 DEF ChunkOk
  <2> QED
    BY <2>2
<1>2. ASSUME b \in DOMAIN ch PROVE FALSE
  <2>1. ch[b] \in Seq(Chunks) /\ Len(ch[b]) >= 1 /\ ch[b][Len(ch[b])].blk = b
    BY Zenon, <1>2 DEF HeapOk, ListOk
  <2>2. Len(ch[b]) \in 1..Len(ch[b])
    BY <2>1
  <2> QED
    BY Zenon, <1>1, <1>2, <2>1, <2>2
<1> QED
  BY Zenon, <1>1, <1>2

\* A new chunk behind a header of at bytes in a block of size bytes.
LEMMA ChunkFacts ==
  ASSUME NEW b \in Blocks, NEW at \in {0, PoolSize}, NEW size \in Nat, size >= at + ChunkSize
  PROVE  LET c == Chunk(b, at, size) IN
         /\ c \in Chunks /\ c.blk = b /\ c.end = size /\ c.cur = at + ChunkSize /\ c.cur \in Nat
         /\ c.cur <= c.end /\ c.end > 0 /\ Multiple(c.cur)
<1>1. at \in Nat /\ ChunkSize \in Nat /\ ChunkSize > 0 /\ at + ChunkSize \in Nat
  BY MemoryAssumption
<1>2. Multiple(ChunkSize) /\ Multiple(PoolSize)
  BY Zenon, MemoryAssumption, MultipleFacts
<1>3. Multiple(at + ChunkSize)
  <2>1. CASE at = 0
    BY <1>1, <1>2, <2>1
  <2>2. CASE at = PoolSize
    BY Zenon, <1>1, <1>2, <2>2, MultipleSum
  <2> QED
    BY <2>1, <2>2
<1>4. (at + ChunkSize) % Alignment = 0
  BY Zenon, <1>1, <1>3, MultipleFacts
<1>5. Aligned(at + ChunkSize) = at + ChunkSize
  BY Zenon, <1>1, <1>4, MultipleFacts
<1> DEFINE c == Chunk(b, at, size)
<1>6. c = [blk |-> b, buf |-> at + ChunkSize, cur |-> at + ChunkSize, end |-> size]
  BY Zenon, <1>5 DEF Chunk
<1> HIDE DEF c
<1>7. c \in Chunks /\ c.blk = b /\ c.end = size /\ c.cur = at + ChunkSize
  BY Zenon, <1>1, <1>6 DEF Chunks
<1>8. c.cur \in Nat /\ c.cur <= c.end /\ c.end > 0
  BY <1>1, <1>7
<1> QED
  BY Zenon, <1>3, <1>7, <1>8 DEF c

\* A list of chunks is as good when another block changes.
LEMMA ListKept ==
  ASSUME NEW h \in [Blocks -> Nat], NEW b \in Blocks, NEW size \in Nat, NEW p, NEW cs, ListOk(h, p, cs),
         \A i \in 1..Len(cs) : cs[i].blk # b
  PROVE  ListOk([h EXCEPT ![b] = size], p, cs)
<1> DEFINE k == [h EXCEPT ![b] = size]
<1>1. \A x \in Blocks : x # b => k[x] = h[x]
  BY Zenon
<1> HIDE DEF k
<1>2. cs \in Seq(Chunks)
  BY Zenon DEF ListOk
<1>3. ASSUME NEW i \in 1..Len(cs) PROVE ChunkOk(k, p, cs[i])
  <2>1. cs[i] \in Chunks
    BY <1>2
  <2>2. cs[i].blk \in Blocks
    BY Zenon, <2>1 DEF Chunks
  <2>3. k[cs[i].blk] = h[cs[i].blk]
    BY Zenon, <1>1, <2>2
  <2>4. ChunkOk(h, p, cs[i])
    BY Zenon DEF ListOk
  <2> QED
    BY Zenon, <2>3, <2>4 DEF ChunkOk
<1>4. ListOk(k, p, cs)
  BY Zenon, <1>3 DEF ListOk
<1> QED
  BY Zenon, <1>4 DEF k

\* A new pool at a free block, with its embedded chunk.
LEMMA PoolEnters ==
  ASSUME NEW h, NEW ch, NEW gs, HeapOk(h, ch, gs), NEW b \in Blocks, h[b] = 0,
         NEW size \in Nat, size >= PoolSize + ChunkSize, NEW ch2,
         DOMAIN ch2 = DOMAIN ch \cup {b}, \A q \in DOMAIN ch : ch2[q] = ch[q], ch2[b] = <<Chunk(b, PoolSize, size)>>
  PROVE  HeapOk([h EXCEPT ![b] = size], ch2, gs)
<1> DEFINE c == Chunk(b, PoolSize, size)
           k == [h EXCEPT ![b] = size]
<1>1. /\ c \in Chunks /\ c.blk = b /\ c.end = size /\ c.cur = PoolSize + ChunkSize /\ c.cur \in Nat
      /\ c.cur <= c.end /\ c.end > 0 /\ Multiple(c.cur)
  BY Zenon, ChunkFacts
<1>2. h \in [Blocks -> Nat] /\ DOMAIN ch \in SUBSET Blocks /\ OwnBlocks(ch)
  BY Zenon DEF HeapOk
<1>3. k \in [Blocks -> Nat] /\ k[b] = size
  BY Zenon, <1>2
<1>4. /\ \A p \in DOMAIN ch : \A i \in 1..Len(ch[p]) : ch[p][i].blk # b
      /\ b \notin DOMAIN ch
  BY Zenon, FreeIsUnused
<1> HIDE DEF c
<1>5. ch2[b] \in Seq(Chunks) /\ Len(ch2[b]) = 1 /\ ch2[b][1] = c /\ \A i \in 1..Len(ch2[b]) : i = 1
  <2>1. ch2[b] = <<c>>
    BY Zenon DEF c
  <2> QED
    BY <1>1, <2>1
<1>6. ASSUME NEW p \in DOMAIN ch PROVE ListOk(k, p, ch[p])
  BY Zenon, <1>2, <1>4, ListKept DEF HeapOk
<1> HIDE DEF k
<1>7. ListOk(k, b, ch2[b])
  <2>1. Header(b, b) = PoolSize + ChunkSize
    BY MemoryAssumption DEF Header
  <2>2. c.cur >= Header(b, c.blk)
    BY <1>1, <2>1
  <2>3. ChunkOk(k, b, c)
    BY Zenon, <1>1, <1>3, <2>2 DEF ChunkOk
  <2>4. 1 >= 1
    OBVIOUS
  <2> QED
    BY Zenon, <1>1, <1>5, <2>3, <2>4 DEF ListOk
<1>8. \A p \in DOMAIN ch2 : ListOk(k, p, ch2[p])
  BY Zenon, <1>6, <1>7
<1>9. OwnBlocks(ch2)
  <2> SUFFICES ASSUME NEW p \in DOMAIN ch2, NEW q \in DOMAIN ch2, NEW i \in 1..Len(ch2[p]), NEW j \in 1..Len(ch2[q]),
                      ch2[p][i].blk = ch2[q][j].blk
               PROVE  p = q /\ i = j
    BY Zenon DEF OwnBlocks
  <2>0. ASSUME NEW x \in DOMAIN ch2, x # b PROVE x \in DOMAIN ch /\ ch2[x] = ch[x]
    BY Zenon, <2>0
  <2>1. CASE p # b /\ q # b
    <3>1. p \in DOMAIN ch /\ q \in DOMAIN ch /\ ch2[p] = ch[p] /\ ch2[q] = ch[q]
      BY Zenon, <2>0, <2>1
    <3>2. i \in 1..Len(ch[p]) /\ j \in 1..Len(ch[q]) /\ ch[p][i].blk = ch[q][j].blk
      BY Zenon, <3>1
    <3> QED
      <4>1. Same(p, q, i, j)
        BY Zenon, <1>2, <3>1, <3>2, SameBlock
      <4> QED
        BY Zenon, <4>1 DEF Same
  <2>2. CASE p = b /\ q = b
    BY Zenon, <1>5, <2>2
  <2>3. CASE p = b /\ q # b
    <3>1. ch2[p][i].blk = b
      BY Zenon, <1>1, <1>5, <2>3
    <3>2. q \in DOMAIN ch /\ ch2[q] = ch[q] /\ j \in 1..Len(ch[q])
      BY Zenon, <2>0, <2>3
    <3>3. ch2[q][j].blk # b
      BY Zenon, <1>4, <3>2
    <3> QED
      BY Zenon, <3>1, <3>3
  <2>4. CASE p # b /\ q = b
    <3>1. ch2[q][j].blk = b
      BY Zenon, <1>1, <1>5, <2>4
    <3>2. p \in DOMAIN ch /\ ch2[p] = ch[p] /\ i \in 1..Len(ch[p])
      BY Zenon, <2>0, <2>4
    <3>3. ch2[p][i].blk # b
      BY Zenon, <1>4, <3>2
    <3> QED
      BY Zenon, <3>1, <3>3
  <2> QED
    BY Zenon, <2>1, <2>2, <2>3, <2>4
<1>10. \A g \in gs : PieceOk(ch2, g)
  <2>1. ASSUME NEW g \in gs PROVE PieceOk(ch2, g)
    <3>1. PieceOk(ch, g)
      BY Zenon DEF HeapOk
    <3>2. g.pool \in DOMAIN ch2 /\ ch2[g.pool] = ch[g.pool]
      BY Zenon, <3>1 DEF PieceOk
    <3> QED
      BY Zenon, <3>1, <3>2 DEF PieceOk
  <2> QED
    BY Zenon, <2>1
<1>11. HeapOk(k, ch2, gs)
  <2>1. DOMAIN ch2 \in SUBSET Blocks
    BY Zenon, <1>2
  <2>2. \A g, m \in gs : g # m /\ g.blk = m.blk => Apart(g, m)
    BY Zenon DEF HeapOk
  <2> QED
    BY Zenon, <1>3, <1>8, <1>9, <1>10, <2>1, <2>2 DEF HeapOk
<1> QED
  BY Zenon, <1>11 DEF k

\* cs2 is cs with c in front.
FrontIs(c, cs, cs2) ==
  /\ cs2 \in Seq(Chunks) /\ Len(cs) \in Nat /\ Len(cs2) = Len(cs) + 1 /\ cs2[1] = c
  /\ \A i \in 1..Len(cs2) : i # 1 => i - 1 \in 1..Len(cs) /\ cs2[i] = cs[i - 1]
  /\ \A i \in 1..Len(cs) : i + 1 \in 1..Len(cs2) /\ cs2[i + 1] = cs[i]
LEMMA InFront ==
  ASSUME NEW c \in Chunks, NEW cs \in Seq(Chunks)
  PROVE  FrontIs(c, cs, <<c>> \o cs)
BY DEF FrontIs

\* A pool grows by a chunk in a free block.
LEMMA ChunkEnters ==
  ASSUME NEW h, NEW ch, NEW gs, HeapOk(h, ch, gs), NEW b \in Blocks, h[b] = 0,
         NEW size \in Nat, size >= ChunkSize, NEW r \in DOMAIN ch, NEW ch2,
         DOMAIN ch2 = DOMAIN ch, \A q \in DOMAIN ch : q # r => ch2[q] = ch[q],
         ch2[r] = <<Chunk(b, 0, size)>> \o ch[r]
  PROVE  HeapOk([h EXCEPT ![b] = size], ch2, gs)
<1> DEFINE c == Chunk(b, 0, size)
           k == [h EXCEPT ![b] = size]
<1>0. size >= 0 + ChunkSize
  BY MemoryAssumption
<1>1. /\ c \in Chunks /\ c.blk = b /\ c.end = size /\ c.cur = 0 + ChunkSize /\ c.cur \in Nat
      /\ c.cur <= c.end /\ c.end > 0 /\ Multiple(c.cur)
  BY Zenon, <1>0, ChunkFacts
<1>2. h \in [Blocks -> Nat] /\ DOMAIN ch \in SUBSET Blocks /\ OwnBlocks(ch) /\ ch[r] \in Seq(Chunks)
  BY Zenon DEF HeapOk, ListOk
<1>3. k \in [Blocks -> Nat] /\ k[b] = size
  BY Zenon, <1>2
<1>4. /\ \A p \in DOMAIN ch : \A i \in 1..Len(ch[p]) : ch[p][i].blk # b
      /\ b \notin DOMAIN ch
  BY Zenon, FreeIsUnused
<1> HIDE DEF c
<1>5. /\ ch2[r] \in Seq(Chunks) /\ Len(ch[r]) \in Nat /\ Len(ch2[r]) = Len(ch[r]) + 1 /\ ch2[r][1] = c
      /\ \A i \in 1..Len(ch2[r]) : i # 1 => i - 1 \in 1..Len(ch[r]) /\ ch2[r][i] = ch[r][i - 1]
      /\ \A i \in 1..Len(ch[r]) : i + 1 \in 1..Len(ch2[r]) /\ ch2[r][i + 1] = ch[r][i]
  <2>1. ch2[r] = <<c>> \o ch[r]
    BY Zenon DEF c
  <2>2. FrontIs(c, ch[r], ch2[r])
    BY Zenon, <1>1, <1>2, <2>1, InFront
  <2> QED
    BY Zenon, <2>2 DEF FrontIs
<1>6. ASSUME NEW p \in DOMAIN ch PROVE ListOk(k, p, ch[p])
  BY Zenon, <1>2, <1>4, ListKept DEF HeapOk
<1> HIDE DEF k
<1>7. ListOk(k, r, ch2[r])
  <2>1. b # r
    BY Zenon, <1>4
  <2>2. c.cur >= Header(r, c.blk)
    BY <1>1, <2>1, MemoryAssumption DEF Header
  <2>3. ChunkOk(k, r, c)
    BY Zenon, <1>1, <1>3, <2>2 DEF ChunkOk
  <2>4. Len(ch[r]) >= 1 /\ ch[r][Len(ch[r])].blk = r /\ \A i \in 1..Len(ch[r]) : ChunkOk(k, r, ch[r][i])
    BY Zenon, <1>6 DEF ListOk
  <2>5. Len(ch2[r]) >= 1 /\ Len(ch[r]) \in 1..Len(ch[r])
    BY <1>5, <2>4
  <2>6. ch2[r][Len(ch2[r])].blk = r
    BY Zenon, <1>5, <2>4, <2>5
  <2>7. \A i \in 1..Len(ch2[r]) : ChunkOk(k, r, ch2[r][i])
    BY Zenon, <1>5, <2>3, <2>4
  <2> QED
    BY Zenon, <1>5, <2>5, <2>6, <2>7 DEF ListOk
<1>8. \A p \in DOMAIN ch2 : ListOk(k, p, ch2[p])
  BY Zenon, <1>6, <1>7
<1>9. OwnBlocks(ch2)
  \* Where a chunk of ch2 was.
  <2> DEFINE Was(p, i) == IF p = r THEN i - 1 ELSE i
  <2>0. ASSUME NEW p \in DOMAIN ch2, NEW i \in 1..Len(ch2[p])
        PROVE  \/ p = r /\ i = 1 /\ ch2[p][i].blk = b
               \/ ~(p = r /\ i = 1) /\ Was(p, i) \in 1..Len(ch[p]) /\ ch2[p][i] = ch[p][Was(p, i)]
    <3>1. CASE p = r
      BY Zenon, <1>1, <1>5, <3>1
    <3>2. CASE p # r
      <4>1. ch2[p] = ch[p]
        BY Zenon, <3>2
      <4> QED
        BY Zenon, <3>2, <4>1
    <3> QED
      BY <3>1, <3>2
  <2> SUFFICES ASSUME NEW p \in DOMAIN ch2, NEW q \in DOMAIN ch2, NEW i \in 1..Len(ch2[p]), NEW j \in 1..Len(ch2[q]),
                      ch2[p][i].blk = ch2[q][j].blk
               PROVE  p = q /\ i = j
    BY Zenon DEF OwnBlocks
  <2> HIDE DEF Was
  <2>1. CASE (p = r /\ i = 1) \/ (q = r /\ j = 1)
    <3>1. ASSUME NEW x \in DOMAIN ch2, NEW n \in 1..Len(ch2[x]), ch2[x][n].blk = b PROVE x = r /\ n = 1
      <4>1. SUFFICES ASSUME ~(x = r /\ n = 1) PROVE FALSE
        BY Zenon
      <4>2. Was(x, n) \in 1..Len(ch[x]) /\ ch2[x][n] = ch[x][Was(x, n)] /\ x \in DOMAIN ch
        BY ZenonT(40), <2>0, <4>1
      <4>3. ch[x][Was(x, n)].blk # b
        BY Zenon, <1>4, <4>2
      <4> QED
        BY Zenon, <3>1, <4>2, <4>3
    <3>2. ch2[p][i].blk = b \/ ch2[q][j].blk = b
      BY Zenon, <2>0, <2>1
    <3>3. ch2[p][i].blk = b /\ ch2[q][j].blk = b
      BY Zenon, <3>2
    <3>4. (p = r /\ i = 1) /\ (q = r /\ j = 1)
      BY Zenon, <3>1, <3>3
    <3> QED
      BY Zenon, <3>4
  <2>2. CASE ~(p = r /\ i = 1) /\ ~(q = r /\ j = 1)
    <3>1. /\ Was(p, i) \in 1..Len(ch[p]) /\ ch2[p][i] = ch[p][Was(p, i)]
          /\ Was(q, j) \in 1..Len(ch[q]) /\ ch2[q][j] = ch[q][Was(q, j)]
      BY ZenonT(40), <2>0, <2>2
    <3>2. p = q /\ Was(p, i) = Was(q, j)
      <4>1. p \in DOMAIN ch /\ q \in DOMAIN ch /\ ch[p][Was(p, i)].blk = ch[q][Was(q, j)].blk
        BY Zenon, <3>1
      <4>2. PICK m \in 1..Len(ch[p]), n \in 1..Len(ch[q]) : m = Was(p, i) /\ n = Was(q, j)
        BY Zenon, <3>1
      <4>3. ch[p][m].blk = ch[q][n].blk
        BY Zenon, <4>1, <4>2
      <4>4. Same(p, q, m, n)
        BY Zenon, <1>2, <4>1, <4>3, SameBlock
      <4> QED
        BY Zenon, <4>2, <4>4 DEF Same
    <3>3. i \in Int /\ j \in Int
      OBVIOUS
    <3> QED
      BY <3>2, <3>3 DEF Was
  <2> QED
    BY <2>1, <2>2
<1>10. ASSUME NEW g \in gs PROVE PieceOk(ch2, g)
  <2>1. PieceOk(ch, g)
    BY Zenon DEF HeapOk
  <2>2. PICK i \in 1..Len(ch[g.pool]) : ch[g.pool][i].blk = g.blk /\ g.to <= ch[g.pool][i].cur
    BY Zenon, <2>1 DEF PieceOk
  <2>3. \E j \in 1..Len(ch2[g.pool]) : ch2[g.pool][j].blk = g.blk /\ g.to <= ch2[g.pool][j].cur
    <3>1. CASE g.pool = r
      <4>1. i \in 1..Len(ch[r]) /\ ch[r][i].blk = g.blk /\ g.to <= ch[r][i].cur
        BY Zenon, <2>2, <3>1
      <4>2. i + 1 \in 1..Len(ch2[r]) /\ ch2[r][i + 1] = ch[r][i]
        BY Zenon, <1>5, <4>1
      <4> QED
        BY Zenon, <3>1, <4>1, <4>2
    <3>2. CASE g.pool # r
      <4>1. ch2[g.pool] = ch[g.pool]
        BY Zenon, <2>1, <3>2 DEF PieceOk
      <4> QED
        BY Zenon, <2>2, <4>1
    <3> QED
      BY <3>1, <3>2
  <2> QED
    BY Zenon, <2>1, <2>3 DEF PieceOk
<1>11. HeapOk(k, ch2, gs)
  <2>1. DOMAIN ch2 \in SUBSET Blocks
    BY Zenon, <1>2
  <2>2. \A g, m \in gs : g # m /\ g.blk = m.blk => Apart(g, m)
    BY Zenon DEF HeapOk
  <2> QED
    BY Zenon, <1>3, <1>8, <1>9, <1>10, <2>1, <2>2 DEF HeapOk
<1> QED
  BY Zenon, <1>11 DEF k

LEMMA RoomSum ==
  \A cur, end, n, a \in Nat :
    cur <= end /\ a >= n /\ (end < cur \/ end - cur >= a) => cur + a \in Nat /\ cur + a <= end /\ cur + n <= cur + a
OBVIOUS

\* size bytes are taken from chunk i of the pool p.
Bumped(ch, p, i, size, ch2) ==
  /\ DOMAIN ch2 = DOMAIN ch /\ \A q \in DOMAIN ch : q # p => ch2[q] = ch[q]
  /\ ch2[p] \in Seq(Chunks) /\ Len(ch2[p]) = Len(ch[p])
  /\ \A j \in 1..Len(ch[p]) : j # i => ch2[p][j] = ch[p][j]
  /\ ch2[p][i].blk = ch[p][i].blk /\ ch2[p][i].end = ch[p][i].end
  /\ ch2[p][i].cur = ch[p][i].cur + Aligned(size)
Piece(p, c, size) == [pool |-> p, blk |-> c.blk, from |-> c.cur, to |-> c.cur + size]
LEMMA MemoryIsTaken ==
  ASSUME NEW h, NEW ch, NEW gs, HeapOk(h, ch, gs), NEW p \in DOMAIN ch, NEW i \in 1..Len(ch[p]),
         NEW size \in Nat, Room(ch[p][i], size), NEW ch2, Bumped(ch, p, i, size, ch2)
  PROVE  HeapOk(h, ch2, gs \cup {Piece(p, ch[p][i], size)})
<1> DEFINE c == ch[p][i]
           new == Piece(p, c, size)
<1>1. /\ h \in [Blocks -> Nat] /\ DOMAIN ch \in SUBSET Blocks /\ OwnBlocks(ch)
      /\ \A q \in DOMAIN ch : ListOk(h, q, ch[q])
      /\ \A g \in gs : PieceOk(ch, g)
      /\ \A g, k \in gs : g # k /\ g.blk = k.blk => Apart(g, k)
  BY Zenon DEF HeapOk
<1>2. /\ DOMAIN ch2 = DOMAIN ch /\ \A q \in DOMAIN ch : q # p => ch2[q] = ch[q]
      /\ ch2[p] \in Seq(Chunks) /\ Len(ch2[p]) = Len(ch[p])
      /\ \A j \in 1..Len(ch[p]) : j # i => ch2[p][j] = ch[p][j]
      /\ ch2[p][i].blk = c.blk /\ ch2[p][i].end = c.end /\ ch2[p][i].cur = c.cur + Aligned(size)
  BY Zenon DEF Bumped
<1>3. ch[p] \in Seq(Chunks) /\ ChunkOk(h, p, c) /\ Len(ch[p]) >= 1 /\ ch[p][Len(ch[p])].blk = p
  BY Zenon, <1>1 DEF ListOk
<1>4. c \in Chunks
  BY <1>3
<1>5. c.cur \in Nat /\ c.end \in Nat /\ c.blk \in Blocks
  BY Zenon, <1>4 DEF Chunks
<1>6. Room(c, size)
  BY Zenon
<1> HIDE DEF c
<1>7. Aligned(size) \in Nat /\ Aligned(size) >= size /\ Multiple(Aligned(size))
  BY Zenon, MultipleFacts
<1>8. c.cur <= c.end /\ h[c.blk] = c.end /\ c.end > 0 /\ Multiple(c.cur) /\ c.cur >= Header(p, c.blk)
  BY Zenon, <1>3 DEF ChunkOk
<1>9. c.cur + Aligned(size) \in Nat /\ c.cur + Aligned(size) <= c.end /\ c.cur + size <= c.cur + Aligned(size)
  BY Zenon, <1>5, <1>6, <1>7, <1>8, RoomSum DEF Room
<1>10. Header(p, c.blk) \in Nat
  BY MemoryAssumption DEF Header
<1>11. ChunkOk(h, p, ch2[p][i])
  <2>1. Multiple(c.cur + Aligned(size))
    BY Zenon, <1>5, <1>7, <1>8, MultipleSum
  <2>2. c.cur + Aligned(size) >= Header(p, c.blk)
    BY <1>5, <1>7, <1>8, <1>10
  <2> QED
    BY Zenon, <1>2, <1>8, <1>9, <2>1, <2>2 DEF ChunkOk
<1>12. \A q \in DOMAIN ch2 : ListOk(h, q, ch2[q])
  <2>1. ListOk(h, p, ch2[p])
    <3>1. ch2[p][Len(ch2[p])].blk = p
      <4>1. Len(ch[p]) \in 1..Len(ch[p])
        BY <1>3
      <4> QED
        BY Zenon, <1>2, <1>3, <4>1 DEF c
    <3>2. \A j \in 1..Len(ch2[p]) : ChunkOk(h, p, ch2[p][j])
      BY Zenon, <1>1, <1>2, <1>11 DEF ListOk
    <3> QED
      BY Zenon, <1>2, <1>3, <3>1, <3>2 DEF ListOk
  <2> QED
    BY Zenon, <1>1, <1>2, <2>1
\* No chunk moves, and none takes memory back.
<1>13. ASSUME NEW q \in DOMAIN ch, NEW j \in 1..Len(ch[q])
       PROVE  /\ Len(ch2[q]) = Len(ch[q]) /\ ch2[q][j].blk = ch[q][j].blk
              /\ ch2[q][j].cur = ch[q][j].cur \/ (q = p /\ j = i)
  <2>1. CASE q = p
    BY Zenon, <1>2, <2>1 DEF c
  <2>2. CASE q # p
    <3>1. ch2[q] = ch[q]
      BY Zenon, <1>2, <2>2
    <3> QED
      BY Zenon, <3>1
  <2> QED
    BY <2>1, <2>2
<1>14. OwnBlocks(ch2)
  <2> SUFFICES ASSUME NEW q \in DOMAIN ch2, NEW r \in DOMAIN ch2, NEW j \in 1..Len(ch2[q]), NEW k \in 1..Len(ch2[r]),
                      ch2[q][j].blk = ch2[r][k].blk
               PROVE  q = r /\ j = k
    BY Zenon DEF OwnBlocks
  <2>1. Len(ch2[q]) = Len(ch[q]) /\ Len(ch2[r]) = Len(ch[r])
    <3>1. ASSUME NEW x \in DOMAIN ch PROVE Len(ch2[x]) = Len(ch[x])
      BY Zenon, <1>2
    <3> QED
      BY Zenon, <1>2, <3>1
  <2>2. q \in DOMAIN ch /\ r \in DOMAIN ch /\ j \in 1..Len(ch[q]) /\ k \in 1..Len(ch[r])
    BY Zenon, <1>2, <2>1
  <2>3. ch[q][j].blk = ch[r][k].blk
    BY Zenon, <1>13, <2>2
  <2> QED
    <3>1. Same(q, r, j, k)
      BY Zenon, <1>1, <2>2, <2>3, SameBlock
    <3> QED
      BY Zenon, <3>1 DEF Same
<1>15. ASSUME NEW g \in gs PROVE PieceOk(ch2, g) /\ (g.blk = c.blk => g.to <= c.cur) /\ g.to \in Nat
  <2>1. PieceOk(ch, g)
    BY Zenon, <1>1
  <2>2. g.pool \in DOMAIN ch /\ g.to \in Nat
    BY Zenon, <2>1 DEF PieceOk
  <2>3. PICK j \in 1..Len(ch[g.pool]) : ch[g.pool][j].blk = g.blk /\ g.to <= ch[g.pool][j].cur
    BY Zenon, <2>1 DEF PieceOk
  <2>4. ch2[g.pool][j].blk = g.blk /\ j \in 1..Len(ch2[g.pool])
    BY Zenon, <1>13, <2>2, <2>3
  <2>5. g.to <= ch2[g.pool][j].cur
    <3>1. CASE ch2[g.pool][j].cur = ch[g.pool][j].cur
      BY Zenon, <2>3, <3>1
    <3>2. CASE g.pool = p /\ j = i
      <4>1. g.to <= c.cur /\ ch2[g.pool][j].cur = c.cur + Aligned(size)
        BY Zenon, <1>2, <2>3, <3>2 DEF c
      <4> QED
        BY Zenon, <1>5, <1>7, <2>2, <4>1, LeqSum
    <3> QED
      BY Zenon, <1>13, <2>2, <3>1, <3>2
  <2>6. PieceOk(ch2, g)
    BY Zenon, <1>2, <2>1, <2>4, <2>5 DEF PieceOk
  <2>7. ASSUME g.blk = c.blk PROVE g.to <= c.cur
    <3>1. ch[g.pool][j].blk = ch[p][i].blk
      BY Zenon, <2>3, <2>7 DEF c
    <3>2. Same(g.pool, p, j, i)
      BY Zenon, <1>1, <2>2, <3>1, SameBlock
    <3> QED
      BY Zenon, <2>3, <3>2 DEF c, Same
  <2> QED
    BY Zenon, <2>2, <2>6, <2>7
<1>16. new.pool = p /\ new.blk = c.blk /\ new.from = c.cur /\ new.to = c.cur + size
  BY Zenon DEF Piece
<1> HIDE DEF new
<1>17. PieceOk(ch2, new)
  <2>1. c.cur + size \in Nat
    BY <1>5
  <2>2. i \in 1..Len(ch2[p]) /\ ch2[p][i].blk = new.blk /\ new.to <= ch2[p][i].cur
    BY Zenon, <1>2, <1>9, <1>16
  <2> QED
    BY Zenon, <1>2, <1>5, <1>8, <1>16, <2>1, <2>2 DEF PieceOk
<1>18. ASSUME NEW g \in gs \cup {new}, NEW k \in gs \cup {new}, g # k, g.blk = k.blk PROVE Apart(g, k)
  <2>1. CASE g \in gs /\ k \in gs
    BY Zenon, <1>1, <1>18, <2>1
  <2>2. CASE g \in gs /\ k = new
    BY Zenon, <1>15, <1>16, <1>18, <2>2 DEF Apart
  <2>3. CASE g = new /\ k \in gs
    BY Zenon, <1>15, <1>16, <1>18, <2>3 DEF Apart
  <2> QED
    BY Zenon, <1>18, <2>1, <2>2, <2>3
<1>19. HeapOk(h, ch2, gs \cup {new})
  BY Zenon, <1>1, <1>2, <1>12, <1>14, <1>15, <1>17, <1>18 DEF HeapOk
<1> QED
  BY Zenon, <1>19 DEF new, c

\* A pool is released: its first block is free again.
LEMMA PoolLeaves ==
  ASSUME NEW h, NEW ch, NEW gs, HeapOk(h, ch, gs), NEW p \in DOMAIN ch,
         NEW ch2, DOMAIN ch2 = DOMAIN ch \ {p}, \A q \in DOMAIN ch \ {p} : ch2[q] = ch[q],
         NEW left, \A g \in left : g \in gs /\ g.pool # p
  PROVE  HeapOk([h EXCEPT ![p] = 0], ch2, left)
<1> DEFINE k == [h EXCEPT ![p] = 0]
<1>1. /\ h \in [Blocks -> Nat] /\ DOMAIN ch \in SUBSET Blocks /\ OwnBlocks(ch)
      /\ \A q \in DOMAIN ch : ListOk(h, q, ch[q])
      /\ \A g \in gs : PieceOk(ch, g)
      /\ \A g, m \in gs : g # m /\ g.blk = m.blk => Apart(g, m)
  BY Zenon DEF HeapOk
<1>2. p \in Blocks /\ 0 \in Nat
  BY Zenon, <1>1
<1>3. k \in [Blocks -> Nat]
  BY Zenon, <1>1, <1>2
<1>4. DOMAIN ch2 = DOMAIN ch \ {p} /\ \A q \in DOMAIN ch \ {p} : ch2[q] = ch[q]
  BY Zenon
<1>5. \A g \in left : g \in gs /\ g.pool # p
  BY Zenon
<1>6. ASSUME NEW q \in DOMAIN ch \ {p} PROVE ListOk(k, q, ch[q])
  <2>1. ListOk(h, p, ch[p]) /\ ListOk(h, q, ch[q])
    BY Zenon, <1>1
  <2>2. Len(ch[p]) >= 1 /\ ch[p] \in Seq(Chunks) /\ ch[p][Len(ch[p])].blk = p
    BY Zenon, <2>1 DEF ListOk
  <2>3. Len(ch[p]) \in 1..Len(ch[p])
    BY <2>2
  <2>4. PICK n \in 1..Len(ch[p]) : ch[p][n].blk = p
    BY Zenon, <2>2, <2>3
  <2>5. ASSUME NEW j \in 1..Len(ch[q]), ch[q][j].blk = p PROVE FALSE
    <3>1. ch[q][j].blk = ch[p][n].blk
      BY Zenon, <2>4, <2>5
    <3>2. Same(q, p, j, n)
      BY Zenon, <1>1, <3>1, SameBlock
    <3> QED
      BY Zenon, <3>2 DEF Same
  <2> QED
    BY Zenon, <1>1, <1>2, <2>1, <2>5, ListKept
<1> HIDE DEF k
<1>7. \A q \in DOMAIN ch2 : ListOk(k, q, ch2[q])
  BY Zenon, <1>4, <1>6
<1>8. OwnBlocks(ch2)
  <2> SUFFICES ASSUME NEW q \in DOMAIN ch2, NEW r \in DOMAIN ch2, NEW j \in 1..Len(ch2[q]), NEW n \in 1..Len(ch2[r]),
                      ch2[q][j].blk = ch2[r][n].blk
               PROVE  q = r /\ j = n
    BY Zenon DEF OwnBlocks
  <2>1. q \in DOMAIN ch /\ r \in DOMAIN ch /\ ch2[q] = ch[q] /\ ch2[r] = ch[r]
    BY Zenon, <1>4
  <2>2. j \in 1..Len(ch[q]) /\ n \in 1..Len(ch[r]) /\ ch[q][j].blk = ch[r][n].blk
    BY Zenon, <2>1
  <2> QED
    <3>1. Same(q, r, j, n)
      BY Zenon, <1>1, <2>1, <2>2, SameBlock
    <3> QED
      BY Zenon, <3>1 DEF Same
<1>9. ASSUME NEW g \in left PROVE PieceOk(ch2, g)
  <2>1. PieceOk(ch, g) /\ g.pool # p
    BY Zenon, <1>1, <1>5
  <2>2. g.pool \in DOMAIN ch2 /\ ch2[g.pool] = ch[g.pool]
    BY Zenon, <1>4, <2>1 DEF PieceOk
  <2> QED
    BY Zenon, <2>1, <2>2 DEF PieceOk
<1>10. HeapOk(k, ch2, left)
  <2>1. DOMAIN ch2 \in SUBSET Blocks
    BY Zenon, <1>1, <1>4
  <2> QED
    BY Zenon, <1>1, <1>3, <1>5, <1>7, <1>8, <1>9, <2>1 DEF HeapOk
<1> QED
  BY Zenon, <1>10 DEF k

LEMMA FewerPieces ==
  ASSUME NEW h, NEW ch, NEW gs, HeapOk(h, ch, gs), NEW left \in SUBSET gs
  PROVE  HeapOk(h, ch, left)
BY Zenon DEF HeapOk

-----------------------------------------------------------------------------
(* The cache: the pools S are in the lists fr, each once, in the list of   *)
(* its class cl.                                                           *)

Once(list) == \A j, k \in 1..Len(list) : list[j] = list[k] => j = k
Holds(list, b) == \E j \in 1..Len(list) : list[j] = b
Listed(fr, cl, S) ==
  /\ fr \in [1..Classes -> Seq(Blocks)]
  /\ \A i \in 1..Classes : Once(fr[i])
  /\ \A i \in 1..Classes : \A j \in 1..Len(fr[i]) : fr[i][j] \in S /\ cl[fr[i][j]] = i
  /\ \A b \in S : cl[b] \in 1..Classes /\ Holds(fr[cl[b]], b)

LEMMA TailFacts ==
  ASSUME NEW list \in Seq(Blocks), list # <<>>
  PROVE  /\ Tail(list) \in Seq(Blocks) /\ Head(list) \in Blocks /\ Holds(list, Head(list))
         /\ Len(Tail(list)) = Len(list) - 1
         /\ \A j \in 1..Len(Tail(list)) : j + 1 \in 1..Len(list) /\ Tail(list)[j] = list[j + 1]
         /\ Once(list) => Once(Tail(list)) /\ ~Holds(Tail(list), Head(list))
         /\ \A b : Holds(list, b) /\ b # Head(list) => Holds(Tail(list), b)
<1> DEFINE t == Tail(list)
<1>1. t \in Seq(Blocks) /\ Len(t) = Len(list) - 1 /\ Head(list) \in Blocks /\ Head(list) = list[1] /\ Len(list) \in Nat /\ Len(list) >= 1
  OBVIOUS
<1>2. \A j \in 1..Len(t) : j + 1 \in 1..Len(list) /\ t[j] = list[j + 1]
  OBVIOUS
<1> HIDE DEF t
<1>3. Holds(list, Head(list))
  BY <1>1 DEF Holds
<1>4. ASSUME Once(list) PROVE Once(t) /\ ~Holds(t, Head(list))
  <2>1. ASSUME NEW j \in 1..Len(t), NEW k \in 1..Len(t), t[j] = t[k] PROVE j = k
    <3>1. j + 1 \in 1..Len(list) /\ k + 1 \in 1..Len(list) /\ list[j + 1] = list[k + 1]
      BY Zenon, <1>2, <2>1
    <3>2. j + 1 = k + 1
      BY Zenon, <1>4, <3>1 DEF Once
    <3> QED
      BY <3>2
  <2>2. ASSUME NEW j \in 1..Len(t), t[j] = Head(list) PROVE FALSE
    <3>1. j + 1 \in 1..Len(list) /\ 1 \in 1..Len(list) /\ list[j + 1] = list[1]
      BY <1>1, <1>2, <2>2
    <3>2. j + 1 = 1
      BY Zenon, <1>4, <3>1 DEF Once
    <3> QED
      BY <3>2
  <2> QED
    BY Zenon, <2>1, <2>2 DEF Once, Holds
<1>5. ASSUME NEW b, Holds(list, b), b # Head(list) PROVE Holds(t, b)
  <2>1. PICK j \in 1..Len(list) : list[j] = b
    BY Zenon, <1>5 DEF Holds
  <2>2. j # 1
    BY <1>1, <1>5, <2>1
  <2>3. j - 1 \in 1..Len(t) /\ (j - 1) + 1 = j
    BY <1>1, <2>2
  <2>4. t[j - 1] = b
    <3>1. t[j - 1] = list[(j - 1) + 1]
      BY Zenon, <1>2, <2>3
    <3> QED
      BY Zenon, <2>1, <2>3, <3>1
  <2> QED
    BY Zenon, <2>3, <2>4 DEF Holds
<1> QED
  BY Zenon, <1>1, <1>2, <1>3, <1>4, <1>5 DEF t

LEMMA AppendFacts ==
  ASSUME NEW list \in Seq(Blocks), NEW p \in Blocks
  PROVE  /\ Append(list, p) \in Seq(Blocks) /\ Holds(Append(list, p), p)
         /\ Once(list) /\ ~Holds(list, p) => Once(Append(list, p))
         /\ \A b : Holds(list, b) => Holds(Append(list, p), b)
         /\ \A j \in 1..Len(Append(list, p)) : Append(list, p)[j] = p \/ (j \in 1..Len(list) /\ Append(list, p)[j] = list[j])
<1> DEFINE t == Append(list, p)
           n == Len(list)
<1>1. t \in Seq(Blocks) /\ Len(t) = n + 1 /\ n \in Nat /\ t[n + 1] = p
  OBVIOUS
<1>2. \A j \in 1..n : t[j] = list[j]
  OBVIOUS
<1> HIDE DEF t, n
<1>3. \A j \in 1..Len(t) : j = n + 1 \/ j \in 1..n
  BY <1>1
<1>4. n + 1 \in 1..Len(t) /\ \A j \in 1..n : j \in 1..Len(t)
  BY <1>1
<1>5. Holds(t, p)
  BY Zenon, <1>1, <1>4 DEF Holds
<1>6. ASSUME Once(list), ~Holds(list, p), NEW j \in 1..Len(t), NEW k \in 1..Len(t), t[j] = t[k] PROVE j = k
  <2>1. CASE j = n + 1 /\ k = n + 1
    BY Zenon, <2>1
  <2>2. CASE j = n + 1 /\ k \in 1..n
    BY Zenon, <1>1, <1>2, <1>6, <2>2 DEF Holds, n
  <2>3. CASE j \in 1..n /\ k = n + 1
    BY Zenon, <1>1, <1>2, <1>6, <2>3 DEF Holds, n
  <2>4. CASE j \in 1..n /\ k \in 1..n
    BY Zenon, <1>2, <1>6, <2>4 DEF Once, n
  <2> QED
    BY Zenon, <1>3, <2>1, <2>2, <2>3, <2>4
<1>7. \A b : Holds(list, b) => Holds(t, b)
  BY Zenon, <1>2, <1>4 DEF Holds, n
<1>8. \A j \in 1..Len(t) : t[j] = p \/ (j \in 1..n /\ t[j] = list[j])
  BY Zenon, <1>1, <1>2, <1>3
<1>9. Once(list) /\ ~Holds(list, p) => Once(t)
  BY Zenon, <1>6 DEF Once
<1> QED
  BY Zenon, <1>1, <1>5, <1>7, <1>8, <1>9 DEF t, n

\* A pool is taken from the list of its class.
PoppedIs(fr, cl, S, i) ==
  /\ Head(fr[i]) \in S /\ cl[Head(fr[i])] = i
  /\ Listed([fr EXCEPT ![i] = Tail(@)], cl, S \ {Head(fr[i])})
LEMMA Popped ==
  ASSUME NEW fr, NEW cl, NEW S, Listed(fr, cl, S), NEW i \in 1..Classes, fr[i] # <<>>
  PROVE  PoppedIs(fr, cl, S, i)
<1> DEFINE p == Head(fr[i])
           f2 == [fr EXCEPT ![i] = Tail(@)]
<1>1. /\ fr \in [1..Classes -> Seq(Blocks)]
      /\ \A k \in 1..Classes : Once(fr[k])
      /\ \A k \in 1..Classes : \A j \in 1..Len(fr[k]) : fr[k][j] \in S /\ cl[fr[k][j]] = k
      /\ \A b \in S : cl[b] \in 1..Classes /\ Holds(fr[cl[b]], b)
  BY Zenon DEF Listed
<1>2. fr[i] \in Seq(Blocks)
  BY Zenon, <1>1
<1>3. /\ Tail(fr[i]) \in Seq(Blocks) /\ Holds(fr[i], p) /\ Once(Tail(fr[i])) /\ ~Holds(Tail(fr[i]), p)
      /\ \A j \in 1..Len(Tail(fr[i])) : j + 1 \in 1..Len(fr[i]) /\ Tail(fr[i])[j] = fr[i][j + 1]
      /\ \A b : Holds(fr[i], b) /\ b # p => Holds(Tail(fr[i]), b)
  BY Zenon, <1>1, <1>2, TailFacts
<1>4. p \in S /\ cl[p] = i
  <2>1. PICK j \in 1..Len(fr[i]) : fr[i][j] = p
    BY Zenon, <1>3 DEF Holds
  <2>2. fr[i][j] \in S /\ cl[fr[i][j]] = i
    BY Zenon, <1>1
  <2> HIDE DEF p
  <2> QED
    BY Zenon, <2>1, <2>2
<1>5. f2 \in [1..Classes -> Seq(Blocks)] /\ f2[i] = Tail(fr[i]) /\ \A k \in 1..Classes : k # i => f2[k] = fr[k]
  BY Zenon, <1>1, <1>3
<1> HIDE DEF p, f2
<1>6. \A k \in 1..Classes : Once(f2[k])
  BY Zenon, <1>1, <1>3, <1>5
<1>7. ASSUME NEW k \in 1..Classes, NEW j \in 1..Len(f2[k]) PROVE f2[k][j] \in S \ {p} /\ cl[f2[k][j]] = k
  <2>1. CASE k = i
    <3>1. f2[k] = Tail(fr[i])
      BY Zenon, <1>5, <2>1
    <3>2. j \in 1..Len(Tail(fr[i])) /\ f2[k][j] = Tail(fr[i])[j]
      BY Zenon, <3>1
    <3>3. f2[k][j] # p
      BY Zenon, <1>3, <3>2 DEF Holds
    <3>4. j + 1 \in 1..Len(fr[i]) /\ f2[k][j] = fr[i][j + 1]
      BY Zenon, <1>3, <3>2
    <3>5. fr[i][j + 1] \in S /\ cl[fr[i][j + 1]] = i
      BY Zenon, <1>1, <3>4
    <3> QED
      BY Zenon, <2>1, <3>3, <3>4, <3>5
  <2>2. CASE k # i
    <3>1. f2[k] = fr[k]
      BY Zenon, <1>5, <2>2
    <3>2. f2[k][j] \in S /\ cl[f2[k][j]] = k
      BY Zenon, <1>1, <3>1
    <3> QED
      BY Zenon, <1>4, <2>2, <3>2
  <2> QED
    BY Zenon, <2>1, <2>2
<1>8. ASSUME NEW b \in S \ {p} PROVE cl[b] \in 1..Classes /\ Holds(f2[cl[b]], b)
  <2>1. cl[b] \in 1..Classes /\ Holds(fr[cl[b]], b) /\ b # p
    BY Zenon, <1>1
  <2>2. CASE cl[b] = i
    BY Zenon, <1>3, <1>5, <2>1, <2>2
  <2>3. CASE cl[b] # i
    BY Zenon, <1>5, <2>1, <2>3
  <2> QED
    BY Zenon, <2>1, <2>2, <2>3
<1>9. Listed(f2, cl, S \ {p})
  BY Zenon, <1>5, <1>6, <1>7, <1>8 DEF Listed
<1> QED
  BY Zenon, <1>4, <1>9 DEF p, f2, PoppedIs

\* A pool enters the list of its class.
LEMMA Pushed ==
  ASSUME NEW fr, NEW cl, NEW S, Listed(fr, cl, S), NEW p \in Blocks, p \notin S, cl[p] \in 1..Classes
  PROVE  Listed([fr EXCEPT ![cl[p]] = Append(@, p)], cl, S \cup {p})
<1> DEFINE i == cl[p]
           f2 == [fr EXCEPT ![i] = Append(@, p)]
<1>1. /\ fr \in [1..Classes -> Seq(Blocks)]
      /\ \A k \in 1..Classes : Once(fr[k])
      /\ \A k \in 1..Classes : \A j \in 1..Len(fr[k]) : fr[k][j] \in S /\ cl[fr[k][j]] = k
      /\ \A b \in S : cl[b] \in 1..Classes /\ Holds(fr[cl[b]], b)
  BY Zenon DEF Listed
<1>2. fr[i] \in Seq(Blocks) /\ i \in 1..Classes
  BY Zenon, <1>1
<1>3. ~Holds(fr[i], p)
  BY Zenon, <1>1, <1>2 DEF Holds
<1> DEFINE t == Append(fr[i], p)
<1>4. /\ t \in Seq(Blocks) /\ Holds(t, p) /\ Once(t) /\ \A b : Holds(fr[i], b) => Holds(t, b)
      /\ \A j \in 1..Len(t) : t[j] = p \/ (j \in 1..Len(fr[i]) /\ t[j] = fr[i][j])
  BY Zenon, <1>1, <1>2, <1>3, AppendFacts
<1>5. f2 \in [1..Classes -> Seq(Blocks)] /\ f2[i] = t /\ \A k \in 1..Classes : k # i => f2[k] = fr[k]
  BY Zenon, <1>1, <1>2, <1>4
<1> HIDE DEF f2, t
<1>6. \A k \in 1..Classes : Once(f2[k])
  BY Zenon, <1>1, <1>4, <1>5
<1>7. ASSUME NEW k \in 1..Classes, NEW j \in 1..Len(f2[k]) PROVE f2[k][j] \in S \cup {p} /\ cl[f2[k][j]] = k
  <2>1. CASE k = i
    <3>1. f2[k] = t
      BY Zenon, <1>5, <2>1
    <3>2. f2[k][j] = p \/ (j \in 1..Len(fr[i]) /\ f2[k][j] = fr[i][j])
      BY Zenon, <1>4, <3>1
    <3> QED
      BY Zenon, <1>1, <1>2, <2>1, <3>2
  <2>2. CASE k # i
    <3>1. f2[k] = fr[k]
      BY Zenon, <1>5, <2>2
    <3> QED
      BY Zenon, <1>1, <3>1
  <2> QED
    BY Zenon, <2>1, <2>2
<1>8. ASSUME NEW b \in S \cup {p} PROVE cl[b] \in 1..Classes /\ Holds(f2[cl[b]], b)
  <2>1. CASE b = p
    BY Zenon, <1>2, <1>4, <1>5, <2>1
  <2>2. CASE b \in S
    <3>1. cl[b] \in 1..Classes /\ Holds(fr[cl[b]], b)
      BY Zenon, <1>1, <2>2
    <3>2. CASE cl[b] = i
      BY Zenon, <1>4, <1>5, <3>1, <3>2
    <3>3. CASE cl[b] # i
      BY Zenon, <1>5, <3>1, <3>3
    <3> QED
      BY Zenon, <3>1, <3>2, <3>3
  <2> QED
    BY Zenon, <2>1, <2>2
<1>9. Listed(f2, cl, S \cup {p})
  BY Zenon, <1>5, <1>6, <1>7, <1>8 DEF Listed
<1> QED
  BY Zenon, <1>9 DEF f2

\* Only the classes of the cached pools matter.
LEMMA ListedSame ==
  ASSUME NEW fr, NEW cl, NEW S, Listed(fr, cl, S), NEW cl2, \A b \in S : cl2[b] = cl[b]
  PROVE  Listed(fr, cl2, S)
<1>1. \A i \in 1..Classes : \A j \in 1..Len(fr[i]) : fr[i][j] \in S /\ cl2[fr[i][j]] = i
  BY ZenonT(40) DEF Listed
<1>2. \A b \in S : cl2[b] \in 1..Classes /\ Holds(fr[cl2[b]], b)
  BY ZenonT(40) DEF Listed
<1> QED
  BY ZenonT(40), <1>1, <1>2 DEF Listed

-----------------------------------------------------------------------------
(* The helper: the pools ps, the used ones us, the lists fr and its        *)
(* counters.                                                               *)

PoolRecs == [cap : Nat, incr : Nat, pos : 1..Classes + 1, asked : Nat, chunks : Seq(Chunks)]
PosOf(ps) == [p \in DOMAIN ps |-> ps[p].pos]
CapOf(ps, us) == [b \in Blocks |-> IF b \in DOMAIN ps \ us THEN ps[b].cap ELSE 0]
UsedOf(us) == [b \in Blocks |-> IF b \in us THEN 1 ELSE 0]
Sized(r) == r.pos <= Classes => r.cap >= SizeArray[r.pos]
Fitting(r) == First(r.asked, r.pos) /\ r.cap >= r.asked
CacheOk(ps, us, fr, cnt, capy) ==
  /\ ps \in [DOMAIN ps -> PoolRecs] /\ DOMAIN ps \in SUBSET Blocks /\ us \in SUBSET DOMAIN ps
  /\ Listed(fr, PosOf(ps), DOMAIN ps \ us)
  /\ \A b \in DOMAIN ps : Sized(ps[b])
  /\ \A b \in us : Fitting(ps[b])
  /\ capy = Total(CapOf(ps, us)) /\ capy <= MaxCapacity
  /\ cnt = Total(UsedOf(us))

LEMMA PosAt == ASSUME NEW ps, NEW b \in DOMAIN ps PROVE PosOf(ps)[b] = ps[b].pos
BY ZenonT(40) DEF PosOf

LEMMA CapFacts ==
  ASSUME NEW ps, NEW us, ps \in [DOMAIN ps -> PoolRecs]
  PROVE  /\ CapOf(ps, us) \in [Blocks -> Nat] /\ CapOf(ps, us) \in [Blocks -> Int]
         /\ \A b \in Blocks : b \in DOMAIN ps \ us => CapOf(ps, us)[b] = ps[b].cap
         /\ \A b \in Blocks : b \notin DOMAIN ps \ us => CapOf(ps, us)[b] = 0
<1>1. \A b \in DOMAIN ps : ps[b].cap \in Nat
  BY Zenon DEF PoolRecs
<1> DEFINE f == CapOf(ps, us)
<1>2. \A b \in Blocks : f[b] = IF b \in DOMAIN ps \ us THEN ps[b].cap ELSE 0
  BY Zenon DEF CapOf
<1>3. f = [b \in Blocks |-> f[b]]
  BY Zenon DEF CapOf
<1> HIDE DEF f
<1>4. \A b \in Blocks : f[b] \in Nat
  BY <1>1, <1>2
<1>5. f \in [Blocks -> Nat]
  BY Zenon, <1>3, <1>4
<1>6. f \in [Blocks -> Int]
  BY <1>5
<1> QED
  BY Zenon, <1>2, <1>5, <1>6 DEF f

LEMMA UsedFacts ==
  ASSUME NEW us
  PROVE  /\ UsedOf(us) \in [Blocks -> Nat] /\ UsedOf(us) \in [Blocks -> Int]
         /\ \A b \in Blocks : b \in us => UsedOf(us)[b] = 1
         /\ \A b \in Blocks : b \notin us => UsedOf(us)[b] = 0
BY DEF UsedOf

\* A pool enters or leaves the used ones.
LEMMA UsedChanges ==
  ASSUME NEW us, NEW p \in Blocks
  PROVE  /\ p \notin us => Total(UsedOf(us \cup {p})) = Total(UsedOf(us)) + 1
         /\ p \in us => Total(UsedOf(us \ {p})) = Total(UsedOf(us)) - 1
<1>1. \A x : UsedOf(x) \in [Blocks -> Int]
  BY Zenon, UsedFacts
<1>2. ASSUME p \notin us PROVE Total(UsedOf(us \cup {p})) = Total(UsedOf(us)) + 1
  <2>1. UsedOf(us \cup {p})[p] = UsedOf(us)[p] + 1
    <3>1. UsedOf(us \cup {p})[p] = 1 /\ UsedOf(us)[p] = 0
      BY Zenon, <1>2, UsedFacts
    <3> QED
      BY <3>1
  <2>2. \A b \in Blocks : b # p => UsedOf(us \cup {p})[b] = UsedOf(us)[b]
    BY Zenon, <1>2 DEF UsedOf
  <2>3. 1 \in Int
    OBVIOUS
  <2> QED
    BY Zenon, <1>1, <2>1, <2>2, <2>3, TotalChanges
<1>3. ASSUME p \in us PROVE Total(UsedOf(us \ {p})) = Total(UsedOf(us)) - 1
  <2>1. UsedOf(us \ {p})[p] = UsedOf(us)[p] + (-1)
    <3>1. UsedOf(us \ {p})[p] = 0 /\ UsedOf(us)[p] = 1
      BY Zenon, <1>3, UsedFacts
    <3> QED
      BY <3>1
  <2>2. \A b \in Blocks : b # p => UsedOf(us \ {p})[b] = UsedOf(us)[b]
    BY Zenon, <1>3 DEF UsedOf
  <2>3. -1 \in Int
    OBVIOUS
  <2>4. Total(UsedOf(us \ {p})) = Total(UsedOf(us)) + (-1)
    BY Zenon, <1>1, <2>1, <2>2, <2>3, TotalChanges
  <2>5. Total(UsedOf(us)) \in Int
    BY Zenon, <1>1, TotalType
  <2> QED
    BY <2>4, <2>5
<1> QED
  BY Zenon, <1>2, <1>3

\* The used pools may change as long as their class and what was asked for stay.
Like(r, q) == r.pos = q.pos /\ r.asked = q.asked /\ r.cap >= q.cap
LEMMA CacheKept ==
  ASSUME NEW ps, NEW us, NEW fr, NEW cnt, NEW capy, CacheOk(ps, us, fr, cnt, capy),
         NEW ps2, DOMAIN ps2 = DOMAIN ps, ps2 \in [DOMAIN ps -> PoolRecs],
         \A b \in us : Like(ps2[b], ps[b]), \A b \in DOMAIN ps \ us : ps2[b] = ps[b]
  PROVE  CacheOk(ps2, us, fr, cnt, capy)
<1>1. /\ ps \in [DOMAIN ps -> PoolRecs] /\ DOMAIN ps \in SUBSET Blocks /\ us \in SUBSET DOMAIN ps
      /\ Listed(fr, PosOf(ps), DOMAIN ps \ us)
      /\ \A b \in DOMAIN ps : Sized(ps[b])
      /\ \A b \in us : Fitting(ps[b])
      /\ capy = Total(CapOf(ps, us)) /\ capy <= MaxCapacity
      /\ cnt = Total(UsedOf(us))
  BY Zenon DEF CacheOk
<1>2. \A b \in DOMAIN ps : /\ ps[b].cap \in Nat /\ ps2[b].cap \in Nat /\ ps[b].asked \in Nat
                            /\ ps[b].pos \in 1..Classes + 1
  BY Zenon, <1>1 DEF PoolRecs
<1>3. Listed(fr, PosOf(ps2), DOMAIN ps2 \ us)
  <2>1. \A b \in DOMAIN ps \ us : PosOf(ps2)[b] = PosOf(ps)[b]
    BY Zenon DEF PosOf
  <2> QED
    BY Zenon, <1>1, <2>1, ListedSame
<1>4. ASSUME NEW b \in us PROVE Sized(ps2[b]) /\ Fitting(ps2[b])
  <2>1. Like(ps2[b], ps[b]) /\ Sized(ps[b]) /\ Fitting(ps[b]) /\ b \in DOMAIN ps
    BY Zenon, <1>1
  <2>2. /\ ps[b].cap \in Nat /\ ps2[b].cap \in Nat /\ ps[b].asked \in Nat /\ ps[b].pos \in 1..Classes + 1
    BY Zenon, <1>2, <2>1
  <2>3. Sized(ps2[b])
    <3>1. ASSUME ps[b].pos <= Classes PROVE ps2[b].cap >= SizeArray[ps[b].pos]
      <4>1. SizeArray[ps[b].pos] \in Nat
        BY Zenon, <2>2, <3>1, SizeAt
      <4> QED
        BY Zenon, <2>1, <2>2, <3>1, <4>1, GeqTrans DEF Sized, Like
    <3> QED
      BY Zenon, <2>1, <3>1 DEF Sized, Like
  <2>4. Fitting(ps2[b])
    <3>1. ps2[b].cap >= ps[b].asked
      BY Zenon, <2>1, <2>2, GeqTrans DEF Like, Fitting
    <3> QED
      BY Zenon, <2>1, <3>1 DEF Fitting, Like
  <2> QED
    BY Zenon, <2>3, <2>4
<1>5. \A b \in DOMAIN ps2 : Sized(ps2[b])
  BY Zenon, <1>1, <1>4
<1>6. CapOf(ps2, us) = CapOf(ps, us)
  BY Zenon DEF CapOf
<1> QED
  BY Zenon, <1>1, <1>3, <1>4, <1>5, <1>6 DEF CacheOk

\* A cached pool is used again for init bytes: its class is the one of init.
Without(capy, cap) == IF capy > cap THEN capy - cap ELSE 0
ShrinksTo(f, c, g) == Without(Total(f), c) = Total(g) /\ Total(g) <= MaxCapacity
LEMMA CapShrinks ==
  ASSUME NEW f \in [Blocks -> Nat], NEW g \in [Blocks -> Nat], NEW p \in Blocks, NEW c \in Nat,
         f[p] = c, g[p] = 0, \A b \in Blocks : b # p => g[b] = f[b], Total(f) <= MaxCapacity
  PROVE  ShrinksTo(f, c, g)
<1>1. f \in [Blocks -> Int] /\ g \in [Blocks -> Int] /\ c \in Int /\ f[p] = g[p] + c
  OBVIOUS
<1>2. Total(f) = Total(g) + c
  BY Zenon, <1>1, TotalChanges
<1>3. Total(f) \in Nat /\ Total(g) \in Nat /\ MaxCapacity \in Nat
  BY Zenon, TotalNat, MemoryAssumption
<1>4. \A t, u, m \in Nat : t = u + c /\ t <= m => Without(t, c) = u /\ u <= m
  BY DEF Without
<1> QED
  BY Zenon, <1>2, <1>3, <1>4 DEF ShrinksTo

LEMMA CacheReuse ==
  ASSUME NEW ps, NEW us, NEW fr, NEW cnt, NEW capy, CacheOk(ps, us, fr, cnt, capy),
         NEW i \in 1..Classes, fr[i] # <<>>, NEW init \in Nat, First(init, i), NEW p, p = Head(fr[i]),
         NEW r \in PoolRecs, r.asked = init, r.pos = ps[p].pos, r.cap = ps[p].cap,
         NEW ps2 \in [DOMAIN ps -> PoolRecs], ps2[p] = r, \A b \in DOMAIN ps : b # p => ps2[b] = ps[b]
  PROVE  CacheOk(ps2, us \cup {p}, [fr EXCEPT ![i] = Tail(@)], cnt + 1, Without(capy, ps[p].cap))
<1> DEFINE f2 == [fr EXCEPT ![i] = Tail(@)]
<1>1. /\ ps \in [DOMAIN ps -> PoolRecs] /\ DOMAIN ps \in SUBSET Blocks /\ us \in SUBSET DOMAIN ps
      /\ Listed(fr, PosOf(ps), DOMAIN ps \ us)
      /\ \A b \in DOMAIN ps : Sized(ps[b])
      /\ \A b \in us : Fitting(ps[b])
      /\ capy = Total(CapOf(ps, us)) /\ capy <= MaxCapacity
      /\ cnt = Total(UsedOf(us))
  BY Zenon DEF CacheOk
<1>2. p \in DOMAIN ps \ us /\ PosOf(ps)[p] = i /\ Listed(f2, PosOf(ps), (DOMAIN ps \ us) \ {p})
  <2>1. PoppedIs(fr, PosOf(ps), DOMAIN ps \ us, i)
    BY Zenon, <1>1, Popped
  <2> QED
    BY Zenon, <2>1 DEF PoppedIs
<1>3. /\ ps[p] \in PoolRecs /\ p \in Blocks /\ p \in DOMAIN ps /\ p \notin us
      /\ r.pos = ps[p].pos /\ r.cap = ps[p].cap /\ ps2[p] = r
      /\ \A b \in DOMAIN ps : b # p => ps2[b] = ps[b]
  BY Zenon, <1>1, <1>2
<1> HIDE DEF f2
<1>4. ps[p].pos = i /\ ps[p].cap \in Nat
  BY Zenon, <1>2, <1>3 DEF PosOf, PoolRecs
<1>5. r.pos = i /\ r.asked = init /\ r.cap = ps[p].cap
  BY Zenon, <1>3, <1>4
<1>6. DOMAIN ps2 = DOMAIN ps /\ ps2[p] = r /\ \A b \in DOMAIN ps : b # p => ps2[b] = ps[b]
  BY Zenon, <1>3
<1>7. ps2 \in [DOMAIN ps2 -> PoolRecs]
  BY Zenon, <1>6
<1>8. Sized(r) /\ Fitting(r)
  <2>0. i <= Classes /\ i <= i
    OBVIOUS
  <2>1. Sized(ps[p])
    BY Zenon, <1>1, <1>3
  <2>2. ps[p].cap >= SizeArray[i]
    BY Zenon, <1>4, <2>0, <2>1 DEF Sized
  <2>3. SizeArray[i] >= init
    BY Zenon, <2>0 DEF First
  <2>3a. SizeArray[i] \in Nat
    BY MemoryAssumption DEF Classes
  <2>4. ps[p].cap >= init
    BY Zenon, <1>4, <2>2, <2>3, <2>3a, GeqTrans
  <2> QED
    BY Zenon, <1>5, <2>2, <2>4 DEF Sized, Fitting
<1>9. (DOMAIN ps \ us) \ {p} = DOMAIN ps2 \ (us \cup {p})
  BY Zenon, <1>6
<1>10. Listed(f2, PosOf(ps2), DOMAIN ps2 \ (us \cup {p}))
  <2>0. \A b \in (DOMAIN ps \ us) \ {p} : b \in DOMAIN ps /\ b \in DOMAIN ps2 /\ ps2[b] = ps[b]
    BY Zenon, <1>6
  <2>1. ASSUME NEW b \in (DOMAIN ps \ us) \ {p} PROVE PosOf(ps2)[b] = PosOf(ps)[b]
    <3>1. b \in DOMAIN ps /\ b \in DOMAIN ps2 /\ ps2[b] = ps[b]
      BY Zenon, <2>0
    <3>2. PosOf(ps2)[b] = ps2[b].pos /\ PosOf(ps)[b] = ps[b].pos
      BY Zenon, <3>1, PosAt
    <3> QED
      BY Zenon, <3>1, <3>2
  <2>2. Listed(f2, PosOf(ps2), (DOMAIN ps \ us) \ {p})
    BY Zenon, <1>2, <2>1, ListedSame
  <2> QED
    BY Zenon, <1>9, <2>2
<1>11. us \cup {p} \in SUBSET DOMAIN ps2 /\ DOMAIN ps2 \in SUBSET Blocks
  BY Zenon, <1>1, <1>3, <1>6
<1>12. \A b \in us \cup {p} : Fitting(ps2[b])
  BY Zenon, <1>1, <1>6, <1>8
<1>13. \A b \in DOMAIN ps2 : Sized(ps2[b])
  BY Zenon, <1>1, <1>6, <1>8
<1> DEFINE f == CapOf(ps, us)
           g == CapOf(ps2, us \cup {p})
<1>14. Without(capy, ps[p].cap) = Total(g) /\ Total(g) <= MaxCapacity
  <2>1. f \in [Blocks -> Nat] /\ g \in [Blocks -> Nat]
    BY Zenon, <1>1, <1>7, CapFacts
  <2>2. f[p] = ps[p].cap /\ g[p] = 0
    BY Zenon, <1>2, <1>3 DEF CapOf
  <2>3. ASSUME NEW b \in Blocks, b # p PROVE g[b] = f[b]
    <3>1. CASE b \in DOMAIN ps \ us
      <4>1. ps2[b] = ps[b] /\ b \in DOMAIN ps2 \ (us \cup {p})
        BY Zenon, <1>6, <2>3, <3>1
      <4>2. f[b] = ps[b].cap /\ g[b] = ps2[b].cap
        BY Zenon, <3>1, <4>1 DEF CapOf
      <4> QED
        BY Zenon, <4>1, <4>2
    <3>2. CASE b \notin DOMAIN ps \ us
      <4>1. b \notin DOMAIN ps2 \ (us \cup {p})
        BY Zenon, <1>6, <3>2
      <4> QED
        BY Zenon, <3>2, <4>1 DEF CapOf
    <3> QED
      BY Zenon, <3>1, <3>2
  <2>4. capy = Total(f) /\ Total(f) <= MaxCapacity
    BY Zenon, <1>1
  <2> HIDE DEF f, g
  <2>5. ShrinksTo(f, ps[p].cap, g)
    BY Zenon, <1>3, <1>4, <2>1, <2>2, <2>3, <2>4, CapShrinks
  <2> QED
    BY Zenon, <2>4, <2>5 DEF ShrinksTo
<1>15. cnt + 1 = Total(UsedOf(us \cup {p}))
  BY Zenon, <1>1, <1>3, UsedChanges
<1>16. CacheOk(ps2, us \cup {p}, f2, cnt + 1, Without(capy, ps[p].cap))
  BY Zenon, <1>7, <1>10, <1>11, <1>12, <1>13, <1>14, <1>15 DEF CacheOk
<1> QED
  BY Zenon, <1>16 DEF f2

\* A pool is created in a block that was no pool.
LEMMA CacheCreate ==
  ASSUME NEW ps, NEW us, NEW fr, NEW cnt, NEW capy, CacheOk(ps, us, fr, cnt, capy),
         NEW p \in Blocks, p \notin DOMAIN ps, NEW r \in PoolRecs, Sized(r), Fitting(r),
         NEW ps2 \in [DOMAIN ps \cup {p} -> PoolRecs], ps2[p] = r, \A b \in DOMAIN ps : ps2[b] = ps[b]
  PROVE  CacheOk(ps2, us \cup {p}, fr, cnt + 1, capy)
<1>1. /\ ps \in [DOMAIN ps -> PoolRecs] /\ DOMAIN ps \in SUBSET Blocks /\ us \in SUBSET DOMAIN ps
      /\ Listed(fr, PosOf(ps), DOMAIN ps \ us)
      /\ \A b \in DOMAIN ps : Sized(ps[b])
      /\ \A b \in us : Fitting(ps[b])
      /\ capy = Total(CapOf(ps, us)) /\ capy <= MaxCapacity
      /\ cnt = Total(UsedOf(us))
  BY Zenon DEF CacheOk
<1>2. DOMAIN ps2 = DOMAIN ps \cup {p} /\ ps2[p] = r /\ (\A b \in DOMAIN ps : ps2[b] = ps[b])
  BY Zenon
<1>3. ps2 \in [DOMAIN ps2 -> PoolRecs]
  BY Zenon, <1>2
<1>4. DOMAIN ps2 \ (us \cup {p}) = DOMAIN ps \ us /\ p \notin us
  BY Zenon, <1>1, <1>2
<1>5. Listed(fr, PosOf(ps2), DOMAIN ps2 \ (us \cup {p}))
  <2>1. \A b \in DOMAIN ps \ us : PosOf(ps2)[b] = PosOf(ps)[b]
    BY Zenon, <1>2 DEF PosOf
  <2>2. Listed(fr, PosOf(ps2), DOMAIN ps \ us)
    BY Zenon, <1>1, <2>1, ListedSame
  <2> QED
    BY Zenon, <1>4, <2>2
<1>6. us \cup {p} \in SUBSET DOMAIN ps2 /\ DOMAIN ps2 \in SUBSET Blocks
  BY Zenon, <1>1, <1>2
<1>7. \A b \in us \cup {p} : Fitting(ps2[b])
  BY Zenon, <1>1, <1>2
<1>8. \A b \in DOMAIN ps2 : Sized(ps2[b])
  BY Zenon, <1>1, <1>2
<1>9. CapOf(ps2, us \cup {p}) = CapOf(ps, us)
  <2>1. \A b \in DOMAIN ps \ us : ps2[b] = ps[b]
    BY Zenon, <1>2
  <2> QED
    BY Zenon, <1>4, <2>1 DEF CapOf
<1>10. cnt + 1 = Total(UsedOf(us \cup {p}))
  BY Zenon, <1>1, <1>4, UsedChanges
<1> QED
  BY Zenon, <1>1, <1>3, <1>5, <1>6, <1>7, <1>8, <1>9, <1>10 DEF CacheOk

\* A pool is released into the cache.
LEMMA CacheAdd ==
  ASSUME NEW ps, NEW us, NEW fr, NEW cnt, NEW capy, CacheOk(ps, us, fr, cnt, capy),
         NEW p \in us, ps[p].pos <= Classes, ps[p].cap + capy <= MaxCapacity
  PROVE  CacheOk(ps, us \ {p}, [fr EXCEPT ![ps[p].pos] = Append(@, p)], cnt - 1, capy + ps[p].cap)
<1> DEFINE f2 == [fr EXCEPT ![ps[p].pos] = Append(@, p)]
<1>1. /\ ps \in [DOMAIN ps -> PoolRecs] /\ DOMAIN ps \in SUBSET Blocks /\ us \in SUBSET DOMAIN ps
      /\ Listed(fr, PosOf(ps), DOMAIN ps \ us)
      /\ \A b \in DOMAIN ps : Sized(ps[b])
      /\ \A b \in us : Fitting(ps[b])
      /\ capy = Total(CapOf(ps, us)) /\ capy <= MaxCapacity
      /\ cnt = Total(UsedOf(us))
  BY Zenon DEF CacheOk
<1>2. p \in DOMAIN ps /\ p \in Blocks /\ ps[p] \in PoolRecs
  BY Zenon, <1>1
<1>3. PosOf(ps)[p] = ps[p].pos /\ ps[p].pos \in 1..Classes + 1 /\ ps[p].cap \in Nat
  BY Zenon, <1>2 DEF PosOf, PoolRecs
<1>4. ps[p].pos \in 1..Classes
  BY <1>3, MemoryAssumption DEF Classes
<1>5. DOMAIN ps \ (us \ {p}) = (DOMAIN ps \ us) \cup {p}
  BY Zenon, <1>2
<1>6. Listed(f2, PosOf(ps), DOMAIN ps \ (us \ {p}))
  <2>1. PosOf(ps)[p] \in 1..Classes /\ p \notin DOMAIN ps \ us
    BY Zenon, <1>3, <1>4
  <2>2. Listed([fr EXCEPT ![PosOf(ps)[p]] = Append(@, p)], PosOf(ps), (DOMAIN ps \ us) \cup {p})
    BY Zenon, <1>1, <1>2, <2>1, Pushed
  <2> QED
    BY Zenon, <1>3, <1>5, <2>2
<1> HIDE DEF f2
<1> DEFINE f == CapOf(ps, us)
           g == CapOf(ps, us \ {p})
<1>7. Total(g) = Total(f) + ps[p].cap /\ Total(f) \in Nat
  <2>1. f \in [Blocks -> Nat] /\ f \in [Blocks -> Int] /\ g \in [Blocks -> Int]
    BY Zenon, <1>1, CapFacts
  <2>2. f[p] = 0 /\ g[p] = ps[p].cap
    BY Zenon, <1>2, <1>5 DEF CapOf
  <2>3. \A b \in Blocks : b # p => g[b] = f[b]
    BY Zenon, <1>5 DEF CapOf
  <2> HIDE DEF f, g
  <2>4. g[p] = f[p] + ps[p].cap /\ ps[p].cap \in Int
    BY <1>3, <2>2
  <2> QED
    BY Zenon, <1>2, <2>1, <2>3, <2>4, TotalChanges, TotalNat
<1>8. capy + ps[p].cap = Total(g) /\ capy + ps[p].cap <= MaxCapacity
  <2> HIDE DEF f, g
  <2>1. capy = Total(f)
    BY Zenon, <1>1 DEF f
  <2> QED
    BY <1>3, <1>7, <2>1
<1>9. cnt - 1 = Total(UsedOf(us \ {p}))
  BY Zenon, <1>1, <1>2, UsedChanges
<1>10. us \ {p} \in SUBSET DOMAIN ps /\ \A b \in us \ {p} : Fitting(ps[b])
  BY Zenon, <1>1
<1>11. CacheOk(ps, us \ {p}, f2, cnt - 1, capy + ps[p].cap)
  BY Zenon, <1>1, <1>6, <1>8, <1>9, <1>10 DEF CacheOk
<1> QED
  BY Zenon, <1>11 DEF f2

\* A pool is given back to the heap.
LEMMA CacheDrop ==
  ASSUME NEW ps, NEW us, NEW fr, NEW cnt, NEW capy, CacheOk(ps, us, fr, cnt, capy), NEW p \in us
  PROVE  CacheOk([q \in DOMAIN ps \ {p} |-> ps[q]], us \ {p}, fr, cnt - 1, capy)
<1> DEFINE ps2 == [q \in DOMAIN ps \ {p} |-> ps[q]]
<1>1. /\ ps \in [DOMAIN ps -> PoolRecs] /\ DOMAIN ps \in SUBSET Blocks /\ us \in SUBSET DOMAIN ps
      /\ Listed(fr, PosOf(ps), DOMAIN ps \ us)
      /\ \A b \in DOMAIN ps : Sized(ps[b])
      /\ \A b \in us : Fitting(ps[b])
      /\ capy = Total(CapOf(ps, us)) /\ capy <= MaxCapacity
      /\ cnt = Total(UsedOf(us))
  BY Zenon DEF CacheOk
<1>2. DOMAIN ps2 = DOMAIN ps \ {p} /\ (\A b \in DOMAIN ps \ {p} : ps2[b] = ps[b]) /\ p \in Blocks
  BY Zenon, <1>1
<1>3. ps2 \in [DOMAIN ps2 -> PoolRecs]
  BY Zenon, <1>1
<1> HIDE DEF ps2
<1>4. DOMAIN ps2 \ (us \ {p}) = DOMAIN ps \ us
  BY Zenon, <1>1, <1>2
<1>5. \A b \in DOMAIN ps \ us : b \in DOMAIN ps \ {p} /\ ps2[b] = ps[b]
  BY Zenon, <1>2
<1>6. Listed(fr, PosOf(ps2), DOMAIN ps2 \ (us \ {p}))
  <2>1. \A b \in DOMAIN ps \ us : PosOf(ps2)[b] = PosOf(ps)[b]
    BY Zenon, <1>2, <1>5 DEF PosOf
  <2>2. Listed(fr, PosOf(ps2), DOMAIN ps \ us)
    BY Zenon, <1>1, <2>1, ListedSame
  <2> QED
    BY Zenon, <1>4, <2>2
<1>7. us \ {p} \in SUBSET DOMAIN ps2 /\ DOMAIN ps2 \in SUBSET Blocks
  BY Zenon, <1>1, <1>2
<1>8. (\A b \in us \ {p} : Fitting(ps2[b])) /\ \A b \in DOMAIN ps2 : Sized(ps2[b])
  BY Zenon, <1>1, <1>2
<1>9. CapOf(ps2, us \ {p}) = CapOf(ps, us)
  BY Zenon, <1>4, <1>5 DEF CapOf
<1>10. cnt - 1 = Total(UsedOf(us \ {p}))
  BY Zenon, <1>1, <1>2, UsedChanges
<1>11. CacheOk(ps2, us \ {p}, fr, cnt - 1, capy)
  BY Zenon, <1>1, <1>3, <1>6, <1>7, <1>8, <1>9, <1>10 DEF CacheOk
<1> QED
  BY Zenon, <1>11 DEF ps2

-----------------------------------------------------------------------------
(* The invariant.  Besides the heap and the helper: until a pool that grew *)
(* is released every block in use holds a chunk, and used_size_ is exact   *)
(* until it is raced for.                                                  *)

Has(ch, b) == \E p \in DOMAIN ch : \E i \in 1..Len(ch[p]) : ch[p][i].blk = b
Covered(h, ch) == \A b \in Blocks : h[b] # 0 => Has(ch, b)
CacheInv == CacheOk(pools, used, free, count, capacity)
CoverInv == fault = "no" => Covered(heap, ChunksOf(pools))
Exact == usedSize = Total(heap) + failed /\ (growing # <<>> => growing[1].loaded = usedSize)
SizeInv == usedSize \in Int /\ failed \in Nat /\ (fault = "no" /\ ~raced => Exact)
GrowInv ==
  growing # <<>> =>
    LET g == growing[1] IN g.pool \in used /\ g.size \in AllocSizes /\ g.loaded \in Int /\ pools[g.pool].incr > 0
MemInv == HeapInv /\ CacheInv /\ CoverInv /\ SizeInv /\ GrowInv

LEMMA HeapGains ==
  ASSUME NEW h \in [Blocks -> Nat], NEW b \in Blocks, h[b] = 0, NEW size \in Nat
  PROVE  Total([h EXCEPT ![b] = size]) = Total(h) + size /\ Total(h) \in Nat
<1> DEFINE k == [h EXCEPT ![b] = size]
<1>1. k \in [Blocks -> Nat] /\ k[b] = h[b] + size /\ \A c \in Blocks : c # b => k[c] = h[c]
  OBVIOUS
<1>2. k \in [Blocks -> Int] /\ h \in [Blocks -> Int] /\ size \in Int
  OBVIOUS
<1> HIDE DEF k
<1>3. Total(k) = Total(h) + size
  BY Zenon, <1>1, <1>2, TotalChanges
<1> QED
  BY Zenon, <1>3, TotalNat DEF k

LEMMA HeapLoses ==
  ASSUME NEW h \in [Blocks -> Nat], NEW b \in Blocks
  PROVE  Total(h) = Total([h EXCEPT ![b] = 0]) + h[b] /\ Total([h EXCEPT ![b] = 0]) \in Nat
<1> DEFINE k == [h EXCEPT ![b] = 0]
<1>1. k \in [Blocks -> Nat] /\ h[b] = k[b] + h[b] /\ \A c \in Blocks : c # b => h[c] = k[c]
  OBVIOUS
<1>2. k \in [Blocks -> Int] /\ h \in [Blocks -> Int] /\ h[b] \in Int
  OBVIOUS
<1> HIDE DEF k
<1>3. Total(h) = Total(k) + h[b]
  BY Zenon, <1>1, <1>2, TotalChanges
<1> QED
  BY Zenon, <1>1, <1>3, TotalNat DEF k

LEMMA ChunksAt ==
  ASSUME NEW ps
  PROVE  DOMAIN ChunksOf(ps) = DOMAIN ps /\ \A p \in DOMAIN ps : ChunksOf(ps)[p] = ps[p].chunks
BY Zenon DEF ChunksOf

\* The size of a new pool: it holds its header, and what was asked for.
SizeFor(pos, init) == IF pos <= Classes THEN SizeArray[pos] ELSE init
LEMMA PoolSizeFacts ==
  ASSUME NEW init \in Nat, NEW pos, First(init, pos)
  PROVE  LET size == SizeFor(pos, init) IN
         /\ size \in Nat /\ size >= PoolSize + ChunkSize /\ size >= init
         /\ pos \in 1..Classes + 1
<1>1. /\ Classes \in Nat /\ Classes >= 1 /\ PoolSize \in Nat /\ ChunkSize \in Nat
      /\ SizeArray[1] \in Nat /\ SizeArray[1] >= PoolSize + ChunkSize
  BY MemoryAssumption DEF Classes
<1>2. pos \in 1..Classes + 1 /\ \A i \in 1..Classes : SizeArray[i] >= init <=> pos <= i
  BY Zenon DEF First
<1>3. CASE pos <= Classes
  <2>1. pos \in 1..Classes /\ pos <= pos
    BY <1>1, <1>2, <1>3
  <2>2. SizeArray[pos] >= init
    BY Zenon, <1>2, <2>1
  <2>3. SizeArray[pos] \in Nat
    BY <2>1, MemoryAssumption DEF Classes
  <2>4. SizeArray[pos] >= SizeArray[1]
    <3>1. CASE pos = 1
      BY <2>3, <3>1
    <3>2. CASE pos # 1
      <4>1. 1 \in 1..Classes /\ 1 < pos
        BY <1>1, <2>1, <3>2
      <4>2. SizeArray[1] < SizeArray[pos]
        BY Zenon, <2>1, <4>1, MemoryAssumption
      <4> QED
        BY <1>1, <2>3, <4>2
    <3> QED
      BY <3>1, <3>2
  <2>5. SizeArray[pos] >= PoolSize + ChunkSize
    BY <1>1, <2>3, <2>4
  <2> QED
    BY Zenon, <1>2, <1>3, <2>2, <2>3, <2>5 DEF SizeFor
<1>4. CASE ~(pos <= Classes)
  <2>1. 1 \in 1..Classes /\ ~(pos <= 1)
    BY <1>1, <1>2, <1>4
  <2>2. ~(SizeArray[1] >= init)
    BY Zenon, <1>2, <2>1
  <2>3. init >= PoolSize + ChunkSize /\ init >= init
    BY <1>1, <2>2
  <2> QED
    BY Zenon, <1>2, <1>4, <2>3 DEF SizeFor
<1> QED
  BY <1>3, <1>4

LEMMA RoomIsFree ==
  ASSUME HeapHasRoom
  PROVE  FreeBlock \in Blocks /\ heap[FreeBlock] = 0
BY Zenon DEF HeapHasRoom, FreeBlock

\* create_pool__ with a cached pool.
LEMMA ReuseKeeps ==
  ASSUME MemInv, NEW init \in InitSizes, NEW incr \in IncrSizes, Reuse(init, incr)
  PROVE  MemInv'
<1> DEFINE pos == BinarySearch(init)
           p == Head(free[pos])
           r == [pools[p] EXCEPT !.incr = incr, !.asked = init]
<1>1. HeapInv /\ CacheInv /\ CoverInv /\ SizeInv /\ GrowInv
  BY Zenon DEF MemInv
<1>2. init \in Nat /\ incr \in Nat
  BY Zenon, MemoryAssumption
<1>3. First(init, pos)
  BY Zenon, <1>2, SearchFinds
<1>4. /\ Cached(pos) # <<>>
      /\ free' = [free EXCEPT ![pos] = Tail(@)]
      /\ pools' = [pools EXCEPT ![p].incr = incr, ![p].asked = init]
      /\ capacity' = IF capacity > pools[p].cap THEN capacity - pools[p].cap ELSE 0
      /\ used' = used \cup {p} /\ count' = count + 1
      /\ UNCHANGED <<heap, usedSize, growing, given, failed, raced, fault>>
  BY Zenon DEF Reuse
<1> HIDE DEF pos
<1>5. pos \in 1..Classes /\ free[pos] # <<>>
  <2>1. pos <= Classes /\ free[pos] # <<>>
    BY Zenon, <1>4 DEF Cached
  <2>2. Classes \in Nat /\ pos \in 1..Classes + 1
    BY Zenon, <1>3, SizesFacts DEF First
  <2> QED
    BY <2>1, <2>2
<1>6. CacheOk(pools, used, free, count, capacity)
  BY Zenon, <1>1 DEF CacheInv
<1>7. /\ pools \in [DOMAIN pools -> PoolRecs] /\ Listed(free, PosOf(pools), DOMAIN pools \ used)
  BY Zenon, <1>6 DEF CacheOk
<1>8. p \in DOMAIN pools /\ p \notin used
  <2>1. PoppedIs(free, PosOf(pools), DOMAIN pools \ used, pos)
    BY Zenon, <1>5, <1>7, Popped
  <2> QED
    BY Zenon, <2>1 DEF PoppedIs
<1>9. pools[p] \in PoolRecs
  BY Zenon, <1>7, <1>8
<1> HIDE DEF p
<1>10. r \in PoolRecs /\ r.pos = pools[p].pos /\ r.asked = init /\ r.cap = pools[p].cap /\ r.chunks = pools[p].chunks
  BY Zenon, <1>2, <1>9 DEF PoolRecs
<1>11. DOMAIN pools' = DOMAIN pools /\ pools'[p] = r /\ \A b \in DOMAIN pools : b # p => pools'[b] = pools[b]
  BY Zenon, <1>4, <1>8
<1>12. pools' = [b \in DOMAIN pools |-> pools'[b]]
  BY Zenon, <1>4, <1>7
<1> HIDE DEF r
<1>13. pools' \in [DOMAIN pools -> PoolRecs]
  <2>1. \A b \in DOMAIN pools : pools'[b] \in PoolRecs
    BY Zenon, <1>7, <1>10, <1>11
  <2> QED
    BY Zenon, <1>12, <2>1
<1>14. CacheOk(pools', used', free', count', capacity')
  <2>1. p = Head(free[pos]) /\ r.asked = init /\ r.pos = pools[p].pos /\ r.cap = pools[p].cap /\ r \in PoolRecs
    BY Zenon, <1>10 DEF p
  <2>2. CacheOk(pools', used \cup {p}, [free EXCEPT ![pos] = Tail(@)], count + 1, Without(capacity, pools[p].cap))
    BY Zenon, <1>2, <1>3, <1>5, <1>6, <1>11, <1>13, <2>1, CacheReuse
  <2>3. capacity' = Without(capacity, pools[p].cap)
    BY Zenon, <1>4 DEF Without
  <2> QED
    BY Zenon, <1>4, <2>2, <2>3
<1>15. ChunksOf(pools') = ChunksOf(pools)
  <2>1. \A b \in DOMAIN pools : pools'[b].chunks = pools[b].chunks
    BY Zenon, <1>10, <1>11
  <2> QED
    BY Zenon, <1>11, <2>1 DEF ChunksOf
<1>16. HeapInv' /\ CoverInv'
  BY Zenon, <1>1, <1>4, <1>15 DEF HeapInv, CoverInv
<1>17. SizeInv'
  BY Zenon, <1>1, <1>4 DEF SizeInv, Exact
<1>18. GrowInv'
  <2>1. ASSUME growing # <<>>
        PROVE  /\ growing[1].pool \in used' /\ growing[1].size \in AllocSizes /\ growing[1].loaded \in Int
               /\ pools'[growing[1].pool].incr > 0
    <3>1. /\ growing[1].pool \in used /\ growing[1].size \in AllocSizes /\ growing[1].loaded \in Int
          /\ pools[growing[1].pool].incr > 0
      BY Zenon, <1>1, <2>1 DEF GrowInv
    <3>2. growing[1].pool \in DOMAIN pools
      BY Zenon, <1>6, <3>1 DEF CacheOk
    <3>3. pools'[growing[1].pool] = pools[growing[1].pool]
      BY Zenon, <1>8, <1>11, <3>1, <3>2
    <3> QED
      BY Zenon, <1>4, <3>1, <3>3
  <2> QED
    BY Zenon, <1>4, <2>1 DEF GrowInv
<1> QED
  BY Zenon, <1>14, <1>16, <1>17, <1>18 DEF MemInv, CacheInv

\* The pool that grows stays as it is.
LEMMA GrowKept ==
  ASSUME GrowInv, growing' = growing,
         \A q \in used : Busy(q) => q \in used' /\ pools'[q].incr = pools[q].incr
  PROVE  GrowInv'
<1>1. ASSUME growing # <<>>
      PROVE  /\ growing[1].pool \in used' /\ growing[1].size \in AllocSizes /\ growing[1].loaded \in Int
             /\ pools'[growing[1].pool].incr > 0
  <2>1. /\ growing[1].pool \in used /\ growing[1].size \in AllocSizes /\ growing[1].loaded \in Int
        /\ pools[growing[1].pool].incr > 0
    BY Zenon, <1>1 DEF GrowInv
  <2>2. Busy(growing[1].pool)
    BY Zenon, <1>1 DEF Busy
  <2> QED
    BY Zenon, <2>1, <2>2
<1> QED
  BY Zenon, <1>1 DEF GrowInv

LEMMA CoverNew ==
  ASSUME NEW h \in [Blocks -> Nat], NEW ch, Covered(h, ch), NEW b \in Blocks, NEW size, NEW ch2,
         \A x \in Blocks : Has(ch, x) => Has(ch2, x), Has(ch2, b)
  PROVE  Covered([h EXCEPT ![b] = size], ch2)
<1> SUFFICES ASSUME NEW x \in Blocks, [h EXCEPT ![b] = size][x] # 0 PROVE Has(ch2, x)
  BY Zenon DEF Covered
<1>1. CASE x = b
  BY Zenon, <1>1
<1>2. CASE x # b
  <2>1. h[x] # 0
    BY Zenon, <1>2
  <2> QED
    BY Zenon, <2>1 DEF Covered
<1> QED
  BY Zenon, <1>1, <1>2

\* create_pool__ with a new pool.
LEMMA CreateKeeps ==
  ASSUME MemInv, NEW init \in InitSizes, NEW incr \in IncrSizes, Create(init, incr)
  PROVE  MemInv'
<1> DEFINE pos == BinarySearch(init)
           size == SizeFor(pos, init)
           p == FreeBlock
           c == Chunk(p, PoolSize, size)
           r == [cap |-> size, incr |-> incr, pos |-> pos, asked |-> init, chunks |-> <<c>>]
<1>1. HeapInv /\ CacheInv /\ CoverInv /\ SizeInv /\ GrowInv
  BY Zenon DEF MemInv
<1>2. init \in Nat /\ incr \in Nat
  BY Zenon, MemoryAssumption
<1>3. First(init, pos)
  BY Zenon, <1>2, SearchFinds
<1>4. /\ usedSize' = usedSize + size
      /\ raced' = (raced \/ growing # <<>>)
      /\ \/ /\ HeapHasRoom
            /\ heap' = [heap EXCEPT ![p] = size]
            /\ pools' = [q \in DOMAIN pools \cup {p} |-> IF q # p THEN pools[q] ELSE r]
            /\ used' = used \cup {p} /\ count' = count + 1
            /\ UNCHANGED failed
         \/ /\ failed = 0 /\ failed' = size
            /\ UNCHANGED <<heap, pools, used, count>>
      /\ UNCHANGED <<free, capacity, growing, given, fault>>
  BY Zenon DEF Create, SizeFor
<1>5. size \in Nat /\ size >= PoolSize + ChunkSize /\ size >= init /\ pos \in 1..Classes + 1
  BY Zenon, <1>2, <1>3, PoolSizeFacts
<1>5a. pos <= Classes => size = SizeArray[pos]
  BY Zenon DEF SizeFor
<1> HIDE DEF pos, size, p
<1>6. CacheOk(pools, used, free, count, capacity) /\ HeapOk(heap, ChunksOf(pools), given)
  BY Zenon, <1>1 DEF CacheInv, HeapInv
<1>7. /\ pools \in [DOMAIN pools -> PoolRecs] /\ DOMAIN pools \in SUBSET Blocks /\ used \in SUBSET DOMAIN pools
      /\ heap \in [Blocks -> Nat]
  BY Zenon, <1>6 DEF CacheOk, HeapOk
<1>8. usedSize \in Int /\ failed \in Nat /\ (fault = "no" /\ ~raced => Exact)
  BY Zenon, <1>1 DEF SizeInv
<1>9. usedSize' \in Int
  BY Zenon, <1>4, <1>5, <1>8, IntSum
<1>10. CASE /\ HeapHasRoom
            /\ heap' = [heap EXCEPT ![p] = size]
            /\ pools' = [q \in DOMAIN pools \cup {p} |-> IF q # p THEN pools[q] ELSE r]
            /\ used' = used \cup {p} /\ count' = count + 1
            /\ UNCHANGED failed
  <2>1. p \in Blocks /\ heap[p] = 0
    BY Zenon, <1>10, RoomIsFree DEF p
  <2>2. p \notin DOMAIN pools
    BY Zenon, <1>6, <2>1, FreeIsUnused, ChunksAt
  <2>3. c \in Chunks /\ c.blk = p
    <3>1. PoolSize \in {0, PoolSize}
      BY Zenon
    <3> QED
      BY Zenon, <1>5, <2>1, <3>1, ChunkFacts
  <2> HIDE DEF c
  <2>4. <<c>> \in Seq(Chunks)
    BY <2>3
  <2>5. r \in PoolRecs /\ r.cap = size /\ r.pos = pos /\ r.asked = init /\ r.chunks = <<c>>
    BY Zenon, <1>2, <1>5, <2>4 DEF PoolRecs
  <2> HIDE DEF r
  <2>6. size >= size
    BY <1>5
  <2>7. Sized(r) /\ Fitting(r)
    BY Zenon, <1>3, <1>5, <1>5a, <2>5, <2>6 DEF Sized, Fitting
  <2>8. /\ heap' = [heap EXCEPT ![p] = size] /\ used' = used \cup {p} /\ count' = count + 1 /\ failed' = failed
    BY Zenon, <1>10
  <2>9. DOMAIN pools' = DOMAIN pools \cup {p} /\ pools'[p] = r /\ \A q \in DOMAIN pools : pools'[q] = pools[q]
    BY Zenon, <1>10, <2>2
  <2>9a. pools' \in [DOMAIN pools \cup {p} -> PoolRecs]
    BY Zenon, <1>7, <1>10, <2>5
  <2>10. CacheInv'
    <3>1. CacheOk(pools', used \cup {p}, free, count + 1, capacity)
      BY Zenon, <1>6, <2>1, <2>2, <2>5, <2>7, <2>9, <2>9a, CacheCreate
    <3> QED
      BY Zenon, <1>4, <2>8, <3>1 DEF CacheInv
  <2> DEFINE ch == ChunksOf(pools)
             ch2 == ChunksOf(pools')
  <2>11. DOMAIN ch = DOMAIN pools /\ DOMAIN ch2 = DOMAIN ch \cup {p} /\ p \notin DOMAIN ch
    BY Zenon, <2>2, <2>9, ChunksAt
  <2>12. \A q \in DOMAIN ch : ch2[q] = ch[q]
    BY Zenon, <2>9, <2>11 DEF ChunksOf
  <2>13. ch2[p] = <<c>>
    BY Zenon, <2>5, <2>9 DEF ChunksOf
  <2> HIDE DEF ch, ch2
  <2>14. HeapOk([heap EXCEPT ![p] = size], ch2, given)
    <3>1. ch2[p] = <<Chunk(p, PoolSize, size)>>
      BY Zenon, <2>13 DEF c
    <3>2. HeapOk(heap, ch, given)
      BY Zenon, <1>6 DEF ch
    <3> QED
      BY Zenon, <1>5, <2>1, <2>11, <2>12, <3>1, <3>2, PoolEnters
  <2>15. HeapInv'
    BY Zenon, <1>4, <2>8, <2>14 DEF HeapInv, ch2
  <2>16. CoverInv'
    <3>1. ASSUME fault = "no" PROVE Covered([heap EXCEPT ![p] = size], ch2)
      <4>1. Covered(heap, ch)
        BY Zenon, <1>1, <3>1 DEF CoverInv, ch
      <4>2. \A x \in Blocks : Has(ch, x) => Has(ch2, x)
        <5>1. \A q \in DOMAIN ch : q \in DOMAIN ch2 /\ ch2[q] = ch[q]
          BY Zenon, <2>11, <2>12
        <5> QED
          BY Zenon, <5>1 DEF Has
      <4>3. Has(ch2, p)
        <5>1. 1 \in 1..Len(<<c>>) /\ <<c>>[1] = c
          OBVIOUS
        <5>2. 1 \in 1..Len(ch2[p]) /\ ch2[p][1].blk = p /\ p \in DOMAIN ch2
          BY Zenon, <2>3, <2>11, <2>13, <5>1
        <5> QED
          BY Zenon, <5>2 DEF Has
      <4> QED
        BY Zenon, <1>7, <2>1, <4>1, <4>2, <4>3, CoverNew
    <3> QED
      BY Zenon, <1>4, <2>8, <3>1 DEF CoverInv, ch2
  <2>17. SizeInv'
    <3>1. ASSUME fault = "no", ~raced, growing = <<>> PROVE usedSize + size = Total([heap EXCEPT ![p] = size]) + failed
      <4>1. usedSize = Total(heap) + failed
        BY Zenon, <1>8, <3>1 DEF Exact
      <4>2. Total([heap EXCEPT ![p] = size]) = Total(heap) + size /\ Total(heap) \in Nat
        BY Zenon, <1>5, <1>7, <2>1, HeapGains
      <4> QED
        BY <1>5, <1>8, <4>1, <4>2
    <3> QED
      BY Zenon, <1>4, <1>8, <1>9, <2>8, <3>1 DEF SizeInv, Exact
  <2>18. GrowInv'
    <3>1. \A q \in used : q \in used' /\ pools'[q].incr = pools[q].incr
      BY Zenon, <1>7, <2>8, <2>9
    <3> QED
      BY Zenon, <1>1, <1>4, <3>1, GrowKept
  <2> QED
    BY Zenon, <2>10, <2>15, <2>16, <2>17, <2>18 DEF MemInv
<1>11. CASE failed = 0 /\ failed' = size /\ UNCHANGED <<heap, pools, used, count>>
  <2>1. HeapInv' /\ CacheInv' /\ CoverInv'
    BY Zenon, <1>1, <1>4, <1>11 DEF HeapInv, CacheInv, CoverInv
  <2>2. SizeInv'
    <3>1. ASSUME fault = "no", ~raced, growing = <<>> PROVE usedSize + size = Total(heap) + size
      <4>1. usedSize = Total(heap) + failed
        BY Zenon, <1>8, <3>1 DEF Exact
      <4>2. Total(heap) \in Nat
        BY Zenon, <1>7, TotalNat
      <4> QED
        BY <1>5, <1>8, <1>11, <4>1, <4>2
    <3> QED
      BY Zenon, <1>4, <1>5, <1>9, <1>11, <3>1 DEF SizeInv, Exact
  <2>3. GrowInv'
    BY Zenon, <1>1, <1>4, <1>11, GrowKept
  <2> QED
    BY Zenon, <2>1, <2>2, <2>3 DEF MemInv
<1> QED
  BY Zenon, <1>4, <1>10, <1>11

LEMMA CoverSame ==
  ASSUME NEW h, NEW ch, Covered(h, ch), NEW ch2, \A x \in Blocks : Has(ch, x) => Has(ch2, x)
  PROVE  Covered(h, ch2)
BY Zenon DEF Covered

LEMMA MinIsIn ==
  ASSUME NEW S \in SUBSET Nat, S # {}
  PROVE  Min(S) \in S
<1>1. PICK m \in S : \A k \in Nat : k < m => k \notin S
  BY Zenon, LeastOf
<1>2. \A y \in S : m =< y
  <2> SUFFICES ASSUME NEW y \in S, ~(m =< y) PROVE FALSE
    BY Zenon
  <2>1. y \in Nat /\ y < m
    OBVIOUS
  <2> QED
    BY Zenon, <1>1, <2>1
<1> QED
  BY Zenon, <1>2 DEF Min

\* Taking memory moves cur_, and nothing else of the chunk.
Moved(c, n) == [c EXCEPT !.cur = @ + n]
LEMMA MovedFacts ==
  ASSUME NEW c \in Chunks, NEW n \in Nat
  PROVE  /\ Moved(c, n) \in Chunks /\ Moved(c, n).blk = c.blk /\ Moved(c, n).end = c.end
         /\ Moved(c, n).cur = c.cur + n
<1>1. c.cur + n \in Nat
  BY DEF Chunks
<1> QED
  BY Zenon, <1>1 DEF Moved, Chunks

PlacedIs(cs, i, d, cs2) ==
  /\ cs2 \in Seq(Chunks) /\ Len(cs2) = Len(cs) /\ cs2[i] = d
  /\ \A j \in 1..Len(cs) : j # i => cs2[j] = cs[j]
LEMMA PlacedFacts ==
  ASSUME NEW cs \in Seq(Chunks), NEW i \in 1..Len(cs), NEW d \in Chunks
  PROVE  PlacedIs(cs, i, d, [cs EXCEPT ![i] = d])
BY DEF PlacedIs

\* pool_alloc that finds a chunk with room.
LEMMA TakeKeeps ==
  ASSUME MemInv, NEW p \in DOMAIN pools, NEW size \in AllocSizes, Take(p, size)
  PROVE  MemInv'
<1> DEFINE cs == pools[p].chunks
           i == Min(Fits(p, size))
           c == cs[i]
           d == Moved(c, Aligned(size))
           cs2 == [cs EXCEPT ![i] = d]
           r == [pools[p] EXCEPT !.chunks = cs2]
<1>1. HeapInv /\ CacheInv /\ CoverInv /\ SizeInv /\ GrowInv
  BY Zenon DEF MemInv
<1>2. size \in Nat
  BY Zenon, MemoryAssumption
<1>3. /\ p \in used /\ Fits(p, size) # {}
      /\ pools' = [pools EXCEPT ![p].chunks[i].cur = @ + Aligned(size)]
      /\ given' = given \cup {[pool |-> p, blk |-> c.blk, from |-> c.cur, to |-> c.cur + size]}
      /\ UNCHANGED <<heap, used, free, count, capacity, usedSize, growing, failed, raced, fault>>
  BY Zenon DEF Take
<1>4. CacheOk(pools, used, free, count, capacity) /\ HeapOk(heap, ChunksOf(pools), given)
  BY Zenon, <1>1 DEF CacheInv, HeapInv
<1>5. /\ pools \in [DOMAIN pools -> PoolRecs] /\ used \in SUBSET DOMAIN pools
  BY Zenon, <1>4 DEF CacheOk
<1>6. pools[p] \in PoolRecs
  BY Zenon, <1>5
<1>7. cs \in Seq(Chunks)
  BY Zenon, <1>6 DEF PoolRecs
<1>8. i \in 1..Len(cs) /\ Room(c, size)
  <2>1. DOMAIN cs = 1..Len(cs)
    BY <1>7
  <2>2. Fits(p, size) = {j \in 1..Len(cs) : Room(cs[j], size)}
    BY Zenon, <2>1 DEF Fits
  <2>3. 1..Len(cs) \in SUBSET Nat
    BY <1>7
  <2>4. Fits(p, size) \in SUBSET Nat
    BY Zenon, <2>2, <2>3
  <2>5. i \in Fits(p, size)
    BY Zenon, <1>3, <2>4, MinIsIn
  <2> QED
    BY Zenon, <2>2, <2>5
<1>9. pools' = [pools EXCEPT ![p] = r]
  BY Zenon, <1>3 DEF Moved
<1> HIDE DEF i, cs
<1>10. c \in Chunks
  BY <1>7, <1>8
<1>11. Aligned(size) \in Nat
  BY Zenon, <1>2, MultipleFacts
<1> HIDE DEF c
<1>12. d \in Chunks /\ d.blk = c.blk /\ d.end = c.end /\ d.cur = c.cur + Aligned(size)
  BY Zenon, <1>10, <1>11, MovedFacts
<1> HIDE DEF d
<1>13. cs2 \in Seq(Chunks) /\ Len(cs2) = Len(cs) /\ cs2[i] = d /\ \A j \in 1..Len(cs) : j # i => cs2[j] = cs[j]
  <2>1. PlacedIs(cs, i, d, cs2)
    BY Zenon, <1>7, <1>8, <1>12, PlacedFacts
  <2> QED
    BY Zenon, <2>1 DEF PlacedIs
<1> HIDE DEF cs2
<1>14. r \in PoolRecs /\ r.chunks = cs2 /\ r.pos = pools[p].pos /\ r.asked = pools[p].asked /\ r.cap = pools[p].cap
       /\ r.incr = pools[p].incr
  BY Zenon, <1>6, <1>13 DEF PoolRecs
<1> HIDE DEF r
<1>15. /\ DOMAIN pools' = DOMAIN pools /\ pools' \in [DOMAIN pools -> PoolRecs]
       /\ pools'[p] = r /\ \A q \in DOMAIN pools : q # p => pools'[q] = pools[q]
  BY Zenon, <1>5, <1>9, <1>14
<1>16. CacheInv'
  <2>1. r.cap >= pools[p].cap
    <3>1. pools[p].cap \in Nat
      BY Zenon, <1>6 DEF PoolRecs
    <3> QED
      BY <1>14, <3>1
  <2>2. ASSUME NEW b \in used PROVE Like(pools'[b], pools[b])
    <3>1. CASE b = p
      BY Zenon, <1>14, <1>15, <2>1, <3>1 DEF Like
    <3>2. CASE b # p
      <4>1. pools'[b] = pools[b] /\ pools[b] \in PoolRecs
        BY Zenon, <1>5, <1>15, <3>2
      <4>2. pools[b].cap \in Nat
        BY Zenon, <4>1 DEF PoolRecs
      <4>3. pools[b].cap >= pools[b].cap
        BY <4>2
      <4> QED
        BY Zenon, <4>1, <4>3 DEF Like
    <3> QED
      BY Zenon, <3>1, <3>2
  <2>3. \A b \in DOMAIN pools \ used : pools'[b] = pools[b]
    BY Zenon, <1>3, <1>15
  <2>4. CacheOk(pools', used, free, count, capacity)
    BY Zenon, <1>4, <1>15, <2>2, <2>3, CacheKept
  <2> QED
    BY Zenon, <1>3, <2>4 DEF CacheInv
<1> DEFINE ch == ChunksOf(pools)
           ch2 == ChunksOf(pools')
<1>17. p \in DOMAIN ch /\ ch[p] = cs /\ ch2[p] = cs2 /\ DOMAIN ch2 = DOMAIN ch
       /\ \A q \in DOMAIN ch : q # p => ch2[q] = ch[q]
  <2>1. DOMAIN ch = DOMAIN pools /\ DOMAIN ch2 = DOMAIN pools
    BY Zenon, <1>15, ChunksAt
  <2>2. ch[p] = cs /\ ch2[p] = cs2
    BY Zenon, <1>14, <1>15 DEF cs, ChunksOf
  <2>3. \A q \in DOMAIN pools : q # p => ch2[q] = ch[q]
    BY Zenon, <1>15 DEF ChunksOf
  <2> QED
    BY Zenon, <2>1, <2>2, <2>3
<1> HIDE DEF ch, ch2
<1>18. Bumped(ch, p, i, size, ch2)
  BY Zenon, <1>12, <1>13, <1>17 DEF Bumped, c
<1>19. HeapInv'
  <2>1. HeapOk(heap, ch, given)
    BY Zenon, <1>4 DEF ch
  <2>2. i \in 1..Len(ch[p]) /\ Room(ch[p][i], size) /\ ch[p][i] = c
    BY Zenon, <1>8, <1>17 DEF c
  <2>3. HeapOk(heap, ch2, given \cup {Piece(p, ch[p][i], size)})
    BY Zenon, <1>2, <1>17, <1>18, <2>1, <2>2, MemoryIsTaken
  <2>4. given' = given \cup {Piece(p, ch[p][i], size)}
    BY Zenon, <1>3, <2>2 DEF Piece
  <2> QED
    BY Zenon, <1>3, <2>3, <2>4 DEF HeapInv, ch2
<1>20. CoverInv'
  <2>1. ASSUME NEW x \in Blocks, Has(ch, x) PROVE Has(ch2, x)
    <3>0. PICK q \in DOMAIN ch : \E j \in 1..Len(ch[q]) : ch[q][j].blk = x
      BY Zenon, <2>1 DEF Has
    <3>1. PICK j \in 1..Len(ch[q]) : ch[q][j].blk = x
      BY Zenon, <3>0
    <3>2. q \in DOMAIN ch2 /\ j \in 1..Len(ch2[q]) /\ ch2[q][j].blk = x
      <4>1. CASE q = p
        <5>1. j \in 1..Len(cs2) /\ cs[j].blk = x
          BY Zenon, <1>13, <1>17, <3>1, <4>1
        <5>2. cs2[j].blk = cs[j].blk
          BY Zenon, <1>12, <1>13, <1>17, <3>1, <4>1 DEF c
        <5> QED
          BY Zenon, <1>17, <4>1, <5>1, <5>2
      <4>2. CASE q # p
        <5>1. ch2[q] = ch[q] /\ q \in DOMAIN ch2
          BY Zenon, <1>17, <4>2
        <5> QED
          BY Zenon, <3>1, <5>1
      <4> QED
        BY Zenon, <4>1, <4>2
    <3> QED
      BY Zenon, <3>2 DEF Has
  <2>2. ASSUME fault = "no" PROVE Covered(heap, ch2)
    <3>1. Covered(heap, ch)
      BY Zenon, <1>1, <2>2 DEF CoverInv, ch
    <3> QED
      BY Zenon, <2>1, <3>1, CoverSame
  <2> QED
    BY Zenon, <1>3, <2>2 DEF CoverInv, ch2
<1>21. SizeInv'
  BY Zenon, <1>1, <1>3 DEF SizeInv, Exact
<1>22. GrowInv'
  <2>1. \A q \in used : q \in used' /\ pools'[q].incr = pools[q].incr
    BY Zenon, <1>3, <1>5, <1>14, <1>15
  <2> QED
    BY Zenon, <1>1, <1>3, <2>1, GrowKept
<1> QED
  BY Zenon, <1>16, <1>19, <1>20, <1>21, <1>22 DEF MemInv

\* pool_alloc that has to grow.
LEMMA GrowPoolKeeps ==
  ASSUME MemInv, NEW p \in DOMAIN pools, NEW size \in AllocSizes, GrowPool(p, size)
  PROVE  MemInv'
<1>1. HeapInv /\ CacheInv /\ CoverInv /\ SizeInv /\ GrowInv
  BY Zenon DEF MemInv
<1>2. /\ p \in used /\ pools[p].incr > 0
      /\ growing' = <<[pool |-> p, size |-> size, loaded |-> usedSize]>>
      /\ UNCHANGED <<heap, pools, used, free, count, capacity, usedSize, given, failed, raced, fault>>
  BY Zenon DEF GrowPool
<1>3. HeapInv' /\ CacheInv' /\ CoverInv'
  BY Zenon, <1>1, <1>2 DEF HeapInv, CacheInv, CoverInv
<1>4. growing'[1] = [pool |-> p, size |-> size, loaded |-> usedSize]
  BY <1>2
<1>5. growing'[1].pool = p /\ growing'[1].size = size /\ growing'[1].loaded = usedSize
  BY <1>4
<1>6. SizeInv'
  BY Zenon, <1>1, <1>2, <1>5 DEF SizeInv, Exact
<1>7. GrowInv'
  BY Zenon, <1>1, <1>2, <1>5 DEF GrowInv, SizeInv
<1> QED
  BY Zenon, <1>3, <1>6, <1>7 DEF MemInv

\* pool_alloc gets its chunk.
LEMMA GrownKeeps ==
  ASSUME MemInv, Grown
  PROVE  MemInv'
<1> DEFINE g == growing[1]
           p == g.pool
           n == g.size
           size == NewChunkSize(pools[p].incr, n)
           b == FreeBlock
           c == Chunk(b, 0, size)
           fits == Room(c, n)
           c2 == IF fits THEN Moved(c, Aligned(n)) ELSE c
           cs == pools[p].chunks
           r == [pools[p] EXCEPT !.cap = @ + size, !.chunks = <<c2>> \o @]
           gs == IF fits THEN given \cup {[pool |-> p, blk |-> b, from |-> c.cur, to |-> c.cur + n]} ELSE given
<1>1. HeapInv /\ CacheInv /\ CoverInv /\ SizeInv /\ GrowInv
  BY Zenon DEF MemInv
<1>2. /\ growing # <<>> /\ growing' = <<>> /\ UNCHANGED <<used, free, count, capacity, raced, fault>>
      /\ usedSize' = g.loaded + size
      /\ \/ /\ HeapHasRoom
            /\ heap' = [heap EXCEPT ![b] = size]
            /\ pools' = [pools EXCEPT ![p].cap = @ + size, ![p].chunks = <<c2>> \o @]
            /\ given' = gs
            /\ UNCHANGED failed
         \/ /\ failed = 0 /\ failed' = size
            /\ UNCHANGED <<heap, pools, given>>
  BY Zenon DEF Grown, Moved
<1>3. p \in used /\ n \in AllocSizes /\ g.loaded \in Int /\ pools[p].incr > 0
  BY Zenon, <1>1, <1>2 DEF GrowInv
<1>4. n \in Nat
  BY Zenon, <1>3, MemoryAssumption
<1>5. CacheOk(pools, used, free, count, capacity) /\ HeapOk(heap, ChunksOf(pools), given)
  BY Zenon, <1>1 DEF CacheInv, HeapInv
<1>6. /\ pools \in [DOMAIN pools -> PoolRecs] /\ used \in SUBSET DOMAIN pools /\ heap \in [Blocks -> Nat]
  BY Zenon, <1>5 DEF CacheOk, HeapOk
<1>7. pools[p] \in PoolRecs /\ p \in DOMAIN pools
  BY Zenon, <1>3, <1>6
<1>8. pools[p].incr \in Nat /\ cs \in Seq(Chunks) /\ pools[p].cap \in Nat
  BY Zenon, <1>7 DEF PoolRecs
<1>9. size \in Nat /\ size >= ChunkSize
  BY Zenon, <1>3, <1>4, <1>8, NewChunkFacts
<1>10. usedSize \in Int /\ failed \in Nat /\ (fault = "no" /\ ~raced => Exact)
  BY Zenon, <1>1 DEF SizeInv
<1> HIDE DEF size
<1>11. usedSize' \in Int
  BY Zenon, <1>2, <1>3, <1>9, IntSum
<1>12. fault = "no" /\ ~raced => g.loaded = usedSize /\ usedSize = Total(heap) + failed
  BY Zenon, <1>2, <1>10 DEF Exact
<1>13. GrowInv'
  BY Zenon, <1>2 DEF GrowInv
<1> HIDE DEF g
<1>14. CASE /\ HeapHasRoom
            /\ heap' = [heap EXCEPT ![b] = size]
            /\ pools' = [pools EXCEPT ![p].cap = @ + size, ![p].chunks = <<c2>> \o @]
            /\ given' = gs
            /\ UNCHANGED failed
  <2>1. b \in Blocks /\ heap[b] = 0
    BY Zenon, <1>14, RoomIsFree
  <2>2. pools' = [pools EXCEPT ![p] = r]
    BY Zenon, <1>14
  <2>3. heap' = [heap EXCEPT ![b] = size] /\ given' = gs /\ failed' = failed
    BY Zenon, <1>14
  <2> HIDE DEF b
  <2>4. c \in Chunks /\ c.blk = b /\ c.cur \in Nat
    <3>1. 0 \in {0, PoolSize} /\ size >= 0 + ChunkSize
      BY <1>9, MemoryAssumption
    <3> QED
      BY Zenon, <1>9, <2>1, <3>1, ChunkFacts
  <2>5. Aligned(n) \in Nat
    BY Zenon, <1>4, MultipleFacts
  <2>6. /\ c2 \in Chunks /\ c2.blk = c.blk /\ c2.end = c.end
        /\ fits => c2.cur = c.cur + Aligned(n)
        /\ ~fits => c2 = c
    <3> HIDE DEF c
    <3>1. /\ Moved(c, Aligned(n)) \in Chunks /\ Moved(c, Aligned(n)).blk = c.blk /\ Moved(c, Aligned(n)).end = c.end
          /\ Moved(c, Aligned(n)).cur = c.cur + Aligned(n)
      BY Zenon, <2>4, <2>5, MovedFacts
    <3>2. CASE fits
      BY Zenon, <3>1, <3>2
    <3>3. CASE ~fits
      BY Zenon, <2>4, <3>3
    <3> QED
      BY Zenon, <3>2, <3>3
  <2> HIDE DEF c2, c
  <2> DEFINE cs1 == <<c>> \o cs
             cs2 == <<c2>> \o cs
  <2>7. FrontIs(c, cs, cs1) /\ FrontIs(c2, cs, cs2)
    BY Zenon, <1>8, <2>4, <2>6, InFront
  <2> HIDE DEF cs1, cs2
  <2>8. pools[p].cap + size \in Nat /\ pools[p].cap + size >= pools[p].cap
    BY <1>8, <1>9
  <2>9. r = [pools[p] EXCEPT !.cap = pools[p].cap + size, !.chunks = cs2]
    BY Zenon, <1>7 DEF PoolRecs, cs2
  <2>9a. cs2 \in Seq(Chunks)
    BY Zenon, <2>7 DEF FrontIs
  <2>10. r \in PoolRecs /\ r.chunks = cs2 /\ r.pos = pools[p].pos /\ r.asked = pools[p].asked /\ r.cap >= pools[p].cap
    BY Zenon, <1>7, <2>8, <2>9, <2>9a DEF PoolRecs
  <2> HIDE DEF r, cs
  <2>11. /\ DOMAIN pools' = DOMAIN pools /\ pools' \in [DOMAIN pools -> PoolRecs]
         /\ pools'[p] = r /\ \A q \in DOMAIN pools : q # p => pools'[q] = pools[q]
    BY Zenon, <1>6, <1>7, <2>2, <2>10
  <2>12. CacheInv'
    <3>1. ASSUME NEW x \in used PROVE Like(pools'[x], pools[x])
      <4>1. CASE x = p
        BY Zenon, <2>10, <2>11, <4>1 DEF Like
      <4>2. CASE x # p
        <5>1. pools'[x] = pools[x] /\ pools[x] \in PoolRecs
          BY Zenon, <1>6, <2>11, <4>2
        <5>2. pools[x].cap \in Nat
          BY Zenon, <5>1 DEF PoolRecs
        <5>3. pools[x].cap >= pools[x].cap
          BY <5>2
        <5> QED
          BY Zenon, <5>1, <5>3 DEF Like
      <4> QED
        BY Zenon, <4>1, <4>2
    <3>2. \A x \in DOMAIN pools \ used : pools'[x] = pools[x]
      BY Zenon, <1>3, <2>11
    <3>3. CacheOk(pools', used, free, count, capacity)
      BY Zenon, <1>5, <2>11, <3>1, <3>2, CacheKept
    <3> QED
      BY Zenon, <1>2, <3>3 DEF CacheInv
  <2> DEFINE ch == ChunksOf(pools)
             ch1 == [ch EXCEPT ![p] = cs1]
             ch2 == ChunksOf(pools')
             h2 == [heap EXCEPT ![b] = size]
  <2>13. DOMAIN ch = DOMAIN pools /\ ch[p] = cs /\ ch = [q \in DOMAIN ch |-> ch[q]]
    BY Zenon, <1>7 DEF cs, ChunksOf
  <2>14. DOMAIN ch2 = DOMAIN pools /\ ch2[p] = cs2 /\ \A q \in DOMAIN pools : q # p => ch2[q] = ch[q]
    BY Zenon, <1>7, <2>10, <2>11 DEF ChunksOf
  <2>15. DOMAIN ch1 = DOMAIN pools /\ ch1[p] = cs1 /\ \A q \in DOMAIN pools : q # p => ch1[q] = ch[q]
    BY Zenon, <1>7, <2>13
  <2>16. HeapOk(heap, ch, given)
    BY Zenon, <1>5
  <2> HIDE DEF ch, ch1, ch2, h2
  <2>17. HeapOk(h2, ch1, given)
    <3>1. ch1[p] = <<Chunk(b, 0, size)>> \o ch[p]
      BY Zenon, <2>13, <2>15 DEF cs1, c
    <3>2. p \in DOMAIN ch /\ DOMAIN ch1 = DOMAIN ch /\ \A q \in DOMAIN ch : q # p => ch1[q] = ch[q]
      BY Zenon, <1>7, <2>13, <2>15
    <3> QED
      BY Zenon, <1>9, <2>1, <2>16, <3>1, <3>2, ChunkEnters DEF h2
  <2>18. HeapOk(h2, ch2, gs)
    <3>1. CASE fits
      <4>1. 1 \in 1..Len(cs1) /\ cs1[1] = c /\ Len(cs2) = Len(cs1) /\ cs2[1] = c2 /\ cs2 \in Seq(Chunks)
        <5>1. Len(cs) \in Nat /\ Len(cs1) = Len(cs) + 1 /\ Len(cs2) = Len(cs) + 1 /\ cs1[1] = c /\ cs2[1] = c2 /\ cs2 \in Seq(Chunks)
          BY Zenon, <2>7 DEF FrontIs
        <5>2. 1 \in 1..Len(cs) + 1
          BY <5>1
        <5> QED
          BY Zenon, <5>1, <5>2
      <4>2. \A j \in 1..Len(cs1) : j # 1 => cs2[j] = cs1[j]
        BY Zenon, <2>7, <4>1 DEF FrontIs
      <4>3. c2.cur = c.cur + Aligned(n)
        BY Zenon, <2>6, <3>1
      <4>4. \A q \in DOMAIN pools : q # p => ch2[q] = ch1[q]
        BY Zenon, <2>14, <2>15
      <4>5. /\ DOMAIN ch2 = DOMAIN ch1 /\ \A q \in DOMAIN ch1 : q # p => ch2[q] = ch1[q]
        BY Zenon, <2>14, <2>15, <4>4
      <4>6. /\ ch2[p] \in Seq(Chunks) /\ Len(ch2[p]) = Len(ch1[p])
            /\ \A j \in 1..Len(ch1[p]) : j # 1 => ch2[p][j] = ch1[p][j]
        BY Zenon, <2>14, <2>15, <4>1, <4>2
      <4>7. ch2[p][1] = c2 /\ ch1[p][1] = c
        BY Zenon, <2>14, <2>15, <4>1
      <4>8. Bumped(ch1, p, 1, n, ch2)
        BY Zenon, <2>6, <4>3, <4>5, <4>6, <4>7 DEF Bumped
      <4>9. p \in DOMAIN ch1 /\ 1 \in 1..Len(ch1[p]) /\ Room(ch1[p][1], n)
        BY Zenon, <1>7, <2>15, <3>1, <4>1, <4>7
      <4>10. HeapOk(h2, ch2, given \cup {Piece(p, ch1[p][1], n)})
        BY Zenon, <1>4, <2>17, <4>8, <4>9, MemoryIsTaken
      <4>11. gs = given \cup {Piece(p, ch1[p][1], n)}
        BY Zenon, <2>4, <3>1, <4>7 DEF Piece
      <4> QED
        BY Zenon, <4>10, <4>11
    <3>2. CASE ~fits
      <4>1. cs2 = cs1
        BY Zenon, <2>6, <3>2 DEF cs1, cs2
      <4>2. \A q \in DOMAIN pools : ch2[q] = ch1[q]
        BY Zenon, <2>14, <2>15, <4>1
      <4>3. ch2 = [q \in DOMAIN pools |-> ch2[q]] /\ ch1 = [q \in DOMAIN pools |-> ch1[q]]
        BY Zenon, <2>11, <2>13 DEF ch1, ch2, ChunksOf
      <4>4. ch2 = ch1
        BY Zenon, <4>2, <4>3
      <4>5. gs = given
        BY Zenon, <3>2
      <4> QED
        BY Zenon, <2>17, <4>4, <4>5
    <3> QED
      BY Zenon, <3>1, <3>2
  <2>19. HeapInv'
    BY Zenon, <2>3, <2>18 DEF HeapInv, ch2, h2
  <2>20. CoverInv'
    <3>1. ASSUME NEW x \in Blocks, Has(ch, x) PROVE Has(ch2, x)
      <4>1. PICK q \in DOMAIN ch : \E j \in 1..Len(ch[q]) : ch[q][j].blk = x
        BY Zenon, <3>1 DEF Has
      <4>2. PICK j \in 1..Len(ch[q]) : ch[q][j].blk = x
        BY Zenon, <4>1
      <4>3. q \in DOMAIN ch2
        BY Zenon, <2>13, <2>14
      <4>4. CASE q = p
        <5>1. j \in 1..Len(cs) /\ cs[j].blk = x
          BY Zenon, <2>13, <4>2, <4>4
        <5>2. j + 1 \in 1..Len(cs2) /\ cs2[j + 1] = cs[j]
          BY Zenon, <2>7, <5>1 DEF FrontIs
        <5>3. j + 1 \in 1..Len(ch2[q]) /\ ch2[q][j + 1].blk = x
          BY Zenon, <2>14, <4>4, <5>1, <5>2
        <5> QED
          BY Zenon, <4>3, <5>3 DEF Has
      <4>5. CASE q # p
        <5>1. ch2[q] = ch[q]
          BY Zenon, <2>13, <2>14, <4>5
        <5> QED
          BY Zenon, <4>1, <4>3, <5>1 DEF Has
      <4> QED
        BY Zenon, <4>4, <4>5
    <3>2. Has(ch2, b)
      <4>1. Len(cs) \in Nat /\ Len(cs2) = Len(cs) + 1 /\ cs2[1] = c2
        BY Zenon, <2>7 DEF FrontIs
      <4>2. 1 \in 1..Len(cs) + 1
        BY <4>1
      <4>3. p \in DOMAIN ch2 /\ 1 \in 1..Len(ch2[p]) /\ ch2[p][1].blk = b
        BY Zenon, <1>7, <2>4, <2>6, <2>14, <4>1, <4>2
      <4> QED
        BY Zenon, <4>3 DEF Has
    <3>3. ASSUME fault = "no" PROVE Covered(h2, ch2)
      <4>1. Covered(heap, ch)
        BY Zenon, <1>1, <3>3 DEF CoverInv, ch
      <4> QED
        BY Zenon, <1>6, <2>1, <3>1, <3>2, <4>1, CoverNew DEF h2
    <3> QED
      BY Zenon, <1>2, <2>3, <3>3 DEF CoverInv, ch2, h2
  <2>21. SizeInv'
    <3>1. ASSUME fault = "no", ~raced PROVE g.loaded + size = Total(h2) + failed
      <4>1. Total(h2) = Total(heap) + size /\ Total(heap) \in Nat
        BY Zenon, <1>6, <1>9, <2>1, HeapGains DEF h2
      <4> QED
        BY <1>9, <1>10, <1>12, <3>1, <4>1
    <3> QED
      BY Zenon, <1>2, <1>10, <1>11, <2>3, <3>1 DEF SizeInv, Exact, h2
  <2> QED
    BY Zenon, <1>13, <2>12, <2>19, <2>20, <2>21 DEF MemInv
<1>15. CASE failed = 0 /\ failed' = size /\ UNCHANGED <<heap, pools, given>>
  <2>1. HeapInv' /\ CacheInv' /\ CoverInv'
    BY Zenon, <1>1, <1>2, <1>15 DEF HeapInv, CacheInv, CoverInv
  <2>2. SizeInv'
    <3>1. ASSUME fault = "no", ~raced PROVE g.loaded + size = Total(heap) + size
      <4>1. Total(heap) \in Nat
        BY Zenon, <1>6, TotalNat
      <4> QED
        BY <1>9, <1>10, <1>12, <1>15, <3>1, <4>1
    <3> QED
      BY Zenon, <1>2, <1>9, <1>11, <1>15, <3>1 DEF SizeInv, Exact
  <2> QED
    BY Zenon, <1>13, <2>1, <2>2 DEF MemInv
<1> QED
  BY Zenon, <1>2, <1>14, <1>15

\* release_pool__
LEMMA ReleaseKeeps ==
  ASSUME MemInv, fault = "no", NEW p \in DOMAIN pools, Release(p)
  PROVE  MemInv'
<1> DEFINE left == {g \in given : g.pool # p}
<1>1. HeapInv /\ CacheInv /\ CoverInv /\ SizeInv /\ GrowInv
  BY Zenon DEF MemInv
<1>2. /\ p \in used /\ ~Busy(p) /\ used' = used \ {p} /\ count' = count - 1 /\ given' = left
      /\ growing' = growing /\ failed' = failed
  BY Zenon DEF Release
<1>3. CacheOk(pools, used, free, count, capacity) /\ HeapOk(heap, ChunksOf(pools), given)
  BY Zenon, <1>1 DEF CacheInv, HeapInv
<1>4. /\ pools \in [DOMAIN pools -> PoolRecs] /\ used \in SUBSET DOMAIN pools /\ heap \in [Blocks -> Nat]
      /\ DOMAIN pools \in SUBSET Blocks
  BY Zenon, <1>3 DEF CacheOk, HeapOk
<1>5. usedSize \in Int /\ failed \in Nat /\ (~raced => Exact)
  BY Zenon, <1>1 DEF SizeInv
<1>6. CASE Cacheable(p)
  <2>1. /\ free' = [free EXCEPT ![pools[p].pos] = Append(@, p)] /\ capacity' = capacity + pools[p].cap
        /\ UNCHANGED <<heap, pools, usedSize, fault, raced>>
    BY Zenon, <1>6 DEF Release
  <2>2. pools[p].pos <= Classes /\ pools[p].cap + capacity <= MaxCapacity
    BY Zenon, <1>6 DEF Cacheable
  <2>3. CacheOk(pools, used \ {p}, [free EXCEPT ![pools[p].pos] = Append(@, p)], count - 1, capacity + pools[p].cap)
    BY Zenon, <1>2, <1>3, <2>2, CacheAdd
  <2>4. CacheInv'
    BY Zenon, <1>2, <2>1, <2>3 DEF CacheInv
  <2>5. HeapInv'
    <3>1. HeapOk(heap, ChunksOf(pools), left)
      BY Zenon, <1>3, FewerPieces
    <3> QED
      BY Zenon, <1>2, <2>1, <3>1 DEF HeapInv
  <2>6. CoverInv' /\ SizeInv'
    BY Zenon, <1>1, <1>2, <2>1 DEF CoverInv, SizeInv, Exact
  <2>7. GrowInv'
    BY Zenon, <1>1, <1>2, <2>1, GrowKept
  <2> QED
    BY Zenon, <2>4, <2>5, <2>6, <2>7 DEF MemInv
<1>7. CASE ~Cacheable(p)
  <2> DEFINE cs == pools[p].chunks
             ch == ChunksOf(pools)
             ch2 == [q \in DOMAIN ch \ {p} |-> ch[q]]
             h2 == [heap EXCEPT ![p] = 0]
             ps2 == [q \in DOMAIN pools \ {p} |-> pools[q]]
  <2>1. /\ heap' = h2 /\ pools' = ps2 /\ usedSize' = usedSize - cs[1].end
        /\ fault' = (IF Len(cs) > 1 THEN "invalid free" ELSE fault)
        /\ raced' = (raced \/ growing # <<>>) /\ free' = free /\ capacity' = capacity
    BY Zenon, <1>7 DEF Release, ReleasePool2
  <2>2. CacheOk(ps2, used \ {p}, free, count - 1, capacity)
    BY Zenon, <1>2, <1>3, CacheDrop
  <2>3. CacheInv'
    BY Zenon, <1>2, <2>1, <2>2 DEF CacheInv
  <2>4. DOMAIN ch = DOMAIN pools /\ ch[p] = cs /\ p \in DOMAIN ch
    BY Zenon DEF ChunksOf
  <2>5. ChunksOf(ps2) = ch2
    <3>1. DOMAIN ps2 = DOMAIN pools \ {p} /\ \A q \in DOMAIN pools \ {p} : ps2[q] = pools[q] /\ ch[q] = pools[q].chunks
      BY Zenon DEF ChunksOf
    <3>2. \A q \in DOMAIN pools \ {p} : ps2[q].chunks = ch[q]
      BY Zenon, <3>1
    <3> HIDE DEF ps2, ch
    <3> QED
      BY Zenon, <2>4, <3>1, <3>2 DEF ChunksOf
  <2>6. HeapOk(h2, ch2, left)
    <3>1. HeapOk(heap, ch, given)
      BY Zenon, <1>3
    <3>2. DOMAIN ch2 = DOMAIN ch \ {p} /\ \A q \in DOMAIN ch \ {p} : ch2[q] = ch[q]
      BY Zenon
    <3>3. \A g \in left : g \in given /\ g.pool # p
      BY Zenon
    <3> HIDE DEF ch, ch2, left
    <3> QED
      BY Zenon, <2>4, <3>1, <3>2, <3>3, PoolLeaves
  <2>7. HeapInv'
    BY Zenon, <1>2, <2>1, <2>5, <2>6 DEF HeapInv
  <2>8. ListOk(heap, p, cs)
    BY Zenon, <1>3, <2>4 DEF HeapOk
  <2>9. cs \in Seq(Chunks) /\ Len(cs) >= 1 /\ cs[Len(cs)].blk = p /\ \A i \in 1..Len(cs) : ChunkOk(heap, p, cs[i])
    BY Zenon, <2>8 DEF ListOk
  <2>10. 1 \in 1..Len(cs) /\ cs[1] \in Chunks /\ Len(cs) \in Nat /\ Len(cs) >= 1
    <3> HIDE DEF cs
    <3> QED
      BY <2>9
  <2>11. cs[1].end = heap[cs[1].blk] /\ cs[1].end \in Nat
    BY Zenon, <2>9, <2>10 DEF ChunkOk, Chunks
  <2> HIDE DEF cs
  <2>12. ASSUME fault' = "no" PROVE Len(cs) = 1 /\ cs[1].blk = p
    <3>1. ~(Len(cs) > 1)
      BY <2>1, <2>12
    <3>2. Len(cs) = 1
      <4>1. Len(cs) \in Nat /\ Len(cs) >= 1
        BY Zenon, <2>10
      <4>2. \A n \in Nat : n >= 1 /\ ~(n > 1) => n = 1
        OBVIOUS
      <4> QED
        BY Zenon, <3>1, <4>1, <4>2
    <3> QED
      BY Zenon, <2>9, <3>2
  <2>13. CoverInv'
    <3>1. ASSUME fault' = "no", NEW x \in Blocks, h2[x] # 0 PROVE Has(ch2, x)
      <4>1. x # p /\ heap[x] # 0
        BY Zenon, <1>4, <3>1
      <4>2. Has(ch, x)
        BY Zenon, <1>1, <4>1 DEF CoverInv, Covered
      <4>3. PICK q \in DOMAIN ch : \E i \in 1..Len(ch[q]) : ch[q][i].blk = x
        BY Zenon, <4>2 DEF Has
      <4>4. ASSUME q = p PROVE FALSE
        <5>1. PICK i \in 1..Len(cs) : cs[i].blk = x
          BY Zenon, <2>4, <4>3, <4>4
        <5>2. Len(cs) = 1
          BY Zenon, <2>12, <3>1
        <5>3. i = 1
          BY <5>2
        <5> QED
          BY Zenon, <2>12, <3>1, <4>1, <5>1, <5>3
      <4>5. q \in DOMAIN ch2 /\ ch2[q] = ch[q]
        BY Zenon, <4>4
      <4> HIDE DEF ch2
      <4> QED
        BY Zenon, <4>3, <4>5 DEF Has
    <3> QED
      BY Zenon, <2>1, <2>5, <3>1 DEF CoverInv, Covered
  <2>14. SizeInv'
    <3>1. ASSUME fault' = "no", ~raced, growing = <<>> PROVE usedSize - cs[1].end = Total(h2) + failed
      <4>1. usedSize = Total(heap) + failed
        BY Zenon, <1>5, <3>1 DEF Exact
      <4>2. Total(heap) = Total(h2) + heap[p] /\ Total(h2) \in Nat
        BY Zenon, <1>4, HeapLoses
      <4>3. cs[1].end = heap[p]
        BY Zenon, <2>11, <2>12, <3>1
      <4> HIDE DEF h2
      <4>4. heap[p] \in Nat
        BY Zenon, <2>11, <4>3
      <4> QED
        BY <1>5, <4>1, <4>2, <4>3, <4>4
    <3>2. usedSize - cs[1].end \in Int
      BY <1>5, <2>11
    <3> QED
      BY Zenon, <1>2, <1>5, <2>1, <3>1, <3>2 DEF SizeInv, Exact
  <2>15. GrowInv'
    <3>1. ASSUME NEW q \in used, Busy(q) PROVE q \in used' /\ pools'[q].incr = pools[q].incr
      <4>1. q # p /\ q \in DOMAIN pools
        BY Zenon, <1>2, <1>4, <3>1
      <4>2. ps2[q] = pools[q]
        BY Zenon, <4>1
      <4> QED
        BY Zenon, <1>2, <2>1, <4>1, <4>2
    <3> QED
      BY Zenon, <1>1, <1>2, <3>1, GrowKept
  <2> QED
    BY Zenon, <2>3, <2>7, <2>13, <2>14, <2>15 DEF MemInv
<1> QED
  BY Zenon, <1>6, <1>7

\* Nothing is in use.
LEMMA EmptyIsSound ==
  ASSUME NEW h \in [Blocks -> Nat], NEW ps, ps = [q \in {} |-> 0], NEW fr, fr = [i \in 1..Classes |-> <<>>]
  PROVE  HeapOk(h, ChunksOf(ps), {}) /\ CacheOk(ps, {}, fr, 0, 0)
<1>1. DOMAIN ps = {}
  BY Zenon
<1>2. HeapOk(h, ChunksOf(ps), {})
  <2>1. DOMAIN ChunksOf(ps) = {}
    BY Zenon, <1>1 DEF ChunksOf
  <2> QED
    BY Zenon, <2>1 DEF HeapOk, OwnBlocks
<1>3. CacheOk(ps, {}, fr, 0, 0)
  <2>1. ps \in [DOMAIN ps -> PoolRecs]
    BY Zenon, <1>1
  <2>2. Listed(fr, PosOf(ps), DOMAIN ps \ {})
    <3>1. ASSUME NEW i \in 1..Classes PROVE fr[i] = <<>>
      BY Zenon
    <3>2. <<>> \in Seq(Blocks) /\ Len(<<>>) = 0 /\ 1..0 = {}
      OBVIOUS
    <3>3. fr \in [1..Classes -> Seq(Blocks)]
      BY Zenon, <3>2
    <3>4. \A i \in 1..Classes : 1..Len(fr[i]) = {}
      BY Zenon, <3>1, <3>2
    <3>5. DOMAIN ps \ {} = {}
      BY Zenon, <1>1
    <3> QED
      BY Zenon, <3>3, <3>4, <3>5 DEF Listed, Once
  <2>3. Total(CapOf(ps, {})) = 0
    <3>1. CapOf(ps, {}) \in [Blocks -> Nat] /\ \A b \in Blocks : CapOf(ps, {})[b] = 0
      <4>1. \A b \in Blocks : CapOf(ps, {})[b] = 0
        BY Zenon, <1>1 DEF CapOf
      <4> QED
        BY Zenon, <2>1, <4>1, CapFacts
    <3> QED
      BY Zenon, <3>1, TotalNat
  <2>4. Total(UsedOf({})) = 0
    <3>1. UsedOf({}) \in [Blocks -> Nat] /\ \A b \in Blocks : UsedOf({})[b] = 0
      BY Zenon, UsedFacts
    <3> QED
      BY Zenon, <3>1, TotalNat
  <2>5. 0 <= MaxCapacity
    BY MemoryAssumption
  <2> QED
    BY Zenon, <1>1, <2>1, <2>2, <2>3, <2>4, <2>5 DEF CacheOk
<1> QED
  BY Zenon, <1>2, <1>3

\* pool_helper_destroy: unless a pool had grown, every block is free again.
LEMMA DestroyKeeps ==
  ASSUME MemInv, fault = "no", DestroyHelper
  PROVE  MemInv'
<1> DEFINE h2 == [b \in Blocks |-> IF b \in DOMAIN pools THEN 0 ELSE heap[b]]
           ch == ChunksOf(pools)
<1>1. HeapOk(heap, ch, given) /\ Covered(heap, ch)
  BY Zenon DEF MemInv, HeapInv, CoverInv
<1>2. /\ growing = <<>> /\ growing' = growing /\ heap' = h2 /\ pools' = [q \in {} |-> 0]
      /\ used' = {} /\ free' = [i \in 1..Classes |-> <<>>] /\ count' = 0 /\ capacity' = 0
      /\ usedSize' = 0 /\ given' = {} /\ failed' = 0
      /\ fault' = IF \E p \in DOMAIN pools : Len(pools[p].chunks) > 1 THEN "invalid free" ELSE fault
  BY Zenon DEF DestroyHelper
<1>3. heap \in [Blocks -> Nat] /\ \A p \in DOMAIN ch : ListOk(heap, p, ch[p])
  BY Zenon, <1>1 DEF HeapOk
<1>4. DOMAIN ch = DOMAIN pools /\ \A p \in DOMAIN pools : ch[p] = pools[p].chunks
  BY Zenon, ChunksAt
<1>5. h2 \in [Blocks -> Nat]
  BY <1>3
<1>6. ASSUME fault' = "no", NEW b \in Blocks PROVE h2[b] = 0
  <2> SUFFICES ASSUME h2[b] # 0 PROVE FALSE
    BY Zenon
  <2>1. b \notin DOMAIN pools /\ heap[b] # 0
    BY Zenon
  <2> HIDE DEF ch
  <2>2. Has(ch, b)
    BY Zenon, <1>1, <2>1 DEF Covered
  <2>3. PICK p \in DOMAIN ch : \E i \in 1..Len(ch[p]) : ch[p][i].blk = b
    BY Zenon, <2>2 DEF Has
  <2>4. PICK i \in 1..Len(ch[p]) : ch[p][i].blk = b
    BY Zenon, <2>3
  <2>5. ch[p] \in Seq(Chunks) /\ Len(ch[p]) >= 1 /\ ch[p][Len(ch[p])].blk = p
    BY Zenon, <1>3 DEF ListOk
  <2>6. ~(Len(ch[p]) > 1)
    <3>1. "invalid free" # "no"
      OBVIOUS
    <3>2. ~(\E q \in DOMAIN pools : Len(pools[q].chunks) > 1)
      BY Zenon, <1>2, <1>6, <3>1
    <3> QED
      BY Zenon, <1>4, <3>2
  <2>7. Len(ch[p]) \in Nat
    BY <2>5
  <2>8. Len(ch[p]) >= 1
    BY Zenon, <2>5
  <2>9. i = Len(ch[p])
    BY <2>6, <2>7, <2>8
  <2> QED
    BY Zenon, <1>4, <2>1, <2>4, <2>5, <2>9
<1> HIDE DEF h2
<1>7. HeapOk(h2, ChunksOf(pools'), {}) /\ CacheOk(pools', {}, free', 0, 0)
  BY Zenon, <1>2, <1>5, EmptyIsSound
<1>8. HeapInv' /\ CacheInv'
  BY Zenon, <1>2, <1>7 DEF HeapInv, CacheInv
<1>9. CoverInv'
  BY Zenon, <1>2, <1>6 DEF CoverInv, Covered
<1>10. SizeInv'
  <2>1. fault' = "no" => Total(h2) = 0
    BY Zenon, <1>5, <1>6, TotalNat
  <2>2. 0 \in Int /\ 0 \in Nat /\ 0 = 0 + 0
    OBVIOUS
  <2> QED
    BY Zenon, <1>2, <2>1, <2>2 DEF SizeInv, Exact
<1> QED
  BY Zenon, <1>2, <1>8, <1>9, <1>10 DEF MemInv, GrowInv

LEMMA MemInit == ASSUME PoolsInit PROVE MemInv
<1>1. /\ heap = [b \in Blocks |-> 0] /\ pools = [p \in {} |-> 0] /\ used = {} /\ free = [i \in 1..Classes |-> <<>>]
      /\ count = 0 /\ capacity = 0 /\ usedSize = 0 /\ growing = <<>> /\ given = {} /\ failed = 0
  BY Zenon DEF PoolsInit
<1>2. 0 \in Int /\ 0 \in Nat /\ 0 = 0 + 0
  OBVIOUS
<1>3. heap \in [Blocks -> Nat] /\ \A b \in Blocks : heap[b] = 0
  BY Zenon, <1>1, <1>2
<1>4. HeapOk(heap, ChunksOf(pools), {}) /\ CacheOk(pools, {}, free, 0, 0)
  BY Zenon, <1>1, <1>3, EmptyIsSound
<1>5. HeapInv /\ CacheInv
  BY Zenon, <1>1, <1>4 DEF HeapInv, CacheInv
<1>6. Total(heap) = 0
  BY Zenon, <1>3, TotalNat
<1> QED
  BY Zenon, <1>1, <1>2, <1>3, <1>5, <1>6 DEF MemInv, CoverInv, Covered, SizeInv, Exact, GrowInv

LEMMA MemStep ==
  ASSUME MemInv, [PoolsNext]_mem
  PROVE  MemInv'
<1>1. CASE UNCHANGED mem
  <2>1. /\ heap' = heap /\ pools' = pools /\ used' = used /\ free' = free /\ count' = count /\ capacity' = capacity
        /\ usedSize' = usedSize /\ growing' = growing /\ given' = given /\ failed' = failed /\ raced' = raced /\ fault' = fault
    BY Zenon, <1>1 DEF mem
  <2> QED
    BY Zenon, <2>1 DEF MemInv, HeapInv, CacheInv, CoverInv, SizeInv, Exact, GrowInv
<1>2. CASE PoolsNext
  <2>1. fault = "no"
    BY Zenon, <1>2 DEF PoolsNext
  <2> QED
    BY Zenon, <1>2, <2>1, GrownKeeps, ReuseKeeps, CreateKeeps, ReleaseKeeps, TakeKeeps, GrowPoolKeeps, DestroyKeeps
    DEF PoolsNext
<1> QED
  BY Zenon, <1>1, <1>2

-----------------------------------------------------------------------------
(* The pools keep their promises.                                          *)

LEMMA GivenFromInv == ASSUME HeapInv PROVE GivenIsSound
<1> DEFINE ch == ChunksOf(pools)
<1>1. /\ \A p \in DOMAIN ch : ListOk(heap, p, ch[p]) /\ \A g \in given : PieceOk(ch, g)
      /\ heap \in [Blocks -> Nat]
      /\ \A g, k \in given : g # k /\ g.blk = k.blk => Apart(g, k)
  BY Zenon DEF HeapInv, HeapOk
<1>2. ASSUME NEW g \in given
      PROVE  /\ g.from % Alignment = 0 /\ g.to <= heap[g.blk]
             /\ g.from >= ChunkSize + (IF g.blk = g.pool THEN PoolSize ELSE 0)
  <2>1. HeapOk(heap, ch, given)
    BY Zenon DEF HeapInv
  <2> HIDE DEF ch
  <2>2. PieceOk(ch, g)
    BY Zenon, <2>1 DEF HeapOk
  <2>3. g.pool \in DOMAIN ch /\ g.from \in Nat /\ g.to \in Nat /\ Multiple(g.from) /\ g.from >= Header(g.pool, g.blk)
    BY Zenon, <2>2 DEF PieceOk
  <2>4. PICK i \in 1..Len(ch[g.pool]) : ch[g.pool][i].blk = g.blk /\ g.to <= ch[g.pool][i].cur
    BY Zenon, <2>2 DEF PieceOk
  <2>5. ListOk(heap, g.pool, ch[g.pool])
    BY Zenon, <2>1, <2>3 DEF HeapOk
  <2>6. ch[g.pool] \in Seq(Chunks) /\ ChunkOk(heap, g.pool, ch[g.pool][i])
    BY Zenon, <2>5 DEF ListOk
  <2> DEFINE c == ch[g.pool][i]
  <2>7. c \in Chunks
    BY <2>6
  <2>8. c.cur \in Nat /\ c.end \in Nat /\ c.cur <= c.end /\ heap[g.blk] = c.end /\ g.to <= c.cur
    BY Zenon, <2>4, <2>6, <2>7 DEF Chunks, ChunkOk
  <2> HIDE DEF c
  <2>9. g.to <= heap[g.blk]
    <3>1. g.to <= c.end
      BY <2>3, <2>8
    <3> QED
      BY Zenon, <2>8, <3>1
  <2>10. g.from % Alignment = 0
    BY Zenon, <2>3, MultipleFacts
  <2> QED
    BY Zenon, <2>3, <2>9, <2>10 DEF Header
<1>3. \A g, k \in given : g # k /\ g.blk = k.blk => g.to <= k.from \/ k.to <= g.from
  BY Zenon DEF HeapInv, HeapOk, Apart
<1> QED
  BY Zenon, <1>2, <1>3 DEF GivenIsSound

LEMMA CacheFromInv == ASSUME CacheInv PROVE PoolFits /\ CacheIsBounded
<1>1. CacheOk(pools, used, free, count, capacity)
  BY Zenon DEF CacheInv
<1>2. /\ pools \in [DOMAIN pools -> PoolRecs] /\ DOMAIN pools \in SUBSET Blocks /\ used \in SUBSET DOMAIN pools
      /\ Listed(free, PosOf(pools), DOMAIN pools \ used)
      /\ \A b \in used : Fitting(pools[b])
      /\ capacity = Total(CapOf(pools, used)) /\ capacity <= MaxCapacity
      /\ count = Total(UsedOf(used))
  BY Zenon, <1>1 DEF CacheOk
<1>3. PoolFits
  BY Zenon, <1>2 DEF PoolFits, Fitting, First
<1>4. CachedPools = DOMAIN pools \ used
  <2>1. ASSUME NEW x \in CachedPools PROVE x \in DOMAIN pools \ used
    <3>1. PICK i \in 1..Classes : x \in {free[i][j] : j \in DOMAIN free[i]}
      BY Zenon, <2>1 DEF CachedPools
    <3>2. PICK j \in DOMAIN free[i] : x = free[i][j]
      BY Zenon, <3>1
    <3>3. free[i] \in Seq(Blocks)
      BY Zenon, <1>2 DEF Listed
    <3>4. j \in 1..Len(free[i])
      BY <3>3
    <3> QED
      BY Zenon, <1>2, <3>2, <3>4 DEF Listed
  <2>2. ASSUME NEW x \in DOMAIN pools \ used PROVE x \in CachedPools
    <3>1. PICK i \in 1..Classes : Holds(free[i], x)
      BY Zenon, <1>2 DEF Listed
    <3>2. PICK j \in 1..Len(free[i]) : free[i][j] = x
      BY Zenon, <3>1 DEF Holds
    <3>3. free[i] \in Seq(Blocks)
      BY Zenon, <1>2 DEF Listed
    <3>4. j \in DOMAIN free[i]
      BY <3>3
    <3> QED
      <4>1. x \in {free[i][k] : k \in DOMAIN free[i]}
        BY Zenon, <3>2, <3>4
      <4> QED
        BY Zenon, <4>1 DEF CachedPools
  <2> QED
    BY Zenon, <2>1, <2>2
<1>5. CapOf(pools, used) = [b \in Blocks |-> IF b \in CachedPools THEN pools[b].cap ELSE 0]
  BY Zenon, <1>4 DEF CapOf
<1>6. DOMAIN pools = used \cup CachedPools /\ used \cap CachedPools = {}
  BY Zenon, <1>2, <1>4
<1>7. CacheIsBounded
  BY Zenon, <1>2, <1>5, <1>6 DEF CacheIsBounded, UsedOf
<1> QED
  BY Zenon, <1>3, <1>7

LEMMA InvalidFreeStep ==
  ASSUME MemInv, PoolsNext, fault' # "no"
  PROVE  \E p \in DOMAIN pools : Len(pools[p].chunks) > 1 /\ heap'[p] = 0
<1>1. fault = "no" /\ heap \in [Blocks -> Nat] /\ DOMAIN pools \in SUBSET Blocks
  BY Zenon DEF PoolsNext, MemInv, HeapInv, HeapOk, CacheInv, CacheOk
<1>2. CASE \E p \in DOMAIN pools : Release(p)
  <2>1. PICK p \in DOMAIN pools : Release(p)
    BY Zenon, <1>2
  <2>2. ~Cacheable(p) /\ ReleasePool2(p)
    BY Zenon, <1>1, <2>1 DEF Release
  <2>3. heap' = [heap EXCEPT ![p] = 0] /\ Len(pools[p].chunks) > 1
    BY Zenon, <1>1, <2>2 DEF ReleasePool2
  <2> QED
    BY Zenon, <1>1, <2>3
<1>3. CASE DestroyHelper
  <2>1. /\ heap' = [b \in Blocks |-> IF b \in DOMAIN pools THEN 0 ELSE heap[b]]
        /\ \E p \in DOMAIN pools : Len(pools[p].chunks) > 1
    BY Zenon, <1>1, <1>3 DEF DestroyHelper
  <2>2. PICK p \in DOMAIN pools : Len(pools[p].chunks) > 1
    BY Zenon, <2>1
  <2>3. heap'[p] = 0
    BY Zenon, <1>1, <2>1
  <2> QED
    BY Zenon, <2>2, <2>3
<1>4. ASSUME NEW init, NEW incr, Reuse(init, incr) \/ Create(init, incr) PROVE FALSE
  BY Zenon, <1>1, <1>4 DEF Reuse, Create
<1>5. ASSUME NEW p, NEW size, Take(p, size) \/ GrowPool(p, size) PROVE FALSE
  BY Zenon, <1>1, <1>5 DEF Take, GrowPool
<1>6. ~Grown
  BY Zenon, <1>1 DEF Grown
<1> QED
  BY Zenon, <1>2, <1>3, <1>4, <1>5, <1>6 DEF PoolsNext

\* The pools keep their promises whatever the sizes asked for, the classes and the size of the
\* heap are: memory handed out is aligned, in its block and never overlaps, the class found by
\* atp_binary_search is the smallest that fits, the counters are exact, and an address that no
\* allocation returned is freed only when a pool that grew is given back.
THEOREM PoolsAreSoundHolds == PoolsSpec => PoolsAreSound
<1>1. PoolsInit => MemInv
  BY Zenon, MemInit
<1>2. MemInv /\ [PoolsNext]_mem => MemInv'
  BY Zenon, MemStep
<1>3. MemInv => GivenIsSound /\ PoolFits /\ CacheIsBounded /\ UsedSizeIsExact
  <2>1. MemInv => UsedSizeIsExact
    BY Zenon DEF MemInv, SizeInv, Exact, UsedSizeIsExact
  <2> QED
    BY Zenon, <2>1, GivenFromInv, CacheFromInv DEF MemInv
<1>4. MemInv /\ [PoolsNext]_mem =>
        [fault' # "no" => \E p \in DOMAIN pools : Len(pools[p].chunks) > 1 /\ heap'[p] = 0]_mem
  BY Zenon, InvalidFreeStep
<1>5. PoolsSpec => []MemInv
  BY <1>1, <1>2, PTL DEF PoolsSpec
<1>6. PoolsSpec => InvalidFreeNeedsGrowth
  BY <1>4, <1>5, PTL DEF PoolsSpec, InvalidFreeNeedsGrowth
<1> QED
  BY <1>3, <1>5, <1>6, PTL DEF PoolsAreSound
=============================================================================
