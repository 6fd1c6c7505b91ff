-------------------------- MODULE ByteBufferProofs --------------------------
(* A ByteBuffer implements a queue of bytes: for every header and initial    *)
(* size, every capacity, and appends and receives of every length.           *)
EXTENDS ByteBuffer, SequenceTheorems, WellFoundedInduction, TLAPS

-----------------------------------------------------------------------------
(* The inductive invariant.                                                *)

Memories == UNION {[0..n - 1 -> Nat] : n \in Nat}
Buffers == [buff : Memories, caps : Nat, read : Nat, write : Nat]

\* The indices are in order within an array that holds at least its header.
Sound(x) ==
  /\ x \in Buffers /\ x.buff \in [0..x.caps - 1 -> Nat]
  /\ x.read <= x.write /\ x.write <= x.caps /\ Reserved <= x.caps

Fresh(x) == Unread(x) = 0 => x.read = Reserved

BufferInv == Sound(b) /\ Fresh(b)

-----------------------------------------------------------------------------
(* Sequences.                                                              *)

LEMMA SameSequence ==
  ASSUME NEW s \in Seq(Nat), NEW t \in Seq(Nat), Len(s) = Len(t), \A i \in 1..Len(s) : s[i] = t[i]
  PROVE  s = t
BY SeqEqual

LEMMA Joined ==
  ASSUME NEW s \in Seq(Nat), NEW t \in Seq(Nat), NEW u \in Seq(Nat), Len(u) = Len(s) + Len(t),
         \A i \in 1..Len(s) : u[i] = s[i], \A i \in 1..Len(t) : u[Len(s) + i] = t[i]
  PROVE  u = s \o t
<1>1. /\ s \o t \in Seq(Nat) /\ Len(s \o t) = Len(u)
      /\ \A i \in 1..Len(s) : (s \o t)[i] = s[i]
      /\ \A i \in 1..Len(t) : (s \o t)[Len(s) + i] = t[i]
  OBVIOUS
<1>2. ASSUME NEW i \in 1..Len(u) PROVE u[i] = (s \o t)[i]
  <2>1. CASE i \in 1..Len(s)
    BY Zenon, <1>1, <2>1
  <2>2. CASE i \notin 1..Len(s)
    <3>1. PICK j \in 1..Len(t) : i = Len(s) + j
      <4>1. i - Len(s) \in 1..Len(t) /\ i = Len(s) + (i - Len(s))
        BY <2>2
      <4> QED
        BY <4>1, Zenon
    <3> QED
      BY <1>1, <3>1
  <2> QED
    BY <2>1, <2>2
<1> QED
  BY <1>1, <1>2, SameSequence, Zenon

Concat(p, s, t) ==
  /\ p \in Seq(Nat) /\ Len(p) = Len(s) + Len(t) /\ Len(s) \in Nat /\ Len(t) \in Nat
  /\ \A i \in 1..Len(s) : p[i] = s[i]
  /\ \A i \in 1..Len(t) : p[Len(s) + i] = t[i]

LEMMA ConcatFacts ==
  ASSUME NEW s \in Seq(Nat), NEW t \in Seq(Nat) PROVE Concat(s \o t, s, t)
BY DEF Concat

LEMMA Associative ==
  ASSUME NEW s \in Seq(Nat), NEW t \in Seq(Nat), NEW u \in Seq(Nat)
  PROVE  (s \o t) \o u = s \o (t \o u)
<1>1. PICK k \in Nat, l \in Nat, n \in Nat : k = Len(s) /\ l = Len(t) /\ n = Len(u)
  OBVIOUS
<1>2. PICK p \in Seq(Nat) :
        /\ p = s \o t /\ Len(p) = k + l
        /\ (\A i \in 1..k : p[i] = s[i]) /\ \A i \in 1..l : p[k + i] = t[i]
  <2>1. Concat(s \o t, s, t)
    BY ConcatFacts
  <2> QED
    BY <1>1, <2>1, Zenon DEF Concat
<1>3. PICK q \in Seq(Nat) :
        /\ q = p \o u /\ Len(q) = (k + l) + n
        /\ (\A i \in 1..(k + l) : q[i] = p[i]) /\ \A i \in 1..n : q[(k + l) + i] = u[i]
  <2>1. Concat(p \o u, p, u)
    BY <1>2, ConcatFacts, Zenon
  <2>2. n = Len(u) /\ Len(p) = k + l
    BY <1>1, <1>2, Zenon
  <2> QED
    BY <2>1, <2>2, ZenonT(40) DEF Concat
<1>4. PICK r \in Seq(Nat) :
        /\ r = t \o u /\ Len(r) = l + n
        /\ (\A i \in 1..l : r[i] = t[i]) /\ \A i \in 1..n : r[l + i] = u[i]
  <2>1. Concat(t \o u, t, u)
    BY ConcatFacts
  <2> QED
    BY <1>1, <2>1, Zenon DEF Concat
<1>5. ASSUME NEW i \in 1..k PROVE q[i] = s[i]
  <2>1. i \in 1..(k + l)
    OBVIOUS
  <2> QED
    BY <1>2, <1>3, <2>1, Zenon
<1>6. ASSUME NEW i \in 1..(l + n) PROVE q[k + i] = r[i]
  <2>1. CASE i \in 1..l
    <3>1. k + i \in 1..(k + l)
      BY <2>1
    <3> QED
      BY <1>2, <1>3, <1>4, <2>1, <3>1, Zenon
  <2>2. CASE i \notin 1..l
    <3>1. PICK j \in 1..n : i = l + j /\ k + i = (k + l) + j
      <4>1. i - l \in 1..n /\ i = l + (i - l) /\ k + i = (k + l) + (i - l)
        BY <2>2
      <4> QED
        BY <4>1, Zenon
    <3> QED
      BY <1>3, <1>4, <3>1, Zenon
  <2> QED
    BY <2>1, <2>2
<1>7. q = s \o r
  <2>1. Len(q) = Len(s) + Len(r)
    BY <1>1, <1>3, <1>4
  <2>2. (\A i \in 1..Len(s) : q[i] = s[i]) /\ \A i \in 1..Len(r) : q[Len(s) + i] = r[i]
    BY <1>1, <1>4, <1>5, <1>6, Zenon
  <2>3. q \in Seq(Nat) /\ r \in Seq(Nat)
    BY <1>3, <1>4, Zenon
  <2> QED
    BY <2>1, <2>2, <2>3, Joined, ZenonT(40)
<1> QED
  BY <1>2, <1>3, <1>4, <1>7, Zenon

LEMMA LastFacts ==
  ASSUME NEW s \in Seq(Nat), NEW r \in 0..Len(s), NEW e, e = SubSeq(s, r + 1, Len(s))
  PROVE  e \in Seq(Nat) /\ Len(e) = Len(s) - r /\ \A i \in 1..Len(e) : e[i] = s[r + i]
<1>1. PICK n \in Nat : n = Len(s) /\ r \in 0..n /\ \A i \in 1..n : s[i] \in Nat
  BY Zenon, LenProperties
<1>2. PICK m \in Int : m = r + 1 /\ \A i \in m..n : s[i] \in Nat
  BY <1>1
<1>3. /\ SubSeq(s, m, n) \in Seq(Nat)
      /\ Len(SubSeq(s, m, n)) = IF m <= n THEN n - m + 1 ELSE 0
      /\ \A i \in 1..n - m + 1 : SubSeq(s, m, n)[i] = s[m + i - 1]
  <2>1. m \in Int /\ n \in Int /\ \A i \in m..n : s[i] \in Nat
    BY <1>1, <1>2
  <2> QED
    BY <2>1, SubSeqProperties, SMTT(30)
<1>4. n - m + 1 = n - r /\ (IF m <= n THEN n - m + 1 ELSE 0) = n - r /\ \A i \in 1..n - r : m + i - 1 = r + i
  BY <1>1, <1>2
<1>5. e = SubSeq(s, m, n)
  BY <1>1, <1>2, Zenon
<1> QED
  BY <1>1, <1>3, <1>4, <1>5, ZenonT(40)

\* What LastFacts says, in one word.
Behind(e, s, r) == e \in Seq(Nat) /\ Len(e) = Len(s) - r /\ \A i \in 1..Len(e) : e[i] = s[r + i]
LEMMA LastBehind ==
  ASSUME NEW s \in Seq(Nat), NEW r \in 0..Len(s), NEW e, e = SubSeq(s, r + 1, Len(s))
  PROVE  Behind(e, s, r)
<1>1. e \in Seq(Nat) /\ Len(e) = Len(s) - r /\ \A i \in 1..Len(e) : e[i] = s[r + i]
  BY Zenon, LastFacts
<1> QED
  BY Zenon, <1>1 DEF Behind

LEMMA FirstFacts ==
  ASSUME NEW s \in Seq(Nat), NEW n \in 0..Len(s)
  PROVE  /\ SubSeq(s, 1, n) \in Seq(Nat) /\ Len(SubSeq(s, 1, n)) = n
         /\ \A i \in 1..n : SubSeq(s, 1, n)[i] = s[i]
OBVIOUS

\* strlen: a string with a zero is cut before it.
LEMMA CStringFacts ==
  ASSUME NEW s \in Seq(Nat)
  PROVE  /\ (\A i \in 1..Len(s) : s[i] # 0) => CString(s) = s
         /\ (\E i \in 1..Len(s) : s[i] = 0) => \E m \in 0..Len(s) - 1 : CString(s) = SubSeq(s, 1, m)
<1> DEFINE zeros == {i \in DOMAIN s : s[i] = 0}
<1>1. DOMAIN s = 1..Len(s) /\ Len(s) \in Nat
  BY LenProperties
<1>2. CString(s) = IF zeros = {} THEN s
                   ELSE SubSeq(s, 1, (CHOOSE i \in zeros : \A j \in zeros : i <= j) - 1)
  BY DEF CString
<1>3. zeros \subseteq 1..Len(s) /\ zeros \subseteq Nat
  BY <1>1
<1>4. ASSUME zeros # {} PROVE \E i \in zeros : \A j \in zeros : i <= j
  <2>1. PICK i \in zeros : \A j \in zeros : ~(<<j, i>> \in OpToRel(<, Nat))
    BY <1>3, <1>4, NatLessThanWellFounded, WFMin, Zenon
  <2>2. \A j \in zeros : ~(j < i)
    BY <1>3, <2>1, Zenon DEF OpToRel
  <2> QED
    BY <1>3, <2>2
<1>5. ASSUME zeros # {} PROVE \E m \in 0..Len(s) - 1 : CString(s) = SubSeq(s, 1, m)
  <2>1. PICK i \in zeros : i = CHOOSE k \in zeros : \A j \in zeros : k <= j
    BY <1>4, <1>5, Zenon
  <2>2. i - 1 \in 0..Len(s) - 1
    BY <1>1, <1>3
  <2> QED
    BY <1>2, <1>5, <2>1, <2>2, Zenon
<1> QED
  BY <1>1, <1>2, <1>5, Zenon


-----------------------------------------------------------------------------
(* The memory.                                                             *)

LEMMA SoundFacts ==
  ASSUME NEW x, Sound(x)
  PROVE  /\ x \in Buffers /\ x.buff \in [0..x.caps - 1 -> Nat]
         /\ x.caps \in Nat /\ x.read \in Nat /\ x.write \in Nat
         /\ x.read <= x.write /\ x.write <= x.caps /\ Reserved <= x.caps
         /\ Reserved \in Nat /\ Reserved > 0
         /\ Unread(x) = x.write - x.read /\ Unread(x) \in Nat
         /\ Writable(x) = x.caps - x.write /\ Writable(x) \in Nat
BY BufferAssumption DEF Sound, Buffers, Unread, Writable

LEMMA ContentFacts ==
  ASSUME NEW x, Sound(x)
  PROVE  /\ Content(x) \in Seq(Nat) /\ Len(Content(x)) = Unread(x)
         /\ \A i \in 1..Unread(x) : Content(x)[i] = x.buff[x.read + i - 1]
         /\ \A i \in 1..Unread(x) : x.read + i - 1 \in 0..x.caps - 1
<1>1. /\ x.buff \in [0..x.caps - 1 -> Nat] /\ x.caps \in Nat /\ x.read \in Nat /\ x.write \in Nat
      /\ x.read <= x.write /\ x.write <= x.caps
      /\ Unread(x) = x.write - x.read /\ Unread(x) \in Nat
  BY SoundFacts
<1>2. \A i \in 1..Unread(x) : x.read + i - 1 \in 0..x.caps - 1
  BY <1>1
<1>3. \A i \in 1..Unread(x) : x.buff[x.read + i - 1] \in Nat
  BY <1>1, <1>2
<1>4. Content(x) = [i \in 1..Unread(x) |-> x.buff[x.read + i - 1]]
  BY Zenon DEF Content
<1>5. Content(x) \in [1..Unread(x) -> Nat]
  BY <1>3, <1>4, Zenon
<1>6. Content(x) \in Seq(Nat) /\ Len(Content(x)) = Unread(x)
  BY <1>1, <1>5
<1> QED
  BY <1>2, <1>4, <1>6, Zenon

\* p is the memory m of c bytes with s stored at `at`.
Placed(p, m, c, at, s) ==
  /\ p \in [0..c - 1 -> Nat]
  /\ \A i \in 1..Len(s) : at + i - 1 < c => p[at + i - 1] = s[i]
  /\ \A j \in 0..c - 1 : j < at \/ j >= at + Len(s) => p[j] = m[j]

LEMMA PlaceFacts ==
  ASSUME NEW c \in Nat, NEW m \in [0..c - 1 -> Nat], NEW at \in Nat, NEW s \in Seq(Nat)
  PROVE  Placed(Place(m, at, s), m, c, at, s)
<1>1. DOMAIN m = 0..c - 1 /\ DOMAIN s = 1..Len(s) /\ Len(s) \in Nat
  BY LenProperties
<1>2. Place(m, at, s) =
        [j \in 0..c - 1 |-> IF j - at + 1 \in 1..Len(s) THEN s[j - at + 1] ELSE m[j]]
  BY <1>1, Zenon DEF Place
<1>3. \A i \in 1..Len(s) : s[i] \in Nat
  BY <1>1
<1>4. ASSUME NEW i \in 1..Len(s), at + i - 1 < c PROVE Place(m, at, s)[at + i - 1] = s[i]
  <2>1. at + i - 1 \in 0..c - 1 /\ (at + i - 1) - at + 1 = i
    BY <1>1, <1>4
  <2> QED
    BY <1>2, <2>1
<1> QED
  BY <1>1, <1>2, <1>3, <1>4 DEF Placed

LEMMA ZerosFacts == ASSUME NEW n \in Nat PROVE Zeros(n) \in [0..n - 1 -> Nat]
BY DEF Zeros

\* The buffer y has the memory m of c bytes, and the indices r and w.
Has(y, m, c, r, w) == y \in Buffers /\ y.buff = m /\ y.caps = c /\ y.read = r /\ y.write = w

LEMMA InMemories ==
  ASSUME NEW c \in Nat, NEW m \in [0..c - 1 -> Nat] PROVE m \in Memories
BY Zenon DEF Memories

LEMMA HasFacts ==
  ASSUME NEW c \in Nat, NEW m \in [0..c - 1 -> Nat], NEW r, NEW w,
         r <= w, w <= c, Reserved <= c, NEW y, Has(y, m, c, r, w)
  PROVE  Sound(y)
BY DEF Has, Sound

LEMMA WithMemory ==
  ASSUME NEW x \in Buffers, NEW m \in Memories, NEW c \in Nat
  PROVE  /\ Has([x EXCEPT !.buff = m], m, x.caps, x.read, x.write)
         /\ Has([x EXCEPT !.buff = m, !.caps = c], m, c, x.read, x.write)
<1>1. Has([x EXCEPT !.buff = m], m, x.caps, x.read, x.write)
  BY DEF Has, Buffers
<1>2. Has([x EXCEPT !.buff = m, !.caps = c], m, c, x.read, x.write)
  BY Zenon DEF Has, Buffers
<1> QED
  BY <1>1, <1>2

LEMMA SetIndexFacts ==
  ASSUME NEW x \in Buffers, NEW r \in Nat, NEW w \in Nat, w # 0
  PROVE  Has(SetIndex(x, r, w), x.buff, x.caps, IF r # 0 THEN r ELSE x.read, w)
<1>1. CASE r # 0
  BY <1>1, Zenon DEF Has, Buffers, SetIndex
<1>2. CASE r = 0
  BY <1>2, Zenon DEF Has, Buffers, SetIndex
<1> QED
  BY <1>1, <1>2

LEMMA AdvanceFacts ==
  ASSUME NEW x \in Buffers, NEW r \in Int, NEW w \in Int, x.read + r \in Nat, x.write + w \in Nat
  PROVE  Has(Advance(x, r, w), x.buff, x.caps, x.read + r, x.write + w)
<1>1. PICK p \in Nat, q \in Nat : p = x.read + r /\ q = x.write + w
  OBVIOUS
<1>2. Advance(x, r, w) = [x EXCEPT !.read = p, !.write = q]
  BY <1>1, Zenon DEF Advance
<1>3. Has([x EXCEPT !.read = p, !.write = q], x.buff, x.caps, p, q)
  BY Zenon DEF Has, Buffers
<1> QED
  BY <1>1, <1>2, <1>3

LEMMA ResetFacts ==
  ASSUME NEW x \in Buffers PROVE Has(Reset(x), x.buff, x.caps, Reserved, Reserved)
BY BufferAssumption, Zenon DEF Has, Buffers, Reset

\* A copy of the unread bytes to the place behind the header of the memory m.
LEMMA Moved ==
  ASSUME NEW x, Sound(x), NEW c \in Nat, NEW m \in [0..c - 1 -> Nat],
         Reserved + Unread(x) <= c,
         NEW y, Has(y, Place(m, Reserved, Content(x)), c, Reserved, Reserved + Unread(x))
  PROVE  Sound(y) /\ Fresh(y) /\ Content(y) = Content(x) /\ Unread(y) = Unread(x)
<1>1. /\ Reserved \in Nat /\ Unread(x) \in Nat /\ Content(x) \in Seq(Nat)
      /\ Len(Content(x)) = Unread(x)
  BY SoundFacts, ContentFacts
<1>2. PICK p \in [0..c - 1 -> Nat] :
        /\ p = Place(m, Reserved, Content(x))
        /\ \A i \in 1..Len(Content(x)) : Reserved + i - 1 < c => p[Reserved + i - 1] = Content(x)[i]
  <2>1. Placed(Place(m, Reserved, Content(x)), m, c, Reserved, Content(x))
    BY Zenon, <1>1, PlaceFacts
  <2> QED
    BY <2>1, Zenon DEF Placed
<1>3. y.buff = p /\ y.caps = c /\ y.read = Reserved /\ y.write = Reserved + Unread(x)
  BY <1>2 DEF Has
<1>4. Sound(y)
  <2>1. Has(y, p, c, Reserved, Reserved + Unread(x))
    BY <1>2
  <2>2. /\ p \in [0..c - 1 -> Nat] /\ Reserved <= Reserved + Unread(x)
        /\ Reserved + Unread(x) <= c /\ Reserved <= c
    BY <1>1, <1>2
  <2> QED
    BY <2>1, <2>2, HasFacts
<1>5. /\ Content(y) \in Seq(Nat) /\ Len(Content(y)) = Unread(y) /\ Unread(y) = Unread(x)
      /\ \A i \in 1..Unread(y) : Content(y)[i] = p[Reserved + i - 1]
  <2>1. /\ Content(y) \in Seq(Nat) /\ Len(Content(y)) = Unread(y)
        /\ \A i \in 1..Unread(y) : Content(y)[i] = y.buff[y.read + i - 1]
    BY <1>4, ContentFacts, Zenon
  <2>2. Unread(y) = Unread(x)
    BY <1>1, <1>3 DEF Unread
  <2> QED
    BY <1>3, <2>1, <2>2, Zenon
<1>6. \A i \in 1..Unread(x) : Reserved + i - 1 < c
  BY <1>1
<1>7. Content(y) = Content(x)
  BY <1>1, <1>2, <1>5, <1>6, SameSequence, Zenon
<1> QED
  BY <1>3, <1>4, <1>5, <1>7 DEF Fresh

-----------------------------------------------------------------------------
(* ByteBufferedWriter.                                                     *)

\* grow, called for more bytes than are writable, keeps the bytes and makes room.
LEMMA GrowFacts ==
  ASSUME NEW x, Sound(x), NEW n \in Nat, Writable(x) < n, NEW y, y = Grow(x, n)
  PROVE  /\ Sound(y) /\ Fresh(y) /\ Content(y) = Content(x) /\ Unread(y) = Unread(x)
         /\ Writable(y) >= n
         /\ ~NeedsMemory(x, n) => Reserved < x.read
<1>1. x \in Buffers /\ x.buff \in [0..x.caps - 1 -> Nat] /\ Content(x) \in Seq(Nat)
  BY SoundFacts, ContentFacts
<1>2. PICK C \in Nat, R \in Nat, W \in Nat, u \in Nat :
        /\ x.caps = C /\ x.read = R /\ x.write = W /\ Unread(x) = u
        /\ Writable(x) = C - W /\ u = W - R /\ R <= W /\ W <= C /\ Reserved <= C
        /\ Reserved \in Nat /\ Reserved > 0
  BY SoundFacts, Zenon
<1>3. PICK w \in Nat : w = Reserved + u /\ w # 0 /\ Reserved # 0
  BY <1>2
<1>4. CASE NeedsMemory(x, n)
  <2>1. PICK c \in Nat : c = 2 * C + n /\ w <= c
    BY <1>2, <1>3
  <2>2. PICK m : m = Place(Zeros(c), Reserved, Content(x))
    OBVIOUS
  <2>3. m \in Memories /\ Zeros(c) \in [0..c - 1 -> Nat]
    BY <1>1, <1>2, <2>2, ZerosFacts, PlaceFacts, InMemories, Zenon DEF Placed
  <2>4. PICK z : z = [x EXCEPT !.buff = m, !.caps = c]
    OBVIOUS
  <2>5. z \in Buffers /\ z.buff = m /\ z.caps = c
    <3>1. Has([x EXCEPT !.buff = m, !.caps = c], m, c, x.read, x.write)
      BY <1>1, <2>1, <2>3, WithMemory, Zenon
    <3> QED
      BY <2>4, <3>1, Zenon DEF Has
  <2>6. y = SetIndex(z, Reserved, w)
    BY <1>2, <1>3, <1>4, <2>1, <2>2, <2>4, Zenon DEF Grow
  <2>7. Has(y, m, c, Reserved, w)
    BY <1>2, <1>3, <2>5, <2>6, SetIndexFacts
  <2>8. Sound(y) /\ Fresh(y) /\ Content(y) = Content(x) /\ Unread(y) = Unread(x)
    <3>1. /\ Has(y, Place(Zeros(c), Reserved, Content(x)), c, Reserved, Reserved + Unread(x))
          /\ Reserved + Unread(x) <= c /\ c \in Nat /\ Zeros(c) \in [0..c - 1 -> Nat]
      BY <1>2, <1>3, <2>1, <2>2, <2>3, <2>7
    <3> QED
      BY <3>1, Moved, ZenonT(40)
  <2>9. Writable(y) = c - w
    BY <2>7, Zenon DEF Writable, Has
  <2>10. c - w >= n
    BY <1>2, <1>3, <2>1
  <2> QED
    BY <1>4, <2>8, <2>9, <2>10
<1>5. CASE ~NeedsMemory(x, n)
  <2>1. ~(R + (C - W) < Reserved + n)
    BY <1>2, <1>5, Zenon DEF NeedsMemory
  <2>2. w + n <= C /\ w <= C
    BY <1>2, <1>3, <2>1
  <2>3. Reserved < R
    BY <1>2, <2>1
  <2>4. PICK m : m = Place(x.buff, Reserved, Content(x))
    OBVIOUS
  <2>5. m \in Memories
    BY <1>1, <1>2, <2>4, PlaceFacts, InMemories, Zenon DEF Placed
  <2>6. PICK z : z = [x EXCEPT !.buff = m]
    BY Zenon
  <2>7. z \in Buffers /\ z.buff = m /\ z.caps = C
    BY <1>1, <1>2, <2>5, <2>6, WithMemory, ZenonT(40) DEF Has
  <2>8. y = SetIndex(z, Reserved, w)
    BY <1>2, <1>3, <1>5, <2>4, <2>6, Zenon DEF Grow
  <2>9. Has(y, m, C, Reserved, w)
    BY <1>2, <1>3, <2>7, <2>8, SetIndexFacts
  <2>10. Sound(y) /\ Fresh(y) /\ Content(y) = Content(x) /\ Unread(y) = Unread(x)
    <3>1. /\ Has(y, Place(x.buff, Reserved, Content(x)), C, Reserved, Reserved + Unread(x))
          /\ Reserved + Unread(x) <= C /\ C \in Nat /\ x.buff \in [0..C - 1 -> Nat]
      BY <1>1, <1>2, <1>3, <2>2, <2>4, <2>9, Zenon
    <3> QED
      BY <3>1, Moved, Zenon
  <2>11. Writable(y) = C - w
    BY <2>9, Zenon DEF Writable, Has
  <2>12. C - w >= n
    BY <1>2, <1>3, <2>2
  <2> QED
    BY <1>2, <2>3, <2>10, <2>11, <2>12
<1> QED
  BY <1>4, <1>5


\* Bytes stored behind the written ones, where there is room.
LEMMA StoreFacts ==
  ASSUME NEW x, Sound(x), NEW s \in Seq(Nat), Len(s) <= Writable(x), NEW y,
         Has(y, Place(x.buff, x.write, s), x.caps, x.read, x.write + Len(s))
  PROVE  /\ Sound(y) /\ Content(y) = Content(x) \o s
         /\ Unread(y) = Unread(x) + Len(s) /\ Writable(y) = Writable(x) - Len(s)
<1>1. PICK C \in Nat, R \in Nat, W \in Nat, u \in Nat, k \in Nat :
        /\ x.caps = C /\ x.read = R /\ x.write = W /\ Unread(x) = u /\ Len(s) = k
        /\ x.buff \in [0..C - 1 -> Nat] /\ Writable(x) = C - W
        /\ u = W - R /\ R <= W /\ W <= C /\ Reserved <= C
  <2>1. Len(s) \in Nat
    OBVIOUS
  <2> QED
    BY <2>1, SoundFacts, Zenon
<1>2. /\ C \in Nat /\ R \in Nat /\ W \in Nat /\ u \in Nat /\ k \in Nat
      /\ u = W - R /\ R <= W /\ W + k <= C /\ R <= W + k
  BY <1>1
<1>3. PICK p \in [0..C - 1 -> Nat] :
        /\ p = Place(x.buff, W, s)
        /\ \A i \in 1..k : W + i - 1 < C => p[W + i - 1] = s[i]
        /\ \A j \in 0..C - 1 : j < W \/ j >= W + k => p[j] = x.buff[j]
  <2>1. C \in Nat /\ W \in Nat /\ x.buff \in [0..C - 1 -> Nat] /\ k = Len(s)
    BY Zenon, <1>1
  <2>2. Placed(Place(x.buff, W, s), x.buff, C, W, s)
    BY <2>1, PlaceFacts, Zenon
  <2> QED
    BY <2>1, <2>2, Zenon DEF Placed
<1>4. Has(y, p, C, R, W + k)
  BY <1>1, <1>3
<1>5. Sound(y)
  BY <1>1, <1>2, <1>3, <1>4, HasFacts, Zenon
<1>6. Unread(y) = u + k
  <2>1. Unread(y) = (W + k) - R
    BY <1>4, Zenon DEF Has, Unread
  <2> QED
    BY <1>1, <2>1
<1>7. /\ Content(y) \in Seq(Nat) /\ Len(Content(y)) = u + k
      /\ \A i \in 1..(u + k) : Content(y)[i] = p[R + i - 1]
  BY <1>4, <1>5, <1>6, ContentFacts, Zenon DEF Has
<1>8. /\ Content(x) \in Seq(Nat) /\ Len(Content(x)) = u
      /\ \A i \in 1..u : Content(x)[i] = x.buff[R + i - 1]
  BY <1>1, ContentFacts, Zenon
<1>9. \A i \in 1..u : Content(y)[i] = Content(x)[i]
  <2> TAKE i \in 1..u
  <2>1. R + i - 1 \in 0..C - 1 /\ R + i - 1 < W /\ i \in 1..(u + k)
    BY <1>2
  <2> QED
    BY <1>3, <1>7, <1>8, <2>1, Zenon
<1>10. \A i \in 1..k : Content(y)[u + i] = s[i]
  <2> TAKE i \in 1..k
  <2>1. R + (u + i) - 1 = W + i - 1 /\ W + i - 1 < C /\ u + i \in 1..(u + k)
    BY <1>2
  <2>2. Content(y)[u + i] = p[R + (u + i) - 1]
    BY <1>7, <2>1
  <2> QED
    BY <1>3, <2>1, <2>2, Zenon
<1>11. Content(y) = Content(x) \o s
  <2>1. Len(Content(y)) = Len(Content(x)) + Len(s)
    BY <1>1, <1>7, <1>8
  <2>2. /\ \A i \in 1..Len(Content(x)) : Content(y)[i] = Content(x)[i]
        /\ \A i \in 1..Len(s) : Content(y)[Len(Content(x)) + i] = s[i]
    BY <1>1, <1>8, <1>9, <1>10, Zenon
  <2> QED
    BY <1>7, <1>8, <2>1, <2>2, Joined, Zenon
<1>12. Writable(y) = Writable(x) - k
  <2>1. Writable(y) = C - (W + k)
    BY <1>4, Zenon DEF Has, Writable
  <2> QED
    BY <1>1, <2>1
<1> QED
  BY <1>1, <1>5, <1>6, <1>11, <1>12

LEMMA AppendFacts ==
  ASSUME NEW x, Sound(x), Fresh(x), NEW s \in Seq(Nat), NEW y, y = AppendBytes(x, s)
  PROVE  Sound(y) /\ Fresh(y) /\ Content(y) = Content(x) \o s
<1>1. PICK z : z = IF Writable(x) < Len(s) THEN Grow(x, Len(s)) ELSE x
  OBVIOUS
<1>2. Sound(z) /\ Fresh(z) /\ Content(z) = Content(x) /\ Len(s) <= Writable(z)
  <2>1. Len(s) \in Nat /\ Writable(x) \in Nat
    BY SoundFacts
  <2>2. CASE Writable(x) < Len(s)
    <3>1. Sound(z) /\ Fresh(z) /\ Content(z) = Content(x) /\ Writable(z) >= Len(s)
      BY <1>1, <2>1, <2>2, GrowFacts
    <3>2. Writable(z) \in Nat
      BY <3>1, SoundFacts
    <3> QED
      BY <2>1, <3>1, <3>2
  <2>3. CASE ~(Writable(x) < Len(s))
    BY <1>1, <2>1, <2>3
  <2> QED
    BY <2>2, <2>3
<1>3. y = Advance([z EXCEPT !.buff = Place(z.buff, z.write, s)], 0, Len(s))
  BY <1>1 DEF AppendBytes
<1>4. Has(y, Place(z.buff, z.write, s), z.caps, z.read, z.write + Len(s))
  <2>1. /\ z \in Buffers /\ z.caps \in Nat /\ z.buff \in [0..z.caps - 1 -> Nat]
        /\ z.read \in Nat /\ z.write \in Nat
    BY Zenon, <1>2, SoundFacts
  <2>2. PICK m \in Memories : m = Place(z.buff, z.write, s)
    BY <2>1, PlaceFacts, InMemories, Zenon DEF Placed
  <2>3. PICK v : v = [z EXCEPT !.buff = m]
    BY Zenon
  <2>4. Has(v, m, z.caps, z.read, z.write)
    BY <2>1, <2>2, <2>3, WithMemory, Zenon
  <2>5. v \in Buffers /\ v.buff = m /\ v.caps = z.caps /\ v.read = z.read /\ v.write = z.write
    BY <2>4, Zenon DEF Has
  <2>6. Has(Advance(v, 0, Len(s)), m, z.caps, z.read + 0, z.write + Len(s))
    <3>1. 0 \in Int /\ Len(s) \in Int /\ v.read + 0 \in Nat /\ v.write + Len(s) \in Nat
      BY <2>1, <2>5
    <3>2. Has(Advance(v, 0, Len(s)), v.buff, v.caps, v.read + 0, v.write + Len(s))
      BY Zenon, <2>5, <3>1, AdvanceFacts
    <3> QED
      BY Zenon, <2>5, <3>2
  <2> QED
    BY <1>3, <2>1, <2>2, <2>3, <2>6
<1>5. Sound(y) /\ Content(y) = Content(z) \o s /\ Unread(y) = Unread(z) + Len(s)
  BY <1>2, <1>4, StoreFacts, Zenon
<1>6. Fresh(y)
  <2>1. y.read = z.read /\ Unread(z) \in Nat /\ Len(s) \in Nat
    BY <1>2, <1>4, SoundFacts DEF Has
  <2> QED
    BY <1>2, <1>5, <2>1 DEF Fresh
<1> QED
  BY <1>2, <1>5, <1>6


LEMMA PrependFacts ==
  ASSUME NEW x, Sound(x), NEW s \in Seq(Nat), s # <<>>, Len(s) <= x.read, NEW y, y = Prepend(x, s)
  PROVE  Sound(y) /\ Fresh(y) /\ Content(y) = s \o Content(x)
<1>1. PICK C \in Nat, R \in Nat, W \in Nat, u \in Nat, k \in Nat :
        /\ x.caps = C /\ x.read = R /\ x.write = W /\ Unread(x) = u /\ Len(s) = k
        /\ x.buff \in [0..C - 1 -> Nat] /\ x \in Buffers
        /\ u = W - R /\ R <= W /\ W <= C /\ Reserved <= C
  <2>1. Len(s) \in Nat
    OBVIOUS
  <2> QED
    BY <2>1, SoundFacts, Zenon
<1>2. /\ C \in Nat /\ R \in Nat /\ W \in Nat /\ u \in Nat /\ k \in Nat
      /\ u = W - R /\ R <= W /\ W <= C /\ k <= R /\ k > 0
  BY <1>1
<1>3. PICK a \in Nat : a = R - k /\ a = R + (-k) /\ a + k = R /\ a <= W
  BY <1>2
<1>4. PICK m : m = Place(x.buff, a, s)
  OBVIOUS
<1>5. Placed(m, x.buff, C, a, s)
  BY <1>1, <1>3, <1>4, PlaceFacts, Zenon
<1>6. Has(y, m, C, a, W)
  <2>1. PICK z : z = Advance(x, -Len(s), 0)
    OBVIOUS
  <2>2. Has(z, x.buff, C, a, W)
    <3>1. Has(Advance(x, -k, 0), x.buff, x.caps, x.read + (-k), x.write + 0)
      <4>1. PICK j \in Int : j = -k /\ x.read + j \in Nat /\ x.write + 0 \in Nat /\ x \in Buffers
        BY <1>1, <1>3
      <4>2. Has(Advance(x, j, 0), x.buff, x.caps, x.read + j, x.write + 0)
        BY <4>1, AdvanceFacts
      <4> QED
        BY <4>1, <4>2
    <3> QED
      BY <1>1, <1>3, <2>1, <3>1
  <2>3. z \in Buffers /\ z.buff = x.buff /\ z.caps = C /\ z.read = a /\ z.write = W
    BY <2>2, Zenon DEF Has
  <2>4. y = [z EXCEPT !.buff = m]
    BY <1>4, <2>1, <2>3, Zenon DEF Prepend
  <2>5. m \in Memories
    BY <1>1, <1>5, InMemories, Zenon DEF Placed
  <2>6. Has([z EXCEPT !.buff = m], m, z.caps, z.read, z.write)
    BY <1>1, <2>3, <2>5, WithMemory, Zenon
  <2> QED
    BY <2>3, <2>4, <2>6
<1>7. Sound(y)
  BY <1>1, <1>3, <1>5, <1>6, HasFacts, Zenon DEF Placed
<1>8. Unread(y) = k + u
  <2>1. Unread(y) = W - a
    BY <1>6, Zenon DEF Has, Unread
  <2> QED
    BY <1>2, <1>3, <2>1
<1>9. /\ Content(y) \in Seq(Nat) /\ Len(Content(y)) = k + u
      /\ \A i \in 1..(k + u) : Content(y)[i] = m[a + i - 1]
  BY <1>6, <1>7, <1>8, ContentFacts, Zenon DEF Has
<1>10. /\ Content(x) \in Seq(Nat) /\ Len(Content(x)) = u
       /\ \A i \in 1..u : Content(x)[i] = x.buff[R + i - 1]
  BY <1>1, ContentFacts, Zenon
<1>11. ASSUME NEW i \in 1..k PROVE Content(y)[i] = s[i]
  <2>1. a + i - 1 < C /\ i \in 1..(k + u)
    BY <1>2, <1>3
  <2>2. m[a + i - 1] = s[i]
    BY <1>1, <1>5, <2>1, Zenon DEF Placed
  <2> QED
    BY <1>9, <2>1, <2>2, Zenon
<1>12. ASSUME NEW i \in 1..u PROVE Content(y)[k + i] = Content(x)[i]
  <2>1. PICK j \in 0..C - 1 : j = R + i - 1 /\ j = a + (k + i) - 1 /\ j >= a + k /\ k + i \in 1..(k + u)
    BY <1>2, <1>3
  <2>2. m[j] = x.buff[j]
    BY <1>1, <1>5, <2>1, Zenon DEF Placed
  <2>3. Content(y)[k + i] = m[j]
    BY <1>9, <2>1, Zenon
  <2> QED
    BY <1>10, <2>1, <2>2, <2>3, Zenon
<1>13. Content(y) = s \o Content(x)
  <2>1. Len(Content(y)) = Len(s) + Len(Content(x))
    BY <1>1, <1>9, <1>10
  <2>2. /\ \A i \in 1..Len(s) : Content(y)[i] = s[i]
        /\ \A i \in 1..Len(Content(x)) : Content(y)[Len(s) + i] = Content(x)[i]
    BY <1>1, <1>10, <1>11, <1>12, Zenon
  <2> QED
    BY <1>9, <1>10, <2>1, <2>2, Joined, Zenon
<1>14. Fresh(y)
  BY <1>2, <1>8 DEF Fresh
<1> QED
  BY <1>7, <1>13, <1>14

-----------------------------------------------------------------------------
(* ByteBufferedReader.                                                     *)

\* Discard takes the first n bytes, or all of them when there are fewer.
LEMMA DiscardFacts ==
  ASSUME NEW x, Sound(x), Fresh(x), NEW n \in Nat, NEW y, y = Discard(x, n)
  PROVE  /\ Sound(y) /\ Fresh(y)
         /\ n <= Unread(x) => Content(x) = SubSeq(Content(x), 1, n) \o Content(y)
         /\ n >= Unread(x) => Content(x) = SubSeq(Content(x), 1, Unread(x)) \o Content(y)
         /\ n >= Unread(x) => Content(x) = Content(x) \o Content(y)
<1>1. PICK C \in Nat, R \in Nat, W \in Nat, u \in Nat :
        /\ x.caps = C /\ x.read = R /\ x.write = W /\ Unread(x) = u
        /\ x.buff \in [0..C - 1 -> Nat] /\ x \in Buffers
        /\ u = W - R /\ R <= W /\ W <= C /\ Reserved <= C /\ Reserved \in Nat
  BY SoundFacts, Zenon
<1>2. /\ Content(x) \in Seq(Nat) /\ Len(Content(x)) = u
      /\ \A i \in 1..u : Content(x)[i] = x.buff[R + i - 1]
  BY <1>1, ContentFacts, Zenon
<1>3. CASE n < u
  <2>1. PICK a \in Nat : a = R + n /\ a < W /\ W - a = u - n
    BY <1>1, <1>3
  <2>2. Has(y, x.buff, C, a, W)
    <3>1. y = Advance(x, n, 0)
      BY <1>1, <1>3 DEF Discard
    <3>2. Has(Advance(x, n, 0), x.buff, x.caps, x.read + n, x.write + 0)
      BY <1>1, AdvanceFacts
    <3> QED
      BY <1>1, <2>1, <3>1, <3>2
  <2>3. Sound(y)
    <3>1. C \in Nat /\ x.buff \in [0..C - 1 -> Nat] /\ a <= W /\ W <= C /\ Reserved <= C
      BY <1>1, <2>1
    <3> QED
      BY <2>2, <3>1, HasFacts, Zenon
  <2>4. Unread(y) = u - n
    BY <2>1, <2>2, Zenon DEF Has, Unread
  <2>5. /\ Content(y) \in Seq(Nat) /\ Len(Content(y)) = u - n
        /\ \A i \in 1..(u - n) : Content(y)[i] = x.buff[a + i - 1]
    BY <2>2, <2>3, <2>4, ContentFacts, Zenon DEF Has
  <2>6. PICK t \in Seq(Nat) : /\ t = SubSeq(Content(x), 1, n) /\ Len(t) = n
                              /\ \A i \in 1..n : t[i] = Content(x)[i]
    <3>1. n \in 0..Len(Content(x))
      BY <1>1, <1>2, <1>3
    <3> QED
      BY <1>2, <3>1, FirstFacts, Zenon
  <2>7. ASSUME NEW i \in 1..(u - n) PROVE Content(x)[n + i] = Content(y)[i]
    <3>1. R \in Nat /\ u \in Nat /\ a = R + n
      BY <1>1, <2>1
    <3>2. a + i - 1 = R + (n + i) - 1 /\ n + i \in 1..u
      BY <1>3, <3>1
    <3> QED
      BY <1>2, <2>5, <3>2, Zenon
  <2>8. Content(x) = t \o Content(y)
    <3>1. Len(Content(x)) = Len(t) + Len(Content(y))
      BY <1>1, <1>2, <2>5, <2>6
    <3>2. /\ \A i \in 1..Len(t) : Content(x)[i] = t[i]
          /\ \A i \in 1..Len(Content(y)) : Content(x)[Len(t) + i] = Content(y)[i]
      BY <2>5, <2>6, <2>7, Zenon
    <3> QED
      BY <1>2, <2>5, <2>6, <3>1, <3>2, Joined, Zenon
  <2>9. Fresh(y) /\ ~(n >= u)
    BY <1>1, <1>3, <2>4 DEF Fresh
  <2> QED
    BY <1>1, <2>3, <2>6, <2>8, <2>9, Zenon
<1>4. CASE ~(n < u)
  <2>1. Has(y, x.buff, C, Reserved, Reserved)
    BY <1>1, <1>4, ResetFacts DEF Discard
  <2>2. Sound(y)
    <3>1. C \in Nat /\ x.buff \in [0..C - 1 -> Nat] /\ Reserved <= Reserved /\ Reserved <= C
      BY <1>1
    <3> QED
      BY <2>1, <3>1, HasFacts, Zenon
  <2>3. Unread(y) = 0
    <3>1. Unread(y) = Reserved - Reserved
      BY <2>1, Zenon DEF Has, Unread
    <3> QED
      BY <1>1, <3>1
  <2>4. Content(y) = <<>>
    <3>1. Content(y) \in Seq(Nat) /\ Len(Content(y)) = 0
      BY <2>2, <2>3, ContentFacts, Zenon
    <3> QED
      BY <3>1
  <2>5. Fresh(y)
    BY <2>1 DEF Has, Fresh
  <2>6. Content(x) = Content(x) \o <<>>
    BY <1>2
  <2>7. SubSeq(Content(x), 1, u) = Content(x)
    BY <1>2
  <2>8. n <= u => n = u
    BY <1>1, <1>4
  <2> QED
    BY <1>1, <2>2, <2>4, <2>5, <2>6, <2>7, <2>8, Zenon
<1> QED
  BY <1>3, <1>4, Zenon


\* decrease by at most writableBytes() keeps the bytes.
LEMMA ShrinkFacts ==
  ASSUME NEW x, Sound(x), Fresh(x), NEW n \in Nat, n <= Writable(x), NEW y, y = Shrink(x, n)
  PROVE  Sound(y) /\ Fresh(y) /\ Content(y) = Content(x)
<1>1. PICK C \in Nat, R \in Nat, W \in Nat, u \in Nat :
        /\ x.caps = C /\ x.read = R /\ x.write = W /\ Unread(x) = u
        /\ x \in Buffers /\ Writable(x) = C - W
        /\ u = W - R /\ R <= W /\ W <= C /\ Reserved <= C /\ Reserved \in Nat /\ Reserved > 0
  BY SoundFacts, Zenon
<1>2. ~Shrinkable(x, n) /\ ~(Writable(x) < n)
  <2>1. ~(Writable(x) < n)
    BY <1>1
  <2> QED
    BY <2>1, Zenon DEF Shrinkable
<1>3. CASE n = 0
  BY <1>2, <1>3 DEF Shrink
<1>4. CASE n # 0
  <2>1. PICK c \in Nat, w \in Nat : c = C + Reserved - n /\ w = Reserved + u /\ w <= c /\ w # 0
    BY <1>1
  <2>2. PICK m : m = Place(Zeros(c), Reserved, Content(x))
    OBVIOUS
  <2>3. Zeros(c) \in [0..c - 1 -> Nat] /\ m \in Memories
    <3>1. c \in Nat /\ Zeros(c) \in [0..c - 1 -> Nat] /\ Reserved \in Nat /\ Content(x) \in Seq(Nat)
      BY <1>1, <2>1, ZerosFacts, ContentFacts, Zenon
    <3> QED
      BY <2>2, <3>1, PlaceFacts, InMemories, Zenon DEF Placed
  <2>4. PICK z : z = [x EXCEPT !.buff = m, !.caps = c]
    OBVIOUS
  <2>5. z \in Buffers /\ z.buff = m /\ z.caps = c
    <3>1. Has([x EXCEPT !.buff = m, !.caps = c], m, c, x.read, x.write)
      BY <1>1, <2>1, <2>3, WithMemory, Zenon
    <3> QED
      BY <2>4, <3>1, Zenon DEF Has
  <2>6. y = SetIndex(z, Reserved, w)
    BY <1>1, <1>2, <1>4, <2>1, <2>2, <2>4, Zenon DEF Shrink
  <2>7. Has(y, m, c, Reserved, w)
    BY <1>1, <2>1, <2>5, <2>6, SetIndexFacts
  <2>8. /\ Has(y, Place(Zeros(c), Reserved, Content(x)), c, Reserved, Reserved + Unread(x))
        /\ Reserved + Unread(x) <= c /\ c \in Nat
    BY <1>1, <2>1, <2>2, <2>7
  <2> QED
    BY <2>3, <2>8, Moved, ZenonT(40)
<1> QED
  BY <1>3, <1>4

\* decrease by more moves the bytes but not the indices: they are damaged if the
\* two places overlap.
Apart(x) ==
  \/ x.read = Reserved \/ Reserved + Unread(x) <= x.read \/ x.read + Unread(x) <= Reserved

LEMMA ExcessFacts ==
  ASSUME NEW x, Sound(x), Fresh(x), NEW n \in Nat, Writable(x) < n, NEW y, y = Shrink(x, n)
  PROVE  /\ Sound(y) /\ Fresh(y) /\ Unread(y) = Unread(x) /\ y.caps = x.caps
         /\ Apart(x) => Content(y) = Content(x)
<1>1. PICK C \in Nat, R \in Nat, W \in Nat, u \in Nat :
        /\ x.caps = C /\ x.read = R /\ x.write = W /\ Unread(x) = u
        /\ x \in Buffers /\ x.buff \in [0..C - 1 -> Nat]
        /\ u = W - R /\ R <= W /\ W <= C /\ Reserved <= C /\ Reserved \in Nat
  BY SoundFacts, Zenon
<1>2. PICK m : m = Place(x.buff, Reserved, Content(x))
  OBVIOUS
<1>3. /\ Content(x) \in Seq(Nat) /\ Len(Content(x)) = u
      /\ \A i \in 1..u : Content(x)[i] = x.buff[R + i - 1]
  BY <1>1, ContentFacts, Zenon
<1>4. Placed(m, x.buff, C, Reserved, Content(x))
  BY <1>1, <1>2, <1>3, PlaceFacts, Zenon
<1>5. CASE Shrinkable(x, n)
  <2>1. PICK z : z = [x EXCEPT !.buff = m]
    BY Zenon
  <2>2. Has(z, m, C, R, W)
    <3>1. m \in Memories
      BY <1>1, <1>4, InMemories, Zenon DEF Placed
    <3> QED
      BY <1>1, <2>1, <3>1, WithMemory, Zenon
  <2>3. Writable(z) = Writable(x) /\ Unread(z) = u
    BY <1>1, <2>2, Zenon DEF Has, Writable, Unread
  <2>4. y = z
    BY <1>2, <1>5, <2>1, <2>3, Zenon DEF Shrink
  <2>5. Sound(y)
    <3>1. C \in Nat /\ m \in [0..C - 1 -> Nat] /\ R <= W /\ W <= C /\ Reserved <= C
      BY <1>1, <1>4, Zenon DEF Placed
    <3> QED
      BY <2>2, <2>4, <3>1, HasFacts, Zenon
  <2>6. Fresh(y) /\ Unread(y) = Unread(x) /\ y.caps = x.caps
    BY <1>1, <2>2, <2>3, <2>4, Zenon DEF Fresh, Has
  <2>7. /\ Content(y) \in Seq(Nat) /\ Len(Content(y)) = u
        /\ \A i \in 1..u : Content(y)[i] = m[R + i - 1]
    BY <2>2, <2>3, <2>4, <2>5, ContentFacts, Zenon DEF Has
  <2>8. ASSUME Apart(x), NEW i \in 1..u PROVE Content(y)[i] = Content(x)[i]
    <3>1. PICK j \in 0..C - 1 : j = R + i - 1
      <4>1. u = W - R /\ R <= W /\ W <= C
        BY Zenon, <1>1
      <4> QED
        BY <4>1
    <3>2. R = Reserved \/ Reserved + u <= R \/ R + u <= Reserved
      BY <1>1, <2>8 DEF Apart
    <3>3. CASE R = Reserved
      <4>1. m[Reserved + i - 1] = Content(x)[i]
        <5>1. Reserved + i - 1 < C
          BY <1>1, <3>3
        <5> QED
          BY <1>3, <1>4, <5>1, Zenon DEF Placed
      <4> QED
        BY <2>7, <3>3, <4>1
    <3>4. CASE Reserved + u <= R \/ R + u <= Reserved
      <4>1. j < Reserved \/ j >= Reserved + u
        BY <1>1, <3>1, <3>4
      <4>2. m[j] = x.buff[j]
        BY <1>3, <1>4, <4>1, Zenon DEF Placed
      <4> QED
        BY <1>3, <2>7, <3>1, <4>2
    <3> QED
      BY <3>2, <3>3, <3>4
  <2>9. Apart(x) => Content(y) = Content(x)
    BY <1>3, <2>7, <2>8, SameSequence
  <2> QED
    BY <2>5, <2>6, <2>9
<1>6. CASE ~Shrinkable(x, n)
  <2>1. y = x
    BY <1>6, Zenon DEF Shrink
  <2> QED
    BY <2>1
<1> QED
  BY <1>5, <1>6


\* A sequence in two pieces, the second cut off after m bytes.
LEMMA Pieces ==
  ASSUME NEW s \in Seq(Nat), NEW r \in 0..Len(s), NEW m \in 0..Len(s) - r, NEW e,
         e = SubSeq(s, r + 1, Len(s))
  PROVE  SubSeq(s, 1, r + m) = SubSeq(s, 1, r) \o SubSeq(e, 1, m)
<1>1. e \in Seq(Nat) /\ Len(e) = Len(s) - r /\ \A i \in 1..Len(e) : e[i] = s[r + i]
  BY LastFacts
<1>2. r + m \in 0..Len(s) /\ m \in 0..Len(e) /\ r \in Nat /\ m \in Nat
  BY <1>1
<1>3. PICK p \in Seq(Nat) : p = SubSeq(s, 1, r) /\ Len(p) = r /\ \A i \in 1..r : p[i] = s[i]
  BY FirstFacts, Zenon
<1>4. PICK q \in Seq(Nat) : q = SubSeq(e, 1, m) /\ Len(q) = m /\ \A i \in 1..m : q[i] = e[i]
  BY <1>1, <1>2, FirstFacts, Zenon
<1>5. PICK t \in Seq(Nat) : /\ t = SubSeq(s, 1, r + m) /\ Len(t) = r + m
                            /\ \A i \in 1..(r + m) : t[i] = s[i]
  BY <1>2, FirstFacts, Zenon
<1>6. ASSUME NEW i \in 1..m PROVE t[r + i] = q[i]
  <2>1. i \in 1..Len(e) /\ r + i \in 1..(r + m)
    BY <1>1, <1>2
  <2> QED
    BY <1>1, <1>4, <1>5, <2>1, Zenon
<1>7. \A i \in 1..r : t[i] = p[i]
  <2> TAKE i \in 1..r
  <2>1. i \in 1..(r + m)
    BY <1>2
  <2> QED
    BY <1>3, <1>5, <2>1, Zenon
<1>8. t = p \o q
  <2>1. Len(t) = Len(p) + Len(q)
    BY Zenon, <1>2, <1>3, <1>4, <1>5
  <2>0. Len(p) = r /\ Len(q) = m
    BY Zenon, <1>3, <1>4
  <2>2. (\A i \in 1..Len(p) : t[i] = p[i]) /\ \A i \in 1..Len(q) : t[Len(p) + i] = q[i]
    BY Zenon, <1>6, <1>7, <2>0
  <2>3. t \in Seq(Nat) /\ p \in Seq(Nat) /\ q \in Seq(Nat)
    BY <1>3, <1>4, <1>5, Zenon
  <2> QED
    BY <2>1, <2>2, <2>3, Joined, Zenon
<1> QED
  BY <1>3, <1>4, <1>5, <1>8, Zenon

\* A receive stores its bytes behind the others: all of them, or, if those beyond
\* the array have a zero byte, a proper part.
LEMMA ReceiveFacts ==
  ASSUME NEW x, Sound(x), Fresh(x), NEW s \in Seq(Nat), s # <<>>, NEW y, y = Receive(x, s)
  PROVE  /\ Sound(y) /\ Fresh(y)
         /\ IF \E i \in DOMAIN s : i > Writable(x) /\ s[i] = 0
            THEN \E k \in 0..Len(s) - 1 : Content(y) = Content(x) \o SubSeq(s, 1, k)
            ELSE Content(y) = Content(x) \o s
<1>1. PICK C \in Nat, R \in Nat, W \in Nat, u \in Nat, room \in Nat, n \in Nat :
        /\ x.caps = C /\ x.read = R /\ x.write = W /\ Unread(x) = u /\ Writable(x) = room
        /\ x \in Buffers /\ x.buff \in [0..C - 1 -> Nat] /\ n = Len(s) /\ DOMAIN s = 1..n
        /\ room = C - W /\ W <= C /\ Reserved <= C /\ Reserved \in Nat /\ Reserved > 0
  <2>1. Len(s) \in Nat /\ DOMAIN s = 1..Len(s)
    BY LenProperties
  <2> QED
    BY <2>1, SoundFacts, Zenon
<1>2. Content(x) \in Seq(Nat)
  BY ContentFacts
<1>3. CASE n <= room
  <2>1. PICK m : m = Place(x.buff, W, s)
    OBVIOUS
  <2>2. PICK z : z = [x EXCEPT !.buff = m]
    BY Zenon
  <2>3. z \in Buffers /\ z.buff = m /\ z.caps = C /\ z.read = R /\ z.write = W
    <3>1. m \in Memories
      BY <1>1, <2>1, PlaceFacts, InMemories, Zenon DEF Placed
    <3>2. Has([x EXCEPT !.buff = m], m, x.caps, x.read, x.write)
      BY <1>1, <3>1, WithMemory, Zenon
    <3> QED
      BY <1>1, <2>2, <3>2, Zenon DEF Has
  <2>4. y = Advance(z, 0, n)
    BY <1>1, <1>3, <2>1, <2>2, Zenon DEF Receive
  <2>5. Has(y, m, C, R, W + n)
    <3>1. z \in Buffers /\ n \in Int /\ 0 \in Int /\ z.read + 0 \in Nat /\ z.write + n \in Nat
      <4>1. n \in Int /\ 0 \in Int /\ R + 0 \in Nat /\ W + n \in Nat
        OBVIOUS
      <4> QED
        BY Zenon, <2>3, <4>1
    <3>2. Has(Advance(z, 0, n), z.buff, z.caps, z.read + 0, z.write + n)
      BY <3>1, AdvanceFacts
    <3> QED
      BY <1>1, <2>3, <2>4, <3>2
  <2>6. /\ Len(s) <= Writable(x)
        /\ Has(y, Place(x.buff, x.write, s), x.caps, x.read, x.write + Len(s))
    BY <1>1, <1>3, <2>1, <2>5
  <2>7. Sound(y) /\ Content(y) = Content(x) \o s /\ Unread(y) = Unread(x) + Len(s)
    BY Zenon, <2>6, StoreFacts
  <2>8. Fresh(y)
    <3>1. y.read = x.read /\ Unread(y) = u + n
      BY <1>1, <2>5, <2>7, Zenon DEF Has
    <3> QED
      BY <1>1, <3>1 DEF Fresh
  <2>9. ~\E i \in DOMAIN s : i > Writable(x) /\ s[i] = 0
    BY <1>1, <1>3
  <2> QED
    BY <2>7, <2>8, <2>9
<1>4. CASE ~(n <= room)
  <2>1. PICK first, extra : first = SubSeq(s, 1, room) /\ extra = SubSeq(s, room + 1, n)
    BY Zenon
  <2>2. room \in 0..Len(s) /\ Len(s) - room \in 0..Len(s) - room /\ 0 < n - room
    BY <1>1, <1>4
  <2>3. first \in Seq(Nat) /\ Len(first) = room
    BY <2>1, <2>2, FirstFacts
  <2>4. extra \in Seq(Nat) /\ Len(extra) = n - room /\ \A i \in 1..(n - room) : extra[i] = s[room + i]
    <3>1. extra \in Seq(Nat) /\ Len(extra) = Len(s) - room /\ \A i \in 1..Len(extra) : extra[i] = s[room + i]
      <4>1. extra = SubSeq(s, room + 1, Len(s)) /\ room \in 0..Len(s)
        BY <1>1, <2>1, <2>2, Zenon
      <4> QED
        <5>1. PICK e : e = SubSeq(s, room + 1, Len(s)) /\ e = extra
          BY Zenon, <4>1
        <5>2. e \in Seq(Nat) /\ Len(e) = Len(s) - room /\ \A i \in 1..Len(e) : e[i] = s[room + i]
          <6>1. room \in 0..Len(s)
            BY Zenon, <4>1
          <6>2. Behind(e, s, room)
            BY Zenon, <5>1, <6>1, LastBehind
          <6> QED
            BY Zenon, <6>2 DEF Behind
        <5> QED
          BY Zenon, <5>1, <5>2
    <3> QED
      BY <1>1, <3>1, Zenon
  <2>5. PICK full : full = SetIndex([x EXCEPT !.buff = Place(x.buff, W, first)], 0, C)
    OBVIOUS
  <2>6. Has(full, Place(x.buff, W, first), C, R, C)
    <3>1. PICK m : m = Place(x.buff, W, first)
      OBVIOUS
    <3>2. m \in Memories
      BY <1>1, <2>3, <3>1, PlaceFacts, InMemories, Zenon DEF Placed
    <3>3. PICK z : z = [x EXCEPT !.buff = m]
      BY Zenon
    <3>4. z \in Buffers /\ z.buff = m /\ z.caps = C /\ z.read = R
      <4>1. Has([x EXCEPT !.buff = m], m, x.caps, x.read, x.write)
        BY <1>1, <3>2, WithMemory, Zenon
      <4> QED
        BY <1>1, <3>3, <4>1, Zenon DEF Has
    <3>5. full = SetIndex(z, 0, C) /\ C # 0
      BY <1>1, <2>5, <3>1, <3>3
    <3>6. Has(full, z.buff, z.caps, z.read, C)
      BY <1>1, <3>4, <3>5, SetIndexFacts, Zenon
    <3> QED
      BY <3>1, <3>4, <3>6
  <2>7. Sound(full) /\ Content(full) = Content(x) \o first /\ Writable(full) = 0
    <3>1. W + room = C /\ room - room = 0
      BY <1>1
    <3>2. /\ Has(full, Place(x.buff, x.write, first), x.caps, x.read, x.write + Len(first))
          /\ Len(first) <= Writable(x)
      BY <1>1, <2>3, <2>6, <3>1
    <3>3. Writable(full) = Writable(x) - Len(first)
      BY <2>3, <3>2, StoreFacts
    <3> QED
      BY <1>1, <2>3, <3>1, <3>2, <3>3, StoreFacts, Zenon
  <2>8. PICK g : g = Grow(full, Len(extra))
    OBVIOUS
  <2>9. Sound(g) /\ Fresh(g) /\ Content(g) = Content(x) \o first
    <3>1. Len(extra) \in Nat /\ 0 < Len(extra)
      BY <1>1, <2>2, <2>4
    <3> QED
      BY Zenon, <2>7, <2>8, <3>1, GrowFacts
  <2>10. y = AppendBytes(g, CString(extra))
    BY <1>1, <1>4, <2>1, <2>5, <2>8, Zenon DEF Receive
  <2>11. CASE \E i \in DOMAIN s : i > Writable(x) /\ s[i] = 0
    <3>1. \E i \in 1..Len(extra) : extra[i] = 0
      <4>1. PICK i \in 1..n : i > room /\ s[i] = 0
        BY <1>1, <2>11
      <4>2. i - room \in 1..(n - room) /\ room + (i - room) = i
        BY <1>1, <4>1
      <4> QED
        BY <2>4, <4>1, <4>2, Zenon
    <3>2. PICK k \in 0..Len(extra) - 1 : CString(extra) = SubSeq(extra, 1, k)
      BY <2>4, <3>1, CStringFacts, Zenon
    <3>3. k \in 0..Len(s) - room /\ k \in 0..Len(extra) /\ room + k \in 0..Len(s) - 1
      <4>1. /\ n \in Nat /\ room \in Nat /\ n = Len(s) /\ Len(extra) = n - room
            /\ 0 < n - room /\ k \in 0..Len(extra) - 1
        BY <1>1, <2>2, <2>4, <3>2, Zenon
      <4> QED
        BY <4>1
    <3>4. SubSeq(extra, 1, k) \in Seq(Nat)
      BY <2>4, <3>3, FirstFacts, Zenon
    <3>5. Sound(y) /\ Fresh(y) /\ Content(y) = (Content(x) \o first) \o SubSeq(extra, 1, k)
      <4>1. PICK t \in Seq(Nat) : t = SubSeq(extra, 1, k)
        BY <3>4, Zenon
      <4>2. y = AppendBytes(g, t)
        BY <2>10, <3>2, <4>1
      <4>3. Sound(y) /\ Fresh(y) /\ Content(y) = Content(g) \o t
        BY <2>9, <4>1, <4>2, AppendFacts, Zenon
      <4> QED
        BY <2>9, <4>1, <4>3
    <3>6. SubSeq(s, 1, room + k) = first \o SubSeq(extra, 1, k)
      BY <1>1, <2>1, <2>2, <3>3, Pieces, ZenonT(40)
    <3>7. Content(y) = Content(x) \o (first \o SubSeq(extra, 1, k))
      <4>1. PICK t \in Seq(Nat) : t = SubSeq(extra, 1, k)
        BY Zenon, <3>4
      <4>2. (Content(x) \o first) \o t = Content(x) \o (first \o t)
        BY ZenonT(40), <1>2, <2>3, Associative
      <4> QED
        BY Zenon, <3>5, <4>1, <4>2
    <3> QED
      BY <2>11, <3>3, <3>5, <3>6, <3>7, Zenon
  <2>12. CASE ~\E i \in DOMAIN s : i > Writable(x) /\ s[i] = 0
    <3>1. \A i \in 1..Len(extra) : extra[i] # 0
      <4> TAKE i \in 1..Len(extra)
      <4>1. i \in 1..(n - room) /\ room + i \in 1..n /\ room + i > room
        BY <1>1, <2>2, <2>4
      <4> QED
        BY <1>1, <2>4, <2>12, <4>1, Zenon
    <3>2. CString(extra) = extra
      BY <2>4, <3>1, CStringFacts
    <3>3. Sound(y) /\ Fresh(y) /\ Content(y) = (Content(x) \o first) \o extra
      <4>1. y = AppendBytes(g, extra) /\ extra \in Seq(Nat)
        BY Zenon, <2>4, <2>10, <3>2
      <4>2. Sound(y) /\ Fresh(y) /\ Content(y) = Content(g) \o extra
        BY Zenon, <2>9, <4>1, AppendFacts
      <4> QED
        BY Zenon, <2>9, <4>2
    <3>4. s = first \o extra
      <4>1. Len(s) = Len(first) + Len(extra)
        BY <1>1, <2>3, <2>4
      <4>2. \A i \in 1..Len(first) : s[i] = first[i]
        BY <2>1, <2>2, <2>3, FirstFacts
      <4> QED
        <5>1. first \in Seq(Nat) /\ extra \in Seq(Nat) /\ Len(extra) = n - room /\ Len(first) = room
          BY Zenon, <2>3, <2>4
        <5>2. \A i \in 1..Len(extra) : s[Len(first) + i] = extra[i]
          BY Zenon, <2>4, <5>1
        <5> QED
          BY Zenon, <4>1, <4>2, <5>1, <5>2, Joined
    <3>5. Content(y) = Content(x) \o (first \o extra)
      <4>1. (Content(x) \o first) \o extra = Content(x) \o (first \o extra)
        <5>1. first \in Seq(Nat) /\ extra \in Seq(Nat)
          BY Zenon, <2>3, <2>4
        <5> QED
          BY Zenon, <1>2, <5>1, Associative
      <4> QED
        BY Zenon, <3>3, <4>1
    <3> QED
      BY Zenon, <2>12, <3>3, <3>4, <3>5
  <2> QED
    BY <2>11, <2>12, Zenon
<1> QED
  BY <1>3, <1>4, Zenon


-----------------------------------------------------------------------------
(* Every call is a call of the queue.                                      *)

Undamaged ==
  io'.kind \in {"none", "excess", "overrun"} /\ Content(b') # Content(b)
    => 0 < Distance /\ Distance < Unread(b) /\ b'.caps = b.caps

Headed == io'.kind = "overrun" => b.read < Reserved

\* What a step of the buffer has to keep.
Kept == BufferInv' /\ Queue!Next /\ Undamaged /\ Headed

LEMMA BecomeFacts ==
  ASSUME NEW x, NEW kind, NEW s, Become(x, kind, s)
  PROVE  b' = x /\ io'.kind = kind /\ io'.bytes = s
BY DEF Become

LEMMA PutStep ==
  ASSUME Sound(b'), Fresh(b'), io'.kind = "put", Content(b') = Content(b) \o io'.bytes
  PROVE  Kept
BY DEF Kept, BufferInv, Undamaged, Headed, Queue!Next, Queue!Put

LEMMA PushStep ==
  ASSUME Sound(b'), Fresh(b'), io'.kind = "push", Content(b') = io'.bytes \o Content(b)
  PROVE  Kept
BY DEF Kept, BufferInv, Undamaged, Headed, Queue!Next, Queue!Push

LEMMA TakeStep ==
  ASSUME Sound(b'), Fresh(b'), io'.kind = "take", Content(b) = io'.bytes \o Content(b')
  PROVE  Kept
BY DEF Kept, BufferInv, Undamaged, Headed, Queue!Next, Queue!Take

LEMMA OtherStep ==
  ASSUME Sound(b'), Fresh(b'), io'.kind = "none", Content(b') = Content(b)
  PROVE  Kept
BY DEF Kept, BufferInv, Undamaged, Headed, Queue!Next, Queue!Other

LEMMA CutStep ==
  ASSUME Sound(b'), Fresh(b'), io'.kind = "cut",
         \E n \in 0..Len(io'.bytes) - 1 : Content(b') = Content(b) \o SubSeq(io'.bytes, 1, n)
  PROVE  Kept
BY Zenon DEF Kept, BufferInv, Undamaged, Headed, Queue!Next, Queue!Cut

LEMMA ExcessStep ==
  ASSUME Sound(b'), Fresh(b'), io'.kind \in {"excess", "overrun"},
         Len(Content(b')) = Len(Content(b)), Undamaged, Headed
  PROVE  Kept
BY DEF Kept, BufferInv, Queue!Next, Queue!Excess


LEMMA DataFacts == ASSUME NEW S, NEW s \in [S -> Data] PROVE s \in [S -> Nat]
<1>1. Data \subseteq Nat
  BY BufferAssumption
<1> QED
  BY <1>1, Zenon

LEMMA BytesFacts == ASSUME NEW n \in Nat, NEW s \in Bytes(n) PROVE s \in Seq(Nat)
<1>1. PICK k \in 0..n : s \in [1..k -> Data]
  BY DEF Bytes
<1>2. s \in [1..k -> Nat] /\ k \in Nat
  BY <1>1, DataFacts
<1> QED
  BY <1>2

LEMMA AppendKept == ASSUME BufferInv, Append_ PROVE Kept
<1>1. PICK s \in Bytes(MaxPut) : Become(AppendBytes(b, s), "put", s)
  BY DEF Append_
<1>2. s \in Seq(Nat)
  BY BufferAssumption, BytesFacts
<1>3. b' = AppendBytes(b, s) /\ io'.kind = "put" /\ io'.bytes = s
  BY <1>1, BecomeFacts
<1>4. Sound(b') /\ Fresh(b') /\ Content(b') = Content(b) \o s
  BY <1>2, <1>3, AppendFacts, Zenon DEF BufferInv
<1> QED
  BY <1>3, <1>4, PutStep

LEMMA PrependKept == ASSUME BufferInv, PrependInt PROVE Kept
<1>1. PICK w \in WordSizes : \E s \in [1..w -> Data] : w <= b.read /\ Become(Prepend(b, s), "push", s)
  BY DEF PrependInt
<1>2. PICK s \in [1..w -> Data] : w <= b.read /\ Become(Prepend(b, s), "push", s)
  BY <1>1
<1>3. s \in Seq(Nat) /\ s # <<>> /\ Len(s) = w
  <2>1. w \in Nat /\ w > 0 /\ s \in [1..w -> Nat]
    BY <1>1, <1>2, BufferAssumption, DataFacts
  <2>2. s \in Seq(Nat) /\ Len(s) = w
    BY <2>1
  <2> QED
    BY <2>1, <2>2
<1>4. b' = Prepend(b, s) /\ io'.kind = "push" /\ io'.bytes = s
  BY <1>2, BecomeFacts
<1>5. Sound(b') /\ Fresh(b') /\ Content(b') = s \o Content(b)
  BY Zenon, <1>2, <1>3, <1>4, PrependFacts DEF BufferInv
<1> QED
  BY <1>4, <1>5, PushStep

\* What is discarded is what is handed out.
LEMMA TakeKept ==
  ASSUME BufferInv, NEW n \in Nat, NEW s, Become(Discard(b, n), "take", s),
         \/ n <= Unread(b) /\ s = Ahead(n)
         \/ n >= Unread(b) /\ (s = Ahead(Unread(b)) \/ s = Content(b))
  PROVE  Kept
<1>1. b' = Discard(b, n) /\ io'.kind = "take" /\ io'.bytes = s
  BY BecomeFacts
<1>2. /\ Sound(b') /\ Fresh(b')
      /\ n <= Unread(b) => Content(b) = Ahead(n) \o Content(b')
      /\ n >= Unread(b) => Content(b) = Ahead(Unread(b)) \o Content(b')
      /\ n >= Unread(b) => Content(b) = Content(b) \o Content(b')
  BY <1>1, DiscardFacts, ZenonT(40) DEF BufferInv, Ahead
<1>3. Content(b) = s \o Content(b')
  BY <1>2, Zenon
<1> QED
  BY <1>1, <1>2, <1>3, TakeStep

LEMMA NumberFacts ==
  BufferInv => Unread(b) \in Nat /\ Writable(b) \in Nat /\ Content(b) \in Seq(Nat)
BY SoundFacts, ContentFacts DEF BufferInv

LEMMA ReadKept == ASSUME BufferInv, ReadInt PROVE Kept
<1>1. PICK w \in WordSizes :
        IF Unread(b) < w \/ Ahead(w) = MinusOne(w)
        THEN Become(b, "none", MinusOne(w)) ELSE Become(Discard(b, w), "take", Ahead(w))
  BY DEF ReadInt
<1>2. w \in Nat /\ Unread(b) \in Nat
  BY BufferAssumption, NumberFacts
<1>3. CASE Become(b, "none", MinusOne(w))
  <2>1. b' = b /\ io'.kind = "none"
    BY <1>3, BecomeFacts
  <2> QED
    BY <2>1, OtherStep DEF BufferInv
<1>4. CASE ~(Unread(b) < w) /\ Become(Discard(b, w), "take", Ahead(w))
  <2>1. w <= Unread(b)
    BY <1>2, <1>4
  <2> QED
    BY Zenon, <1>2, <1>4, <2>1, TakeKept
<1> QED
  BY <1>1, <1>3, <1>4

LEMMA ConsumeKept == ASSUME BufferInv, Consume PROVE Kept
<1>1. PICK n \in 0..MaxCaps, verify \in BOOLEAN :
        IF n <= Unread(b) THEN Become(Discard(b, n), "take", Ahead(n))
        ELSE IF verify THEN Become(b, "take", <<>>)
        ELSE Become(Discard(b, Unread(b)), "take", Content(b))
  BY DEF Consume
<1>2. n \in Nat /\ Unread(b) \in Nat /\ Content(b) \in Seq(Nat)
  BY BufferAssumption, NumberFacts
<1>3. CASE n <= Unread(b) /\ Become(Discard(b, n), "take", Ahead(n))
  BY <1>2, <1>3, TakeKept
<1>4. CASE Become(b, "take", <<>>)
  <2>1. b' = b /\ io'.kind = "take" /\ io'.bytes = <<>>
    BY <1>4, BecomeFacts
  <2>2. Content(b) = <<>> \o Content(b)
    BY <1>2
  <2> QED
    BY <2>1, <2>2, TakeStep DEF BufferInv
<1>5. CASE Become(Discard(b, Unread(b)), "take", Content(b))
  <2>1. Unread(b) >= Unread(b)
    BY <1>2
  <2> QED
    BY <1>2, <1>5, <2>1, TakeKept
<1> QED
  BY <1>1, <1>3, <1>4, <1>5

LEMMA RemoveKept == ASSUME BufferInv, RemoveFront PROVE Kept
<1>1. PICK n \in 0..MaxCaps :
        Become(Discard(b, n), "take", Ahead(IF n < Unread(b) THEN n ELSE Unread(b)))
  BY DEF RemoveFront
<1>2. n \in Nat /\ Unread(b) \in Nat
  BY BufferAssumption, NumberFacts
<1>3. CASE n < Unread(b)
  <2>1. n <= Unread(b) /\ Become(Discard(b, n), "take", Ahead(n))
    BY <1>1, <1>2, <1>3
  <2> QED
    BY <1>2, <2>1, TakeKept
<1>4. CASE ~(n < Unread(b))
  <2>1. n >= Unread(b) /\ Become(Discard(b, n), "take", Ahead(Unread(b)))
    BY <1>1, <1>2, <1>4
  <2> QED
    BY <1>2, <2>1, TakeKept
<1> QED
  BY <1>3, <1>4


LEMMA DecreaseKept == ASSUME BufferInv, Decrease PROVE Kept
<1>1. PICK n \in 0..MaxCaps :
        Become(Shrink(b, n), Decreased(n), <<>>)
  BY DEF Decrease
<1>2. n \in Nat /\ Writable(b) \in Nat /\ Sound(b) /\ Fresh(b)
  BY BufferAssumption, NumberFacts DEF BufferInv
<1>3. CASE n <= Writable(b)
  <2>1. b' = Shrink(b, n) /\ io'.kind = "none"
    BY Zenon, <1>1, <1>3, BecomeFacts DEF Decreased
  <2>2. Sound(b') /\ Fresh(b') /\ Content(b') = Content(b)
    BY <1>2, <1>3, <2>1, ShrinkFacts
  <2> QED
    BY <2>1, <2>2, OtherStep
<1>4. CASE ~(n <= Writable(b))
  <2>1. b' = Shrink(b, n) /\ io'.kind = IF PastEnd(b) THEN "overrun" ELSE "excess"
    BY Zenon, <1>1, <1>4, BecomeFacts DEF Decreased
  <2>2. /\ Sound(b') /\ Fresh(b') /\ Unread(b') = Unread(b) /\ b'.caps = b.caps
        /\ Apart(b) => Content(b') = Content(b)
    <3>1. Writable(b) < n
      BY <1>2, <1>4
    <3> QED
      BY <1>2, <2>1, <3>1, ExcessFacts
  <2>3. Len(Content(b')) = Len(Content(b))
    <3>1. Len(Content(b)) = Unread(b) /\ Len(Content(b')) = Unread(b')
      BY <1>2, <2>2, ContentFacts
    <3> QED
      BY <2>2, <3>1
  <2>4. Undamaged
    <3>1. ~Apart(b) => 0 < Distance /\ Distance < Unread(b)
      <4>1. PICK r \in Nat, u \in Nat : r = b.read /\ u = Unread(b) /\ Reserved \in Nat
        BY <1>2, SoundFacts, Zenon
      <4>2. Apart(b) <=> (r = Reserved \/ Reserved + u <= r \/ r + u <= Reserved)
        BY <4>1, Zenon DEF Apart
      <4>3. Distance = IF r < Reserved THEN Reserved - r ELSE r - Reserved
        BY <4>1, Zenon DEF Distance
      <4> QED
        BY <4>1, <4>2, <4>3
    <3> QED
      BY <2>2, <3>1, Zenon DEF Undamaged
  <2>5. Headed
    <3>1. PICK C \in Nat, r \in Nat, w \in Nat, u \in Nat :
            /\ b.caps = C /\ b.read = r /\ Unread(b) = u /\ u = w - r /\ w <= C /\ Reserved \in Nat
      BY <1>2, SoundFacts, Zenon
    <3>2. PastEnd(b) => r < Reserved
      BY <3>1 DEF PastEnd
    <3> QED
      BY <2>1, <3>1, <3>2 DEF Headed
  <2>6. io'.kind \in {"excess", "overrun"}
    BY <2>1
  <2> QED
    BY <2>2, <2>3, <2>4, <2>5, <2>6, ExcessStep
<1> QED
  BY <1>3, <1>4

LEMMA ReadvKept == ASSUME BufferInv, Readv PROVE Kept
<1> DEFINE zero(s) == \E i \in DOMAIN s : i > Writable(b) /\ s[i] = 0
<1>1. PICK s \in Bytes(MaxRead) :
        s # <<>> /\ Become(Receive(b, s), IF zero(s) THEN "cut" ELSE "put", s)
  BY DEF Readv
<1>2. s \in Seq(Nat) /\ s # <<>> /\ Sound(b) /\ Fresh(b)
  BY <1>1, BufferAssumption, BytesFacts DEF BufferInv
<1>3. b' = Receive(b, s) /\ io'.kind = (IF zero(s) THEN "cut" ELSE "put") /\ io'.bytes = s
  <2> HIDE DEF zero
  <2> QED
    BY <1>1, BecomeFacts
<1>4. /\ Sound(b') /\ Fresh(b')
      /\ IF zero(s) THEN \E k \in 0..Len(s) - 1 : Content(b') = Content(b) \o SubSeq(s, 1, k)
         ELSE Content(b') = Content(b) \o s
  BY <1>2, <1>3, ReceiveFacts, ZenonT(40)
<1> HIDE DEF zero
<1>5. CASE zero(s)
  BY <1>3, <1>4, <1>5, CutStep
<1>6. CASE ~zero(s)
  BY <1>3, <1>4, <1>6, PutStep
<1> QED
  BY <1>5, <1>6

LEMMA BufferStep ==
  ASSUME BufferInv, [Next]_vars
  PROVE  BufferInv' /\ [Queue!Next]_<<Content(b), io>> /\ [Undamaged]_vars /\ [Headed]_vars
<1>1. CASE Next
  <2>1. Kept
    BY <1>1, AppendKept, PrependKept, ReadKept, ConsumeKept, RemoveKept, DecreaseKept, ReadvKept DEF Next
  <2> QED
    BY <2>1 DEF Kept
<1>2. CASE UNCHANGED vars
  <2>1. b' = b /\ io' = io
    BY <1>2 DEF vars
  <2> QED
    BY <1>2, <2>1 DEF BufferInv
<1> QED
  BY <1>1, <1>2

LEMMA SizeFacts ==
  Reserved \in Nat /\ Reserved + InitialSize \in Nat /\ Reserved <= Reserved + InitialSize
BY BufferAssumption

LEMMA BufferInit == Init => BufferInv /\ Queue!Init
<1> SUFFICES ASSUME Init PROVE BufferInv /\ Queue!Init
  OBVIOUS
<1>1. PICK c \in Nat : c = Reserved + InitialSize /\ Reserved \in Nat /\ Reserved <= c
  BY SizeFacts, Zenon
<1>2. Has(b, Zeros(c), c, Reserved, Reserved)
  <2>1. Zeros(c) \in Memories
    BY <1>1, ZerosFacts, InMemories, Zenon
  <2>2. b = [buff |-> Zeros(c), caps |-> c, read |-> Reserved, write |-> Reserved]
    BY Zenon, <1>1 DEF Init
  <2> QED
    BY <1>1, <2>1, <2>2 DEF Has, Buffers
<1>3. Sound(b)
  <2>1. Zeros(c) \in [0..c - 1 -> Nat] /\ c \in Nat /\ Reserved <= Reserved /\ Reserved <= c
    BY <1>1, ZerosFacts
  <2> QED
    BY <1>2, <2>1, HasFacts
<1>4. Fresh(b)
  BY Zenon, <1>2 DEF Has, Fresh
<1>5. Content(b) = <<>>
  <2>1. Unread(b) = 0
    BY <1>1, <1>2 DEF Has, Unread
  <2>2. Content(b) \in Seq(Nat) /\ Len(Content(b)) = 0
    BY Zenon, <1>3, <2>1, ContentFacts
  <2> QED
    BY <2>2
<1> QED
  BY <1>3, <1>4, <1>5 DEF BufferInv, Init, Queue!Init


\* The assertions of grow and of the indices follow from the invariant.
LEMMA InvariantAsserts == BufferInv => TypeOK /\ GrowAsserts /\ EmptyIsReset
<1> SUFFICES ASSUME BufferInv PROVE TypeOK /\ GrowAsserts /\ EmptyIsReset
  OBVIOUS
<1>1. TypeOK
  <2>1. /\ b.buff \in [0..b.caps - 1 -> Nat] /\ b.read \in Nat
        /\ b.read <= b.write /\ b.write <= b.caps
    BY Zenon, SoundFacts DEF BufferInv
  <2> QED
    BY <2>1 DEF TypeOK
<1>2. GrowAsserts
  <2>1. SUFFICES ASSUME NEW n \in 1..MaxPut, Writable(b) < n
                 PROVE  (~NeedsMemory(b, n) => Reserved < b.read) /\ Writable(Grow(b, n)) >= n
    BY DEF GrowAsserts
  <2>2. n \in Nat
    BY BufferAssumption
  <2> QED
    BY Zenon, <2>1, <2>2, GrowFacts DEF BufferInv
<1>3. EmptyIsReset
  BY DEF BufferInv, Fresh, EmptyIsReset
<1> QED
  BY <1>1, <1>2, <1>3

-----------------------------------------------------------------------------
(* Theorems.                                                               *)

\* A ByteBuffer implements a queue of bytes: append, prepend, the reads, compaction,
\* reallocation and a receive that overflows the array move no byte out of its place,
\* for every size of header and array and every sequence of calls.
THEOREM BufferImplements == Spec => Implements
<1>1. Init => BufferInv /\ Queue!Init
  BY BufferInit
<1>2. BufferInv /\ [Next]_vars => BufferInv' /\ [Queue!Next]_<<Content(b), io>>
  BY BufferStep
<1> QED
  BY <1>1, <1>2, PTL DEF Spec, Implements, Queue!Spec

\* The same with what keeps the code within its assertions: the indices are in order,
\* grow makes room and compacts only forwards, an empty buffer has its header back, and
\* decrease damages bytes only when it is asked for more than is writable and the old
\* and the new place of the bytes overlap, and bytes behind the array only while a
\* prepended header is unread.
THEOREM BufferIsQueueHolds == Spec => BufferIsQueue
<1>1. BufferInv /\ [Next]_vars => BufferInv' /\ [Undamaged]_vars /\ [Headed]_vars
  BY BufferStep
<1>2. Spec => []BufferInv
  BY <1>1, BufferInit, PTL DEF Spec
<1>3. Spec => DamageNeedsOverlap
  <2>1. Spec => [][Undamaged]_vars
    BY <1>1, <1>2, PTL DEF Spec
  <2> QED
    BY <2>1 DEF DamageNeedsOverlap, Undamaged
<1>4. Spec => OverrunNeedsHeader
  <2>1. Spec => [][Headed]_vars
    BY <1>1, <1>2, PTL DEF Spec
  <2> QED
    BY <2>1 DEF OverrunNeedsHeader, Headed
<1> QED
  BY <1>2, <1>3, <1>4, BufferImplements, InvariantAsserts, PTL DEF BufferIsQueue
=============================================================================
