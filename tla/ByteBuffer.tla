----------------------------- MODULE ByteBuffer -----------------------------
(***************************************************************************)
(* ByteBuffer with its ByteBufferedWriter and ByteBufferedReader           *)
(* (src/net/atp_buffer.hpp): one array with a reserved header, a read and  *)
(* a write index, compaction and reallocation.  The memory is modelled     *)
(* byte by byte, so that a copy to or from the wrong place shows.  An      *)
(* integer is identified with its bytes in network order, which is what    *)
(* htonl and htonll store and ntohl and ntohll read back.                  *)
(***************************************************************************)
EXTENDS Integers, Sequences

CONSTANTS
  Reserved,      \* prepend_size, at least 1 (0 means "leave" to updateReadWriteIndex)
  InitialSize,   \* initial_size
  Data,          \* the byte values that are written and received
  WordSizes,     \* sizeof(int32_t), sizeof(int64_t), scaled
  MaxPut,        \* bound on the bytes of one append
  MaxRead,       \* bound on the bytes of one readv, below sizeof(extrbuffer)
  MaxCaps        \* bound on caps_

ASSUME BufferAssumption ==
  /\ Reserved \in Nat \ {0} /\ InitialSize \in Nat
  /\ WordSizes \subseteq Nat \ {0}
  /\ Data \subseteq Nat
  /\ MaxPut \in Nat /\ MaxRead \in Nat /\ MaxCaps \in Nat

VARIABLES
  b,    \* the buffer: buff_, caps_, read_index_, write_index_
  io    \* the last call, with the bytes it passed or returned

vars == <<b, io>>

Bytes(n) == UNION {[1..k -> Data] : k \in 0..n}
Zeros(n) == [i \in 0..n - 1 |-> 0]
MinusOne(w) == [i \in 1..w |-> 255]

Init ==
  /\ b = [buff |-> Zeros(Reserved + InitialSize), caps |-> Reserved + InitialSize,
          read |-> Reserved, write |-> Reserved]
  /\ io = [kind |-> "none", bytes |-> <<>>]

Writable(x) == x.caps - x.write
Unread(x)   == x.write - x.read
Content(x)  == [i \in 1..Unread(x) |-> x.buff[x.read + i - 1]]

\* memcpy, memmove: s stored at offset `at` of m.  What falls outside changes other
\* memory; only decrease may do that (PastEnd), and then reports it.
Place(m, at, s) ==
  [i \in DOMAIN m |-> IF i - at + 1 \in DOMAIN s THEN s[i - at + 1] ELSE m[i]]

\* updateReadWriteIndex: 0 leaves an index; increment or assignment.
Advance(x, r, w) == [x EXCEPT !.read = @ + r, !.write = @ + w]
SetIndex(x, r, w) ==
  [x EXCEPT !.read  = IF r # 0 THEN r ELSE @, !.write = IF w # 0 THEN w ELSE @]

Reset(x) == [x EXCEPT !.read = Reserved, !.write = Reserved]

-----------------------------------------------------------------------------
(* ByteBufferedWriter                                                      *)

NeedsMemory_HeaderForgotten(x, n) == x.read + Writable(x) < n
NeedsMemory(x, n) == x.read + Writable(x) < Reserved + n

\* grow: a new array when even compaction would not do, else compaction.
Grow(x, n) ==
  LET size == 2 * x.caps + n
      y == IF NeedsMemory(x, n)
           THEN [x EXCEPT !.buff = Place(Zeros(size), Reserved, Content(x)), !.caps = size]
           ELSE [x EXCEPT !.buff = Place(@, Reserved, Content(x))]
  IN  SetIndex(y, Reserved, Reserved + Unread(x))

AppendBytes(x, s) ==
  LET y == IF Writable(x) < Len(s) THEN Grow(x, Len(s)) ELSE x
  IN  Advance([y EXCEPT !.buff = Place(@, y.write, s)], 0, Len(s))

Prepend(x, s) ==
  LET y == Advance(x, -Len(s), 0)
  IN  [y EXCEPT !.buff = Place(@, y.read, s)]

-----------------------------------------------------------------------------
(* ByteBufferedReader                                                      *)

Discard(x, n) == IF n < Unread(x) THEN Advance(x, n, 0) ELSE Reset(x)

\* size_t arithmetic: a negative difference is a huge number.
Shrinkable(x, n) ==
  LET available == x.caps - Reserved - Unread(x)
  IN  Writable(x) < n /\ (available < 0 \/ available >= n)

\* The bytes do not fit behind the header: a header that was prepended is unread.
PastEnd(x) == x.caps < Reserved + Unread(x)

\* decrease: the first branch moves the bytes but not the indices.
Shrink(x, n) ==
  LET y == IF Shrinkable(x, n) THEN [x EXCEPT !.buff = Place(@, Reserved, Content(x))]
                               ELSE x
      size == y.caps + Reserved - n
  IN  IF n = 0 \/ Writable(y) < n THEN y
      ELSE SetIndex([y EXCEPT !.buff = Place(Zeros(size), Reserved, Content(y)),
                              !.caps = size],
                    Reserved, Reserved + Unread(y))

\* Slice(const char*): strlen of the overflow area.
CString(s) ==
  LET zeros == {i \in DOMAIN s : s[i] = 0}
  IN  IF zeros = {} THEN s
      ELSE SubSeq(s, 1, (CHOOSE i \in zeros : \A j \in zeros : i <= j) - 1)

\* readv of the bytes s: into the buffer, then through extrbuffer.
Receive(x, s) ==
  LET room  == Writable(x)
      full  == SetIndex([x EXCEPT !.buff = Place(@, x.write, SubSeq(s, 1, room))], 0, x.caps)
      extra == SubSeq(s, room + 1, Len(s))
  IN  IF Len(s) <= room
      THEN Advance([x EXCEPT !.buff = Place(@, x.write, s)], 0, Len(s))
      ELSE AppendBytes(Grow(full, Len(extra)), CString(extra))

-----------------------------------------------------------------------------
(* The calls.                                                              *)

Become(x, kind, s) ==
  /\ x.caps <= MaxCaps
  /\ b' = x
  /\ io' = [kind |-> kind, bytes |-> s]

Ahead(n) == SubSeq(Content(b), 1, n)

\* append, and appendInt32, appendInt64 for the words.
Append_ == \E s \in Bytes(MaxPut) : Become(AppendBytes(b, s), "put", s)

\* prependInt32, prependInt64, under their assertion.
PrependInt == \E w \in WordSizes : \E s \in [1..w -> Data] :
  w <= b.read /\ Become(Prepend(b, s), "push", s)

\* readInt32, readInt64: -1, stored or for want of bytes, is not removed.
ReadInt == \E w \in WordSizes :
  IF Unread(b) < w \/ Ahead(w) = MinusOne(w)
  THEN Become(b, "none", MinusOne(w))
  ELSE Become(Discard(b, w), "take", Ahead(w))

\* consume(length, verify) and consume(length).
Consume == \E n \in 0..MaxCaps, verify \in BOOLEAN :
  IF n <= Unread(b) THEN Become(Discard(b, n), "take", Ahead(n))
  ELSE IF verify THEN Become(b, "take", <<>>)
  ELSE Become(Discard(b, Unread(b)), "take", Content(b))

RemoveFront == \E n \in 0..MaxCaps :
  Become(Discard(b, n), "take", Ahead(IF n < Unread(b) THEN n ELSE Unread(b)))

\* A call for more than writableBytes() is reported as such, and so is the memmove of
\* such a call that ends behind the array.
Decreased(n) ==
  IF n <= Writable(b) THEN "none" ELSE IF PastEnd(b) THEN "overrun" ELSE "excess"

Decrease == \E n \in 0..MaxCaps : Become(Shrink(b, n), Decreased(n), <<>>)

\* So is a receive with a zero byte beyond the end of the array.
Readv == \E s \in Bytes(MaxRead) :
  LET zero == \E i \in DOMAIN s : i > Writable(b) /\ s[i] = 0
  IN  s # <<>> /\ Become(Receive(b, s), IF zero THEN "cut" ELSE "put", s)

Next == Append_ \/ PrependInt \/ ReadInt \/ Consume \/ RemoveFront \/ Decrease \/ Readv

Spec == Init /\ [][Next]_vars

-----------------------------------------------------------------------------
(* Properties.                                                             *)

\* The assertions of writableBytes and unreadBytes: the indices stay in order,
\* within the array.
TypeOK ==
  /\ DOMAIN b.buff = 0..b.caps - 1
  /\ 0 <= b.read /\ b.read <= b.write /\ b.write <= b.caps

\* grow's assertions, lines 177 and 183, for every append that may come next:
\* it compacts only bytes that stand behind the header, and makes enough room.
GrowAsserts == \A n \in 1..MaxPut :
  Writable(b) < n => /\ ~NeedsMemory(b, n) => Reserved < b.read
                     /\ Writable(Grow(b, n)) >= n

\* An empty buffer has its whole header and body back: whatever empties it goes
\* through reset.  decrease's assertion at line 263 needs it (it fails on 0).
EmptyIsReset == Unread(b) = 0 => b.read = Reserved

\* The unread bytes form a queue: none is lost, repeated, altered or reordered
\* by compaction, reallocation, prepending or a read that overflows the array.  Two
\* kinds of calls are exempt: a readv whose overflow has a zero byte stores a part of
\* what it reports, a decrease beyond writableBytes() may alter the bytes.
Queue == INSTANCE ByteQueue WITH q <- Content(b)
Implements == Queue!Spec

\* decrease damages the unread bytes only when it is asked for more than
\* writableBytes() and the bytes moved overlap the place they are read from.
Distance == IF b.read < Reserved THEN Reserved - b.read ELSE b.read - Reserved
DamageNeedsOverlap ==
  [][io'.kind \in {"none", "excess", "overrun"} /\ Content(b') # Content(b)
       => 0 < Distance /\ Distance < Unread(b) /\ b'.caps = b.caps]_vars

\* decrease writes behind the array only while a prepended header is unread.
OverrunNeedsHeader == [][io'.kind = "overrun" => b.read < Reserved]_vars

\* The unread bytes are a queue, the indices keep the assertions of grow and reset;
\* decrease damages bytes only by an overlapping move, and others' only with a header.
BufferIsQueue ==
  Implements /\ DamageNeedsOverlap /\ OverrunNeedsHeader /\ [](TypeOK /\ GrowAsserts /\ EmptyIsReset)
=============================================================================
