-------------------------------- MODULE Base64 --------------------------------
(***************************************************************************)
(* Base64 (src/app/atp_base64.cpp): the encoder as a function, the decoder *)
(* step by step, since its inner loop may never end.  Characters are their *)
(* ASCII codes.                                                            *)
(***************************************************************************)
EXTENDS Integers, Sequences

CONSTANTS
  Octets,    \* the bytes of the messages to encode
  MaxBytes,  \* bound: length of a message
  Text,      \* further characters to decode
  MaxText    \* bound: length of a text

ASSUME OctetsAssumption ==
  Octets \subseteq 0..255 /\ Text \subseteq 0..255 /\ MaxBytes \in Nat /\ MaxText \in Nat

Pad == 61
base64_code(n) == IF n < 26 THEN 65 + n ELSE IF n < 52 THEN 71 + n ELSE IF n < 62 THEN n - 4
                  ELSE IF n = 62 THEN 43 ELSE 47
char2Base_NoSlash(c) ==
  CASE c \in 65..90 -> c - 65 [] c \in 97..122 -> c - 71 [] c \in 48..57 -> c + 4 [] c = 43 -> 62 [] OTHER -> 64
char2Base(c) ==
  CASE c \in 65..90 -> c - 65 [] c \in 97..122 -> c - 71 [] c \in 48..57 -> c + 4
    [] c = 43 -> 62 [] c = 47 -> 63 [] OTHER -> 64

base64EncodeLen(n) == ((n + 2) \div 3) * 4 + 1
base64DecodeLen(n) == (n \div 4) * 3 + 2

Group_NoCarry(src, i) ==
  LET at(j) == IF j <= Len(src) THEN src[j] ELSE 0 IN
  <<base64_code(at(i) \div 4), base64_code(at(i + 1) \div 16), base64_code(at(i + 2) \div 64), base64_code(at(i + 2) % 64)>>
\* The 4 characters for the bytes i, i+1, i+2 of src; missing ones are padded.
Group(src, i) ==
  LET at(j) == IF j <= Len(src) THEN src[j] ELSE 0
      c == at(i) * 65536 + at(i + 1) * 256 + at(i + 2)
      code(d) == base64_code((c \div d) % 64) IN
  <<code(262144), code(4096), IF i + 1 > Len(src) THEN Pad ELSE code(64),
    IF i + 2 > Len(src) THEN Pad ELSE code(1)>>
base64Encode(src) ==
  [k \in 1..4 * ((Len(src) + 2) \div 3) |-> Group(src, 3 * ((k - 1) \div 4) + 1)[((k - 1) % 4) + 1]]

Strings(S, n) == UNION {[1..k -> S] : k \in 1..n}

VARIABLES
  msg,    \* history: the message that was encoded, or <<>>
  src,    \* the text to decode
  index,  \* i: the position, from 0
  carry,  \* t: the bits carried over
  out,    \* bytes written through p
  done    \* base64Decode returned
b64 == <<msg, src, index, carry, out, done>>

Base64Init ==
  /\ \/ \E m \in Strings(Octets, MaxBytes) : msg = m /\ src = base64Encode(m)
     \/ \E s \in Strings(Text, MaxText) : msg = <<>> /\ src = s
  /\ index = 0 /\ carry = 0 /\ out = <<>> /\ done = FALSE

Store(b) == out' = Append(out, b % 256)

\* One turn of the for loop for code c.
Turn(c) ==
  /\ \/ index % 4 = 0 /\ carry' = (c * 4) % 256 /\ UNCHANGED out
     \/ index % 4 = 1 /\ Store(carry + c \div 16) /\ carry' = (c * 16) % 256
     \/ index % 4 = 2 /\ Store(carry + c \div 4) /\ carry' = (c * 64) % 256
     \/ index % 4 = 3 /\ Store(carry + c) /\ UNCHANGED carry
  /\ index' = index + 1

DecodeReturns == done' = TRUE /\ UNCHANGED <<msg, src, index, carry, out>>
Ends == index = Len(src) \/ src[index + 1] \in {Pad, 0}

\* A character outside the alphabet repeats the inner loop with the same character.
base64Decode ==
  /\ ~done
  /\ IF Ends THEN DecodeReturns
     ELSE IF char2Base(src[index + 1]) = 64 THEN UNCHANGED b64
     ELSE Turn(char2Base(src[index + 1])) /\ UNCHANGED <<msg, src, done>>

Base64Next == base64Decode
Base64Spec == Base64Init /\ [][Base64Next]_b64 /\ WF_b64(Base64Next)

-----------------------------------------------------------------------------
(* Properties.                                                             *)

\* Decoding what base64Encode made gives back the message, every byte of it.
DecodesBack == done /\ msg # <<>> => out = msg

\* The encoder and the decoder stay inside the strings they resized: the terminating
\* zero, and bytes of texts of any length, padded or not.
StaysInside ==
  /\ Len(out) <= base64DecodeLen(Len(src))
  /\ msg # <<>> => Len(src) + 1 <= base64EncodeLen(Len(msg))

\* The decoder returns, unless a character outside the alphabet comes before the end,
\* a zero or a padding.
Alphabet == {base64_code(n) : n \in 0..63}
Stuck == \E k \in 1..Len(src) : src[k] \notin Alphabet /\ \A j \in 1..k : src[j] \notin {Pad, 0}
DecoderReturns == <>(done \/ Stuck)

\* Base64: decoding gives back what was encoded, inside the strings.
RoundTrip == DecodesBack /\ StaysInside
=============================================================================
