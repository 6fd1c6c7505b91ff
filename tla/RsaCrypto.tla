------------------------------ MODULE RsaCrypto ------------------------------
(***************************************************************************)
(* RSACrypto (src/app/atp_rsa_crypto.hpp): the object's state over a       *)
(* sequence of calls, with the files it opens.  A text is a sequence of    *)
(* bytes, of which only 0 matters; a cipher text is the sequence of the    *)
(* texts of its pieces, rsa_len bytes each.  OpenSSL and the files are     *)
(* external: they may fail, and a key file may go away.                    *)
(***************************************************************************)
EXTENDS Integers, Sequences

CONSTANTS
  Plain,       \* plain texts
  RsaLens,     \* key sizes in bytes
  BuffLen,     \* the 256 of chunk_decrypt_buff and tmp_buff; chunk_buff has one more
  DecryptMax,  \* DECRYPT_MAX_SIZE
  MaxPieces,   \* bound: pieces of a cipher text
  MaxFds,      \* descriptors the process can open
  MaxRsaCalls  \* bound: calls of the object

\* RSA_size of any key is larger than what the base64 form may round up by.
ASSUME KeysAreLong == (\A len \in RsaLens : len \in Nat /\ len >= 4) /\ MaxPieces \in Nat
ASSUME BuffersAssumption == BuffLen \in Nat /\ DecryptMax \in Nat /\ BuffLen < DecryptMax
ASSUME TextsAreBytes == Plain \subseteq Seq(Nat)

VARIABLES
  rsa_len, paths,            \* the key size; the key paths that name a readable file
  fds,                       \* descriptors open
  encrypt_result_,           \* the text its cipher text stands for, if any
  decrypt_result_,           \* the strings appended to it
  rsaCalls,
  rsaLast,                   \* history: the last call, its return value and its input
  encrypted, kept,           \* history: calls that left a file open; the result before
  rsaFault                   \* "overrun", the key whose FILE* was NULL when used, or "no"
rsa == <<rsa_len, paths, fds, encrypt_result_, decrypt_result_, rsaCalls, rsaLast, encrypted, kept, rsaFault>>

Keys == {"public", "private"}
RsaCall(op, ret, in) == rsaLast' = [op |-> op, ret |-> ret, in |-> in] /\ rsaCalls' = rsaCalls + 1

\* The constructor takes any two paths.
RsaInit ==
  /\ rsa_len \in RsaLens /\ paths \in SUBSET Keys /\ fds = 0
  /\ encrypt_result_ = <<>> /\ decrypt_result_ = <<>> /\ kept = <<>>
  /\ rsaCalls = 0 /\ rsaLast = [op |-> "new", ret |-> 0, in |-> <<>>]
  /\ encrypted = 0 /\ rsaFault = "no"

Ready == rsaFault = "no" /\ rsaCalls < MaxRsaCalls

\* checkFileExist opens and closes the file.
Opens(exists) == exists /\ fds < MaxFds
SetKeyPath(k) ==
  /\ Ready
  /\ \E exists \in BOOLEAN :
       /\ paths' = IF Opens(exists) THEN paths \cup {k} ELSE paths
       /\ RsaCall("setKeyPath", IF Opens(exists) THEN 0 ELSE -201, <<>>)
  /\ UNCHANGED <<rsa_len, fds, encrypt_result_, decrypt_result_, encrypted, kept, rsaFault>>

\* Someone removes a key file, before or after its path was checked.
RemoveKey(k) ==
  /\ Ready /\ paths' = paths \ {k}
  /\ UNCHANGED <<rsa_len, fds, encrypt_result_, decrypt_result_, rsaCalls, rsaLast, encrypted, kept, rsaFault>>

\* fopen fails: PEM_read_... is given NULL.
NoFile(k) ==
  /\ Ready /\ (k \notin paths \/ fds = MaxFds)
  /\ rsaFault' = k
  /\ UNCHANGED <<rsa_len, paths, fds, encrypt_result_, decrypt_result_, rsaCalls, rsaLast, encrypted, kept>>

\* What strlen and std::string(char*) see of the bytes p followed by a 0.
ZeroBytes(p) == {i \in DOMAIN p : p[i] = 0}
ZString(p) == IF ZeroBytes(p) = {} THEN p
              ELSE SubSeq(p, 1, (CHOOSE i \in ZeroBytes(p) : \A j \in ZeroBytes(p) : i <= j) - 1)

\* A bad key closes the file; every later return leaves it, and the key, behind.
\* The rsa_len bytes copied of a shorter text go past its end, but the 0 that ends
\* it comes first.
encryptContent(p) ==
  /\ Ready /\ "public" \in paths /\ fds < MaxFds
  /\ \/ RsaCall("encrypt", -204, <<p>>) /\ UNCHANGED <<fds, encrypted, encrypt_result_>>
     \/ /\ fds' = fds + 1 /\ encrypted' = encrypted + 1
        /\ \/ rsa_len < Len(p) /\ RsaCall("encrypt", -209, <<p>>) /\ UNCHANGED encrypt_result_
           \/ rsa_len >= Len(p) /\ RsaCall("encrypt", -1, <<p>>) /\ UNCHANGED encrypt_result_
           \/ rsa_len >= Len(p) /\ RsaCall("encrypt", 0, <<p>>) /\ encrypt_result_' = <<ZString(p)>>
  /\ UNCHANGED <<rsa_len, paths, decrypt_result_, kept, rsaFault>>

\* The length in base64 of n pieces, and the pieces decryptContent finds in it.
OrigLen(n) == 4 * ((n * rsa_len + 2) \div 3)
TotalLen_NoSlack(origlen) == (origlen \div 4) * 3 - 2
TotalLen(origlen) == (origlen \div 4) * 3 + 2
Chunks(total) == IF total % rsa_len = 0 THEN total \div rsa_len ELSE total \div rsa_len + 1
Pieces(n) == Chunks(TotalLen(OrigLen(n))) - 1

\* The string made of a text that was put into a buffer of zeros with the given
\* room: in a full buffer no 0 ends it, and what lies behind may follow.
Stray == {<<>>, <<255>>}
StringOf(p, room, stray) == IF Len(p) = room /\ ZeroBytes(p) = {} THEN p \o stray ELSE ZString(p)

\* Decrypting this piece writes past chunk_buff or chunk_decrypt_buff.
Overruns(p) == rsa_len > BuffLen + 1 \/ Len(p) > BuffLen

\* Piecewise: every piece is appended to the result; an error keeps what was appended.
Appended(in, n, stray) == decrypt_result_ \o [i \in 1..n |-> StringOf(in[i], BuffLen, stray)]
decryptContent(in) ==
  /\ Ready /\ "private" \in paths /\ fds < MaxFds /\ Pieces(Len(in)) \in 0..Len(in)
  /\ kept' = decrypt_result_
  /\ \/ RsaCall("decrypt", -205, in) /\ UNCHANGED <<decrypt_result_, rsaFault>>
     \/ \E n \in 0..Pieces(Len(in)), stray \in Stray :
          /\ rsa_len <= BuffLen + 1 /\ \A i \in 1..n : ~Overruns(in[i])
          /\ RsaCall("decrypt", IF n < Pieces(Len(in)) THEN -207 ELSE 0, in)
          /\ decrypt_result_' = Appended(in, n, stray) /\ UNCHANGED rsaFault
     \/ /\ \E i \in 1..Pieces(Len(in)) : Overruns(in[i])
        /\ RsaCall("decrypt", -1, in) /\ rsaFault' = "overrun" /\ UNCHANGED decrypt_result_
  /\ UNCHANGED <<rsa_len, paths, fds, encrypt_result_, encrypted>>

\* An origlen of less than a piece: decrypted at once, replacing the result.
decryptShort(p) ==
  /\ Ready /\ "private" \in paths /\ fds < MaxFds
  /\ kept' = decrypt_result_
  /\ \/ RsaCall("decryptShort", -205, <<p>>) /\ UNCHANGED <<decrypt_result_, rsaFault>>
     \/ RsaCall("decryptShort", -207, <<p>>) /\ UNCHANGED <<decrypt_result_, rsaFault>>
     \/ /\ Len(p) <= DecryptMax /\ RsaCall("decryptShort", 0, <<p>>) /\ UNCHANGED rsaFault
        /\ \E stray \in Stray : decrypt_result_' = <<StringOf(p, DecryptMax, stray)>>
     \/ /\ Len(p) > DecryptMax /\ RsaCall("decryptShort", -1, <<p>>) /\ rsaFault' = "overrun"
        /\ UNCHANGED decrypt_result_
  /\ UNCHANGED <<rsa_len, paths, fds, encrypt_result_, encrypted>>

\* getPublicKeyFromCertificate: two files, closed on every path; the file written
\* may be the one the public key's path names.
getPublicKeyFromCertificate ==
  /\ Ready
  /\ \E ret \in {-210, -211, -212, 0} :
       /\ (ret = -211 => fds < MaxFds) /\ (ret = 0 => fds + 1 < MaxFds)
       /\ RsaCall("certificate", ret, <<>>)
       /\ paths' \in IF ret = 0 THEN {paths, paths \cup {"public"}} ELSE {paths}
  /\ UNCHANGED <<rsa_len, fds, encrypt_result_, decrypt_result_, encrypted, kept, rsaFault>>

\* A piece encrypts at most rsa_len bytes.
PieceTexts == {p \in Plain : Len(p) <= rsa_len}
Texts == UNION {[1..n -> PieceTexts] : n \in 1..MaxPieces}
RsaNext ==
  \/ \E k \in Keys : SetKeyPath(k) \/ RemoveKey(k) \/ NoFile(k)
  \/ \E p \in Plain : encryptContent(p)
  \/ \E p \in PieceTexts : decryptShort(p)
  \/ \E in \in Texts : decryptContent(in)
  \/ getPublicKeyFromCertificate
RsaSpec == RsaInit /\ [][RsaNext]_rsa

-----------------------------------------------------------------------------
(* Properties.                                                             *)

Decrypted == rsaLast.op = "decrypt" /\ rsaLast.ret = 0

\* "Support piecewise decryption" (atp_rsa_crypto.hpp:160): from the length of the base64
\* form alone the number of pieces comes out right, for every key size and text.
EveryPiece == \A n \in 1..MaxPieces : Pieces(n) = n

\* s is what the text p becomes in a buffer of this room: all of p when it has no zero
\* byte and does not fill the buffer, what precedes a zero byte when it has one.
Survives(p, s, room) ==
  /\ ZeroBytes(p) = {} => Len(s) >= Len(p) /\ SubSeq(s, 1, Len(p)) = p /\ (Len(p) < room => s = p)
  /\ ZeroBytes(p) # {} => Len(s) < Len(p) /\ ZeroBytes(s) = {} /\ p[Len(s) + 1] = 0
                      /\ SubSeq(p, 1, Len(s)) = s

\* After a successful piecewise decryption the result is that of earlier calls, which is
\* never cleared, followed by one string per piece: the whole text of the piece, except
\* that a zero byte cuts it and that a text filling the buffer is not ended.
ResultIsAppended ==
  Decrypted =>
    /\ Len(decrypt_result_) = Len(kept) + Len(rsaLast.in)
    /\ SubSeq(decrypt_result_, 1, Len(kept)) = kept
    /\ \A i \in 1..Len(rsaLast.in) : Survives(rsaLast.in[i], decrypt_result_[Len(kept) + i], BuffLen)

\* No call overruns a buffer for a key of at most BuffLen bytes, the 2048 bits the class
\* comment speaks of (atp_rsa_crypto.hpp:70).
OverrunNeedsLongKey == rsaFault = "overrun" => rsa_len > BuffLen

\* A descriptor stays open for every call of encryptContent that read its key, and for no
\* other call.
OnlyEncryptLeaks == fds = encrypted

\* A NULL file is used only for a key whose file is not there, or after as many such
\* calls as the process has descriptors.
CrashNeedsExhaustion == rsaFault \in Keys => encrypted = MaxFds \/ rsaFault \notin paths

\* RSA: the pieces are counted right and appended to the result up to a zero byte, only a
\* long key overruns a buffer, only encryptContent leaves files open, and a NULL file is
\* used only for a missing key or when they are exhausted.
RsaIsSound ==
  EveryPiece /\ ResultIsAppended /\ OverrunNeedsLongKey /\ OnlyEncryptLeaks /\ CrashNeedsExhaustion
=============================================================================
