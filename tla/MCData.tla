-------------------------------- MODULE MCData --------------------------------
(***************************************************************************)
(* The data structures for TLC: the byte buffer, the memory pools, the     *)
(* class any, Base64 and RSACrypto.  They share no state; a behaviour      *)
(* picks one of them in its initial state and is a behaviour of that one.  *)
(* Their properties are stated in their modules.                           *)
(***************************************************************************)
EXTENDS ByteBuffer, MemoryPool, Any, Base64, RsaCrypto

VARIABLE part   \* the structure this behaviour is about

\* Two size classes of pools.
MCSizeArray == <<6, 8>>
\* Two numbers of one type and one of another.
MCValues == {<<"int", 1>>, <<"int", 2>>, <<"string", 1>>}

\* A short text, one with a zero byte, and texts as long as each buffer and key.
MCPlain == {<<1>>, <<1, 0, 1>>} \cup {[i \in 1..n |-> 1] : n \in 5..7}

\* A part that the behaviour is not about takes one of its initial states only.
MCInit ==
  /\ part \in {"buffer", "pool", "any", "base64", "rsa"}
  /\ Init /\ PoolsInit /\ AnyInit
  /\ IF part = "base64" THEN Base64Init
     ELSE msg = <<>> /\ src = <<65>> /\ index = 0 /\ carry = 0 /\ out = <<>> /\ done = FALSE
  /\ RsaInit /\ (part # "rsa" => paths = {} /\ \A len \in RsaLens : rsa_len <= len)

MCNext ==
  \/ part = "buffer" /\ Next       /\ UNCHANGED <<part, mem, dyn, b64, rsa>>
  \/ part = "pool"   /\ PoolsNext  /\ UNCHANGED <<part, vars, dyn, b64, rsa>>
  \/ part = "any"    /\ AnyNext    /\ UNCHANGED <<part, vars, mem, b64, rsa>>
  \/ part = "base64" /\ Base64Next /\ UNCHANGED <<part, vars, mem, dyn, rsa>>
  \/ part = "rsa"    /\ RsaNext    /\ UNCHANGED <<part, vars, mem, dyn, b64>>

MCSpec ==
  /\ MCInit /\ [][MCNext]_<<part, vars, mem, dyn, b64, rsa>>
  /\ WF_b64(part = "base64" /\ Base64Next)

\* Base64: the decoder returns, unless it meets a character outside the alphabet.
Returns == part = "base64" => DecoderReturns
=============================================================================
