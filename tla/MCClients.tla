------------------------------- MODULE MCClients -------------------------------
(***************************************************************************)
(* The clients and protocols for TLC: the Redis functions, the RPC server, *)
(* the sockets, the curl engine and the HTTPS client.  They share no       *)
(* state; a behaviour picks one of them in its initial state and is a      *)
(* behaviour of that one.  Their properties are stated in their modules.   *)
(***************************************************************************)
EXTENDS RedisDao, Rpc, Socket, CurlEngine, HttpsClient

VARIABLE part   \* the module this behaviour is about

\* Two services that claim one name; requests that are answered at once or late, for an
\* unknown method, and malformed.
MCServices == {[name |-> "echo", impl |-> 1], [name |-> "echo", impl |-> 2]}
Req(i, m, g) == [id |-> i, service |-> "echo", method |-> m, good |-> g]
MCRequests == {Req(1, "sync", TRUE), Req(2, "later", TRUE), Req(3, "none", TRUE), Req(4, "sync", FALSE)}

\* A part that the behaviour is not about takes one of its initial states only.
MCInit ==
  /\ part \in {"redis", "rpc", "socket", "curl", "https"}
  /\ RedisInit /\ RpcInit /\ SocketInit /\ CurlInit /\ HttpsInit
  /\ part # "rpc" => framed
  /\ part # "socket" => client = "socket" /\ fd_ = -1
  /\ part # "curl" => callers = "sole"

MCNext ==
  \/ part = "redis"  /\ RedisNext  /\ UNCHANGED <<part, rpc, soc, crl, web>>
  \/ part = "rpc"    /\ RpcNext    /\ UNCHANGED <<part, red, soc, crl, web>>
  \/ part = "socket" /\ SocketNext /\ UNCHANGED <<part, red, rpc, crl, web>>
  \/ part = "curl"   /\ CurlNext   /\ UNCHANGED <<part, red, rpc, soc, web>>
  \/ part = "https"  /\ HttpsNext  /\ UNCHANGED <<part, red, rpc, soc, crl>>

MCSpec ==
  /\ MCInit /\ [][MCNext]_<<part, red, rpc, soc, crl, web>>
  /\ WF_rpc(part = "rpc" /\ RpcWorks(Client))
  /\ WF_rpc(part = "rpc" /\ RpcWorks(onMessage(2)))
=============================================================================
