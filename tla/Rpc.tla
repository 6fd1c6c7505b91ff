--------------------------------- MODULE Rpc ---------------------------------
(***************************************************************************)
(* RpcServer and RpcChannel (src/app/atp_rpc_server.cpp,                   *)
(* atp_rpc_channel.cpp) on one connection.  Requests are protobuf messages *)
(* without framing: a message is two fragments on the wire, its head (type *)
(* and id) and its body (service, method, request), and a read brings any  *)
(* number of them.  protobuf (external) merges what one read brought, the  *)
(* last value of a field winning.                                          *)
(***************************************************************************)
EXTENDS Integers, Sequences, FiniteSets

CONSTANTS
  Requests,    \* requests the client sends: [id, service, method, good]
  Services,    \* services to register: [name, impl]
  Methods,     \* methods of every service; "later" answers after it returned
  ConsumeMax   \* the fragments consume(65535) takes at most

\* Ids are the clients' choice; to tell its answers apart a client gives each request its own.
ASSUME RpcAssumption == ConsumeMax \in Nat /\ \A r, s \in Requests : r.id = s.id => r = s

VARIABLES
  framed,         \* every read happens to bring exactly one message
  services_map_,  \* name -> implementation
  started,        \* RpcServer::start was called
  unsent,         \* requests the client has still to send
  wire,           \* fragments between client and server
  buff,           \* fragments in the connection's buffer
  late,           \* closures the services still hold
  answers,        \* responses given to Connection::send
  seen,           \* history: ids whose fragments were all read by whole messages
  ragged,         \* history: a read ended inside a message or held more than one
  fault           \* a closure ran on a deleted channel

rpc == <<framed, services_map_, started, unsent, wire, buff, late, answers, seen, ragged, fault>>

RpcInit ==
  /\ framed \in BOOLEAN
  /\ services_map_ = [n \in {} |-> 0] /\ started = FALSE
  /\ unsent = Requests /\ wire = <<>> /\ buff = <<>>
  /\ late = {} /\ answers = {} /\ seen = {} /\ ragged = FALSE /\ fault = FALSE

-----------------------------------------------------------------------------

\* insert: a second service of a name is reported and ignored.  Before or after start.
registerService(s) ==
  /\ services_map_' = [n \in DOMAIN services_map_ \cup {s.name} |->
                         IF n \in DOMAIN services_map_ THEN services_map_[n] ELSE s.impl]
  /\ UNCHANGED <<started, unsent, wire, buff, late, answers, seen, ragged, fault>>

start ==
  /\ ~started /\ started' = TRUE
  /\ UNCHANGED <<services_map_, unsent, wire, buff, late, answers, seen, ragged, fault>>

\* The client (atp_rpc_client.cpp) serialises a request and sends it.
SendRequest(r) ==
  /\ started /\ r \in unsent
  /\ unsent' = unsent \ {r} /\ wire' = wire \o <<[head |-> TRUE, r |-> r], [head |-> FALSE, r |-> r]>>
  /\ UNCHANGED <<services_map_, started, buff, late, answers, seen, ragged, fault>>

\* ParseFromArray on what was consumed: the last head and the last body count.
LastOf(frags, head) ==
  LET at == {i \in DOMAIN frags : frags[i].head = head} IN
  IF at = {} THEN {} ELSE {frags[CHOOSE i \in at : \A j \in at : j <= i].r}
Whole(frags) == Len(frags) = 2 /\ frags[1].head /\ frags[2].r = frags[1].r

Response(i, impl, b) == [id |-> i, impl |-> impl, of |-> b]

\* doneCallback: the response with the channel's id_ goes to the connection.
doneCallback_WrongId(i, impl, b) == answers' = answers \cup {Response(0, impl, b)}
doneCallback(i, impl, b) == answers' = answers \cup {Response(i, impl, b)}

\* onRpcRequest: head h, body b; a refusal sends nothing.
Dispatched(b) == b.service \in DOMAIN services_map_ /\ b.method \in Methods /\ b.good
onRpcRequest(h, b) ==
  IF ~Dispatched(b) THEN UNCHANGED <<late, answers>>
  ELSE IF b.method = "later"
       THEN late' = late \cup {Response(h.id, services_map_[b.service], b)} /\ UNCHANGED answers
       ELSE doneCallback(h.id, services_map_[b.service], b) /\ UNCHANGED late

\* onMessage, onRpcMessage: without a head the type is UNKNOW, without a body
\* no service is found.
onRpcMessage(frags) ==
  LET h == LastOf(frags, TRUE)  b == LastOf(frags, FALSE) IN
  IF h = {} \/ b = {} THEN UNCHANGED <<late, answers>>
  ELSE \E x \in h, y \in b : onRpcRequest(x, y)

Read(k) == \* one readable event of the connection with k fragments
  /\ k \in 1..Len(wire) /\ (framed => k = 2)
  /\ wire' = SubSeq(wire, k + 1, Len(wire))

\* RpcServer::onMessage: a new channel for the event, deleted when it returns.
onMessage(k) ==
  LET in == buff \o SubSeq(wire, 1, k)
      n == IF Len(in) < ConsumeMax THEN Len(in) ELSE ConsumeMax
      frags == SubSeq(in, 1, n) IN
  /\ Read(k)
  /\ buff' = SubSeq(in, n + 1, Len(in))
  /\ onRpcMessage(frags)
  /\ ragged' = (ragged \/ ~Whole(frags))
  /\ seen' = IF Whole(frags) THEN seen \cup {frags[1].r.id} ELSE seen
  /\ UNCHANGED <<services_map_, started, unsent, fault>>

\* The service runs a closure it kept: the channel it names is gone.
LateDone(x) ==
  /\ x \in late /\ ~fault
  /\ fault' = TRUE /\ late' = late \ {x}
  /\ UNCHANGED <<services_map_, started, unsent, wire, buff, answers, seen, ragged>>

RpcNext ==
  /\ UNCHANGED framed
  /\ \/ start
     \/ \E s \in Services : registerService(s)
     \/ \E r \in Requests : SendRequest(r)
     \/ \E k \in 1..2 * Cardinality(Requests) : onMessage(k)
     \/ \E x \in late : LateDone(x)

RpcSpec == RpcInit /\ [][RpcNext]_rpc

\* The client sends its requests, and the loop reads what has arrived.
RpcWorks(A) == UNCHANGED framed /\ A
Client == start \/ \E r \in Requests : SendRequest(r)
Fairness == WF_rpc(RpcWorks(Client)) /\ WF_rpc(RpcWorks(onMessage(2)))
FairSpec == RpcSpec /\ Fairness

-----------------------------------------------------------------------------
(* Properties.                                                             *)

\* As long as every read brought one whole message, a response carries the id of the
\* request it answers, and a request gets at most one.
AnswerMatches ==
  ~ragged => /\ \A a \in answers : a.of.id = a.id /\ a.id \in seen
             /\ \A a, b \in answers : a.id = b.id => a = b

\* Only a registered service and a known method with a well-formed request is called,
\* even for a message merged from the fragments of several.
CalledIsKnown ==
  \A a \in answers \cup late :
    /\ a.of.service \in DOMAIN services_map_ /\ services_map_[a.of.service] = a.impl
    /\ a.of.method \in Methods /\ a.of.good

\* The service registered first under a name stays the one that is called.
FirstRegistrationWins ==
  [][\A n \in DOMAIN services_map_ : n \in DOMAIN services_map_' /\ services_map_'[n] = services_map_[n]]_rpc

\* A channel is used after it was deleted only by a service that answers late.
FaultNeedsLate == fault => \E r \in Requests : r.method = "later" /\ r \notin unsent

\* A request for a method that is known when it is sent is answered, when each read
\* brings one message.
Answered ==
  \A r \in Requests :
    (framed /\ started /\ r \in unsent /\ Dispatched(r) /\ r.method # "later") ~> (\E a \in answers : a.id = r.id /\ a.of = r)

\* RPC: whole messages are answered, each by the response to it, from the service that was
\* registered first; a deleted channel is used only by a service that answers late.
RpcAnswers ==
  /\ Answered /\ FirstRegistrationWins
  /\ [](AnswerMatches /\ CalledIsKnown /\ FaultNeedsLate)
=============================================================================
