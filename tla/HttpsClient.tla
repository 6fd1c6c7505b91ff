----------------------------- MODULE HttpsClient -----------------------------
(***************************************************************************)
(* HttpsClient (src/app/atp_event_https.cpp): launchRequest as the steps   *)
(* between which another thread using the same client can run.  Sessions   *)
(* are numbered; s1_ is the one member every call goes through.  libevent  *)
(* and OpenSSL are external: any call may fail.                            *)
(***************************************************************************)
EXTENDS Integers

CONSTANTS
  Users,   \* threads that use the client, one after the other or at once
  MaxCalls   \* bound: calls of launchRequest

ASSUME CallsAssumption == MaxCalls \in Nat

Ids == 1..MaxCalls
VARIABLES
  s1_,      \* the member: a session, 0 before the first
  sess,     \* session -> its state
  pc, me,   \* thread -> the step it is at, the session of its call
  calls,    \* sessions made so far
  result,   \* history: session -> what its call returned and what it was answered
  leaked,   \* history: what calls that returned did not free
  overlap,  \* history: a call began while another thread was in one
  crash     \* why the program went down, or ""
web == <<s1_, sess, pc, me, calls, result, leaked, overlap, crash>>

NoSess == [live |-> FALSE, base |-> FALSE, ctx |-> FALSE, conn |-> FALSE, status |-> 0, response |-> 0]
HttpsInit ==
  /\ s1_ = 0 /\ sess = [i \in Ids |-> NoSess] /\ pc = [t \in Users |-> "idle"] /\ me = [t \in Users |-> 0]
  /\ calls = 0 /\ result = [i \in Ids |-> [answer |-> 0, got |-> 0, ended |-> FALSE]] /\ leaked = {} /\ overlap = FALSE /\ crash = ""

At(t, step) == crash = "" /\ pc[t] = step
Go(t, step) == pc' = [pc EXCEPT ![t] = step]
\* s1_-> : the session must still exist.
Alive == s1_ # 0 /\ sess[s1_].live
Down(why) == crash' = why /\ UNCHANGED <<s1_, sess, pc, me, calls, result, leaked, overlap>>

-----------------------------------------------------------------------------
\* The URI does not parse, or has no path; without a host std::string(NULL) throws.
BadUri(t) ==
  /\ At(t, "idle") /\ \E parsed \in BOOLEAN : leaked' = leaked \cup (IF parsed THEN {"uri"} ELSE {})
  /\ UNCHANGED <<s1_, sess, pc, me, calls, result, overlap, crash>>
NoHost(t) == At(t, "idle") /\ Down("host")

\* A new session, with no value given to status; the parsed URI is never freed.
NewSession(t) ==
  /\ At(t, "idle") /\ calls < MaxCalls
  /\ calls' = calls + 1 /\ s1_' = calls + 1 /\ me' = [me EXCEPT ![t] = calls + 1]
  /\ \E unset \in {0, 200} : sess' = [sess EXCEPT ![calls + 1].live = TRUE, ![calls + 1].status = unset]
  /\ leaked' = leaked \cup {"uri"} /\ Go(t, "ssl")
  /\ overlap' = (overlap \/ \E u \in Users \ {t} : pc[u] # "idle")
  /\ UNCHANGED <<result, crash>>

Return(t, got) ==
  /\ result' = [result EXCEPT ![me[t]].got = got, ![me[t]].ended = TRUE]
  /\ me' = [me EXCEPT ![t] = 0] /\ Go(t, "idle")

SslContext(t) ==
  /\ At(t, "ssl")
  /\ \/ ~Alive /\ Down("freed")
     \/ /\ Alive /\ sess' = [sess EXCEPT ![s1_].base = TRUE, ![s1_].ctx = TRUE] /\ Go(t, "post")
        /\ UNCHANGED <<s1_, me, calls, result, leaked, overlap, crash>>
     \/ /\ Alive /\ sess' = [sess EXCEPT ![s1_] = NoSess] /\ Return(t, 0)
        /\ UNCHANGED <<s1_, calls, leaked, overlap, crash>>

\* Without a bufferevent there is no connection.  A request that evhttp_make_request
\* refuses has no callback: the loop has nothing to run.
doPostRequest(t) ==
  /\ At(t, "post")
  /\ \/ ~Alive /\ Down("freed")
     \/ /\ Alive /\ sess' = [sess EXCEPT ![s1_].conn = TRUE] /\ Go(t, "loop")
        /\ UNCHANGED <<s1_, me, calls, result, leaked, overlap, crash>>
     \/ /\ Alive /\ sess' = [sess EXCEPT ![s1_].conn = TRUE] /\ Go(t, "end")
        /\ UNCHANGED <<s1_, me, calls, result, leaked, overlap, crash>>
     \/ /\ Alive /\ Go(t, "end") /\ UNCHANGED <<s1_, sess, me, calls, result, leaked, overlap, crash>>

\* event_base_loop runs requestFinished, for an answer, an error status or no answer;
\* i is the answer to session i as std::string(payload) has it, up to a zero byte.
requestFinished(t) ==
  /\ At(t, "loop")
  /\ \/ ~Alive /\ Down("freed")
     \/ /\ Alive
        /\ \E status \in {200, 500, 0} :
             /\ sess' = [sess EXCEPT ![s1_].status = status, ![s1_].response = IF status = 0 THEN @ ELSE me[t]]
             /\ result' = [result EXCEPT ![me[t]].answer = IF status = 200 THEN me[t] ELSE 0]
        /\ Go(t, "end") /\ UNCHANGED <<s1_, me, calls, leaked, overlap, crash>>

Finish_KeepsConn(t) ==
  /\ At(t, "end") /\ Alive /\ Return(t, IF sess[s1_].status = 200 THEN sess[s1_].response ELSE 0)
  /\ sess' = [sess EXCEPT ![s1_] = NoSess] /\ leaked' = leaked \cup (IF sess[s1_].conn THEN {"conn"} ELSE {})
  /\ UNCHANGED <<s1_, calls, overlap, crash>>
\* Everything of the session is freed; a missing connection is not tested for.
Finish(t) ==
  /\ At(t, "end")
  /\ \/ ~Alive /\ Down("freed")
     \/ Alive /\ ~sess[s1_].conn /\ Down("connection")
     \/ /\ Alive /\ sess[s1_].conn
        /\ Return(t, IF sess[s1_].status = 200 THEN sess[s1_].response ELSE 0)
        /\ sess' = [sess EXCEPT ![s1_] = NoSess]
        /\ UNCHANGED <<s1_, calls, leaked, overlap, crash>>

HttpsNext ==
  \E t \in Users :
    \/ BadUri(t) \/ NoHost(t) \/ NewSession(t) \/ SslContext(t)
    \/ doPostRequest(t) \/ requestFinished(t) \/ Finish(t)
HttpsSpec == HttpsInit /\ [][HttpsNext]_web

-----------------------------------------------------------------------------
(* Properties.                                                             *)

\* A call gives the response to its own request, exactly when the status was 200, as
\* long as no two calls on the client overlapped: what earlier calls left behind in
\* the client, whichever thread made them, does not matter.
ResultIsOwn == ~overlap => \A i \in Ids : result[i].ended => result[i].got = result[i].answer

\* Between calls that did not overlap nothing of the sessions is left but the parsed
\* URIs, which no path frees.
OnlyUriLeaks ==
  ~overlap /\ crash = "" /\ (\A t \in Users : pc[t] = "idle") =>
    leaked \subseteq {"uri"} /\ \A i \in Ids : ~sess[i].live

\* A deleted session is used only after calls overlapped; otherwise the client goes down
\* only for a URI without a host or a bufferevent that could not be made.
CrashNeedsOverlap == crash = "freed" => overlap

\* HTTPS: a call gives the response to its own request and leaves nothing but the parsed
\* URI; a deleted session is used only after calls overlapped.
SessionIsOwn == ResultIsOwn /\ OnlyUriLeaks /\ CrashNeedsOverlap
=============================================================================
