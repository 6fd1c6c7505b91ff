---------------------------- MODULE ClientProofs -----------------------------
(***************************************************************************)
(* Proofs about the clients: the HTTPS client, the curl engine, sockets    *)
(* with the send helper, and the RPC server.                               *)
(***************************************************************************)
EXTENDS HttpsClient, CurlEngine, Socket, Rpc, WellFoundedInduction, TLAPS

-----------------------------------------------------------------------------
(* HttpsClient.                                                            *)

Sessions == [live : BOOLEAN, base : BOOLEAN, ctx : BOOLEAN, conn : BOOLEAN, status : Int, response : Nat]
Results == [answer : Nat, got : Nat, ended : BOOLEAN]
Steps == {"idle", "ssl", "post", "loop", "end"}
HttpsType ==
  /\ calls \in Nat /\ calls <= MaxCalls /\ s1_ \in Nat /\ s1_ <= calls
  /\ sess \in [Ids -> Sessions] /\ pc \in [Users -> Steps] /\ me \in [Users -> Nat] /\ result \in [Ids -> Results]

\* One thread at most is in a call, and the one session there is, is that of its call.
OneCall ==
  /\ \A u, v \in Users : pc[u] # "idle" /\ pc[v] # "idle" => u = v
  /\ \A u \in Users : pc[u] # "idle" => me[u] = s1_ /\ s1_ \in Ids /\ sess[s1_].live /\ ~result[s1_].ended
  /\ \A i \in Ids : sess[i].live => i = s1_ /\ \E u \in Users : pc[u] # "idle"

\* What the session of the call knows of the answer at a step.
Known(step, s, r) ==
  IF step = "end" THEN r.answer = (IF s.status = 200 THEN s.response ELSE 0)
  ELSE r.answer = 0 /\ s.response = 0
Progress == \A u \in Users : pc[u] # "idle" => Known(pc[u], sess[s1_], result[s1_])

Unused == \A i \in Ids : i > calls => sess[i] = NoSess /\ result[i] = [answer |-> 0, got |-> 0, ended |-> FALSE]
Ended == \A i \in Ids : result[i].ended => result[i].got = result[i].answer

Alone == HttpsType /\ OneCall /\ Progress /\ Unused /\ Ended
HttpsInv == (~overlap => Alone) /\ leaked \subseteq {"uri"} /\ CrashNeedsOverlap

\* A session of the call that goes on, and one of it that ends.
Updated(f, i, x, f2) == f2 = [f EXCEPT ![i] = x]

LEMMA GoesOn ==
  ASSUME Alone, NEW t \in Users, pc[t] # "idle", NEW step \in Steps \ {"idle"},
         pc' = [pc EXCEPT ![t] = step], s1_' = s1_, me' = me, calls' = calls,
         NEW s \in Sessions, s.live, Updated(sess, s1_, s, sess'),
         NEW r \in Results, ~r.ended, Updated(result, s1_, r, result'), Known(step, s, r)
  PROVE  Alone'
<1>1. /\ HttpsType /\ s1_ \in Ids /\ s1_ <= calls /\ me[t] = s1_
      /\ \A u \in Users : pc[u] # "idle" => u = t
  BY Zenon DEF Alone, OneCall, HttpsType
<1>2. /\ sess' \in [Ids -> Sessions] /\ sess'[s1_] = s /\ \A i \in Ids : i # s1_ => sess'[i] = sess[i]
  BY Zenon, <1>1 DEF Updated, HttpsType
<1>3. /\ result' \in [Ids -> Results] /\ result'[s1_] = r /\ \A i \in Ids : i # s1_ => result'[i] = result[i]
  BY Zenon, <1>1 DEF Updated, HttpsType
<1>4. /\ pc' \in [Users -> Steps] /\ pc'[t] = step /\ \A u \in Users : u # t => pc'[u] = "idle"
  BY Zenon, <1>1 DEF HttpsType
<1>5. step # "idle"
  BY Zenon
<1>6. HttpsType'
  BY Zenon, <1>1, <1>2, <1>3, <1>4 DEF HttpsType
<1>7. OneCall'
  BY Zenon, <1>1, <1>2, <1>3, <1>4, <1>5 DEF OneCall, Alone
<1>8. Progress'
  BY Zenon, <1>2, <1>3, <1>4 DEF Progress
<1>9. Unused'
  <2>1. \A i \in Ids : i > calls => i # s1_
    BY <1>1 DEF HttpsType, Ids
  <2> QED
    BY Zenon, <1>2, <1>3, <2>1 DEF Unused, Alone
<1>10. Ended'
  BY Zenon, <1>3 DEF Ended, Alone
<1> QED
  BY Zenon, <1>6, <1>7, <1>8, <1>9, <1>10 DEF Alone

LEMMA CallEnds ==
  ASSUME Alone, NEW t \in Users, pc[t] # "idle",
         pc' = [pc EXCEPT ![t] = "idle"], s1_' = s1_, calls' = calls, me' = [me EXCEPT ![t] = 0],
         Updated(sess, s1_, NoSess, sess'),
         NEW r \in Results, r.got = r.answer, Updated(result, s1_, r, result')
  PROVE  Alone'
<1>1. /\ HttpsType /\ s1_ \in Ids /\ s1_ <= calls
      /\ \A u \in Users : pc[u] # "idle" => u = t
      /\ \A i \in Ids : sess[i].live => i = s1_
  BY Zenon DEF Alone, OneCall, HttpsType
<1>2. NoSess \in Sessions /\ ~NoSess.live
  BY DEF NoSess, Sessions
<1>3. /\ sess' \in [Ids -> Sessions] /\ sess'[s1_] = NoSess /\ \A i \in Ids : i # s1_ => sess'[i] = sess[i]
  BY Zenon, <1>1, <1>2 DEF Updated, HttpsType
<1>4. /\ result' \in [Ids -> Results] /\ result'[s1_] = r /\ \A i \in Ids : i # s1_ => result'[i] = result[i]
  BY Zenon, <1>1 DEF Updated, HttpsType
<1>5. /\ pc' \in [Users -> Steps] /\ \A u \in Users : pc'[u] = "idle"
  BY Zenon, <1>1 DEF HttpsType, Steps
<1>6. me' \in [Users -> Nat]
  <2>1. 0 \in Nat
    OBVIOUS
  <2> QED
    BY Zenon, <1>1, <2>1 DEF HttpsType
<1>7. HttpsType'
  BY Zenon, <1>1, <1>3, <1>4, <1>5, <1>6 DEF HttpsType
<1>8. OneCall'
  BY Zenon, <1>1, <1>2, <1>3, <1>5 DEF OneCall
<1>9. Progress'
  BY Zenon, <1>5 DEF Progress
<1>10. Unused'
  <2>1. \A i \in Ids : i > calls => i # s1_
    BY <1>1 DEF HttpsType, Ids
  <2> QED
    BY Zenon, <1>3, <1>4, <2>1 DEF Unused, Alone
<1>11. Ended'
  BY Zenon, <1>4 DEF Ended, Alone
<1> QED
  BY Zenon, <1>7, <1>8, <1>9, <1>10, <1>11 DEF Alone

LEMMA SessionStarts ==
  ASSUME Alone, NEW t \in Users, NewSession(t), ~overlap'
  PROVE  Alone'
<1>1. /\ HttpsType /\ \A u \in Users : pc[u] = "idle"
      /\ s1_' = calls + 1 /\ calls' = calls + 1 /\ calls < MaxCalls /\ result' = result
      /\ pc' = [pc EXCEPT ![t] = "ssl"] /\ me' = [me EXCEPT ![t] = calls + 1]
  BY Zenon DEF Alone, NewSession, At, Go
<1>0. PICK unset \in Int : sess' = [sess EXCEPT ![calls + 1].live = TRUE, ![calls + 1].status = unset]
  <2>1. \E unset \in {0, 200} : sess' = [sess EXCEPT ![calls + 1].live = TRUE, ![calls + 1].status = unset]
    BY Zenon DEF NewSession
  <2>2. \A unset \in {0, 200} : unset \in Int
    OBVIOUS
  <2> QED
    BY ZenonT(40), <2>1, <2>2
<1>2. PICK n : n = calls + 1
  BY Zenon
<1>3. n \in Nat /\ n \in Ids /\ n <= MaxCalls /\ n > calls /\ \A i \in Ids : i > n => i > calls
  BY <1>1, <1>2, CallsAssumption DEF HttpsType, Ids
<1>4. sess[n] = NoSess /\ result[n] = [answer |-> 0, got |-> 0, ended |-> FALSE]
  BY Zenon, <1>3 DEF Alone, Unused
<1>5. PICK s : s = [NoSess EXCEPT !.live = TRUE, !.status = unset]
  BY Zenon
<1>6. s \in Sessions /\ s.live /\ s.response = 0 /\ result[n].answer = 0 /\ ~result[n].ended
  <2>1. s = [live |-> TRUE, base |-> FALSE, ctx |-> FALSE, conn |-> FALSE, status |-> unset, response |-> 0]
    BY Zenon, <1>5 DEF NoSess
  <2>2. s \in Sessions /\ s.live /\ s.response = 0
    BY <1>0, <2>1 DEF Sessions
  <2>3. result[n].answer = 0
    BY <1>4
  <2>4. ~result[n].ended
    <3>1. [answer |-> 0, got |-> 0, ended |-> FALSE].ended = FALSE
      OBVIOUS
    <3> QED
      BY Zenon, <1>4, <3>1
  <2> QED
    BY Zenon, <2>2, <2>3, <2>4
<1>7. sess' \in [Ids -> Sessions] /\ sess'[n] = s /\ \A i \in Ids : i # n => sess'[i] = sess[i]
  <2>1. sess' = [sess EXCEPT ![n].live = TRUE, ![n].status = unset] /\ sess \in [Ids -> Sessions]
    BY Zenon, <1>0, <1>1, <1>2 DEF HttpsType
  <2>2. DOMAIN sess' = Ids /\ (\A i \in Ids : i # n => sess'[i] = sess[i]) /\ sess'[n] = [sess[n] EXCEPT !.live = TRUE, !.status = unset]
    BY <1>3, <2>1
  <2>3. sess' = [i \in Ids |-> sess'[i]]
    BY Zenon, <2>1
  <2>4. sess'[n] = s
    BY Zenon, <1>4, <1>5, <2>2
  <2>5. \A i \in Ids : sess'[i] \in Sessions
    BY Zenon, <1>6, <2>1, <2>2, <2>4
  <2> QED
    BY Zenon, <2>2, <2>3, <2>4, <2>5
<1>8. /\ pc' \in [Users -> Steps] /\ pc'[t] = "ssl" /\ \A u \in Users : u # t => pc'[u] = "idle"
      /\ me' \in [Users -> Nat] /\ me'[t] = n
  BY Zenon, <1>1, <1>2, <1>3 DEF HttpsType, Steps
<1>9. HttpsType'
  <2>1. n <= n
    BY <1>3
  <2> QED
    BY Zenon, <1>1, <1>2, <1>3, <1>7, <1>8, <2>1 DEF HttpsType
<1>10. OneCall'
  <2>1. \A i \in Ids : ~sess[i].live
    BY Zenon, <1>1 DEF Alone, OneCall
  <2>2. "ssl" # "idle"
    OBVIOUS
  <2>3. \A u \in Users : pc'[u] # "idle" => u = t
    BY Zenon, <1>8
  <2>4. \A i \in Ids : sess'[i].live => i = n
    BY Zenon, <1>7, <2>1
  <2>5. s1_' = n /\ ~result'[n].ended /\ sess'[n].live
    BY Zenon, <1>1, <1>2, <1>6, <1>7
  <2> QED
    BY Zenon, <1>3, <1>8, <2>2, <2>3, <2>4, <2>5 DEF OneCall
<1>11. Progress'
  <2>1. "ssl" # "end"
    OBVIOUS
  <2>2. s1_' = n /\ result'[n].answer = 0 /\ sess'[n].response = 0
    BY Zenon, <1>1, <1>2, <1>6, <1>7
  <2>3. Known("ssl", sess'[n], result'[n])
    BY Zenon, <2>1, <2>2 DEF Known
  <2>4. \A u \in Users : pc'[u] # "idle" => pc'[u] = "ssl"
    BY Zenon, <1>8
  <2> QED
    BY Zenon, <2>2, <2>3, <2>4 DEF Progress
<1>12. Unused'
  <2>1. \A i \in Ids : i > n => i # n
    BY <1>3
  <2> QED
    BY Zenon, <1>1, <1>2, <1>3, <1>7, <2>1 DEF Alone, Unused
<1>13. Ended'
  BY Zenon, <1>1 DEF Alone, Ended
<1> QED
  BY Zenon, <1>9, <1>10, <1>11, <1>12, <1>13 DEF Alone

\* The thread that is in a call finds its session.
InCall(t) == HttpsType /\ me[t] = s1_ /\ s1_ \in Ids /\ Alive /\ ~result[s1_].ended /\ Known(pc[t], sess[s1_], result[s1_])

LEMMA CallHasSession ==
  ASSUME Alone, NEW t \in Users, pc[t] # "idle"
  PROVE  InCall(t)
<1>1. me[t] = s1_ /\ s1_ \in Ids /\ sess[s1_].live /\ ~result[s1_].ended
  BY Zenon DEF Alone, OneCall
<1>2. s1_ # 0
  BY <1>1 DEF Ids
<1> QED
  BY Zenon, <1>1, <1>2 DEF InCall, Alone, Progress, Alive

\* launchRequest returns what the session knows.
LEMMA CallReturns ==
  ASSUME Alone, NEW t \in Users, pc[t] # "idle", InCall(t), NEW got, got = result[s1_].answer, Return(t, got),
         sess' = [sess EXCEPT ![s1_] = NoSess], UNCHANGED <<s1_, calls>>
  PROVE  Alone'
<1>1. HttpsType /\ me[t] = s1_ /\ s1_ \in Ids /\ result[s1_] \in Results
  BY Zenon DEF InCall, HttpsType
<1>2. PICK r : r = [result[s1_] EXCEPT !.got = got, !.ended = TRUE]
  BY Zenon
<1>3. r \in Results /\ r.got = r.answer
  BY Zenon, <1>1, <1>2 DEF Results
<1>4. Updated(result, s1_, r, result') /\ Updated(sess, s1_, NoSess, sess')
  BY Zenon, <1>1, <1>2 DEF Return, Updated, HttpsType
<1>5. pc' = [pc EXCEPT ![t] = "idle"] /\ me' = [me EXCEPT ![t] = 0]
  BY Zenon DEF Return, Go
<1> QED
  BY Zenon, <1>3, <1>4, <1>5, CallEnds

\* A step of a call that goes on, returns or goes down.
LEMMA HttpsStep ==
  ASSUME HttpsInv, NEW t \in Users, SslContext(t) \/ doPostRequest(t) \/ requestFinished(t) \/ Finish(t)
  PROVE  HttpsInv'
<1>1. CASE overlap
  <2>1. overlap' = overlap /\ leaked' = leaked
    BY Zenon DEF SslContext, doPostRequest, requestFinished, Finish, Down
  <2> QED
    BY Zenon, <1>1, <2>1 DEF HttpsInv, CrashNeedsOverlap
<1>2. CASE ~overlap
  <2>0. Alone /\ leaked \subseteq {"uri"}
    BY Zenon, <1>2 DEF HttpsInv
  <2>1. pc[t] # "idle"
    BY DEF SslContext, doPostRequest, requestFinished, Finish, At
  <2>2. InCall(t)
    BY Zenon, <2>0, <2>1, CallHasSession
  <2>3. HttpsType /\ me[t] = s1_ /\ s1_ \in Ids /\ Alive /\ ~result[s1_].ended /\ Known(pc[t], sess[s1_], result[s1_])
    BY Zenon, <2>2 DEF InCall
  <2>4. sess[s1_] \in Sessions /\ result[s1_] \in Results /\ sess[s1_].live
    BY Zenon, <2>3 DEF HttpsType, Alive
  <2>5. overlap' = overlap /\ leaked' = leaked
    BY Zenon DEF SslContext, doPostRequest, requestFinished, Finish, Down
  <2>6. crash' # "freed"
    <3>1. crash # "freed" /\ "connection" # "freed"
      BY DEF SslContext, doPostRequest, requestFinished, Finish, At
    <3> QED
      BY Zenon, <2>3, <3>1 DEF SslContext, doPostRequest, requestFinished, Finish, Down
  <2>7. ASSUME Alone' PROVE HttpsInv'
    BY Zenon, <2>0, <2>5, <2>6, <2>7 DEF HttpsInv, CrashNeedsOverlap
  <2>8. Updated(result, s1_, result[s1_], result) /\ Updated(sess, s1_, sess[s1_], sess)
    BY Zenon, <2>3 DEF Updated, HttpsType
  <2>9. ASSUME NEW why, Down(why) PROVE Alone'
    BY Zenon, <2>0, <2>9 DEF Down, Alone, HttpsType, OneCall, Progress, Unused, Ended
  <2>10. CASE SslContext(t)
    <3>1. CASE /\ sess' = [sess EXCEPT ![s1_].base = TRUE, ![s1_].ctx = TRUE] /\ Go(t, "post")
               /\ UNCHANGED <<s1_, me, calls, result>>
      <4>1. PICK s : s = [sess[s1_] EXCEPT !.base = TRUE, !.ctx = TRUE]
        BY Zenon
      <4>2. s \in Sessions /\ s.live = sess[s1_].live /\ s.response = sess[s1_].response
        BY Zenon, <2>4, <4>1 DEF Sessions
      <4>3. Updated(sess, s1_, s, sess')
        BY Zenon, <2>3, <3>1, <4>1 DEF Updated, HttpsType
      <4>4. pc[t] = "ssl" /\ "ssl" # "end" /\ "post" # "end" /\ "post" \in Steps \ {"idle"}
        BY <2>10 DEF SslContext, At, Steps
      <4>5. Known("post", s, result[s1_])
        BY Zenon, <2>3, <4>2, <4>4 DEF Known
      <4>6. pc' = [pc EXCEPT ![t] = "post"] /\ UNCHANGED <<s1_, me, calls, result>>
        BY Zenon, <3>1 DEF Go
      <4>7. Updated(result, s1_, result[s1_], result')
        BY Zenon, <2>8, <4>6
      <4> QED
        BY Zenon, <2>0, <2>1, <2>3, <2>4, <2>7, <4>2, <4>3, <4>4, <4>5, <4>6, <4>7, GoesOn
    <3>2. CASE sess' = [sess EXCEPT ![s1_] = NoSess] /\ Return(t, 0) /\ UNCHANGED <<s1_, calls>>
      <4>1. result[s1_].answer = 0
        <5>1. pc[t] = "ssl" /\ "ssl" # "end"
          BY <2>10 DEF SslContext, At
        <5> QED
          BY Zenon, <2>3, <5>1 DEF Known
      <4> QED
        BY Zenon, <2>0, <2>1, <2>2, <2>7, <3>2, <4>1, CallReturns
    <3> QED
      BY Zenon, <2>3, <2>7, <2>9, <2>10, <3>1, <3>2 DEF SslContext
  <2>11. CASE doPostRequest(t)
    <3>0. pc[t] = "post" /\ "post" # "end"
      BY <2>11 DEF doPostRequest, At
    <3>1. result[s1_].answer = 0 /\ sess[s1_].response = 0
      BY Zenon, <2>3, <3>0 DEF Known
    <3>2. ASSUME NEW step \in {"loop", "end"},
                 sess' = [sess EXCEPT ![s1_].conn = TRUE] /\ Go(t, step) /\ UNCHANGED <<s1_, me, calls, result>>
          PROVE  HttpsInv'
      <4>1. PICK s : s = [sess[s1_] EXCEPT !.conn = TRUE]
        BY Zenon
      <4>2. s \in Sessions /\ s.live = sess[s1_].live /\ s.response = sess[s1_].response
        BY Zenon, <2>4, <4>1 DEF Sessions
      <4>3. Updated(sess, s1_, s, sess')
        BY Zenon, <2>3, <3>2, <4>1 DEF Updated, HttpsType
      <4>4. step \in Steps \ {"idle"}
        BY DEF Steps
      <4>5. Known(step, s, result[s1_])
        BY Zenon, <3>1, <4>2 DEF Known
      <4>6. pc' = [pc EXCEPT ![t] = step] /\ UNCHANGED <<s1_, me, calls, result>>
        BY Zenon, <3>2 DEF Go
      <4>7. Updated(result, s1_, result[s1_], result')
        BY Zenon, <2>8, <4>6
      <4> QED
        BY Zenon, <2>0, <2>1, <2>3, <2>4, <2>7, <4>2, <4>3, <4>4, <4>5, <4>6, <4>7, GoesOn
    <3>3. CASE Go(t, "end") /\ UNCHANGED <<s1_, sess, me, calls, result>>
      <4>1. Known("end", sess[s1_], result[s1_])
        BY Zenon, <3>1 DEF Known
      <4>2. pc' = [pc EXCEPT ![t] = "end"] /\ UNCHANGED <<s1_, sess, me, calls, result>>
        BY Zenon, <3>3 DEF Go
      <4>3. "end" \in Steps \ {"idle"}
        BY DEF Steps
      <4>4. Updated(result, s1_, result[s1_], result') /\ Updated(sess, s1_, sess[s1_], sess')
        BY Zenon, <2>8, <4>2
      <4> QED
        BY Zenon, <2>0, <2>1, <2>3, <2>4, <2>7, <4>1, <4>2, <4>3, <4>4, GoesOn
    <3> QED
      BY Zenon, <2>3, <2>7, <2>9, <2>11, <3>2, <3>3 DEF doPostRequest
  <2>12. CASE requestFinished(t)
    <3>1. PICK status \in {200, 500, 0} :
            /\ sess' = [sess EXCEPT ![s1_].status = status, ![s1_].response = IF status = 0 THEN @ ELSE me[t]]
            /\ result' = [result EXCEPT ![me[t]].answer = IF status = 200 THEN me[t] ELSE 0]
            /\ Go(t, "end") /\ UNCHANGED <<s1_, me, calls>>
      BY <2>3, <2>12 DEF requestFinished
    <3>2. PICK s : s = [sess[s1_] EXCEPT !.status = status, !.response = IF status = 0 THEN @ ELSE s1_]
      BY Zenon
    <3>3. PICK r : r = [result[s1_] EXCEPT !.answer = IF status = 200 THEN s1_ ELSE 0]
      BY Zenon
    <3>4. s \in Sessions /\ s.status = status /\ (status = 200 => s.response = s1_)
      <4>1. s1_ \in Nat /\ status \in Int /\ (status = 200 => status # 0)
        BY <2>3, <3>1 DEF HttpsType
      <4>2. sess[s1_].response \in Nat
        BY Zenon, <2>4 DEF Sessions
      <4>3. PICK z \in Nat : z = IF status = 0 THEN sess[s1_].response ELSE s1_
        BY <4>1, <4>2
      <4>4. s = [sess[s1_] EXCEPT !.status = status, !.response = z]
        BY Zenon, <3>2, <4>3
      <4> QED
        BY Zenon, <2>4, <4>1, <4>3, <4>4 DEF Sessions
    <3>5. s.live = sess[s1_].live
      BY Zenon, <2>4, <3>2 DEF Sessions
    <3>6. r \in Results /\ r.ended = result[s1_].ended /\ r.answer = IF status = 200 THEN s1_ ELSE 0
      <4>1. s1_ \in Nat /\ 0 \in Nat
        BY <2>3 DEF HttpsType
      <4> QED
        BY Zenon, <2>4, <3>3, <4>1 DEF Results
    <3>7. Updated(sess, s1_, s, sess') /\ Updated(result, s1_, r, result')
      BY Zenon, <2>3, <3>1, <3>2, <3>3 DEF Updated, HttpsType
    <3>8. Known("end", s, r)
      BY Zenon, <3>4, <3>6 DEF Known
    <3>9. pc' = [pc EXCEPT ![t] = "end"] /\ UNCHANGED <<s1_, me, calls>> /\ "end" \in Steps \ {"idle"}
      BY <3>1 DEF Go, Steps
    <3> QED
      BY Zenon, <2>0, <2>1, <2>3, <2>4, <2>7, <3>4, <3>5, <3>6, <3>7, <3>8, <3>9, GoesOn
  <2>13. CASE Finish(t)
    <3>1. ASSUME NEW got, got = (IF sess[s1_].status = 200 THEN sess[s1_].response ELSE 0),
                 sess' = [sess EXCEPT ![s1_] = NoSess], Return(t, got), UNCHANGED <<s1_, calls>>
          PROVE  HttpsInv'
      <4>1. pc[t] = "end"
        BY <2>13 DEF Finish, At
      <4>2. result[s1_].answer = got
        BY Zenon, <2>3, <3>1, <4>1 DEF Known
      <4> QED
        BY Zenon, <2>0, <2>1, <2>2, <2>7, <3>1, <4>2, CallReturns
    <3> QED
      BY Zenon, <2>3, <2>7, <2>9, <2>13, <3>1 DEF Finish
  <2> QED
    BY Zenon, <2>10, <2>11, <2>12, <2>13
<1> QED
  BY <1>1, <1>2

LEMMA HttpsNextStep ==
  ASSUME HttpsInv, [HttpsNext]_web
  PROVE  HttpsInv'
<1>1. CASE UNCHANGED web
  BY Zenon, <1>1 DEF web, HttpsInv, CrashNeedsOverlap, Alone, HttpsType, OneCall, Progress, Unused, Ended
<1>2. ASSUME NEW t \in Users, BadUri(t) PROVE HttpsInv'
  <2>1. UNCHANGED <<s1_, sess, pc, me, calls, result, overlap, crash>>
    BY Zenon, <1>2 DEF BadUri
  <2>2. leaked' \subseteq {"uri"}
    BY Zenon, <1>2 DEF BadUri, HttpsInv
  <2> QED
    BY Zenon, <2>1, <2>2 DEF HttpsInv, CrashNeedsOverlap, Alone, HttpsType, OneCall, Progress, Unused, Ended
<1>3. ASSUME NEW t \in Users, NoHost(t) PROVE HttpsInv'
  <2>1. UNCHANGED <<s1_, sess, pc, me, calls, result, overlap, leaked>> /\ crash' = "host"
    BY Zenon, <1>3 DEF NoHost, Down
  <2>2. "host" # "freed"
    OBVIOUS
  <2> QED
    BY Zenon, <2>1, <2>2 DEF HttpsInv, CrashNeedsOverlap, Alone, HttpsType, OneCall, Progress, Unused, Ended
<1>4. ASSUME NEW t \in Users, NewSession(t) PROVE HttpsInv'
  <2>1. leaked' = leaked \cup {"uri"} /\ crash' = crash /\ crash = "" /\ (~overlap' => ~overlap)
    BY Zenon, <1>4 DEF NewSession, At
  <2>2. leaked' \subseteq {"uri"}
    BY Zenon, <2>1 DEF HttpsInv
  <2>3. crash' # "freed"
    BY <2>1
  <2>4. ~overlap' => Alone'
    BY Zenon, <1>4, <2>1, SessionStarts DEF HttpsInv
  <2> QED
    BY Zenon, <2>2, <2>3, <2>4 DEF HttpsInv, CrashNeedsOverlap
<1> QED
  BY Zenon, <1>1, <1>2, <1>3, <1>4, HttpsStep DEF HttpsNext

\* As long as calls on a client do not overlap, each gives the response to its own request
\* and leaves only the parsed URI behind; a deleted session is used only after an overlap.
THEOREM SessionIsOwnHolds == HttpsSpec => []SessionIsOwn
<1>1. HttpsInit => HttpsInv
  <2> SUFFICES ASSUME HttpsInit PROVE HttpsInv
    OBVIOUS
  <2>1. NoSess \in Sessions /\ [answer |-> 0, got |-> 0, ended |-> FALSE] \in Results
    BY DEF NoSess, Sessions, Results
  <2>2. ~NoSess.live /\ ~[answer |-> 0, got |-> 0, ended |-> FALSE].ended
    BY Zenon DEF NoSess
  <2>3. calls \in Nat /\ calls <= MaxCalls /\ s1_ \in Nat /\ s1_ <= calls /\ 0 \in Nat /\ crash # "freed"
    <3>1. calls = 0 /\ s1_ = 0 /\ crash = ""
      BY Zenon DEF HttpsInit
    <3>2. crash # "freed"
      BY <3>1
    <3>3. 0 <= MaxCalls
      BY CallsAssumption
    <3>4. 0 \in Nat /\ 0 <= 0
      OBVIOUS
    <3> QED
      BY Zenon, <3>1, <3>2, <3>3, <3>4
  <2>4. HttpsType
    BY Zenon, <2>1, <2>3 DEF HttpsInit, HttpsType, Steps
  <2>5. OneCall /\ Progress /\ Unused /\ Ended
    BY Zenon, <2>2 DEF HttpsInit, OneCall, Progress, Unused, Ended
  <2> QED
    BY Zenon, <2>3, <2>4, <2>5 DEF HttpsInit, HttpsInv, Alone, CrashNeedsOverlap
<1>2. HttpsInv /\ [HttpsNext]_web => HttpsInv'
  BY Zenon, HttpsNextStep
<1>3. HttpsInv => SessionIsOwn
  BY Zenon DEF HttpsInv, SessionIsOwn, ResultIsOwn, OnlyUriLeaks, Alone, Ended, OneCall
<1> QED
  BY <1>1, <1>2, <1>3, PTL DEF HttpsSpec

-----------------------------------------------------------------------------
(* CurlEngine.                                                             *)

Insts == [live : BOOLEAN, curl : Threads \cup {None, "gone"}, cursor : Nat, data : Seq(Nat), req : Nat, ok : BOOLEAN]
Handles == [live : BOOLEAN, wd : Instances \cup {None}, url : Nat, sent : Nat]
CurlType ==
  /\ inst \in [Instances -> Insts] /\ handle \in [Threads -> Handles]
  /\ busy \in [Threads -> Instances \cup {None}] /\ asked \in [Instances -> Nat]

\* Every live instance points to the handle of a thread, which exists until the thread
\* ends; a handle that does not exist holds nothing.
HandleIsLive(h, t, gone) == h.live => t \notin gone /\ h.wd \in Instances
HandlesExist ==
  /\ \A i \in Instances : inst[i].live => inst[i].curl \in Threads /\ (inst[i].curl \notin exited => handle[inst[i].curl].live)
  /\ \A t \in Threads : HandleIsLive(handle[t], t, exited) /\ (~handle[t].live => handle[t] = NoHandle)

\* A perform is of a live instance, and of the thread's own unless instances are passed on.
BusyIsLive ==
  \A t \in Threads : busy[t] # None => inst[busy[t]].live /\ t \notin exited /\ (callers # "cross" => inst[busy[t]].curl = t)

\* With one instance for each thread, it is the one in the handle.
HandleDelivers ==
  callers # "many" => \A i \in Instances : inst[i].live /\ handle[inst[i].curl].live => handle[inst[i].curl].wd = i

AskedIsLive == \A i \in Instances : ~inst[i].live => asked[i] = 0

\* A response of r that is n pieces long; one that is being received, one that is complete.
Filled(n, r) == [k \in 1..n |-> r]
Receiving(x, h) ==
  /\ ~x.ok /\ x.cursor = h.sent /\ h.sent <= h.url /\ h.url = x.req
  /\ x.data = Filled(x.cursor, x.req) /\ x.cursor <= BufSize
Received(x) == x.cursor = x.req /\ x.data = Filled(x.req, x.req) /\ x.cursor <= BufSize

SoleAsked ==
  \A i \in Instances : inst[i].live /\ asked[i] # 0 /\ inst[i].curl \notin exited => handle[inst[i].curl].url = asked[i]
SoleReceiving == \A t \in Threads : busy[t] # None => Receiving(inst[busy[t]], handle[t])
SoleReceived == \A i \in Instances : inst[i].ok => Received(inst[i])

CurlWorks ==
  /\ CurlType /\ HandlesExist /\ BusyIsLive /\ HandleDelivers /\ AskedIsLive
  /\ callers = "sole" => SoleAsked /\ SoleReceiving
CurlInv ==
  /\ curlFault = {} => CurlWorks
  /\ inst \in [Instances -> Insts] /\ (callers = "sole" => SoleReceived) /\ OverflowNeedsLarge /\ FaultNeedsMisuse

\* A complete response is what core_get_data copies.
LEMMA ReceivedIsCopied ==
  ASSUME NEW i \in Instances, inst[i] \in Insts, Received(inst[i])
  PROVE  core_get_data(i, BufSize) = [k \in 1..inst[i].req |-> inst[i].req]
<1>1. PICK x : x = inst[i]
  BY Zenon
<1>2. x.req \in Nat /\ x.cursor = x.req /\ x.cursor <= BufSize /\ x.data \in Seq(Nat)
  BY Zenon, <1>1 DEF Insts, Received
<1>3. x.data = [k \in 1..x.req |-> x.req]
  BY Zenon, <1>1 DEF Received, Filled
<1>4. SubSeq(x.data, 1, x.req) = x.data
  <2>1. PICK d \in Seq(Nat), n \in Nat : d = x.data /\ n = x.req /\ d = [k \in 1..n |-> n]
    BY Zenon, <1>2, <1>3
  <2>2. Len(d) = n
    BY <2>1
  <2>3. SubSeq(d, 1, n) = d
    BY <2>2
  <2> QED
    BY Zenon, <2>1, <2>3
<1>5. ~(BufSize < x.cursor)
  BY <1>2, CurlAssumption
<1>6. core_get_data(i, BufSize) = SubSeq(x.data, 1, x.cursor)
  BY Zenon, <1>1, <1>5 DEF core_get_data
<1> QED
  BY Zenon, <1>1, <1>2, <1>3, <1>4, <1>6

LEMMA FilledAppend ==
  ASSUME NEW n \in Nat, NEW r \in Nat, Filled(n, r) \in Seq(Nat)
  PROVE  Append(Filled(n, r), r) = Filled(n + 1, r) /\ Append(Filled(n, r), r) \in Seq(Nat)
<1>1. PICK d \in Seq(Nat) : d = [k \in 1..n |-> r]
  BY Zenon DEF Filled
<1>2. Len(d) = n
  BY <1>1
<1>3. Append(d, r) \in Seq(Nat) /\ Len(Append(d, r)) = n + 1
  BY <1>2
<1>4. \A k \in 1..n + 1 : Append(d, r)[k] = r
  BY <1>1, <1>2
<1>5. PICK e \in Seq(Nat) : e = Append(d, r) /\ Len(e) = n + 1
  BY Zenon, <1>3
<1>6. e \in [1..Len(e) -> Nat]
  OBVIOUS
<1>7. e = [k \in 1..n + 1 |-> r]
  BY Zenon, <1>4, <1>5, <1>6
<1> QED
  BY Zenon, <1>1, <1>5, <1>7 DEF Filled

\* No trouble with instances that stay with their thread.
LEMMA NoTrouble ==
  ASSUME CurlWorks, NEW t \in Threads, NEW i \in Instances, Uses(t, i), callers # "cross"
  PROVE  Trouble(t, i) = {} /\ inst[i].curl = t
<1>1. inst[i].live /\ inst[i].curl = t /\ t \notin exited
  BY Zenon DEF Uses, Free
<1>2. handle[inst[i].curl].live
  BY Zenon, <1>1 DEF CurlWorks, HandlesExist
<1>3. ~\E u \in Threads \ {t} : busy[u] # None /\ inst[busy[u]].curl = inst[i].curl
  BY Zenon, <1>1 DEF CurlWorks, BusyIsLive
<1> QED
  BY Zenon, <1>1, <1>2, <1>3 DEF Trouble

LEMMA TroubleIs ==
  ASSUME NEW t, NEW i
  PROVE  Trouble(t, i) \subseteq {"dead", "race"} /\ (Trouble(t, i) = {} => handle[inst[i].curl].live)
BY Zenon DEF Trouble

\* The parts of the invariant that speak of faults, while there are none.
LEMMA NoFault ==
  ASSUME curlFault' = {}, CurlWorks', callers' = "sole" => SoleReceived'
  PROVE  CurlInv'
<1>1. OverflowNeedsLarge' /\ FaultNeedsMisuse'
  BY Zenon DEF OverflowNeedsLarge, FaultNeedsMisuse
<1> QED
  BY Zenon, <1>1 DEF CurlInv, CurlWorks, CurlType

\* A misuse across threads.
LEMMA CrossFault ==
  ASSUME callers = "cross", callers' = callers, curlFault' # {}, curlFault' \subseteq {"dead", "race"}, inst' \in [Instances -> Insts]
  PROVE  CurlInv'
<1>1. "cross" # "sole" /\ "freed" \notin {"dead", "race"}
  OBVIOUS
<1> QED
  BY Zenon, <1>1 DEF CurlInv, OverflowNeedsLarge, FaultNeedsMisuse

\* What holds of the instances and handles before a step.
CurlNow == CurlWorks /\ curlFault = {} /\ (callers = "sole" => SoleReceived)

LEMMA NoInstType == NoInst \in Insts /\ Gone \in Insts /\ ~NoInst.live /\ ~NoInst.ok /\ ~Gone.live /\ ~Gone.ok
<1>1. <<>> \in Seq(Nat) /\ 0 \in Nat
  OBVIOUS
<1>2. NoInst \in Insts
  BY Zenon, <1>1 DEF NoInst, Insts
<1>3. Gone \in Insts /\ Gone.live = NoInst.live /\ Gone.ok = NoInst.ok
  BY Zenon, <1>2 DEF Gone, Insts
<1>4. ~NoInst.live /\ ~NoInst.ok
  BY Zenon DEF NoInst
<1> QED
  BY Zenon, <1>2, <1>3, <1>4

LEMMA NoHandleType == NoHandle \in Handles /\ ~NoHandle.live /\ NoHandle.url = 0 /\ NoHandle.sent = 0
<1>1. NoHandle \in Handles /\ NoHandle.url = 0 /\ NoHandle.sent = 0
  BY DEF NoHandle, Handles
<1>2. ~NoHandle.live
  BY Zenon DEF NoHandle
<1> QED
  BY Zenon, <1>1, <1>2

LEMMA NewStep ==
  ASSUME CurlNow, NEW t \in Threads, NEW i \in Instances, curl_instance_new(t, i), callers' = callers
  PROVE  CurlInv'
<1>1. /\ CurlType /\ HandlesExist /\ BusyIsLive /\ HandleDelivers /\ AskedIsLive
      /\ t \notin exited /\ busy[t] = None /\ inst[i] = NoInst /\ (callers = "many" \/ Live(t) = {})
      /\ UNCHANGED <<asked, busy, exited, curlFault>> /\ curlFault = {}
  BY Zenon DEF CurlNow, CurlWorks, curl_instance_new, Free
<1>2. PICK h : h = core_init(t, i)
  BY Zenon
<1>3. h \in Handles /\ h.live /\ h.wd = i
  <2>1. PICK g : g = threadstorage_get(t)
    BY Zenon
  <2>2. g \in Handles /\ g.live
    <3>1. CASE handle[t].live
      BY Zenon, <1>1, <2>1, <3>1 DEF threadstorage_get, CurlType
    <3>2. CASE ~handle[t].live
      BY Zenon, <2>1, <3>2, NoHandleType DEF threadstorage_get, Handles
    <3> QED
      BY <3>1, <3>2
  <2>3. h = [g EXCEPT !.wd = i]
    BY Zenon, <1>2, <2>1 DEF core_init
  <2> QED
    BY Zenon, <2>2, <2>3 DEF Handles
<1>4. handle' \in [Threads -> Handles] /\ handle'[t] = h /\ \A u \in Threads : u # t => handle'[u] = handle[u]
  BY Zenon, <1>1, <1>2, <1>3 DEF curl_instance_new, CurlType
<1>5. PICK x : x = [NoInst EXCEPT !.live = TRUE, !.curl = t]
  BY Zenon
<1>6. x \in Insts /\ x.live /\ x.curl = t /\ ~x.ok
  BY Zenon, <1>5, NoInstType DEF Insts
<1>7. inst' \in [Instances -> Insts] /\ inst'[i] = x /\ \A j \in Instances : j # i => inst'[j] = inst[j]
  BY Zenon, <1>1, <1>5, <1>6 DEF curl_instance_new, CurlType
<1>8. CurlType'
  BY Zenon, <1>1, <1>4, <1>7 DEF CurlType
<1>9. HandlesExist'
  <2>1. ASSUME NEW j \in Instances, inst'[j].live
        PROVE  inst'[j].curl \in Threads /\ (inst'[j].curl \notin exited' => handle'[inst'[j].curl].live)
    <3>1. CASE j = i
      BY Zenon, <1>3, <1>4, <1>6, <1>7, <3>1
    <3>2. CASE j # i
      <4>1. inst'[j] = inst[j] /\ inst[j].curl \in Threads /\ (inst[j].curl \notin exited => handle[inst[j].curl].live)
        BY Zenon, <1>1, <1>7, <2>1, <3>2 DEF HandlesExist
      <4>2. handle[inst[j].curl].live => handle'[inst[j].curl].live
        BY Zenon, <1>3, <1>4, <4>1
      <4> QED
        BY Zenon, <1>1, <4>1, <4>2
    <3> QED
      BY <3>1, <3>2
  <2>2. ASSUME NEW u \in Threads PROVE HandleIsLive(handle'[u], u, exited') /\ (~handle'[u].live => handle'[u] = NoHandle)
    BY Zenon, <1>1, <1>3, <1>4 DEF HandlesExist, HandleIsLive
  <2> QED
    BY Zenon, <2>1, <2>2 DEF HandlesExist
<1>10. BusyIsLive'
  <2>1. ASSUME NEW u \in Threads, busy[u] # None PROVE inst'[busy[u]] = inst[busy[u]]
    <3>1. busy[u] \in Instances /\ busy[u] # i
      BY Zenon, <1>1, <2>1, NoInstType DEF BusyIsLive, CurlType
    <3> QED
      BY Zenon, <1>7, <3>1
  <2> QED
    BY Zenon, <1>1, <2>1 DEF BusyIsLive
<1>11. HandleDelivers'
  <2>1. ASSUME callers # "many", NEW j \in Instances, inst'[j].live, handle'[inst'[j].curl].live
        PROVE  handle'[inst'[j].curl].wd = j
    <3>1. CASE j = i
      BY Zenon, <1>3, <1>4, <1>6, <1>7, <3>1
    <3>2. CASE j # i
      <4>1. inst'[j] = inst[j] /\ inst[j].curl # t
        BY Zenon, <1>1, <1>7, <2>1, <3>2 DEF Live
      <4>2. inst[j].curl \in Threads
        BY Zenon, <1>1, <2>1, <4>1 DEF HandlesExist
      <4> QED
        BY ZenonT(40), <1>1, <1>4, <2>1, <4>1, <4>2 DEF HandleDelivers
    <3> QED
      BY <3>1, <3>2
  <2> QED
    BY Zenon, <2>1 DEF HandleDelivers
<1>12. AskedIsLive'
  BY Zenon, <1>1, <1>6, <1>7 DEF AskedIsLive
<1>13. ASSUME callers = "sole" PROVE SoleAsked' /\ SoleReceiving' /\ SoleReceived'
  <2>0. SoleAsked /\ SoleReceiving /\ SoleReceived /\ "sole" # "many" /\ "sole" # "cross"
    BY <1>13 DEF CurlNow, CurlWorks
  <2>1. ASSUME NEW j \in Instances, inst'[j].live, asked'[j] # 0, inst'[j].curl \notin exited'
        PROVE  handle'[inst'[j].curl].url = asked'[j]
    <3>1. j # i
      BY Zenon, <1>1, <2>1, NoInstType DEF AskedIsLive
    <3>2. inst'[j] = inst[j] /\ inst[j].curl # t
      BY Zenon, <1>1, <1>7, <1>13, <2>0, <2>1, <3>1 DEF Live
    <3>3. inst[j].curl \in Threads
      BY Zenon, <1>1, <2>1, <3>2 DEF HandlesExist
    <3> QED
      BY ZenonT(40), <1>1, <1>4, <2>0, <2>1, <3>2, <3>3 DEF SoleAsked
  <2>2. ASSUME NEW u \in Threads, busy'[u] # None PROVE Receiving(inst'[busy'[u]], handle'[u])
    <3>1. u # t /\ busy'[u] = busy[u] /\ handle'[u] = handle[u]
      BY Zenon, <1>1, <1>4, <2>2
    <3>2. busy[u] \in Instances /\ busy[u] # i
      BY Zenon, <1>1, <2>2, NoInstType DEF BusyIsLive, CurlType
    <3> QED
      BY Zenon, <1>7, <2>0, <2>2, <3>1, <3>2 DEF SoleReceiving
  <2>3. SoleReceived'
    BY Zenon, <1>6, <1>7, <2>0 DEF SoleReceived
  <2> QED
    BY Zenon, <2>1, <2>2, <2>3 DEF SoleAsked, SoleReceiving
<1> QED
  BY Zenon, <1>1, <1>8, <1>9, <1>10, <1>11, <1>12, <1>13, NoFault DEF CurlWorks

\* A step that leaves alone which instances live, whose handles they point to and where
\* the handles deliver to.
SameWiring ==
  /\ \A j \in Instances : (inst'[j].live <=> inst[j].live) /\ inst'[j].curl = inst[j].curl
  /\ \A u \in Threads : (handle'[u].live <=> handle[u].live) /\ handle'[u].wd = handle[u].wd /\ (~handle[u].live => handle'[u] = handle[u])
  /\ exited' = exited /\ callers' = callers

LEMMA WiringIsKept ==
  ASSUME HandlesExist, HandleDelivers, SameWiring
  PROVE  HandlesExist' /\ HandleDelivers'
<1>1. ASSUME NEW j \in Instances, inst'[j].live
      PROVE  inst'[j].curl \in Threads /\ (inst'[j].curl \notin exited' => handle'[inst'[j].curl].live)
  <2>1. inst[j].live /\ inst'[j].curl = inst[j].curl /\ inst[j].curl \in Threads
    BY Zenon, <1>1 DEF SameWiring, HandlesExist
  <2> QED
    BY Zenon, <2>1 DEF SameWiring, HandlesExist
<1>2. ASSUME NEW u \in Threads PROVE HandleIsLive(handle'[u], u, exited') /\ (~handle'[u].live => handle'[u] = NoHandle)
  BY Zenon DEF HandlesExist, HandleIsLive, SameWiring
<1>3. ASSUME callers # "many", NEW j \in Instances, inst'[j].live, handle'[inst'[j].curl].live
      PROVE  handle'[inst'[j].curl].wd = j
  <2>1. inst[j].live /\ inst'[j].curl = inst[j].curl /\ inst[j].curl \in Threads
    BY Zenon, <1>3 DEF SameWiring, HandlesExist
  <2>2. handle[inst[j].curl].live /\ handle'[inst'[j].curl].wd = handle[inst[j].curl].wd
    BY Zenon, <1>3, <2>1 DEF SameWiring
  <2> QED
    BY Zenon, <1>3, <2>1, <2>2 DEF HandleDelivers
<1>4. callers' = callers
  BY Zenon DEF SameWiring
<1> QED
  BY Zenon, <1>1, <1>2, <1>3, <1>4 DEF HandlesExist, HandleDelivers

\* With one instance for each thread, two live ones point to different handles.
LEMMA HandlesDiffer ==
  ASSUME CurlWorks, callers # "many", NEW i \in Instances, NEW j \in Instances, inst[i].live, inst[j].live,
         inst[i].curl = inst[j].curl, inst[i].curl \notin exited
  PROVE  i = j
<1>1. handle[inst[i].curl].live
  BY Zenon DEF CurlWorks, HandlesExist
<1> QED
  BY Zenon, <1>1 DEF CurlWorks, HandleDelivers

LEMMA SetUrlStep ==
  ASSUME CurlNow, NEW t \in Threads, NEW i \in Instances, NEW n \in Urls, core_set_url(t, i, n), callers' = callers
  PROVE  CurlInv'
<1>1. /\ CurlWorks /\ CurlType /\ HandlesExist /\ BusyIsLive /\ HandleDelivers /\ AskedIsLive /\ curlFault = {} /\ Uses(t, i)
      /\ inst[i].live /\ t \notin exited /\ busy[t] = None /\ curlFault' = {} \cup Trouble(t, i)
      /\ UNCHANGED <<inst, busy, exited>>
  BY Zenon DEF CurlNow, CurlWorks, core_set_url, Uses, Free
<1>2. CASE Trouble(t, i) # {}
  <2>1. callers = "cross" /\ curlFault' # {} /\ curlFault' \subseteq {"dead", "race"} /\ inst' \in [Instances -> Insts]
    BY Zenon, <1>1, <1>2, NoTrouble, TroubleIs DEF CurlType
  <2> QED
    BY Zenon, <2>1, CrossFault
<1>3. CASE Trouble(t, i) = {}
  <2>0. PICK c \in Threads : c = inst[i].curl /\ handle[c].live
    BY Zenon, <1>1, <1>3, TroubleIs DEF HandlesExist
  <2>1. n \in Nat
    BY Zenon, CurlAssumption
  <2>2. PICK h : h = [handle[c] EXCEPT !.url = n]
    BY Zenon
  <2>3. h \in Handles /\ (h.live <=> handle[c].live) /\ h.wd = handle[c].wd /\ h.url = n
    BY ZenonT(40), <1>1, <2>1, <2>2 DEF CurlType, Handles
  <2>4. handle' \in [Threads -> Handles] /\ handle'[c] = h /\ \A u \in Threads : u # c => handle'[u] = handle[u]
    BY Zenon, <1>1, <1>3, <2>0, <2>2, <2>3 DEF core_set_url, CurlType
  <2>5. asked' \in [Instances -> Nat] /\ asked'[i] = n /\ \A j \in Instances : j # i => asked'[j] = asked[j]
    BY Zenon, <1>1, <2>1 DEF core_set_url, CurlType
  <2>6. CurlType'
    BY Zenon, <1>1, <2>4, <2>5 DEF CurlType
  <2>7. SameWiring
    BY Zenon, <1>1, <2>0, <2>3, <2>4 DEF SameWiring
  <2>8. HandlesExist' /\ HandleDelivers'
    BY Zenon, <1>1, <2>7, WiringIsKept
  <2>9. BusyIsLive'
    BY Zenon, <1>1 DEF BusyIsLive
  <2>10. AskedIsLive'
    BY Zenon, <1>1, <2>5 DEF AskedIsLive
  <2>11. ASSUME callers = "sole" PROVE SoleAsked' /\ SoleReceiving' /\ SoleReceived'
    <3>0. SoleAsked /\ SoleReceiving /\ SoleReceived /\ "sole" # "many" /\ "sole" # "cross"
      BY <2>11 DEF CurlNow, CurlWorks
    <3>1. c = t
      BY Zenon, <1>1, <2>0, <2>11, <3>0 DEF Uses
    <3>2. ASSUME NEW j \in Instances, inst'[j].live, asked'[j] # 0, inst'[j].curl \notin exited'
          PROVE  handle'[inst'[j].curl].url = asked'[j]
      <4>1. CASE j = i
        BY Zenon, <1>1, <2>0, <2>3, <2>4, <2>5, <4>1
      <4>2. CASE j # i
        <5>1. inst[j].curl # c /\ inst[j].curl \in Threads
          BY Zenon, <1>1, <2>0, <2>11, <3>0, <3>1, <3>2, <4>2, HandlesDiffer DEF HandlesExist
        <5> QED
          BY Zenon, <1>1, <2>4, <2>5, <3>0, <3>2, <4>2, <5>1 DEF SoleAsked
      <4> QED
        BY <4>1, <4>2
    <3>3. ASSUME NEW u \in Threads, busy'[u] # None PROVE Receiving(inst'[busy'[u]], handle'[u])
      BY Zenon, <1>1, <2>4, <3>0, <3>1, <3>3 DEF SoleReceiving
    <3>4. SoleReceived'
      BY Zenon, <1>1, <3>0 DEF SoleReceived
    <3> QED
      BY Zenon, <3>2, <3>3, <3>4 DEF SoleAsked, SoleReceiving
  <2>12. curlFault' = {}
    BY Zenon, <1>1, <1>3
  <2> QED
    BY Zenon, <2>6, <2>8, <2>9, <2>10, <2>11, <2>12, NoFault DEF CurlWorks
<1> QED
  BY <1>2, <1>3

LEMMA PerformStep ==
  ASSUME CurlNow, NEW t \in Threads, NEW i \in Instances, core_perform(t, i), callers' = callers
  PROVE  CurlInv'
<1>1. /\ CurlWorks /\ CurlType /\ HandlesExist /\ BusyIsLive /\ HandleDelivers /\ AskedIsLive /\ curlFault = {} /\ Uses(t, i)
      /\ inst[i].live /\ t \notin exited /\ busy[t] = None /\ curlFault' = {} \cup Trouble(t, i)
      /\ UNCHANGED <<asked, exited>>
  BY Zenon DEF CurlNow, CurlWorks, core_perform, Uses, Free
<1>2. PICK x : x = [inst[i] EXCEPT !.cursor = 0, !.data = <<>>, !.req = Wanted(i), !.ok = FALSE]
  BY Zenon
<1>3. Wanted(i) \in Nat /\ <<>> \in Seq(Nat) /\ 0 \in Nat /\ inst[i] \in Insts
  <2>1. asked[i] \in Nat /\ handle[inst[i].curl].url \in Nat
    BY Zenon, <1>1 DEF CurlType, HandlesExist, Handles
  <2> QED
    BY <1>1, <2>1 DEF CurlType, Wanted
<1>4. x \in Insts /\ (x.live <=> inst[i].live) /\ x.curl = inst[i].curl /\ ~x.ok /\ x.cursor = 0 /\ x.data = <<>> /\ x.req = Wanted(i)
  BY Zenon, <1>2, <1>3 DEF Insts
<1>5. inst' \in [Instances -> Insts] /\ inst'[i] = x /\ \A j \in Instances : j # i => inst'[j] = inst[j]
  BY Zenon, <1>1, <1>2, <1>4 DEF core_perform, CurlType
<1>6. CASE Trouble(t, i) # {}
  <2>1. callers = "cross" /\ curlFault' # {} /\ curlFault' \subseteq {"dead", "race"}
    BY Zenon, <1>1, <1>6, NoTrouble, TroubleIs
  <2> QED
    BY Zenon, <1>5, <2>1, CrossFault
<1>7. CASE Trouble(t, i) = {}
  <2>0. PICK c \in Threads : c = inst[i].curl /\ handle[c].live
    BY Zenon, <1>1, <1>7, TroubleIs DEF HandlesExist
  <2>2. PICK h : h = [handle[c] EXCEPT !.sent = 0]
    BY Zenon
  <2>3. h \in Handles /\ (h.live <=> handle[c].live) /\ h.wd = handle[c].wd /\ h.url = handle[c].url /\ h.sent = 0
    BY ZenonT(40), <1>1, <1>3, <2>2 DEF CurlType, Handles
  <2>4. handle' \in [Threads -> Handles] /\ handle'[c] = h /\ \A u \in Threads : u # c => handle'[u] = handle[u]
    BY Zenon, <1>1, <2>0, <2>2, <2>3 DEF core_perform, CurlType
  <2>5. busy' \in [Threads -> Instances \cup {None}] /\ busy'[t] = i /\ \A u \in Threads : u # t => busy'[u] = busy[u]
    BY Zenon, <1>1, <1>7 DEF core_perform, CurlType
  <2>6. CurlType'
    BY Zenon, <1>1, <1>5, <2>4, <2>5 DEF CurlType
  <2>7. SameWiring
    BY Zenon, <1>1, <1>4, <1>5, <2>0, <2>3, <2>4 DEF SameWiring
  <2>8. HandlesExist' /\ HandleDelivers'
    BY Zenon, <1>1, <2>7, WiringIsKept
  <2>9. BusyIsLive'
    <3>1. ASSUME NEW u \in Threads, busy'[u] # None
          PROVE  inst'[busy'[u]].live /\ u \notin exited' /\ (callers' # "cross" => inst'[busy'[u]].curl = u)
      <4>1. CASE u = t
        BY Zenon, <1>1, <1>4, <1>5, <2>5, <4>1 DEF Uses
      <4>2. CASE u # t
        <5>1. busy'[u] = busy[u] /\ busy[u] \in Instances
          BY Zenon, <1>1, <2>5, <3>1, <4>2 DEF CurlType
        <5>2. inst[busy[u]].live /\ u \notin exited /\ (callers # "cross" => inst[busy[u]].curl = u)
          BY Zenon, <1>1, <3>1, <5>1 DEF BusyIsLive
        <5>3. inst'[busy[u]].live /\ inst'[busy[u]].curl = inst[busy[u]].curl
          BY Zenon, <2>7, <5>1, <5>2 DEF SameWiring
        <5> QED
          BY Zenon, <1>1, <5>1, <5>2, <5>3
      <4> QED
        BY <4>1, <4>2
    <3> QED
      BY Zenon, <3>1 DEF BusyIsLive
  <2>10. AskedIsLive'
    BY Zenon, <1>1, <2>7 DEF AskedIsLive, SameWiring
  <2>11. ASSUME callers = "sole" PROVE SoleAsked' /\ SoleReceiving' /\ SoleReceived'
    <3>0. SoleAsked /\ SoleReceiving /\ SoleReceived /\ "sole" # "many" /\ "sole" # "cross"
      BY <2>11 DEF CurlNow, CurlWorks
    <3>1. c = t
      BY Zenon, <1>1, <2>0, <2>11, <3>0 DEF Uses
    <3>2. ASSUME NEW j \in Instances, inst'[j].live, asked'[j] # 0, inst'[j].curl \notin exited'
          PROVE  handle'[inst'[j].curl].url = asked'[j]
      <4>1. inst[j].live /\ inst'[j].curl = inst[j].curl /\ inst[j].curl \in Threads
        BY Zenon, <1>1, <2>7, <3>2 DEF SameWiring, HandlesExist
      <4>2. handle'[inst[j].curl].url = handle[inst[j].curl].url
        BY Zenon, <2>3, <2>4, <4>1
      <4> QED
        BY Zenon, <1>1, <3>0, <3>2, <4>1, <4>2 DEF SoleAsked
    <3>3. ASSUME NEW u \in Threads, busy'[u] # None PROVE Receiving(inst'[busy'[u]], handle'[u])
      <4>1. CASE u = t
        <5>1. h.url = Wanted(i) /\ inst'[busy'[u]] = x /\ handle'[u] = h
          <6>1. inst'[busy'[u]] = x /\ handle'[u] = h
            BY Zenon, <1>5, <2>4, <2>5, <3>1, <4>1
          <6>2. inst[i].curl = c /\ c \notin exited
            BY Zenon, <1>1, <2>0, <3>1
          <6>3. handle[inst[i].curl].url = Wanted(i)
            BY Zenon, <1>1, <3>0, <6>2 DEF SoleAsked, Wanted
          <6> QED
            BY Zenon, <2>3, <6>1, <6>2, <6>3
        <5>2. <<>> = Filled(0, Wanted(i))
          BY DEF Filled
        <5>3. 0 <= Wanted(i) /\ 0 <= BufSize
          BY <1>3, CurlAssumption
        <5> QED
          BY Zenon, <1>4, <2>3, <5>1, <5>2, <5>3 DEF Receiving
      <4>2. CASE u # t
        <5>1. busy'[u] = busy[u] /\ busy[u] \in Instances /\ handle'[u] = handle[u] /\ inst[busy[u]].curl = u
          <6>1. busy'[u] = busy[u] /\ handle'[u] = handle[u]
            BY Zenon, <2>4, <2>5, <3>1, <4>2
          <6>2. busy[u] \in Instances
            BY Zenon, <1>1, <3>3, <6>1 DEF CurlType
          <6>3. inst[busy[u]].curl = u
            BY Zenon, <1>1, <2>11, <3>0, <3>3, <6>1 DEF BusyIsLive
          <6> QED
            BY Zenon, <6>1, <6>2, <6>3
        <5>2. busy[u] # i
          BY Zenon, <2>0, <3>1, <4>2, <5>1
        <5> QED
          BY Zenon, <1>5, <3>0, <3>3, <5>1, <5>2 DEF SoleReceiving
      <4> QED
        BY <4>1, <4>2
    <3>4. SoleReceived'
      BY Zenon, <1>4, <1>5, <3>0 DEF SoleReceived
    <3> QED
      BY Zenon, <3>2, <3>3, <3>4 DEF SoleAsked, SoleReceiving
  <2>12. curlFault' = {}
    BY Zenon, <1>1, <1>7
  <2> QED
    BY Zenon, <2>6, <2>8, <2>9, <2>10, <2>11, <2>12, NoFault DEF CurlWorks
<1> QED
  BY <1>6, <1>7

\* The piece that arrived is appended to the response being received.
LEMMA PieceReceived ==
  ASSUME NEW x \in Insts, NEW h \in Handles, Receiving(x, h), h.sent < h.url, ~(x.cursor >= BufSize), NEW x2, NEW h2,
         x2 = [x EXCEPT !.cursor = @ + 1, !.data = Append(@, h.url)], h2 = [h EXCEPT !.sent = @ + 1]
  PROVE  Receiving(x2, h2)
<1>1. x.cursor \in Nat /\ x.req \in Nat /\ h.sent \in Nat /\ h.url \in Nat /\ x.cursor = h.sent /\ h.url = x.req /\ BufSize \in Nat
  BY Zenon, CurlAssumption DEF Insts, Handles, Receiving
<1>2. x2.cursor = x.cursor + 1 /\ x2.data = Append(x.data, h.url) /\ x2.req = x.req /\ x2.ok = x.ok /\ h2.sent = h.sent + 1 /\ h2.url = h.url
  BY Zenon DEF Insts, Handles
<1>3. x.cursor + 1 = h.sent + 1 /\ h.sent + 1 <= h.url /\ x.cursor + 1 <= BufSize
  BY <1>1
<1>4. Append(x.data, x.req) = Filled(x.cursor + 1, x.req)
  <2>1. x.data = Filled(x.cursor, x.req)
    BY Zenon DEF Receiving
  <2>2. x.data \in Seq(Nat)
    BY Zenon DEF Insts
  <2>3. Filled(x.cursor, x.req) \in Seq(Nat)
    BY Zenon, <2>1, <2>2
  <2> QED
    BY Zenon, <1>1, <2>1, <2>3, FilledAppend
<1>5. ~x2.ok
  BY Zenon, <1>2 DEF Receiving
<1> QED
  BY Zenon, <1>1, <1>2, <1>3, <1>4, <1>5 DEF Receiving

\* A response larger than the buffer.
LEMMA TooLarge ==
  ASSUME NEW x \in Insts, NEW h \in Handles, Receiving(x, h), h.sent < h.url, x.cursor >= BufSize
  PROVE  x.cursor = BufSize /\ x.req > BufSize
<1>1. x.cursor \in Nat /\ x.req \in Nat /\ h.sent \in Nat /\ h.url \in Nat /\ x.cursor = h.sent /\ h.url = x.req /\ BufSize \in Nat /\ x.cursor <= BufSize
  BY Zenon, CurlAssumption DEF Insts, Handles, Receiving
<1> QED
  BY <1>1

LEMMA MessageStep ==
  ASSUME CurlNow, NEW t \in Threads, on_message(t), callers' = callers
  PROVE  CurlInv'
<1>1. /\ CurlWorks /\ CurlType /\ HandlesExist /\ BusyIsLive /\ HandleDelivers /\ AskedIsLive /\ curlFault = {}
      /\ busy[t] # None /\ UNCHANGED <<asked, busy, exited>>
  BY Zenon DEF CurlNow, CurlWorks, on_message
<1>2. PICK b \in Instances : b = busy[t] /\ inst[b].live
  BY Zenon, <1>1 DEF CurlType, BusyIsLive
<1>3. PICK c \in Threads : c = inst[b].curl
  BY Zenon, <1>1, <1>2 DEF HandlesExist
<1>4. handle[c].sent < handle[c].url /\ handle[c] \in Handles
  BY Zenon, <1>1, <1>2, <1>3 DEF on_message, CurlType
<1>5. handle[c].live
  <2>1. SUFFICES ASSUME ~handle[c].live PROVE FALSE
    OBVIOUS
  <2>2. handle[c].sent = 0 /\ handle[c].url = 0
    BY Zenon, <1>1, <2>1, NoHandleType DEF HandlesExist
  <2> QED
    BY <1>4, <2>2
<1>6. PICK w \in Instances : w = handle[c].wd
  BY Zenon, <1>1, <1>5 DEF HandlesExist, HandleIsLive
<1>7. callers # "many" => w = b
  BY Zenon, <1>1, <1>2, <1>3, <1>5, <1>6 DEF HandleDelivers
<1>8. /\ curlFault' = {} \cup (IF ~inst[w].live THEN {"freed"} ELSE IF inst[w].cursor >= BufSize THEN {"overflow"} ELSE {})
      /\ handle' = [handle EXCEPT ![c].sent = @ + 1]
      /\ inst' = IF curlFault' # {} THEN inst ELSE [inst EXCEPT ![w].cursor = @ + 1, ![w].data = Append(@, handle[c].url)]
  BY Zenon, <1>1, <1>2, <1>3, <1>6 DEF on_message
<1>9. CASE ~inst[w].live
  <2>1. curlFault' = {"freed"} /\ inst' = inst /\ callers = "many"
    <3>1. curlFault' = {"freed"} /\ callers = "many"
      BY Zenon, <1>2, <1>7, <1>8, <1>9
    <3> QED
      BY Zenon, <1>8, <3>1
  <2>2. "freed" # "overflow" /\ "freed" # "dead" /\ "freed" # "race" /\ "many" # "sole"
    OBVIOUS
  <2> QED
    BY Zenon, <1>1, <2>1, <2>2 DEF CurlInv, OverflowNeedsLarge, FaultNeedsMisuse, CurlType
<1>10. CASE inst[w].live /\ inst[w].cursor >= BufSize
  <2>1. curlFault' = {"overflow"} /\ inst' = inst
    <3>1. curlFault' = {"overflow"}
      BY Zenon, <1>8, <1>10
    <3> QED
      BY Zenon, <1>8, <3>1
  <2>2. "overflow" # "freed" /\ "overflow" # "dead" /\ "overflow" # "race" /\ "sole" # "many" /\ "sole" # "cross"
    OBVIOUS
  <2>3. callers = "sole" => inst[w].cursor = BufSize /\ inst[w].req > BufSize
    <3>1. SUFFICES ASSUME callers = "sole" PROVE inst[w].cursor = BufSize /\ inst[w].req > BufSize
      OBVIOUS
    <3>2. w = b /\ c = t /\ SoleReceiving
      BY Zenon, <1>1, <1>2, <1>3, <1>7, <2>2, <3>1 DEF BusyIsLive, CurlWorks
    <3>3. Receiving(inst[w], handle[c]) /\ inst[w] \in Insts
      BY Zenon, <1>1, <1>2, <3>2 DEF SoleReceiving, CurlType
    <3> QED
      BY Zenon, <1>4, <1>10, <3>3, TooLarge
  <2>4. callers = "sole" => SoleReceived
    BY Zenon DEF CurlNow
  <2>5. OverflowNeedsLarge'
    BY Zenon, <2>1, <2>3 DEF OverflowNeedsLarge
  <2>6. FaultNeedsMisuse'
    BY Zenon, <2>1, <2>2 DEF FaultNeedsMisuse
  <2>7. callers' = "sole" => SoleReceived'
    BY Zenon, <2>1, <2>4 DEF SoleReceived
  <2> QED
    BY Zenon, <1>1, <2>1, <2>5, <2>6, <2>7 DEF CurlInv, CurlType
<1>11. CASE inst[w].live /\ ~(inst[w].cursor >= BufSize)
  <2>0. curlFault' = {}
    BY Zenon, <1>8, <1>11
  <2>1. PICK x : x = [inst[w] EXCEPT !.cursor = @ + 1, !.data = Append(@, handle[c].url)]
    BY Zenon
  <2>2. inst[w] \in Insts /\ inst[w].cursor + 1 \in Nat /\ Append(inst[w].data, handle[c].url) \in Seq(Nat) /\ handle[c].sent + 1 \in Nat
    <3>1. inst[w] \in Insts /\ inst[w].cursor \in Nat /\ inst[w].data \in Seq(Nat) /\ handle[c].url \in Nat /\ handle[c].sent \in Nat
      BY Zenon, <1>1, <1>4 DEF CurlType, Insts, Handles
    <3>2. \A m \in Nat, d \in Seq(Nat) : m + 1 \in Nat /\ Append(d, m) \in Seq(Nat)
      OBVIOUS
    <3>3. \A m \in Nat, d \in Seq(Nat) : Append(d, m) \in Seq(Nat)
      OBVIOUS
    <3> QED
      BY Zenon, <3>1, <3>2, <3>3
  <2>3. x \in Insts /\ (x.live <=> inst[w].live) /\ x.curl = inst[w].curl /\ (x.ok <=> inst[w].ok)
    BY Zenon, <2>1, <2>2 DEF Insts
  <2>4. inst' \in [Instances -> Insts] /\ inst'[w] = x /\ \A j \in Instances : j # w => inst'[j] = inst[j]
    BY Zenon, <1>1, <1>8, <2>0, <2>1, <2>3 DEF CurlType
  <2>5. PICK h : h = [handle[c] EXCEPT !.sent = @ + 1]
    BY Zenon
  <2>6. h \in Handles /\ (h.live <=> handle[c].live) /\ h.wd = handle[c].wd /\ h.url = handle[c].url
    BY Zenon, <1>4, <2>2, <2>5 DEF Handles
  <2>7. handle' \in [Threads -> Handles] /\ handle'[c] = h /\ \A u \in Threads : u # c => handle'[u] = handle[u]
    BY Zenon, <1>1, <1>8, <2>5, <2>6 DEF CurlType
  <2>8. CurlType'
    BY Zenon, <1>1, <2>4, <2>7 DEF CurlType
  <2>9. SameWiring
    BY Zenon, <1>1, <1>5, <2>3, <2>4, <2>6, <2>7 DEF SameWiring
  <2>10. HandlesExist' /\ HandleDelivers'
    BY Zenon, <1>1, <2>9, WiringIsKept
  <2>11. BusyIsLive'
    <3>1. ASSUME NEW u \in Threads, busy[u] # None
          PROVE  inst'[busy[u]].live /\ u \notin exited /\ (callers # "cross" => inst'[busy[u]].curl = u)
      <4>1. busy[u] \in Instances /\ inst[busy[u]].live /\ u \notin exited /\ (callers # "cross" => inst[busy[u]].curl = u)
        BY Zenon, <1>1, <3>1 DEF CurlType, BusyIsLive
      <4>2. inst'[busy[u]].live /\ inst'[busy[u]].curl = inst[busy[u]].curl
        BY Zenon, <2>9, <4>1 DEF SameWiring
      <4> QED
        BY Zenon, <4>1, <4>2
    <3> QED
      BY Zenon, <1>1, <3>1 DEF BusyIsLive
  <2>12. AskedIsLive'
    BY Zenon, <1>1, <2>9 DEF AskedIsLive, SameWiring
  <2>13. ASSUME callers = "sole" PROVE SoleAsked' /\ SoleReceiving' /\ SoleReceived'
    <3>0. SoleAsked /\ SoleReceiving /\ SoleReceived /\ "sole" # "many" /\ "sole" # "cross"
      BY <2>13 DEF CurlNow, CurlWorks
    <3>1. w = b /\ c = t
      BY Zenon, <1>1, <1>2, <1>3, <1>7, <2>13, <3>0 DEF BusyIsLive
    <3>2. ASSUME NEW j \in Instances, inst'[j].live, asked'[j] # 0, inst'[j].curl \notin exited'
          PROVE  handle'[inst'[j].curl].url = asked'[j]
      <4>1. inst[j].live /\ inst'[j].curl = inst[j].curl /\ inst[j].curl \in Threads
        BY Zenon, <1>1, <2>9, <3>2 DEF SameWiring, HandlesExist
      <4>2. handle'[inst[j].curl].url = handle[inst[j].curl].url
        BY Zenon, <2>6, <2>7, <4>1
      <4> QED
        BY Zenon, <1>1, <3>0, <3>2, <4>1, <4>2 DEF SoleAsked
    <3>3. Receiving(inst[w], handle[c])
      BY Zenon, <1>1, <1>2, <3>0, <3>1 DEF SoleReceiving
    <3>4. ASSUME NEW u \in Threads, busy'[u] # None PROVE Receiving(inst'[busy'[u]], handle'[u])
      <4>1. CASE u = t
        <5>1. Receiving(x, h)
          BY Zenon, <1>4, <1>11, <2>1, <2>2, <2>5, <3>3, PieceReceived
        <5>2. inst'[busy'[u]] = x /\ handle'[u] = h
          BY Zenon, <1>1, <1>2, <2>4, <2>7, <3>1, <4>1
        <5> QED
          BY Zenon, <5>1, <5>2
      <4>2. CASE u # t
        <5>1. busy'[u] = busy[u] /\ handle'[u] = handle[u]
          BY Zenon, <1>1, <2>7, <3>1, <4>2
        <5>2. busy[u] \in Instances
          BY Zenon, <1>1, <3>4, <5>1 DEF CurlType
        <5>3. inst[busy[u]].curl = u
          BY Zenon, <1>1, <2>13, <3>0, <3>4, <5>1 DEF BusyIsLive
        <5>4. busy[u] # w
          BY Zenon, <1>3, <3>1, <4>2, <5>3
        <5> QED
          BY Zenon, <2>4, <3>0, <3>4, <5>1, <5>2, <5>4 DEF SoleReceiving
      <4> QED
        BY <4>1, <4>2
    <3>5. SoleReceived'
      <4>1. ~inst'[w].ok
        BY Zenon, <2>3, <2>4, <3>3 DEF Receiving
      <4> QED
        BY Zenon, <2>4, <3>0, <4>1 DEF SoleReceived
    <3> QED
      BY Zenon, <3>2, <3>4, <3>5 DEF SoleAsked, SoleReceiving
  <2> QED
    BY Zenon, <2>0, <2>8, <2>10, <2>11, <2>12, <2>13, NoFault DEF CurlWorks
<1> QED
  BY <1>9, <1>10, <1>11

LEMMA PerformedStep ==
  ASSUME CurlNow, NEW t \in Threads, Performed(t), callers' = callers
  PROVE  CurlInv'
<1>1. /\ CurlWorks /\ CurlType /\ HandlesExist /\ BusyIsLive /\ HandleDelivers /\ AskedIsLive /\ curlFault = {}
      /\ busy[t] # None /\ UNCHANGED <<handle, asked, exited, curlFault>> /\ busy' = [busy EXCEPT ![t] = None]
  BY Zenon DEF CurlNow, CurlWorks, Performed
<1>2. PICK b \in Instances : b = busy[t] /\ inst[b].live
  BY Zenon, <1>1 DEF CurlType, BusyIsLive
<1>3. PICK ok \in BOOLEAN : (ok => handle[inst[b].curl].sent = handle[inst[b].curl].url) /\ inst' = [inst EXCEPT ![b].ok = ok]
  BY Zenon, <1>2 DEF Performed
<1>4. PICK x : x = [inst[b] EXCEPT !.ok = ok]
  BY Zenon
<1>5. /\ x \in Insts /\ inst[b] \in Insts /\ (x.live <=> inst[b].live) /\ x.curl = inst[b].curl /\ (x.ok => ok)
      /\ x.cursor = inst[b].cursor /\ x.data = inst[b].data /\ x.req = inst[b].req
  BY ZenonT(40), <1>1, <1>4 DEF CurlType, Insts
<1>6. inst' \in [Instances -> Insts] /\ inst'[b] = x /\ \A j \in Instances : j # b => inst'[j] = inst[j]
  BY Zenon, <1>1, <1>3, <1>4, <1>5 DEF CurlType
<1>7. busy' \in [Threads -> Instances \cup {None}] /\ busy'[t] = None /\ \A u \in Threads : u # t => busy'[u] = busy[u]
  BY Zenon, <1>1 DEF CurlType
<1>8. CurlType'
  BY Zenon, <1>1, <1>6, <1>7 DEF CurlType
<1>9. SameWiring
  BY Zenon, <1>1, <1>5, <1>6 DEF SameWiring
<1>10. HandlesExist' /\ HandleDelivers'
  BY Zenon, <1>1, <1>9, WiringIsKept
<1>11. BusyIsLive'
  <2>1. ASSUME NEW u \in Threads, busy'[u] # None
        PROVE  inst'[busy'[u]].live /\ u \notin exited /\ (callers # "cross" => inst'[busy'[u]].curl = u)
    <3>1. busy'[u] = busy[u]
      BY Zenon, <1>7, <2>1
    <3>2. busy[u] \in Instances /\ inst[busy[u]].live /\ u \notin exited /\ (callers # "cross" => inst[busy[u]].curl = u)
      BY Zenon, <1>1, <2>1, <3>1 DEF CurlType, BusyIsLive
    <3>3. inst'[busy[u]].live /\ inst'[busy[u]].curl = inst[busy[u]].curl
      BY Zenon, <1>9, <3>2 DEF SameWiring
    <3> QED
      BY Zenon, <3>1, <3>2, <3>3
  <2> QED
    BY Zenon, <1>1, <2>1 DEF BusyIsLive
<1>12. AskedIsLive'
  BY Zenon, <1>1, <1>9 DEF AskedIsLive, SameWiring
<1>13. ASSUME callers = "sole" PROVE SoleAsked' /\ SoleReceiving' /\ SoleReceived'
  <2>0. SoleAsked /\ SoleReceiving /\ SoleReceived /\ "sole" # "many" /\ "sole" # "cross"
    BY <1>13 DEF CurlNow, CurlWorks
  <2>1. inst[b].curl = t
    BY Zenon, <1>1, <1>2, <1>13, <2>0 DEF BusyIsLive
  <2>2. SoleAsked'
    BY Zenon, <1>1, <1>9, <2>0 DEF SoleAsked, SameWiring
  <2>3. ASSUME NEW u \in Threads, busy'[u] # None PROVE Receiving(inst'[busy'[u]], handle'[u])
    <3>1. u # t /\ busy'[u] = busy[u]
      BY Zenon, <1>7, <2>3
    <3>2. busy[u] \in Instances /\ inst[busy[u]].curl = u
      BY Zenon, <1>1, <1>13, <2>0, <2>3, <3>1 DEF BusyIsLive, CurlType
    <3>3. busy[u] # b
      BY Zenon, <2>1, <3>1, <3>2
    <3> QED
      BY Zenon, <1>1, <1>6, <2>0, <2>3, <3>1, <3>2, <3>3 DEF SoleReceiving
  <2>4. x.ok => Received(x)
    <3>1. SUFFICES ASSUME ok PROVE Received(x)
      BY Zenon, <1>5
    <3>2. Receiving(inst[b], handle[t]) /\ handle[t].sent = handle[t].url
      BY Zenon, <1>1, <1>2, <1>3, <2>0, <2>1, <3>1 DEF SoleReceiving
    <3> QED
      BY Zenon, <1>5, <3>2 DEF Receiving, Received
  <2>5. SoleReceived'
    BY Zenon, <1>6, <2>0, <2>4 DEF SoleReceived
  <2> QED
    BY Zenon, <2>2, <2>3, <2>5 DEF SoleReceiving
<1> QED
  BY Zenon, <1>1, <1>8, <1>10, <1>11, <1>12, <1>13, NoFault DEF CurlWorks

LEMMA CurlDestroyStep ==
  ASSUME CurlNow, NEW t \in Threads, NEW i \in Instances, core_destroy(t, i), callers' = callers
  PROVE  CurlInv'
<1>1. /\ CurlWorks /\ CurlType /\ HandlesExist /\ BusyIsLive /\ HandleDelivers /\ AskedIsLive /\ curlFault = {}
      /\ (\A u \in Threads : busy[u] # i) /\ UNCHANGED <<handle, busy, exited, curlFault>>
  BY Zenon DEF CurlNow, CurlWorks, core_destroy
<1>2. inst' \in [Instances -> Insts] /\ inst'[i] = Gone /\ \A j \in Instances : j # i => inst'[j] = inst[j]
  BY Zenon, <1>1, NoInstType DEF core_destroy, CurlType
<1>3. asked' \in [Instances -> Nat] /\ asked'[i] = 0 /\ \A j \in Instances : j # i => asked'[j] = asked[j]
  <2>1. 0 \in Nat
    OBVIOUS
  <2> QED
    BY Zenon, <1>1, <2>1 DEF core_destroy, CurlType
<1>4. CurlType'
  BY Zenon, <1>1, <1>2, <1>3 DEF CurlType
<1>5. \A j \in Instances : inst'[j].live \/ inst'[j].ok => j # i /\ inst'[j] = inst[j]
  BY Zenon, <1>2, NoInstType
<1>6. HandlesExist' /\ HandleDelivers'
  BY Zenon, <1>1, <1>5 DEF HandlesExist, HandleDelivers
<1>7. \A u \in Threads : busy[u] # None => inst'[busy[u]] = inst[busy[u]]
  BY Zenon, <1>1, <1>2 DEF CurlType
<1>8. BusyIsLive'
  BY Zenon, <1>1, <1>7 DEF BusyIsLive
<1>9. AskedIsLive'
  BY Zenon, <1>1, <1>2, <1>3 DEF AskedIsLive
<1>10. ASSUME callers = "sole" PROVE SoleAsked' /\ SoleReceiving' /\ SoleReceived'
  <2>0. SoleAsked /\ SoleReceiving /\ SoleReceived
    BY <1>10 DEF CurlNow, CurlWorks
  <2>1. SoleAsked'
    BY Zenon, <1>1, <1>3, <1>5, <2>0 DEF SoleAsked
  <2>2. SoleReceiving'
    BY Zenon, <1>1, <1>7, <2>0 DEF SoleReceiving
  <2>3. SoleReceived'
    BY Zenon, <1>5, <2>0 DEF SoleReceived
  <2> QED
    BY <2>1, <2>2, <2>3
<1> QED
  BY Zenon, <1>1, <1>4, <1>6, <1>8, <1>9, <1>10, NoFault DEF CurlWorks

LEMMA CleanupStep ==
  ASSUME CurlNow, NEW t \in Threads, curl_tls_cleanup(t), callers' = callers
  PROVE  CurlInv'
<1>1. /\ CurlWorks /\ CurlType /\ HandlesExist /\ BusyIsLive /\ HandleDelivers /\ AskedIsLive /\ curlFault = {}
      /\ busy[t] = None /\ exited' = exited \cup {t} /\ UNCHANGED <<inst, asked, busy, curlFault>>
  BY Zenon DEF CurlNow, CurlWorks, curl_tls_cleanup, Free
<1>2. handle' \in [Threads -> Handles] /\ handle'[t] = NoHandle /\ \A u \in Threads : u # t => handle'[u] = handle[u]
  BY Zenon, <1>1, NoHandleType DEF curl_tls_cleanup, CurlType
<1>3. CurlType'
  BY Zenon, <1>1, <1>2 DEF CurlType
<1>4. HandlesExist'
  <2>1. ASSUME NEW j \in Instances, inst[j].live
        PROVE  inst[j].curl \in Threads /\ (inst[j].curl \notin exited' => handle'[inst[j].curl].live)
    BY Zenon, <1>1, <1>2, <2>1 DEF HandlesExist
  <2>2. ASSUME NEW u \in Threads PROVE HandleIsLive(handle'[u], u, exited') /\ (~handle'[u].live => handle'[u] = NoHandle)
    BY Zenon, <1>1, <1>2, NoHandleType DEF HandlesExist, HandleIsLive
  <2> QED
    BY Zenon, <1>1, <2>1, <2>2 DEF HandlesExist
<1>5. HandleDelivers'
  <2>1. ASSUME callers # "many", NEW j \in Instances, inst[j].live, handle'[inst[j].curl].live
        PROVE  handle'[inst[j].curl].wd = j
    <3>1. inst[j].curl \in Threads /\ inst[j].curl # t
      BY Zenon, <1>1, <1>2, <2>1, NoHandleType DEF HandlesExist
    <3> QED
      BY Zenon, <1>1, <1>2, <2>1, <3>1 DEF HandleDelivers
  <2> QED
    BY Zenon, <1>1, <2>1 DEF HandleDelivers
<1>6. BusyIsLive'
  BY Zenon, <1>1 DEF BusyIsLive
<1>7. AskedIsLive'
  BY Zenon, <1>1 DEF AskedIsLive
<1>8. ASSUME callers = "sole" PROVE SoleAsked' /\ SoleReceiving' /\ SoleReceived'
  <2>0. SoleAsked /\ SoleReceiving /\ SoleReceived
    BY <1>8 DEF CurlNow, CurlWorks
  <2>1. SoleAsked'
    BY Zenon, <1>1, <1>2, <2>0 DEF SoleAsked, HandlesExist
  <2>2. SoleReceiving'
    BY Zenon, <1>1, <1>2, <2>0 DEF SoleReceiving
  <2>3. SoleReceived'
    BY Zenon, <1>1, <2>0 DEF SoleReceived
  <2> QED
    BY <2>1, <2>2, <2>3
<1> QED
  BY Zenon, <1>1, <1>3, <1>4, <1>5, <1>6, <1>7, <1>8, NoFault DEF CurlWorks

LEMMA CurlStep == CurlInv /\ [CurlNext]_crl => CurlInv'
<1> SUFFICES ASSUME CurlInv, [CurlNext]_crl PROVE CurlInv'
  OBVIOUS
<1>1. CASE CurlNext
  <2>1. CurlNow /\ callers' = callers
    BY Zenon, <1>1 DEF CurlNext, CurlInv, CurlNow
  <2>2. PICK t \in Threads :
          \/ on_message(t) \/ Performed(t) \/ curl_tls_cleanup(t)
          \/ \E i \in Instances : \/ curl_instance_new(t, i) \/ core_perform(t, i) \/ core_destroy(t, i)
                                  \/ \E n \in Urls : core_set_url(t, i, n)
    BY Zenon, <1>1 DEF CurlNext
  <2>3. CASE on_message(t) \/ Performed(t) \/ curl_tls_cleanup(t)
    BY Zenon, <2>1, <2>3, MessageStep, PerformedStep, CleanupStep
  <2>4. CASE \E i \in Instances : \/ curl_instance_new(t, i) \/ core_perform(t, i) \/ core_destroy(t, i)
                                  \/ \E n \in Urls : core_set_url(t, i, n)
    BY Zenon, <2>1, <2>4, NewStep, PerformStep, CurlDestroyStep, SetUrlStep
  <2> QED
    BY Zenon, <2>2, <2>3, <2>4
<1>2. CASE UNCHANGED crl
  BY Zenon, <1>2 DEF crl, CurlInv, CurlWorks, CurlType, HandlesExist, BusyIsLive, HandleDelivers, AskedIsLive, SoleAsked, SoleReceiving,
    SoleReceived, OverflowNeedsLarge, FaultNeedsMisuse
<1> QED
  BY Zenon, <1>1, <1>2

LEMMA CurlStart == CurlInit => CurlInv
<1> SUFFICES ASSUME CurlInit PROVE CurlInv
  OBVIOUS
<1>1. /\ curlFault = {} /\ exited = {} /\ inst = [i \in Instances |-> NoInst] /\ handle = [t \in Threads |-> NoHandle]
      /\ asked = [i \in Instances |-> 0] /\ busy = [t \in Threads |-> None]
  BY Zenon DEF CurlInit
<1>2. 0 \in Nat
  OBVIOUS
<1>3. CurlType
  BY Zenon, <1>1, <1>2, NoInstType, NoHandleType DEF CurlType
<1>4. (\A i \in Instances : inst[i] = NoInst) /\ (\A t \in Threads : handle[t] = NoHandle /\ busy[t] = None) /\ (\A i \in Instances : asked[i] = 0)
  BY Zenon, <1>1
<1>5. HandlesExist /\ BusyIsLive /\ HandleDelivers /\ AskedIsLive
  BY Zenon, <1>4, NoInstType, NoHandleType DEF HandlesExist, HandleIsLive, BusyIsLive, HandleDelivers, AskedIsLive
<1>6. SoleAsked /\ SoleReceiving /\ SoleReceived
  BY Zenon, <1>4, NoInstType DEF SoleAsked, SoleReceiving, SoleReceived
<1>7. OverflowNeedsLarge /\ FaultNeedsMisuse
  BY Zenon, <1>1 DEF OverflowNeedsLarge, FaultNeedsMisuse
<1> QED
  BY Zenon, <1>3, <1>5, <1>6, <1>7 DEF CurlInv, CurlWorks, CurlType

\* ResponseIsOwn for any instances, threads, requests and size of the buffer: with one
\* instance for each thread a request that succeeded left its own response, and no
\* use of a handle by its own thread meets freed memory or another thread.
THEOREM ResponseIsOwnHolds == CurlSpec => []ResponseIsOwn
<1>1. CurlInv => ResponseIsOwn
  <2>1. SUFFICES ASSUME CurlInv PROVE ResponseIsOwn
    OBVIOUS
  <2>2. OwnResponse
    <3>1. SUFFICES ASSUME callers = "sole", NEW i \in Instances, inst[i].ok
                   PROVE  core_get_data(i, BufSize) = [k \in 1..inst[i].req |-> inst[i].req]
      BY Zenon DEF OwnResponse
    <3>2. inst[i] \in Insts /\ Received(inst[i])
      BY Zenon, <2>1, <3>1 DEF CurlInv, SoleReceived
    <3> QED
      BY Zenon, <3>2, ReceivedIsCopied
  <2> QED
    BY Zenon, <2>1, <2>2 DEF ResponseIsOwn, CurlInv
<1> QED
  BY <1>1, CurlStart, CurlStep, PTL DEF CurlSpec

-----------------------------------------------------------------------------
(* Sockets.                                                                *)

SocketType ==
  /\ client \in {"socket", "helper"} /\ fd_ \in Int /\ helper \in Int /\ given \in Int
  /\ owner \in [Fds -> {"free", "other", "mine"}] /\ peer \in {"none", "pending", "established", "refused"}

\* The descriptor that is the object's is the one in fd_ unless setfd replaced it, and fd_
\* holds no other than that, 0 and those given to setfd; before create it holds whatever
\* was in memory.
FdIsMine ==
  /\ \A f \in Fds : owner[f] = "mine" => ready /\ client = "socket" /\ (adopted = {} => f = fd_)
  /\ ready /\ fd_ > 0 /\ client = "socket" /\ fd_ \notin adopted => fd_ \in Fds /\ owner[fd_] = "mine" /\ "O_NONBLOCK" \in opts
  /\ ~ready => fd_ = garbage

\* SendHelper holds what it was given, or nothing that is open.
HelperHolds ==
  /\ helper = given \/ helper < 0
  /\ client = "helper" /\ lastCall.op = "create" => lastCall.ret = CREATE_ERROR

\* A connect that select gave up left no descriptor.
GaveUp == lastCall.op = "connect" /\ lastCall.ret \in {CONNECT_TIMEOUT, GET_APP_ERROR} => fd_ = -1

\* While connect waits in select, the handshake has begun.
Waiting == lastCall.op = "connecting" => ready /\ client = "socket" /\ peer # "none"

SocketInv ==
  /\ SocketType /\ FdIsMine /\ HelperHolds /\ GaveUp /\ Waiting
  /\ ForeignHits /\ ConnectedUnlessUnmarked /\ ReadsBack

States == {"free", "other", "mine"}

\* ::socket and ::accept find a free descriptor unless the table is full.
LEMMA LowestIsFree ==
  ASSUME SocketType, ~Full
  PROVE  Lowest \in Fds /\ owner[Lowest] = "free"
<1> DEFINE T == {f \in Fds : owner[f] = "free"}
<1>1. T \subseteq Nat
  BY MaxFdAssumption DEF Fds
<1>2. T # {}
  BY Zenon DEF Full
<1>3. IsWellFoundedOn(OpToRel(<, Nat), Nat)
  BY NatLessThanWellFounded
<1> HIDE DEF T
<1>4. PICK x \in T : \A y \in T : ~(<<y, x>> \in OpToRel(<, Nat))
  BY Zenon, <1>1, <1>2, <1>3, WFMin
<1>5. ASSUME NEW y \in T PROVE x <= y
  <2>1. x \in Nat /\ y \in Nat
    BY <1>1
  <2>2. ~(y < x)
    BY Zenon, <1>4, <2>1 DEF OpToRel
  <2> QED
    BY <2>1, <2>2
<1>6. \E f \in Fds : owner[f] = "free" /\ \A g \in Fds : owner[g] = "free" => f <= g
  BY Zenon, <1>4, <1>5 DEF T
<1> QED
  BY Zenon, <1>6 DEF Lowest

\* f is free, and the other descriptors are as before.
Closed(f, table, after) ==
  /\ after \in [Fds -> States]
  /\ \A g \in Fds : (g = f => after[g] = "free") /\ (g # f => after[g] = table[g])
LEMMA CloseFacts ==
  ASSUME NEW f, NEW table \in [Fds -> States]
  PROVE  Closed(f, table, Close(f, table))
BY Zenon DEF Close, Closed, States

\* What close hits is f alone, and only where it is of others.
LEMMA HitsFacts ==
  ASSUME NEW f, NEW table
  PROVE  /\ Hits(f, table) \subseteq hit \cup {f}
         /\ (f \in Fds => table[f] # "other") => Hits(f, table) = hit
BY Zenon DEF Hits

\* What the other conjuncts say of the last call.
LastIs(op) == lastCall'.op = op /\ op \notin {"connect", "connecting", "setOption", "create"}
LEMMA LastIsOther ==
  ASSUME NEW op, LastIs(op)
  PROVE  /\ GaveUp' /\ Waiting' /\ ConnectedUnlessUnmarked' /\ ReadsBack'
         /\ ~(client' = "helper" /\ lastCall'.op = "create")
BY Zenon DEF LastIs, GaveUp, Waiting, ConnectedUnlessUnmarked, ReadsBack

\* Steps that leave fd_ alone, and which descriptor is the object's.
SameMine ==
  /\ owner' \in [Fds -> States] /\ \A g \in Fds : owner'[g] = "mine" <=> owner[g] = "mine"
  /\ UNCHANGED <<client, fd_, garbage, adopted, ready>> /\ ("O_NONBLOCK" \in opts => "O_NONBLOCK" \in opts')
LEMMA MineIsKept ==
  ASSUME FdIsMine, SameMine
  PROVE  FdIsMine'
<1>1. \A f \in Fds : owner'[f] = "mine" => ready' /\ client' = "socket" /\ (adopted' = {} => f = fd_')
  BY Zenon DEF FdIsMine, SameMine
<1>2. ready' /\ fd_' > 0 /\ client' = "socket" /\ fd_' \notin adopted' => fd_' \in Fds /\ owner'[fd_'] = "mine" /\ "O_NONBLOCK" \in opts'
  BY Zenon DEF FdIsMine, SameMine
<1>3. ~ready' => fd_' = garbage'
  BY Zenon DEF FdIsMine, SameMine
<1> QED
  BY Zenon, <1>1, <1>2, <1>3 DEF FdIsMine

\* Steps after which fd_ holds no descriptor, and the object has none but one that setfd
\* made it lose.
NoMine ==
  /\ \A g \in Fds : owner'[g] = "mine" => client' = "socket" /\ adopted' # {}
  /\ ready' /\ (client' = "socket" => ~(fd_' > 0))
LEMMA NoneIsMine ==
  ASSUME NoMine
  PROVE  FdIsMine'
BY Zenon DEF NoMine, FdIsMine

LEMMA TypeIs ==
  ASSUME SocketType, client' = client, fd_' \in Int, helper' \in Int, given' \in Int, owner' \in [Fds -> States],
         peer' \in {"none", "pending", "established", "refused"}
  PROVE  SocketType'
BY Zenon DEF SocketType, States

-----------------------------------------------------------------------------
(* The actions of SocketImpl.                                              *)

LEMMA OtherFilesStep ==
  ASSUME SocketInv, OtherFiles, client' = client
  PROVE  SocketInv'
<1>1. SocketType /\ FdIsMine /\ owner \in [Fds -> States]
  BY Zenon DEF SocketInv, SocketType, States
<1>2. PICK f \in Fds : \/ owner[f] = "free" /\ owner' = [owner EXCEPT ![f] = "other"]
                       \/ owner[f] = "other" /\ owner' = [owner EXCEPT ![f] = "free"]
  BY Zenon DEF OtherFiles
<1>3. "mine" # "free" /\ "mine" # "other"
  OBVIOUS
<1>4. owner' \in [Fds -> States] /\ \A g \in Fds : owner'[g] = "mine" <=> owner[g] = "mine"
  BY Zenon, <1>1, <1>2, <1>3 DEF States
<1>5. UNCHANGED <<fd_, opts, peer, lastCall, helper, given, garbage, adopted, hit, ready>>
  BY Zenon DEF OtherFiles
<1>6. FdIsMine'
  BY Zenon, <1>1, <1>4, <1>5, MineIsKept DEF SameMine
<1>7. SocketType'
  BY Zenon, <1>1, <1>4, <1>5, TypeIs DEF SocketType
<1> QED
  BY Zenon, <1>5, <1>6, <1>7 DEF SocketInv, HelperHolds, GaveUp, Waiting, ForeignHits, ConnectedUnlessUnmarked, ReadsBack, getOption

LEMMA CreateStep ==
  ASSUME SocketInv, create(client = "socket"), client' = client
  PROVE  SocketInv'
<1>1. /\ SocketType /\ FdIsMine /\ owner \in [Fds -> States] /\ ~ready /\ ready' /\ fd_ = garbage
      /\ \A f \in Fds : owner[f] # "mine"
      /\ UNCHANGED <<peer, helper, given, garbage, adopted>>
  BY Zenon DEF SocketInv, SocketType, FdIsMine, States, create
<1>2. lastCall'.op = "create" /\ (client = "helper" => lastCall'.ret = CREATE_ERROR)
  BY DEF create, Call
<1>3. GaveUp' /\ Waiting' /\ ConnectedUnlessUnmarked' /\ ReadsBack'
  <2>1. "create" # "connect" /\ "create" # "connecting" /\ "create" # "setOption"
    OBVIOUS
  <2> QED
    BY Zenon, <1>2, <2>1 DEF GaveUp, Waiting, ConnectedUnlessUnmarked, ReadsBack
<1>4. HelperHolds'
  BY Zenon, <1>1, <1>2 DEF HelperHolds, SocketInv
<1>5. ASSUME fd_' \in Int, owner' \in [Fds -> States], FdIsMine', ForeignHits' PROVE SocketInv'
  BY Zenon, <1>1, <1>3, <1>4, <1>5, TypeIs DEF SocketInv, SocketType
<1>6. ASSUME hit' = hit PROVE ForeignHits'
  BY Zenon, <1>1, <1>6 DEF ForeignHits, SocketInv
<1>7. 0 \in Int /\ -1 \in Int /\ ~(0 > 0) /\ ~(-1 > 0)
  OBVIOUS
<1>8. CASE /\ client = "socket" /\ ~Full /\ fd_' = Lowest /\ owner' = [owner EXCEPT ![Lowest] = "mine"]
           /\ opts' = {"O_NONBLOCK", "FD_CLOEXEC"} /\ UNCHANGED hit
  <2>1. Lowest \in Fds
    BY Zenon, <1>1, <1>8, LowestIsFree
  <2>2. /\ owner' \in [Fds -> States] /\ owner'[Lowest] = "mine"
        /\ \A g \in Fds : g # Lowest => owner'[g] = owner[g]
    BY Zenon, <1>1, <1>8, <2>1 DEF States
  <2>3. fd_' \in Int
    BY <1>8, <2>1 DEF Fds
  <2>4. FdIsMine'
    BY Zenon, <1>1, <1>8, <2>1, <2>2 DEF FdIsMine
  <2> QED
    BY Zenon, <1>5, <1>6, <1>8, <2>2, <2>3, <2>4
<1>9. CASE client = "socket" /\ ~Full /\ CreateError(Lowest, [owner EXCEPT ![Lowest] = "mine"])
  <2>1. Lowest \in Fds
    BY Zenon, <1>1, <1>9, LowestIsFree
  <2>2. PICK table : table = [owner EXCEPT ![Lowest] = "mine"]
    BY Zenon
  <2>3. table \in [Fds -> States] /\ table[Lowest] = "mine" /\ \A g \in Fds : g # Lowest => table[g] = owner[g]
    BY Zenon, <1>1, <2>1, <2>2 DEF States
  <2>4. owner' = Close(Lowest, table) /\ hit' = Hits(Lowest, table) /\ fd_' = 0
    BY Zenon, <1>9, <2>2 DEF CreateError
  <2>5. Closed(Lowest, table, owner')
    BY Zenon, <2>3, <2>4, CloseFacts
  <2>6. "mine" # "free" /\ "mine" # "other"
    OBVIOUS
  <2>7. owner' \in [Fds -> States] /\ \A g \in Fds : owner'[g] # "mine"
    BY Zenon, <1>1, <2>3, <2>5, <2>6 DEF Closed
  <2>8. hit' = hit
    BY Zenon, <2>3, <2>4, <2>6, HitsFacts
  <2>9. FdIsMine'
    BY Zenon, <1>1, <1>7, <2>4, <2>7, NoneIsMine DEF NoMine
  <2> QED
    BY Zenon, <1>5, <1>6, <1>7, <2>4, <2>7, <2>8, <2>9
<1>10. CASE client = "socket" /\ fd_' = -1 /\ UNCHANGED <<owner, opts, hit>>
  <2>1. FdIsMine'
    BY Zenon, <1>1, <1>7, <1>10, NoneIsMine DEF NoMine
  <2> QED
    BY Zenon, <1>1, <1>5, <1>6, <1>7, <1>10, <2>1
<1>11. CASE client # "socket" /\ CreateError(fd_, owner)
  <2>1. owner' = Close(fd_, owner) /\ hit' = Hits(fd_, owner) /\ fd_' = 0
    BY Zenon, <1>11 DEF CreateError
  <2>2. Closed(fd_, owner, owner')
    BY Zenon, <1>1, <2>1, CloseFacts
  <2>3. owner' \in [Fds -> States] /\ \A g \in Fds : owner'[g] # "mine"
    <3>1. "mine" # "free"
      OBVIOUS
    <3> QED
      BY Zenon, <1>1, <2>2, <3>1 DEF Closed
  <2>4. FdIsMine'
    BY Zenon, <1>1, <1>7, <2>1, <2>3, NoneIsMine DEF NoMine
  <2>5. ForeignHits'
    <3>1. hit' \subseteq hit \cup {fd_} /\ hit \subseteq {garbage}
      BY Zenon, <1>11, <2>1, HitsFacts DEF SocketInv, ForeignHits
    <3>2. hit' \subseteq {garbage}
      BY Zenon, <1>1, <3>1
    <3> QED
      BY Zenon, <1>1, <1>11, <3>2 DEF ForeignHits
  <2> QED
    BY Zenon, <1>5, <1>7, <2>1, <2>3, <2>4, <2>5
<1> QED
  BY Zenon, <1>8, <1>9, <1>10, <1>11 DEF create

\* fd_ is closed: where it is of others, it is 0 or was given to setfd.
Gives == fd_' = -1 /\ owner' = Close(fd_, owner) /\ hit' = Hits(fd_, owner) /\ UNCHANGED <<helper, given, garbage, adopted, ready>>
Given == SocketType' /\ FdIsMine' /\ ForeignHits' /\ fd_' = -1
LEMMA GivesUp ==
  ASSUME SocketInv, Gives, client = "socket", client' = client, ready, peer' = "none"
  PROVE  Given
<1>1. /\ SocketType /\ FdIsMine /\ owner \in [Fds -> States] /\ ready'
      /\ UNCHANGED <<helper, given, garbage, adopted>>
      /\ owner' = Close(fd_, owner) /\ hit' = Hits(fd_, owner) /\ fd_' = -1
  BY Zenon DEF SocketInv, SocketType, States, Gives
<1>3. Closed(fd_, owner, owner')
  BY Zenon, <1>1, CloseFacts
<1>4. owner' \in [Fds -> States] /\ \A g \in Fds : owner'[g] = "mine" => adopted' # {}
  <2>1. "mine" # "free"
    OBVIOUS
  <2> QED
    BY Zenon, <1>1, <1>3, <2>1 DEF Closed, FdIsMine
<1>5. -1 \in Int /\ ~(-1 > 0)
  OBVIOUS
<1>6. FdIsMine'
  BY Zenon, <1>1, <1>4, <1>5, NoneIsMine DEF NoMine
<1>7. SocketType'
  BY Zenon, <1>1, <1>4, <1>5, TypeIs DEF SocketType
<1>8. ForeignHits'
  <2>1. hit \subseteq {0} \cup adopted
    BY Zenon DEF SocketInv, ForeignHits
  <2>2. CASE fd_ \in Fds /\ owner[fd_] = "other"
    <3>1. ~(fd_ > 0) \/ fd_ \in adopted
      BY <1>1, <2>2 DEF FdIsMine
    <3>2. fd_ \in {0} \cup adopted
      BY <2>2, <3>1, MaxFdAssumption DEF Fds
    <3>3. hit' \subseteq hit \cup {fd_}
      BY Zenon, <1>1, HitsFacts
    <3>4. hit' \subseteq {0} \cup adopted'
      BY Zenon, <1>1, <2>1, <3>2, <3>3
    <3> QED
      BY Zenon, <3>4 DEF ForeignHits
  <2>3. CASE ~(fd_ \in Fds /\ owner[fd_] = "other")
    <3>1. hit' = hit
      BY Zenon, <1>1, <2>3, HitsFacts
    <3> QED
      BY Zenon, <1>1, <2>1, <3>1 DEF ForeignHits
  <2> QED
    BY <2>2, <2>3
<1> QED
  BY Zenon, <1>1, <1>6, <1>7, <1>8 DEF Given

LEMMA CloseStep ==
  ASSUME SocketInv, close, client = "socket", client' = client
  PROVE  SocketInv'
<1>1. Gives /\ ready /\ peer' = "none" /\ UNCHANGED <<helper, given>>
  BY Zenon DEF close, Gives, Idle
<1>2. LastIs("close")
  BY DEF close, Call, LastIs
<1>3. Given
  BY Zenon, <1>1, GivesUp
<1>4. HelperHolds'
  BY Zenon, <1>1, <1>2, LastIsOther DEF HelperHolds, SocketInv
<1> QED
  BY Zenon, <1>2, <1>3, <1>4, LastIsOther DEF SocketInv, Given

\* Steps of connect that keep the descriptor.
LEMMA KeepsFd ==
  ASSUME SocketInv, client' = client, UNCHANGED <<fd_, owner, opts, helper, given, garbage, adopted, hit, ready>>,
         peer' \in {"none", "pending", "established", "refused"}
  PROVE  SocketType' /\ FdIsMine' /\ ForeignHits'
<1>1. SocketType /\ FdIsMine /\ ForeignHits /\ owner \in [Fds -> States]
  BY Zenon DEF SocketInv, SocketType, States
<1>2. FdIsMine'
  BY Zenon, <1>1, MineIsKept DEF SameMine
<1>3. SocketType'
  BY Zenon, <1>1, TypeIs DEF SocketType
<1> QED
  BY Zenon, <1>1, <1>2, <1>3 DEF ForeignHits

LEMMA ConnectStep ==
  ASSUME SocketInv, connect, client = "socket", client' = client
  PROVE  SocketInv'
<1>1. /\ UNCHANGED <<fd_, owner, opts, helper, given, garbage, adopted, hit, ready>>
      /\ ready /\ peer = "none" /\ "none" # "pending" /\ "pending" # "established"
  BY DEF connect, Usable, Idle
<1>2. \/ peer' = "established" /\ lastCall'.op = "connect" /\ lastCall'.ret = 0
      \/ peer' = "none" /\ lastCall'.op = "connect" /\ lastCall'.ret = CONNECT_ERROR
      \/ peer' = "pending" /\ lastCall'.op = "connecting"
  BY <1>1 DEF connect, Call
<1>3. "connect" # "connecting" /\ {"connect", "connecting"} \cap {"setOption", "create"} = {}
  OBVIOUS
<1>4. SocketType' /\ FdIsMine' /\ ForeignHits'
  BY Zenon, <1>1, <1>2, KeepsFd
<1>5. HelperHolds' /\ ReadsBack'
  BY Zenon, <1>1, <1>2, <1>3 DEF HelperHolds, ReadsBack, SocketInv
<1>6. Waiting'
  BY Zenon, <1>1, <1>2, <1>3 DEF Waiting
<1>7. GaveUp'
  BY <1>2 DEF GaveUp, CONNECT_ERROR, CONNECT_TIMEOUT, GET_APP_ERROR
<1>8. ConnectedUnlessUnmarked'
  BY <1>2 DEF ConnectedUnlessUnmarked, CONNECT_ERROR
<1> QED
  BY Zenon, <1>4, <1>5, <1>6, <1>7, <1>8 DEF SocketInv

\* A handshake ends only while connect waits: what the last call returned stays true.
LEMMA HandshakeStep ==
  ASSUME SocketInv, Handshake, client' = client
  PROVE  SocketInv'
<1>1. /\ UNCHANGED <<fd_, owner, opts, lastCall, helper, given, garbage, adopted, hit, ready>>
      /\ peer = "pending" /\ peer' \in {"established", "refused"}
      /\ "pending" \notin {"none", "established", "refused"} /\ "none" \notin {"established", "refused"}
  BY DEF Handshake
<1>2. SocketType' /\ FdIsMine' /\ ForeignHits'
  BY Zenon, <1>1, KeepsFd
<1>3. lastCall.op # "connect"
  BY Zenon, <1>1 DEF SocketInv, ConnectedUnlessUnmarked
<1>4. ConnectedUnlessUnmarked' /\ GaveUp' /\ Waiting'
  BY Zenon, <1>1, <1>3 DEF ConnectedUnlessUnmarked, GaveUp, Waiting, SocketInv
<1> QED
  BY Zenon, <1>1, <1>2, <1>4 DEF SocketInv, HelperHolds, ReadsBack, getOption

LEMMA SelectedStep ==
  ASSUME SocketInv, selected, client' = client
  PROVE  SocketInv'
<1>1. /\ client = "socket" /\ ready /\ peer \in {"pending", "established", "refused"}
      /\ UNCHANGED <<helper, given, garbage, adopted, ready>>
  BY Zenon DEF selected, SocketInv, Waiting, SocketType
<1>2. lastCall'.op = "connect"
  BY DEF selected, ConnectCloses, ConnectReturns, Call
<1>3. "connect" # "connecting" /\ "connect" # "setOption" /\ "connect" # "create"
  OBVIOUS
<1>4. HelperHolds' /\ ReadsBack' /\ Waiting'
  BY Zenon, <1>1, <1>2, <1>3 DEF HelperHolds, ReadsBack, Waiting, SocketInv
<1>5. ASSUME NEW ret \in {CONNECT_ERROR, CONNECT_TIMEOUT, GET_APP_ERROR}, ConnectCloses(ret) PROVE SocketInv'
  <2>1. Gives /\ peer' = "none"
    BY Zenon, <1>1, <1>5 DEF ConnectCloses, Gives
  <2>2. Given
    BY Zenon, <1>1, <2>1, GivesUp
  <2>3. lastCall'.ret # 0
    BY <1>5 DEF ConnectCloses, Call, CONNECT_ERROR, CONNECT_TIMEOUT, GET_APP_ERROR
  <2>4. ConnectedUnlessUnmarked' /\ GaveUp'
    BY Zenon, <2>1, <2>2, <2>3 DEF ConnectedUnlessUnmarked, GaveUp, Given
  <2> QED
    BY Zenon, <1>4, <2>2, <2>4 DEF SocketInv, Given
<1>6. CASE ConnectReturns
  <2>1. peer # "pending" /\ UNCHANGED <<fd_, owner, opts, peer, hit>>
    BY Zenon, <1>6 DEF ConnectReturns
  <2>2. lastCall'.ret = 0 /\ (peer = "refused" => lastCall'.env = "unmarked")
    BY <1>6 DEF ConnectReturns, Call
  <2>3. SocketType' /\ FdIsMine' /\ ForeignHits'
    BY Zenon, <1>1, <2>1, KeepsFd
  <2>4. ConnectedUnlessUnmarked'
    BY Zenon, <1>1, <2>1, <2>2 DEF ConnectedUnlessUnmarked
  <2>5. GaveUp'
    BY <2>2 DEF GaveUp, CONNECT_TIMEOUT, GET_APP_ERROR
  <2> QED
    BY Zenon, <1>4, <2>3, <2>4, <2>5 DEF SocketInv
<1> QED
  BY Zenon, <1>5, <1>6 DEF selected

\* setfd leaves the descriptor that fd_ held open.
LEMMA AdoptStep ==
  ASSUME SocketInv, client' = client, NEW f \in Fds, setfd(f)
  PROVE  SocketInv'
<1>1. /\ UNCHANGED <<owner, helper, given, garbage, hit>> /\ client = "socket" /\ ready'
      /\ fd_' = f /\ adopted' = adopted \cup {f} /\ peer' = "none"
  BY Zenon DEF setfd
<1>2. LastIs("setfd")
  BY DEF setfd, Call, LastIs
<1>3. f \in Int
  BY DEF Fds
<1>4. SocketType'
  BY Zenon, <1>1, <1>3, TypeIs DEF SocketInv, SocketType, States
<1>5. FdIsMine'
  BY Zenon, <1>1 DEF FdIsMine
<1>6. ForeignHits'
  BY Zenon, <1>1 DEF SocketInv, ForeignHits
<1>7. HelperHolds'
  BY Zenon, <1>1, <1>2, LastIsOther DEF SocketInv, HelperHolds
<1> QED
  BY Zenon, <1>2, <1>4, <1>5, <1>6, <1>7, LastIsOther DEF SocketInv

\* Calls that leave the descriptors of the object alone.
LEMMA QuietStep ==
  ASSUME SocketInv, NEW op, LastIs(op), SameMine, UNCHANGED <<peer, given, hit>>,
         helper' \in Int, helper' = helper \/ helper' < 0
  PROVE  SocketInv'
<1>1. FdIsMine'
  BY Zenon, MineIsKept DEF SocketInv
<1>2. SocketType'
  BY Zenon, TypeIs DEF SocketInv, SocketType, SameMine
<1>3. HelperHolds'
  BY Zenon, LastIsOther DEF SocketInv, HelperHolds
<1>4. ForeignHits'
  BY Zenon DEF SocketInv, ForeignHits, SameMine
<1> QED
  BY Zenon, <1>1, <1>2, <1>3, <1>4, LastIsOther DEF SocketInv

LEMMA CallStep ==
  ASSUME SocketInv, client = "socket", client' = client, bind \/ accept \/ \E n \in {-1, 0, 5} : listen(n)
  PROVE  SocketInv'
<1>1. SocketType /\ owner \in [Fds -> States]
  BY Zenon DEF SocketInv, SocketType, States
<1>2. UNCHANGED <<fd_, opts, peer, helper, given, garbage, adopted, hit, ready>>
  BY Zenon DEF bind, accept, listen
<1>3. LastIs("bind") \/ LastIs("accept") \/ LastIs("listen")
  BY DEF bind, accept, listen, Call, LastIs
<1>4. owner' \in [Fds -> States] /\ \A g \in Fds : owner'[g] = "mine" <=> owner[g] = "mine"
  <2>1. CASE owner' = owner
    BY Zenon, <1>1, <2>1
  <2>2. CASE ~Full /\ owner' = [owner EXCEPT ![Lowest] = "other"]
    <3>1. Lowest \in Fds /\ owner[Lowest] = "free" /\ "free" # "mine" /\ "other" # "mine"
      BY <1>1, <2>2, LowestIsFree
    <3> QED
      BY Zenon, <1>1, <2>2, <3>1 DEF States
  <2> QED
    BY Zenon, <2>1, <2>2 DEF bind, accept, listen
<1>5. SameMine
  BY Zenon, <1>2, <1>4 DEF SameMine
<1>6. helper' \in Int /\ helper' = helper
  BY Zenon, <1>1, <1>2 DEF SocketType
<1> QED
  BY Zenon, <1>2, <1>3, <1>5, <1>6, QuietStep

LEMMA SetOptionStep ==
  ASSUME SocketInv, client = "socket", client' = client, NEW o \in Options, NEW on \in BOOLEAN, SetOption(o, on)
  PROVE  SocketInv'
<1>1. /\ UNCHANGED <<fd_, owner, peer, helper, given, garbage, adopted, hit, ready>>
      /\ opts' = setOption(o, on)
  BY Zenon DEF SetOption
<1>2. /\ lastCall'.op = "setOption" /\ lastCall'.ret = o /\ lastCall'.env = IF on THEN "on" ELSE "off"
      /\ "setOption" # "connect" /\ "setOption" # "connecting" /\ "setOption" # "create" /\ "on" # "off"
  BY DEF SetOption, Call
<1>3. SameMine
  BY Zenon, <1>1 DEF SameMine, setOption, Sticky, SocketInv, SocketType, States
<1>4. FdIsMine' /\ SocketType' /\ ForeignHits' /\ HelperHolds' /\ GaveUp' /\ Waiting' /\ ConnectedUnlessUnmarked'
  <2>1. FdIsMine'
    BY Zenon, <1>3, MineIsKept DEF SocketInv
  <2>2. SocketType'
    BY Zenon, <1>1 DEF SocketInv, SocketType
  <2> QED
    BY Zenon, <1>1, <1>2, <2>1, <2>2 DEF SocketInv, ForeignHits, HelperHolds, GaveUp, Waiting, ConnectedUnlessUnmarked
<1>5. ReadsBack'
  <2>1. CASE on
    <3>1. o \in opts'
      BY Zenon, <1>1, <2>1 DEF setOption
    <3>2. getOption(o)' = (o # "O_NONBLOCK")
      BY <3>1 DEF getOption
    <3> QED
      BY <1>2, <2>1, <3>2 DEF ReadsBack, getOption
  <2>2. CASE ~on /\ o \notin Sticky
    <3>1. o \notin opts' /\ o # "O_NONBLOCK"
      BY Zenon, <1>1, <2>2 DEF setOption, Sticky
    <3>2. ~getOption(o)'
      BY Zenon, <3>1 DEF getOption
    <3> QED
      BY <1>2, <2>2, <3>1, <3>2 DEF ReadsBack, getOption
  <2>3. CASE ~on /\ o \in Sticky
    BY <1>2, <2>3 DEF ReadsBack
  <2> QED
    BY <2>1, <2>2, <2>3
<1> QED
  BY Zenon, <1>4, <1>5 DEF SocketInv

-----------------------------------------------------------------------------
(* The actions of SendHelper.                                              *)

LEMMA SetFdStep ==
  ASSUME SocketInv, client' = client, NEW f \in Fds, setFd(f)
  PROVE  SocketInv'
<1>1. UNCHANGED <<fd_, owner, opts, peer, lastCall, garbage, adopted, hit, ready>> /\ helper' = f /\ given' = f
  BY Zenon DEF setFd
<1>2. f \in Int
  BY DEF Fds
<1>3. FdIsMine'
  BY Zenon, <1>1, MineIsKept DEF SocketInv, SameMine, SocketType, States
<1>4. SocketType'
  BY Zenon, <1>1, <1>2 DEF SocketInv, SocketType
<1> QED
  BY Zenon, <1>1, <1>3, <1>4 DEF SocketInv, HelperHolds, GaveUp, Waiting, ForeignHits, ConnectedUnlessUnmarked, ReadsBack, getOption

LEMMA SendStep ==
  ASSUME SocketInv, client' = client, SendMessage \/ SendEmpty
  PROVE  SocketInv'
<1>1. UNCHANGED <<fd_, owner, opts, peer, given, garbage, adopted, hit, ready>>
  BY Zenon DEF SendMessage, SendEmpty
<1>2. LastIs("sendMessage")
  BY DEF SendMessage, SendEmpty, Call, LastIs
<1>3. SameMine
  BY Zenon, <1>1 DEF SocketInv, SameMine, SocketType, States
<1>4. helper' \in Int /\ (helper' = helper \/ helper' < 0)
  <2>1. CASE SendMessage
    <3>1. helper' = CREATE_ERROR
      BY Zenon, <2>1 DEF SendMessage, Sent, SocketInv, HelperHolds
    <3> QED
      BY <3>1 DEF CREATE_ERROR
  <2>2. CASE SendEmpty
    BY Zenon, <2>2 DEF SendEmpty, SocketInv, SocketType
  <2> QED
    BY Zenon, <2>1, <2>2
<1> QED
  BY Zenon, <1>1, <1>2, <1>3, <1>4, QuietStep

LEMMA DestroyHelperStep ==
  ASSUME SocketInv, client' = client, DestroyHelper
  PROVE  SocketInv'
<1>1. /\ SocketType /\ FdIsMine /\ HelperHolds /\ owner \in [Fds -> States] /\ client = "helper" /\ ready'
      /\ UNCHANGED <<fd_, peer, given, garbage, adopted>> /\ helper' = -1
      /\ owner' = owner \/ owner' = Close(helper, owner)
  BY Zenon DEF SocketInv, SocketType, States, DestroyHelper
<1>2. LastIs("destroy") /\ "helper" # "socket" /\ "mine" # "free"
  BY DEF DestroyHelper, Call, LastIs
<1>3. \A g \in Fds : owner[g] # "mine"
  BY Zenon, <1>1, <1>2 DEF FdIsMine
<1>4. owner' \in [Fds -> States] /\ \A g \in Fds : owner'[g] # "mine"
  <2>1. CASE owner' = Close(helper, owner)
    <3>1. Closed(helper, owner, owner')
      BY Zenon, <1>1, <2>1, CloseFacts
    <3> QED
      BY Zenon, <1>2, <1>3, <3>1 DEF Closed
  <2> QED
    BY Zenon, <1>1, <1>3, <2>1
<1>5. FdIsMine'
  BY Zenon, <1>1, <1>2, <1>4, NoneIsMine DEF NoMine
<1>6. -1 \in Int /\ -1 < 0
  OBVIOUS
<1>7. SocketType'
  BY Zenon, <1>1, <1>4, <1>6, TypeIs DEF SocketType
<1>8. hit' = hit
  <2>1. CASE helper = given
    BY Zenon, <2>1 DEF DestroyHelper
  <2>2. CASE helper # given
    <3>1. helper < 0
      BY Zenon, <1>1, <2>2 DEF HelperHolds
    <3>2. helper \notin Fds
      BY <1>1, <3>1 DEF Fds, SocketType
    <3>3. Hits(helper, owner) = hit
      BY Zenon, <3>2, HitsFacts
    <3> QED
      BY Zenon, <2>2, <3>3 DEF DestroyHelper
  <2> QED
    BY <2>1, <2>2
<1>9. ForeignHits' /\ HelperHolds'
  BY Zenon, <1>1, <1>2, <1>6, <1>8, LastIsOther DEF SocketInv, ForeignHits, HelperHolds
<1> QED
  BY Zenon, <1>2, <1>5, <1>7, <1>9, LastIsOther DEF SocketInv

LEMMA SocketStep ==
  ASSUME SocketInv, [SocketNext]_soc
  PROVE  SocketInv'
<1>1. CASE UNCHANGED soc
  <2>1. FdIsMine'
    BY Zenon, <1>1, MineIsKept DEF soc, SocketInv, SameMine, SocketType, States
  <2> QED
    BY Zenon, <1>1, <2>1 DEF soc, SocketInv, SocketType, HelperHolds, GaveUp, Waiting, ForeignHits, ConnectedUnlessUnmarked,
         ReadsBack, getOption
<1>2. CASE SocketNext
  <2>1. client' = client
    BY Zenon, <1>2 DEF SocketNext
  <2>2. CASE client = "socket" /\ (connect \/ close \/ bind \/ accept)
    BY Zenon, <2>1, <2>2, ConnectStep, CloseStep, CallStep
  <2>3. CASE \E n \in {-1, 0, 5} : client = "socket" /\ listen(n)
    BY <2>1, <2>3, CallStep
  <2> QED
    BY Zenon, <1>2, <2>1, <2>2, <2>3, OtherFilesStep, CreateStep, HandshakeStep, SelectedStep, SetOptionStep, SetFdStep, AdoptStep, SendStep, DestroyHelperStep
       DEF SocketNext
<1> QED
  BY Zenon, <1>1, <1>2

\* The object's descriptor is its own from create to close, descriptors of others are
\* closed only through the 0, the garbage or what setfd left in fd_, and connect and getOption tell the truth.
THEOREM SocketIsOwnHolds == SocketSpec => []SocketIsOwn
<1>1. SocketInit => SocketInv
  <2> SUFFICES ASSUME SocketInit PROVE SocketInv
    OBVIOUS
  <2>1. fd_ \in Int /\ helper \in Int /\ given \in Int
    BY DEF SocketInit, Fds
  <2>2. /\ owner \in [Fds -> {"free", "other", "mine"}] /\ \A f \in Fds : owner[f] # "mine"
    BY DEF SocketInit
  <2>3. lastCall.op = "none" /\ "none" \notin {"connect", "connecting", "create", "setOption"}
    BY DEF SocketInit
  <2>4. /\ client \in {"socket", "helper"} /\ helper = given /\ ~ready /\ fd_ = garbage /\ hit = {} /\ peer = "none"
    BY Zenon DEF SocketInit
  <2>5. SocketType /\ FdIsMine
    BY Zenon, <2>1, <2>2, <2>4 DEF SocketType, FdIsMine
  <2> QED
    BY Zenon, <2>3, <2>4, <2>5 DEF SocketInv, HelperHolds, GaveUp, Waiting, ForeignHits, ConnectedUnlessUnmarked, ReadsBack
<1>2. SocketInv /\ [SocketNext]_soc => SocketInv'
  BY Zenon, SocketStep
<1>3. SocketInv => SocketIsOwn
  <2> SUFFICES ASSUME SocketInv PROVE SocketIsOwn
    OBVIOUS
  <2>4. adopted = {} => \A f, g \in Fds : owner[f] = "mine" /\ owner[g] = "mine" => f = g
    BY Zenon DEF SocketInv, FdIsMine
  <2> QED
    BY Zenon, <2>4 DEF SocketInv, SocketIsOwn, OwnDescriptor, FdIsMine, GaveUp
<1> QED
  BY <1>1, <1>2, <1>3, PTL DEF SocketSpec

-----------------------------------------------------------------------------
(* Rpc.                                                                    *)

Fragments == [head : BOOLEAN, r : Requests]

\* The fragments q that were sent and not consumed: none is of a request still to be sent, a
\* request has one head, and until a read was ragged no request has its head both here, or
\* unsent, and among the ids seen.
QueueIs(q, un, ids, rag) ==
  /\ \A i \in 1..Len(q) : q[i].r \in Requests \ un
  /\ \A i, j \in 1..Len(q) : q[i].head /\ q[j].head /\ q[i].r = q[j].r => i = j
  /\ ~rag => /\ \A i \in 1..Len(q) : q[i].head => q[i].r.id \notin ids
             /\ \A r \in un : r.id \notin ids
RpcQueue ==
  /\ unsent \subseteq Requests /\ buff \in Seq(Fragments) /\ wire \in Seq(Fragments)
  /\ QueueIs(buff \o wire, unsent, seen, ragged)

\* A closure that a service keeps is for a request that was sent.
LateIsLater == \A x \in late : x.of \in Requests \ unsent /\ x.of.method = "later"

RpcInv == RpcQueue /\ LateIsLater /\ AnswerMatches /\ CalledIsKnown /\ FaultNeedsLate

\* A nonempty set of positions has a last one.
LEMMA LastExists ==
  ASSUME NEW n \in Nat, NEW at \in SUBSET (1..n), at # {}
  PROVE  \E i \in at : \A j \in at : j <= i
<1> DEFINE T == {d \in Nat : n - d \in at}
<1>1. T \subseteq Nat
  OBVIOUS
<1>2. T # {}
  <2>1. PICK a \in at : TRUE
    OBVIOUS
  <2>2. n - a \in Nat /\ n - (n - a) = a
    OBVIOUS
  <2> QED
    BY <2>1, <2>2
<1>3. IsWellFoundedOn(OpToRel(<, Nat), Nat)
  BY NatLessThanWellFounded
<1> HIDE DEF T
<1>4. PICK x \in T : \A y \in T : ~(<<y, x>> \in OpToRel(<, Nat))
  BY Zenon, <1>1, <1>2, <1>3, WFMin
<1>5. \A y \in T : ~(y < x)
  BY Zenon, <1>1, <1>4 DEF OpToRel
<1>6. x \in Nat /\ n - x \in at
  BY <1>4 DEF T
<1>7. ASSUME NEW j \in at PROVE j <= n - x
  <2>1. n - j \in Nat /\ n - (n - j) = j
    OBVIOUS
  <2>2. n - j \in T
    BY <2>1 DEF T
  <2> QED
    BY <1>5, <1>6, <2>1, <2>2
<1> QED
  BY <1>6, <1>7

\* What LastOf finds is the request of one of the fragments.
LEMMA LastOfFacts ==
  ASSUME NEW s \in Seq(Fragments), NEW h
  PROVE  \A x \in LastOf(s, h) : \E i \in 1..Len(s) : x = s[i].r
<1> SUFFICES ASSUME NEW x \in LastOf(s, h) PROVE \E i \in 1..Len(s) : x = s[i].r
  OBVIOUS
<1> DEFINE at == {i \in DOMAIN s : s[i].head = h}
<1>1. DOMAIN s = 1..Len(s) /\ Len(s) \in Nat
  OBVIOUS
<1>2. at \in SUBSET (1..Len(s))
  BY <1>1
<1>3. LastOf(s, h) = IF at = {} THEN {} ELSE {s[CHOOSE i \in at : \A j \in at : j <= i].r}
  BY Zenon DEF LastOf
<1> HIDE DEF at
<1>4. at # {} /\ x = s[CHOOSE i \in at : \A j \in at : j <= i].r
  BY Zenon, <1>3
<1>5. (CHOOSE i \in at : \A j \in at : j <= i) \in at
  BY Zenon, <1>1, <1>2, <1>4, LastExists
<1> QED
  BY Zenon, <1>2, <1>4, <1>5

\* st is t behind s; a are the first n elements of s and b the others.
JoinIs(F, s, t, st) ==
  /\ st \in Seq(F) /\ Len(st) = Len(s) + Len(t) /\ Len(s) \in Nat /\ Len(t) \in Nat
  /\ \A i \in 1..Len(s) : st[i] = s[i]
  /\ \A i \in 1..Len(t) : st[i + Len(s)] = t[i]
SplitIs(F, s, n, a, b) ==
  /\ a \in Seq(F) /\ Len(a) = n /\ \A i \in 1..n : a[i] = s[i]
  /\ b \in Seq(F) /\ Len(b) = Len(s) - n /\ \A i \in 1..Len(s) - n : b[i] = s[i + n]

LEMMA JoinFacts ==
  ASSUME NEW F, NEW s \in Seq(F), NEW t \in Seq(F)
  PROVE  JoinIs(F, s, t, s \o t)
BY DEF JoinIs

LEMMA SplitFacts ==
  ASSUME NEW F, NEW s \in Seq(F), NEW n \in Nat, n <= Len(s)
  PROVE  SplitIs(F, s, n, SubSeq(s, 1, n), SubSeq(s, n + 1, Len(s)))
BY DEF SplitIs

\* One read: k fragments are moved from w behind b, and n are consumed.
Taken(b, w, k) == b \o SubSeq(w, 1, k)
ReadIs(F, b, w, n, frags, b2, w2) ==
  /\ frags \in Seq(F) /\ b2 \in Seq(F) /\ w2 \in Seq(F)
  /\ Len(frags) = n /\ n <= Len(b \o w) /\ Len(b \o w) \in Nat
  /\ \A i \in 1..n : frags[i] = (b \o w)[i]
  /\ Len(b2 \o w2) = Len(b \o w) - n
  /\ \A i \in 1..Len(b2 \o w2) : (b2 \o w2)[i] = (b \o w)[i + n]
LEMMA ReadFacts ==
  ASSUME NEW F, NEW b \in Seq(F), NEW w \in Seq(F), NEW k \in 1..Len(w),
         NEW n \in Nat, n <= Len(Taken(b, w, k))
  PROVE  ReadIs(F, b, w, n, SubSeq(Taken(b, w, k), 1, n),
                SubSeq(Taken(b, w, k), n + 1, Len(Taken(b, w, k))), SubSeq(w, k + 1, Len(w)))
<1> DEFINE in == Taken(b, w, k)
           frags == SubSeq(in, 1, n)
           b2 == SubSeq(in, n + 1, Len(in))
           w2 == SubSeq(w, k + 1, Len(w))
           head == SubSeq(w, 1, k)
<1>1. k \in Nat /\ k <= Len(w) /\ Len(w) \in Nat
  OBVIOUS
<1>2. /\ head \in Seq(F) /\ Len(head) = k /\ \A i \in 1..k : head[i] = w[i]
      /\ w2 \in Seq(F) /\ Len(w2) = Len(w) - k /\ \A i \in 1..Len(w) - k : w2[i] = w[i + k]
  <2>1. SplitIs(F, w, k, head, w2)
    BY Zenon, <1>1, SplitFacts
  <2> HIDE DEF head, w2
  <2> QED
    BY Zenon, <2>1 DEF SplitIs
<1>3. in = b \o head
  BY Zenon DEF Taken
<1> HIDE DEF head, w2, in
<1>4. /\ in \in Seq(F) /\ Len(in) = Len(b) + k /\ Len(b) \in Nat
      /\ \A i \in 1..Len(b) : in[i] = b[i]
      /\ \A i \in 1..k : in[i + Len(b)] = head[i]
  <2>1. JoinIs(F, b, head, in)
    BY Zenon, <1>2, <1>3, JoinFacts
  <2> QED
    BY Zenon, <1>2, <2>1 DEF JoinIs
<1>5. n <= Len(in)
  BY Zenon DEF in
<1>6. /\ frags \in Seq(F) /\ Len(frags) = n /\ \A i \in 1..n : frags[i] = in[i]
      /\ b2 \in Seq(F) /\ Len(b2) = Len(in) - n /\ \A i \in 1..Len(in) - n : b2[i] = in[i + n]
  <2>1. SplitIs(F, in, n, frags, b2)
    BY Zenon, <1>4, <1>5, SplitFacts
  <2> HIDE DEF frags, b2
  <2> QED
    BY Zenon, <2>1 DEF SplitIs
<1> HIDE DEF frags, b2
<1> DEFINE q == b \o w  q2 == b2 \o w2
<1>7. /\ Len(q) = Len(b) + Len(w) /\ \A i \in 1..Len(b) : q[i] = b[i]
      /\ \A i \in 1..Len(w) : q[i + Len(b)] = w[i]
  <2>1. JoinIs(F, b, w, q)
    BY Zenon, JoinFacts
  <2> HIDE DEF q
  <2> QED
    BY Zenon, <2>1 DEF JoinIs
<1>8. /\ Len(q2) = Len(b2) + Len(w2) /\ \A i \in 1..Len(b2) : q2[i] = b2[i]
      /\ \A i \in 1..Len(w2) : q2[i + Len(b2)] = w2[i]
  <2>1. JoinIs(F, b2, w2, q2)
    BY Zenon, <1>2, <1>6, JoinFacts
  <2> HIDE DEF q2
  <2> QED
    BY Zenon, <2>1 DEF JoinIs
<1> HIDE DEF q, q2
<1>9. ASSUME NEW i \in 1..Len(in) PROVE in[i] = q[i]
  <2>1. CASE i <= Len(b)
    <3>1. i \in 1..Len(b)
      BY <1>4, <2>1
    <3> QED
      BY Zenon, <1>4, <1>7, <3>1
  <2>2. CASE ~(i <= Len(b))
    <3>1. PICK j \in 1..k : i = j + Len(b)
      <4>1. i - Len(b) \in 1..k /\ i = (i - Len(b)) + Len(b)
        BY <1>4, <2>2
      <4> QED
        BY Zenon, <4>1
    <3>2. j \in 1..Len(w)
      BY <1>1
    <3> QED
      BY Zenon, <1>2, <1>4, <1>7, <3>1, <3>2
  <2> QED
    BY <2>1, <2>2
<1>10. /\ Len(q) \in Nat /\ n <= Len(q) /\ Len(q2) = Len(q) - n /\ Len(b2) \in Nat /\ Len(w2) \in Nat
       /\ Len(b2) = Len(in) - n /\ Len(in) = Len(b) + k /\ Len(w2) = Len(w) - k
  BY <1>1, <1>2, <1>4, <1>5, <1>6, <1>7, <1>8
<1>11. ASSUME NEW i \in 1..Len(q2) PROVE q2[i] = q[i + n]
  <2>1. CASE i <= Len(b2)
    <3>1. i \in 1..Len(b2) /\ i \in 1..Len(in) - n /\ i + n \in 1..Len(in)
      BY <1>4, <1>10, <2>1
    <3> QED
      BY Zenon, <1>6, <1>8, <1>9, <3>1
  <2>2. CASE ~(i <= Len(b2))
    <3>1. PICK j \in 1..Len(w2) : i = j + Len(b2)
      <4>1. i - Len(b2) \in 1..Len(w2) /\ i = (i - Len(b2)) + Len(b2)
        BY <1>8, <1>10, <2>2
      <4> QED
        BY Zenon, <4>1
    <3>2. j \in 1..Len(w) - k /\ j + k \in 1..Len(w) /\ (j + k) + Len(b) = i + n
      BY <1>1, <1>4, <1>10, <3>1
    <3>3. q2[i] = w2[j] /\ w2[j] = w[j + k] /\ w[j + k] = q[(j + k) + Len(b)]
      BY Zenon, <1>2, <1>7, <1>8, <3>1, <3>2
    <3> QED
      BY Zenon, <3>2, <3>3
  <2> QED
    BY <2>1, <2>2
<1>12. ASSUME NEW i \in 1..n PROVE frags[i] = q[i]
  <2>1. i \in 1..Len(in)
    BY <1>4, <1>5
  <2> QED
    BY Zenon, <1>6, <1>9, <2>1
<1>13. ReadIs(F, b, w, n, frags, b2, w2)
  BY Zenon, <1>2, <1>6, <1>10, <1>11, <1>12 DEF ReadIs, q, q2
<1> QED
  BY Zenon, <1>13 DEF in, frags, b2, w2

\* Consuming n fragments keeps the queue; the head of a whole message is then seen.
Rest(q, n, q2) ==
  /\ Len(q) \in Nat /\ n <= Len(q) /\ Len(q2) = Len(q) - n
  /\ \A i \in 1..Len(q2) : q2[i] = q[i + n]
LEMMA QueueReads ==
  ASSUME NEW q, NEW q2, NEW n \in Nat, NEW un, NEW ids, NEW rag, QueueIs(q, un, ids, rag), Rest(q, n, q2)
  PROVE  /\ QueueIs(q2, un, ids, rag)
         /\ n >= 1 /\ q[1].head /\ un \subseteq Requests => QueueIs(q2, un, ids \cup {q[1].r.id}, rag)
<1>1. ASSUME NEW i \in 1..Len(q2)
      PROVE  i + n \in 1..Len(q) /\ q2[i] = q[i + n] /\ i \in Nat
  BY DEF Rest
<1>2. ASSUME NEW i \in 1..Len(q2), NEW j \in 1..Len(q2), i + n = j + n PROVE i = j
  BY <1>1, <1>2
<1>3. /\ \A i \in 1..Len(q2) : q2[i].r \in Requests \ un
      /\ \A i, j \in 1..Len(q2) : q2[i].head /\ q2[j].head /\ q2[i].r = q2[j].r => i = j
  <2>1. ASSUME NEW i \in 1..Len(q2) PROVE q2[i].r \in Requests \ un
    BY Zenon, <1>1 DEF QueueIs
  <2>2. ASSUME NEW i \in 1..Len(q2), NEW j \in 1..Len(q2), q2[i].head, q2[j].head, q2[i].r = q2[j].r
        PROVE  i = j
    <3>1. i + n = j + n
      BY Zenon, <1>1, <2>2 DEF QueueIs
    <3> QED
      BY Zenon, <1>2, <3>1
  <2> QED
    BY Zenon, <2>1, <2>2
<1>4. QueueIs(q2, un, ids, rag)
  BY Zenon, <1>1, <1>3 DEF QueueIs
<1>5. ASSUME n >= 1, q[1].head, un \subseteq Requests
      PROVE  QueueIs(q2, un, ids \cup {q[1].r.id}, rag)
  <2>1. 1 \in 1..Len(q)
    BY <1>5 DEF Rest
  <2>2. q[1].r \in Requests \ un
    BY Zenon, <2>1 DEF QueueIs
  <2>3. ASSUME NEW i \in 1..Len(q2), q2[i].head PROVE q2[i].r.id # q[1].r.id
    <3>1. i + n # 1
      BY <1>5, <1>1
    <3>2. q2[i].r \in Requests /\ i + n \in 1..Len(q) /\ q2[i] = q[i + n]
      BY Zenon, <1>1, <1>3
    <3>3. \A k \in 1..Len(q) : q[k].head /\ q[k].r = q[1].r => k = 1
      BY Zenon, <1>5, <2>1 DEF QueueIs
    <3>4. q2[i].r # q[1].r
      BY Zenon, <2>3, <3>1, <3>2, <3>3
    <3> QED
      BY Zenon, <2>2, <3>2, <3>4, RpcAssumption
  <2>4. ASSUME NEW r \in un PROVE r.id # q[1].r.id
    BY Zenon, <1>5, <2>2, RpcAssumption
  <2> QED
    BY Zenon, <1>3, <1>4, <2>3, <2>4 DEF QueueIs
<1> QED
  BY Zenon, <1>4, <1>5

\* Sending a request puts its two fragments behind the others.
LEMMA QueueSends ==
  ASSUME RpcQueue, NEW r \in unsent
  PROVE  LET w == wire \o <<[head |-> TRUE, r |-> r], [head |-> FALSE, r |-> r]>>
         IN  w \in Seq(Fragments) /\ QueueIs(buff \o w, unsent \ {r}, seen, ragged)
<1> DEFINE h == [head |-> TRUE, r |-> r]
           b == [head |-> FALSE, r |-> r]
           two == <<h, b>>
           w == wire \o two
           q == buff \o wire
           q2 == buff \o w
<1>1. /\ r \in Requests /\ h \in Fragments /\ b \in Fragments /\ buff \in Seq(Fragments) /\ wire \in Seq(Fragments)
      /\ h.head /\ ~b.head /\ h.r = r /\ b.r = r
  BY Zenon DEF RpcQueue, Fragments
<1> HIDE DEF h, b
<1>2. two \in Seq(Fragments) /\ Len(two) = 2 /\ two[1] = h /\ two[2] = b
  BY <1>1
<1> HIDE DEF two
<1>3. JoinIs(Fragments, wire, two, w)
  BY Zenon, <1>1, <1>2, JoinFacts
<1>4. w \in Seq(Fragments)
  BY Zenon, <1>3 DEF JoinIs
<1>5. JoinIs(Fragments, buff, wire, q)
  BY Zenon, <1>1, JoinFacts
<1> HIDE DEF w, q
<1>6. JoinIs(Fragments, buff, w, q2)
  BY Zenon, <1>1, <1>4, JoinFacts
<1> HIDE DEF q2
<1>7. /\ Len(buff) \in Nat /\ Len(wire) \in Nat /\ Len(w) = Len(wire) + 2
      /\ Len(q) = Len(buff) + Len(wire) /\ Len(q2) = Len(buff) + Len(w)
  BY Zenon, <1>2, <1>3, <1>5, <1>6 DEF JoinIs
<1>8. /\ \A i \in 1..Len(buff) : q[i] = buff[i] /\ q2[i] = buff[i]
      /\ \A i \in 1..Len(wire) : q[i + Len(buff)] = wire[i] /\ w[i] = wire[i]
      /\ \A i \in 1..Len(w) : q2[i + Len(buff)] = w[i]
      /\ \A i \in 1..2 : w[i + Len(wire)] = two[i]
  BY Zenon, <1>2, <1>3, <1>5, <1>6 DEF JoinIs
<1>9. Len(q) \in Nat /\ Len(q2) = Len(q) + 2
  BY <1>7
<1>10. ASSUME NEW i \in 1..Len(q) PROVE q2[i] = q[i]
  <2>1. CASE i \in 1..Len(buff)
    BY Zenon, <1>8, <2>1
  <2>2. CASE i \notin 1..Len(buff)
    <3>1. PICK j \in 1..Len(wire) : i = j + Len(buff)
      <4>1. i - Len(buff) \in 1..Len(wire) /\ i = (i - Len(buff)) + Len(buff)
        BY <1>7, <2>2
      <4> QED
        BY Zenon, <4>1
    <3>2. j \in 1..Len(w)
      BY <1>7
    <3> QED
      BY Zenon, <1>8, <3>1, <3>2
  <2> QED
    BY <2>1, <2>2
<1>11. q2[Len(q) + 1] = h /\ q2[Len(q) + 2] = b
  <2>1. /\ 1 \in 1..2 /\ 2 \in 1..2 /\ 1 + Len(wire) \in 1..Len(w) /\ 2 + Len(wire) \in 1..Len(w)
        /\ (1 + Len(wire)) + Len(buff) = Len(q) + 1 /\ (2 + Len(wire)) + Len(buff) = Len(q) + 2
    BY <1>7
  <2>2. q2[(1 + Len(wire)) + Len(buff)] = h /\ q2[(2 + Len(wire)) + Len(buff)] = b
    BY Zenon, <1>2, <1>8, <2>1
  <2> QED
    BY Zenon, <2>1, <2>2
<1>12. QueueIs(q, unsent, seen, ragged)
  BY Zenon DEF RpcQueue, q
<1>13. \A i \in 1..Len(q2) : i \in 1..Len(q) \/ i = Len(q) + 1 \/ i = Len(q) + 2
  BY <1>9
<1>7a. ASSUME NEW i \in 1..Len(q2)
       PROVE  /\ q2[i].r \in Requests \ (unsent \ {r})
              /\ q2[i].head => i = Len(q) + 1 \/ i \in 1..Len(q)
              /\ q2[i].head /\ ~ragged => q2[i].r.id \notin seen
  BY Zenon, <1>1, <1>10, <1>11, <1>12, <1>13 DEF QueueIs
<1>15. ASSUME NEW i \in 1..Len(q) PROVE q2[i].r # r /\ i \in 1..Len(q2)
  <2>1. i \in 1..Len(q2)
    BY <1>9
  <2> QED
    BY Zenon, <1>10, <1>12, <2>1 DEF QueueIs
<1>16. ASSUME NEW i \in 1..Len(q2), NEW j \in 1..Len(q2), q2[i].head, q2[j].head, q2[i].r = q2[j].r
       PROVE  i = j
  <2>1. CASE i \in 1..Len(q) /\ j \in 1..Len(q)
    BY Zenon, <1>10, <1>12, <1>16, <2>1 DEF QueueIs
  <2>2. CASE ~(i \in 1..Len(q) /\ j \in 1..Len(q))
    BY Zenon, <1>1, <1>11, <1>7a, <1>15, <1>16, <2>2
  <2> QED
    BY <2>1, <2>2
<1>17. QueueIs(q2, unsent \ {r}, seen, ragged)
  BY Zenon, <1>12, <1>7a, <1>16 DEF QueueIs
<1> QED
  BY Zenon, <1>4, <1>17 DEF w, q2, two, h, b

\* What onRpcMessage does: nothing, or a service is called for the last body with the id of
\* the last head, and answers at once or keeps the closure.
Answers(x, y) ==
  LET a == Response(x.id, services_map_[y.service], y) IN
  /\ Dispatched(y)
  /\ \/ y.method = "later" /\ late' = late \cup {a} /\ answers' = answers
     \/ late' = late /\ answers' = answers \cup {a}
LEMMA MessageGives ==
  ASSUME NEW frags, onRpcMessage(frags)
  PROVE  \/ late' = late /\ answers' = answers
         \/ \E x \in LastOf(frags, TRUE), y \in LastOf(frags, FALSE) : Answers(x, y)
BY Zenon DEF onRpcMessage, onRpcRequest, doneCallback, Answers

\* A readable event: what it does to the queue, and what is called.
Consumed(frags, n) ==
  LET q == buff \o wire IN
  /\ frags \in Seq(Fragments) /\ Len(frags) = n
  /\ \A i \in 1..n : frags[i] = q[i]
  /\ Rest(q, n, buff' \o wire') /\ buff' \in Seq(Fragments) /\ wire' \in Seq(Fragments)
LEMMA MessageReads ==
  ASSUME RpcQueue, NEW k, onMessage(k)
  PROVE  \E n \in Nat, frags \in Seq(Fragments) :
           /\ Consumed(frags, n) /\ onRpcMessage(frags)
           /\ ragged' = (ragged \/ ~Whole(frags))
           /\ seen' = IF Whole(frags) THEN seen \cup {frags[1].r.id} ELSE seen
<1> DEFINE in == Taken(buff, wire, k)
           n == IF Len(in) < ConsumeMax THEN Len(in) ELSE ConsumeMax
           frags == SubSeq(in, 1, n)
<1>1. buff \in Seq(Fragments) /\ wire \in Seq(Fragments)
  BY Zenon DEF RpcQueue
<1>2. k \in 1..Len(wire) /\ wire' = SubSeq(wire, k + 1, Len(wire))
  BY Zenon DEF onMessage, Read
<1>3. /\ buff' = SubSeq(in, n + 1, Len(in)) /\ onRpcMessage(frags) /\ ragged' = (ragged \/ ~Whole(frags))
      /\ seen' = IF Whole(frags) THEN seen \cup {frags[1].r.id} ELSE seen
  BY Zenon DEF onMessage, Taken
<1>4. Len(in) \in Nat
  <2>1. SplitIs(Fragments, wire, k, SubSeq(wire, 1, k), SubSeq(wire, k + 1, Len(wire)))
    <3>1. k \in Nat /\ k <= Len(wire)
      BY <1>1, <1>2
    <3> QED
      BY Zenon, <1>1, <3>1, SplitFacts
  <2>2. JoinIs(Fragments, buff, SubSeq(wire, 1, k), in)
    BY Zenon, <1>1, <2>1, JoinFacts DEF SplitIs, Taken
  <2>3. in \in Seq(Fragments)
    BY Zenon, <2>2 DEF JoinIs
  <2> HIDE DEF in
  <2> QED
    BY <2>3
<1> HIDE DEF in
<1>5. n \in Nat /\ n <= Len(in)
  BY <1>4, RpcAssumption
<1> HIDE DEF n
<1>6. ReadIs(Fragments, buff, wire, n, frags, buff', wire')
  BY Zenon, <1>1, <1>2, <1>3, <1>5, ReadFacts DEF in
<1> HIDE DEF frags
<1>7. Consumed(frags, n) /\ frags \in Seq(Fragments)
  BY Zenon, <1>6 DEF Consumed, Rest, ReadIs
<1> QED
  BY Zenon, <1>3, <1>5, <1>7

LEMMA MessageStepRpc ==
  ASSUME RpcInv, NEW k, onMessage(k)
  PROVE  RpcInv'
<1>1. RpcQueue /\ LateIsLater /\ AnswerMatches /\ CalledIsKnown /\ FaultNeedsLate
  BY Zenon DEF RpcInv
<1>2. PICK n \in Nat, frags \in Seq(Fragments) :
        /\ Consumed(frags, n) /\ onRpcMessage(frags)
        /\ ragged' = (ragged \/ ~Whole(frags))
        /\ seen' = IF Whole(frags) THEN seen \cup {frags[1].r.id} ELSE seen
  BY Zenon, <1>1, MessageReads
<1>3. services_map_' = services_map_ /\ unsent' = unsent /\ fault' = fault
  BY Zenon DEF onMessage
<1> DEFINE q == buff \o wire
<1>4. /\ QueueIs(q, unsent, seen, ragged) /\ unsent \subseteq Requests
      /\ Rest(q, n, buff' \o wire') /\ buff' \in Seq(Fragments) /\ wire' \in Seq(Fragments)
      /\ frags \in Seq(Fragments) /\ Len(frags) = n /\ \A i \in 1..n : frags[i] = q[i]
      /\ n <= Len(q) /\ Len(q) \in Nat
  BY Zenon, <1>1, <1>2 DEF RpcQueue, Consumed, Rest
<1> HIDE DEF q
<1>5. ASSUME Whole(frags)
      PROVE  n = 2 /\ frags[1] = q[1] /\ q[1].head /\ 1 \in 1..Len(q) /\ frags[2].r = frags[1].r
  <2>1. n = 2 /\ frags[1].head /\ frags[2].r = frags[1].r
    BY Zenon, <1>4, <1>5 DEF Whole
  <2>2. 1 \in 1..n /\ 1 \in 1..Len(q)
    BY <1>4, <2>1
  <2> QED
    BY Zenon, <1>4, <2>1, <2>2
<1>6. QueueIs(buff' \o wire', unsent, seen', ragged')
  <2>1. CASE Whole(frags)
    <3>1. n >= 1
      BY <1>5, <2>1
    <3>2. QueueIs(buff' \o wire', unsent, seen \cup {q[1].r.id}, ragged)
      BY Zenon, <1>4, <1>5, <2>1, <3>1, QueueReads
    <3>3. seen' = seen \cup {q[1].r.id} /\ (ragged' <=> ragged)
      BY Zenon, <1>2, <1>5, <2>1
    <3> QED
      BY Zenon, <3>2, <3>3 DEF QueueIs
  <2>2. CASE ~Whole(frags)
    <3>1. QueueIs(buff' \o wire', unsent, seen, ragged) /\ ragged'
      BY Zenon, <1>2, <1>4, <2>2, QueueReads
    <3> QED
      BY Zenon, <3>1 DEF QueueIs
  <2> QED
    BY <2>1, <2>2
<1>7. RpcQueue'
  BY Zenon, <1>3, <1>4, <1>6 DEF RpcQueue
<1>7a. ASSUME NEW h, NEW y \in LastOf(frags, h) PROVE \E i \in 1..n : y = frags[i].r
  <2>0. frags \in Seq(Fragments)
    BY Zenon, <1>4
  <2>1. \E i \in 1..Len(frags) : y = frags[i].r
    BY Zenon, <2>0, LastOfFacts
  <2> QED
    BY Zenon, <1>4, <2>1
<1>8. ASSUME NEW h, NEW y \in LastOf(frags, h) PROVE y \in Requests \ unsent
  <2>1. PICK i \in 1..n : y = frags[i].r
    BY Zenon, <1>7a
  <2>2. i \in 1..Len(q) /\ frags[i] = q[i]
    BY <1>4
  <2> QED
    BY Zenon, <1>4, <2>1, <2>2 DEF QueueIs
<1>9. \/ late' = late /\ answers' = answers
      \/ \E x \in LastOf(frags, TRUE), y \in LastOf(frags, FALSE) : Answers(x, y)
  BY Zenon, <1>2, MessageGives
<1>10. LateIsLater'
  <2>1. ASSUME NEW a \in late', a \notin late PROVE a.of \in Requests \ unsent /\ a.of.method = "later"
    <3>1. PICK x \in LastOf(frags, TRUE), y \in LastOf(frags, FALSE) : Answers(x, y)
      BY Zenon, <1>9, <2>1
    <3>2. y.method = "later" /\ a = Response(x.id, services_map_[y.service], y)
      BY Zenon, <2>1, <3>1 DEF Answers
    <3>3. a.of = y
      BY Zenon, <3>2 DEF Response
    <3> QED
      BY Zenon, <1>8, <3>2, <3>3
  <2> QED
    BY Zenon, <1>1, <1>3, <2>1 DEF LateIsLater
<1>11. CalledIsKnown'
  <2>1. ASSUME NEW a \in answers' \cup late', a \notin answers \cup late
        PROVE  /\ a.of.service \in DOMAIN services_map_ /\ services_map_[a.of.service] = a.impl
               /\ a.of.method \in Methods /\ a.of.good
    <3>1. PICK x, y : Dispatched(y) /\ a = Response(x.id, services_map_[y.service], y)
      BY Zenon, <1>9, <2>1 DEF Answers
    <3>2. a.of = y /\ a.impl = services_map_[y.service]
      BY Zenon, <3>1 DEF Response
    <3> QED
      BY Zenon, <3>1, <3>2 DEF Dispatched
  <2> QED
    BY Zenon, <1>1, <1>3, <2>1 DEF CalledIsKnown
<1>12. FaultNeedsLate'
  BY Zenon, <1>1, <1>3 DEF FaultNeedsLate
<1>13. AnswerMatches'
  <2> SUFFICES ASSUME ~ragged'
               PROVE  /\ \A a \in answers' : a.of.id = a.id /\ a.id \in seen'
                      /\ \A a, b \in answers' : a.id = b.id => a = b
    BY Zenon DEF AnswerMatches
  <2>1. ~ragged /\ Whole(frags) /\ seen' = seen \cup {q[1].r.id}
    BY Zenon, <1>2, <1>5
  <2>2. q[1].r.id \notin seen
    BY Zenon, <1>4, <1>5, <2>1 DEF QueueIs
  <2>3. ASSUME NEW h, NEW y \in LastOf(frags, h) PROVE y = q[1].r
    <3>1. PICK i \in 1..n : y = frags[i].r
      BY Zenon, <1>7a
    <3>2. i = 1 \/ i = 2
      BY <1>5, <2>1
    <3> QED
      BY Zenon, <1>5, <2>1, <3>1, <3>2
  <2>4. ASSUME NEW a \in answers', a \notin answers
        PROVE  a.id = q[1].r.id /\ a.of = q[1].r /\ answers' \subseteq answers \cup {a}
    <3>1. PICK x \in LastOf(frags, TRUE), y \in LastOf(frags, FALSE) : Answers(x, y)
      BY Zenon, <1>9, <2>4
    <3>2. x = q[1].r /\ y = q[1].r
      BY Zenon, <2>3
    <3>3. a = Response(x.id, services_map_[y.service], y) /\ answers' = answers \cup {a}
      BY Zenon, <2>4, <3>1 DEF Answers
    <3> QED
      BY Zenon, <3>2, <3>3 DEF Response
  <2>5. /\ \A a \in answers : a.of.id = a.id /\ a.id \in seen
        /\ \A a, b \in answers : a.id = b.id => a = b
    BY Zenon, <1>1, <2>1 DEF AnswerMatches
  <2>6. \A a \in answers' : a.of.id = a.id /\ a.id \in seen'
    BY Zenon, <2>1, <2>4, <2>5
  <2>7. ASSUME NEW a \in answers', NEW b \in answers', a.id = b.id PROVE a = b
    <3>1. CASE a \in answers /\ b \in answers
      BY Zenon, <2>5, <2>7, <3>1
    <3>2. CASE a \notin answers
      BY Zenon, <2>2, <2>4, <2>5, <2>7, <3>2
    <3>3. CASE b \notin answers
      BY Zenon, <2>2, <2>4, <2>5, <2>7, <3>3
    <3> QED
      BY Zenon, <3>1, <3>2, <3>3
  <2> QED
    BY Zenon, <2>6, <2>7
<1> QED
  BY Zenon, <1>7, <1>10, <1>11, <1>12, <1>13 DEF RpcInv

LEMMA SendStepRpc ==
  ASSUME RpcInv, NEW r, SendRequest(r)
  PROVE  RpcInv'
<1>1. RpcQueue /\ LateIsLater /\ AnswerMatches /\ CalledIsKnown /\ FaultNeedsLate
  BY Zenon DEF RpcInv
<1>2. /\ r \in unsent /\ unsent' = unsent \ {r}
      /\ wire' = wire \o <<[head |-> TRUE, r |-> r], [head |-> FALSE, r |-> r]>>
      /\ services_map_' = services_map_ /\ buff' = buff /\ late' = late /\ answers' = answers
      /\ seen' = seen /\ ragged' = ragged /\ fault' = fault
  BY Zenon DEF SendRequest
<1>3. wire' \in Seq(Fragments) /\ QueueIs(buff \o wire', unsent \ {r}, seen, ragged)
  BY Zenon, <1>1, <1>2, QueueSends
<1>4. RpcQueue'
  BY Zenon, <1>1, <1>2, <1>3 DEF RpcQueue
<1>5. LateIsLater' /\ FaultNeedsLate'
  BY Zenon, <1>1, <1>2 DEF LateIsLater, FaultNeedsLate
<1>6. AnswerMatches' /\ CalledIsKnown'
  BY Zenon, <1>1, <1>2 DEF AnswerMatches, CalledIsKnown
<1> QED
  BY Zenon, <1>4, <1>5, <1>6 DEF RpcInv

\* registerService keeps every name and its implementation.
Extends(f, g) == \A n \in DOMAIN f : n \in DOMAIN g /\ g[n] = f[n]
LEMMA RegistersOnce ==
  ASSUME NEW s, registerService(s)
  PROVE  Extends(services_map_, services_map_')
BY Zenon DEF registerService, Extends

LEMMA RpcStep == RpcInv /\ [RpcNext]_rpc => RpcInv'
<1> SUFFICES ASSUME RpcInv, [RpcNext]_rpc PROVE RpcInv'
  OBVIOUS
<1>1. RpcQueue /\ LateIsLater /\ AnswerMatches /\ CalledIsKnown /\ FaultNeedsLate
  BY Zenon DEF RpcInv
<1>2. CASE start \/ UNCHANGED rpc
  <2>1. /\ services_map_' = services_map_ /\ unsent' = unsent /\ wire' = wire /\ buff' = buff /\ late' = late
        /\ answers' = answers /\ seen' = seen /\ ragged' = ragged /\ fault' = fault
    BY Zenon, <1>2 DEF start, rpc
  <2> QED
    BY Zenon, <1>1, <2>1 DEF RpcInv, RpcQueue, LateIsLater, AnswerMatches, CalledIsKnown, FaultNeedsLate
<1>3. ASSUME NEW s, registerService(s) PROVE RpcInv'
  <2>1. /\ unsent' = unsent /\ wire' = wire /\ buff' = buff /\ late' = late
        /\ answers' = answers /\ seen' = seen /\ ragged' = ragged /\ fault' = fault
    BY Zenon, <1>3 DEF registerService
  <2>2. CalledIsKnown'
    BY Zenon, <1>1, <1>3, <2>1, RegistersOnce DEF CalledIsKnown, Extends
  <2> QED
    BY Zenon, <1>1, <2>1, <2>2 DEF RpcInv, RpcQueue, LateIsLater, AnswerMatches, FaultNeedsLate
<1>4. ASSUME NEW x, LateDone(x) PROVE RpcInv'
  <2>1. /\ x \in late /\ late' = late \ {x} /\ services_map_' = services_map_ /\ unsent' = unsent /\ wire' = wire
        /\ buff' = buff /\ answers' = answers /\ seen' = seen /\ ragged' = ragged
    BY Zenon, <1>4 DEF LateDone
  <2>2. FaultNeedsLate'
    BY Zenon, <1>1, <2>1 DEF FaultNeedsLate, LateIsLater
  <2> QED
    BY Zenon, <1>1, <2>1, <2>2 DEF RpcInv, RpcQueue, LateIsLater, AnswerMatches, CalledIsKnown
<1> QED
  BY Zenon, <1>2, <1>3, <1>4, MessageStepRpc, SendStepRpc DEF RpcNext

LEMMA RpcStart == RpcInit => RpcInv
<1> SUFFICES ASSUME RpcInit PROVE RpcInv
  OBVIOUS
<1>1. /\ unsent = Requests /\ wire = <<>> /\ buff = <<>> /\ late = {} /\ answers = {} /\ seen = {}
      /\ ragged = FALSE /\ fault = FALSE
  BY Zenon DEF RpcInit
<1>2. /\ wire \in Seq(Fragments) /\ buff \in Seq(Fragments) /\ Len(buff \o wire) = 0
  BY <1>1
<1>3. \A i \in 1..Len(buff \o wire) : FALSE
  BY <1>2
<1>4. RpcQueue
  BY Zenon, <1>1, <1>2, <1>3 DEF RpcQueue, QueueIs
<1> QED
  BY Zenon, <1>1, <1>4 DEF RpcInv, LateIsLater, AnswerMatches, CalledIsKnown, FaultNeedsLate

\* RpcServer: the response to a whole message carries its id and is its only one, only a registered
\* service is called, with a method it has and a request that is well formed, and a deleted channel
\* is used only by a service that answers late, for any requests, services and arrival of fragments.
THEOREM RpcAnswersAreRight == RpcSpec => [](AnswerMatches /\ CalledIsKnown /\ FaultNeedsLate)
<1>1. RpcInv => AnswerMatches /\ CalledIsKnown /\ FaultNeedsLate
  BY Zenon DEF RpcInv
<1> QED
  BY RpcStart, RpcStep, <1>1, PTL DEF RpcSpec

\* registerService never replaces the service of a name.
THEOREM FirstRegistrationWinsHolds == RpcSpec => FirstRegistrationWins
<1>1. [RpcNext]_rpc => [Extends(services_map_, services_map_')]_rpc
  <2> SUFFICES ASSUME RpcNext PROVE Extends(services_map_, services_map_') \/ UNCHANGED rpc
    BY Zenon
  <2>1. CASE \E s \in Services : registerService(s)
    BY Zenon, <2>1, RegistersOnce
  <2>2. CASE ~\E s \in Services : registerService(s)
    <3>1. services_map_' = services_map_
      BY Zenon, <2>2 DEF RpcNext, start, SendRequest, onMessage, LateDone
    <3> QED
      BY Zenon, <3>1 DEF Extends
  <2> QED
    BY <2>1, <2>2
<1>2. [RpcNext]_rpc => [\A n \in DOMAIN services_map_ : n \in DOMAIN services_map_' /\ services_map_'[n] = services_map_[n]]_rpc
  BY Zenon, <1>1 DEF Extends
<1> QED
  BY <1>2, PTL DEF RpcSpec, FirstRegistrationWins
=============================================================================
