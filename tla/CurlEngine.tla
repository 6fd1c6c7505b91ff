------------------------------ MODULE CurlEngine ------------------------------
(***************************************************************************)
(* The HTTP client of src/app/atp_curl_engine.cpp and the thread storage   *)
(* (src/app/atp_thread_storage.hpp) it keeps its CURL handle in: one       *)
(* handle for each thread, shared by all instances the thread created.     *)
(* libcurl is external: perform delivers the response to the request in    *)
(* the handle piece by piece to the instance in the handle.                *)
(***************************************************************************)
EXTENDS Integers, Sequences, FiniteSets

CONSTANTS
  Threads, Instances,
  Urls,          \* requests; the response to n is n pieces long
  BufSize        \* pieces that fit in DEFAULT_BUFFER_SIZE

None == "none"
ASSUME CurlAssumption ==
  /\ None \notin Instances /\ Threads \cap {None, "gone"} = {}
  /\ Urls \subseteq Nat \ {0} /\ BufSize \in Nat

VARIABLES
  callers, \* "sole": one instance for each thread; "many": several;
           \* "cross": one, which the other threads may use too
  handle,  \* thread -> the CURL handle of its storage
  inst,    \* instance -> its state, and the thread whose handle it points to
  asked,   \* history: instance -> the request last set on it, 0 at first
  busy,    \* thread -> the instance whose perform it is in
  exited,  \* threads that ended
  curlFault    \* what went wrong: "overflow", "freed", "dead", "race"
crl == <<callers, handle, inst, asked, busy, exited, curlFault>>

NoHandle == [live |-> FALSE, wd |-> None, url |-> 0, sent |-> 0]
NoInst == [live |-> FALSE, curl |-> None, cursor |-> 0, data |-> <<>>, req |-> 0, ok |-> FALSE]
Gone == [NoInst EXCEPT !.curl = "gone"]  \* an instance is made once: the bound on calls
CurlInit ==
  /\ callers \in {"sole", "many", "cross"}
  /\ handle = [t \in Threads |-> NoHandle] /\ inst = [i \in Instances |-> NoInst]
  /\ asked = [i \in Instances |-> 0] /\ busy = [t \in Threads |-> None]
  /\ exited = {} /\ curlFault = {}

Free(t) == t \notin exited /\ busy[t] = None
Live(t) == {i \in Instances : inst[i].live /\ inst[i].curl = t}

-----------------------------------------------------------------------------
\* threadstorage_get with curl_tls_init: the thread's handle, made at the first use.
threadstorage_get(t) == IF handle[t].live THEN handle[t] ELSE [NoHandle EXCEPT !.live = TRUE]

\* core_init: the handle delivers to the new instance from now on.
core_init(t, i) == [threadstorage_get(t) EXCEPT !.wd = i]

curl_instance_new(t, i) ==
  /\ Free(t) /\ inst[i] = NoInst /\ (callers = "many" \/ Live(t) = {})
  /\ handle' = [handle EXCEPT ![t] = core_init(t, i)]
  /\ inst' = [inst EXCEPT ![i] = [NoInst EXCEPT !.live = TRUE, !.curl = t]]
  /\ UNCHANGED <<asked, busy, exited, curlFault>>

\* A call by thread t on instance i, which uses the handle of inst[i].curl.
Uses(t, i) ==
  Free(t) /\ inst[i].live /\ (callers = "cross" \/ inst[i].curl = t)
Trouble(t, i) ==
  (IF handle[inst[i].curl].live THEN {} ELSE {"dead"}) \cup
  (IF \E u \in Threads \ {t} : busy[u] # None /\ inst[busy[u]].curl = inst[i].curl THEN {"race"} ELSE {})

\* set_url; set_headers, set_data and set_ssl_verifypeer set other options of the handle.
core_set_url(t, i, n) ==
  /\ Uses(t, i) /\ curlFault' = curlFault \cup Trouble(t, i)
  /\ handle' = [handle EXCEPT ![inst[i].curl].url = IF Trouble(t, i) = {} THEN n ELSE @]
  /\ asked' = [asked EXCEPT ![i] = n]
  /\ UNCHANGED <<inst, busy, exited>>

\* What a perform asks for: the URL set on the instance, else the one still in the
\* handle (0: none, curl_easy_perform then fails).
Wanted(i) == IF asked[i] # 0 THEN asked[i] ELSE handle[inst[i].curl].url

core_perform_NoReset(t, i) ==
  /\ Uses(t, i) /\ busy' = [busy EXCEPT ![t] = i]
  /\ inst' = [inst EXCEPT ![i].req = Wanted(i), ![i].ok = FALSE]
  /\ handle' = [handle EXCEPT ![inst[i].curl].sent = 0]
  /\ UNCHANGED <<asked, exited, curlFault>>

core_perform(t, i) ==
  /\ Uses(t, i) /\ curlFault' = curlFault \cup Trouble(t, i)
  /\ inst' = [inst EXCEPT ![i].cursor = 0, ![i].data = <<>>, ![i].req = Wanted(i), ![i].ok = FALSE]
  /\ handle' = [handle EXCEPT ![inst[i].curl].sent = 0]
  /\ busy' = IF Trouble(t, i) = {} THEN [busy EXCEPT ![t] = i] ELSE busy
  /\ UNCHANGED <<asked, exited>>

\* on_message: a piece is appended at the cursor of the instance in the handle.
on_message(t) ==
  LET c == inst[busy[t]].curl  w == handle[c].wd IN
  /\ busy[t] # None /\ handle[c].sent < handle[c].url
  /\ handle' = [handle EXCEPT ![c].sent = @ + 1]
  /\ curlFault' = curlFault \cup (IF ~inst[w].live THEN {"freed"} ELSE IF inst[w].cursor >= BufSize THEN {"overflow"} ELSE {})
  /\ inst' = IF curlFault' # curlFault THEN inst
             ELSE [inst EXCEPT ![w].cursor = @ + 1, ![w].data = Append(@, handle[c].url)]
  /\ UNCHANGED <<asked, busy, exited>>

\* curl_easy_perform returns: the whole response was delivered, or an error.
Performed(t) ==
  LET i == busy[t]  c == inst[i].curl IN
  /\ i # None /\ busy' = [busy EXCEPT ![t] = None]
  /\ \E ok \in BOOLEAN : /\ ok => handle[c].url # 0 /\ handle[c].sent = handle[c].url
                         /\ inst' = [inst EXCEPT ![i].ok = ok]
  /\ UNCHANGED <<handle, asked, exited, curlFault>>

\* core_get_data: nothing is copied when the caller's buffer is too small.
core_get_data(i, size) == IF size < inst[i].cursor THEN <<>> ELSE SubSeq(inst[i].data, 1, inst[i].cursor)

\* core_destroy leaves the handle alone.
core_destroy(t, i) ==
  /\ Uses(t, i) /\ \A u \in Threads : busy[u] # i
  /\ inst' = [inst EXCEPT ![i] = Gone] /\ asked' = [asked EXCEPT ![i] = 0]
  /\ UNCHANGED <<handle, busy, exited, curlFault>>

\* A thread ends: its handle is freed.
curl_tls_cleanup(t) ==
  /\ Free(t) /\ exited' = exited \cup {t} /\ handle' = [handle EXCEPT ![t] = NoHandle]
  /\ UNCHANGED <<inst, asked, busy, curlFault>>

CurlNext ==
  /\ curlFault = {} /\ UNCHANGED callers
  /\ \E t \in Threads :
       \/ on_message(t) \/ Performed(t) \/ curl_tls_cleanup(t)
       \/ \E i \in Instances : \/ curl_instance_new(t, i) \/ core_perform(t, i) \/ core_destroy(t, i)
                               \/ \E n \in Urls : core_set_url(t, i, n)
CurlSpec == CurlInit /\ [][CurlNext]_crl

-----------------------------------------------------------------------------
(* Properties.                                                             *)

\* With one instance for each thread, a request that succeeded left exactly its own
\* response in the instance, whatever the thread's handle was used for before.
OwnResponse ==
  callers = "sole" => \A i \in Instances : inst[i].ok => core_get_data(i, BufSize) = [k \in 1..inst[i].req |-> inst[i].req]

\* The response buffer overflows only for a response larger than the buffer: what
\* earlier requests left in it does not count.
OverflowNeedsLarge ==
  callers = "sole" /\ "overflow" \in curlFault => \E i \in Instances : inst[i].cursor = BufSize /\ inst[i].req > BufSize

\* A freed instance is written to only if a thread has two instances; a freed handle
\* or one in use by another thread is used only across threads.
FaultNeedsMisuse ==
  /\ "freed" \in curlFault => callers = "many"
  /\ curlFault \cap {"dead", "race"} # {} => callers = "cross"

\* curl: a response is that of its request, the buffer overflows only for a response
\* larger than it, and freed memory is used only by instances that share a thread's handle.
ResponseIsOwn == OwnResponse /\ OverflowNeedsLarge /\ FaultNeedsMisuse
=============================================================================
