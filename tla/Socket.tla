-------------------------------- MODULE Socket --------------------------------
(***************************************************************************)
(* SocketImpl (src/net/atp_socket.cpp) on a table of file descriptors, and *)
(* SendHelper (src/app/atp_send_helper.hpp) on top of it.  The kernel is   *)
(* external: every system call may fail.  Descriptors that are not the     *)
(* object's belong to "other" parts of the process; 0 is standard input.   *)
(***************************************************************************)
EXTENDS Integers, FiniteSets

CONSTANTS
  MaxFd,         \* largest descriptor number
  OptionsUsed,   \* bound: the options that callers set, of the six
  MaxAdopted     \* bound: descriptors given to setfd
ASSUME MaxFdAssumption == MaxFd \in Nat

CREATE_ERROR == -301
CONNECT_ERROR == -305
CONNECT_TIMEOUT == -310
GET_APP_ERROR == -311
Options == {"O_NONBLOCK", "SO_REUSEADDR", "SO_REUSEPORT", "TCP_DEFER_ACCEPT", "TCP_NODELAY", "TCP_QUICKACK"}

VARIABLES
  client,     \* who uses SocketImpl: "socket" (a subclass) or "helper" (SendHelper)
  fd_,        \* SocketImpl::fd_; uninitialised at construction
  owner,      \* descriptor -> "free", "other" or "mine"
  opts,       \* options set on the object's descriptor
  peer,       \* "none", "pending", "established" or "refused": the connection
  lastCall,   \* history: the last call and its result; "connecting" is inside select
  helper,     \* SendHelper::fd_
  given,      \* history: the descriptor passed to setFd, or -1
  garbage,    \* history: the initial content of fd_
  adopted,    \* history: the descriptors of others passed to setfd
  hit,        \* history: descriptors closed by who did not own them
  ready       \* the object is constructed
soc == <<client, fd_, owner, opts, peer, lastCall, helper, given, garbage, adopted, hit, ready>>

Fds == 0..MaxFd
Call(op, ret, env) == lastCall' = [op |-> op, ret |-> ret, env |-> env]

\* 0 is open from the start; fd_ holds whatever was in memory.
SocketInit ==
  /\ client \in {"socket", "helper"}
  /\ fd_ \in Fds \cup {-1} /\ owner = [f \in Fds |-> IF f = 0 THEN "other" ELSE "free"]
  /\ opts = {} /\ peer = "none" /\ lastCall = [op |-> "none", ret |-> 0, env |-> "ok"]
  /\ helper = -1 /\ given = -1 /\ garbage = fd_ /\ adopted = {} /\ hit = {} /\ ready = FALSE

\* Other parts of the process open and close descriptors.
OtherFiles ==
  /\ \E f \in Fds \ {0} :
       \/ owner[f] = "free" /\ owner' = [owner EXCEPT ![f] = "other"]
       \/ owner[f] = "other" /\ owner' = [owner EXCEPT ![f] = "free"]
  /\ UNCHANGED <<fd_, opts, peer, lastCall, helper, given, garbage, adopted, hit, ready>>

\* ::close: a number that is not open is ignored.
Close(f, table) == IF f \in Fds THEN [table EXCEPT ![f] = "free"] ELSE table
Hits(f, table) == hit \cup {g \in Fds \cap {f} : table[g] = "other"}
Lowest == CHOOSE f \in Fds : owner[f] = "free" /\ \A g \in Fds : owner[g] = "free" => f <= g
Full == \A f \in Fds : owner[f] # "free"

-----------------------------------------------------------------------------
(* SocketImpl.                                                             *)

\* The "error" label: whatever fd_ holds is closed, fd_ becomes 0.
CreateError(f, table) ==
  /\ owner' = Close(f, table) /\ hit' = Hits(f, table)
  /\ fd_' = 0 /\ opts' = {}

create(stream) ==
  /\ ~ready /\ ready' = TRUE
  /\ \/ stream /\ ~Full /\ fd_' = Lowest /\ owner' = [owner EXCEPT ![Lowest] = "mine"]
        /\ opts' = {"O_NONBLOCK", "FD_CLOEXEC"} /\ Call("create", Lowest, "ok") /\ UNCHANGED hit
     \/ stream /\ ~Full /\ CreateError(Lowest, [owner EXCEPT ![Lowest] = "mine"]) /\ Call("create", CREATE_ERROR, "failed")
     \/ stream /\ fd_' = -1 /\ Call("create", -1, "failed") /\ UNCHANGED <<owner, opts, hit>>
     \/ ~stream /\ CreateError(fd_, owner) /\ Call("create", CREATE_ERROR, "ok")
  /\ UNCHANGED <<peer, helper, given, garbage, adopted>>

Idle == ready /\ lastCall.op # "connecting"

close ==
  /\ Idle
  /\ owner' = Close(fd_, owner) /\ hit' = Hits(fd_, owner) /\ fd_' = -1
  /\ opts' = {} /\ peer' = "none" /\ Call("close", 0, lastCall.env)
  /\ UNCHANGED <<helper, given, garbage, adopted, ready>>

\* The caller has a descriptor of its own, or the one it was given.
Usable == Idle /\ fd_ \in Fds /\ (owner[fd_] = "mine" \/ (owner[fd_] = "other" /\ fd_ \in adopted))

\* setfd: the caller gives it a descriptor, and the one it had is not closed.
setfd(f) ==
  /\ client = "socket" /\ (ready => Idle) /\ owner[f] = "other"
  /\ Cardinality(adopted) < MaxAdopted
  /\ fd_' = f /\ adopted' = adopted \cup {f} /\ ready' = TRUE
  /\ opts' \in {{}, {"O_NONBLOCK"}} /\ peer' = "none" /\ Call("setfd", 0, "ok")
  /\ UNCHANGED <<owner, helper, given, garbage, hit>>

\* ::connect succeeds, fails, or is in progress.
connect ==
  /\ Usable /\ peer = "none"
  /\ \/ peer' = "established" /\ Call("connect", 0, "ok")
     \/ Call("connect", CONNECT_ERROR, "failed") /\ UNCHANGED peer
     \/ peer' = "pending" /\ Call("connecting", 0, "ok")
  /\ UNCHANGED <<fd_, owner, opts, helper, given, garbage, adopted, hit, ready>>

\* The kernel: the handshake ends while connect waits.
Handshake ==
  /\ peer = "pending" /\ peer' \in {"established", "refused"}
  /\ UNCHANGED <<fd_, owner, opts, lastCall, helper, given, garbage, adopted, hit, ready>>

\* select: an error, a timeout, or the socket is writable, which one that was refused
\* is too; the code returns 0 for it unless it is also in the error set.
ConnectCloses(ret) ==
  /\ Call("connect", ret, "failed") /\ peer' = "none" /\ opts' = {}
  /\ fd_' = -1 /\ owner' = Close(fd_, owner) /\ hit' = Hits(fd_, owner)
ConnectReturns ==
  /\ peer # "pending" /\ Call("connect", 0, IF peer = "refused" THEN "unmarked" ELSE "ok")
  /\ UNCHANGED <<fd_, owner, opts, peer, hit>>
selected_TimeoutIsReady ==
  /\ lastCall.op = "connecting"
  /\ \/ ConnectCloses(CONNECT_ERROR)
     \/ Call("connect", 0, "ok") /\ UNCHANGED <<fd_, owner, opts, peer, hit>>
  /\ UNCHANGED <<helper, given, garbage, adopted, ready>>
selected ==
  /\ lastCall.op = "connecting"
  /\ \/ ConnectCloses(CONNECT_ERROR)
     \/ peer = "pending" /\ ConnectCloses(CONNECT_TIMEOUT)
     \/ peer = "refused" /\ ConnectCloses(GET_APP_ERROR)
     \/ ConnectReturns
  /\ UNCHANGED <<helper, given, garbage, adopted, ready>>

\* bind and listen return an error or 0 and change nothing here; backlog is positive.
SO_MAX_CONN == 4096
backlog(n) == IF n <= 0 THEN SO_MAX_CONN ELSE n
bind ==
  /\ Usable /\ \E ok \in BOOLEAN : Call("bind", IF ok THEN 0 ELSE -306, IF ok THEN "ok" ELSE "failed")
  /\ UNCHANGED <<fd_, owner, opts, peer, helper, given, garbage, adopted, hit, ready>>
listen(n) ==
  /\ Usable /\ \E ok \in BOOLEAN : Call("listen", IF ok THEN 0 ELSE -307, IF ok /\ backlog(n) > 0 THEN "ok" ELSE "failed")
  /\ UNCHANGED <<fd_, owner, opts, peer, helper, given, garbage, adopted, hit, ready>>

\* accept: the new descriptor belongs to the caller.
accept ==
  /\ Usable /\ client = "socket"
  /\ \/ ~Full /\ Call("accept", Lowest, "ok") /\ owner' = [owner EXCEPT ![Lowest] = "other"]
     \/ Call("accept", -309, "failed") /\ UNCHANGED owner
  /\ UNCHANGED <<fd_, opts, peer, helper, given, garbage, adopted, hit, ready>>

\* setOption: switching these off is ignored.
Sticky == {"O_NONBLOCK", "SO_REUSEADDR", "SO_REUSEPORT", "TCP_DEFER_ACCEPT"}
setOption(o, on) == IF on THEN opts \cup {o} ELSE IF o \in Sticky THEN opts ELSE opts \ {o}
SetOption(o, on) ==
  /\ Usable /\ opts' = setOption(o, on) /\ Call("setOption", o, IF on THEN "on" ELSE "off")
  /\ UNCHANGED <<fd_, owner, peer, helper, given, garbage, adopted, hit, ready>>

\* getOption: get_socket_nonblocking is 1 for a blocking descriptor.
getOption(o) == IF o = "O_NONBLOCK" THEN o \notin opts ELSE o \in opts

-----------------------------------------------------------------------------
(* SendHelper.                                                             *)

\* setFd: an external descriptor.
setFd(f) ==
  /\ client = "helper" /\ ~ready /\ owner[f] = "other" /\ helper' = f /\ given' = f
  /\ UNCHANGED <<fd_, owner, opts, peer, lastCall, garbage, adopted, hit, ready>>

\* nonblockWrite: everything in one send, or an error; poll returns only errors.
nonblockWrite(sent) == IF sent = "all" THEN 0 ELSE IF sent = "error" THEN -108 ELSE -106
\* nonblockRead: a positive number of bytes, or an error.
nonblockRead(got) == CASE got = "data" -> 1 [] got = "eof" -> -109 [] got = "hangup" -> 1 [] OTHER -> -106

\* sendMessage after create(false): the result for what the calls return.
sendMessage(created, connected, sent, got) ==
  CASE created # 0 -> -101
    [] created = 0 /\ connected # 0 -> -102
    [] created = 0 /\ connected = 0 /\ nonblockWrite(sent) # 0 -> -104
    [] OTHER -> IF nonblockRead(got) <= 0 THEN -105 ELSE 0

Sent == client = "helper" /\ ready /\ lastCall.op = "create"
SendMessage ==
  /\ Sent /\ helper' = lastCall.ret
  /\ Call("sendMessage", sendMessage(lastCall.ret, 0, "all", "data"), lastCall.env)
  /\ UNCHANGED <<fd_, owner, opts, peer, given, garbage, adopted, hit, ready>>

SendEmpty ==
  /\ client = "helper" /\ lastCall.op = "none" /\ ~ready /\ Call("sendMessage", -103, "empty")
  /\ UNCHANGED <<fd_, owner, opts, peer, helper, given, garbage, adopted, hit, ready>>

\* ~SendHelper
DestroyHelper ==
  /\ client = "helper" /\ lastCall.op \in {"none", "sendMessage"}
  /\ owner' = IF helper >= 0 THEN Close(helper, owner) ELSE owner
  /\ hit' = IF helper = given THEN hit ELSE Hits(helper, owner)
  /\ helper' = -1 /\ ready' = TRUE /\ Call("destroy", 0, lastCall.env)
  /\ UNCHANGED <<fd_, opts, peer, given, garbage, adopted>>

SocketNext ==
  /\ UNCHANGED client
  /\ \/ OtherFiles
     \/ create(client = "socket")
     \/ client = "socket" /\ (connect \/ close \/ bind \/ accept)
     \/ Handshake \/ selected
     \/ \E n \in {-1, 0, 5} : client = "socket" /\ listen(n)
     \/ \E o \in Options \cap OptionsUsed, on \in BOOLEAN : client = "socket" /\ SetOption(o, on)
     \/ \E f \in Fds : setFd(f) \/ setfd(f)
     \/ SendMessage \/ SendEmpty \/ DestroyHelper

SocketSpec == SocketInit /\ [][SocketNext]_soc

-----------------------------------------------------------------------------
(* Properties.                                                             *)

\* close, connect and create free a descriptor they do not own only where fd_ is 0 after
\* a failed create(true), where setfd was given one, or where fd_ is uninitialised in the
\* create(false) of SendHelper, however often close is called and whoever opens the same
\* number in between.
ForeignHits == hit \subseteq (IF client = "socket" THEN {0} \cup adopted ELSE {garbage})

\* The object's descriptor is open and its own from a successful create to close, and
\* a connect that returns an error or a timeout after select leaves no descriptor; only
\* setfd can make it lose one.
OwnDescriptor ==
  /\ ready /\ fd_ > 0 /\ client = "socket" /\ fd_ \notin adopted => owner[fd_] = "mine" /\ "O_NONBLOCK" \in opts
  /\ lastCall.op = "connect" /\ lastCall.ret \in {CONNECT_TIMEOUT, GET_APP_ERROR} => fd_ = -1
  /\ adopted = {} => \A f, g \in Fds : owner[f] = "mine" /\ owner[g] = "mine" => f = g

\* Whenever the handshake ends, connect returns 0 only for an established connection, or
\* for one that was refused and that select left out of the error set: the code does not
\* ask for SO_ERROR in that case.  After an error nothing is pending.
ConnectedUnlessUnmarked ==
  lastCall.op = "connect" =>
    IF lastCall.ret = 0 THEN peer = "established" \/ (peer = "refused" /\ lastCall.env = "unmarked")
    ELSE peer = "none"

\* getOption reads back an option that setOption switched on, O_NONBLOCK negated, and one
\* that it switched off unless switching that off is ignored.
ReadsBack ==
  lastCall.op = "setOption" =>
    LET set == getOption(lastCall.ret) # (lastCall.ret = "O_NONBLOCK") IN
    IF lastCall.env = "on" THEN set ELSE set => lastCall.ret \in Sticky

\* Sockets: an object's descriptor is open and its own, a descriptor of others is closed
\* only where ForeignHits says, and connect and getOption return what is the case.
SocketIsOwn == ForeignHits /\ OwnDescriptor /\ ConnectedUnlessUnmarked /\ ReadsBack
=============================================================================
