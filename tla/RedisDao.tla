------------------------------- MODULE RedisDao -------------------------------
(***************************************************************************)
(* The synchronous Redis calls of src/app/atp_dao.cpp: what each function  *)
(* makes of the reply to its command, with transactions and a connection   *)
(* that may break before or after the server acted.  The server (external) *)
(* keeps a string, a hash and a list; a reply is its type and its content. *)
(***************************************************************************)
EXTENDS Integers, Sequences, FiniteSets, Functions

CONSTANTS
  Values,   \* values, and fields of the hash (positive numbers)
  MaxLen,   \* bound: length of the list
  MaxTx     \* bound: commands of a transaction

Nil == 0
VARIABLES
  st,     \* the server's data: [str, hash, list]
  multi,  \* the connection is inside MULTI
  tx,     \* the transaction: how many commands are queued, and the data they will
          \* leave (nobody else writes to it between MULTI and EXEC)
  ctx,    \* the context: "none", "open", "broken", "freed" or "corrupt"
  leaks,  \* contexts that were lost without redisFree
  last    \* history: the last call, its result and what became of its command

red == <<st, multi, tx, ctx, leaks, last>>

Writes == {"set", "del", "expire", "hset", "hdel", "lpush", "rpush", "lpop", "rpop", "lrem"}
Reads == {"get", "hget", "hgetall", "hgetall_2", "lrange"}
Control == {"multi", "exec", "discard"}

NoCall == [op |-> "none", ret |-> 0, out |-> <<>>, done |-> TRUE, multi |-> FALSE, lost |-> FALSE, n |-> 0]
Empty == [str |-> Nil, hash |-> [f \in {} |-> 0], list |-> <<>>]
NoTx == [n |-> 0, st |-> Empty]
RedisInit ==
  /\ st = Empty
  /\ multi = FALSE /\ tx = NoTx /\ ctx = "none" /\ leaks = 0 /\ last = NoCall

-----------------------------------------------------------------------------
(* The server: the effect of a command, its reply, whether it did anything.*)

\* A command is its name, the field of the hash it is about and a value.
Keep(s, v) == SelectSeq(s, LAMBDA x : x # v)
StrAfter(s, c) == CASE c.op = "set" -> c.v [] c.op = "del" -> Nil [] OTHER -> s
HashAfter(h, c) ==
  CASE c.op = "hset" -> [f \in DOMAIN h \cup {c.f} |-> IF f = c.f THEN c.v ELSE h[f]]
    [] c.op = "hdel" -> [f \in DOMAIN h \ {c.f} |-> h[f]]
    [] OTHER -> h
ListAfter(s, c) ==
  CASE c.op = "lpush" -> <<c.v>> \o s
    [] c.op = "rpush" -> Append(s, c.v)
    [] c.op = "lpop" /\ s # <<>> -> Tail(s)
    [] c.op = "rpop" /\ s # <<>> -> SubSeq(s, 1, Len(s) - 1)
    [] c.op = "lrem" -> Keep(s, c.v)
    [] OTHER -> s
Effect(s, c) == [str |-> StrAfter(s.str, c), hash |-> HashAfter(s.hash, c), list |-> ListAfter(s.list, c)]

\* HGETALL: fields and values in turn, the fields in any order.
Flat(h) ==
  LET n == Cardinality(DOMAIN h)
      fs == CHOOSE fs \in Bijection(1..n, DOMAIN h) : TRUE IN
  [k \in 1..2 * n |-> IF k % 2 = 1 THEN fs[(k + 1) \div 2] ELSE h[fs[k \div 2]]]

Reply(type, n, body) == [type |-> type, n |-> n, body |-> body]
Null == Reply("NULL", 0, <<>>)
Found(ok, body) == IF ok THEN Reply("string", 0, body) ELSE Reply("nil", 0, <<>>)
Answer(s, c) ==
  CASE c.op = "set" -> Reply("status", 0, "OK")
    [] c.op = "get" -> Found(s.str # Nil, <<s.str>>)
    [] c.op \in {"del", "expire"} -> Reply("integer", IF s.str = Nil THEN 0 ELSE 1, <<>>)
    [] c.op \in {"hset", "hdel", "lpush", "rpush", "lrem"} -> Reply("integer", 1, <<>>)
    [] c.op = "hget" -> Found(c.f \in DOMAIN s.hash, <<s.hash[c.f]>>)
    [] c.op \in {"hgetall", "hgetall_2"} ->
         Reply("array", 2 * Cardinality(DOMAIN s.hash), Flat(s.hash))
    [] c.op = "lpop" -> Found(s.list # <<>>, SubSeq(s.list, 1, 1))
    [] c.op = "rpop" -> Found(s.list # <<>>, SubSeq(s.list, Len(s.list), Len(s.list)))
    [] c.op = "lrange" -> Reply("array", Len(s.list), s.list)

\* The command found what it was to act on.
Did(s, c) == Answer(s, c).type # "nil" /\ (c.op \in {"del", "expire"} => s.str # Nil)

-----------------------------------------------------------------------------
(* The functions: the return value, or the result, for a reply.            *)

Ok(b) == IF b THEN 0 ELSE -1
redis_expire(r) == Ok(r.type = "status")
redis_multi(r) == Ok(r.type = "status" /\ r.body = "OK")
redis_discard(r) == Ok(r.type = "status" /\ r.body = "OK")
redis_exec(r) == Ok(r.type = "array" /\ r.n # 0)
redis_set(r) == Ok(r.type = "status" /\ r.body \in {"OK", "QUEUED"})
redis_get(r) == Ok(r.type = "string")
redis_del(r) == Ok(r.type = "integer" /\ r.n = 1)
redis_hset(r) == Ok(r.type = "status")
redis_hget(r) == 0
redis_hdel(r) == 0
redis_lpush(r) == Ok(r.type = "integer")
redis_lpop(r) == Ok(r.type = "string")
redis_rpush(r) == Ok(r.type = "integer")
redis_rpop(r) == Ok(r.type = "string")
redis_lrem(r) == Ok(r.type = "integer")
Elements(r) == IF r.type = "array" THEN r.body ELSE <<>>
redis_hgetall(r) == Elements(r)
redis_lrange(r) == Elements(r)
redis_hgetall_2_DropsLast(r) ==
  LET e == Elements(r)
      keys == {k \in DOMAIN e : k % 2 = 1 /\ k < Len(e) - 1} IN
  [f \in {e[k] : k \in keys} |-> e[(CHOOSE k \in keys : e[k] = f) + 1]]
redis_hgetall_2(r) ==
  LET e == Elements(r)
      keys == {k \in DOMAIN e : k % 2 = 1 /\ k < Len(e)} IN
  [f \in {e[k] : k \in keys} |-> e[(CHOOSE k \in keys : e[k] = f) + 1]]

Ret(op, r) ==
  CASE op = "expire" -> redis_expire(r) [] op = "multi" -> redis_multi(r) [] op = "discard" -> redis_discard(r)
    [] op = "exec" -> redis_exec(r) [] op = "set" -> redis_set(r) [] op = "get" -> redis_get(r)
    [] op = "del" -> redis_del(r) [] op = "hset" -> redis_hset(r) [] op = "hget" -> redis_hget(r)
    [] op = "hdel" -> redis_hdel(r) [] op = "lpush" -> redis_lpush(r) [] op = "lpop" -> redis_lpop(r)
    [] op = "rpush" -> redis_rpush(r) [] op = "rpop" -> redis_rpop(r) [] op = "lrem" -> redis_lrem(r)
    [] OTHER -> 0
Out(op, r) ==
  CASE op = "hgetall" -> redis_hgetall(r) [] op = "hgetall_2" -> redis_hgetall_2(r)
    [] op = "lrange" -> redis_lrange(r) [] OTHER -> r.body

\* hdel gives the context, not the reply, to freeReplyObject.
After(op) == IF op = "hdel" THEN "corrupt" ELSE ctx

Record(op, r, done, lost) ==
  last' = [op |-> op, ret |-> Ret(op, r), out |-> Out(op, r), done |-> done, multi |-> multi, lost |-> lost, n |-> tx.n]

-----------------------------------------------------------------------------
(* Calls.                                                                  *)

\* A context with an error is not freed.
redis_connect ==
  /\ ctx = "none"
  /\ \/ ctx' = "open" /\ UNCHANGED leaks
     \/ ctx' = "none" /\ leaks = 0 /\ leaks' = 1
  /\ UNCHANGED <<st, multi, tx, last>>

\* redisFree; the server forgets the transaction.
redis_close ==
  /\ ctx \in {"open", "broken"} /\ ctx' = "none"
  /\ multi' = FALSE /\ tx' = NoTx /\ last' = NoCall
  /\ UNCHANGED <<st, leaks>>

\* The data a command finds, and the bounds on it.
Now == IF multi THEN tx.st ELSE st
Fits(c) ==
  /\ multi => tx.n < MaxTx
  /\ c.op \in {"lpush", "rpush"} => Len(Now.list) < MaxLen

\* A data command, executed or queued.
Command(c) ==
  /\ ctx = "open" /\ Fits(c)
  /\ IF multi THEN tx' = [n |-> tx.n + 1, st |-> Effect(tx.st, c)] /\ UNCHANGED st
     ELSE st' = Effect(st, c) /\ UNCHANGED tx
  /\ Record(c.op, IF multi THEN Reply("status", 0, "QUEUED") ELSE Answer(st, c), multi \/ Did(st, c), FALSE)
  /\ ctx' = After(c.op)
  /\ UNCHANGED <<multi, leaks>>

Multi ==
  /\ ctx = "open" /\ Record("multi", IF multi THEN Reply("error", 0, <<>>) ELSE Reply("status", 0, "OK"), ~multi, FALSE)
  /\ multi' = TRUE /\ tx' = IF multi THEN tx ELSE [n |-> 0, st |-> st]
  /\ UNCHANGED <<st, ctx, leaks>>

Exec ==
  /\ ctx = "open"
  /\ Record("exec", IF multi THEN Reply("array", tx.n, <<>>) ELSE Reply("error", 0, <<>>), multi, FALSE)
  /\ st' = IF multi THEN tx.st ELSE st
  /\ multi' = FALSE /\ tx' = NoTx
  /\ UNCHANGED <<ctx, leaks>>

Discard ==
  /\ ctx = "open"
  /\ Record("discard", IF multi THEN Reply("status", 0, "OK") ELSE Reply("error", 0, <<>>), multi, FALSE)
  /\ multi' = FALSE /\ tx' = NoTx
  /\ UNCHANGED <<st, ctx, leaks>>

\* The connection breaks: the reply is NULL, the server may have executed the
\* command; one that it only queued is forgotten with the transaction.
Break(c) ==
  /\ ctx = "open" /\ Fits(c)
  /\ \E acted \in BOOLEAN :
       /\ st' = IF acted /\ ~multi THEN Effect(st, c) ELSE st
       /\ Record(c.op, Null, acted /\ ~multi /\ Did(st, c), TRUE)
  /\ ctx' = IF c.op = "hdel" THEN "corrupt" ELSE "broken"
  /\ multi' = FALSE /\ tx' = NoTx /\ UNCHANGED leaks

BreakControl(op) ==
  /\ ctx = "open"
  /\ \E acted \in BOOLEAN :
       /\ st' = IF acted /\ multi /\ op = "exec" THEN tx.st ELSE st
       /\ Record(op, Null, acted /\ multi /\ op \in {"exec", "discard"}, TRUE)
  /\ ctx' = "broken" /\ multi' = FALSE /\ tx' = NoTx /\ UNCHANGED leaks

\* Every call on a broken context has a NULL reply.
Broken(op) ==
  /\ ctx = "broken"
  /\ Record(op, Null, FALSE, TRUE)
  /\ ctx' = After(op)
  /\ UNCHANGED <<st, multi, tx, leaks>>

Commands == [op : Writes \cup Reads, f : Values, v : Values]
RedisNext ==
  \/ redis_connect \/ redis_close \/ Multi \/ Exec \/ Discard
  \/ \E c \in Commands : Command(c) \/ Break(c)
  \/ \E op \in Control : BreakControl(op)
  \/ \E op \in Writes \cup Reads \cup Control : Broken(op)

RedisSpec == RedisInit /\ [][RedisNext]_red

-----------------------------------------------------------------------------
(* Properties.                                                             *)

\* A call that returns 0 was executed or queued by the server and found what it was
\* about, except hget and hdel, which return 0 whatever happened.
SuccessIsTrue == last.ret = 0 /\ last.op \notin {"hget", "hdel", "hgetall", "hgetall_2", "lrange"} => last.done

\* A call that returns -1 though the server accepted its command: expire and hset
\* outside a transaction (they wait for a status), every command that waits for an
\* integer or a string inside one (the reply is QUEUED), an empty transaction, and
\* a command that was executed and its reply lost, which leaves the context unusable.
FailureIsTrue ==
  last.ret = -1 /\ last.done =>
    \/ last.op \in {"expire", "hset"} /\ ~last.multi
    \/ last.op \in {"get", "del", "lpush", "lpop", "rpush", "rpop", "lrem"} /\ last.multi
    \/ last.op = "exec" /\ last.n = 0
    \/ last.lost /\ ctx \in {"broken", "corrupt"}

\* redis_exec: "no MULTI and EXEC without a command in between" (atp_dao.cpp:117).
ExecIsNotEmpty == last.op = "exec" /\ last.ret = 0 => last.n > 0 /\ last.multi /\ ~last.lost

\* hgetall returns each field of the hash with its value, once, hgetall_2 exactly the
\* hash, and lrange exactly the list, outside a transaction; inside one, and on a broken
\* connection, nothing.
ReadsAreExact ==
  /\ last.op = "hgetall" =>
       IF last.multi \/ last.lost THEN last.out = <<>>
       ELSE /\ Len(last.out) = 2 * Cardinality(DOMAIN st.hash)
            /\ {<<last.out[2 * k - 1], last.out[2 * k]>> : k \in 1..Cardinality(DOMAIN st.hash)}
                 = {<<f, st.hash[f]>> : f \in DOMAIN st.hash}
  /\ last.op = "hgetall_2" =>
       last.out = (IF last.multi \/ last.lost THEN [f \in {} |-> 0] ELSE st.hash)
  /\ last.op = "lrange" => last.out = (IF last.multi \/ last.lost THEN <<>> ELSE st.list)

\* Only hdel damages the context, and then on every path.
CorruptByHdel == ctx = "corrupt" <=> last.op = "hdel"

\* Redis: return values and results say what the server did, with the exceptions that
\* SuccessIsTrue and FailureIsTrue name; only hdel damages the context.
RedisIsTrue == SuccessIsTrue /\ FailureIsTrue /\ ExecIsNotEmpty /\ ReadsAreExact /\ CorruptByHdel
=============================================================================
