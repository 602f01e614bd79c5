------------------------------ MODULE Requests ------------------------------
(***************************************************************************)
(* What a request asks of the store, in both protocols: Command::parse and *)
(* dispatch_inner for RESP, route and its handlers for HTTP.  Each gives   *)
(* the call made on the ShardStore and the reply for each of its outcomes: *)
(* yes (true, Some or Ok), no (false or None) and err.                     *)
(*                                                                         *)
(* An argument is a token; Num gives the number a token spells.  Names are *)
(* in upper case: the code folds them.                                     *)
(***************************************************************************)
EXTENDS Integers, Sequences, FiniteSets, TLC

CONSTANTS
  Num,         \* the tokens that spell a number, and the numbers
  Second,      \* milliseconds of a second
  U8Max        \* u8::MAX

Absent == -1                                  \* Option::None of a number
NoTtl == [unit |-> "none", n |-> 0]
Persist == [unit |-> "persist", n |-> 0]

u64(t) == IF t \in DOMAIN Num /\ Num[t] >= 0 THEN Num[t] ELSE Absent
IsI64(t) == t \in DOMAIN Num
u8(t) == IF u64(t) > U8Max THEN Absent ELSE u64(t)

-----------------------------------------------------------------------------
(* Command::parse.                                                         *)

NoCommand == [op |-> "none", keys |-> << >>, val |-> "", n |-> 0, ttl |-> NoTtl,
              cond |-> "always", get |-> FALSE, keep |-> FALSE, meta |-> ""]
Fails(why) == [NoCommand EXCEPT !.op = "error", !.val = why]
Failed(c) == c.op = "error"

Cmd(op) == [NoCommand EXCEPT !.op = op]
Keyed(args) == [NoCommand EXCEPT !.op = args[1], !.keys = <<args[2]>>]
Exactly(n, args, cmd) == IF Len(args) # n THEN Fails("WrongArity") ELSE cmd
AtLeast(n, args, cmd) == IF Len(args) < n THEN Fails("WrongArity") ELSE cmd
WithU64(cmd, t) ==
  IF u64(t) = Absent THEN Fails("InvalidInteger") ELSE [cmd EXCEPT !.n = u64(t)]
WithI64(cmd, t) == IF IsI64(t) THEN [cmd EXCEPT !.n = Num[t]] ELSE Fails("InvalidInteger")

Units == [EX |-> "s", PX |-> "ms", EXAT |-> "at_s", PXAT |-> "at_ms"]

\* Mutation: an expiry undoes KEEPTTL.
WithExpiryAlone(cmd, opt, t) ==
  CASE u64(t) = Absent -> Fails("InvalidInteger")
    [] u64(t) = 0 /\ opt \in {"EX", "PX"} -> Fails("InvalidExpiry")
    [] OTHER -> [cmd EXCEPT !.ttl = [unit |-> Units[opt], n |-> u64(t)], !.keep = FALSE]

\* An expiry option: EX and PX refuse zero, EXAT and PXAT take any number.
WithExpiry(cmd, opt, t) ==
  CASE u64(t) = Absent -> Fails("InvalidInteger")
    [] u64(t) = 0 /\ opt \in {"EX", "PX"} -> Fails("InvalidExpiry")
    [] OTHER -> [cmd EXCEPT !.ttl = [unit |-> Units[opt], n |-> u64(t)]]

\* The loop over the options from argument i on: those in flags stand alone, those in
\* valued take the next argument; an option given again replaces the earlier one.
RECURSIVE Options(_, _, _, _, _)
Options(cmd, args, i, flags, valued) ==
  IF Failed(cmd) \/ i > Len(args) THEN cmd
  ELSE
    LET opt == args[i]
        v   == args[i + 1]
    IN CASE opt \notin flags \union valued -> Fails("Syntax")
         [] opt \in valued /\ i = Len(args) -> Fails("WrongArity")
         [] opt \in flags ->
              Options(CASE opt \in {"NX", "XX"} -> [cmd EXCEPT !.cond = opt]
                        [] opt = "GET" -> [cmd EXCEPT !.get = TRUE]
                        [] opt = "KEEPTTL" -> [cmd EXCEPT !.keep = TRUE]
                        [] opt = "PERSIST" -> [cmd EXCEPT !.ttl = Persist],
                      args, i + 1, flags, valued)
         [] OTHER ->
              Options(CASE opt \in DOMAIN Units -> WithExpiry(cmd, opt, v)
                        [] opt = "META" -> [cmd EXCEPT !.meta = v]
                        [] opt = "MATCH" -> [cmd EXCEPT !.val = v]
                        [] opt = "COUNT" -> WithU64(cmd, v)
                        [] opt = "REV" -> WithU64([cmd EXCEPT !.cond = "REV"], v),
                      args, i + 2, flags, valued)

parse_set(args) ==
  AtLeast(3, args,
    Options([Keyed(args) EXCEPT !.val = args[3]], args, 4,
            {"NX", "XX", "GET", "KEEPTTL"}, DOMAIN Units \union {"REV", "META"}))

parse_setrev(args) ==
  AtLeast(4, args,
    Options(WithU64([Keyed(args) EXCEPT !.val = args[3]], args[4]), args, 5, {}, DOMAIN Units))

parse_getex(args) ==
  AtLeast(2, args, Options(Keyed(args), args, 3, {"PERSIST"}, DOMAIN Units))

\* GET to PERSIST.
parse_keyed(args) ==
  CASE args[1] \in {"GET", "TTL", "PTTL", "PERSIST"} -> Exactly(2, args, Keyed(args))
    [] args[1] = "SET" -> parse_set(args)
    [] args[1] \in {"DEL", "EXISTS"} ->
         AtLeast(2, args, [Cmd(args[1]) EXCEPT !.keys = Tail(args)])
    [] args[1] \in {"EXPIRE", "PEXPIRE", "EXPIREAT", "PEXPIREAT"} ->
         Exactly(3, args, WithU64(Keyed(args), args[3]))

\* KEYS and SCAN; the pattern is in val, "" when there is none.
DefaultCount == 10
parse_scan(args) ==
  IF args[1] = "KEYS" THEN [Cmd("KEYS") EXCEPT !.val = IF Len(args) >= 2 THEN args[2] ELSE ""]
  ELSE AtLeast(2, args, Options([Keyed(args) EXCEPT !.n = DefaultCount], args, 3, {},
                                {"MATCH", "COUNT"}))

\* MGET to DECRBY.
parse_several(args) ==
  CASE args[1] = "MGET" -> AtLeast(2, args, [Cmd("MGET") EXCEPT !.keys = Tail(args)])
    [] args[1] = "MSET" ->
         IF Len(args) < 3 \/ Len(args) % 2 = 0 THEN Fails("WrongArity")
         ELSE [Cmd("MSET") EXCEPT !.keys = Tail(args)]
    [] args[1] \in {"GETSET", "SETNX"} ->
         Exactly(3, args, [Keyed(args) EXCEPT !.val = args[3]])
    [] args[1] \in {"GETDEL", "INCR", "DECR"} -> Exactly(2, args, Keyed(args))
    [] args[1] = "GETEX" -> parse_getex(args)
    [] args[1] \in {"INCRBY", "DECRBY"} -> Exactly(3, args, WithI64(Keyed(args), args[3]))

\* HELLO to RESET.
parse_session(args) ==
  CASE args[1] = "HELLO" ->
         IF Len(args) < 2 THEN [Cmd("HELLO") EXCEPT !.n = 2]
         ELSE IF u8(args[2]) = Absent THEN Fails("InvalidInteger")
         ELSE [Cmd("HELLO") EXCEPT !.n = u8(args[2])]
    [] args[1] = "SELECT" -> Exactly(2, args, WithU64(Keyed(args), args[2]))
    [] args[1] = "FLUSHDB" -> Exactly(1, args, Cmd("FLUSHDB"))
    [] args[1] \in {"PING", "DBSIZE", "BGREWRITEAOF", "QUIT", "RESET"} -> Cmd(args[1])

\* WATCH to UNWATCH: SINCE and a number at the end of WATCH, after the prefix of PWATCH.
parse_watch(args) ==
  LET n      == Len(args)
      since  == n >= 3 /\ args[n - 1] = "SINCE"
      keys   == SubSeq(args, 2, IF since THEN n - 2 ELSE n)
      psince == n >= 4 /\ args[3] = "SINCE"
  IN CASE args[1] = "WATCH" ->
            AtLeast(2, args, IF since THEN WithU64([Cmd("WATCH") EXCEPT !.keys = keys], args[n])
                             ELSE [Cmd("WATCH") EXCEPT !.keys = keys])
       [] args[1] = "PWATCH" ->
            AtLeast(2, args, IF psince THEN WithU64(Keyed(args), args[4]) ELSE Keyed(args))
       [] args[1] = "UNWATCH" -> Cmd("UNWATCH")

\* REVISION to COMMAND.
parse_revision(args) ==
  CASE args[1] \in {"REVISION", "GETMETA"} -> Exactly(2, args, Keyed(args))
    [] args[1] = "SETREV" -> parse_setrev(args)
    [] args[1] = "DELREV" -> Exactly(3, args, WithU64(Keyed(args), args[3]))
    [] args[1] = "COMMAND" -> Cmd("PING")

parse(args) ==
  CASE args = << >> -> Fails("InvalidFormat")
    [] args[1] \in {"GET", "SET", "DEL", "EXISTS", "EXPIRE", "PEXPIRE", "EXPIREAT",
                    "PEXPIREAT", "TTL", "PTTL", "PERSIST"} -> parse_keyed(args)
    [] args[1] \in {"KEYS", "SCAN"} -> parse_scan(args)
    [] args[1] \in {"MGET", "MSET", "GETSET", "SETNX", "GETDEL", "GETEX", "INCR", "INCRBY",
                    "DECR", "DECRBY"} -> parse_several(args)
    [] args[1] \in {"HELLO", "PING", "SELECT", "DBSIZE", "BGREWRITEAOF", "FLUSHDB", "QUIT",
                    "RESET"} -> parse_session(args)
    [] args[1] \in {"WATCH", "PWATCH", "UNWATCH"} -> parse_watch(args)
    [] args[1] \in {"REVISION", "SETREV", "DELREV", "GETMETA", "COMMAND"} -> parse_revision(args)
    [] OTHER -> Fails("UnknownCommand")

-----------------------------------------------------------------------------
(* Calls on the store.  A relative expiry is in milliseconds.              *)

PersistOp == -2                               \* GetExOp::Persist
NoCall == [fn |-> "none", ns |-> 0, keys |-> << >>, val |-> "", ttl |-> Absent,
           keep |-> FALSE, meta |-> "", n |-> 0]
Call(fn, ns, keys) == [NoCall EXCEPT !.fn = fn, !.ns = ns, !.keys = keys]
Replies(call, yes, no) == [call |-> call, yes |-> yes, no |-> no, err |-> "ERR"]

Monus(a, b) == IF a > b THEN a - b ELSE 0
NowSecs(now) == now \div Second

\* Mutation: PXAT is rounded down to seconds.
ttl_duration_rounded(ttl, now) ==
  CASE ttl.unit = "s"     -> ttl.n * Second
    [] ttl.unit = "ms"    -> ttl.n
    [] ttl.unit = "at_s"  -> Monus(ttl.n, NowSecs(now)) * Second
    [] ttl.unit = "at_ms" -> (Monus(ttl.n, now) \div Second) * Second
    [] OTHER -> Absent

\* ttl_duration_from_spec
ttl_duration_from_spec(ttl, now) ==
  CASE ttl.unit = "s"     -> ttl.n * Second
    [] ttl.unit = "ms"    -> ttl.n
    [] ttl.unit = "at_s"  -> Monus(ttl.n, NowSecs(now)) * Second
    [] ttl.unit = "at_ms" -> Monus(ttl.n, now)
    [] OTHER -> Absent

\* set_opts_from_args
set_opts_from_args(c, call, now) ==
  [call EXCEPT !.val = c.val, !.ttl = ttl_duration_from_spec(c.ttl, now), !.keep = c.keep,
               !.meta = c.meta]

-----------------------------------------------------------------------------
(* dispatch_inner.                                                         *)

\* GET, and SET with its conditions.  GET beside no condition is GETSET, which takes the
\* value alone.
dispatch_set(c, ns, now) ==
  LET To(fn) == set_opts_from_args(c, Call(fn, ns, c.keys), now)
  IN CASE c.op = "GET" -> Replies(Call("get", ns, c.keys), "bulk", "nil")
       [] c.cond = "NX" -> Replies(To("setnx"), "OK", "nil")
       [] c.cond = "XX" -> Replies(To("setxx"), "OK", "nil")
       [] c.cond = "REV" -> Replies([To("setrev") EXCEPT !.n = c.n], "revision", "CONFLICT")
       [] c.get -> Replies([Call("getset", ns, c.keys) EXCEPT !.val = c.val], "bulk", "nil")
       [] OTHER -> Replies(To("set"), "OK", "OK")

\* EXPIRE to PERSIST.  A time that is past deletes the key, and answers 1 either way.
dispatch_expiry(c, ns, now) ==
  LET Expire(ms) == Replies([Call("expire", ns, c.keys) EXCEPT !.ttl = ms], "1", "0")
      Del        == Replies(Call("del", ns, c.keys), "1", "1")
  IN CASE c.op = "EXPIRE" -> Expire(c.n * Second)
       [] c.op = "PEXPIRE" -> Expire(c.n)
       [] c.op = "EXPIREAT" ->
            IF c.n <= NowSecs(now) THEN Del ELSE Expire((c.n - NowSecs(now)) * Second)
       [] c.op = "PEXPIREAT" -> IF c.n <= now THEN Del ELSE Expire(c.n - now)
       [] c.op = "TTL" -> Replies(Call("ttl", ns, c.keys), "seconds", "-2")
       [] c.op = "PTTL" -> Replies(Call("pttl", ns, c.keys), "millis", "-2")
       [] c.op = "PERSIST" -> Replies(Call("persist", ns, c.keys), "1", "0")

\* Commands over several keys or shards: FanOut has their plans.
dispatch_several(c, ns) ==
  LET To(fn) == [Call(fn, ns, c.keys) EXCEPT !.val = c.val, !.n = c.n]
  IN CASE c.op = "DEL" -> Replies(To("dispatch_del"), "count", "0")
       [] c.op = "EXISTS" -> Replies(To("dispatch_exists"), "count", "0")
       [] c.op = "MGET" -> Replies(To("dispatch_mget"), "array", "array")
       [] c.op = "MSET" -> Replies(To("dispatch_mset"), "OK", "OK")
       [] c.op = "KEYS" -> Replies(To("dispatch_keys"), "array", "ERR")
       [] c.op = "SCAN" -> Replies(To("dispatch_scan"), "page", "page")
       [] c.op = "DBSIZE" -> Replies(To("dispatch_dbsize"), "count", "count")
       [] c.op = "FLUSHDB" -> Replies(To("dispatch_flushdb"), "OK", "OK")

\* GETSET to GETEX.
dispatch_swap(c, ns, now) ==
  LET To(fn)  == [Call(fn, ns, c.keys) EXCEPT !.val = c.val]
      Incr(d) == Replies([To("incr") EXCEPT !.n = d], "integer", "integer")
  IN CASE c.op = "GETSET" -> Replies(To("getset"), "bulk", "nil")
       [] c.op = "SETNX" -> Replies(To("setnx"), "1", "0")
       [] c.op = "GETDEL" -> Replies(To("getdel"), "bulk", "nil")
       [] c.op = "INCR" -> Incr(1)
       [] c.op = "INCRBY" -> Incr(c.n)
       [] c.op = "DECR" -> Incr(-1)
       [] c.op = "DECRBY" -> Incr(-c.n)
       [] c.op = "GETEX" ->
            Replies([To("getex") EXCEPT !.ttl = IF c.ttl = Persist THEN PersistOp
                                                ELSE ttl_duration_from_spec(c.ttl, now)],
                    "bulk", "nil")

\* REVISION to GETMETA.
dispatch_revision(c, ns, now) ==
  CASE c.op = "REVISION" -> Replies(Call("get", ns, c.keys), "revision", "-2")
    [] c.op = "SETREV" ->
         Replies([Call("setrev", ns, c.keys) EXCEPT
                    !.val = c.val, !.n = c.n, !.ttl = ttl_duration_from_spec(c.ttl, now)],
                 "revision", "CONFLICT")
    [] c.op = "DELREV" -> Replies([Call("delrev", ns, c.keys) EXCEPT !.n = c.n], "1", "CONFLICT")
    [] c.op = "GETMETA" -> Replies(Call("get", ns, c.keys), "bulk", "nil")

\* PING to RESET answer without a call, but for BGREWRITEAOF; what they do to the
\* connection is RespConn's.  WATCH and its kind do not come here.
dispatch_session(c, ns) ==
  CASE c.op = "PING" -> Replies(NoCall, "PONG", "PONG")
    [] c.op = "HELLO" -> Replies(NoCall, "map", "map")
    [] c.op \in {"SELECT", "QUIT"} -> Replies(NoCall, "OK", "OK")
    [] c.op = "RESET" -> Replies(NoCall, "RESET", "RESET")
    [] c.op = "BGREWRITEAOF" -> Replies(Call("reclaim", ns, << >>), "started", "started")
    [] c.op \in {"WATCH", "PWATCH", "UNWATCH"} -> Replies(NoCall, "ERR", "ERR")

dispatch_inner(c, ns, now) ==
  CASE Failed(c) -> Replies(NoCall, "ERR", "ERR")
    [] c.op \in {"GET", "SET"} -> dispatch_set(c, ns, now)
    [] c.op \in {"EXPIRE", "PEXPIRE", "EXPIREAT", "PEXPIREAT", "TTL", "PTTL", "PERSIST"} ->
         dispatch_expiry(c, ns, now)
    [] c.op \in {"DEL", "EXISTS", "MGET", "MSET", "KEYS", "SCAN", "DBSIZE", "FLUSHDB"} ->
         dispatch_several(c, ns)
    [] c.op \in {"GETSET", "SETNX", "GETDEL", "INCR", "INCRBY", "DECR", "DECRBY", "GETEX"} ->
         dispatch_swap(c, ns, now)
    [] c.op \in {"REVISION", "SETREV", "DELREV", "GETMETA"} -> dispatch_revision(c, ns, now)
    [] OTHER -> dispatch_session(c, ns)

-----------------------------------------------------------------------------
(* route and the handlers.  A request has a method, a path, the key in it, *)
(* a query and headers (functions from names to tokens) and a body.        *)

Has(f, name) == name \in DOMAIN f
Answers(status) == [call |-> NoCall, yes |-> status, no |-> status, err |-> status]
Http(call, yes, no) == [call |-> call, yes |-> yes, no |-> no, err |-> "4xx/5xx"]
FieldU64(f, name) == IF Has(f, name) THEN u64(f[name]) ELSE Absent

\* parse_ns: a number that is not a u8 counts as none.
Namespaces == 16
parse_ns(q) ==
  LET n == IF Has(q, "ns") /\ u8(q["ns"]) # Absent THEN u8(q["ns"]) ELSE 0
  IN IF n < Namespaces THEN n ELSE Absent

\* parse_ttl_op: the first of persist, ttl, ttl_ms, ttl_at and ttl_at_ms that can be read;
\* the last counts from the beginning of the current second.
parse_ttl_op(q, now) ==
  CASE Has(q, "persist") -> PersistOp
    [] FieldU64(q, "ttl") # Absent -> FieldU64(q, "ttl") * Second
    [] FieldU64(q, "ttl_ms") # Absent -> FieldU64(q, "ttl_ms")
    [] FieldU64(q, "ttl_at") # Absent -> Monus(FieldU64(q, "ttl_at"), NowSecs(now)) * Second
    [] FieldU64(q, "ttl_at_ms") # Absent ->
         Monus(FieldU64(q, "ttl_at_ms"), NowSecs(now) * Second)
    [] OTHER -> Absent

\* Mutation: the header counts milliseconds.
parse_ttl_as_millis(r) ==
  CASE FieldU64(r.headers, "x-kv-ttl") # Absent -> FieldU64(r.headers, "x-kv-ttl")
    [] FieldU64(r.query, "ttl") # Absent -> FieldU64(r.query, "ttl") * Second
    [] OTHER -> Absent

\* parse_ttl_from_request: the header before the query.
parse_ttl_from_request(r) ==
  CASE FieldU64(r.headers, "x-kv-ttl") # Absent -> FieldU64(r.headers, "x-kv-ttl") * Second
    [] FieldU64(r.query, "ttl") # Absent -> FieldU64(r.query, "ttl") * Second
    [] OTHER -> Absent

handle_get(r, ns) == Http(Call("get", ns, r.key), "200", "404")
handle_head(r, ns) == Http(Call("get", ns, r.key), "200", "404")

\* handle_patch: GETEX when the value is asked for, otherwise one of PERSIST and EXPIRE.
handle_patch(r, ns, now) ==
  LET op == parse_ttl_op(r.query, now)
  IN CASE Has(r.headers, "x-kv-return-value") ->
            Http([Call("getex", ns, r.key) EXCEPT !.ttl = op], "200", "404")
       [] op = Absent -> Answers("400")
       [] op = PersistOp -> Http(Call("persist", ns, r.key), "204", "404")
       [] OTHER -> Http([Call("expire", ns, r.key) EXCEPT !.ttl = op], "204", "404")

\* handle_put: nx and xx are searched for in the query as text, so any value that begins
\* with 1 sets them.
BeginsWithOne == {"1", "10"}
handle_put(r, ns) ==
  LET ttl        == parse_ttl_from_request(r)
      keep_ttl   == Has(r.headers, "x-kv-keepttl")
      return_old == Has(r.headers, "x-kv-return-old")
      nx         == Has(r.query, "nx") /\ r.query["nx"] \in BeginsWithOne
      xx         == Has(r.query, "xx") /\ r.query["xx"] \in BeginsWithOne
      if_match   == FieldU64(r.headers, "if-match")
      meta       == IF Has(r.headers, "x-kv-metadata") THEN r.headers["x-kv-metadata"] ELSE ""
      To(fn)     == [Call(fn, ns, r.key) EXCEPT !.val = r.body, !.ttl = ttl, !.meta = meta,
                                                !.keep = keep_ttl]
  IN CASE keep_ttl /\ ttl # Absent -> Answers("400")
       [] return_old /\ (nx \/ xx \/ if_match # Absent \/ keep_ttl) -> Answers("400")
       [] return_old -> Http([Call("getset", ns, r.key) EXCEPT !.val = r.body], "200", "204")
       [] if_match # Absent -> Http([To("setrev") EXCEPT !.n = if_match], "204", "409")
       [] nx -> Http(To("setnx"), "204", "409")
       [] xx -> Http(To("setxx"), "204", "409")
       [] OTHER -> Http(To("set"), "204", "204")

handle_delete(r, ns) ==
  LET if_match == FieldU64(r.headers, "if-match")
  IN CASE if_match # Absent ->
            Http([Call("delrev", ns, r.key) EXCEPT !.n = if_match], "204", "409")
       [] Has(r.headers, "x-kv-return-old") -> Http(Call("getdel", ns, r.key), "200", "204")
       [] OTHER -> Http(Call("del", ns, r.key), "204", "204")

handle_incr(r, ns, delta) == Http([Call("incr", ns, r.key) EXCEPT !.n = delta], "200", "200")
handle_compact(ns) == Http(Call("reclaim", ns, << >>), "204", "204")

\* The requests with no key in the path that reach the store, and the ones over several
\* shards, whose plans FanOut has.
route_whole(r, ns) ==
  CASE r.path = "/v1/admin/compact" ->
         IF r.method = "POST" THEN handle_compact(ns) ELSE Answers("405")
    [] r.path = "/v1/kv/batch" ->
         IF r.method = "POST" THEN Http(Call("handle_batch", ns, << >>), "200", "409")
         ELSE Answers("405")
    [] r.path = "/v1/kv" /\ r.method = "GET" ->
         Http(Call(IF Has(r.query, "count") THEN "handle_dbsize" ELSE "handle_list", ns, << >>),
              "200", "200")
    [] r.path = "/v1/kv" /\ r.method = "DELETE" ->
         Http(Call("handle_flushdb", ns, << >>), "204", "204")
    [] OTHER -> Answers("405")

\* /v1/kv/{key} and /v1/kv/{key}/incr; a delta that cannot be read is 1.
route_key(r, ns, now) ==
  LET delta == IF Has(r.query, "delta") /\ IsI64(r.query["delta"])
               THEN Num[r.query["delta"]] ELSE 1
  IN CASE r.path = "/v1/kv/{key}/incr" /\ r.method # "POST" -> Answers("405")
       [] r.key = <<"">> -> Answers("404")
       [] r.path = "/v1/kv/{key}/incr" -> handle_incr(r, ns, delta)
       [] r.method = "GET" -> handle_get(r, ns)
       [] r.method = "HEAD" -> handle_head(r, ns)
       [] r.method = "PUT" -> handle_put(r, ns)
       [] r.method = "DELETE" -> handle_delete(r, ns)
       [] r.method = "PATCH" -> handle_patch(r, ns, now)
       [] OTHER -> Answers("405")

\* route: degraded tells whether a shard's syncs fail as often as the threshold.
route(r, now, degraded) ==
  LET ns     == parse_ns(r.query)
      keyed  == r.path \in {"/v1/kv/{key}", "/v1/kv/{key}/incr"}
      \* compact and batch look at the method before the namespace
      method == r.path \in {"/v1/admin/compact", "/v1/kv/batch"} /\ r.method # "POST"
  IN CASE r.path \in {"/livez", "/metrics"} -> Answers("200")
       [] r.path = "/readyz" -> Answers(IF degraded THEN "503" ELSE "200")
       [] r.path = "/v1/openapi.json" -> Answers(IF r.method = "GET" THEN "200" ELSE "405")
       [] ~keyed /\ r.path \notin {"/v1/admin/compact", "/v1/kv/batch", "/v1/kv"} ->
            Answers("404")
       [] method -> Answers("405")
       [] ns = Absent -> Answers("400")
       [] keyed -> route_key(r, ns, now)
       [] OTHER -> route_whole(r, ns)
=============================================================================
