----------------------------- MODULE SdkClient ------------------------------
(***************************************************************************)
(* The TypeScript SDK, whose two backends offer one interface: what each   *)
(* operation sends (createRespKvClient and createHttpKvClient) and how the *)
(* reply is given to the application: "entry", "null", "ok", "yes", "no",  *)
(* "conflict", "not_found" or "error".                                     *)
(*                                                                         *)
(* An operation o has fn, key, val, n (a delta or a revision), ttl, kind   *)
(* (the expiry option used), cond, and want: whether the value is returned.*)
(***************************************************************************)
EXTENDS Requests

Str(n) == CHOOSE t \in DOMAIN Num : Num[t] = n
HasTtl(o) == o.kind # "none"

-----------------------------------------------------------------------------
(* resp.ts: the commands of an operation, pipelined; the one that answers  *)
(* it is told by main.                                                     *)

respSet(o) ==
  LET expiry == IF HasTtl(o) THEN <<"EX", Str(o.ttl)>> ELSE << >>
  IN CASE o.cond = "ifMatch"   -> <<"SETREV", o.key, o.val, Str(o.n)>> \o expiry
       [] o.cond = "ifAbsent"  -> <<"SET", o.key, o.val>> \o expiry \o <<"NX">>
       [] o.cond = "ifPresent" -> <<"SET", o.key, o.val>> \o expiry \o <<"XX">>
       [] OTHER                -> <<"SET", o.key, o.val>> \o expiry

respExpire(o) ==
  IF o.want
  THEN <<"GETEX", o.key>> \o
       CASE o.kind = "persist" -> <<"PERSIST">>
         [] o.kind = "ttl"     -> <<"EX", Str(o.ttl)>>
         [] o.kind = "ttlMs"   -> <<"PX", Str(o.ttl)>>
         [] o.kind = "ttlAt"   -> <<"EXAT", Str(o.ttl)>>
         [] o.kind = "ttlAtMs" -> <<"PXAT", Str(o.ttl)>>
  ELSE CASE o.kind = "persist" -> <<"PERSIST", o.key>>
         [] o.kind = "ttl"     -> <<"EXPIRE", o.key, Str(o.ttl)>>
         [] o.kind = "ttlMs"   -> <<"PEXPIRE", o.key, Str(o.ttl)>>
         [] o.kind = "ttlAt"   -> <<"EXPIREAT", o.key, Str(o.ttl)>>
         [] o.kind = "ttlAtMs" -> <<"PEXPIREAT", o.key, Str(o.ttl)>>

RespCommands(o) ==
  LET revision == <<"REVISION", o.key>>
      ttl      == <<"TTL", o.key>>
      One(c)   == [main |-> 1, cmds |-> <<c>>]
      First(c) == [main |-> 1, cmds |-> <<c, revision, ttl>>]
      Third(c) == [main |-> 3, cmds |-> <<revision, ttl, c>>]
  IN CASE o.fn = "get" -> First(<<"GET", o.key>>)
       [] o.fn = "set" -> One(respSet(o))
       [] o.fn = "exists" -> One(<<"EXISTS", o.key>>)
       [] o.fn = "getAndSet" -> Third(<<"GETSET", o.key, o.val>>)
       [] o.fn = "expire" -> IF o.want THEN First(respExpire(o)) ELSE One(respExpire(o))
       [] o.fn = "cas" -> One(respSet([o EXCEPT !.cond = "ifMatch"]))
       [] o.fn = "delete" /\ o.want -> Third(<<"GETDEL", o.key>>)
       [] o.fn = "delete" -> One(<<"DEL", o.key>>)
       [] o.fn = "incr" -> One(<<"INCRBY", o.key, Str(o.n)>>)
       [] o.fn = "decr" -> One(<<"DECRBY", o.key, Str(o.n)>>)
       [] o.fn = "compact" -> One(<<"BGREWRITEAOF">>)

RespResult(o, reply) ==
  CASE reply = "ERR" -> "error"
    [] reply = "CONFLICT" -> "conflict"
    [] o.fn = "set" /\ reply = "nil" -> "conflict"
    [] o.fn = "expire" /\ reply \in {"0", "nil"} -> "not_found"
    [] o.fn = "expire" /\ reply = "1" -> "null"
    [] o.fn = "exists" -> IF reply = "0" THEN "no" ELSE "yes"
    [] reply = "nil" -> "null"
    [] reply = "bulk" -> "entry"
    [] OTHER -> "ok"

-----------------------------------------------------------------------------
(* http.ts.                                                                *)

Request(method, o, ns, query, headers, body) ==
  [method |-> method, path |-> "/v1/kv/{key}", key |-> <<o.key>>,
   query |-> ("ns" :> Str(ns)) @@ query, headers |-> headers, body |-> body]
NoFields == [x \in {} |-> ""]

httpSet(o, ns) ==
  LET headers == (IF HasTtl(o) THEN "x-kv-ttl" :> Str(o.ttl) ELSE NoFields)
                 @@ (IF o.cond = "ifMatch" THEN "if-match" :> Str(o.n) ELSE NoFields)
      query   == CASE o.cond = "ifAbsent"  -> "nx" :> "1"
                   [] o.cond = "ifPresent" -> "xx" :> "1"
                   [] OTHER -> NoFields
  IN Request("PUT", o, ns, query, headers, o.val)

httpExpire(o, ns) ==
  LET names == [ttl |-> "ttl", ttlMs |-> "ttl_ms", ttlAt |-> "ttl_at", ttlAtMs |-> "ttl_at_ms"]
  IN Request("PATCH", o, ns,
             IF o.kind = "persist" THEN "persist" :> "1" ELSE names[o.kind] :> Str(o.ttl),
             IF o.want THEN "x-kv-return-value" :> "1" ELSE NoFields, "")

httpIncr(o, ns, delta) ==
  [Request("POST", o, ns, IF delta # 1 THEN "delta" :> Str(delta) ELSE NoFields, NoFields, "")
     EXCEPT !.path = "/v1/kv/{key}/incr"]

HttpRequest(o, ns) ==
  CASE o.fn = "get" -> Request("GET", o, ns, NoFields, NoFields, "")
    [] o.fn = "set" -> httpSet(o, ns)
    [] o.fn = "exists" -> Request("HEAD", o, ns, NoFields, NoFields, "")
    [] o.fn = "getAndSet" -> Request("PUT", o, ns, NoFields, "x-kv-return-old" :> "1", o.val)
    [] o.fn = "expire" -> httpExpire(o, ns)
    [] o.fn = "cas" -> httpSet([o EXCEPT !.cond = "ifMatch"], ns)
    [] o.fn = "delete" ->
         Request("DELETE", o, ns, NoFields,
                 IF o.want THEN "x-kv-return-old" :> "1" ELSE NoFields, "")
    [] o.fn = "incr" -> httpIncr(o, ns, o.n)
    [] o.fn = "decr" -> httpIncr(o, ns, -o.n)
    [] o.fn = "compact" ->
         [Request("POST", o, ns, NoFields, NoFields, "") EXCEPT !.path = "/v1/admin/compact"]

HttpResult(o, status) ==
  CASE o.fn = "exists" /\ status \in {"200", "404"} -> IF status = "200" THEN "yes" ELSE "no"
    [] o.fn = "get" /\ status = "404" -> "null"
    [] o.fn = "expire" /\ status = "404" -> "not_found"
    [] status = "409" -> "conflict"
    [] o.fn \in {"set", "cas", "incr", "decr", "compact"} /\ status \in {"200", "204"} -> "ok"
    [] o.fn = "delete" /\ ~o.want /\ status = "204" -> "ok"
    [] status = "204" -> "null"
    [] status = "200" -> "entry"
    [] OTHER -> "error"
=============================================================================
