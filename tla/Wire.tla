-------------------------------- MODULE Wire --------------------------------
(***************************************************************************)
(* The two protocols.  A behaviour examines one thing: a RESP connection,  *)
(* an HTTP connection, or one input of the pure functions between them and *)
(* the store, which the probe holds.                                       *)
(***************************************************************************)
EXTENDS Text, SdkClient, RespConn, HttpConn

CONSTANTS
  Patterns, GlobKeys,    \* patterns, and the keys they are matched against
  ByteStrings,           \* keys to be put in a URL
  Targets,               \* request targets
  FirstCommands,         \* the commands a RESP connection begins with
  Numerals,              \* arguments read as integers
  OptionSets,            \* options given to SET, each with its argument
  Operations,            \* calls of the SDK
  Times, ExpiryTimes     \* clock readings, and the times at which keys shall expire

VARIABLE probe

vars == <<probe, respVars, httpVars>>

NoScript == [cmds |-> << >>, window |-> 0, pushes |-> 0, stalls |-> FALSE, idle |-> FALSE,
             fails |-> FALSE]
RespAtRest ==
  /\ script = NoScript /\ sent = 0 /\ closing = FALSE /\ wire = << >> /\ rbuf = << >>
  /\ taken = 0 /\ version = 2 /\ codec = 2 /\ out = << >> /\ got = << >> /\ pc = "closed"
  /\ pushes = 0
HttpAtRest ==
  /\ stream = << >> /\ inward = << >> /\ reading = 0 /\ answers = << >> /\ hpc = "closed"
  /\ misread = FALSE

Init ==
  \/ probe = [is |-> "resp"] /\ RespInit /\ HttpAtRest
  \/ probe = [is |-> "http"] /\ HttpInit /\ RespAtRest
  \/ /\ RespAtRest /\ HttpAtRest
     /\ \/ \E x \in Patterns : probe = [is |-> "glob", of |-> x]
        \/ \E x \in ByteStrings : probe = [is |-> "bytes", of |-> x]
        \/ \E x \in Targets : probe = [is |-> "target", of |-> x]
        \/ \E x \in FirstCommands : probe = [is |-> "first", of |-> x]
        \/ \E x \in Numerals : probe = [is |-> "number", of |-> x]
        \/ \E x \in OptionSets : probe = [is |-> "options", of |-> x]
        \/ \E x \in Operations : probe = [is |-> "operation", of |-> x]
        \/ \E x \in ExpiryTimes : probe = [is |-> "expiry", of |-> x]

Next ==
  \/ probe.is = "resp" /\ RespNext /\ UNCHANGED <<probe, httpVars>>
  \/ probe.is = "http" /\ HttpNext /\ UNCHANGED <<probe, respVars>>

Spec == Init /\ [][Next]_vars

-----------------------------------------------------------------------------
(* Connections.                                                            *)

\* A client is never left waiting for a reply the server holds back: when nothing can move,
\* every command of a client that finished its commands is answered, and so is every
\* command up to a QUIT that nothing followed; a connection that watches is left out.
NoReplyHeldBack ==
  /\ (probe.is = "resp" /\ pc = "next" /\ ~ENABLED RespProgress /\ ~script.stalls)
       => Len(Answered) = sent
  /\ (/\ pc = "closed" /\ rbuf = << >> /\ taken > 0 /\ Kind(taken) = "quit"
      /\ ~script.fails /\ \A i \in 1..taken : Kind(i) # "watch")
       => Len(Answered) = taken

\* An HTTP connection gives one response to each request, in order, and closes before it
\* would take the bytes of a body it did not drain for a request.
OneResponseEach ==
  /\ \A n \in 1..Len(answers) : answers[n].of = n
  /\ ~misread

-----------------------------------------------------------------------------
(* Text.                                                                   *)

\* glob_match, with its literal prefix, its fast path and its single point to go back to,
\* accepts the keys the pattern means (keys that hold no star).
GlobMatchesMeaning ==
  probe.is = "glob" =>
    \A key \in GlobKeys :
      (\A i \in 1..Len(key) : key[i] # Star) =>
        glob_match(probe.of, key) = Denotes(probe.of, key)

\* A connection is sent to the shard of the key its handler will use, or nowhere in
\* particular.  HTTP: under /v1/kv/ the two copies of the percent decoder and the two ways to
\* strip /incr agree, and what percent_encode_bytes writes the decoder reads back.  RESP:
\* however much of its first command has arrived, the peek takes the whole first key or
\* none; a cut is never taken for a shorter key.
RoutedByItsKey ==
  /\ probe.is = "bytes" => percent_decode(percent_encode_bytes(probe.of)) = probe.of
  /\ (probe.is = "target" /\ probe.of.at = "kv" /\ WithoutIncr(probe.of.rest) # << >>) =>
       /\ peek_http_key(probe.of, TRUE) = RouteKey(probe.of)
       /\ peek_http_key(probe.of, FALSE) = NoKey
  /\ probe.is = "first" =>
       LET bytes == Encoded(probe.of)
       IN \A n \in 0..Len(bytes) :
            peek_resp_key(SubSeq(bytes, 1, n)) \in
              {NoKey} \union (IF Len(probe.of) >= 2 THEN {probe.of[2]} ELSE {})

\* Integers are read exactly or refused, at the edges of u64 and i64 too, and DECRBY by
\* any number but the smallest subtracts it or is refused.
IntegersExact ==
  probe.is = "number" =>
    LET s      == probe.of
        signed == s # << >> /\ Head(s) \in {Dash, Plus}
        digits == IF signed THEN Tail(s) ELSE s
        value  == IF signed /\ Head(s) = Dash THEN -ValueOf(digits) ELSE ValueOf(digits)
    IN /\ atoi_u64(s) = IF Numeral(s) /\ ValueOf(s) <= U64Max THEN ValueOf(s) ELSE None
       /\ atoi_i64(s) = IF Numeral(digits) /\ value \in I64Min..I64Max THEN value ELSE None
       /\ atoi_i64(s) \notin {None, I64Min} =>
            \A n \in I64Min..I64Max :
              checked_add(n, Negated(atoi_i64(s))) =
                IF n - atoi_i64(s) \in I64Min..I64Max THEN n - atoi_i64(s) ELSE None

-----------------------------------------------------------------------------
(* Requests.                                                               *)

\* The options of SET in any order are read as the same command: none is lost, and none
\* takes the argument of another for itself.
OptionOrderFree ==
  probe.is = "options" =>
    \A order \in SetToSeqs(probe.of) :
      LET c        == parse(<<"SET", "k", "v">> \o FlattenSeq(order))
          Given(n) == \E o \in probe.of : o[1] = n
          Arg(n)   == (CHOOSE o \in probe.of : o[1] = n)[2]
      IN /\ c.op = "SET" /\ c.keys = <<"k">> /\ c.val = "v"
         /\ c.get = Given("GET") /\ c.keep = Given("KEEPTTL")
         /\ c.meta = IF Given("META") THEN Arg("META") ELSE ""
         /\ \A x \in {"NX", "XX", "REV"} : (c.cond = x) = Given(x)
         /\ Given("REV") => c.n = Num[Arg("REV")]
         /\ \A x \in DOMAIN Units :
              Given(x) => c.ttl = [unit |-> Units[x], n |-> Num[Arg(x)]]
         /\ (\A x \in DOMAIN Units : ~Given(x)) => c.ttl = NoTtl

\* The call a RESP command makes, when the shard of its key serves it alone.
RespCall(args, ns, now) ==
  LET call == dispatch_inner(parse(args), ns, now).call
  IN CASE call.fn = "dispatch_del" -> [call EXCEPT !.fn = "del"]
       [] call.fn = "dispatch_exists" -> [call EXCEPT !.fn = "get"]
       [] OTHER -> call

\* The SDK's two backends are one interface: an operation makes the same call on the store
\* through either protocol, and the application is told the same of each outcome; what
\* else the RESP backend pipelines only reads.
BackendsAgree ==
  probe.is = "operation" =>
    \A now \in Times, ns \in {0, 1, Namespaces - 1} :
      LET sends == RespCommands(probe.of)
          main  == sends.cmds[sends.main]
          resp  == dispatch_inner(parse(main), ns, now)
          http  == route(HttpRequest(probe.of, ns), now, FALSE)
      IN /\ RespCall(main, ns, now) = http.call
         /\ RespResult(probe.of, resp.yes) = HttpResult(probe.of, http.yes)
         /\ RespResult(probe.of, resp.no) = HttpResult(probe.of, http.no)
         /\ RespResult(probe.of, resp.err) = HttpResult(probe.of, http.err)
         /\ \A i \in (1..Len(sends.cmds)) \ {sends.main} :
              RespCall(sends.cmds[i], ns, now).fn \in {"get", "ttl"}

\* An expiry given as a time is turned into a length of time by one clock and back by
\* another reading; the key never goes before the time asked for, and less than a second
\* after it.
ExpiryNotEarly ==
  probe.is = "expiry" =>
    \A now \in Times :
      LET t         == Str(probe.of)
          Asked(at) == IF at \in {"EXAT", "EXPIREAT", "ttl_at"} THEN probe.of * Second
                       ELSE probe.of
          resp      == [at \in {"EXAT", "PXAT"} |->
                          dispatch_inner(parse(<<"SET", "k", "v", at, t>>), 0, now).call]
                       @@ [at \in {"EXPIREAT", "PEXPIREAT"} |->
                             dispatch_inner(parse(<<at, "k", t>>), 0, now).call]
          http      == [at \in {"ttl_at", "ttl_at_ms"} |->
                          route([method |-> "PATCH", path |-> "/v1/kv/{key}", key |-> <<"k">>,
                                 query |-> at :> t, headers |-> NoFields, body |-> ""],
                                now, FALSE).call]
          calls     == resp @@ http
      IN \A at \in DOMAIN calls :
           IF calls[at].fn = "del" THEN Asked(at) <= now
           ELSE LET deadline == now + calls[at].ttl
                IN /\ deadline >= Asked(at)
                   /\ deadline < (IF Asked(at) > now THEN Asked(at) ELSE now) + Second
=============================================================================
