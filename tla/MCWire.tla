------------------------------- MODULE MCWire -------------------------------
(* The instances of Wire that TLC checks.                                  *)
EXTENDS Wire

UpTo(n, bytes) == UNION {[1..m -> bytes] : m \in 0..n}

a == 97
b == 98

\* Every metacharacter in patterns of up to four bytes, stars and a class in longer ones.
MCPatterns ==
  UpTo(4, {a, b, Star, Question, Open, Close, Caret, Dash}) \union UpTo(6, {a, b, Star})
    \union {<<Star, Open, x, Dash, y, Close, Star, z>> : x, y, z \in {a, b}}
MCGlobKeys == UpTo(3, {a, b, Star, Dash})

\* A byte that is safe in a URL, ones that are not, and the letters of an escape.
MCByteStrings == UpTo(3, {0, Percent, 47, 50, 65, 70, a, 255})
MCTargets ==
  {[at |-> at, rest |-> r \o end] :
     at \in {"kv", "watch"}, r \in UpTo(4, {Percent, 50, 70, a}), end \in {<< >>, <<Incr>>}}

\* Commands of one to three elements, with keys that look like the framing around them.
MCFirstCommands ==
  UNION {[1..n -> {<< >>, <<a>>, <<a, b>>, <<BulkMark, 49, CR, LF>>, <<CR, LF, BulkMark>>,
                   <<a, a, a, a, a, a, a, a, a, a, a>>}] : n \in 1..3}

\* Integers of eight bits stand for those of sixty-four.
MCI64Min == -128
MCNumerals == UpTo(4, {48, 49, 50, 53, 55, 56, 57, Dash, Plus, a})

MCNum == ("0" :> 0) @@ ("1" :> 1) @@ ("-1" :> -1) @@ ("2" :> 2) @@ ("-2" :> -2) @@ ("3" :> 3)
         @@ ("5" :> 5) @@ ("7" :> 7) @@ ("9" :> 9) @@ ("10" :> 10) @@ ("12" :> 12)
         @@ ("15" :> 15) @@ ("16" :> 16) @@ ("20" :> 20)

\* Every set of options that a client may give together.
MCOptionSets ==
  {UNION {x, e, g, k, m} :
     x \in {{}, {<<"NX">>}, {<<"XX">>}, {<<"REV", "2">>}},
     e \in {{}, {<<"EX", "5">>}, {<<"PX", "7">>}, {<<"EXAT", "0">>}, {<<"PXAT", "9">>}},
     g \in {{}, {<<"GET">>}}, k \in {{}, {<<"KEEPTTL">>}}, m \in {{}, {<<"META", "NX">>}}}

\* A second of four milliseconds, so that readings fall at, before and after its beginning.
MCSecond == 4
MCTimes == 8..12
MCExpiryTimes == {0, 1, 2, 3, 5, 7, 9, 10, 12, 15}

\* What the two backends both take: no expiry of zero or in the past, no metadata, no
\* KEEPTTL, no deletion by revision, no expiry with getAndSet, no ttlAtMs.
Operation(fn, n, kind, ttl, cond, want) ==
  [fn |-> fn, key |-> "k", val |-> "v", n |-> n, kind |-> kind, ttl |-> ttl, cond |-> cond,
   want |-> want]
MCOperations ==
  {Operation(fn, 1, "none", 0, "none", FALSE) : fn \in {"get", "exists", "getAndSet", "compact"}}
    \union {Operation("set", 2, kt[1], kt[2], c, FALSE) :
              kt \in {<<"none", 0>>, <<"ttl", 5>>},
              c \in {"none", "ifAbsent", "ifPresent", "ifMatch"}}
    \union {Operation("cas", n, kt[1], kt[2], "none", FALSE) :
              kt \in {<<"none", 0>>, <<"ttl", 5>>}, n \in {0, 2}}
    \union {Operation("expire", 1, kt[1], kt[2], "none", want) :
              kt \in {<<"persist", 0>>, <<"ttl", 5>>, <<"ttlMs", 7>>, <<"ttlAt", 5>>},
              want \in BOOLEAN}
    \union {Operation("delete", 1, "none", 0, "none", want) : want \in BOOLEAN}
    \union {Operation(fn, n, "none", 0, "none", FALSE) :
              fn \in {"incr", "decr"}, n \in {1, 2, -1, -2}}

\* Every sequence of up to three commands, sent one at a time or all at once, longer ones
\* of some kinds, and faults.
Kinds == {"cmd", "bad", "hello2", "hello3", "reset", "quit", "watch", "unwatch", "garbage"}
Script(cmds, window, faults) ==
  [cmds |-> cmds, window |-> window, pushes |-> IF "watch" \in Range(cmds) THEN 1 ELSE 0,
   stalls |-> "stalls" \in faults, idle |-> "idle" \in faults, fails |-> "fails" \in faults]
MCScripts ==
  {Script(cmds, window, {}) :
     cmds \in UNION {[1..n -> Kinds] : n \in 1..3}, window \in {1, 3}}
    \union {Script(cmds, 4, {}) : cmds \in [1..4 -> {"cmd", "bad", "hello2", "hello3", "watch"}]}
    \union {Script(<<"hello3">> \o cmds, 4, {fault}) :
              cmds \in [1..2 -> {"cmd", "bad", "hello2", "watch", "quit"}],
              fault \in {"stalls", "idle", "fails"}}

Req(kind, body) == [kind |-> kind, body |-> body]
MCRequests ==
  {Req("plain", TRUE), Req("plain", FALSE), Req("watch", FALSE), Req("watch_post", TRUE),
   Req("declared_large", TRUE), Req("chunked_large", TRUE), Req("malformed", FALSE),
   Req("breaks", TRUE)}
MCStreams == UNION {[1..n -> MCRequests] : n \in 0..3}
=============================================================================
