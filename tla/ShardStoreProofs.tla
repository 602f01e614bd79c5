-------------------------- MODULE ShardStoreProofs --------------------------
(***************************************************************************)
(* The calls that change the namespace keep the invariant of a shard's     *)
(* commands; and what it says about them, for any number of tasks and      *)
(* keys: a revision names one value, and INCR adds one.                    *)
(***************************************************************************)
EXTENDS ShardStoreTasks

USE SMTT(30), ZenonT(30)

-----------------------------------------------------------------------------
(* Calls take effect on the namespace.                                     *)

\* A step of the namespace keeps the invariant if what was known stays known and what
\* the index and the puts that hold their keys say is known.
LEMMA NamespaceKeeps ==
  ASSUME Inv, Types', cached' = cached,
         \A x, r, v : Known(x, r, v) => KnownIn(map', last', cmd', call', x, r, v),
         \A x \in DOMAIN map' : KnownIn(map', last', cmd', call', x, map'[x].rev, map'[x].val),
         \A o \in Tasks : /\ cmd'[o].pc = cmd[o].pc /\ cmd'[o].op = cmd[o].op
                          /\ cmd'[o].got = cmd[o].got,
         \A o \in Tasks, x \in Keys :
           LET c == call[<<o, x>>]
               d == call'[<<o, x>>]
           IN /\ d.pc = "idle" <=> c.pc = "idle"
              /\ d.kind = c.kind /\ d.pairs = c.pairs /\ d.cond = c.cond /\ d.rev = c.rev
              /\ Stamps(map', last', cmd', call', o, d),
         Exclusive'
  PROVE  Inv'
<1>1. Remembered'
  <2>1. \A x \in DOMAIN cached' :
          KnownIn(map', last', cmd', call', x, cached'[x].rev, cached'[x].val)
    BY DEF Inv, Remembered
  <2>2. \A o \in Tasks, x \in Keys :
          KnownIn(map', last', cmd', call', x, cmd'[o].got[x].rev, cmd'[o].got[x].val)
    BY DEF Inv, Remembered
  <2>3. ASSUME NEW o \in Tasks, NEW x \in Keys,
               call'[<<o, x>>].pc # "idle", cmd'[o].op.name = "incr"
        PROVE  \/ call'[<<o, x>>].kind = "del"
               \/ IncrIn(map', last', cmd', call', x, call'[<<o, x>>])
    <3>1. call[<<o, x>>].kind = "del" \/ IncrWrites(x, call[<<o, x>>])
      BY <2>3 DEF Inv, Remembered
    <3> QED BY <3>1 DEF IncrWrites, IncrIn, Known
  <2> QED BY <2>1, <2>2, <2>3 DEF Remembered, Known, IncrWrites
<1>2. Alone'
  BY DEF Inv, Alone
<1>3. Fitting'
  <2> SUFFICES ASSUME NEW o \in Tasks, NEW x \in Keys
               PROVE  Fits(x, cmd'[o], call'[<<o, x>>])
    BY Zenon DEF Fitting
  <2>1. Fits(x, cmd[o], call[<<o, x>>])
    BY DEF Inv, Fitting
  <2>2. /\ call'[<<o, x>>].pc = "idle" <=> call[<<o, x>>].pc = "idle"
        /\ call'[<<o, x>>].kind = call[<<o, x>>].kind
    OBVIOUS
  <2>3. cmd'[o].pc = cmd[o].pc /\ cmd'[o].op = cmd[o].op
    OBVIOUS
  <2> QED BY <2>1, <2>2, <2>3 DEF Fits
<1> QED BY <1>1, <1>2, <1>3 DEF Inv

\* Keys and values of a call depend on its pairs only.
LEMMA SamePairs ==
  ASSUME NEW c, NEW d, c.pairs = d.pairs
  PROVE  Kv!KeysOf(c) = Kv!KeysOf(d) /\ \A x : Kv!Winner(c, x) = Kv!Winner(d, x)
BY DEF Kv!KeysOf, Kv!Winner

\* The flush empties the index: what was known of a key stays known.
LEMMA FlushClearsKeeps ==
  ASSUME Inv, NEW t \in Tasks, FlushClears(t)
  PROVE  Inv'
<1>1. /\ map' = << >> /\ ttl' = << >> /\ last' = last + 1 /\ call' = call
      /\ UNCHANGED <<cached, clock, left>> /\ last \in Nat
  BY DEF FlushClears, Kv!Clear, Inv, Types
<1>2. /\ cmd' \in [Tasks -> CmdType]
      /\ \A o \in Tasks : /\ cmd'[o].pc = cmd[o].pc /\ cmd'[o].op = cmd[o].op
                          /\ cmd'[o].got = cmd[o].got /\ cmd'[o].out = cmd[o].out
  <2> DEFINE d == [cmd[t] EXCEPT !.tries = last + 1]
  <2>1. /\ d \in CmdType /\ d.pc = cmd[t].pc /\ d.op = cmd[t].op /\ d.got = cmd[t].got
        /\ d.out = cmd[t].out
    <3>1. cmd[t] \in CmdType /\ last + 1 \in Int
      BY <1>1 DEF Inv, Types
    <3> QED BY <3>1 DEF CmdType
  <2>2. cmd' = [cmd EXCEPT ![t] = d]
    BY DEF FlushClears
  <2> HIDE DEF d
  <2> QED BY <2>1, <2>2 DEF Inv, Types
<1>3. \A o \in Tasks, x \in Keys : call'[<<o, x>>].pc \notin {"holds", "done"}
  BY <1>1 DEF FlushClears, Kv!Clear, Kv!Holding
<1>4. DOMAIN map' = {} /\ DOMAIN ttl' = {}
  BY <1>1
<1>5. Types'
  BY <1>1, <1>2, <1>4 DEF Inv, Types
<1>6. ASSUME NEW x, NEW r, NEW v, Known(x, r, v)
      PROVE  KnownIn(map', last', cmd', call', x, r, v)
  <2>1. r \in 0..last'
    BY <1>1, <1>6 DEF Known, KnownIn
  <2> QED BY <1>1, <1>3, <1>4, <2>1 DEF KnownIn
<1>7. Exclusive'
  BY <1>3 DEF Exclusive
<1>8. \A o \in Tasks, x \in Keys : Stamps(map', last', cmd', call', o, call'[<<o, x>>])
  BY <1>3 DEF Stamps
<1> QED BY <1>1, <1>2, <1>4, <1>5, <1>6, <1>7, <1>8, NamespaceKeeps

\* A call holds its keys: it gets revisions no one knows yet.
LEMMA CallStartKeeps ==
  ASSUME Inv, NEW t \in Tasks, NEW k \in Keys, CallStart(t, k)
  PROVE  Inv'
<1> DEFINE c == call[<<t, k>>]
<1> DEFINE out == Stamped(cmd[t], c.pairs)
<1>1. /\ c \in CallType /\ cmd[t] \in CmdType /\ last \in Nat
      /\ c.pairs \in Seq(PairType) /\ Len(c.pairs) \in Nat
  BY DEF Inv, Types, CallType
<1>2. /\ c.pc = "called" /\ c.kind \in {"put", "ttl"} /\ Kv!KeysFree(<<t, k>>)
      /\ call' = [call EXCEPT ![<<t, k>>].pc = "holds"]
      /\ UNCHANGED <<map, ttl, cached, clock, left>>
      /\ last' = last + Len(c.pairs)
  BY DEF CallStart, Kv!Start, Kv!MayStart
<1>3. last' \in Nat /\ last' >= last
  BY <1>1, <1>2
<1>4. /\ out \in [Keys -> Int]
      /\ \A x \in Kv!KeysOf(c) : x \in Keys /\ out[x] \in 1..last' /\ out[x] > last
  <2>1. ASSUME NEW x \in Keys
        PROVE  /\ out[x] \in Int
               /\ x \in Kv!KeysOf(c) => out[x] \in 1..last' /\ out[x] > last
    <3> DEFINE I == {i \in DOMAIN c.pairs : c.pairs[i].key = x}
    <3> DEFINE m == CHOOSE i \in I : \A j \in I : j <= i
    <3>1. out[x] = IF I = {} THEN cmd[t].out[x] ELSE last + m
      BY DEF Stamped
    <3>2. cmd[t].out[x] \in Int
      BY <1>1 DEF CmdType
    <3>3. I # {} => m \in 1..Len(c.pairs)
      <4>1. I # {} => \E i \in DOMAIN c.pairs : c.pairs[i].key = x
        OBVIOUS
      <4>2. I # {} => m \in DOMAIN c.pairs
        <5> DEFINE q == c.pairs
        <5> HIDE DEF q
        <5>1. I # {} => \E i \in DOMAIN q : q[i].key = x
          BY <4>1 DEF q
        <5>2. q \in Seq(PairType)
          BY <1>1 DEF q
        <5> HIDE DEF c
        <5> QED BY Zenon, <5>1, <5>2, WinnerPosition DEF q
      <4> HIDE DEF m, I
      <4> QED BY <4>2, <1>1
    <3>4. x \in Kv!KeysOf(c) => I # {}
      BY DEF Kv!KeysOf
    <3> HIDE DEF m, I, out, c
    <3> QED BY <1>1, <1>2, <3>1, <3>2, <3>3, <3>4
  <2>2. out = [x \in Keys |-> out[x]]
    BY DEF Stamped
  <2>3. Kv!KeysOf(c) \subseteq Keys
    BY <1>1, KeysOfType
  <2> HIDE DEF out, c
  <2> QED BY <2>1, <2>2, <2>3
<1>5. /\ cmd' \in [Tasks -> CmdType]
      /\ \A o \in Tasks : /\ cmd'[o].pc = cmd[o].pc /\ cmd'[o].op = cmd[o].op
                          /\ cmd'[o].got = cmd[o].got
                          /\ cmd'[o].out = IF o = t THEN out ELSE cmd[o].out
  <2> DEFINE d == [cmd[t] EXCEPT !.out = out]
  <2>1. cmd' = [cmd EXCEPT ![t] = d]
    BY DEF CallStart
  <2> HIDE DEF out
  <2>2. /\ d \in CmdType /\ d.pc = cmd[t].pc /\ d.op = cmd[t].op /\ d.got = cmd[t].got
        /\ d.out = out
    BY Zenon, <1>1, <1>4 DEF CmdType
  <2> HIDE DEF d
  <2> QED BY <2>1, <2>2 DEF Inv, Types
<1>6. /\ call' \in [Tasks \X Keys -> CallType]
      /\ \A o \in Tasks, x \in Keys :
           /\ call'[<<o, x>>].kind = call[<<o, x>>].kind
           /\ call'[<<o, x>>].pairs = call[<<o, x>>].pairs
           /\ call'[<<o, x>>].cond = call[<<o, x>>].cond
           /\ call'[<<o, x>>].rev = call[<<o, x>>].rev
           /\ <<o, x>> # <<t, k>> => call'[<<o, x>>] = call[<<o, x>>]
      /\ call'[<<t, k>>].pc = "holds"
  <2> DEFINE d == [c EXCEPT !.pc = "holds"]
  <2>1. /\ d \in CallType /\ d.kind = c.kind /\ d.pairs = c.pairs /\ d.cond = c.cond
        /\ d.rev = c.rev /\ d.pc = "holds"
    <3> HIDE DEF c
    <3> QED BY <1>1 DEF CallType
  <2>2. call' = [call EXCEPT ![<<t, k>>] = d]
    BY <1>2
  <2> HIDE DEF d
  <2> QED BY <2>1, <2>2 DEF Inv, Types
<1> HIDE DEF c, out
<1>7. \A x \in Keys : x # k /\ c.kind = "put" => call[<<t, x>>].pc = "idle"
  BY <1>2 DEF Inv, Alone, c
<1>8. Types'
  BY <1>2, <1>3, <1>5, <1>6 DEF Inv, Types
<1>9. \A o \in Tasks, x \in Keys :
        Kv!KeysOf(call'[<<o, x>>]) = Kv!KeysOf(call[<<o, x>>])
  BY Zenon, <1>6, SamePairs
<1>10. ASSUME NEW o \in Tasks, NEW x \in Keys, <<o, x>> # <<t, k>>,
              call[<<o, x>>].pc # "idle", call[<<o, x>>].kind = "put"
       PROVE  cmd'[o].out = cmd[o].out
  BY <1>2, <1>5, <1>10 DEF Inv, Alone, c
<1>11. ASSUME NEW x, NEW r, NEW v, Known(x, r, v)
       PROVE  KnownIn(map', last', cmd', call', x, r, v)
  <2>1. r \in 0..last /\ (x \in DOMAIN map /\ map[x].rev = r => map[x].val = v)
    BY <1>11 DEF Known, KnownIn
  <2>2. r \in 0..last'
    BY <2>1, <1>1, <1>3
  <2>3. ASSUME NEW o \in Tasks, NEW y \in Keys, call'[<<o, y>>].pc = "holds",
               call'[<<o, y>>].kind = "put", x \in Kv!KeysOf(call'[<<o, y>>])
        PROVE  r < cmd'[o].out[x]
    <3>1. CASE <<o, y>> = <<t, k>>
      <4>1. o = t /\ x \in Kv!KeysOf(c)
        BY <1>9, <2>3, <3>1 DEF c
      <4>2. cmd'[o].out[x] \in Int /\ cmd'[o].out[x] > last
        BY <1>4, <1>5, <4>1
      <4> QED BY <1>1, <2>1, <4>2
    <3>2. CASE <<o, y>> # <<t, k>>
      <4>1. call'[<<o, y>>] = call[<<o, y>>]
        BY <1>6, <3>2
      <4>2. cmd'[o].out = cmd[o].out
        BY <1>10, <2>3, <3>2, <4>1
      <4> QED BY <1>11, <2>3, <4>1, <4>2 DEF Known, KnownIn
    <3> QED BY <3>1, <3>2
  <2> QED BY <1>2, <2>1, <2>2, <2>3 DEF KnownIn
<1>12. ASSUME NEW o \in Tasks, NEW x \in Keys
       PROVE  Stamps(map', last', cmd', call', o, call'[<<o, x>>])
  <2>1. CASE <<o, x>> = <<t, k>>
    <3>1. o = t /\ call'[<<o, x>>].pc = "holds" /\ Kv!KeysOf(call'[<<o, x>>]) = Kv!KeysOf(c)
      BY <1>6, <1>9, <2>1 DEF c
    <3> QED BY <1>4, <1>5, <3>1 DEF Stamps
  <2>2. CASE <<o, x>> # <<t, k>>
    <3>1. call'[<<o, x>>] = call[<<o, x>>]
      BY <1>6, <2>2
    <3>2. Stamps(map, last, cmd, call, o, call[<<o, x>>])
      BY DEF Inv, Remembered
    <3> SUFFICES ASSUME call[<<o, x>>].pc \in {"holds", "done"}, call[<<o, x>>].kind = "put"
                 PROVE  Stamps(map', last', cmd', call', o, call'[<<o, x>>])
      BY <3>1 DEF Stamps
    <3>3. cmd'[o].out = cmd[o].out
      BY <1>10, <2>2
    <3>4. \A y \in 1..last : y \in 1..last'
      BY <1>1, <1>3
    <3> QED BY <1>11, <3>1, <3>2, <3>3, <3>4 DEF Stamps, Known
  <2> QED BY <2>1, <2>2
<1>13. Exclusive'
  <2> SUFFICES ASSUME NEW u \in Tasks \X Keys, NEW w \in Tasks \X Keys, u # w,
                      call'[u].pc \in {"holds", "done"}, call'[w].pc \in {"holds", "done"}
               PROVE  Kv!KeysOf(call'[u]) \cap Kv!KeysOf(call'[w]) = {}
    BY DEF Exclusive
  <2>1. /\ Kv!KeysOf(call'[u]) = Kv!KeysOf(call[u])
        /\ Kv!KeysOf(call'[w]) = Kv!KeysOf(call[w])
    BY <1>9
  <2>2. CASE u # <<t, k>> /\ w # <<t, k>>
    <3>1. call'[u] = call[u] /\ call'[w] = call[w]
      BY <1>6, <2>2
    <3> QED BY <2>1, <3>1 DEF Inv, Exclusive
  <2>3. CASE u = <<t, k>>
    <3>1. w \in Kv!Holding \ {<<t, k>>}
      BY <1>6, <2>3 DEF Kv!Holding
    <3> QED BY <1>2, <2>1, <2>3, <3>1 DEF Kv!KeysFree
  <2>4. CASE w = <<t, k>>
    <3>1. u \in Kv!Holding \ {<<t, k>>}
      BY <1>6, <2>4 DEF Kv!Holding
    <3> QED BY <1>2, <2>1, <2>4, <3>1 DEF Kv!KeysFree
  <2> QED BY <2>2, <2>3, <2>4
<1>14. \A x \in DOMAIN map' : KnownIn(map', last', cmd', call', x, map'[x].rev, map'[x].val)
  BY Zenon, <1>2, <1>11 DEF Inv, Remembered
<1>15. \A o \in Tasks, x \in Keys :
         call'[<<o, x>>].pc = "idle" <=> call[<<o, x>>].pc = "idle"
  BY Zenon, <1>2, <1>6 DEF c
<1>16. \A o \in Tasks, x \in Keys :
         LET d == call[<<o, x>>]
             e == call'[<<o, x>>]
         IN /\ e.pc = "idle" <=> d.pc = "idle"
            /\ e.kind = d.kind /\ e.pairs = d.pairs /\ e.cond = d.cond /\ e.rev = d.rev
            /\ Stamps(map', last', cmd', call', o, e)
  BY ZenonT(30), <1>6, <1>12, <1>15
<1>17. cached' = cached
  BY <1>2
<1>18. \A o \in Tasks : /\ cmd'[o].pc = cmd[o].pc /\ cmd'[o].op = cmd[o].op
                        /\ cmd'[o].got = cmd[o].got
  BY Zenon, <1>5
<1> HIDE DEF c, out
<1> QED BY Zenon, <1>8, <1>11, <1>13, <1>14, <1>16, <1>17, <1>18, NamespaceKeeps

\* A call that is past its start is marked done; nothing else of the calls changes.
Marked(t, k) == call' = [call EXCEPT ![<<t, k>>].pc = "done"]

CallsKept(t, k) ==
  /\ call' \in [Tasks \X Keys -> CallType]
  /\ \A o \in Tasks, x \in Keys :
       /\ call'[<<o, x>>].kind = call[<<o, x>>].kind
       /\ call'[<<o, x>>].pairs = call[<<o, x>>].pairs
       /\ call'[<<o, x>>].cond = call[<<o, x>>].cond
       /\ call'[<<o, x>>].rev = call[<<o, x>>].rev
       /\ Kv!KeysOf(call'[<<o, x>>]) = Kv!KeysOf(call[<<o, x>>])
       /\ \A y : Kv!Winner(call'[<<o, x>>], y) = Kv!Winner(call[<<o, x>>], y)
       /\ <<o, x>> # <<t, k>> => call'[<<o, x>>] = call[<<o, x>>]
  /\ call'[<<t, k>>].pc = "done"

\* A call that is marked done is otherwise the call it was.
LEMMA MarkedFacts ==
  ASSUME Inv, NEW t \in Tasks, NEW k \in Keys, Marked(t, k)
  PROVE  CallsKept(t, k)
<1> DEFINE c == call[<<t, k>>]
<1> DEFINE d == [c EXCEPT !.pc = "done"]
<1>1. c \in CallType
  BY DEF Inv, Types
<1>2. /\ d \in CallType /\ d.kind = c.kind /\ d.pairs = c.pairs /\ d.cond = c.cond
      /\ d.rev = c.rev /\ d.pc = "done"
  <2> HIDE DEF c
  <2> QED BY <1>1 DEF CallType
<1>3. call' = [call EXCEPT ![<<t, k>>] = d]
  BY DEF Marked
<1> HIDE DEF d
<1>4. /\ call' \in [Tasks \X Keys -> CallType]
      /\ \A o \in Tasks, x \in Keys :
           /\ call'[<<o, x>>].kind = call[<<o, x>>].kind
           /\ call'[<<o, x>>].pairs = call[<<o, x>>].pairs
           /\ call'[<<o, x>>].cond = call[<<o, x>>].cond
           /\ call'[<<o, x>>].rev = call[<<o, x>>].rev
           /\ <<o, x>> # <<t, k>> => call'[<<o, x>>] = call[<<o, x>>]
      /\ call'[<<t, k>>].pc = "done"
  BY <1>2, <1>3 DEF Inv, Types
<1> QED BY <1>4, SamePairs DEF CallsKept

\* The record of a put is in the index: whatever was known of its keys has a smaller
\* revision, and no other call holds them.
LEMMA CommitPutKeeps ==
  ASSUME Inv, NEW t \in Tasks, NEW k \in Keys, Kv!CommitPut(<<t, k>>, cmd[t].out),
         Marked(t, k), UNCHANGED <<cached, cmd, last, clock, left>>
  PROVE  Inv'
<1> DEFINE c == call[<<t, k>>]
<1> DEFINE S == Kv!KeysOf(c)
<1> DEFINE out == cmd[t].out
<1>1. /\ c.pc = "holds" /\ c.kind = "put"
      /\ map' = [x \in DOMAIN map \cup S |->
                   IF x \in S THEN [rev |-> out[x], val |-> Kv!Winner(c, x)] ELSE map[x]]
      /\ ttl' = Kv!WithDeadline(ttl, S, c.ttl)
  BY DEF Kv!CommitPut
<1>2. c \in CallType /\ S \subseteq Keys /\ c.ttl \in Int /\ last \in Nat
  <2>1. c \in CallType
    BY DEF Inv, Types
  <2> QED BY <2>1, KeysOfType DEF CallType, Inv, Types
<1>3. \A x \in S : out[x] \in 1..last /\ Kv!Winner(c, x) \in Int
  BY <1>1, <1>2, WinnerType DEF Inv, Remembered, Stamps
<1>m. CallsKept(t, k)
  BY MarkedFacts
<1> USE <1>m DEF CallsKept
<1>4. /\ DOMAIN map' = DOMAIN map \cup S
      /\ \A x \in S : map'[x].rev = out[x] /\ map'[x].val = Kv!Winner(c, x)
      /\ \A x \in DOMAIN map \ S : map'[x] = map[x]
  BY <1>1
<1>5. ASSUME NEW o \in Tasks, NEW y \in Keys, <<o, y>> # <<t, k>>,
             call[<<o, y>>].pc \in {"holds", "done"}
      PROVE  Kv!KeysOf(call[<<o, y>>]) \cap S = {}
  <2>1. <<o, y>> \in Tasks \X Keys /\ <<t, k>> \in Tasks \X Keys
    OBVIOUS
  <2> QED BY Zenon, <1>1, <1>5, <2>1 DEF Inv, Exclusive
<1> HIDE DEF c, S, out
<1>6. Types'
  <2>1. \A x \in DOMAIN ttl' : ttl'[x] \in Int
    BY <1>1, <1>2 DEF Kv!WithDeadline, Inv, Types
  <2>2. \A x \in DOMAIN map' : x \in Keys /\ map'[x].rev \in Nat \ {0} /\ map'[x].val \in Int
    BY <1>2, <1>3, <1>4 DEF Inv, Types
  <2> QED BY <2>1, <2>2 DEF Inv, Types
<1>7. ASSUME NEW o \in Tasks, NEW y \in Keys, call'[<<o, y>>].pc = "holds"
      PROVE  /\ <<o, y>> # <<t, k>> /\ call'[<<o, y>>] = call[<<o, y>>]
             /\ Kv!KeysOf(call'[<<o, y>>]) \cap S = {}
  BY <1>5, <1>7
<1>8. ASSUME NEW x, NEW r, NEW v, Known(x, r, v)
      PROVE  KnownIn(map', last', cmd', call', x, r, v)
  <2>1. x \in S => r < out[x]
    BY <1>1, <1>8 DEF Known, KnownIn, c, S, out
  <2>2. r \in 0..last /\ (x \in DOMAIN map /\ map[x].rev = r => map[x].val = v)
    BY <1>8 DEF Known, KnownIn
  <2>3. x \in DOMAIN map' /\ map'[x].rev = r => map'[x].val = v
    BY <1>2, <1>3, <1>4, <2>1, <2>2
  <2>4. ASSUME NEW o \in Tasks, NEW y \in Keys, call'[<<o, y>>].pc = "holds",
               call'[<<o, y>>].kind = "put", x \in Kv!KeysOf(call'[<<o, y>>])
        PROVE  r < cmd'[o].out[x]
    BY <1>7, <1>8, <2>4 DEF Known, KnownIn
  <2> QED BY <2>2, <2>3, <2>4 DEF KnownIn
<1>9. ASSUME NEW x \in S
      PROVE  KnownIn(map', last', cmd', call', x, out[x], Kv!Winner(c, x))
  <2>1. out[x] \in 0..last'
    BY <1>2, <1>3
  <2>2. \A o \in Tasks, y \in Keys :
          call'[<<o, y>>].pc = "holds" => x \notin Kv!KeysOf(call'[<<o, y>>])
    BY ZenonT(30), <1>7
  <2> QED BY <1>4, <2>1, <2>2 DEF KnownIn
<1>10. \A x \in DOMAIN map' : KnownIn(map', last', cmd', call', x, map'[x].rev, map'[x].val)
  BY <1>4, <1>8, <1>9 DEF Inv, Remembered
<1>11. ASSUME NEW o \in Tasks, NEW x \in Keys
       PROVE  Stamps(map', last', cmd', call', o, call'[<<o, x>>])
  <2>1. CASE <<o, x>> = <<t, k>>
    <3>1. o = t /\ x = k /\ Kv!KeysOf(call'[<<o, x>>]) = S
          /\ \A y : Kv!Winner(call'[<<o, x>>], y) = Kv!Winner(c, y)
      <4>1. o = t /\ x = k
        BY <2>1
      <4>2. call'[<<t, k>>].pairs = c.pairs
        BY DEF c
      <4> QED BY <4>1, <4>2, SamePairs DEF S
    <3>2. cmd'[o].out = out
      BY <3>1 DEF out
    <3>3. \A y \in S : out[y] \in 1..last'
      BY <1>3
    <3> QED BY <1>9, <3>1, <3>2, <3>3 DEF Stamps
  <2>2. CASE <<o, x>> # <<t, k>>
    <3>1. call'[<<o, x>>] = call[<<o, x>>]
      BY <2>2
    <3>2. Stamps(map, last, cmd, call, o, call[<<o, x>>])
      BY DEF Inv, Remembered
    <3> QED BY ZenonT(30), <1>8, <3>1, <3>2 DEF Stamps, Known
  <2> QED BY <2>1, <2>2
<1>12. Exclusive'
  <2> SUFFICES ASSUME NEW u \in Tasks \X Keys, NEW w \in Tasks \X Keys, u # w,
                      call'[u].pc \in {"holds", "done"}, call'[w].pc \in {"holds", "done"}
               PROVE  Kv!KeysOf(call'[u]) \cap Kv!KeysOf(call'[w]) = {}
    BY DEF Exclusive
  <2>1. \A z \in Tasks \X Keys : /\ Kv!KeysOf(call'[z]) = Kv!KeysOf(call[z])
                                 /\ z # <<t, k>> => call'[z] = call[z]
    OBVIOUS
  <2>2. call[u].pc \in {"holds", "done"} /\ call[w].pc \in {"holds", "done"}
    BY <1>1, <2>1 DEF c
  <2> QED BY ZenonT(30), <2>1, <2>2 DEF Inv, Exclusive
<1>13. \A o \in Tasks, x \in Keys :
         call'[<<o, x>>].pc = "idle" <=> call[<<o, x>>].pc = "idle"
  <2>1. c.pc # "idle" /\ call'[<<t, k>>].pc # "idle"
    BY <1>1
  <2>2. \A o \in Tasks, x \in Keys : <<o, x>> # <<t, k>> => call'[<<o, x>>] = call[<<o, x>>]
    BY ZenonT(30)
  <2> QED BY Zenon, <2>1, <2>2 DEF c
<1> QED BY <1>6, <1>8, <1>10, <1>11, <1>12, <1>13, NamespaceKeeps

\* A deadline update leaves the values alone.
LEMMA CommitTtlKeeps ==
  ASSUME Inv, NEW t \in Tasks, NEW k \in Keys, Kv!CommitTtl(<<t, k>>), Marked(t, k),
         UNCHANGED <<cached, cmd, last, clock, left>>
  PROVE  Inv'
<1> DEFINE c == call[<<t, k>>]
<1>1. /\ c.pc = "holds" /\ c.kind = "ttl" /\ map' = map
      /\ ttl' = Kv!WithDeadline(ttl, Kv!KeysOf(c), c.ttl)
  BY DEF Kv!CommitTtl
<1>2. c.ttl \in Int
  BY DEF Inv, Types, CallType
<1>3. CallsKept(t, k)
  BY MarkedFacts
<1> USE DEF CallsKept
<1> HIDE DEF c
<1>4. Types'
  <2>1. \A x \in DOMAIN ttl' : ttl'[x] \in Int
    BY <1>1, <1>2 DEF Kv!WithDeadline, Inv, Types
  <2> QED BY <1>1, <1>3, <2>1 DEF Inv, Types
<1>5. ASSUME NEW o \in Tasks, NEW x \in Keys, call'[<<o, x>>].kind = "put"
      PROVE  call'[<<o, x>>] = call[<<o, x>>]
  BY <1>1, <1>3, <1>5 DEF c
<1>6. ASSUME NEW x, NEW r, NEW v, Known(x, r, v)
      PROVE  KnownIn(map', last', cmd', call', x, r, v)
  BY <1>1, <1>5, <1>6 DEF Known, KnownIn
<1>7. ASSUME NEW o \in Tasks, NEW x \in Keys
      PROVE  Stamps(map', last', cmd', call', o, call'[<<o, x>>])
  <2>1. CASE call'[<<o, x>>].kind # "put"
    BY <2>1 DEF Stamps
  <2>2. CASE call'[<<o, x>>].kind = "put"
    <3>1. call'[<<o, x>>] = call[<<o, x>>]
      BY <1>5, <2>2
    <3>2. Stamps(map, last, cmd, call, o, call[<<o, x>>])
      BY DEF Inv, Remembered
    <3> QED BY <1>6, <3>1, <3>2 DEF Stamps, Known
  <2> QED BY <2>1, <2>2
<1>8. Exclusive'
  <2> SUFFICES ASSUME NEW u \in Tasks \X Keys, NEW w \in Tasks \X Keys, u # w,
                      call'[u].pc \in {"holds", "done"}, call'[w].pc \in {"holds", "done"}
               PROVE  Kv!KeysOf(call'[u]) \cap Kv!KeysOf(call'[w]) = {}
    BY DEF Exclusive
  <2>1. \A z \in Tasks \X Keys : /\ Kv!KeysOf(call'[z]) = Kv!KeysOf(call[z])
                                 /\ z # <<t, k>> => call'[z] = call[z]
    BY <1>3
  <2>2. call[u].pc \in {"holds", "done"} /\ call[w].pc \in {"holds", "done"}
    BY <1>1, <2>1 DEF c
  <2> QED BY <2>1, <2>2 DEF Inv, Exclusive
<1>9. \A x \in DOMAIN map' : KnownIn(map', last', cmd', call', x, map'[x].rev, map'[x].val)
  BY <1>1, <1>6 DEF Inv, Remembered
<1>10. \A o \in Tasks, x \in Keys :
         call'[<<o, x>>].pc = "idle" <=> call[<<o, x>>].pc = "idle"
  BY Zenon, <1>1, <1>3 DEF c
<1> QED BY <1>3, <1>4, <1>6, <1>7, <1>8, <1>9, <1>10, NamespaceKeeps

\* A call that holds its keys takes effect on the index.
LEMMA CallCommitKeeps ==
  ASSUME Inv, NEW t \in Tasks, NEW k \in Keys, CallCommit(t, k)
  PROVE  Inv'
<1>1. Kv!Finish(<<t, k>>) /\ call'[<<t, k>>].pc = "done"
  BY DEF CallCommit, Kv!CommitPut, Kv!CommitTtl
<1>2. call' # [call EXCEPT ![<<t, k>>] = Kv!NoCall]
  <2> SUFFICES ASSUME call' = [call EXCEPT ![<<t, k>>] = Kv!NoCall] PROVE FALSE
    OBVIOUS
  <2>1. call'[<<t, k>>] = Kv!NoCall
    BY DEF Inv, Types
  <2> QED BY <1>1, <2>1 DEF Kv!NoCall
<1>3. Marked(t, k)
  BY <1>1, <1>2 DEF Kv!Finish, Marked
<1> QED BY Zenon, <1>3, CommitPutKeeps, CommitTtlKeeps DEF CallCommit

\* A tombstone removes its key from the index.
LEMMA CallRemoveKeeps ==
  ASSUME Inv, NEW t \in Tasks, NEW k \in Keys, CallRemove(t, k)
  PROVE  Inv'
<1> DEFINE c == call[<<t, k>>]
<1>1. /\ c.pc = "called" /\ c.kind = "del" /\ Kv!KeysFree(<<t, k>>)
      /\ map' = [x \in DOMAIN map \ {Kv!KeyOf(c)} |-> map[x]]
      /\ ttl' = [x \in DOMAIN ttl \ {Kv!KeyOf(c)} |-> ttl[x]]
      /\ Kv!Finish(<<t, k>>) /\ call'[<<t, k>>].pc = "done"
      /\ last' = last + 1 /\ last \in Nat /\ UNCHANGED <<cached, clock, left>>
  BY DEF CallRemove, Kv!CommitDel, Kv!MayStart, Inv, Types
<1>2. Marked(t, k)
  <2>1. call' # [call EXCEPT ![<<t, k>>] = Kv!NoCall]
    <3> SUFFICES ASSUME call' = [call EXCEPT ![<<t, k>>] = Kv!NoCall] PROVE FALSE
      OBVIOUS
    <3>1. call'[<<t, k>>] = Kv!NoCall
      BY DEF Inv, Types
    <3> QED BY <1>1, <3>1 DEF Kv!NoCall
  <2> QED BY <1>1, <2>1 DEF Kv!Finish, Marked
<1>3. CallsKept(t, k)
  BY <1>2, MarkedFacts
<1> USE DEF CallsKept
<1>4. /\ cmd' \in [Tasks -> CmdType]
      /\ \A o \in Tasks : /\ cmd'[o].pc = cmd[o].pc /\ cmd'[o].op = cmd[o].op
                          /\ cmd'[o].got = cmd[o].got
                          /\ o # t => cmd'[o].out = cmd[o].out
  <2> DEFINE d == [cmd[t] EXCEPT !.out[k] = last + 1]
  <2>1. cmd' = [cmd EXCEPT ![t] = d]
    BY DEF CallRemove
  <2>2. d \in CmdType /\ d.pc = cmd[t].pc /\ d.op = cmd[t].op /\ d.got = cmd[t].got
    <3>1. cmd[t] \in CmdType /\ last + 1 \in Int
      BY <1>1 DEF Inv, Types
    <3> QED BY <3>1 DEF CmdType
  <2> HIDE DEF d
  <2> QED BY <2>1, <2>2 DEF Inv, Types
<1> HIDE DEF c
<1>5. /\ DOMAIN map' \subseteq DOMAIN map /\ DOMAIN ttl' \subseteq DOMAIN ttl
      /\ \A x \in DOMAIN map' : map'[x] = map[x]
      /\ \A x \in DOMAIN ttl' : ttl'[x] = ttl[x]
  BY <1>1
<1>6. Types'
  BY <1>1, <1>3, <1>4, <1>5 DEF Inv, Types
<1>7. ASSUME NEW o \in Tasks, NEW x \in Keys, call'[<<o, x>>].kind = "put",
             call'[<<o, x>>].pc \in {"holds", "done"}
      PROVE  call'[<<o, x>>] = call[<<o, x>>] /\ cmd'[o].out = cmd[o].out
  <2>1. <<o, x>> # <<t, k>>
    BY ZenonT(30), <1>1, <1>3, <1>7 DEF c
  <2>2. call'[<<o, x>>] = call[<<o, x>>]
    BY <1>3, <2>1
  <2>3. o # t
    BY <1>1, <1>7, <2>1, <2>2 DEF Inv, Alone, c
  <2> QED BY <1>4, <2>2, <2>3
<1>8. ASSUME NEW x, NEW r, NEW v, Known(x, r, v)
      PROVE  KnownIn(map', last', cmd', call', x, r, v)
  <2>1. r \in 0..last'
    BY <1>1, <1>8 DEF Known, KnownIn
  <2>2. x \in DOMAIN map' /\ map'[x].rev = r => map'[x].val = v
    BY <1>5, <1>8 DEF Known, KnownIn
  <2>3. ASSUME NEW o \in Tasks, NEW y \in Keys, call'[<<o, y>>].pc = "holds",
               call'[<<o, y>>].kind = "put", x \in Kv!KeysOf(call'[<<o, y>>])
        PROVE  r < cmd'[o].out[x]
    BY <1>7, <1>8, <2>3 DEF Known, KnownIn
  <2> QED BY <2>1, <2>2, <2>3 DEF KnownIn
<1>9. ASSUME NEW o \in Tasks, NEW x \in Keys
      PROVE  Stamps(map', last', cmd', call', o, call'[<<o, x>>])
  <2> SUFFICES ASSUME call'[<<o, x>>].pc \in {"holds", "done"}, call'[<<o, x>>].kind = "put"
               PROVE  Stamps(map', last', cmd', call', o, call'[<<o, x>>])
    BY DEF Stamps
  <2>1. call'[<<o, x>>] = call[<<o, x>>] /\ cmd'[o].out = cmd[o].out
    BY <1>7
  <2>2. Stamps(map, last, cmd, call, o, call[<<o, x>>])
    BY DEF Inv, Remembered
  <2>3. \A y \in 1..last : y \in 1..last'
    BY <1>1
  <2> QED BY <1>8, <2>1, <2>2, <2>3 DEF Stamps, Known
<1>10. Exclusive'
  <2> SUFFICES ASSUME NEW u \in Tasks \X Keys, NEW w \in Tasks \X Keys, u # w,
                      call'[u].pc \in {"holds", "done"}, call'[w].pc \in {"holds", "done"}
               PROVE  Kv!KeysOf(call'[u]) \cap Kv!KeysOf(call'[w]) = {}
    BY DEF Exclusive
  <2>1. \A z \in Tasks \X Keys : /\ Kv!KeysOf(call'[z]) = Kv!KeysOf(call[z])
                                 /\ z # <<t, k>> => call'[z] = call[z]
    BY <1>3
  <2>2. CASE u # <<t, k>> /\ w # <<t, k>>
    BY <2>1, <2>2 DEF Inv, Exclusive
  <2>3. CASE u = <<t, k>>
    <3>1. w \in Kv!Holding \ {<<t, k>>}
      BY <2>1, <2>3 DEF Kv!Holding
    <3> QED BY <1>1, <2>1, <2>3, <3>1 DEF Kv!KeysFree
  <2>4. CASE w = <<t, k>>
    <3>1. u \in Kv!Holding \ {<<t, k>>}
      BY <2>1, <2>4 DEF Kv!Holding
    <3> QED BY <1>1, <2>1, <2>4, <3>1 DEF Kv!KeysFree
  <2> QED BY <2>2, <2>3, <2>4
<1>11. \A x \in DOMAIN map' : KnownIn(map', last', cmd', call', x, map'[x].rev, map'[x].val)
  BY <1>5, <1>8 DEF Inv, Remembered
<1>12. \A o \in Tasks, x \in Keys :
         call'[<<o, x>>].pc = "idle" <=> call[<<o, x>>].pc = "idle"
  BY Zenon, <1>1, <1>3 DEF c
<1> QED BY ZenonT(30), <1>1, <1>3, <1>4, <1>6, <1>8, <1>9, <1>10, <1>11, <1>12, NamespaceKeeps

-----------------------------------------------------------------------------
(* The invariant.                                                          *)

\* A shard that starts has an empty L1 and no command.
LEMMA InitInv == Init => Inv
<1> SUFFICES ASSUME Init PROVE Inv
  OBVIOUS
<1> USE DEF Init, Kv!Init, L1!Init
<1>1. DOMAIN map = {} /\ DOMAIN ttl = {} /\ DOMAIN cached = {}
  OBVIOUS
<1>2. Kv!NoCall \in CallType /\ Kv!NoCall.pc = "idle"
  BY DEF Kv!NoCall, CallType, Conds
<1>3. /\ call \in [Tasks \X Keys -> CallType]
      /\ \A t \in Tasks, k \in Keys : call[<<t, k>>] = Kv!NoCall /\ call[<<t, k>>].pc = "idle"
  BY <1>2
<1>4. /\ IdleCmd \in CmdType /\ IdleCmd.pc = "idle"
      /\ \A x \in Keys : IdleCmd.got[x].rev = 0 /\ IdleCmd.got[x].val = 0
  <2>1. IdleCmd \in CmdType
    BY NilType DEF IdleCmd, CmdType, Nothing, NoOp, OpType, Names, Conds, None
  <2> QED BY <2>1, NilType DEF IdleCmd, Nothing
<1>5. cmd \in [Tasks -> CmdType] /\ \A t \in Tasks : cmd[t] = IdleCmd
  BY <1>4
<1>6. Types
  BY <1>1, <1>3, <1>5, ScenariosAssumption DEF Types
<1>7. Remembered
  <2>1. \A x \in Keys : Known(x, 0, 0)
    BY <1>1, <1>3 DEF Known, KnownIn
  <2>2. \A t \in Tasks, x \in Keys : Known(x, cmd[t].got[x].rev, cmd[t].got[x].val)
    BY <1>4, <1>5, <2>1
  <2>3. \A t \in Tasks, k \in Keys : Stamps(map, last, cmd, call, t, call[<<t, k>>])
    BY <1>3 DEF Stamps
  <2> QED BY ZenonT(30), <1>1, <1>3, <2>2, <2>3 DEF Remembered
<1>8. Alone /\ Exclusive
  BY <1>3 DEF Alone, Exclusive
<1>9. Fitting
  BY Zenon, <1>3, <1>4, <1>5 DEF Fitting, Fits
<1> QED BY <1>6, <1>7, <1>8, <1>9 DEF Inv

\* Every step of a shard keeps the invariant.
LEMMA NextInv == Inv /\ [Next]_vars => Inv'
<1> SUFFICES ASSUME Inv, [Next]_vars PROVE Inv'
  OBVIOUS
<1>1. CASE UNCHANGED vars
  <2>1. Still /\ UNCHANGED <<cmd, call, cached>>
    BY Zenon, <1>1 DEF vars, Still, Inv, Types
  <2> QED BY <2>1, FewerCached, BesideKeeps
<1>2. ASSUME NEW t \in Tasks, BeginSome(t) PROVE Inv'
  BY <1>2, BeginKeeps
<1>3. ASSUME NEW t \in Tasks, Advance(t) PROVE Inv'
  BY <1>3, CallStartKeeps, CallCommitKeeps, CallRemoveKeeps, CallEndsKeeps, ReadDoneKeeps,
     FlushClearsKeeps, FlushDoneKeeps DEF Advance
<1>4. ASSUME NEW t \in Tasks, Faults(t) PROVE Inv'
  BY <1>4, ReadFailsKeeps, CallEndsKeeps DEF Faults
<1>5. CASE Watching \/ Evict \/ Reclaim \/ Tick
  BY <1>5, QuietKeeps
<1> QED BY <1>1, <1>2, <1>3, <1>4, <1>5 DEF Next

-----------------------------------------------------------------------------
(* INCR.                                                                   *)

\* A task's steps leave the calls of the other tasks alone.
LEMMA OthersUnmoved ==
  ASSUME Inv, NEW o \in Tasks, BeginSome(o) \/ Advance(o) \/ Faults(o),
         NEW t \in Tasks \ {o}, NEW k \in Keys
  PROVE  call'[<<t, k>>] = call[<<t, k>>]
<1>1. ASSUME NEW x, NEW s, Step(o, x, s) PROVE call'[<<t, k>>] = call[<<t, k>>]
  BY <1>1 DEF Step, Inv, Types
<1>2. ASSUME NEW c, NEW S, Tombstones(o, c, S) PROVE call'[<<t, k>>] = call[<<t, k>>]
  BY <1>2 DEF Tombstones
<1>3. ASSUME NEW c, Inspect(o, c) PROVE call'[<<t, k>>] = call[<<t, k>>]
  BY <1>1, <1>3 DEF Inspect
<1>4. ASSUME NEW x \in Keys, NEW r, CallReturns(o, x, r)
      PROVE  call'[<<t, k>>] = call[<<t, k>>]
  <2>1. ASSUME NEW c, Resume(o, x, c) PROVE call'[<<t, k>>] = call[<<t, k>>]
    BY <1>1, <1>3, <2>1 DEF Resume
  <2> QED BY <1>1, <1>4, <2>1 DEF CallReturns
<1>5. ASSUME NEW op, NEW rev, NEW dl, Puts(o, op, rev, dl) PROVE call'[<<t, k>>] = call[<<t, k>>]
  BY Zenon, <1>1, <1>5 DEF Puts
<1>6. CASE BeginSome(o)
  <2>1. PICK op \in left.ops :
          \/ ReadFirst(o, op) \/ expire(o, op) \/ persist(o, op) \/ set(o, op)
          \/ set_conditional(o, op) \/ setrev(o, op) \/ mset(o, op) \/ delrev(o, op)
          \/ del(o, op) \/ mget(o, op) \/ ttl_raw(o, op) \/ flush_db(o, op)
    BY Zenon, <1>6 DEF BeginSome
  <2>2. CASE ReadFirst(o, op) \/ expire(o, op) \/ persist(o, op)
    BY ZenonT(30), <1>1, <1>3, <2>2 DEF ReadFirst, expire, persist
  <2>3. CASE set(o, op) \/ set_conditional(o, op) \/ setrev(o, op)
    BY <1>5, <2>3 DEF set, set_conditional, setrev
  <2>4. CASE mset(o, op) \/ delrev(o, op) \/ ttl_raw(o, op)
    BY <1>1, <2>4 DEF mset, delrev, ttl_raw
  <2>5. CASE del(o, op) \/ mget(o, op)
    BY <1>2, <2>5 DEF del, mget
  <2>6. CASE flush_db(o, op)
    BY <2>6 DEF flush_db
  <2> QED BY Zenon, <2>1, <2>2, <2>3, <2>4, <2>5, <2>6
<1>7. ASSUME NEW x \in Keys, NEW f, call' = [call EXCEPT ![<<o, x>>] = f]
      PROVE  call'[<<t, k>>] = call[<<t, k>>]
  BY <1>7 DEF Inv, Types
<1>8. ASSUME NEW x \in Keys,
             \/ CallStart(o, x) \/ CallCommit(o, x) \/ CallRemove(o, x)
             \/ CallDone(o, x) \/ CallRefused(o, x) \/ CallFails(o, x)
      PROVE  call'[<<t, k>>] = call[<<t, k>>]
  <2>1. CASE CallStart(o, x)
    <3>1. \E f : call' = [call EXCEPT ![<<o, x>>] = f]
      BY ZenonT(30), <2>1 DEF CallStart, Kv!Start
    <3> QED BY <1>7, <3>1
  <2>2. CASE CallCommit(o, x) \/ CallRemove(o, x)
    <3>1. \E f : call' = [call EXCEPT ![<<o, x>>] = f]
      BY <2>2 DEF CallCommit, CallRemove, Kv!CommitPut, Kv!CommitTtl, Kv!CommitDel, Kv!Finish
    <3> QED BY <1>7, <3>1
  <2>3. CASE CallDone(o, x) \/ CallRefused(o, x) \/ CallFails(o, x)
    BY <1>4, <2>3 DEF CallDone, CallRefused, CallFails
  <2> QED BY Zenon, <1>8, <2>1, <2>2, <2>3
<1>9. CASE ReadDone(o) \/ FlushClears(o) \/ FlushDone(o) \/ ReadFails(o)
  BY <1>1, <1>9 DEF ReadDone, FlushClears, FlushDone, ReadFails, Kv!Clear, Kv!ClearReturns
<1> QED BY ZenonT(30), <1>6, <1>8, <1>9 DEF Advance, Faults

\* Only a commit marks a put of INCR as done.
LEMMA IncrCommits ==
  ASSUME Inv, Next, NEW t \in Tasks, NEW k \in Keys, cmd[t].op.name = "incr",
         call[<<t, k>>].pc = "holds", call'[<<t, k>>].pc = "done"
  PROVE  CallCommit(t, k)
<1>1. cmd[t].pc \in {"write", "lazy"} /\ k = cmd[t].op.keys[1] /\ k \in Active(t)
  BY DEF Inv, Fitting, Fits, Active
<1>2. BeginSome(t) \/ Advance(t) \/ Faults(t)
  <2>1. ~(Watching \/ Evict \/ Reclaim \/ Tick)
    BY Zenon DEF Watching, watch_subscribe, watch_scanned, watch_receive, watch_close, Evict,
           Reclaim, Tick
  <2>2. PICK o \in Tasks : BeginSome(o) \/ Advance(o) \/ Faults(o)
    BY <2>1 DEF Next
  <2>3. o = t
    BY <2>2, OthersUnmoved
  <2> QED BY <2>2, <2>3
<1>3. ~BeginSome(t)
  <2>1. BeginSome(t) => cmd[t].pc = "idle"
    BY ZenonT(30) DEF BeginSome, ReadFirst, expire, persist, set, set_conditional, setrev, Puts, mset,
           delrev, del, mget, ttl_raw, flush_db, Begin
  <2> QED BY <1>1, <2>1
<1>4. ~(ReadDone(t) \/ FlushClears(t) \/ FlushDone(t) \/ ReadFails(t))
  BY <1>1 DEF ReadDone, FlushClears, FlushDone, ReadFails
<1>5. PICK x \in Keys : \/ CallStart(t, x) \/ CallCommit(t, x) \/ CallRemove(t, x)
                        \/ CallDone(t, x) \/ CallRefused(t, x) \/ CallFails(t, x)
  BY Zenon, <1>2, <1>3, <1>4 DEF Advance, Faults
<1>6. ASSUME NEW f, call' = [call EXCEPT ![<<t, x>>] = f]
      PROVE  x = k
  BY <1>6 DEF Inv, Types
<1>7. ASSUME NEW r, CallReturns(t, x, r) PROVE x = k
  <2>1. CASE Active(t) = {x}
    BY <1>1, <2>1
  <2>2. CASE Active(t) # {x}
    <3>1. call' = [call EXCEPT ![<<t, x>>] = Kv!NoCall]
      BY <1>7, <2>2 DEF CallReturns, Step
    <3> QED BY <1>6, <3>1
  <2> QED BY <2>1, <2>2
<1>8. ~CallStart(t, x) /\ ~CallRemove(t, x)
  <2>1. ~CallStart(t, x)
    <3> SUFFICES ASSUME CallStart(t, x) PROVE FALSE
      OBVIOUS
    <3>1. call[<<t, x>>].pc = "called" /\ \E f : call' = [call EXCEPT ![<<t, x>>] = f]
      BY DEF CallStart, Kv!Start, Kv!MayStart
    <3> QED BY <1>6, <3>1
  <2>2. ~CallRemove(t, x)
    <3> SUFFICES ASSUME CallRemove(t, x) PROVE FALSE
      OBVIOUS
    <3>1. call[<<t, x>>].pc = "called" /\ \E f : call' = [call EXCEPT ![<<t, x>>] = f]
      BY DEF CallRemove, Kv!CommitDel, Kv!MayStart, Kv!Finish
    <3> QED BY <1>6, <3>1
  <2> QED BY <2>1, <2>2
<1>9. ~CallDone(t, x) /\ ~CallRefused(t, x)
  BY <1>7 DEF CallDone, CallRefused, Refused
<1>10. ~CallFails(t, x)
  <2> SUFFICES ASSUME CallFails(t, x) PROVE FALSE
    OBVIOUS
  <2>1. x = k /\ CallReturns(t, k, Failed)
    BY <1>7 DEF CallFails
  <2> DEFINE c == [cmd[t] EXCEPT !.out[k] = Failed]
  <2>2. c.op = cmd[t].op /\ c.out[k] = Failed /\ c \in CmdType /\ c.pc = cmd[t].pc
    <3>1. cmd[t] \in CmdType /\ Failed \in Int
      BY DEF Inv, Types, Failed
    <3> QED BY <3>1 DEF CmdType
  <2>3. \/ Resume(t, k, c)
        \/ Step(t, k, [cmd |-> c, call |-> Kv!NoCall])
    BY <2>1 DEF CallReturns
  <2> HIDE DEF c
  <2>4. \E y \in Range(c.op.keys) : c.out[y] = Failed
    <3>1. cmd[t].op.keys # << >>
      BY <1>1 DEF Inv, Fitting, Fits
    <3>2. k \in Range(c.op.keys)
      BY <1>1, <2>2, <3>1, FirstKey DEF Range
    <3> QED BY <2>2, <3>2
  <2>5. \E s : Step(t, k, s) /\ s.call.pc = "idle"
    <3>1. CASE Resume(t, k, c)
      <4>1. Step(t, k, Stop)
        BY <2>2, <2>4, <3>1 DEF Resume
      <4> QED BY <4>1 DEF Stop, Kv!NoCall
    <3>2. CASE Step(t, k, [cmd |-> c, call |-> Kv!NoCall])
      BY <3>2 DEF Kv!NoCall
    <3> QED BY <2>3, <3>1, <3>2
  <2> QED BY <2>5 DEF Step, Inv, Types
<1>11. CallCommit(t, x)
  BY <1>5, <1>8, <1>9, <1>10
<1>12. \E f : call' = [call EXCEPT ![<<t, x>>] = f]
  BY <1>11 DEF CallCommit, Kv!CommitPut, Kv!CommitTtl, Kv!Finish
<1> QED BY <1>6, <1>11, <1>12

\* The commit of an INCR replaces the live value by one more.
LEMMA IncrStep ==
  ASSUME Inv, [Next]_vars, NEW t \in Tasks, NEW k \in Keys, cmd[t].op.name = "incr",
         call[<<t, k>>].pc = "holds", call'[<<t, k>>].pc = "done"
  PROVE  map'[k].val = 1 + IF Present(k, call[<<t, k>>].now) THEN map[k].val ELSE 0
<1> DEFINE c == call[<<t, k>>]
<1> DEFINE v == c.pairs[1].val
<1>1. CallCommit(t, k)
  BY Zenon, IncrCommits DEF vars
<1>2. IncrWrites(k, c) /\ Kv!CommitPut(<<t, k>>, cmd[t].out)
  BY Zenon, <1>1 DEF Inv, Remembered, CallCommit, Kv!CommitPut, Kv!CommitTtl, IncrWrites, IncrIn
<1>3. c.pairs = <<Pair(k, v)>> /\ v \in Int
  <2>1. c.pairs = <<Pair(k, v)>>
    BY <1>2 DEF IncrWrites, IncrIn
  <2>2. c.pairs \in Seq(PairType)
    BY DEF Inv, Types, CallType
  <2>3. 1 \in DOMAIN c.pairs
    BY <2>1
  <2> QED BY ZenonT(30), <2>1, <2>2, <2>3, PairTypes
<1>4. Kv!KeyOf(c) = k /\ k \in Kv!KeysOf(c) /\ Kv!Winner(c, k) = v
  <2>1. DOMAIN c.pairs = {1} /\ c.pairs[1].key = k
    BY <1>3 DEF Pair
  <2>2. {i \in DOMAIN c.pairs : c.pairs[i].key = k} = {1}
    BY <2>1
  <2>3. (CHOOSE i \in {1} : \A j \in {1} : j <= i) = 1
    OBVIOUS
  <2> QED BY <2>1, <2>2, <2>3 DEF Kv!KeyOf, Kv!KeysOf, Kv!Winner
<1>5. map'[k].val = v
  BY Zenon, <1>2, <1>4 DEF Kv!CommitPut
<1>6. Kv!Holds(c)
  BY Zenon, <1>2 DEF Kv!CommitPut
<1>7. Present(k, c.now) <=> Kv!LiveRev(k, c.now) # 0
  BY Zenon DEF Present, Kv!LiveRev, Kv!Rev, Inv, Types
<1>8. CASE c.cond = "KeyAbsent" /\ v = 1
  <2>1. ~Present(k, c.now)
    BY <1>4, <1>6, <1>7, <1>8 DEF Kv!Holds
  <2> QED BY <1>5, <1>8, <2>1
<1>9. CASE c.cond = "Revision" /\ Known(k, c.rev, v - 1)
  <2>1. Kv!LiveRev(k, c.now) = c.rev /\ c.rev # 0
    BY <1>4, <1>6, <1>9 DEF Kv!Holds
  <2>2. Present(k, c.now) /\ map[k].rev = c.rev
    BY <1>7, <2>1 DEF Kv!LiveRev, Kv!Rev
  <2>3. map[k].val = v - 1
    BY <1>9, <2>2 DEF Known, KnownIn, Present
  <2> QED BY <1>3, <1>5, <2>2, <2>3
<1> QED BY Zenon, <1>2, <1>8, <1>9 DEF IncrWrites, IncrIn, Known

\* A revision names one value, in L1 and in what the commands have read, for every number
\* of tasks and keys: an entry may be stale, but it never carries the revision of one
\* write and the value of another (upsert_cache, get, incr in store.rs).
THEOREM RevisionsNameValues == Spec => []RevisionNamesValue
<1>1. Init => Inv
  BY InitInv
<1>2. Inv /\ [Next]_vars => Inv'
  BY NextInv
<1>3. Inv => RevisionNamesValue
  BY Zenon DEF Inv, Types, Remembered, Known, KnownIn, RevisionNamesValue
<1> QED BY <1>1, <1>2, <1>3, PTL DEF Spec

\* INCR is atomic for every number of tasks and keys, any mix of commands, failures,
\* evictions and flushes: the value it commits is one more than the live value it
\* replaces (incr in store.rs).
THEOREM IncrAtomic == Spec => IncrAddsOne
<1> DEFINE A == \A t \in Tasks, k \in Keys :
                  LET c == call[<<t, k>>] IN
                  (/\ cmd[t].op.name = "incr" /\ c.pc = "holds" /\ call'[<<t, k>>].pc = "done")
                  => map'[k].val = 1 + IF Present(k, c.now) THEN map[k].val ELSE 0
<1>1. Init => Inv
  BY InitInv
<1>2. Inv /\ [Next]_vars => Inv'
  BY NextInv
<1>3. Inv /\ [Next]_vars => [A]_vars
  BY Zenon, IncrStep
<1>4. IncrAddsOne <=> [][A]_vars
  BY DEF IncrAddsOne
<1> HIDE DEF A
<1> QED BY <1>1, <1>2, <1>3, <1>4, PTL DEF Spec
==============================================================================
