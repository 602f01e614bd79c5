---------------------------- MODULE ShardStoreInv ----------------------------
(***************************************************************************)
(* The invariant of a shard's commands, for any number of tasks and keys,  *)
(* and the steps that leave the namespace alone, among them those of the   *)
(* tasks, where commands begin, values arrive and calls return: all keep   *)
(* it.                                                                     *)
(*                                                                         *)
(* INCR writes the value it has read plus one if the revision is still the *)
(* one it has read.  That is sound when a revision determines the value:   *)
(* whatever L1, a command or a call remembers of a key is Known, and what  *)
(* is Known stays Known.                                                   *)
(***************************************************************************)
EXTENDS ShardStore, WellFoundedInduction, TLAPS

\* SMT has time for the larger steps; what it does not find is left to Zenon.
USE SMTT(30), ZenonT(30)

\* The commands that read a value, and then go on with it (Proceed).
ReadNames == {"get", "getex", "getset", "getdel", "incr", "expire", "persist"}

EntryType == [rev : Nat, val : Int, dl : Int]
CmdType == [pc : {"idle", "read", "lazy", "write", "flush"}, op : OpType,
            now : Int, got : [Keys -> EntryType], out : [Keys -> Int], tries : Int]
PairType == [key : Keys, val : Int]
CallType == [pc : {"idle", "called", "holds", "done"}, kind : {"none", "put", "del", "ttl"},
             pairs : Seq(PairType), cond : Conds, rev : Nat, now : Int,
             ttl : Int]

Types ==
  /\ last \in Nat /\ clock \in Int /\ left \in ScenarioType
  /\ \A x \in DOMAIN map : x \in Keys /\ map[x].rev \in Nat \ {0} /\ map[x].val \in Int
  /\ \A x \in DOMAIN ttl : ttl[x] \in Int
  /\ \A x \in DOMAIN cached : x \in Keys /\ cached[x] \in EntryType
  /\ cmd \in [Tasks -> CmdType]
  /\ call \in [Tasks \X Keys -> CallType]

\* The value of x at revision r is v: the index m does not say otherwise, and no put in
\* progress can say otherwise later, for it has a larger revision for x.
KnownIn(m, l, cs, ca, x, r, v) ==
  /\ r \in 0..l
  /\ x \in DOMAIN m /\ m[x].rev = r => m[x].val = v
  /\ \A t \in Tasks, k \in Keys :
       LET c == ca[<<t, k>>] IN
       c.pc = "holds" /\ c.kind = "put" /\ x \in Kv!KeysOf(c) => r < cs[t].out[x]
Known(x, r, v) == KnownIn(map, last, cmd, call, x, r, v)

\* The write of an INCR of k: one more than a known value, or one.
IncrIn(m, l, cs, ca, k, cl) ==
  /\ cl.kind = "put" /\ cl.pairs = <<Pair(k, cl.pairs[1].val)>>
  /\ \/ cl.cond = "KeyAbsent" /\ cl.pairs[1].val = 1
     \/ cl.cond = "Revision" /\ KnownIn(m, l, cs, ca, k, cl.rev, cl.pairs[1].val - 1)
IncrWrites(k, cl) == IncrIn(map, last, cmd, call, k, cl)

\* A command c whose call on k is cl.
Fits(k, c, cl) ==
  /\ c.pc # "idle" => c.op.keys # << >>
  /\ c.pc = "read" => c.op.name \in ReadNames \cup {"mget"}
  /\ c.pc = "lazy" => c.op.name \in ReadNames \cup {"mget", "ttl"}
  /\ cl.pc # "idle" => c.pc \in {"write", "lazy"}
  /\ cl.pc # "idle" /\ c.op.name \notin {"del", "mget"} => k = c.op.keys[1]
  /\ cl.pc # "idle" /\ cl.kind = "put" => c.op.name \in {"set", "mset", "getset", "incr"}

\* What a put that holds its keys is about to write, or has written.
Stamps(m, l, cs, ca, t, c) ==
  c.pc \in {"holds", "done"} /\ c.kind = "put" =>
    \A x \in Kv!KeysOf(c) :
      /\ cs[t].out[x] \in 1..l
      /\ c.pc = "done" => KnownIn(m, l, cs, ca, x, cs[t].out[x], Kv!Winner(c, x))

Remembered ==
  /\ \A x \in DOMAIN map : Known(x, map[x].rev, map[x].val)
  /\ \A x \in DOMAIN cached : Known(x, cached[x].rev, cached[x].val)
  /\ \A t \in Tasks, x \in Keys : Known(x, cmd[t].got[x].rev, cmd[t].got[x].val)
  /\ \A t \in Tasks, k \in Keys : Stamps(map, last, cmd, call, t, call[<<t, k>>])
  /\ \A t \in Tasks, k \in Keys :
       call[<<t, k>>].pc # "idle" /\ cmd[t].op.name = "incr"
       => call[<<t, k>>].kind = "del" \/ IncrWrites(k, call[<<t, k>>])

\* A put is the only call of its task.
Alone ==
  \A t \in Tasks, k, o \in Keys :
    (/\ call[<<t, k>>].pc # "idle" /\ call[<<t, k>>].kind = "put"
     /\ call[<<t, o>>].pc # "idle") => o = k

\* Calls that hold keys at the same time hold different keys.
Exclusive ==
  \A u, w \in Tasks \X Keys :
    (u # w /\ call[u].pc \in {"holds", "done"} /\ call[w].pc \in {"holds", "done"})
    => Kv!KeysOf(call[u]) \cap Kv!KeysOf(call[w]) = {}

Fitting == \A t \in Tasks, k \in Keys : Fits(k, cmd[t], call[<<t, k>>])

Inv == Types /\ Remembered /\ Alone /\ Exclusive /\ Fitting

-----------------------------------------------------------------------------
(* Helpers.                                                                *)

\* A bounded nonempty set of indices has a largest element: the pair that wins
\* exists (Winner and Stamped).
LEMMA LargestIndex ==
  ASSUME NEW n \in Nat, NEW I, I \subseteq 1..n, I # {}
  PROVE  \E i \in I : \A j \in I : j <= i
<1> DEFINE T == {n - i : i \in I}
<1>1. T \subseteq Nat /\ T # {}
  <2>1. \A i \in I : n - i \in Nat
    OBVIOUS
  <2> QED BY Zenon, <2>1
<1> DEFINE R == OpToRel(<, Nat)
<1>2. IsWellFoundedOn(R, Nat)
  BY Zenon, NatLessThanWellFounded
<1>3. \E x \in T : \A y \in T : ~(<<y, x>> \in R)
  <2> HIDE DEF R, T
  <2> QED BY Zenon, <1>1, <1>2, WFMin
<1>4. PICK x \in T : \A y \in T : ~(<<y, x>> \in R)
  BY Zenon, <1>3
<1>5. PICK i \in I : x = n - i
  OBVIOUS
<1>6. ASSUME NEW j \in I PROVE j <= i
  <2>1. n - j \in T /\ n - j \in Nat /\ n - i \in Nat
    BY <1>1
  <2>2. ~(n - j < n - i)
    BY Zenon, <2>1, <1>4, <1>5 DEF OpToRel
  <2> QED BY <2>2
<1> QED BY <1>6

\* The pairs of a call are keys and numbers.
LEMMA PairTypes ==
  ASSUME NEW pairs \in Seq(PairType), NEW i \in DOMAIN pairs
  PROVE  pairs[i].key \in Keys /\ pairs[i].val \in Int
<1>1. pairs[i] \in PairType
  OBVIOUS
<1> QED BY <1>1 DEF PairType

\* The winning pair of a call for one of its keys, and its position.
LEMMA WinnerPosition ==
  ASSUME NEW pairs \in Seq(PairType), NEW x,
         \E i \in DOMAIN pairs : pairs[i].key = x
  PROVE  LET I == {i \in DOMAIN pairs : pairs[i].key = x} IN
         (CHOOSE i \in I : \A j \in I : j <= i) \in DOMAIN pairs
<1> DEFINE I == {i \in DOMAIN pairs : pairs[i].key = x}
<1>1. I \subseteq 1..Len(pairs) /\ I # {} /\ Len(pairs) \in Nat
  OBVIOUS
<1>2. \E i \in I : \A j \in I : j <= i
  <2> HIDE DEF I
  <2> QED BY Zenon, <1>1, LargestIndex
<1>3. (CHOOSE i \in I : \A j \in I : j <= i) \in I
  <2> HIDE DEF I
  <2> QED BY <1>2
<1> QED BY <1>3

\* What is written is a number.
LEMMA WinnerType ==
  ASSUME NEW c \in CallType, NEW x \in Kv!KeysOf(c)
  PROVE  Kv!Winner(c, x) \in Int
<1>1. c.pairs \in Seq(PairType) /\ \E i \in DOMAIN c.pairs : c.pairs[i].key = x
  BY DEF CallType, Kv!KeysOf
<1> DEFINE I == {i \in DOMAIN c.pairs : c.pairs[i].key = x}
<1> DEFINE m == CHOOSE i \in I : \A j \in I : j <= i
<1>2. m \in DOMAIN c.pairs
  BY Zenon, <1>1, WinnerPosition
<1>3. Kv!Winner(c, x) = c.pairs[m].val
  BY DEF Kv!Winner
<1> HIDE DEF m
<1>4. \A i \in DOMAIN c.pairs : c.pairs[i].val \in Int
  BY <1>1, PairTypes
<1> QED BY <1>2, <1>3, <1>4

\* The keys of a call are keys of the shard.
LEMMA KeysOfType ==
  ASSUME NEW c \in CallType
  PROVE  Kv!KeysOf(c) \subseteq Keys
<1>1. c.pairs \in Seq(PairType)
  BY DEF CallType
<1> QED BY <1>1, PairTypes DEF Kv!KeysOf

-----------------------------------------------------------------------------
(* What is known stays known.                                              *)

\* A command s.cmd of a task whose call on k is s.call.
Goes(k, s) ==
  /\ s.cmd \in CmdType /\ s.call \in CallType
  /\ Fits(k, s.cmd, s.call)
  /\ \A x \in Keys : Known(x, s.cmd.got[x].rev, s.cmd.got[x].val)
  /\ s.call.pc # "idle" /\ s.cmd.op.name = "incr"
     => s.call.kind = "del" \/ IncrWrites(k, s.call)
\* The same, with a call that has not started.
Sound(k, s) == s.call.pc \in {"idle", "called"} /\ Goes(k, s)

\* What a cache may contain after a step.
CachedSound ==
  \A x \in DOMAIN cached' :
    /\ x \in Keys /\ cached'[x] \in EntryType
    /\ \/ Known(x, cached'[x].rev, cached'[x].val)
       \/ KnownIn(map', last', cmd', call', x, cached'[x].rev, cached'[x].val)

\* What a step on a command must respect, beside the command and its call.
Still ==
  /\ map' = map /\ last' = last /\ clock' \in Int /\ left' \in ScenarioType
  /\ \A x \in DOMAIN ttl' : ttl'[x] \in Int

\* A task goes on with a command and calls that are sound, and no other task notices.
LEMMA TaskKeeps ==
  ASSUME Inv, NEW t \in Tasks, Still, CachedSound,
         cmd' \in [Tasks -> CmdType], call' \in [Tasks \X Keys -> CallType],
         \A o \in Tasks : o # t => cmd'[o] = cmd[o],
         \A o \in Tasks, x \in Keys : o # t => call'[<<o, x>>] = call[<<o, x>>],
         \A x \in Keys : Goes(x, [cmd |-> cmd'[t], call |-> call'[<<t, x>>]]),
         \A x \in Keys : \/ call'[<<t, x>>].pc \in {"idle", "called"}
                         \/ /\ call'[<<t, x>>] = call[<<t, x>>]
                            /\ call'[<<t, x>>].kind # "put",
         \A x, y \in Keys :
           (/\ call'[<<t, x>>].pc # "idle" /\ call'[<<t, x>>].kind = "put"
            /\ call'[<<t, y>>].pc # "idle") => x = y
  PROVE  Inv'
<1> USE DEF Still
<1>1. \A x \in Keys :
        /\ call'[<<t, x>>].pc \in {"idle", "called"} \/ call'[<<t, x>>].kind # "put"
        /\ Fits(x, cmd'[t], call'[<<t, x>>])
        /\ Known(x, cmd'[t].got[x].rev, cmd'[t].got[x].val)
        /\ call'[<<t, x>>].pc # "idle" /\ cmd'[t].op.name = "incr"
           => call'[<<t, x>>].kind = "del" \/ IncrWrites(x, call'[<<t, x>>])
  BY DEF Sound, Goes
<1>2. \A x, r, v : Known(x, r, v) => KnownIn(map', last', cmd', call', x, r, v)
  <2>1. \A o \in Tasks, x \in Keys :
          call'[<<o, x>>].pc = "holds" /\ call'[<<o, x>>].kind = "put"
          => call'[<<o, x>>] = call[<<o, x>>] /\ cmd'[o].out = cmd[o].out
    BY <1>1
  <2>2. ASSUME NEW x, NEW r, NEW v, KnownIn(map, last, cmd, call, x, r, v)
        PROVE  KnownIn(map, last, cmd', call', x, r, v)
    BY <2>1, <2>2 DEF KnownIn
  <2> QED BY <2>2 DEF Known
<1>3. Types'
  BY DEF Inv, Types, CachedSound
<1>4. Remembered'
  <2>1. \A x \in DOMAIN map' : KnownIn(map', last', cmd', call', x, map'[x].rev, map'[x].val)
    BY <1>2 DEF Inv, Remembered
  <2>2. \A x \in DOMAIN cached' :
          KnownIn(map', last', cmd', call', x, cached'[x].rev, cached'[x].val)
    BY <1>2 DEF CachedSound
  <2>3. ASSUME NEW o \in Tasks, NEW x \in Keys
        PROVE  KnownIn(map', last', cmd', call', x, cmd'[o].got[x].rev, cmd'[o].got[x].val)
    BY Zenon, <1>1, <1>2 DEF Inv, Remembered
  <2>4. ASSUME NEW o \in Tasks, NEW x \in Keys
        PROVE  Stamps(map', last', cmd', call', o, call'[<<o, x>>])
    <3>1. CASE o = t
      BY <1>1, <3>1 DEF Stamps
    <3>2. CASE o # t
      <4>1. call'[<<o, x>>] = call[<<o, x>>] /\ cmd'[o] = cmd[o]
        BY <3>2
      <4>2. Stamps(map, last, cmd, call, o, call[<<o, x>>])
        BY DEF Inv, Remembered
      <4> QED BY <4>1, <4>2, <1>2 DEF Stamps, Known
    <3> QED BY <3>1, <3>2
  <2>5. ASSUME NEW o \in Tasks, NEW x \in Keys,
               call'[<<o, x>>].pc # "idle", cmd'[o].op.name = "incr"
        PROVE  \/ call'[<<o, x>>].kind = "del"
               \/ IncrIn(map', last', cmd', call', x, call'[<<o, x>>])
    <3>1. call'[<<o, x>>].kind = "del" \/ IncrWrites(x, call'[<<o, x>>])
      BY <1>1, <2>5 DEF Inv, Remembered
    <3> QED BY <3>1, <1>2 DEF IncrWrites, IncrIn, Known
  <2> QED BY <2>1, <2>2, <2>3, <2>4, <2>5 DEF Remembered, Known, IncrWrites
<1>5. Alone'
  BY DEF Inv, Alone
<1>6. Exclusive'
  <2> SUFFICES ASSUME NEW u \in Tasks \X Keys, NEW w \in Tasks \X Keys, u # w,
                      call'[u].pc \in {"holds", "done"}, call'[w].pc \in {"holds", "done"}
               PROVE  Kv!KeysOf(call'[u]) \cap Kv!KeysOf(call'[w]) = {}
    BY DEF Exclusive
  <2>1. call'[u] = call[u] /\ call'[w] = call[w]
    BY <1>1
  <2> QED BY Zenon, <2>1 DEF Inv, Exclusive
<1>7. Fitting'
  BY Zenon, <1>1 DEF Inv, Fitting
<1> QED BY <1>3, <1>4, <1>5, <1>6, <1>7 DEF Inv

\* A task whose only call, if any, is on k goes on with s (Step): Begin, ReadDone, Resume.
LEMMA StepKeeps ==
  ASSUME Inv, NEW t \in Tasks, NEW k \in Keys, NEW s, Sound(k, s), Still,
         CachedSound, Active(t) \subseteq {k}, Step(t, k, s)
  PROVE  Inv'
<1>1. /\ cmd' \in [Tasks -> CmdType] /\ call' \in [Tasks \X Keys -> CallType]
      /\ \A o \in Tasks : cmd'[o] = IF o = t THEN s.cmd ELSE cmd[o]
      /\ \A o \in Tasks, x \in Keys :
           call'[<<o, x>>] = IF o = t /\ x = k THEN s.call ELSE call[<<o, x>>]
  BY DEF Inv, Types, Step, Sound, Goes
<1>2. \A x \in Keys : x # k => call'[<<t, x>>].pc = "idle"
  BY <1>1 DEF Active
<1>3. ASSUME NEW x \in Keys
      PROVE  Sound(x, [cmd |-> cmd'[t], call |-> call'[<<t, x>>]])
  <2>1. CASE x = k
    BY <1>1, <2>1 DEF Sound, Goes
  <2>2. CASE x # k
    <3>1. Fits(x, cmd'[t], call'[<<t, x>>])
      BY <1>1, <1>2, <2>2 DEF Sound, Goes, Fits
    <3> QED BY <1>1, <1>2, <2>2, <3>1 DEF Sound, Goes
  <2> QED BY <2>1, <2>2
<1> QED BY <1>1, <1>2, <1>3, TaskKeeps DEF Sound

-----------------------------------------------------------------------------
(* Commands and their calls are sound.                                     *)

\* A key without a value is known to have no value at revision 0.
LEMMA NilKnown ==
  ASSUME Inv, NEW x \in Keys
  PROVE  Known(x, 0, 0)
<1>1. 0 \in 0..last /\ ~(x \in DOMAIN map /\ map[x].rev = 0)
  BY DEF Inv, Types
<1>2. ASSUME NEW t \in Tasks, NEW k \in Keys, call[<<t, k>>].pc = "holds",
             call[<<t, k>>].kind = "put", x \in Kv!KeysOf(call[<<t, k>>])
      PROVE  0 < cmd[t].out[x]
  <2>1. cmd[t].out[x] \in 1..last
    BY <1>2 DEF Inv, Remembered, Stamps
  <2> QED BY <2>1 DEF Inv, Types
<1> QED BY <1>1, <1>2 DEF Known, KnownIn

\* What the index says is known.
LEMMA FoundKnown ==
  ASSUME Inv, NEW x \in DOMAIN map
  PROVE  /\ Found(x) \in EntryType
         /\ Known(x, Found(x).rev, Found(x).val)
<1>1. Deadline(x) \in Int
  BY DEF Inv, Types, Deadline, None
<1> QED BY <1>1 DEF Inv, Types, Remembered, Found, EntryType

\* A command that may go on with what it has got.
Ready(c) ==
  /\ c \in CmdType /\ c.op.keys # << >>
  /\ \A x \in Keys : Known(x, c.got[x].rev, c.got[x].val)

\* The key of a command on one key is a key.
LEMMA FirstKey ==
  ASSUME NEW c \in CmdType, c.op.keys # << >>
  PROVE  c.op.keys[1] \in Keys /\ 1 \in DOMAIN c.op.keys
<1>1. c.op.keys \in Seq(Keys)
  BY DEF CmdType, OpType
<1> QED BY <1>1

\* The entry of a missing key: revision 0, as incr takes it.
LEMMA NilType == Nil \in EntryType /\ Nil.rev = 0 /\ Nil.val = 0
BY DEF Nil, EntryType, None

\* A command that returns remembers nothing that needs to be right.
LEMMA StopSound ==
  ASSUME Inv, NEW k \in Keys
  PROVE  Sound(k, Stop)
<1>1. IdleCmd \in CmdType
  BY NilType DEF IdleCmd, CmdType, Nothing, NoOp, OpType, Names, Conds, None
<1>2. Kv!NoCall \in CallType
  BY DEF Kv!NoCall, CallType, Conds
<1>3. Fits(k, IdleCmd, Kv!NoCall)
  BY DEF Fits, IdleCmd, Kv!NoCall
<1>4. \A x \in Keys : Known(x, IdleCmd.got[x].rev, IdleCmd.got[x].val)
  BY NilKnown, NilType DEF IdleCmd, Nothing
<1> QED BY <1>1, <1>2, <1>3, <1>4 DEF Sound, Goes, Stop, Kv!NoCall

\* A command that starts to wait for read_value fits its state.
LEMMA ReadingSound ==
  ASSUME Inv, NEW c, Ready(c), c.op.name \in ReadNames \cup {"mget"}, NEW k \in Keys
  PROVE  Sound(k, Reading(c))
<1> DEFINE d == [c EXCEPT !.pc = "read"]
<1>1. /\ d \in CmdType /\ d.op = c.op /\ d.got = c.got /\ d.pc = "read"
  BY DEF Ready, CmdType
<1>2. Kv!NoCall \in CallType /\ Kv!NoCall.pc = "idle"
  BY DEF Kv!NoCall, CallType, Conds
<1> HIDE DEF d
<1>3. Fits(k, d, Kv!NoCall)
  BY <1>1, <1>2 DEF Fits, Ready
<1> DEFINE s == [cmd |-> d, call |-> Kv!NoCall]
<1>4. Sound(k, s)
  BY <1>1, <1>2, <1>3 DEF Sound, Goes, Ready
<1> QED BY <1>4 DEF Reading, d

\* A command that makes the call cl, in phase pc.
LEMMA CallingSound ==
  ASSUME Inv, NEW c, Ready(c), NEW pc \in {"write", "lazy"}, NEW cl \in CallType,
         cl.pc = "called",
         pc = "lazy" => c.op.name \in ReadNames \cup {"ttl"},
         c.op.name \notin {"del", "mget"},
         cl.kind = "put" => c.op.name \in {"set", "mset", "getset", "incr"},
         c.op.name = "incr" => cl.kind = "del" \/ IncrWrites(c.op.keys[1], cl)
  PROVE  Sound(c.op.keys[1], [cmd |-> [c EXCEPT !.pc = pc], call |-> cl])
<1> DEFINE d == [c EXCEPT !.pc = pc]
<1>1. d \in CmdType /\ d.op = c.op /\ d.got = c.got /\ d.pc = pc
  BY DEF Ready, CmdType
<1> HIDE DEF d
<1>2. Fits(c.op.keys[1], d, cl)
  BY <1>1 DEF Fits, Ready
<1> DEFINE s == [cmd |-> d, call |-> cl]
<1>3. Sound(c.op.keys[1], s)
  BY <1>1, <1>2 DEF Sound, Goes, Ready
<1> QED BY <1>3 DEF d

\* What put_full, put_full_cond and put_many are called with.
LEMMA PutCallType ==
  ASSUME NEW p \in Seq(PairType), NEW cond \in Conds, NEW rev \in Nat, NEW now \in Int,
         NEW dl \in Int
  PROVE  LET cl == PutCall(p, cond, rev, now, dl) IN
         /\ cl \in CallType /\ cl.pc = "called" /\ cl.kind = "put" /\ cl.pairs = p
         /\ cl.cond = cond /\ cl.rev = rev
BY DEF PutCall, CallType

\* The pairs of a put of one key.
LEMMA OnePair ==
  ASSUME NEW k \in Keys, NEW v \in Int
  PROVE  <<Pair(k, v)>> \in Seq(PairType) /\ <<Pair(k, v)>>[1].val = v
BY DEF Pair, PairType

\* A put of one pair.
LEMMA PutOneType ==
  ASSUME NEW k \in Keys, NEW v \in Int, NEW cond \in Conds, NEW rev \in Nat,
         NEW now \in Int, NEW dl \in Int
  PROVE  LET cl == PutCall(<<Pair(k, v)>>, cond, rev, now, dl) IN
         /\ cl \in CallType /\ cl.pc = "called" /\ cl.kind = "put"
         /\ cl.pairs = <<Pair(k, v)>> /\ cl.pairs[1].val = v
         /\ cl.cond = cond /\ cl.rev = rev
<1> DEFINE p == <<Pair(k, v)>>
<1>1. p \in Seq(PairType) /\ p[1].val = v
  BY OnePair
<1> HIDE DEF p
<1> DEFINE cl == PutCall(p, cond, rev, now, dl)
<1>2. /\ cl \in CallType /\ cl.pc = "called" /\ cl.kind = "put" /\ cl.pairs = p
      /\ cl.cond = cond /\ cl.rev = rev
  BY <1>1, PutCallType
<1> QED BY <1>1, <1>2 DEF p

\* The same as one fact about the call: set and its conditional forms begin with it.
PutCalled(cl) == cl \in CallType /\ cl.pc = "called" /\ cl.kind = "put"
LEMMA PutOneCalled ==
  ASSUME NEW k \in Keys, NEW v \in Int, NEW cond \in Conds, NEW rev \in Nat,
         NEW now \in Int, NEW dl \in Int
  PROVE  PutCalled(PutCall(<<Pair(k, v)>>, cond, rev, now, dl))
BY PutOneType DEF PutCalled

\* What tombstone and tombstone_cond are called with.
LEMMA DelCallType ==
  ASSUME NEW k \in Keys, NEW cond \in Conds, NEW rev \in Nat, NEW now \in Int
  PROVE  LET cl == DelCall(k, cond, rev, now) IN
         cl \in CallType /\ cl.pc = "called" /\ cl.kind = "del"
<1> DEFINE c == PutCall(<<Pair(k, 0)>>, cond, rev, now, None)
<1>1. 0 \in Int /\ None \in Int
  BY DEF None
<1>2. c \in CallType /\ c.pc = "called"
  BY <1>1, PutOneType
<1> HIDE DEF c
<1>3. [c EXCEPT !.kind = "del"] \in CallType /\ [c EXCEPT !.kind = "del"].pc = "called"
      /\ [c EXCEPT !.kind = "del"].kind = "del"
  BY <1>2 DEF CallType
<1> QED BY <1>3 DEF c, DelCall

\* What set_ttl is called with.
LEMMA TtlCallType ==
  ASSUME NEW k \in Keys, NEW dl \in Int
  PROVE  LET cl == TtlCall(k, dl) IN
         cl \in CallType /\ cl.pc = "called" /\ cl.kind = "ttl"
<1> DEFINE c == PutCall(<<Pair(k, 0)>>, "Any", 0, 0, dl)
<1>1. 0 \in Int /\ 0 \in Nat /\ "Any" \in Conds
  BY DEF Conds
<1>2. c \in CallType /\ c.pc = "called"
  BY <1>1, PutOneType
<1> HIDE DEF c
<1>3. [c EXCEPT !.kind = "ttl"] \in CallType /\ [c EXCEPT !.kind = "ttl"].pc = "called"
      /\ [c EXCEPT !.kind = "ttl"].kind = "ttl"
  BY <1>2 DEF CallType
<1> QED BY <1>3 DEF c, TtlCall

\* What incr calls put_full_cond with: one more, if the revision is as read.
LEMMA IncrCallType ==
  ASSUME NEW k \in Keys, NEW c, c.now \in Int, NEW g, g.rev \in Nat, g.val \in Int,
         g.dl \in Int
  PROVE  LET cl == IncrCall(k, c, g) IN
         /\ cl \in CallType /\ cl.pc = "called" /\ cl.kind = "put" /\ cl.cond = "Revision"
         /\ cl.pairs = <<Pair(k, g.val + 1)>> /\ cl.rev = g.rev
<1>1. g.val + 1 \in Int /\ "Revision" \in Conds
  BY DEF Conds
<1>2. <<Pair(k, g.val + 1)>> \in Seq(PairType)
  BY <1>1, OnePair
<1> DEFINE p == <<Pair(k, g.val + 1)>>
<1> HIDE DEF p
<1>3. LET cl == PutCall(p, "Revision", g.rev, c.now, g.dl) IN
      /\ cl \in CallType /\ cl.pc = "called" /\ cl.kind = "put" /\ cl.cond = "Revision"
      /\ cl.pairs = p /\ cl.rev = g.rev
  <2>1. p \in Seq(PairType)
    BY <1>2 DEF p
  <2> QED BY <2>1, <1>1 DEF PutCall, CallType
<1> QED BY <1>3 DEF p, IncrCall

\* What a command does with the value it has got is sound (Proceed).
LEMMA ProceedSound ==
  ASSUME Inv, NEW c, Ready(c), c.op.name \in ReadNames
  PROVE  Sound(c.op.keys[1], Proceed(c))
<1> DEFINE k == c.op.keys[1]
<1> DEFINE g == c.got[k]
<1>1. k \in Keys /\ c.op.val \in Int /\ c.now \in Int /\ c.got \in [Keys -> EntryType]
  BY FirstKey DEF Ready, CmdType, OpType
<1>2. DeadlineAt(c.op, c.now) \in Int
  BY DEF Ready, CmdType, OpType, DeadlineAt, None
<1>3. g \in EntryType /\ Known(k, g.rev, g.val)
  BY <1>1 DEF Ready
<1>4. g.rev \in Nat /\ g.val \in Int /\ g.dl \in Int
  BY Zenon, <1>3 DEF EntryType
<1>5. Sound(k, Stop)
  BY <1>1, StopSound
<1>6. 0 \in Nat /\ "Any" \in Conds /\ "KeyAbsent" \in Conds /\ "Revision" \in Conds
      /\ None \in Int /\ 1 \in Int /\ g.val + 1 \in Int
  BY <1>4 DEF Conds, None
<1>7. c.op.name \notin {"del", "mget", "set", "mset", "ttl"}
  BY DEF ReadNames
<1>8. ASSUME NEW cl \in CallType, cl.pc = "called", c.op.name # "incr",
             cl.kind = "put" => c.op.name = "getset"
      PROVE  Sound(k, Writing(c, cl))
  BY <1>7, <1>8, CallingSound DEF Writing
<1>9. CASE c.op.name = "get"
  BY <1>5, <1>9 DEF Proceed
<1>10. CASE c.op.name \in {"getex", "expire", "persist"}
  <2>1. Sound(k, Writing(c, TtlCall(k, DeadlineAt(c.op, c.now))))
    BY <1>1, <1>2, <1>8, <1>10, TtlCallType
  <2> QED BY <2>1, <1>5, <1>10 DEF Proceed, getex
<1>11. CASE c.op.name = "getset"
  <2>1. Sound(k, getset(c, k))
    BY <1>1, <1>6, <1>8, <1>11, PutOneType DEF getset
  <2> QED BY <2>1, <1>11 DEF Proceed
<1>12. CASE c.op.name = "getdel"
  <2>1. LET cl == DelCall(k, "Any", 0, c.now) IN
        cl \in CallType /\ cl.pc = "called" /\ cl.kind = "del"
    BY <1>1, <1>6, DelCallType
  <2>2. Sound(k, getdel(c, k))
    BY <1>8, <1>12, <2>1 DEF getdel
  <2> QED BY <2>2, <1>12 DEF Proceed
<1>13. CASE c.op.name = "incr"
  <2>1. ASSUME NEW cl \in CallType, cl.pc = "called", IncrWrites(k, cl)
        PROVE  Sound(k, Writing(c, cl))
    BY <1>7, <1>13, <2>1, CallingSound DEF Writing
  <2>2. Sound(k, Writing(c, PutCall(<<Pair(k, 1)>>, "KeyAbsent", 0, c.now, None)))
    <3> DEFINE cl == PutCall(<<Pair(k, 1)>>, "KeyAbsent", 0, c.now, None)
    <3>1. cl \in CallType /\ cl.pc = "called" /\ cl.kind = "put" /\ cl.cond = "KeyAbsent"
          /\ cl.pairs = <<Pair(k, 1)>>
      BY <1>1, <1>6, PutOneType
    <3> HIDE DEF cl
    <3>2. IncrWrites(k, cl)
      BY <3>1 DEF IncrWrites, IncrIn, Pair
    <3> QED BY <2>1, <3>1, <3>2 DEF cl
  <2>3. Sound(k, Writing(c, IncrCall(k, c, g)))
    <3> DEFINE cl == IncrCall(k, c, g)
    <3>1. cl \in CallType /\ cl.pc = "called" /\ cl.kind = "put" /\ cl.cond = "Revision"
          /\ cl.pairs = <<Pair(k, g.val + 1)>> /\ cl.rev = g.rev
      <4> HIDE DEF g, k
      <4> QED BY <1>1, <1>4, IncrCallType
    <3> HIDE DEF cl
    <3>2. cl.pairs[1].val = g.val + 1 /\ cl.pairs[1].val - 1 = g.val
      BY <1>4, <3>1 DEF Pair
    <3>3. IncrWrites(k, cl)
      BY ZenonT(30), <3>1, <3>2, <1>3 DEF IncrWrites, IncrIn, Known
    <3> QED BY Zenon, <2>1, <3>1, <3>3 DEF cl
  <2>4. Sound(k, incr(c, k, g))
    BY <1>5, <2>2, <2>3 DEF incr
  <2> QED BY <2>4, <1>13 DEF Proceed
<1> QED BY <1>9, <1>10, <1>11, <1>12, <1>13 DEF ReadNames

-----------------------------------------------------------------------------
(* Commands look a key up (Inspect).                                       *)

\* What is kept of a cache is part of it.
LEMMA KeepFacts ==
  ASSUME NEW f, L1!Keep(f)
  PROVE  \A x \in DOMAIN cached' : x \in DOMAIN f /\ cached'[x] = f[x]
BY DEF L1!Keep, L1!Restrict

\* Entries that stay as they were, or disappear, are still known.
LEMMA FewerCached ==
  ASSUME Inv, \/ cached' = cached
              \/ \E S : cached' = Without(S)
  PROVE  CachedSound
<1>1. \A x \in DOMAIN cached' : x \in DOMAIN cached /\ cached'[x] = cached[x]
  BY Zenon DEF Without, Restrict
<1> QED BY <1>1 DEF CachedSound, Inv, Types, Remembered

\* A command that gets the known entry e of its key.
LEMMA ReadyGot ==
  ASSUME NEW c, Ready(c), NEW k \in Keys, NEW e \in EntryType, Known(k, e.rev, e.val)
  PROVE  Ready([c EXCEPT !.got[k] = e]) /\ [c EXCEPT !.got[k] = e].op = c.op
<1> DEFINE d == [c EXCEPT !.got[k] = e]
<1>1. d \in CmdType /\ d.op = c.op /\ \A x \in Keys : d.got[x] = IF x = k THEN e ELSE c.got[x]
  BY DEF Ready, CmdType
<1> HIDE DEF d
<1>2. Ready(d)
  BY <1>1 DEF Ready
<1> QED BY <1>1, <1>2 DEF d

\* Whatever a command finds in L1 or in the index, it goes on soundly.
LEMMA InspectKeeps ==
  ASSUME Inv, NEW t \in Tasks, NEW c, Ready(c), c.op.name \in ReadNames,
         Active(t) \subseteq {c.op.keys[1]}, Still, Inspect(t, c)
  PROVE  Inv'
<1> DEFINE k == c.op.keys[1]
<1>1. k \in Keys
  BY FirstKey DEF Ready
<1>2. CachedSound
  BY FewerCached DEF Inspect
<1>3. ASSUME NEW s, Sound(k, s), Step(t, k, s)
      PROVE  Inv'
  BY <1>1, <1>2, <1>3, StepKeeps
<1>4. ASSUME NEW e \in EntryType, Known(k, e.rev, e.val),
             Step(t, k, Proceed([c EXCEPT !.got[k] = e]))
      PROVE  Inv'
  <2> DEFINE d == [c EXCEPT !.got[k] = e]
  <2>1. Ready(d) /\ d.op = c.op
    BY <1>1, <1>4, ReadyGot
  <2> HIDE DEF d
  <2>2. Sound(k, Proceed(d))
    BY <2>1, ProceedSound
  <2>3. Step(t, k, Proceed(d))
    BY <1>4 DEF d
  <2> QED BY <1>3, <2>2, <2>3
<1>5. CASE Hit(k, c.now) /\ Step(t, k, Proceed([c EXCEPT !.got[k] = cached[k]]))
  <2>1. cached[k] \in EntryType /\ Known(k, cached[k].rev, cached[k].val)
    BY <1>5 DEF Hit, Inv, Types, Remembered
  <2> QED BY <1>4, <1>5, <2>1
<1>6. CASE Step(t, k, Proceed([c EXCEPT !.got[k] = Nil]))
  <2>1. Nil \in EntryType /\ Known(k, Nil.rev, Nil.val)
    BY <1>1, NilType, NilKnown
  <2> QED BY <1>4, <1>6, <2>1
<1>7. CASE Step(t, k, [cmd |-> [c EXCEPT !.pc = "lazy"], call |-> DelCall(k, "Any", 0, c.now)])
  <2> DEFINE cl == DelCall(k, "Any", 0, c.now)
  <2>1. cl \in CallType /\ cl.pc = "called" /\ cl.kind = "del"
    <3>1. c.now \in Int /\ "Any" \in Conds /\ 0 \in Nat
      BY DEF Ready, CmdType, Conds
    <3> QED BY <1>1, <3>1, DelCallType
  <2> HIDE DEF cl
  <2>2. Sound(k, [cmd |-> [c EXCEPT !.pc = "lazy"], call |-> cl])
    BY <2>1, CallingSound DEF ReadNames
  <2> QED BY <1>3, <1>7, <2>2 DEF cl
<1>8. CASE Present(k, c.now) /\ Step(t, k, Reading([c EXCEPT !.got[k] = Found(k)]))
  <2> DEFINE d == [c EXCEPT !.got[k] = Found(k)]
  <2>1. k \in DOMAIN map
    BY <1>8 DEF Present
  <2>2. Ready(d) /\ d.op = c.op
    BY <1>1, <2>1, FoundKnown, ReadyGot
  <2>3. Step(t, k, Reading(d))
    BY <1>8
  <2> HIDE DEF d
  <2>4. Sound(k, Reading(d))
    BY <1>1, <2>2, ReadingSound
  <2> QED BY <1>3, <2>3, <2>4
<1> QED BY <1>5, <1>6, <1>7, <1>8 DEF Inspect

=============================================================================
