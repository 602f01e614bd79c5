--------------------------- MODULE ShardStoreTasks ---------------------------
(***************************************************************************)
(* A shard's commands begin, values arrive and calls return: the invariant *)
(* of ShardStoreInv is kept.                                               *)
(***************************************************************************)
EXTENDS ShardStoreInv

USE SMTT(30), ZenonT(30)

-----------------------------------------------------------------------------
(* Commands begin.                                                         *)

\* A command that begins has keys and remembers nothing; index and calls stay.
LEMMA BeginFacts ==
  ASSUME Inv, NEW t \in Tasks, NEW op, Begin(t, op)
  PROVE  /\ Still /\ Active(t) = {}
         /\ op \in OpType /\ op.keys # << >> /\ op.keys[1] \in Keys
         /\ Ready(Fresh(op)) /\ Fresh(op).op = op /\ Fresh(op).now = clock
<1>1. op \in OpType /\ op.keys # << >> /\ left' \in ScenarioType
  BY DEF Inv, Types, Begin, ScenarioType
<1>2. op.keys[1] \in Keys
  BY <1>1 DEF OpType
<1>3. Still
  BY <1>1 DEF Begin, Still, Inv, Types
<1>4. Active(t) = {}
  BY DEF Begin, Inv, Fitting, Fits, Active
<1>5. Sound(op.keys[1], Stop)
  BY <1>2, StopSound
<1> DEFINE c == Fresh(op)
<1>6. IdleCmd \in CmdType /\ \A x \in Keys : Known(x, IdleCmd.got[x].rev, IdleCmd.got[x].val)
  BY <1>5 DEF Sound, Goes, Stop
<1>7. c \in CmdType /\ c.op = op /\ c.now = clock /\ c.got = IdleCmd.got
  <2> HIDE DEF IdleCmd
  <2>1. clock \in Int
    BY DEF Inv, Types
  <2> QED BY Zenon, <1>1, <1>6, <2>1 DEF Fresh, CmdType
<1>8. Ready(c)
  <2> HIDE DEF c
  <2> QED BY <1>1, <1>6, <1>7 DEF Ready
<1> QED BY <1>1, <1>2, <1>3, <1>4, <1>7, <1>8

\* Commands that begin with a look at their key, or end at once.
LEMMA ReadFirstKeeps ==
  ASSUME Inv, NEW t \in Tasks, NEW op, ReadFirst(t, op) \/ expire(t, op) \/ persist(t, op)
  PROVE  Inv'
<1>1. Begin(t, op) /\ op.name \in ReadNames
  BY DEF ReadFirst, expire, persist, ReadNames
<1>2. /\ Still /\ Active(t) = {} /\ op.keys[1] \in Keys
      /\ Ready(Fresh(op)) /\ Fresh(op).op = op
  BY <1>1, BeginFacts
<1>3. CASE Inspect(t, Fresh(op))
  BY <1>1, <1>2, <1>3, InspectKeeps
<1>4. CASE /\ Step(t, op.keys[1], Stop)
           /\ cached' = Without({op.keys[1]}) \/ cached' = cached
  <2>1. CachedSound
    BY <1>4, FewerCached
  <2> QED BY <1>2, <1>4, <2>1, StopSound, StepKeeps
<1> QED BY <1>3, <1>4 DEF ReadFirst, expire, persist

\* Commands that begin with a call on one key.
LEMMA WriteFirstKeeps ==
  ASSUME Inv, NEW t \in Tasks, NEW op, NEW cl \in CallType, Begin(t, op),
         op.name \in {"set", "mset", "delrev"}, cl.pc = "called",
         cl.kind = "put" => op.name # "delrev",
         Step(t, op.keys[1], Writing(Fresh(op), cl)), cached' = cached
  PROVE  Inv'
<1>1. /\ Still /\ Active(t) = {} /\ op.keys[1] \in Keys
      /\ Ready(Fresh(op)) /\ Fresh(op).op = op
  BY BeginFacts
<1>2. CachedSound
  BY FewerCached
<1> DEFINE c == Fresh(op)
<1> HIDE DEF c
<1>3. Sound(op.keys[1], Writing(c, cl))
  BY <1>1, CallingSound DEF Writing, c
<1> QED BY <1>1, <1>2, <1>3, StepKeeps DEF c

\* set, set_conditional and setrev call a put without reading first.
LEMMA PutsKeeps ==
  ASSUME Inv, NEW t \in Tasks, NEW op, set(t, op) \/ set_conditional(t, op) \/ setrev(t, op)
  PROVE  Inv'
<1> DEFINE k == op.keys[1]
<1>1. PICK rev \in Nat, dl \in Int : Puts(t, op, rev, dl)
  <2>1. Begin(t, op)
    BY DEF set, set_conditional, setrev, Puts
  <2>2. op \in OpType
    BY <2>1, BeginFacts
  <2>3. DeadlineAt(op, clock) \in Int /\ Deadline(k) \in Int
    BY <2>2 DEF Inv, Types, DeadlineAt, Deadline, OpType, None
  <2>4. KeptOrNew(k, op) \in Int /\ 0 \in Nat
    BY <2>3 DEF KeptOrNew
  <2>5. Kv!Rev(k) \in Nat
    BY DEF Kv!Rev, Inv, Types
  <2> QED BY <2>3, <2>4, <2>5 DEF set, set_conditional, setrev
<1>2. Begin(t, op) /\ op.name = "set"
  BY <1>1 DEF Puts, set, set_conditional, setrev
<1>3. k \in Keys /\ op.val \in Int /\ op.cond \in Conds /\ clock \in Int
  BY <1>2, BeginFacts DEF OpType, Inv, Types
<1> DEFINE cl == PutCall(<<Pair(k, op.val)>>, op.cond, rev, clock, dl)
<1>4. PutCalled(cl)
  BY Zenon, <1>3, PutOneCalled
<1>5. Step(t, k, Writing(Fresh(op), cl)) /\ cached' = cached
  BY <1>1 DEF Puts
<1> HIDE DEF cl
<1>6. cl \in CallType /\ cl.pc = "called" /\ cl.kind = "put"
  BY Zenon, <1>4 DEF PutCalled
<1> QED BY Zenon, <1>2, <1>5, <1>6, WriteFirstKeeps

\* mset calls one put for all its pairs.
LEMMA msetKeeps ==
  ASSUME Inv, NEW t \in Tasks, NEW op, mset(t, op)
  PROVE  Inv'
<1> DEFINE pairs == [i \in DOMAIN op.keys |-> Pair(op.keys[i], op.val)]
<1> DEFINE cl == PutCall(pairs, "Any", 0, clock, None)
<1>1. /\ Begin(t, op) /\ op.name = "mset" /\ cached' = cached
      /\ Step(t, op.keys[1], Writing(Fresh(op), cl))
  BY DEF mset
<1>2. op \in OpType
  BY <1>1, BeginFacts
<1>3. op.keys \in Seq(Keys) /\ op.val \in Int
  BY <1>2 DEF OpType
<1>4. pairs \in Seq(PairType)
  <2>1. \A i \in DOMAIN op.keys : Pair(op.keys[i], op.val) \in PairType
    BY <1>3 DEF Pair, PairType
  <2>2. DOMAIN pairs = 1..Len(op.keys) /\ Len(op.keys) \in Nat
    BY <1>3
  <2>3. pairs \in [1..Len(op.keys) -> PairType]
    BY <2>1, <2>2
  <2> HIDE DEF pairs
  <2> QED BY <2>2, <2>3
<1> HIDE DEF pairs
<1>5. cl \in CallType /\ cl.pc = "called" /\ cl.kind = "put"
  <2>1. clock \in Int /\ None \in Int /\ "Any" \in Conds /\ 0 \in Nat
    BY DEF Inv, Types, None, Conds
  <2> QED BY <1>4, <2>1, PutCallType
<1> HIDE DEF cl
<1> QED BY <1>1, <1>5, WriteFirstKeeps

\* delrev calls a conditional tombstone.
LEMMA delrevKeeps ==
  ASSUME Inv, NEW t \in Tasks, NEW op, delrev(t, op)
  PROVE  Inv'
<1> DEFINE k == op.keys[1]
<1> DEFINE cl == DelCall(k, "Revision", Kv!Rev(k), clock)
<1>1. /\ Begin(t, op) /\ op.name = "delrev" /\ cached' = cached
      /\ Step(t, k, Writing(Fresh(op), cl))
  BY DEF delrev
<1>2. k \in Keys
  BY <1>1, BeginFacts
<1>3. Kv!Rev(k) \in Nat /\ clock \in Int /\ "Revision" \in Conds
  BY DEF Kv!Rev, Inv, Types, Conds
<1>4. cl \in CallType /\ cl.pc = "called" /\ cl.kind = "del"
  BY <1>2, <1>3, DelCallType
<1> HIDE DEF cl
<1> QED BY <1>1, <1>4, WriteFirstKeeps

\* ttl_raw looks at the index, and may call the tombstone of an expired key.
LEMMA ttl_rawKeeps ==
  ASSUME Inv, NEW t \in Tasks, NEW op, ttl_raw(t, op)
  PROVE  Inv'
<1> DEFINE k == op.keys[1]
<1> DEFINE cl == DelCall(k, "Any", 0, clock)
<1>1. Begin(t, op) /\ op.name = "ttl" /\ cached' = cached
  BY DEF ttl_raw
<1>2. /\ Still /\ Active(t) = {} /\ k \in Keys /\ CachedSound
      /\ Ready(Fresh(op)) /\ Fresh(op).op = op
  BY <1>1, BeginFacts, FewerCached
<1>3. CASE Step(t, k, Stop)
  BY <1>2, <1>3, StopSound, StepKeeps
<1>4. CASE Step(t, k, [cmd |-> [Fresh(op) EXCEPT !.pc = "lazy"], call |-> cl])
  <2>1. clock \in Int /\ "Any" \in Conds /\ 0 \in Nat
    BY DEF Inv, Types, Conds
  <2>2. cl \in CallType /\ cl.pc = "called" /\ cl.kind = "del"
    BY <1>2, <2>1, DelCallType
  <2> HIDE DEF cl
  <2>3. Sound(k, [cmd |-> [Fresh(op) EXCEPT !.pc = "lazy"], call |-> cl])
    <3> DEFINE c == Fresh(op)
    <3> HIDE DEF c
    <3>1. Ready(c) /\ c.op = op
      BY <1>2 DEF c
    <3>2. Sound(k, [cmd |-> [c EXCEPT !.pc = "lazy"], call |-> cl])
      BY <1>1, <2>2, <3>1, CallingSound
    <3> QED BY <3>2 DEF c
  <2> QED BY <1>2, <1>4, <2>3, StepKeeps
<1> QED BY <1>3, <1>4 DEF ttl_raw

\* A command of several keys, with the entries it has listed for those in S.
Listed(c, S, pc) ==
  [c EXCEPT !.pc = pc, !.got = [k \in Keys |-> IF k \in S THEN Found(k) ELSE Nil]]

\* A command that lists keys of the index remembers what the index has of them.
LEMMA ListedReady ==
  ASSUME Inv, NEW c, Ready(c), NEW S \in SUBSET DOMAIN map,
         NEW pc \in {"read", "lazy", "write", "flush"}
  PROVE  LET d == Listed(c, S, pc) IN Ready(d) /\ d.op = c.op /\ d.pc = pc
<1> DEFINE got == [k \in Keys |-> IF k \in S THEN Found(k) ELSE Nil]
<1>1. got \in [Keys -> EntryType]
  BY FoundKnown, NilType
<1>2. \A x \in Keys : Known(x, got[x].rev, got[x].val)
  BY FoundKnown, NilType, NilKnown
<1> HIDE DEF got
<1> DEFINE d == [c EXCEPT !.pc = pc, !.got = got]
<1>3. d \in CmdType /\ d.op = c.op /\ d.pc = pc /\ d.got = got
  BY Zenon, <1>1 DEF Ready, CmdType
<1> HIDE DEF d
<1>4. Ready(d)
  BY <1>2, <1>3 DEF Ready
<1> QED BY <1>3, <1>4 DEF d, got, Listed

\* flush_db lists the keys and waits for the flush.
LEMMA flush_dbKeeps ==
  ASSUME Inv, NEW t \in Tasks, NEW op, flush_db(t, op)
  PROVE  Inv'
<1> DEFINE S == {k \in Keys : Present(k, clock)}
<1> DEFINE d == Listed(Fresh(op), S, "flush")
<1>1. Begin(t, op) /\ op.name = "flushdb" /\ cached' = << >> /\ call' = call
  BY DEF flush_db
<1>2. cmd' = [cmd EXCEPT ![t] = d]
  BY Zenon DEF flush_db, Listed
<1>3. /\ Still /\ Active(t) = {} /\ Ready(Fresh(op)) /\ Fresh(op).op = op
  BY <1>1, BeginFacts
<1>4. S \in SUBSET DOMAIN map
  BY DEF Present
<1>5. Ready(d) /\ d.op = op /\ d.pc = "flush"
  <2> HIDE DEF S
  <2> QED BY <1>3, <1>4, ListedReady
<1> HIDE DEF d
<1>6. CachedSound
  BY <1>1 DEF CachedSound
<1>7. /\ cmd' \in [Tasks -> CmdType] /\ cmd'[t] = d
      /\ \A o \in Tasks : o # t => cmd'[o] = cmd[o]
  BY <1>2, <1>5 DEF Ready, Inv, Types
<1>8. \A x \in Keys : call'[<<t, x>>].pc = "idle" /\ call'[<<t, x>>] \in CallType
  BY <1>1, <1>3 DEF Active, Inv, Types
<1>9. \A x \in Keys : Fits(x, d, call'[<<t, x>>])
  BY <1>1, <1>5, <1>8 DEF Fits, Ready
<1>10. \A x \in Keys : Sound(x, [cmd |-> cmd'[t], call |-> call'[<<t, x>>]])
  BY <1>5, <1>7, <1>8, <1>9 DEF Sound, Goes, Ready
<1>11. call' \in [Tasks \X Keys -> CallType]
  BY <1>1 DEF Inv, Types
<1> QED BY <1>1, <1>3, <1>6, <1>7, <1>8, <1>10, <1>11, TaskKeeps DEF Sound

\* Tombstones of several keys at once: del and mget.
LEMMA TombstonesKeep ==
  ASSUME Inv, NEW t \in Tasks, NEW c, NEW d, NEW S, Still, CachedSound, Active(t) = {},
         d.now \in Int, Tombstones(t, d, S), cmd' = [cmd EXCEPT ![t] = c],
         c \in CmdType, \A x \in Keys : Known(x, c.got[x].rev, c.got[x].val),
         c.pc # "idle" => c.op.keys # << >> /\ c.op.name \in {"del", "mget"},
         c.pc \in {"read", "lazy"} => c.op.name = "mget",
         S \cap Keys # {} => c.pc \in {"write", "lazy"}
  PROVE  Inv'
<1>1. /\ cmd' \in [Tasks -> CmdType] /\ cmd'[t] = c
      /\ \A o \in Tasks : o # t => cmd'[o] = cmd[o]
  BY DEF Inv, Types
<1>2. \A x \in Keys : LET cl == DelCall(x, "Any", 0, d.now) IN
                      cl \in CallType /\ cl.pc = "called" /\ cl.kind = "del"
  <2>1. "Any" \in Conds /\ 0 \in Nat
    BY DEF Conds
  <2> QED BY <2>1, DelCallType
<1>3. \A o \in Tasks, x \in Keys :
        call'[<<o, x>>] = IF o = t /\ x \in S THEN DelCall(x, "Any", 0, d.now)
                          ELSE call[<<o, x>>]
  BY DEF Tombstones
<1>4. call' \in [Tasks \X Keys -> CallType]
  BY <1>2 DEF Tombstones, Inv, Types
<1>5. \A x \in Keys :
        /\ x \in S => call'[<<t, x>>].pc = "called" /\ call'[<<t, x>>].kind = "del"
        /\ x \notin S => call'[<<t, x>>].pc = "idle"
  BY <1>2, <1>3 DEF Active
<1>6. ASSUME NEW x \in Keys
      PROVE  Sound(x, [cmd |-> cmd'[t], call |-> call'[<<t, x>>]])
  <2>1. Fits(x, c, call'[<<t, x>>])
    BY <1>5 DEF Fits
  <2>2. call'[<<t, x>>] \in CallType
    BY <1>4
  <2> QED BY ZenonT(30), <1>1, <1>5, <2>1, <2>2 DEF Sound, Goes
<1>7. \A o \in Tasks, x \in Keys : o # t => call'[<<o, x>>] = call[<<o, x>>]
  BY <1>3
<1>8. \A x, y \in Keys :
        (/\ call'[<<t, x>>].pc # "idle" /\ call'[<<t, x>>].kind = "put"
         /\ call'[<<t, y>>].pc # "idle") => x = y
  BY <1>5
<1> QED BY ZenonT(30), <1>1, <1>4, <1>6, <1>7, <1>8, TaskKeeps DEF Sound

\* del calls one tombstone for each key it finds.
LEMMA delKeeps ==
  ASSUME Inv, NEW t \in Tasks, NEW op, del(t, op)
  PROVE  Inv'
<1> DEFINE c == Fresh(op)
<1> DEFINE S == {k \in Keys : Present(k, clock)}
<1> DEFINE d == Listed(c, S, "write")
<1>1. /\ Begin(t, op) /\ op.name = "del" /\ cached' = cached
      /\ cmd' = [cmd EXCEPT ![t] = d] /\ Tombstones(t, c, Range(op.keys))
  BY DEF del, Listed
<1>2. /\ Still /\ Active(t) = {} /\ op.keys # << >>
      /\ Ready(c) /\ c.op = op /\ c.now \in Int /\ CachedSound
  BY <1>1, BeginFacts, FewerCached DEF Ready, CmdType
<1>3. S \in SUBSET DOMAIN map
  BY DEF Present
<1>4. Ready(d) /\ d.op = op /\ d.pc = "write"
  <2> HIDE DEF S, c
  <2> QED BY <1>2, <1>3, ListedReady
<1> HIDE DEF c, S, d
<1>5. /\ d \in CmdType /\ \A x \in Keys : Known(x, d.got[x].rev, d.got[x].val)
      /\ d.op.keys # << >> /\ d.op.name = "del"
  BY <1>1, <1>2, <1>4 DEF Ready
<1> QED BY Zenon, <1>1, <1>2, <1>4, <1>5, TombstonesKeep

\* mget reads what is in L1 or the index, and calls the tombstones of what expired.
LEMMA mgetKeeps ==
  ASSUME Inv, NEW t \in Tasks, NEW op, mget(t, op)
  PROVE  Inv'
<1> DEFINE c == Fresh(op)
<1> DEFINE cold == {k \in Range(op.keys) : ~Hit(k, clock)}
<1> DEFINE S == {k \in cold : Present(k, clock)}
<1> DEFINE expired == {k \in cold \cap DOMAIN map : ~Present(k, clock)}
<1> DEFINE d(pc) == Listed(c, S, pc)
<1>1. /\ Begin(t, op) /\ op.name = "mget" /\ cached' = Without(cold)
      /\ Tombstones(t, c, expired)
      /\ cmd' = [cmd EXCEPT ![t] = CASE expired # {} -> d("lazy")
                                     [] expired = {} /\ S # {} -> d("read")
                                     [] OTHER -> IdleCmd]
  BY DEF mget, Listed
<1>2. /\ Still /\ Active(t) = {} /\ op.keys # << >> /\ op.keys[1] \in Keys
      /\ Ready(c) /\ c.op = op /\ c.now \in Int
  BY <1>1, BeginFacts DEF Ready, CmdType
<1>3. CachedSound
  BY <1>1, FewerCached
<1>4. S \in SUBSET DOMAIN map
  BY DEF Present
<1>5. ASSUME NEW pc \in {"lazy", "read"}
      PROVE  Ready(d(pc)) /\ d(pc).op = op /\ d(pc).pc = pc
  <2> HIDE DEF S, c
  <2> QED BY <1>2, <1>4, <1>5, ListedReady
<1> HIDE DEF c, S, expired, cold
<1>6. CASE expired # {}
  <2> DEFINE e == d("lazy")
  <2>1. Ready(e) /\ e.op = op /\ e.pc = "lazy"
    BY <1>5
  <2>2. cmd' = [cmd EXCEPT ![t] = e]
    BY Zenon, <1>1, <1>6
  <2> HIDE DEF d
  <2>3. /\ e \in CmdType /\ \A x \in Keys : Known(x, e.got[x].rev, e.got[x].val)
        /\ e.op.keys # << >> /\ e.op.name = "mget"
    BY <1>1, <1>2, <2>1 DEF Ready
  <2> HIDE DEF e
  <2> QED BY <1>1, <1>2, <1>3, <2>1, <2>2, <2>3, TombstonesKeep
<1>7. CASE expired = {} /\ S # {}
  <2> DEFINE e == d("read")
  <2>1. Ready(e) /\ e.op = op /\ e.pc = "read"
    BY <1>5
  <2>2. cmd' = [cmd EXCEPT ![t] = e]
    BY <1>1, <1>7
  <2> HIDE DEF d
  <2>3. /\ e \in CmdType /\ \A x \in Keys : Known(x, e.got[x].rev, e.got[x].val)
        /\ e.op.keys # << >> /\ e.op.name = "mget"
    BY <1>1, <1>2, <2>1 DEF Ready
  <2> HIDE DEF e
  <2> QED BY Zenon, <1>1, <1>2, <1>3, <1>7, <2>1, <2>2, <2>3, TombstonesKeep
<1>8. CASE expired = {} /\ S = {}
  <2>1. cmd' = [cmd EXCEPT ![t] = IdleCmd]
    BY <1>1, <1>8
  <2>2. Sound(op.keys[1], Stop)
    BY <1>2, StopSound
  <2>3. /\ IdleCmd \in CmdType /\ IdleCmd.pc = "idle"
        /\ \A x \in Keys : Known(x, IdleCmd.got[x].rev, IdleCmd.got[x].val)
    BY Zenon, <2>2 DEF Sound, Goes, Stop, IdleCmd
  <2> DEFINE e == IdleCmd
  <2> HIDE DEF e
  <2>4. /\ cmd' = [cmd EXCEPT ![t] = e] /\ e \in CmdType /\ e.pc = "idle"
        /\ \A x \in Keys : Known(x, e.got[x].rev, e.got[x].val)
    BY <2>1, <2>3 DEF e
  <2> QED BY Zenon, <1>1, <1>2, <1>3, <1>8, <2>4, TombstonesKeep
<1> QED BY <1>6, <1>7, <1>8

\* Every command keeps the invariant with its first step.
LEMMA BeginKeeps ==
  ASSUME Inv, NEW t \in Tasks, BeginSome(t)
  PROVE  Inv'
BY ReadFirstKeeps, PutsKeeps, msetKeeps, delrevKeeps, delKeeps, mgetKeeps, ttl_rawKeeps,
   flush_dbKeeps DEF BeginSome

-----------------------------------------------------------------------------
(* Values arrive, and steps that no command notices.                       *)

\* A task without calls has nothing left to do (ReadFails, FlushDone).
LEMMA IdleKeeps ==
  ASSUME Inv, NEW t \in Tasks, Still, cached' = cached, Active(t) = {}, call' = call,
         cmd' = [cmd EXCEPT ![t] = IdleCmd]
  PROVE  Inv'
<1>1. CachedSound
  BY FewerCached
<1>2. ASSUME NEW x \in Keys
      PROVE  IdleCmd \in CmdType /\ Sound(x, [cmd |-> IdleCmd, call |-> call[<<t, x>>]])
  <2>1. Sound(x, Stop)
    BY StopSound
  <2>2. call[<<t, x>>].pc = "idle" /\ call[<<t, x>>] \in CallType
    BY DEF Active, Inv, Types
  <2>3. IdleCmd \in CmdType /\ \A y \in Keys : Known(y, IdleCmd.got[y].rev, IdleCmd.got[y].val)
    BY <2>1 DEF Sound, Goes, Stop
  <2>4. Fits(x, IdleCmd, call[<<t, x>>])
    BY <2>2 DEF Fits, IdleCmd
  <2> DEFINE e == IdleCmd
  <2> HIDE DEF e
  <2>5. Sound(x, [cmd |-> e, call |-> call[<<t, x>>]])
    BY <2>2, <2>3, <2>4 DEF Sound, Goes, e
  <2> QED BY <2>3, <2>5 DEF e
<1>3. IdleCmd \in CmdType
  BY Zenon, <1>2, KeysAssumption
<1>4. /\ cmd' \in [Tasks -> CmdType] /\ cmd'[t] = IdleCmd
      /\ \A o \in Tasks : o # t => cmd'[o] = cmd[o]
  BY <1>3 DEF Inv, Types
<1>5. call' \in [Tasks \X Keys -> CallType] /\ \A x \in Keys : call'[<<t, x>>].pc = "idle"
  BY DEF Inv, Types, Active
<1> QED BY <1>1, <1>2, <1>4, <1>5, TaskKeeps DEF Sound

\* The value arrives: it is cached and the command goes on with it.
LEMMA ReadDoneKeeps ==
  ASSUME Inv, NEW t \in Tasks, ReadDone(t)
  PROVE  Inv'
<1> DEFINE c == cmd[t]
<1> DEFINE k == c.op.keys[1]
<1>1. Still
  BY DEF ReadDone, Still, Inv, Types
<1>2. c \in CmdType /\ \A x \in Keys : Known(x, c.got[x].rev, c.got[x].val)
  BY DEF Inv, Types, Remembered
<1>3. ASSUME NEW x \in Keys
      PROVE  /\ c.op.keys # << >> /\ c.op.name \in ReadNames \cup {"mget"}
             /\ call[<<t, x>>].pc = "idle"
  BY DEF ReadDone, Inv, Fitting, Fits
<1>4. Ready(c) /\ c.op.name \in ReadNames \cup {"mget"} /\ Active(t) = {}
  BY Zenon, <1>2, <1>3, KeysAssumption DEF Ready, Active
<1>5. k \in Keys
  BY <1>4, FirstKey DEF Ready
<1>6. CachedSound
  <2>1. \A x \in DOMAIN cached' :
          \/ x \in DOMAIN cached /\ cached'[x] = cached[x]
          \/ x \in Keys /\ cached'[x] = c.got[x]
    <3> DEFINE S == Filled(t)
    <3> DEFINE f == [x \in DOMAIN cached \cup S |-> IF x \in S THEN cmd[t].got[x] ELSE cached[x]]
    <3>1. L1!Keep(f)
      BY Zenon DEF ReadDone, Fill
    <3>2. S \subseteq Keys
      BY DEF Filled
    <3>3. \A x \in DOMAIN cached' : x \in DOMAIN f /\ cached'[x] = f[x]
      <4> HIDE DEF f
      <4> QED BY <3>1, KeepFacts
    <3>4. /\ \A x \in DOMAIN f : x \in DOMAIN cached \cup S
          /\ \A x \in S : f[x] = cmd[t].got[x]
          /\ \A x \in DOMAIN cached \ S : f[x] = cached[x]
      BY Zenon
    <3> HIDE DEF f, S
    <3> QED BY <3>2, <3>3, <3>4
  <2>2. \A x \in Keys : c.got[x] \in EntryType
    BY <1>2 DEF CmdType
  <2> HIDE DEF c
  <2> QED BY <2>1, <2>2, <1>2 DEF CachedSound, Inv, Types, Remembered
<1>7. CASE c.op.name = "mget"
  BY <1>1, <1>4, <1>5, <1>6, <1>7, StopSound, StepKeeps DEF ReadDone
<1>8. CASE c.op.name # "mget"
  BY <1>1, <1>4, <1>5, <1>6, <1>8, ProceedSound, StepKeeps DEF ReadDone
<1> QED BY <1>7, <1>8

\* The read of a value fails, and the command with it.
LEMMA ReadFailsKeeps ==
  ASSUME Inv, NEW t \in Tasks, ReadFails(t)
  PROVE  Inv'
<1>1. Still
  BY DEF ReadFails, Still, Inv, Types, ScenarioType
<1>2. Active(t) = {}
  BY DEF ReadFails, Active, Inv, Fitting, Fits
<1> QED BY Zenon, <1>1, <1>2, IdleKeeps DEF ReadFails

\* flush_db resumes, empties L1 and notifies.
LEMMA FlushDoneKeeps ==
  ASSUME Inv, NEW t \in Tasks, FlushDone(t)
  PROVE  Inv'
<1>1. Still
  BY DEF FlushDone, Kv!ClearReturns, Still, Inv, Types
<1>2. Active(t) = {}
  BY DEF FlushDone, Active, Inv, Fitting, Fits
<1> QED BY ZenonT(30), <1>1, <1>2, IdleKeeps DEF FlushDone, Kv!ClearReturns

\* Steps beside the commands: watchers, evictions, reclaims, time.
LEMMA BesideKeeps ==
  ASSUME Inv, Still, CachedSound, UNCHANGED <<cmd, call>>
  PROVE  Inv'
<1>1. \A x \in DOMAIN cached' :
        x \in Keys /\ cached'[x] \in EntryType /\ Known(x, cached'[x].rev, cached'[x].val)
  BY DEF CachedSound, Still, Known
<1>2. Types'
  BY <1>1 DEF Inv, Types, Still
<1>3. Remembered'
  BY Zenon, <1>1 DEF Inv, Remembered, Still, Known, IncrWrites
<1>4. Alone' /\ Exclusive' /\ Fitting'
  BY DEF Inv, Alone, Exclusive, Fitting
<1> QED BY <1>2, <1>3, <1>4 DEF Inv

\* Watchers, evictions, timers and the clock leave index and calls alone.
LEMMA QuietKeeps ==
  ASSUME Inv, Watching \/ Evict \/ Reclaim \/ Tick
  PROVE  Inv'
<1>1. UNCHANGED <<map, ttl, call, cmd, last>>
  BY Zenon DEF Watching, watch_subscribe, watch_scanned, watch_receive, watch_close, Evict, Reclaim,
         Tick
<1>2. Still
  <2>1. left \in ScenarioType /\ clock \in Int /\ clock + 1 \in Int
    BY DEF Inv, Types
  <2>2. /\ [left EXCEPT !.watches = @ - 1] \in ScenarioType
        /\ [left EXCEPT !.reclaims = @ - 1] \in ScenarioType
        /\ [left EXCEPT !.ticks = @ - 1] \in ScenarioType
    BY <2>1 DEF ScenarioType
  <2>3. left' \in ScenarioType /\ clock' \in Int
    BY Zenon, <2>1, <2>2 DEF Watching, watch_subscribe, watch_scanned, watch_receive, watch_close,
                      Evict, Reclaim, Tick
  <2> QED BY <1>1, <2>3 DEF Still, Inv, Types
<1>3. CachedSound
  <2>1. CASE Evict
    <3>1. \A x \in DOMAIN cached' : x \in DOMAIN cached /\ cached'[x] = cached[x]
      BY <2>1, KeepFacts DEF Evict, L1!Forget
    <3> QED BY <3>1 DEF CachedSound, Inv, Types, Remembered
  <2>2. CASE ~Evict
    <3>1. cached' = cached
      BY ZenonT(30), <2>2 DEF Watching, watch_subscribe, watch_scanned, watch_receive, watch_close,
                  Reclaim, Tick
    <3> QED BY <3>1, FewerCached
  <2> QED BY <2>1, <2>2
<1> QED BY <1>1, <1>2, <1>3, BesideKeeps

-----------------------------------------------------------------------------
(* Calls return.                                                           *)

\* One of several tombstones returns; the others go on (CallReturns).
LEMMA OneReturns ==
  ASSUME Inv, NEW t \in Tasks, NEW k \in Keys, NEW c, Still, cached' = cached, Ready(c),
         c.op = cmd[t].op, c.pc = cmd[t].pc,
         call[<<t, k>>].pc # "idle", Active(t) # {k},
         Step(t, k, [cmd |-> c, call |-> Kv!NoCall])
  PROVE  Inv'
<1>1. CachedSound
  BY Zenon, FewerCached
<1>2. Kv!NoCall \in CallType /\ Kv!NoCall.pc = "idle"
  BY DEF Kv!NoCall, CallType, Conds
<1>3. /\ cmd' \in [Tasks -> CmdType] /\ cmd'[t] = c
      /\ \A o \in Tasks : o # t => cmd'[o] = cmd[o]
  BY DEF Step, Ready, Inv, Types
<1>4. /\ call' \in [Tasks \X Keys -> CallType] /\ call'[<<t, k>>] = Kv!NoCall
      /\ \A o \in Tasks, x \in Keys : <<o, x>> # <<t, k>> => call'[<<o, x>>] = call[<<o, x>>]
  BY Zenon, <1>2 DEF Step, Inv, Types
<1>5. PICK y \in Keys : y # k /\ call[<<t, y>>].pc # "idle"
  BY DEF Active
<1>6. ASSUME NEW x \in Keys, call[<<t, x>>].pc # "idle"
      PROVE  call[<<t, x>>].kind # "put"
  BY <1>5, <1>6 DEF Inv, Alone
<1>7. ASSUME NEW x \in Keys
      PROVE  Goes(x, [cmd |-> cmd'[t], call |-> call'[<<t, x>>]])
  <2>1. CASE x = k
    <3>1. Fits(x, cmd[t], call[<<t, x>>])
      BY Zenon DEF Inv, Fitting
    <3>2. Fits(x, c, Kv!NoCall)
      BY <1>2, <3>1 DEF Fits
    <3> QED BY Zenon, <1>2, <1>3, <1>4, <2>1, <3>2 DEF Goes, Ready
  <2>2. CASE x # k
    <3>1. call'[<<t, x>>] = call[<<t, x>>]
      BY <1>4, <2>2
    <3>2. Fits(x, cmd[t], call[<<t, x>>])
      BY Zenon DEF Inv, Fitting
    <3>3. Fits(x, c, call[<<t, x>>])
      BY Zenon, <3>2 DEF Fits
    <3>4. call[<<t, x>>].pc # "idle" /\ c.op.name = "incr"
          => call[<<t, x>>].kind = "del" \/ IncrWrites(x, call[<<t, x>>])
      BY ZenonT(30) DEF Inv, Remembered
    <3>5. call[<<t, x>>] \in CallType
      BY Zenon DEF Inv, Types
    <3>6. c \in CmdType /\ \A z \in Keys : Known(z, c.got[z].rev, c.got[z].val)
      BY ZenonT(30) DEF Ready
    <3> QED BY Zenon, <1>3, <3>1, <3>3, <3>4, <3>5, <3>6 DEF Goes
  <2> QED BY <2>1, <2>2
<1>8. \A x \in Keys : \/ call'[<<t, x>>].pc \in {"idle", "called"}
                      \/ /\ call'[<<t, x>>] = call[<<t, x>>]
                         /\ call'[<<t, x>>].kind # "put"
  BY Zenon, <1>2, <1>4, <1>6
<1>9. \A x, z \in Keys :
        (/\ call'[<<t, x>>].pc # "idle" /\ call'[<<t, x>>].kind = "put"
         /\ call'[<<t, z>>].pc # "idle") => x = z
  BY <1>2, <1>4, <1>6
<1>10. \A o \in Tasks, x \in Keys : o # t => call'[<<o, x>>] = call[<<o, x>>]
  BY <1>4
<1> QED BY Zenon, <1>1, <1>3, <1>4, <1>7, <1>8, <1>9, <1>10, TaskKeeps

\* The revisions a put draws are natural numbers.
LEMMA CountsAreNat == \A l \in Nat : \A r \in 1..l : r \in Nat
  OBVIOUS

\* The entry a write leaves in L1 (CacheEntry) has the value of its revision.
EntryIs(e, r, v, d) == e = [rev |-> r, val |-> v, dl |-> d]
EntryKnown(x, e) == e \in EntryType /\ Known(x, e.rev, e.val)
LEMMA EntryOf ==
  ASSUME NEW x, NEW r \in Nat, NEW v \in Int, NEW d \in Int, NEW e, EntryIs(e, r, v, d),
         Known(x, r, v)
  PROVE  EntryKnown(x, e)
<1>1. e \in EntryType /\ e.rev = r /\ e.val = v
  BY DEF EntryType, EntryIs
<1> QED BY Zenon, <1>1 DEF EntryKnown

\* A task that has nothing to do has no outcome: zero for every key.
LEMMA IdleOut == IdleCmd.out \in [Keys -> Int]
  BY DEF IdleCmd

\* An INCR counts its attempts.
LEMMA TriesCount == \A c \in CmdType : c.tries + 1 \in Int
  BY DEF CmdType

\* What L1 keeps of a command's write is known: the write is done, its revisions and
\* values are the ones in the index or older (Written).
LEMMA WrittenSound ==
  ASSUME Inv, NEW t \in Tasks, NEW k \in Keys, NEW c, c.op = cmd[t].op,
         Ready(c), \A x \in Keys : x # k => c.out[x] = cmd[t].out[x],
         \/ call[<<t, k>>].pc = "done" /\ c.out[k] = cmd[t].out[k]
         \/ c.out[k] \in {0, Failed},
         call[<<t, k>>].pc # "idle", c.out[k] # 0 \/ c.op.name = "getdel",
         ~ \E x \in Range(c.op.keys) : c.out[x] = Failed,
         Written(t, k, c)
  PROVE  CachedSound
<1> DEFINE cl == call[<<t, k>>]
<1> DEFINE S == Kv!KeysOf(cl)
<1>1. CASE \E T : cached' = Without(T)
  BY <1>1, FewerCached
<1>2. CASE /\ cl.kind = "put"
           /\ L1!Keep([x \in DOMAIN cached \cup S |->
                IF x \in S THEN [rev |-> c.out[x], val |-> Kv!Winner(cl, x), dl |-> cl.ttl]
                ELSE cached[x]])
  <2>1. cl \in CallType /\ cl.ttl \in Int /\ S \subseteq Keys
    <3>1. cl \in CallType
      BY DEF Inv, Types
    <3> QED BY <3>1, KeysOfType DEF CallType
  <2>2. Fits(k, cmd[t], cl)
    BY DEF Inv, Fitting
  <2>3. k \in Range(c.op.keys) /\ c.op.name # "getdel"
    <3>1. k = c.op.keys[1] /\ c.op.name \in {"set", "mset", "getset", "incr"}
      BY ZenonT(30), <1>2, <2>2 DEF Fits
    <3> QED BY Zenon, <3>1, FirstKey DEF Range, Ready
  <2>4. cl.pc = "done" /\ \A x \in S : c.out[x] = cmd[t].out[x]
    BY <2>1, <2>3
  <2>5. \A x \in S : /\ c.out[x] \in Nat /\ Known(x, c.out[x], Kv!Winner(cl, x))
                     /\ Kv!Winner(cl, x) \in Int
    <3>1. Stamps(map, last, cmd, call, t, cl) /\ last \in Nat
      BY Zenon DEF Inv, Remembered, Types
    <3> HIDE DEF cl, S
    <3>2. \A x \in S : /\ cmd[t].out[x] \in 1..last
                       /\ Known(x, cmd[t].out[x], Kv!Winner(cl, x))
      BY ZenonT(30), <1>2, <2>4, <3>1 DEF Stamps, Known, S
    <3>3. \A x \in S : Kv!Winner(cl, x) \in Int
      BY Zenon, <2>1, WinnerType DEF S
    <3> QED BY ZenonT(30), <2>4, <3>1, <3>2, <3>3, CountsAreNat
  <2> HIDE DEF cl, S
  <2>6. \A x \in DOMAIN cached' :
          \/ x \in S /\ cached'[x] = [rev |-> c.out[x], val |-> Kv!Winner(cl, x), dl |-> cl.ttl]
          \/ x \in DOMAIN cached /\ cached'[x] = cached[x]
    <3> DEFINE f == [x \in DOMAIN cached \cup S |->
                       IF x \in S THEN [rev |-> c.out[x], val |-> Kv!Winner(cl, x), dl |-> cl.ttl]
                       ELSE cached[x]]
    <3>1. L1!Keep(f)
      BY Zenon, <1>2
    <3>2. \A x \in DOMAIN f : IF x \in S
            THEN f[x] = [rev |-> c.out[x], val |-> Kv!Winner(cl, x), dl |-> cl.ttl]
            ELSE x \in DOMAIN cached /\ f[x] = cached[x]
      BY Zenon
    <3> HIDE DEF f
    <3>3. \A x \in DOMAIN cached' : x \in DOMAIN f /\ cached'[x] = f[x]
      BY ZenonT(30), <3>1, KeepFacts
    <3> QED BY Zenon, <3>2, <3>3
  <2>7. ASSUME NEW x \in DOMAIN cached'
        PROVE  x \in Keys /\ EntryKnown(x, cached'[x])
    <3>1. CASE x \in S /\ cached'[x] = [rev |-> c.out[x], val |-> Kv!Winner(cl, x), dl |-> cl.ttl]
      <4> DEFINE r == c.out[x]
                 v == Kv!Winner(cl, x)
                 d == cl.ttl
      <4>1. r \in Nat /\ v \in Int /\ d \in Int /\ x \in Keys /\ Known(x, r, v)
        BY Zenon, <2>1, <2>5, <3>1
      <4> DEFINE e == cached'[x]
      <4>2. EntryIs(e, r, v, d)
        BY Zenon, <3>1 DEF EntryIs
      <4> HIDE DEF r, v, d, e
      <4>3. EntryKnown(x, e)
        BY Zenon, <4>1, <4>2, EntryOf
      <4> QED BY Zenon, <4>1, <4>3 DEF e
    <3>2. CASE x \in DOMAIN cached /\ cached'[x] = cached[x]
      BY Zenon, <3>2 DEF Inv, Types, Remembered, EntryKnown
    <3> QED BY Zenon, <2>6, <3>1, <3>2
  <2> QED BY Zenon, <2>7 DEF CachedSound, EntryKnown
<1> QED BY ZenonT(30), <1>1, <1>2 DEF Written

\* A command whose last call has returned goes on soundly (Resume).
LEMMA ResumeKeeps ==
  ASSUME Inv, NEW t \in Tasks, NEW k \in Keys, NEW c, Still, Ready(c),
         c.op = cmd[t].op, c.pc = cmd[t].pc,
         \A x \in Keys : x # k => c.out[x] = cmd[t].out[x],
         \/ call[<<t, k>>].pc = "done" /\ c.out[k] = cmd[t].out[k]
         \/ c.out[k] \in {0, Failed},
         call[<<t, k>>].pc # "idle", Active(t) = {k}, Resume(t, k, c)
  PROVE  Inv'
<1> DEFINE op == c.op
<1> DEFINE failed == \E x \in Range(op.keys) : c.out[x] = Failed
<1> DEFINE next == [c EXCEPT !.out = IdleCmd.out]
<1>1. Sound(k, Stop)
  BY StopSound
<1>2. ASSUME CachedSound, Step(t, k, Stop) PROVE Inv'
  BY <1>1, <1>2, StepKeeps
<1>3. /\ op.name \notin {"del", "mget"} => k = op.keys[1]
      /\ c.pc = "lazy" => op.name \in ReadNames \cup {"mget", "ttl"}
  <2>1. Fits(k, cmd[t], call[<<t, k>>])
    BY Zenon DEF Inv, Fitting
  <2> QED BY Zenon, <2>1 DEF Fits
<1>4. Ready(next) /\ next.op = op /\ next.got = c.got
  <2>1. IdleCmd.out \in [Keys -> Int]
    BY Zenon, IdleOut
  <2> DEFINE o == IdleCmd.out
  <2> HIDE DEF o
  <2> DEFINE n == [c EXCEPT !.out = o]
  <2>2. n \in CmdType /\ n.op = c.op /\ n.got = c.got
    BY ZenonT(30), <2>1 DEF Ready, CmdType, o
  <2> HIDE DEF n
  <2>3. Ready(n)
    BY <2>2 DEF Ready
  <2> QED BY <2>2, <2>3 DEF n, o
<1>5. CASE Deleted(c) /\ Step(t, k, Stop)
  <2>1. CachedSound
    BY ZenonT(30), <1>5, FewerCached DEF Deleted
  <2> QED BY <1>2, <1>5, <2>1
<1>6. CASE Step(t, k, Stop) /\ cached' = cached
  <2>1. CachedSound
    BY <1>6, FewerCached
  <2> QED BY <1>2, <1>6, <2>1
<1>7. CASE /\ c.pc = "lazy" /\ op.name # "del"
           /\ cached' = cached \/ cached' = Without({k})
           /\ Step(t, k, CASE op.name = "ttl" -> Stop
                           [] op.name = "mget" -> IF c.got = Nothing THEN Stop ELSE Reading(next)
                           [] OTHER -> Proceed(next))
  <2>1. CachedSound
    BY <1>7, FewerCached
  <2> DEFINE n == next
  <2>2. Ready(n) /\ n.op = op
    BY <1>4
  <2> HIDE DEF n
  <2>3. CASE op.name = "ttl"
    BY <1>2, <1>7, <2>1, <2>3
  <2>4. CASE op.name = "mget"
    <3>1. Sound(k, Reading(n))
      BY <2>2, <2>4, ReadingSound
    <3>2. Step(t, k, Stop) \/ Step(t, k, Reading(n))
      BY <1>7, <2>4 DEF n
    <3> QED BY <1>2, <2>1, <3>1, <3>2, StepKeeps
  <2>5. CASE op.name \notin {"ttl", "mget"}
    <3>1. op.name \in ReadNames /\ k = op.keys[1]
      BY <1>3, <1>7, <2>5
    <3>2. Sound(k, Proceed(n))
      BY Zenon, <2>2, <3>1, ProceedSound
    <3>3. Step(t, k, Proceed(n))
      BY <1>7, <2>5 DEF n
    <3> QED BY <2>1, <3>2, <3>3, StepKeeps
  <2> QED BY <2>3, <2>4, <2>5
<1>8. CASE /\ ~failed
           /\ c.out[k] # 0 \/ op.name = "getdel"
           /\ Written(t, k, c) /\ Step(t, k, Stop)
  <2>1. CachedSound
    BY Zenon, <1>8, WrittenSound
  <2> QED BY <1>2, <1>8, <2>1
<1>9. CASE /\ op.name = "incr"
           /\ Inspect(t, [next EXCEPT !.tries = @ + 1, !.now = clock, !.got = Nothing])
  <2> DEFINE n == next
  <2>1. Ready(n) /\ n.op = op
    BY <1>4
  <2>2. Inspect(t, [n EXCEPT !.tries = @ + 1, !.now = clock, !.got = Nothing])
    BY <1>9
  <2> HIDE DEF n
  <2> DEFINE m == [n EXCEPT !.tries = @ + 1, !.now = clock, !.got = Nothing]
  <2>3. Nothing \in [Keys -> EntryType] /\ clock \in Int
        /\ \A x \in Keys : Known(x, Nothing[x].rev, Nothing[x].val)
    BY Zenon, NilType, NilKnown DEF Nothing, Inv, Types
  <2>4. m \in CmdType /\ m.op = n.op /\ m.got = Nothing
    <3> DEFINE g == Nothing
    <3> HIDE DEF g
    <3>1. n \in CmdType /\ g \in [Keys -> EntryType] /\ clock \in Int
      BY Zenon, <2>1, <2>3 DEF Ready, g
    <3>2. n.tries + 1 \in Int
      BY Zenon, <3>1, TriesCount
    <3> DEFINE e == [n EXCEPT !.tries = n.tries + 1, !.now = clock, !.got = g]
    <3>3. e \in CmdType /\ e.op = n.op /\ e.got = g
      BY Zenon, <3>1, <3>2 DEF CmdType
    <3> QED BY <3>3 DEF g
  <2>5. Inspect(t, m)
    BY <2>2
  <2> HIDE DEF m
  <2>6. Ready(m)
    BY <2>1, <2>3, <2>4 DEF Ready
  <2>7. m.op.name \in ReadNames /\ k = m.op.keys[1]
    BY <1>3, <1>9, <2>1, <2>4 DEF ReadNames
  <2> QED BY Zenon, <2>5, <2>6, <2>7, InspectKeeps
<1> QED BY <1>5, <1>6, <1>7, <1>8, <1>9 DEF Resume

\* A call returns, and the command that waited for it resumes.
LEMMA CallReturnsKeeps ==
  ASSUME Inv, NEW t \in Tasks, NEW k \in Keys, NEW r \in Int, CallReturns(t, k, r),
         call[<<t, k>>].pc # "idle",
         \/ call[<<t, k>>].pc = "done" /\ r = cmd[t].out[k]
         \/ r \in {0, Failed},
         left' \in ScenarioType, \A x \in DOMAIN ttl' : ttl'[x] \in Int
  PROVE  Inv'
<1> DEFINE c == [cmd[t] EXCEPT !.out[k] = r]
<1>1. Still
  BY DEF CallReturns, Still, Inv, Types
<1>2. /\ c \in CmdType /\ c.op = cmd[t].op /\ c.pc = cmd[t].pc /\ c.got = cmd[t].got
      /\ c.out[k] = r /\ \A x \in Keys : x # k => c.out[x] = cmd[t].out[x]
  <2>1. cmd[t] \in CmdType
    BY DEF Inv, Types
  <2> QED BY <2>1 DEF CmdType
<1>3. \/ Active(t) = {k} /\ Resume(t, k, c)
      \/ /\ Active(t) # {k} /\ cached' = cached
         /\ Step(t, k, [cmd |-> c, call |-> Kv!NoCall])
  BY DEF CallReturns
<1> HIDE DEF c
<1>4. Ready(c)
  <2>1. Fits(k, cmd[t], call[<<t, k>>])
    BY Zenon DEF Inv, Fitting
  <2>2. c.op.keys # << >>
    BY <1>2, <2>1 DEF Fits
  <2>3. \A x \in Keys : Known(x, cmd[t].got[x].rev, cmd[t].got[x].val)
    BY Zenon DEF Inv, Remembered
  <2> QED BY Zenon, <1>2, <2>2, <2>3 DEF Ready
<1> QED BY Zenon, <1>1, <1>2, <1>3, <1>4, OneReturns, ResumeKeeps

\* A call fails, and the command with it.
LEMMA CallEndsKeeps ==
  ASSUME Inv, NEW t \in Tasks, NEW k \in Keys,
         CallDone(t, k) \/ CallRefused(t, k) \/ CallFails(t, k)
  PROVE  Inv'
<1>1. left \in ScenarioType /\ \A x \in DOMAIN ttl : ttl[x] \in Int
  BY DEF Inv, Types
<1>2. CASE CallDone(t, k)
  <2>1. cmd[t].out[k] \in Int
    BY DEF Inv, Types, CmdType
  <2> QED BY <1>1, <1>2, <2>1, CallReturnsKeeps DEF CallDone
<1>3. CASE CallRefused(t, k)
  <2>1. \A x \in DOMAIN ttl' : ttl'[x] \in Int
    BY <1>1, <1>3 DEF CallRefused, Kv!WithDeadline, Kv!NoDeadline, None
  <2>2. CallReturns(t, k, 0) /\ call[<<t, k>>].pc # "idle" /\ left' = left
    BY <1>3 DEF CallRefused, Refused
  <2> QED BY <1>1, <2>1, <2>2, CallReturnsKeeps
<1>4. CASE CallFails(t, k)
  <2>1. left' \in ScenarioType
    <3>1. [left EXCEPT !.faults = @ - 1] \in ScenarioType
      BY <1>1 DEF ScenarioType
    <3> QED BY <1>4, <3>1 DEF CallFails
  <2>2. /\ CallReturns(t, k, Failed) /\ call[<<t, k>>].pc # "idle" /\ ttl' = ttl
        /\ Failed \in Int
    BY <1>4 DEF CallFails, Failed
  <2> QED BY <1>1, <2>1, <2>2, CallReturnsKeeps
<1> QED BY <1>2, <1>3, <1>4
==============================================================================
