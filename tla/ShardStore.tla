----------------------------- MODULE ShardStore -----------------------------
(***************************************************************************)
(* The commands of one shard (ShardStore) on one namespace: what each of   *)
(* them does to the index, to the L1 cache and to the watchers.            *)
(*                                                                         *)
(* A shard runs its commands as tasks of one thread: a step below is what  *)
(* happens between two awaits.  A command waits for a value (read), for    *)
(* the tombstone of an expired key it met (lazy), for its own write        *)
(* (write) or for a flush (flush).  The namespace is KvNamespace, the      *)
(* cache LossyCache; one client watches.                                   *)
(***************************************************************************)
EXTENDS Integers, Sequences, FiniteSets, Functions

CONSTANTS
  Keys,        \* small naturals, so that sets of keys have an order
  Tasks,       \* commands that run at the same time
  Scenarios,   \* what a behaviour may contain: see left
  IncrTries,   \* attempts of INCR (64 in the code)
  MaxVal,      \* the largest counter value (i64::MAX in the code)
  ChannelCap   \* events a watcher may be behind (512 in the code)

VARIABLES
  map, ttl, call, clearing,   \* the namespace
  cached,      \* the L1 cache: revision, value and deadline by key
  cmd,         \* the command each task runs
  last,        \* the last revision given out
  clock,       \* now_ms
  log,         \* the records a catch-up scan would find
  watch,       \* the watching client and its subscription
  late,        \* history: keys cached after a read or a failure that came too late
  left         \* what the scenario still allows

ns == <<map, ttl, call, clearing>>
vars == <<map, ttl, call, clearing, cached, cmd, last, clock, log, watch, late, left>>

Kv == INSTANCE KvNamespace WITH Callers <- Tasks \X Keys, life <- 0
L1 == INSTANCE LossyCache WITH Contents <- {}

None == 0
Failed == -1
Nil == [rev |-> 0, val |-> 0, dl |-> None]
Nothing == [k \in Keys |-> Nil]
NoOp == [name |-> "none", keys |-> << >>, val |-> 0, ttl |-> None, keep |-> FALSE,
         cond |-> "Any", rev |-> 0]
IdleCmd == [pc |-> "idle", op |-> NoOp, now |-> 0, got |-> Nothing,
            out |-> [k \in Keys |-> 0], tries |-> 0]

Conds == {"Any", "KeyAbsent", "KeyPresent", "Revision"}
Names == {"none", "get", "getex", "getset", "getdel", "incr", "expire", "persist", "set",
          "mset", "delrev", "del", "mget", "ttl", "flushdb"}
OpType == [name : Names, keys : Seq(Keys), val : Int, ttl : Int, keep : BOOLEAN,
           cond : Conds, rev : Int]
ScenarioType ==
  [ops : SUBSET {op \in OpType : op.keys # << >>}, n : Int, ticks : Int, faults : Int,
   watches : Int, filters : SUBSET SUBSET Keys, reclaims : Int]

ASSUME KeysAssumption == Keys # {}
\* Scenarios are made of commands on keys of the shard.
ASSUME ScenariosAssumption == Scenarios \subseteq ScenarioType

-----------------------------------------------------------------------------
(* The index and the cache as a command sees them.                         *)

Deadline(k) == IF k \in DOMAIN ttl THEN ttl[k] ELSE None
Found(k) == [rev |-> map[k].rev, val |-> map[k].val, dl |-> Deadline(k)]
Present(k, now) == k \in DOMAIN map /\ ~Kv!Expired(k, now)

Hit(k, now) == k \in DOMAIN cached /\ (cached[k].dl = None \/ cached[k].dl > now)
\* Mutation: the lookup misses the composite key, and remove removes nothing.
WithoutFinding(S) == cached
\* cache.remove.
Without(S) == Restrict(cached, DOMAIN cached \ S)

\* The keys of S whose cached contents are not what the index says.
Behind(S) ==
  {k \in S \cap DOMAIN cached : k \notin DOMAIN map \/ cached[k] # Found(k)}

-----------------------------------------------------------------------------
(* Watchers.  A subscription whose channel is full is dropped.             *)

SetEvent(k, r, v) == [key |-> k, rev |-> r, set |-> TRUE, val |-> v]
DelEvent(k, r) == [key |-> k, rev |-> r, set |-> FALSE, val |-> 0]

\* Mutation: registration after the scan.
SubscribedAfterScan == watch.pc = "on"
Subscribed == watch.pc \in {"scan", "on"}

\* The registry offers evs, in order, to the channel of the subscription.
notify(evs) ==
  LET mine == SelectSeq(evs, LAMBDA e : e.key \in watch.keys)
      room == ChannelCap - Len(watch.chan)
  IN
  watch' = CASE ~Subscribed -> watch
             [] Subscribed /\ Len(mine) <= room -> [watch EXCEPT !.chan = @ \o mine]
             [] OTHER -> [watch EXCEPT !.chan = @ \o SubSeq(mine, 1, room),
                                       !.pc = "cut"]

\* The client keeps the newest event of each key; since is the newest of all.
Apply(seen, E) ==
  [k \in Keys |->
     LET mine == {e \in E : e.key = k} \cup {seen[k]} IN
     CHOOSE e \in mine : \A o \in mine : o.rev <= e.rev]
Newest(seen) == CHOOSE r \in {seen[k].rev : k \in Keys} : \A k \in Keys : seen[k].rev <= r

\* watch_subscribe: register first; the entries of a first subscription are picked
\* from the index in the same step, their values are read while events queue up.
watch_subscribe(S) ==
  /\ watch.pc = "off" /\ left.watches > 0
  /\ left' = [left EXCEPT !.watches = @ - 1]
  /\ LET since == Newest(watch.seen)
         now == {k \in S : Present(k, clock)}
     IN
     watch' = [watch EXCEPT
       !.pc = "scan", !.keys = S, !.since = since,
       !.initial = IF since = 0 THEN {SetEvent(k, map[k].rev, map[k].val) : k \in now}
                   ELSE {}]
  /\ UNCHANGED <<map, ttl, call, clearing, cached, cmd, last, clock, log, late>>

\* The scan ends: current_entries has read its values, or scan_since the log files.
watch_scanned ==
  /\ watch.pc = "scan"
  /\ LET E == IF watch.since = 0 THEN watch.initial
              ELSE {e \in log : e.key \in watch.keys /\ e.rev > watch.since}
     IN
     watch' = [watch EXCEPT !.pc = "on", !.initial = {}, !.seen = Apply(@, E)]
  /\ UNCHANGED <<map, ttl, call, clearing, cached, cmd, last, clock, log, late, left>>

watch_receive ==
  /\ watch.pc \in {"on", "cut"} /\ watch.chan # << >>
  /\ watch' = [watch EXCEPT !.chan = Tail(@), !.seen = Apply(@, {Head(watch.chan)})]
  /\ UNCHANGED <<map, ttl, call, clearing, cached, cmd, last, clock, log, late, left>>

\* The connection breaks, or the stream ends because the sender was dropped.
watch_close ==
  /\ watch.pc \in {"scan", "on"} \/ (watch.pc = "cut" /\ watch.chan = << >>)
  /\ left.watches > 0
  /\ watch' = [watch EXCEPT !.pc = "off", !.chan = << >>, !.initial = {}]
  /\ UNCHANGED <<map, ttl, call, clearing, cached, cmd, last, clock, log, late, left>>

-----------------------------------------------------------------------------
(* The calls a command makes on its namespace.                             *)

PutCall(pairs, cond, rev, now, dl) ==
  [pc |-> "called", kind |-> "put", pairs |-> pairs, cond |-> cond, rev |-> rev,
   now |-> now, ttl |-> dl]
Pair(k, v) == [key |-> k, val |-> v]
DelCall(k, cond, rev, now) ==
  [PutCall(<<Pair(k, 0)>>, cond, rev, now, None) EXCEPT !.kind = "del"]
TtlCall(k, dl) == [PutCall(<<Pair(k, 0)>>, "Any", 0, 0, dl) EXCEPT !.kind = "ttl"]

\* validate_ttl: the deadline of a time to live given at now.
DeadlineAt(op, now) == IF op.ttl = None THEN None ELSE now + op.ttl

\* Where a task goes next: its command, and its call on the first key.
Stop == [cmd |-> IdleCmd, call |-> Kv!NoCall]
Reading(c) == [cmd |-> [c EXCEPT !.pc = "read"], call |-> Kv!NoCall]
Writing(c, cl) == [cmd |-> [c EXCEPT !.pc = "write"], call |-> cl]
Step(t, k, s) == /\ cmd' = [cmd EXCEPT ![t] = s.cmd]
                 /\ call' = [call EXCEPT ![<<t, k>>] = s.call]

\* Mutation: INCR writes without comparing the revision.
IncrBlind(k, c, g) == PutCall(<<Pair(k, g.val + 1)>>, "KeyPresent", 0, c.now, g.dl)
\* INCR of the value and deadline it has read, if the revision is still the same.
IncrCall(k, c, g) == PutCall(<<Pair(k, g.val + 1)>>, "Revision", g.rev, c.now, g.dl)

\* What a command that reads first does with the value g it has got for its key k.
getex(c, k, g) == IF g = Nil THEN Stop ELSE Writing(c, TtlCall(k, DeadlineAt(c.op, c.now)))
getset(c, k) == Writing(c, PutCall(<<Pair(k, c.op.val)>>, "Any", 0, c.now, None))
getdel(c, k) == Writing(c, DelCall(k, "Any", 0, c.now))
incr(c, k, g) ==
  CASE g = Nil -> Writing(c, PutCall(<<Pair(k, 1)>>, "KeyAbsent", 0, c.now, None))
    [] g # Nil /\ g.val = MaxVal -> Stop
    [] OTHER -> Writing(c, IncrCall(k, c, g))

Proceed(c) ==
  LET k == c.op.keys[1] IN
  CASE c.op.name = "get" -> Stop
    [] c.op.name = "getex" -> getex(c, k, c.got[k])
    [] c.op.name \in {"expire", "persist"} -> Writing(c, TtlCall(k, DeadlineAt(c.op, c.now)))
    [] c.op.name = "getset" -> getset(c, k)
    [] c.op.name = "getdel" -> getdel(c, k)
    [] c.op.name = "incr" -> incr(c, k, c.got[k])

\* The reads of get, get_inline, getex and incr up to their first await: L1, then the
\* index.  An expired L1 entry is dropped, an expired key deleted.
Inspect(t, c) ==
  LET k == c.op.keys[1] IN
  \/ /\ Hit(k, c.now)
     /\ Step(t, k, Proceed([c EXCEPT !.got[k] = cached[k]]))
     /\ UNCHANGED cached
  \/ /\ ~Hit(k, c.now)
     /\ cached' = Without({k})
     /\ \/ /\ k \notin DOMAIN map
           /\ Step(t, k, Proceed([c EXCEPT !.got[k] = Nil]))
        \/ /\ k \in DOMAIN map /\ ~Present(k, c.now)
           /\ Step(t, k, [cmd |-> [c EXCEPT !.pc = "lazy"],
                          call |-> DelCall(k, "Any", 0, c.now)])
        \/ /\ Present(k, c.now)
           /\ Step(t, k, Reading([c EXCEPT !.got[k] = Found(k)]))

-----------------------------------------------------------------------------
(* Commands begin.                                                         *)

Begin(t, op) ==
  /\ cmd[t].pc = "idle" /\ op \in left.ops /\ left.n > 0
  /\ left' = [left EXCEPT !.n = @ - 1]
  /\ UNCHANGED <<map, ttl, clearing, last, clock, log, watch, late>>

Fresh(op) == [IdleCmd EXCEPT !.op = op, !.now = clock]

\* get, getex, getset, getdel, incr.
ReadFirst(t, op) ==
  /\ Begin(t, op) /\ op.name \in {"get", "getex", "getset", "getdel", "incr"}
  /\ Inspect(t, Fresh(op))

\* expire and persist look at the index before they read the value.
expire(t, op) ==
  /\ Begin(t, op) /\ op.name = "expire"
  /\ LET k == op.keys[1] IN
     \/ ~Present(k, clock) /\ Step(t, k, Stop) /\ cached' = Without({k})
     \/ Present(k, clock) /\ Inspect(t, Fresh(op))
persist(t, op) ==
  /\ Begin(t, op) /\ op.name = "persist"
  /\ LET k == op.keys[1] IN
     \/ (~Present(k, clock) \/ Deadline(k) = None) /\ Step(t, k, Stop) /\ UNCHANGED cached
     \/ Present(k, clock) /\ Deadline(k) # None /\ Inspect(t, Fresh(op))

\* The deadline to keep is read before the stripe is taken.
KeptOrNew(k, op) == IF op.keep THEN Deadline(k) ELSE DeadlineAt(op, clock)

Puts(t, op, rev, dl) ==
  LET k == op.keys[1] IN
  /\ Begin(t, op)
  /\ Step(t, k, Writing(Fresh(op), PutCall(<<Pair(k, op.val)>>, op.cond, rev, clock, dl)))
  /\ UNCHANGED cached

set(t, op) ==
  op.name = "set" /\ op.cond = "Any" /\ Puts(t, op, 0, KeptOrNew(op.keys[1], op))
\* setnx and setxx.
set_conditional(t, op) ==
  /\ op.name = "set" /\ op.cond \in {"KeyAbsent", "KeyPresent"}
  /\ Puts(t, op, 0, KeptOrNew(op.keys[1], op))
\* With the revision the client has just read; a deadline is never kept.
setrev(t, op) ==
  /\ op.name = "set" /\ op.cond = "Revision"
  /\ Puts(t, op, Kv!Rev(op.keys[1]), DeadlineAt(op, clock))

mset(t, op) ==
  /\ Begin(t, op) /\ op.name = "mset"
  /\ LET pairs == [i \in DOMAIN op.keys |-> Pair(op.keys[i], op.val)] IN
     Step(t, op.keys[1], Writing(Fresh(op), PutCall(pairs, "Any", 0, clock, None)))
  /\ UNCHANGED cached

\* delrev, with the revision the client has just read.
delrev(t, op) ==
  /\ Begin(t, op) /\ op.name = "delrev"
  /\ LET k == op.keys[1] IN
     Step(t, k, Writing(Fresh(op), DelCall(k, "Revision", Kv!Rev(k), clock)))
  /\ UNCHANGED cached

\* Tombstones for all keys of S at once.
Tombstones(t, c, S) ==
  call' = [u \in Tasks \X Keys |->
             IF u[1] = t /\ u[2] \in S THEN DelCall(u[2], "Any", 0, c.now) ELSE call[u]]

\* del: which keys were expired is read before the tombstones.
del(t, op) ==
  /\ Begin(t, op) /\ op.name = "del"
  /\ LET c == Fresh(op)
         live == {k \in Keys : Present(k, clock)}
     IN
     /\ cmd' = [cmd EXCEPT ![t] = [c EXCEPT
                  !.pc = "write",
                  !.got = [k \in Keys |-> IF k \in live THEN Found(k) ELSE Nil]]]
     /\ Tombstones(t, c, Range(op.keys))
  /\ UNCHANGED cached

\* mget: hits are answered, expired keys get tombstones, the rest is read after that.
mget(t, op) ==
  /\ Begin(t, op) /\ op.name = "mget"
  /\ LET c == Fresh(op)
         cold == {k \in Range(op.keys) : ~Hit(k, clock)}
         reads == {k \in cold : Present(k, clock)}
         expired == {k \in cold \cap DOMAIN map : ~Present(k, clock)}
         got == [k \in Keys |-> IF k \in reads THEN Found(k) ELSE Nil]
     IN
     /\ cached' = Without(cold)
     /\ Tombstones(t, c, expired)
     /\ cmd' = [cmd EXCEPT ![t] =
          CASE expired # {} -> [c EXCEPT !.pc = "lazy", !.got = got]
            [] expired = {} /\ reads # {} -> [c EXCEPT !.pc = "read", !.got = got]
            [] OTHER -> IdleCmd]

\* ttl, pttl.
ttl_raw(t, op) ==
  /\ Begin(t, op) /\ op.name = "ttl"
  /\ LET k == op.keys[1] IN
     IF k \in DOMAIN map /\ ~Present(k, clock)
     THEN Step(t, k, [cmd |-> [Fresh(op) EXCEPT !.pc = "lazy"],
                      call |-> DelCall(k, "Any", 0, clock)])
     ELSE Step(t, k, Stop)
  /\ UNCHANGED cached

\* flush_db: the cache is emptied and the live keys are listed before the flush.
flush_db(t, op) ==
  /\ Begin(t, op) /\ op.name = "flushdb"
  /\ cached' = << >>
  /\ cmd' = [cmd EXCEPT ![t] = [Fresh(op) EXCEPT
               !.pc = "flush",
               !.got = [k \in Keys |-> IF Present(k, clock) THEN Found(k) ELSE Nil]]]
  /\ UNCHANGED call

-----------------------------------------------------------------------------
(* Calls on the namespace go on.                                           *)

\* Revisions are given out when the stripe is held; the i-th pair gets the i-th.
Stamped(c, pairs) ==
  [k \in Keys |->
     LET I == {i \in DOMAIN pairs : pairs[i].key = k} IN
     IF I = {} THEN c.out[k] ELSE last + CHOOSE i \in I : \A j \in I : j <= i]

CallStart(t, k) ==
  LET pairs == call[<<t, k>>].pairs IN
  /\ Kv!Start(<<t, k>>)
  /\ cmd' = [cmd EXCEPT ![t].out = Stamped(cmd[t], pairs)]
  /\ last' = last + Len(pairs)
  /\ UNCHANGED <<cached, clock, log, watch, late, left>>

\* The record is in the file and the index: the caller learns of it in CallReturns.
CallCommit(t, k) ==
  /\ \/ /\ Kv!CommitPut(<<t, k>>, cmd[t].out)
        /\ log' = log \cup {SetEvent(x, map'[x].rev, map'[x].val) :
                              x \in Kv!KeysOf(call[<<t, k>>])}
     \/ Kv!CommitTtl(<<t, k>>) /\ UNCHANGED log
  /\ call'[<<t, k>>].pc = "done"
  /\ UNCHANGED <<cached, cmd, last, clock, watch, late, left>>

\* A tombstone leaves the index at once and is appended afterwards.
CallRemove(t, k) ==
  /\ Kv!CommitDel(<<t, k>>) /\ call'[<<t, k>>].pc = "done"
  /\ last' = last + 1
  /\ cmd' = [cmd EXCEPT ![t].out[k] = last + 1]
  /\ UNCHANGED <<cached, clock, log, watch, late, left>>

\* Mutation: the early return for a missing key is gone.
RefusedOnCondition(u) ==
  call[u].pc = "called" /\ ~clearing /\ Kv!KeysFree(u) /\ ~Kv!Holds(call[u])
\* The condition does not hold, or there is nothing to delete.
Refused(u) ==
  /\ call[u].pc = "called" /\ ~clearing /\ Kv!KeysFree(u)
  /\ ~Kv!Holds(call[u]) \/ (call[u].kind = "del" /\ Kv!KeyOf(call[u]) \notin DOMAIN map)

Active(t) == {k \in Keys : call[<<t, k>>].pc # "idle"}

\* The command's own write is done: L1 and the watchers follow in the same step.
Written(t, k, c) ==
  LET op == c.op
      kind == call[<<t, k>>].kind
      pairs == call[<<t, k>>].pairs
      S == Kv!KeysOf(call[<<t, k>>])
      known == op.name \in {"expire", "persist"} /\ c.got[k] # Nil
  IN
  \/ /\ kind = "put"
     /\ L1!Keep([x \in DOMAIN cached \cup S |->
                   IF x \in S THEN [rev |-> c.out[x], val |-> Kv!Winner(call[<<t, k>>], x),
                                    dl |-> call[<<t, k>>].ttl]
                   ELSE cached[x]])
     /\ notify([i \in DOMAIN pairs |-> SetEvent(pairs[i].key, c.out[pairs[i].key], pairs[i].val)])
     /\ late' = late \ S
  \/ /\ kind = "ttl"
     /\ cached' = Without({k}) /\ late' = late \ {k}
     /\ notify(IF known THEN <<SetEvent(k, c.out[k], c.got[k].val)>> ELSE << >>)
  \/ /\ kind = "del" /\ op.name \in {"getdel", "delrev"}
     /\ cached' = Without({k}) /\ late' = late \ {k}
     /\ notify(IF c.out[k] > 0 /\ (op.name = "delrev" \/ c.got[k] # Nil)
               THEN <<DelEvent(k, c.out[k])>> ELSE << >>)

\* del: all keys leave the cache; events up to the first tombstone that failed.
Deleted(c) ==
  LET keys == c.op.keys
      bad == {i \in DOMAIN keys : c.out[keys[i]] = Failed}
      good == {i \in DOMAIN keys : \A j \in bad : i < j}
      told == SelectSeq(keys, LAMBDA k :
                /\ c.out[k] > 0 /\ c.got[k] # Nil
                /\ \E i \in good : keys[i] = k)
  IN
  /\ cached' = Without(Range(keys)) /\ late' = late \ Range(keys)
  /\ notify([i \in DOMAIN told |-> DelEvent(told[i], c.out[told[i]])])

\* The last call of t has returned and its command goes on; c knows the outcomes.
Resume(t, k, c) ==
  LET op == c.op
      failed == \E x \in Range(op.keys) : c.out[x] = Failed
      next == [c EXCEPT !.out = IdleCmd.out]
  IN
  \/ /\ op.name = "del"
     /\ Deleted(c) /\ Step(t, k, Stop)
  \/ /\ op.name # "del" /\ failed
     /\ late' = late \cup Behind(Range(op.keys))
     /\ Step(t, k, Stop) /\ UNCHANGED <<cached, watch>>
  \/ /\ op.name # "del" /\ ~failed /\ c.pc = "lazy"
     /\ IF op.name \in {"mget", "getex"}
        THEN late' = late \cup Behind(Range(op.keys)) /\ UNCHANGED cached
        ELSE cached' = Without({k}) /\ late' = late \ {k}
     /\ Step(t, k, CASE op.name = "ttl" -> Stop
                     [] op.name = "mget" -> IF c.got = Nothing THEN Stop ELSE Reading(next)
                     [] OTHER -> Proceed(next))
     /\ UNCHANGED watch
  \/ /\ op.name # "del" /\ ~failed /\ c.pc = "write" /\ (c.out[k] # 0 \/ op.name = "getdel")
     /\ Written(t, k, c) /\ Step(t, k, Stop)
  \/ /\ op.name \notin {"del", "getdel"} /\ ~failed /\ c.pc = "write" /\ c.out[k] = 0
     /\ IF op.name = "incr" /\ c.tries + 1 < IncrTries
        THEN Inspect(t, [next EXCEPT !.tries = @ + 1, !.now = clock, !.got = Nothing])
        ELSE Step(t, k, Stop) /\ UNCHANGED cached
     /\ UNCHANGED <<watch, late>>

\* A call returns with outcome r.  The other tombstones of a del or mget may still be
\* on their way; the last one to return resumes the command in the same step.
CallReturns(t, k, r) ==
  LET c == [cmd[t] EXCEPT !.out[k] = r] IN
  /\ IF Active(t) = {k} THEN Resume(t, k, c)
     ELSE /\ Step(t, k, [cmd |-> c, call |-> Kv!NoCall])
          /\ UNCHANGED <<cached, watch, late>>
  /\ log' = IF call[<<t, k>>].kind = "del" /\ r > 0 THEN log \cup {DelEvent(k, r)} ELSE log
  /\ UNCHANGED <<map, clearing, last, clock>>

CallDone(t, k) ==
  /\ call[<<t, k>>].pc = "done" /\ CallReturns(t, k, cmd[t].out[k])
  /\ UNCHANGED <<ttl, left>>
\* A tombstone of an absent key forgets a deadline that was set for it.
CallRefused(t, k) ==
  LET absent == Kv!Holds(call[<<t, k>>]) IN
  /\ Refused(<<t, k>>) /\ CallReturns(t, k, 0)
  /\ ttl' = IF absent THEN Kv!WithDeadline(ttl, {k}, None) ELSE ttl
  /\ UNCHANGED left
\* The namespace is frozen, or an append or the rotation after it fails.
CallFails(t, k) ==
  /\ call[<<t, k>>].pc # "idle" /\ left.faults > 0
  /\ left' = [left EXCEPT !.faults = @ - 1]
  /\ CallReturns(t, k, Failed)
  /\ UNCHANGED ttl

-----------------------------------------------------------------------------
(* Values arrive.                                                          *)

\* get, getex and mget cache what they read, whatever happened since they looked.
Filled(t) == {k \in Keys : cmd[t].op.name \in {"get", "getex", "mget"} /\ cmd[t].got[k] # Nil}

\* Mutation: the revision is looked up again after the value was read.
FillRereads(t) ==
  LET S == Filled(t)
      got == [x \in Keys |-> [cmd[t].got[x] EXCEPT !.rev = Kv!Rev(x)]]
  IN
  /\ L1!Keep([x \in DOMAIN cached \cup S |-> IF x \in S THEN got[x] ELSE cached[x]])
  /\ late' = late \cup S
Fill(t) ==
  LET S == Filled(t)
      got == cmd[t].got
  IN
  /\ L1!Keep([x \in DOMAIN cached \cup S |-> IF x \in S THEN got[x] ELSE cached[x]])
  /\ late' = (late \ S) \cup {k \in S : k \notin DOMAIN map \/ got[k] # Found(k)}

ReadDone(t) ==
  /\ cmd[t].pc = "read"
  /\ Fill(t)
  /\ Step(t, cmd[t].op.keys[1], IF cmd[t].op.name = "mget" THEN Stop ELSE Proceed(cmd[t]))
  /\ UNCHANGED <<map, ttl, clearing, last, clock, log, watch, left>>

\* The file of the record is gone: a merge unlinked it between the lookup and the read.
ReadFails(t) ==
  /\ cmd[t].pc = "read" /\ left.faults > 0
  /\ left' = [left EXCEPT !.faults = @ - 1]
  /\ cmd' = [cmd EXCEPT ![t] = IdleCmd]
  /\ UNCHANGED <<map, ttl, call, clearing, cached, last, clock, log, watch, late>>

-----------------------------------------------------------------------------
(* Flush, and what happens beside the commands.                            *)

\* NamespaceLog::flush has drained the writers: it burns a revision and clears the index.
FlushClears(t) ==
  /\ cmd[t].pc = "flush" /\ cmd[t].tries = 0
  /\ Kv!Clear
  /\ last' = last + 1
  /\ cmd' = [cmd EXCEPT ![t].tries = last + 1]
  /\ log' = {} /\ late' = late \cup DOMAIN cached
  /\ UNCHANGED <<cached, clock, watch, left>>

KeysInOrder == LET F[n \in Nat] == IF n = 0 THEN << >> ELSE Append(F[n - 1], n)
               IN F[Cardinality(Keys)]

FlushDone(t) ==
  LET c == cmd[t]
      gone == SelectSeq(KeysInOrder, LAMBDA k : c.got[k] # Nil)
  IN
  /\ c.pc = "flush" /\ c.tries # 0
  /\ Kv!ClearReturns
  /\ notify([i \in DOMAIN gone |-> DelEvent(gone[i], c.tries)])
  /\ cmd' = [cmd EXCEPT ![t] = IdleCmd]
  /\ UNCHANGED <<cached, last, clock, log, late, left>>

\* Evictions for the sake of other keys, and the sweep of expired entries.
Evict ==
  /\ L1!Forget /\ cached' # cached
  /\ UNCHANGED <<map, ttl, call, clearing, cmd, last, clock, log, watch, late, left>>

\* A reclaim drops the records no index entry points to, tombstones included.
Reclaim ==
  /\ left.reclaims > 0 /\ Kv!Holding = {} /\ ~clearing
  /\ left' = [left EXCEPT !.reclaims = @ - 1]
  /\ log' = {e \in log : e.set /\ e.key \in DOMAIN map /\ map[e.key].rev = e.rev}
  /\ UNCHANGED <<map, ttl, call, clearing, cached, cmd, last, clock, watch, late>>

Tick ==
  /\ left.ticks > 0 /\ left' = [left EXCEPT !.ticks = @ - 1]
  /\ clock' = clock + 1
  /\ UNCHANGED <<map, ttl, call, clearing, cached, cmd, last, log, watch, late>>

-----------------------------------------------------------------------------
NoEvent(k) == [key |-> k, rev |-> 0, set |-> FALSE, val |-> 0]

Init ==
  /\ Kv!Init /\ L1!Init
  /\ cmd = [t \in Tasks |-> IdleCmd]
  /\ last = 0 /\ clock = 1 /\ log = {} /\ late = {}
  /\ watch = [pc |-> "off", keys |-> {}, since |-> 0, initial |-> {}, chan |-> << >>,
              seen |-> [k \in Keys |-> NoEvent(k)]]
  /\ left \in Scenarios

BeginSome(t) ==
  \E op \in left.ops :
    \/ ReadFirst(t, op) \/ expire(t, op) \/ persist(t, op) \/ set(t, op)
    \/ set_conditional(t, op) \/ setrev(t, op) \/ mset(t, op) \/ delrev(t, op)
    \/ del(t, op) \/ mget(t, op) \/ ttl_raw(t, op) \/ flush_db(t, op)

\* What the shard's thread does for task t once its command has begun.
Advance(t) ==
  \/ \E k \in Keys : \/ CallStart(t, k) \/ CallCommit(t, k) \/ CallRemove(t, k)
                     \/ CallDone(t, k) \/ CallRefused(t, k)
  \/ ReadDone(t) \/ FlushClears(t) \/ FlushDone(t)

Faults(t) == ReadFails(t) \/ \E k \in Keys : CallFails(t, k)

Watching == \/ \E S \in left.filters : watch_subscribe(S)
            \/ watch_scanned \/ watch_receive \/ watch_close

Next ==
  \/ \E t \in Tasks : BeginSome(t) \/ Advance(t) \/ Faults(t)
  \/ Watching \/ Evict \/ Reclaim \/ Tick

Spec == Init /\ [][Next]_vars /\ \A t \in Tasks : WF_vars(Advance(t))

-----------------------------------------------------------------------------
(* Properties.                                                             *)

\* The index has the effect of a command on k that has not returned.
Pending(k) ==
  \E t \in Tasks :
    /\ cmd[t].pc \in {"write", "lazy"} /\ cmd[t].out[k] > 0
    /\ \A x \in Active(t) :
         k \in Kv!KeysOf(call[<<t, x>>]) => call[<<t, x>>].pc # "holds"

\* L1 agrees with the index on revision, value and deadline, except while a command
\* is between its effect and its return, and after the three things that are known
\* to leave L1 behind: a read that caches a value fetched before a write, a command
\* that fails after its effect, and a tombstone or flush that skips L1 (upsert_cache
\* and cache.remove after every write in store.rs).
CacheFollowsIndex == \A k \in Behind(Keys) : k \in late \/ Pending(k)

\* INCR is atomic per shard: the value it commits is one more than the live value it
\* replaces, whatever it had read and however stale its cache was (incr).
IncrAddsOne ==
  [][\A t \in Tasks, k \in Keys :
       LET c == call[<<t, k>>] IN
       (/\ cmd[t].op.name = "incr" /\ c.pc = "holds" /\ call'[<<t, k>>].pc = "done")
       => map'[k].val = 1 + IF Present(k, c.now) THEN map[k].val ELSE 0]_vars

\* A revision names one value, even in an L1 entry that came too late and in what a
\* command has read: a client that writes back with the revision of its GET (if-match,
\* SETREV) replaces the value it has seen, or nothing.
RevisionNamesValue ==
  \A k \in DOMAIN map :
    /\ k \in DOMAIN cached /\ cached[k].rev = map[k].rev => cached[k].val = map[k].val
    /\ \A t \in Tasks : cmd[t].got[k].rev = map[k].rev => cmd[t].got[k].val = map[k].val

\* A client that watches one key, or is on its first subscription, knows the newest
\* write of every live key once its channel is empty and the write has returned:
\* nothing is lost between the subscription and the scan, by a full channel, or over
\* a reconnect with since (watch_subscribe, notify).
WatcherSeesWrites ==
  \A k \in watch.keys :
    (/\ watch.pc = "on" /\ watch.chan = << >>
     /\ Cardinality(watch.keys) = 1 \/ watch.since = 0
     /\ Present(k, clock) /\ ~Pending(k))
    => /\ watch.seen[k].set /\ watch.seen[k].rev >= map[k].rev
       /\ watch.seen[k].rev = map[k].rev => watch.seen[k].val = map[k].val

\* Every command returns: no command waits forever for a stripe, a read, the writes a
\* flush drains, or the attempts of INCR.
CommandsReturn == \A t \in Tasks : cmd[t].pc # "idle" ~> cmd[t].pc = "idle"

\* A read deletes a key only when its time to live has elapsed.  The tombstone of get,
\* mget, getex, ttl and incr is unconditional and waits for the stripe, so that a
\* write that was in progress is deleted instead.
LazyDeletesExpired ==
  [][\A t \in Tasks, k \in Keys :
       (cmd[t].pc = "lazy" /\ k \in DOMAIN map /\ k \notin DOMAIN map' /\ ~clearing'
          /\ call[<<t, k>>].pc = "called" /\ call'[<<t, k>>].pc = "done")
       => Kv!Expired(k, clock)]_vars
=============================================================================
