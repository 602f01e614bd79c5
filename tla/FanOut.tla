------------------------------- MODULE FanOut -------------------------------
(***************************************************************************)
(* Commands that reach more than one shard.  Every shard is a thread of    *)
(* its own with an inbox, a wakeup pipe and a serve task that spawns one   *)
(* handler per request.  A connection lives on one shard; its command is   *)
(* split into parts, each done by the shard of its keys, and the answers   *)
(* are joined.                                                             *)
(*                                                                         *)
(* What a store does with one part is one step: its own interleavings are  *)
(* ShardStore's.  A part is a set of units: the positions of its keys in   *)
(* the command, or the shard itself for a command on the whole keyspace.   *)
(***************************************************************************)
EXTENDS Integers, Sequences, FiniteSets, SequencesExt

CONSTANTS
  NShards,        \* n_shards
  Keys,           \* small naturals: the order of the index
  ShardForKey,    \* the shard of each key
  Conns,          \* connections
  Scenarios,      \* a sequence: commands, homes, faults and stops of a behaviour
  InboxBound,     \* CROSS_SHARD_CHAN_BOUND
  CursorByte      \* values of the shard byte of a scan cursor (256 in the code)

VARIABLES
  data,      \* the value of each key in each shard; 0 when it has none
  inbox,     \* the requests queued for each shard
  parked,    \* the senders each inbox keeps waiting
  pipe,      \* whether a wakeup byte waits for the shard
  serving,   \* the serve task of each shard
  tasks,     \* the handlers that were spawned and have not run
  conn,      \* the command each connection runs
  served,    \* history: what the stores did for that command, in order
  steady,    \* history: keys present since the connection's scan began
  left       \* the scenario, and the commands and faults it still allows

vars == <<data, inbox, parked, pipe, serving, tasks, conn, served, steady, left>>

Shards == 0..(NShards - 1)

ASSUME FanOutAssumption ==
  /\ NShards \in Nat \ {0}
  /\ ShardForKey \in [Keys -> Shards]
  /\ InboxBound \in Nat \ {0}

Absent == 0
Conflict == -1
Start == 0        \* the cursor b"0" a scan begins with
Done == -1        \* the cursor b"0" it ends with

NoAnswer == [is |-> "awaited", vals |-> << >>]
Answer(vals) == [is |-> "ok", vals |-> vals]
Error == [is |-> "error", vals |-> << >>]

NoCmd == [op |-> "none", keys |-> << >>, ops |-> << >>, val |-> 0, count |-> 1,
          http |-> FALSE]
NoPlan == [parts |-> << >>, join |-> "in order"]
IdleConn == [pc |-> "idle", cmd |-> NoCmd, n |-> 0, plan |-> NoPlan, p |-> 1, got |-> << >>,
             ok |-> TRUE, cursor |-> <<0, Start>>, seen |-> << >>]

-----------------------------------------------------------------------------
(* What a store does: handle's calls, and the same calls made locally.     *)

\* The keys of one shard in the order of its index.
KeyOrder == SetToSortSeq(Keys, <)
LiveKeys(m) == SelectSeq(KeyOrder, LAMBDA k : m[k] # Absent)

\* A page of ShardStore::scan: strictly after the cursor, at most count keys; the
\* page is the last one when it is not full.
Page(m, after, count) ==
  LET later == SelectSeq(LiveKeys(m), LAMBDA k : k > after)
      page  == SubSeq(later, 1, IF count < Len(later) THEN count ELSE Len(later))
  IN [keys |-> page, next |-> IF Len(page) >= count THEN Last(page) ELSE Done]

\* An operation on one key: the value it leaves, and what it answers.  The value stands
\* for the revision a condition names.
batch_set(op, old, val) ==
  LET holds == CASE op = "set" -> TRUE
                 [] op = "setnx" -> old = Absent
                 [] op = "setxx" -> old # Absent
                 [] op = "setrev" -> old = val
  IN IF holds THEN <<val, val>> ELSE <<old, Conflict>>
batch_delete(op, old, val) ==
  CASE op = "del" -> <<Absent, IF old = Absent THEN 0 ELSE 1>>
    [] op = "getdel" -> <<Absent, old>>
    [] op = "delrev" -> IF old = val THEN <<Absent, old>> ELSE <<old, Conflict>>
batch_exists(old) == <<old, IF old = Absent THEN 0 ELSE 1>>
batch_incr(old, val) == <<old + val, old + val>>

OneKey(op, old, val) ==
  CASE op \in {"mget", "get", "watch"} -> <<old, old>>
    [] op = "exists" -> batch_exists(old)
    [] op = "mset" -> batch_set("set", old, val)
    [] op \in {"set", "setnx", "setxx", "setrev"} -> batch_set(op, old, val)
    [] op \in {"del", "getdel", "delrev"} -> batch_delete(op, old, val)
    [] op = "incr" -> batch_incr(old, val)

\* The keys of a part one after the other: the keyspace and the answers.
ManyKeys(m, cmd, units) ==
  FoldLeft(LAMBDA acc, u :
             LET k == cmd.keys[u]
                 r == OneKey(IF cmd.op = "batch" THEN cmd.ops[u] ELSE cmd.op, acc.m[k], cmd.val)
             IN [m |-> [acc.m EXCEPT ![k] = r[1]], vals |-> Append(acc.vals, r[2])],
           [m |-> m, vals |-> << >>], units)

\* A part that is a whole shard.
WholeShard(m, cmd, after) ==
  CASE cmd.op = "dbsize" -> [m |-> m, vals |-> <<Len(LiveKeys(m))>>]
    [] cmd.op = "keys" -> [m |-> m, vals |-> <<LiveKeys(m)>>]
    [] cmd.op = "flushdb" -> [m |-> [k \in Keys |-> Absent], vals |-> <<0>>]
    [] cmd.op = "scan" -> [m |-> m, vals |-> <<Page(m, after, cmd.count)>>]
    [] cmd.op = "pwatch" -> [m |-> m, vals |-> <<LiveKeys(m)>>]

Keyed == {"mget", "mset", "del", "exists", "batch", "watch"}

Perform(s, cmd, units, after) ==
  IF cmd.op \in Keyed THEN ManyKeys(data[s], cmd, units) ELSE WholeShard(data[s], cmd, after)

-----------------------------------------------------------------------------
(* How each command is split.  A plan has the parts in the order the code  *)
(* takes them.  how: send waits for room, try does not, local is done at   *)
(* once.  wait: the answer is awaited before the next part.  join: answers *)
(* are awaited one after the other, up to the first error, or all of them. *)

Part(s, how, wait, units) == [s |-> s, how |-> how, wait |-> wait, units |-> units]
InOrder(parts) == [parts |-> parts, join |-> "in order"]
JoinAll(parts) == [parts |-> parts, join |-> "all"]

AllShards == [i \in 1..NShards |-> i - 1]
Unit(s) == <<s + 1>>

\* bucket_by_shard: the positions of the shard's keys, in order.
Bucket(cmd, s) ==
  SelectSeq([u \in DOMAIN cmd.keys |-> u], LAMBDA u : ShardForKey[cmd.keys[u]] = s)

\* The remote buckets in shard order, then the local one; with no remote bucket only
\* the local one is left.
Buckets(home, cmd) ==
  LET remote == SelectSeq(AllShards, LAMBDA s : s # home /\ Bucket(cmd, s) # << >>)
      sends  == [i \in DOMAIN remote |->
                   Part(remote[i], "send", FALSE, Bucket(cmd, remote[i]))]
  IN IF Bucket(cmd, home) = << >> THEN sends
     ELSE Append(sends, Part(home, "local", FALSE, Bucket(cmd, home)))
dispatch_mget(home, cmd) == InOrder(Buckets(home, cmd))
dispatch_mset(home, cmd) == InOrder(Buckets(home, cmd))
dispatch_del(home, cmd) == JoinAll(Buckets(home, cmd))
dispatch_exists(home, cmd) == JoinAll(Buckets(home, cmd))

\* A part for every shard; those in own are done by the connection itself.
EveryShard(own) ==
  [i \in 1..NShards |-> Part(AllShards[i], IF AllShards[i] \in own THEN "local" ELSE "try",
                             FALSE, Unit(AllShards[i]))]
\* DBSIZE, FLUSHDB, KEYS over RESP: a request to every shard, the own one included.
TryAll == EveryShard(IF NShards = 1 THEN {0} ELSE {})
dispatch_dbsize(home, cmd) == JoinAll(TryAll)
dispatch_flushdb(home, cmd) == JoinAll(TryAll)
dispatch_keys(home, cmd) == JoinAll(TryAll)

\* The same over HTTP: the own shard's part is done when its turn comes.
TryOthers(home) == EveryShard({home})
handle_dbsize(home, cmd) == InOrder(TryOthers(home))
handle_flushdb(home, cmd) == InOrder(TryOthers(home))

\* One part, at the connection's own shard or at another, and its answer.
Ask(home, s, units) == Part(s, IF s = home THEN "local" ELSE "try", TRUE, units)

\* SCAN and the list request: one page of the shard the cursor names.
dispatch_scan(home, cursor) == InOrder(<<Ask(home, cursor[1], Unit(cursor[1]))>>)
handle_list(home, cursor) ==
  LET s == IF cursor[1] < NShards THEN cursor[1] ELSE NShards - 1
  IN InOrder(<<Ask(home, s, Unit(s))>>)

\* The batch request and WATCH: one key after the other.
OneByOne(home, cmd) ==
  [u \in DOMAIN cmd.keys |-> Ask(home, ShardForKey[cmd.keys[u]], <<u>>)]
\* Mutation: an operation does not wait for the one before it.
handle_batch_unawaited(home, cmd) ==
  InOrder([u \in DOMAIN cmd.keys |-> [OneByOne(home, cmd)[u] EXCEPT !.wait = FALSE]])
handle_batch(home, cmd) == InOrder(OneByOne(home, cmd))
run_key_watch_loop(home, cmd) == InOrder(OneByOne(home, cmd))

\* PWATCH: one shard after the other.
run_prefix_watch_loop(home, cmd) ==
  InOrder([i \in 1..NShards |-> Ask(home, AllShards[i], Unit(AllShards[i]))])
\* The event stream: a prefix like PWATCH, one key at the connection's own shard.
handle_watch_sse(home, cmd) ==
  IF cmd.op = "pwatch" THEN run_prefix_watch_loop(home, cmd)
  ELSE InOrder(<<Part(home, "local", TRUE, <<1>>)>>)

Plan(home, cmd, cursor) ==
  CASE cmd.op = "mget" -> dispatch_mget(home, cmd)
    [] cmd.op = "mset" -> dispatch_mset(home, cmd)
    [] cmd.op = "del" -> dispatch_del(home, cmd)
    [] cmd.op = "exists" -> dispatch_exists(home, cmd)
    [] cmd.op = "dbsize" -> IF cmd.http THEN handle_dbsize(home, cmd)
                            ELSE dispatch_dbsize(home, cmd)
    [] cmd.op = "flushdb" -> IF cmd.http THEN handle_flushdb(home, cmd)
                             ELSE dispatch_flushdb(home, cmd)
    [] cmd.op = "keys" -> dispatch_keys(home, cmd)
    [] cmd.op = "scan" -> IF cmd.http THEN handle_list(home, cursor)
                          ELSE dispatch_scan(home, cursor)
    [] cmd.op = "batch" -> handle_batch(home, cmd)
    [] cmd.op \in {"watch", "pwatch"} /\ cmd.http -> handle_watch_sse(home, cmd)
    [] cmd.op = "watch" /\ ~cmd.http -> run_key_watch_loop(home, cmd)
    [] cmd.op = "pwatch" /\ ~cmd.http -> run_prefix_watch_loop(home, cmd)

-----------------------------------------------------------------------------
(* The connection.                                                         *)

Home(c) == Scenarios[left.of].home[c]
Here(c) == conn[c].plan.parts[conn[c].p]
Sending(c) == conn[c].pc = "run" /\ conn[c].p <= Len(conn[c].plan.parts)

\* A command, or the next page of a scan, begins.
Begun(c, cmd, cursor, seen) ==
  LET plan == Plan(Home(c), cmd, cursor)
  IN [IdleConn EXCEPT !.pc = "run", !.cmd = cmd, !.n = conn[c].n + 1, !.plan = plan,
                      !.got = [i \in DOMAIN plan.parts |-> NoAnswer],
                      !.cursor = cursor, !.seen = seen]

Present == {k \in Keys : data[ShardForKey[k]][k] # Absent}

Begin(c) ==
  /\ conn[c].pc \in {"idle", "done"}
  /\ left.n[c] > 0
  /\ \E cmd \in Scenarios[left.of].cmds[c] :
       conn' = [conn EXCEPT ![c] = Begun(c, cmd, IdleConn.cursor, << >>)]
  /\ left' = [left EXCEPT !.n[c] = @ - 1]
  /\ steady' = [steady EXCEPT ![c] = Present]
  /\ served' = [served EXCEPT ![c] = << >>]
  /\ UNCHANGED <<data, inbox, parked, pipe, serving, tasks>>

\* The client passes the cursor of its last page back.
NextPage(c) ==
  /\ conn[c].pc = "done" /\ conn[c].ok /\ conn[c].cmd.op = "scan" /\ conn[c].cursor[2] # Done
  /\ conn' = [conn EXCEPT ![c] = Begun(c, conn[c].cmd, conn[c].cursor, conn[c].seen)]
  /\ served' = [served EXCEPT ![c] = << >>]
  /\ UNCHANGED <<data, inbox, parked, pipe, serving, tasks, steady, left>>

Ended(c, ok) == [conn EXCEPT ![c].pc = "done", ![c].ok = ok]

\* The cursor that goes with a page: the shard and what its store returned, the next
\* shard from its beginning when this one is exhausted, b"0" after the last shard.
\* Mutation: the next shard is skipped.
NextCursorSkips(s, page) ==
  IF page.next # Done THEN <<s, page.next>>
  ELSE IF s + 2 >= NShards THEN <<0, Done>> ELSE <<s + 2, Start>>
NextCursor(s, page) ==
  IF page.next # Done THEN <<s % CursorByte, page.next>>
  ELSE IF s + 1 >= NShards THEN <<0, Done>> ELSE <<(s + 1) % CursorByte, Start>>

\* Every part was answered.
Completed(c) ==
  IF conn[c].cmd.op # "scan" THEN Ended(c, TRUE)
  ELSE LET page == conn[c].got[1].vals[1]
       IN [Ended(c, TRUE) EXCEPT ![c].cursor = NextCursor(conn[c].plan.parts[1].s, page),
                                 ![c].seen = @ \o page.keys]

Refused(vals) == \E i \in DOMAIN vals : vals[i] = Conflict
Rejects(cmd, vals) == cmd.op = "batch" /\ Refused(vals)

\* A part was answered where it is awaited: an error or a conflict ends the command.
Taken(c, answer) ==
  IF answer.is = "error" \/ Rejects(conn[c].cmd, answer.vals) THEN Ended(c, FALSE)
  ELSE [conn EXCEPT ![c].pc = "run", ![c].p = @ + 1, ![c].got[conn[c].p] = answer]

-----------------------------------------------------------------------------
(* The store's work on a part: done, or failed before or after its effect. *)

Outcomes == {"ok"} \cup (IF left.faults > 0 THEN {"failed before", "failed after"} ELSE {})

Work(s, c, current, cmd, units, after, outcome) ==
  LET w == Perform(s, cmd, units, after)
  IN /\ data' = IF outcome = "failed before" THEN data ELSE [data EXCEPT ![s] = w.m]
     /\ served' = IF outcome = "failed before" \/ ~current THEN served
                  ELSE [served EXCEPT ![c] = Append(@, [s |-> s, units |-> units,
                                                        vals |-> w.vals])]
     /\ steady' = [d \in Conns |-> steady[d] \cap {k \in Keys : data'[ShardForKey[k]][k] # Absent}]
     /\ left' = [left EXCEPT !.faults = IF outcome = "ok" THEN @ ELSE @ - 1]

AnswerOf(s, cmd, units, after, outcome) ==
  IF outcome = "ok" THEN Answer(Perform(s, cmd, units, after).vals) ELSE Error

\* The part is the connection's own shard's.
Local(c) ==
  /\ Sending(c) /\ Here(c).how = "local"
  /\ \E outcome \in Outcomes :
       LET part  == Here(c)
           after == conn[c].cursor[2]
       IN /\ Work(part.s, c, TRUE, conn[c].cmd, part.units, after, outcome)
          /\ conn' = Taken(c, AnswerOf(part.s, conn[c].cmd, part.units, after, outcome))
  /\ UNCHANGED <<inbox, parked, pipe, serving, tasks>>

-----------------------------------------------------------------------------
(* Inboxes and wakeups.                                                    *)

Request(c) ==
  [c |-> c, n |-> conn[c].n, i |-> conn[c].p, s |-> Here(c).s, cmd |-> conn[c].cmd,
   units |-> Here(c).units, after |-> conn[c].cursor[2]]

\* tx.clone().send(req).await: a clone has a slot of its own, so the request is queued at
\* once; above the bound the sender is parked until the receiver takes a request.
Send(c) ==
  /\ Sending(c) /\ Here(c).how = "send" /\ serving[Here(c).s] # "gone"
  /\ inbox' = [inbox EXCEPT ![Here(c).s] = Append(@, Request(c))]
  /\ LET full == Len(inbox[Here(c).s]) >= InboxBound
     IN /\ conn' = [conn EXCEPT ![c].pc = IF full THEN "parked" ELSE "poke"]
        /\ parked' = IF full THEN [parked EXCEPT ![Here(c).s] = Append(@, c)] ELSE parked
  /\ UNCHANGED <<data, pipe, serving, tasks, served, steady, left>>

\* tx.clone().try_send(req): queued whatever the length of the inbox.
TrySend(c) ==
  /\ Sending(c) /\ Here(c).how = "try" /\ serving[Here(c).s] # "gone"
  /\ inbox' = [inbox EXCEPT ![Here(c).s] = Append(@, Request(c))]
  /\ conn' = [conn EXCEPT ![c].pc = "poke"]
  /\ UNCHANGED <<data, parked, pipe, serving, tasks, served, steady, left>>

\* The send is refused: the receiver is gone, or, for try_send, the inbox is full.  (A
\* fresh clone always has a slot, so the code's second case cannot occur with the
\* channel it uses; the model allows it.)
SendRefused(c) ==
  /\ Sending(c)
  /\ \/ Here(c).how # "local" /\ serving[Here(c).s] = "gone"
     \/ Here(c).how = "try" /\ Len(inbox[Here(c).s]) >= InboxBound
  /\ conn' = Ended(c, FALSE)
  /\ UNCHANGED <<data, inbox, parked, pipe, serving, tasks, served, steady, left>>

\* poke_wakeup.  A full pipe already holds a wakeup.
\* Mutation: only the request that found the inbox empty pokes.
PokeOnce(c) ==
  /\ conn[c].pc = "poke"
  /\ pipe' = [pipe EXCEPT ![Here(c).s] = @ \/ Len(inbox[Here(c).s]) = 1]
  /\ conn' = IF Here(c).wait THEN [conn EXCEPT ![c].pc = "await"]
             ELSE [conn EXCEPT ![c].pc = "run", ![c].p = @ + 1]
  /\ UNCHANGED <<data, inbox, parked, serving, tasks, served, steady, left>>
Poke(c) ==
  /\ conn[c].pc = "poke"
  /\ pipe' = [pipe EXCEPT ![Here(c).s] = serving[Here(c).s] # "gone"]
  /\ conn' = IF Here(c).wait THEN [conn EXCEPT ![c].pc = "await"]
             ELSE [conn EXCEPT ![c].pc = "run", ![c].p = @ + 1]
  /\ UNCHANGED <<data, inbox, parked, serving, tasks, served, steady, left>>

\* serve reads the wakeup bytes.
Wake(s) ==
  /\ serving[s] = "asleep" /\ pipe[s]
  /\ pipe' = [pipe EXCEPT ![s] = FALSE]
  /\ serving' = [serving EXCEPT ![s] = "drain"]
  /\ UNCHANGED <<data, inbox, parked, tasks, conn, served, steady, left>>

\* poll_next gives a request: a handler is spawned, and one parked sender released.
Drain(s) ==
  /\ serving[s] = "drain" /\ inbox[s] # << >>
  /\ tasks' = tasks \cup {Head(inbox[s])}
  /\ inbox' = [inbox EXCEPT ![s] = Tail(@)]
  /\ IF parked[s] = << >> THEN UNCHANGED <<parked, conn>>
     ELSE /\ parked' = [parked EXCEPT ![s] = Tail(@)]
          /\ conn' = [conn EXCEPT ![Head(parked[s])].pc = "poke"]
  /\ UNCHANGED <<data, pipe, serving, served, steady, left>>

\* poll_next gives nothing: back to the pipe.
Sleep(s) ==
  /\ serving[s] = "drain" /\ inbox[s] = << >>
  /\ serving' = [serving EXCEPT ![s] = "asleep"]
  /\ UNCHANGED <<data, inbox, parked, pipe, tasks, conn, served, steady, left>>

\* reply.send: lost when the command has ended meanwhile.
Current(r) == conn[r.c].n = r.n /\ conn[r.c].pc \notin {"done", "gone"}
Delivered(r, answer) ==
  IF Current(r) THEN [conn EXCEPT ![r.c].got[r.i] = answer] ELSE conn

\* A handler runs.
Handle(r) ==
  /\ r \in tasks
  /\ \E outcome \in Outcomes :
       /\ Work(r.s, r.c, Current(r), r.cmd, r.units, r.after, outcome)
       /\ conn' = Delivered(r, AnswerOf(r.s, r.cmd, r.units, r.after, outcome))
  /\ tasks' = tasks \ {r}
  /\ UNCHANGED <<inbox, parked, pipe, serving>>

\* A worker ends: its inbox, its handlers and its connections are dropped, and whoever
\* waits for their answers gets an error.
Stop(s) ==
  /\ s \in Scenarios[left.of].stops /\ serving[s] # "gone"
  /\ serving' = [serving EXCEPT ![s] = "gone"]
  /\ LET lost    == {r \in tasks \cup ToSet(inbox[s]) : r.s = s /\ Current(r)}
         mine(c) == {r \in lost : r.c = c}
         answers(c) == [i \in DOMAIN conn[c].got |->
                          IF \E r \in mine(c) : r.i = i THEN Error ELSE conn[c].got[i]]
     IN conn' = [c \in Conns |->
          IF Home(c) = s THEN [conn[c] EXCEPT !.pc = "gone"]
          ELSE [conn[c] EXCEPT !.got = answers(c),
                               !.pc = IF c \in ToSet(parked[s]) THEN "poke" ELSE @]]
  /\ tasks' = {r \in tasks : r.s # s}
  /\ inbox' = [inbox EXCEPT ![s] = << >>]
  /\ parked' = [t \in Shards |-> IF t = s THEN << >>
                                 ELSE SelectSeq(parked[t], LAMBDA c : Home(c) # s)]
  /\ pipe' = [pipe EXCEPT ![s] = FALSE]
  /\ UNCHANGED <<data, served, steady, left>>

-----------------------------------------------------------------------------
(* The answers.                                                            *)

\* reply_rx.await of the part just sent.
Await(c) ==
  /\ conn[c].pc = "await" /\ conn[c].got[conn[c].p].is # "awaited"
  /\ conn' = Taken(c, conn[c].got[conn[c].p])
  /\ UNCHANGED <<data, inbox, parked, pipe, serving, tasks, served, steady, left>>

IsNow(c, is) == {i \in DOMAIN conn[c].got : conn[c].got[i].is = is}

\* Mutation: the first answer is enough.
ReadyFirst(c) == conn[c].got = << >> \/ IsNow(c, "ok") # {} \/ IsNow(c, "error") # {}
\* Answers awaited in order end at the first error; join_all waits for all of them.
Ready(c) ==
  \/ IsNow(c, "awaited") = {}
  \/ conn[c].plan.join = "in order"
     /\ \E i \in IsNow(c, "error") : \A j \in IsNow(c, "awaited") : i < j

Join(c) ==
  /\ conn[c].pc = "run" /\ conn[c].p > Len(conn[c].plan.parts)
  /\ Ready(c)
  /\ conn' = IF IsNow(c, "error") # {} THEN Ended(c, FALSE) ELSE Completed(c)
  /\ UNCHANGED <<data, inbox, parked, pipe, serving, tasks, served, steady, left>>

-----------------------------------------------------------------------------
Init ==
  /\ left \in {[of |-> i, n |-> Scenarios[i].n, faults |-> Scenarios[i].faults] :
                 i \in DOMAIN Scenarios}
  /\ data = [s \in Shards |-> [k \in Keys |-> IF ShardForKey[k] = s /\ k \in Scenarios[left.of].stored
                                              THEN 1 ELSE Absent]]
  /\ inbox = [s \in Shards |-> << >>]
  /\ parked = [s \in Shards |-> << >>]
  /\ pipe = [s \in Shards |-> FALSE]
  /\ serving = [s \in Shards |-> "asleep"]
  /\ tasks = {}
  /\ conn = [c \in Conns |-> IdleConn]
  /\ served = [c \in Conns |-> << >>]
  /\ steady = [c \in Conns |-> {}]

ConnStep(c) ==
  Local(c) \/ Send(c) \/ TrySend(c) \/ SendRefused(c) \/ Poke(c) \/ Await(c) \/ Join(c)

\* What the runtimes do by themselves.  No part of it can go on for ever: every step
\* takes a request or a part further.
Progress ==
  \/ \E c \in Conns : ConnStep(c)
  \/ \E s \in Shards : Wake(s) \/ Drain(s) \/ Sleep(s)
  \/ \E r \in tasks : Handle(r)

Next ==
  \/ Progress
  \/ \E c \in Conns : Begin(c) \/ NextPage(c)
  \/ \E s \in Shards : Stop(s)

Spec == Init /\ [][Next]_vars

-----------------------------------------------------------------------------
(* Properties.                                                             *)

Replied(c) == conn[c].pc = "done" /\ conn[c].ok
UnitsOf(c) ==
  IF conn[c].cmd.op \in Keyed
  THEN DOMAIN conn[c].cmd.keys
  ELSE IF conn[c].cmd.op = "scan" THEN {conn[c].plan.parts[1].s + 1} ELSE 1..NShards

\* An answer without an error (dispatch.rs, http.rs: the values, the sum of the counts, OK)
\* speaks for the whole command: every key was served exactly once and by the shard that
\* holds it, every shard exactly once where the command is for all of them, and the answer
\* is made of what those shards returned - whatever other commands, full inboxes and
\* shards that end did meanwhile.
OkMeansAllServed ==
  \A c \in Conns : Replied(c) =>
    /\ \A u \in UnitsOf(c) :
         Cardinality({<<i, j>> \in (1..Len(served[c])) \X (1..Cardinality(UnitsOf(c))) :
                        j \in DOMAIN served[c][i].units /\ served[c][i].units[j] = u}) = 1
    /\ \A i \in DOMAIN served[c] :
         /\ \E p \in DOMAIN conn[c].got :
              /\ conn[c].plan.parts[p].units = served[c][i].units
              /\ conn[c].got[p].vals = served[c][i].vals
         /\ conn[c].cmd.op \in Keyed =>
              \A j \in DOMAIN served[c][i].units :
                ShardForKey[conn[c].cmd.keys[served[c][i].units[j]]] = served[c][i].s

\* The operations of a batch take effect in the order of the request, each after the answer
\* to the one before it (http.rs handle_batch), whichever shards they are for; one that
\* fails or conflicts leaves those before it done and those after it undone.
BatchRunsInOrder ==
  \A c \in Conns : conn[c].cmd.op = "batch" =>
    \A i \in DOMAIN served[c] : served[c][i].units = <<i>>

\* A scan followed to its last cursor (dispatch.rs dispatch_scan, http.rs handle_list)
\* returns every key that was there all along exactly once, and no key twice, whatever
\* is written and deleted between the pages.
ScanExactlyOnce ==
  \A c \in Conns : Replied(c) /\ conn[c].cmd.op = "scan" =>
    /\ \A i, j \in DOMAIN conn[c].seen : conn[c].seen[i] = conn[c].seen[j] => i = j
    /\ conn[c].cursor[2] = Done => steady[c] \subseteq ToSet(conn[c].seen)

\* When nothing can move by itself any more, every command has been answered, unless its
\* connection's own shard ended: no wakeup is lost (poke_wakeup comes after the send, and
\* serve drains its inbox before it sleeps), no parked sender is forgotten, and shards
\* that send to each other do not wait in a circle.
NoCommandStuck ==
  ~ ENABLED Progress => \A c \in Conns : conn[c].pc \in {"idle", "done", "gone"}

=============================================================================
