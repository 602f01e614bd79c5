---------------------------- MODULE NamespaceLog ----------------------------
(***************************************************************************)
(* The append-only log of one namespace (crates/engine/src/log/mod.rs,    *)
(* with reclaim.rs, and the value store as the log uses it).              *)
(*                                                                         *)
(* A shard is one single-threaded runtime: tasks interleave only at an    *)
(* .await.  Every action below is what a task does from one .await to the *)
(* next.  The tasks are the writers (Tasks), the maintenance operation    *)
(* holding reclaim_in_progress (a reclaim or a flush), the sealer of a    *)
(* shutdown or handoff, and the one-second sync timer.  A crash stops all *)
(* of them at any point, keeps an arbitrary part of what was not yet on   *)
(* disk, and reopens the namespace.                                       *)
(***************************************************************************)
EXTENDS LogFiles

CONSTANTS
  Tasks,            \* tasks that call the write methods
  StripeOf,         \* the write stripe of each key (stripe_idx)
  Ops,              \* the calls writers may make
  Scenarios,        \* the situations examined, each with its bounds (see budget)
  Fanout,           \* LogConfig::fanout
  MaxFile           \* bound on file ids

Stripes == {StripeOf[k] : k \in Keys}
FileIds == 0 .. MaxFile
\* Files as open handles know them: file f by its name, or, when the name of f has been
\* unlinked or given to another file, the file that had it.
Unnamed(f) == MaxFile + 1 + f
Inodes == FileIds \cup {Unnamed(f) : f \in FileIds}
\* LogFile::file_id of a handle.
FileId(n) == IF n > MaxFile THEN n - MaxFile - 1 ELSE n

\* A call: put_full and put_many (cond "Any"), put_full_cond, tombstone ("Any"),
\* tombstone_cond ("Revision") and ttl_update.
Op == [kind : {"put", "del", "ttl"}, ttl : Nat,
       pairs : Seq([key : Keys, val : Hashes \cup {Inline}]),
       cond : {"Any", "KeyAbsent", "KeyPresent", "Revision"}]

ASSUME TasksAssumption ==
  IsFiniteSet(Tasks) /\ Tasks \cap {"free", "reclaim", "seal"} = {}
ASSUME StripesAssumption == StripeOf \in [Keys -> Nat]
ASSUME OpsAssumption == Ops \subseteq Op /\ \A op \in Ops : op.pairs # <<>>

VARIABLES
  tk,         \* the writer tasks
  lock,       \* write_stripes: the task that holds each stripe, or Free
  inFlight,   \* in_flight_writes
  reclaiming, \* reclaim_in_progress
  frozen,     \* frozen
  rotating,   \* rotate_in_progress
  idx,        \* the index
  data,       \* the contents of the files (Inodes)
  linked,     \* the ids that have a directory entry
  poisoned,   \* the files whose open handle refuses appends
  active,     \* the active file
  sealed,     \* the ids in the sealed map
  level,      \* the level map (absent ids are at level 0)
  lost,       \* whether the active handle, and which sealed ones, are on unnamed files
  unsynced,   \* unsynced_bytes, in slots
  lastTs,     \* last_tstamp
  vs,         \* the value store: refs, pending_delete, blob files on disk
  foot,       \* footers being written, by owner
  mt, sl, sy, \* maintenance, sealer, sync timer
  clock,      \* wall clock
  up,         \* the last open succeeded
  budget      \* the scenario: how many calls (ops), maintenances, seals, kills, power
              \* losses, faults and ticks are left; calls, the ones made; writers, how many
              \* at a time; of, the faults and losses it began with; rotate,
              \* LogConfig::rotate_threshold in slots

gate  == <<lock, inFlight>>
flags == <<reclaiming, frozen, rotating>>
disk  == <<data, linked, poisoned>>
files == <<active, sealed, level, lost>>
procs == <<mt, sl, sy>>
vars  == <<tk, gate, flags, idx, disk, files, unsynced, lastTs, vs, foot, procs,
           clock, up, budget>>

-----------------------------------------------------------------------------
(* Helpers.                                                                *)

Free == "free"
Owners == Tasks \cup {"reclaim", "seal"}

NoOp == [kind |-> "none", ttl |-> NoTtl, pairs |-> <<>>, cond |-> "Any"]
Idle == [pc |-> "idle", op |-> NoOp, rev |-> 0, now |-> 0, ts |-> <<>>,
         file |-> 0, off |-> 0, old |-> Inline]
NoFooter == [pc |-> "none", file |-> 0, off |-> 0, ents |-> {}, synced |-> {}]
MtIdle == [pc |-> "idle", ids |-> {}, next |-> 0, lvl |-> 0]
SlIdle == [pc |-> "idle", file |-> 0, synced |-> {}]
SyIdle == [pc |-> "idle", file |-> 0, synced |-> {}, todo |-> {}]

Spend(what) == budget[what] > 0 /\ budget' = [budget EXCEPT ![what] = @ - 1]

\* LogFile::append reserves its offset before the write is issued.
Reserve(d, f, slots) == [d EXCEPT ![f] = @ \o slots]
MarkWritten(d, f, off, n) == [d EXCEPT ![f] = SetStatus(@, off + 1 .. off + n, "written")]
MarkTorn(d, f, off, n) == [d EXCEPT ![f] = SetStatus(@, off + 1 .. off + n, "torn")]
\* Mutation: the fsync is left out.
NotFsynced(d, f, S) == d
Fsynced(d, f, S) == [d EXCEPT ![f] = SetStatus(@, S, "durable")]

\* The value store.  put and the per-blob step of collect_garbage hold the file
\* stripe of the hash and are atomic with respect to each other.
\* The blob is written only when this is the first reference.
VsPut(v, h) == [v EXCEPT !.refs[h] = @ + 1,
                         !.blobs = IF v.refs[h] = 0 THEN @ \cup {h} ELSE @]
VsUnref(h, v) ==
  IF h = Inline \/ v.refs[h] = 0 THEN v
  ELSE [v EXCEPT !.refs[h] = @ - 1,
                 !.pending = IF v.refs[h] = 1 THEN @ \cup {h} ELSE @]
VsClear == [refs |-> [h \in Hashes |-> 0], pending |-> {}, blobs |-> {}]
\* Refcounts rebuilt from the sidecar at open, then sweep_orphans.
VsOpen(i, blobs) ==
  LET refs == [h \in Hashes |-> Cardinality({k \in Keys : i.valsep[k] = h})]
  IN [refs |-> refs, pending |-> {}, blobs |-> {h \in blobs : refs[h] > 0}]

NextFile(S) == Max(S \cup {active}) + 1

\* The files the active handle and the handles of the sealed map are open on.
ActiveFile == IF lost.active THEN Unnamed(active) ELSE active
SealedFile(f) == IF f \in lost.sealed THEN Unnamed(f) ELSE f
\* locate_file looks at the active file first.
Located(f) == IF f = active THEN ActiveFile ELSE SealedFile(f)
\* lost when the handle on file n enters the sealed map, in place of one with its id.
LostSealing(n) ==
  [lost EXCEPT !.sealed = IF n > MaxFile THEN @ \cup {FileId(n)} ELSE @ \ {n}]

\* The handles a process holds on the files F keep them when their names go away.
Detached(p, F) ==
  IF p.file \in F /\ p.pc \in {"sync", "footer", "opened", "fsync", "body", "trailer"}
  THEN [p EXCEPT !.file = Unnamed(@)] ELSE p
Detach(F) ==
  /\ sl' = Detached(sl, F) /\ sy' = Detached(sy, F)
  /\ foot' = [o \in Owners |-> Detached(foot[o], F)]
DetachedData(F) ==
  [n \in Inodes |-> IF n > MaxFile /\ FileId(n) \in F THEN data[FileId(n)] ELSE data[n]]
DetachedPoison(F) == {IF n \in F THEN Unnamed(n) ELSE n : n \in poisoned}

LevelOf(f) == IF f \in DOMAIN level THEN level[f] ELSE 0

CondHolds(cond, rev, live) ==
  CASE cond = "Any"        -> TRUE
    [] cond = "KeyAbsent"  -> live = 0
    [] cond = "KeyPresent" -> live # 0
    [] cond = "Revision"   -> live = rev /\ rev # 0

\* Mutation: the batch takes the stripe of its first key only.
NeedFirst(op) == {StripeOf[op.pairs[1].key]}
Need(op) == {StripeOf[op.pairs[i].key] : i \in DOMAIN op.pairs}
Held(t) == {s \in Stripes : lock[s] = t}

\* Mutation: nobody waits for the writes in flight.
NoDrain == TRUE
\* Mutation: calls are counted from before await_reclaim, not from begin_write.
DrainedOfCallers == \A t \in Tasks : tk[t].pc = "idle"
\* The drain loops of freeze_and_drain, reclaim and flush have seen no write.
Drained == inFlight = 0

Init ==
  /\ tk = [t \in Tasks |-> Idle]
  /\ lock = [s \in Stripes |-> Free] /\ inFlight = 0
  /\ reclaiming = FALSE /\ frozen = FALSE /\ rotating = FALSE
  /\ idx = EmptyIndex
  /\ data = [n \in Inodes |-> <<>>] /\ linked = {0} /\ poisoned = {}
  /\ active = 0 /\ sealed = {} /\ level = [f \in {} |-> 0]
  /\ lost = [active |-> FALSE, sealed |-> {}]
  /\ unsynced = 0 /\ lastTs = 0
  /\ vs = VsClear
  /\ foot = [o \in Owners |-> NoFooter]
  /\ mt = MtIdle /\ sl = SlIdle /\ sy = SyIdle
  /\ clock = 0 /\ up = TRUE /\ budget \in Scenarios

-----------------------------------------------------------------------------
(* Writers.                                                                *)

\* Mutation: the write guard is not dropped.
ReturnLeaksGuard(t, mine) ==
  /\ tk' = [tk EXCEPT ![t] = Idle]
  /\ lock' = [s \in Stripes |-> IF mine[s] = t THEN Free ELSE mine[s]]
  /\ UNCHANGED inFlight
\* The write guard and the stripe guards are dropped; mine is the lock table
\* with the stripes t holds.
Return(t, mine) ==
  /\ tk' = [tk EXCEPT ![t] = Idle]
  /\ lock' = [s \in Stripes |-> IF mine[s] = t THEN Free ELSE mine[s]]
  /\ inFlight' = inFlight - 1

\* A client calls a write method.  A revision to compare with is one the log
\* has handed out.
Call(t) ==
  /\ up /\ tk[t].pc = "idle" /\ Spend("ops")
  /\ Cardinality({u \in Tasks : tk[u].pc # "idle"}) < budget.writers
  /\ \E op \in Ops \cap budget.calls, rev \in 0 .. lastTs :
       /\ (op.cond = "Revision") <=> (rev # 0)
       /\ tk' = [tk EXCEPT ![t] = [Idle EXCEPT !.pc = "gate", !.op = op,
                                               !.rev = rev, !.now = clock]]
  /\ UNCHANGED <<gate, flags, idx, disk, files, unsynced, lastTs, vs, foot, procs,
                 clock, up>>

\* await_reclaim has seen no reclaim; begin_write follows without an await.
Enter(t) ==
  /\ tk[t].pc = "gate" /\ ~reclaiming
  /\ \/ frozen /\ tk' = [tk EXCEPT ![t] = Idle] /\ UNCHANGED inFlight
     \/ ~frozen /\ tk' = [tk EXCEPT ![t].pc = "lock"] /\ inFlight' = inFlight + 1
  /\ UNCHANGED <<lock, flags, idx, disk, files, unsynced, lastTs, vs, foot, procs,
                 clock, up, budget>>

\* Mutation: a stripe is taken whoever holds it.
CanTakeBusy(t, s) ==
  /\ tk[t].pc = "lock"
  /\ s \in Need(tk[t].op) \ Held(t)
  /\ \A r \in Need(tk[t].op) \ Held(t) : s <= r
\* Stripes are taken in ascending order.
CanTake(t, s) ==
  /\ tk[t].pc = "lock" /\ lock[s] = Free
  /\ s \in Need(tk[t].op) \ Held(t)
  /\ \A r \in Need(tk[t].op) \ Held(t) : s <= r

TakesLast(t, s) == CanTake(t, s) /\ Need(tk[t].op) \subseteq Held(t) \cup {s}

TakeStripe(t, s) ==
  /\ CanTake(t, s) /\ ~TakesLast(t, s)
  /\ lock' = [lock EXCEPT ![s] = t]
  /\ UNCHANGED <<tk, inFlight, flags, idx, disk, files, unsynced, lastTs, vs, foot,
                 procs, clock, up, budget>>

\* append reserves room for the records, or fails at once on a poisoned file and
\* the caller drops the blob references it took (undo).
AppendRecords(t, task, mine, v, slots, undo) ==
  \/ /\ ActiveFile \notin poisoned
     /\ data' = Reserve(data, ActiveFile, slots)
     /\ tk' = [tk EXCEPT ![t] = [task EXCEPT !.pc = "append", !.file = ActiveFile,
                                             !.off = Len(data[ActiveFile])]]
     /\ lock' = mine /\ vs' = v
     /\ UNCHANGED inFlight
  \/ /\ ActiveFile \in poisoned
     /\ vs' = FoldFunction(VsUnref, v, undo)
     /\ Return(t, mine)
     /\ UNCHANGED data

Vals(op) == [i \in DOMAIN op.pairs |-> op.pairs[i].val]

\* The loop over the pairs of a put from pair i on: every pair gets a revision;
\* a large value is handed to the value store, which may wait; when no pair is
\* left the records are appended.
PutPairs(t, i, mine, v) ==
  LET op   == tk[t].op
      n    == Len(op.pairs)
      seps == {j \in i .. n : op.pairs[j].val # Inline}
      upto == IF seps = {} THEN n ELSE Min(seps)
      ts   == tk[t].ts \o [j \in 1 .. upto - i + 1 |-> lastTs + j]
      task == [tk[t] EXCEPT !.ts = ts]
  IN /\ lastTs' = lastTs + (upto - i + 1)
     /\ \/ /\ seps # {}
           /\ tk' = [tk EXCEPT ![t] = [task EXCEPT !.pc = "separate"]]
           /\ lock' = mine /\ vs' = v
           /\ UNCHANGED <<inFlight, data>>
        \/ /\ seps = {}
           /\ AppendRecords(t, task, mine, v,
                [j \in 1 .. n |-> RecordSlot("put", op.pairs[j].key, ts[j], op.ttl,
                                             op.pairs[j].val)],
                Vals(op))

\* The condition of a conditional write is evaluated under the stripe.
Condition(t) ==
  LET task == tk[t] IN
  CondHolds(task.op.cond, task.rev, LiveRev(idx, task.op.pairs[1].key, task.now))

StartPut(t, s) ==
  /\ TakesLast(t, s) /\ tk[t].op.kind = "put" /\ Condition(t)
  /\ PutPairs(t, 1, [lock EXCEPT ![s] = t], vs)
  /\ UNCHANGED <<flags, idx, linked, poisoned, files, unsynced, foot, procs, clock,
                 up, budget>>

\* Mutation: a delete does not take its stripe.
StartDelUnlocked(t, s) ==
  LET k == tk[t].op.pairs[1].key IN
  /\ tk[t].pc = "lock" /\ tk[t].op.kind = "del" /\ Condition(t) /\ Present(idx, k)
  /\ idx' = RemoveKey(idx, k)
  /\ lastTs' = lastTs + 1
  /\ AppendRecords(t, [tk[t] EXCEPT !.ts = <<lastTs + 1>>, !.old = idx.valsep[k]],
                   lock, vs, <<RecordSlot("del", k, lastTs + 1, NoTtl, Inline)>>, <<>>)
  /\ UNCHANGED <<flags, linked, poisoned, files, unsynced, foot, procs, clock, up,
                 budget>>
\* tombstone and tombstone_cond: the key leaves the index before its tombstone is
\* appended, and stays out when the append fails.
StartDel(t, s) ==
  LET k    == tk[t].op.pairs[1].key
      mine == [lock EXCEPT ![s] = t]
  IN
  /\ TakesLast(t, s) /\ tk[t].op.kind = "del" /\ Condition(t) /\ Present(idx, k)
  /\ idx' = RemoveKey(idx, k)
  /\ lastTs' = lastTs + 1
  /\ AppendRecords(t, [tk[t] EXCEPT !.ts = <<lastTs + 1>>, !.old = idx.valsep[k]],
                   mine, vs, <<RecordSlot("del", k, lastTs + 1, NoTtl, Inline)>>, <<>>)
  /\ UNCHANGED <<flags, linked, poisoned, files, unsynced, foot, procs, clock, up,
                 budget>>

StartTtl(t, s) ==
  LET op == tk[t].op IN
  /\ TakesLast(t, s) /\ op.kind = "ttl"
  /\ lastTs' = lastTs + 1
  /\ AppendRecords(t, [tk[t] EXCEPT !.ts = <<lastTs + 1>>], [lock EXCEPT ![s] = t], vs,
       <<RecordSlot("ttl", op.pairs[1].key, lastTs + 1, op.ttl, Inline)>>, <<>>)
  /\ UNCHANGED <<flags, idx, linked, poisoned, files, unsynced, foot, procs, clock,
                 up, budget>>

\* tombstone of an absent key: nothing is written, and a deadline that was set for the key
\* goes.
DelAbsent(t, s) ==
  LET k == tk[t].op.pairs[1].key IN
  /\ TakesLast(t, s) /\ tk[t].op.kind = "del" /\ Condition(t) /\ ~Present(idx, k)
  /\ idx' = RemoveKey(idx, k)
  /\ Return(t, lock)
  /\ UNCHANGED <<flags, disk, files, unsynced, lastTs, vs, foot, procs, clock, up, budget>>

\* A condition that does not hold: nothing is written.
Refuse(t, s) ==
  /\ TakesLast(t, s) /\ ~Condition(t)
  /\ Return(t, lock)
  /\ UNCHANGED <<flags, idx, disk, files, unsynced, lastTs, vs, foot, procs, clock,
                 up, budget>>

\* maybe_separate of pair Len(ts) is done: the blob is durable and referenced.
Separated(t) ==
  LET n == Len(tk[t].ts) IN
  /\ tk[t].pc = "separate"
  /\ PutPairs(t, n + 1, lock, VsPut(vs, tk[t].op.pairs[n].val))
  /\ UNCHANGED <<flags, idx, linked, poisoned, files, unsynced, foot, procs, clock,
                 up, budget>>

\* The blob cannot be written: put rolls its reference back and the call fails.  The
\* file may be untouched, already truncated, or complete but for the last fsync.
\* References taken for earlier pairs of a put_many are not dropped.
SeparateFails(t) ==
  LET h == tk[t].op.pairs[Len(tk[t].ts)].val IN
  /\ tk[t].pc = "separate" /\ Spend("faults")
  /\ vs.refs[h] = 0
  /\ \E left \in {vs.blobs, vs.blobs \ {h}, vs.blobs \cup {h}} :
       vs' = [vs EXCEPT !.blobs = left]
  /\ Return(t, lock)
  /\ UNCHANGED <<flags, idx, disk, files, unsynced, lastTs, foot, procs, clock, up>>

\* A footer of file f over index i is begun by owner o: its body is reserved.
StartFooter(o, d, i, f) ==
  LET ents == FooterEntries(i, FileId(f)) IN
  /\ foot' = [foot EXCEPT ![o] = [pc |-> "body", file |-> f, off |-> Len(d[f]),
                                  ents |-> ents, synced |-> {}]]
  /\ data' = Reserve(d, f, BodySlots(ents))

\* The pairs of a put that write key k; the last one wins.
PairsOf(task, k) == {j \in DOMAIN task.op.pairs : task.op.pairs[j].key = k}

\* The index after the loop of apply_valsep_insert over the pairs.
InsertPairs(i, task) ==
  LET Put(k) == PairsOf(task, k) # {}
      Won(k) == Max(PairsOf(task, k))
  IN [map    |-> [k \in Keys |-> IF Put(k)
                    THEN [file |-> FileId(task.file), off |-> task.off + Won(k),
                          ts |-> task.ts[Won(k)]]
                    ELSE i.map[k]],
      ttl    |-> [k \in Keys |-> IF Put(k) THEN task.op.ttl ELSE i.ttl[k]],
      valsep |-> [k \in Keys |-> IF Put(k) THEN task.op.pairs[Won(k)].val ELSE i.valsep[k]]]

\* Mutation: a key twice in one batch is taken to replace the old value twice.
ReplacedBefore(i, task) == [j \in DOMAIN task.ts |-> i.valsep[task.op.pairs[j].key]]
\* The blob hashes the pairs replace, in order.
Replaced(i, task) ==
  [j \in DOMAIN task.ts |->
     LET k      == task.op.pairs[j].key
         before == {m \in PairsOf(task, k) : m < j}
     IN IF before = {} THEN i.valsep[k] ELSE task.op.pairs[Max(before)].val]

\* The records of a put are in the file: the index takes them, replaced blobs lose
\* a reference, and the write that finds its file full rotates the active file,
\* still holding its stripes and its guard.
CommitPut(t) ==
  LET task == tk[t]
      n    == Len(task.ts)
      d    == MarkWritten(data, task.file, task.off, n)
      done == InsertPairs(idx, task)
      full == Len(data[task.file]) >= budget.rotate
  IN
  /\ task.pc = "append" /\ task.op.kind = "put"
  /\ idx' = done
  /\ vs' = FoldFunction(VsUnref, vs, Replaced(idx, task))
  /\ unsynced' = unsynced + n
  /\ \/ /\ full /\ ~rotating /\ ActiveFile \notin poisoned
        /\ rotating' = TRUE
        /\ StartFooter(t, d, done, ActiveFile)
        /\ tk' = [tk EXCEPT ![t].pc = "rotate"]
        /\ UNCHANGED gate
     \/ /\ ~full \/ rotating \/ ActiveFile \in poisoned
        /\ Return(t, lock)
        /\ data' = d
        /\ UNCHANGED <<foot, rotating>>
  /\ UNCHANGED <<reclaiming, frozen, linked, poisoned, files, lastTs, procs, clock, up,
                 budget>>

CommitDel(t) ==
  /\ tk[t].pc = "append" /\ tk[t].op.kind = "del"
  /\ data' = MarkWritten(data, tk[t].file, tk[t].off, 1)
  /\ vs' = VsUnref(tk[t].old, vs)
  /\ unsynced' = unsynced + 1
  /\ Return(t, lock)
  /\ UNCHANGED <<flags, idx, linked, poisoned, files, lastTs, foot, procs, clock, up,
                 budget>>

CommitTtl(t) ==
  /\ tk[t].pc = "append" /\ tk[t].op.kind = "ttl"
  /\ data' = MarkWritten(data, tk[t].file, tk[t].off, 1)
  /\ idx' = SetTtl(idx, tk[t].op.pairs[1].key, tk[t].op.ttl)
  /\ unsynced' = unsynced + 1
  /\ Return(t, lock)
  /\ UNCHANGED <<flags, linked, poisoned, files, lastTs, vs, foot, procs, clock, up,
                 budget>>

\* The write fails: the file is poisoned, and a put drops the references it took.
AppendFails(t) ==
  /\ tk[t].pc = "append" /\ Spend("faults")
  /\ data' = MarkTorn(data, tk[t].file, tk[t].off, Len(tk[t].ts))
  /\ poisoned' = poisoned \cup {tk[t].file}
  /\ vs' = IF tk[t].op.kind = "put" THEN FoldFunction(VsUnref, vs, Vals(tk[t].op)) ELSE vs
  /\ Return(t, lock)
  /\ UNCHANGED <<flags, idx, linked, files, unsynced, lastTs, foot, procs, clock, up>>

-----------------------------------------------------------------------------
(* Footers: write_footer appends the body, then the trailer, then fsyncs.  *)
(* Its caller goes on when the fsync returns.                              *)

BodyLen(o) == Len(BodySlots(foot[o].ents))

FooterBody(o) ==
  LET f == foot[o].file
      d == MarkWritten(data, f, foot[o].off, BodyLen(o))
  IN
  /\ foot[o].pc = "body" /\ f \notin poisoned
  /\ data' = Reserve(d, f, <<FooterSlot("trailer", foot[o].ents)>>)
  /\ foot' = [foot EXCEPT ![o].pc = "trailer", ![o].off = Len(d[f])]
  /\ UNCHANGED <<tk, gate, flags, idx, linked, poisoned, files, unsynced, lastTs, vs,
                 procs, clock, up, budget>>

FooterTrailer(o) ==
  LET f == foot[o].file
      d == MarkWritten(data, f, foot[o].off, 1)
  IN
  /\ foot[o].pc = "trailer"
  /\ data' = d
  /\ foot' = [foot EXCEPT ![o].pc = "fsync", ![o].synced = Written(d[f])]
  /\ UNCHANGED <<tk, gate, flags, idx, linked, poisoned, files, unsynced, lastTs, vs,
                 procs, clock, up, budget>>

\* The files after o's footer has been fsynced.
FooterSynced(o) == Fsynced(data, foot[o].file, foot[o].synced)

\* write_footer fails: an append fails and poisons the file, the trailer finds the
\* file poisoned by another append, or the fsync fails.
FooterFails(o) ==
  LET f == foot[o].file IN
  /\ foot' = [foot EXCEPT ![o] = NoFooter]
  /\ \/ /\ foot[o].pc \in {"body", "trailer"} /\ Spend("faults")
        /\ data' = MarkTorn(data, f, foot[o].off,
                            IF foot[o].pc = "body" THEN BodyLen(o) ELSE 1)
        /\ poisoned' = poisoned \cup {f}
     \/ /\ foot[o].pc = "body" /\ f \in poisoned
        /\ data' = MarkWritten(data, f, foot[o].off, BodyLen(o))
        /\ UNCHANGED <<poisoned, budget>>
     \/ /\ foot[o].pc = "fsync" /\ Spend("faults")
        /\ UNCHANGED <<data, poisoned>>

\* open_rw of file n: the file is created unless its name exists.
OpenRw(d, n) == IF n \in linked THEN d ELSE [d EXCEPT ![n] = <<>>]

\* Mutation: the old active file does not enter the sealed map.
OpenActiveForgets(d, S, n) ==
  /\ n \in FileIds
  /\ data' = OpenRw(d, n)
  /\ linked' = linked \cup {n} /\ poisoned' = poisoned \ {n}
  /\ active' = n /\ UNCHANGED sealed
  /\ unsynced' = 0
\* A fresh active file n follows the sealed files S.
OpenActive(d, S, n) ==
  /\ n \in FileIds
  /\ data' = OpenRw(d, n)
  /\ linked' = linked \cup {n} /\ poisoned' = poisoned \ {n}
  /\ active' = n /\ sealed' = S
  /\ unsynced' = 0

\* rotate_active_inner after its footer.
RotateDone(t) ==
  LET S == sealed \cup {FileId(foot[t].file)} IN
  /\ tk[t].pc = "rotate" /\ foot[t].pc = "fsync"
  /\ OpenActive(FooterSynced(t), S, NextFile(S))
  /\ lost' = [LostSealing(foot[t].file) EXCEPT !.active = FALSE]
  /\ foot' = [foot EXCEPT ![t] = NoFooter]
  /\ rotating' = FALSE
  /\ Return(t, lock)
  /\ UNCHANGED <<reclaiming, frozen, idx, level, lastTs, vs, procs, clock, up, budget>>

RotateFails(t) ==
  /\ tk[t].pc = "rotate"
  /\ FooterFails(t)
  /\ rotating' = FALSE
  /\ Return(t, lock)
  /\ UNCHANGED <<reclaiming, frozen, idx, linked, files, unsynced, lastTs, vs, procs,
                 clock, up>>

\* The next active file cannot be opened: the sealed file stays the active one.
RotateOpenFails(t) ==
  /\ tk[t].pc = "rotate" /\ foot[t].pc = "fsync" /\ Spend("faults")
  /\ data' = FooterSynced(t)
  /\ sealed' = sealed \cup {FileId(foot[t].file)} /\ lost' = LostSealing(foot[t].file)
  /\ foot' = [foot EXCEPT ![t] = NoFooter]
  /\ rotating' = FALSE
  /\ Return(t, lock)
  /\ UNCHANGED <<reclaiming, frozen, idx, linked, poisoned, active, level, unsynced,
                 lastTs, vs, procs, clock, up>>

-----------------------------------------------------------------------------
(* Reclaim.  A second reclaim or flush while one runs returns              *)
(* ReclamationBusy and changes nothing, so one maintenance task suffices.  *)

ReclaimStart ==
  /\ up /\ mt.pc = "idle" /\ ~reclaiming /\ Spend("maint")
  /\ reclaiming' = TRUE
  /\ mt' = [MtIdle EXCEPT !.pc = "drain"]
  /\ UNCHANGED <<tk, gate, frozen, rotating, idx, disk, files, unsynced, lastTs, vs,
                 foot, sl, sy, clock, up>>

\* The operation returns and clears its flag, whether it succeeded or not.
MtReturn == reclaiming' = FALSE /\ mt' = MtIdle

\* The drain has seen no write in flight; the footer of the active file is built
\* without a further await.
ReclaimSeal ==
  /\ mt.pc = "drain" /\ Drained
  /\ \/ /\ ActiveFile \notin poisoned
        /\ StartFooter("reclaim", data, idx, ActiveFile)
        /\ mt' = [mt EXCEPT !.pc = "seal"]
        /\ UNCHANGED reclaiming
     \/ /\ ActiveFile \in poisoned
        /\ MtReturn
        /\ UNCHANGED <<foot, data>>
  /\ UNCHANGED <<tk, gate, frozen, rotating, idx, linked, poisoned, files, unsynced,
                 lastTs, vs, sl, sy, clock, up, budget>>

ReclaimSealed ==
  /\ mt.pc = "seal" /\ foot["reclaim"].pc = "fsync"
  /\ data' = FooterSynced("reclaim")
  /\ sealed' = sealed \cup {FileId(foot["reclaim"].file)}
  /\ lost' = LostSealing(foot["reclaim"].file)
  /\ foot' = [foot EXCEPT !["reclaim"] = NoFooter]
  /\ mt' = [mt EXCEPT !.pc = "merge"]
  /\ UNCHANGED <<tk, gate, flags, idx, linked, poisoned, active, level, unsynced,
                 lastTs, vs, sl, sy, clock, up, budget>>

ReclaimSealFails ==
  /\ mt.pc = "seal"
  /\ FooterFails("reclaim")
  /\ MtReturn
  /\ UNCHANGED <<tk, gate, frozen, rotating, idx, linked, files, unsynced, lastTs, vs,
                 sl, sy, clock, up>>

Runs(l) == {f \in sealed : LevelOf(f) = l}
FullLevels == {l \in {LevelOf(f) : f \in sealed} : Cardinality(Runs(l)) >= Fanout}

\* The keys whose record lies in one of the files ids, in some order, and the
\* slots of the merged file: their records copied verbatim, then a footer.
\* Deadlines come from the index, blob hashes from the copied records.
MergeOrder(ids) ==
  LET ks == {k \in Live(idx) : idx.map[k].file \in ids}
  IN CHOOSE s \in [1..Cardinality(ks) -> ks] : IsInjective(s)

MergedSlots(ids) ==
  LET ks   == MergeOrder(ids)
      recs == [j \in DOMAIN ks |-> data[SealedFile(idx.map[ks[j]].file)][idx.map[ks[j]].off]]
      ents == {[key |-> ks[j], off |-> j, ts |-> idx.map[ks[j]].ts,
                ttl |-> idx.ttl[ks[j]], val |-> recs[j].val] : j \in DOMAIN ks}
  IN recs \o BodySlots(ents) \o <<FooterSlot("trailer", ents)>>

\* Mutation: the merged file is not fsynced before it gets its name.
MergedUnsynced(ids) ==
  LET all == MergedSlots(ids) IN
  SetStatus(all, {i \in DOMAIN all : all[i].st # "torn"}, "written")
\* Records and footer are fsynced before the rename; torn bytes are copied as they are.
Merged(ids) ==
  LET all == MergedSlots(ids) IN
  SetStatus(all, {i \in DOMAIN all : all[i].st # "torn"}, "durable")

\* The lowest full level is chosen, and the id of its merged run; nothing keeps
\* a seal that is resumed meanwhile from choosing the same id.
ReclaimMerge ==
  LET l == Min(FullLevels)
      n == NextFile(sealed)
  IN
  /\ mt.pc = "merge" /\ FullLevels # {} /\ n \in FileIds
  /\ mt' = [pc |-> "copy", ids |-> Runs(l), next |-> n, lvl |-> l]
  /\ UNCHANGED <<tk, gate, flags, idx, disk, files, unsynced, lastTs, vs, foot, sl, sy,
                 clock, up, budget>>

\* reclaim_namespace has copied the records and written the footer; the rename gives
\* the merged run its name, whatever had it before.
ReclaimRename ==
  LET F == {mt.next} \cap linked IN
  /\ mt.pc = "copy"
  /\ data' = [DetachedData(F) EXCEPT ![mt.next] = Merged(mt.ids)]
  /\ linked' = linked \cup {mt.next}
  /\ poisoned' = DetachedPoison(F) \ {mt.next}
  /\ lost' = [active |-> lost.active \/ active \in F, sealed |-> lost.sealed \cup (F \cap sealed)]
  /\ Detach(F)
  /\ mt' = [mt EXCEPT !.pc = "unlink"]
  /\ UNCHANGED <<tk, gate, flags, idx, active, sealed, level, unsynced, lastTs, vs, clock,
                 up, budget>>

\* The inputs are unlinked concurrently: one more name is gone.
ReclaimUnlink ==
  /\ mt.pc = "unlink"
  /\ \E f \in mt.ids \cap linked : linked' = linked \ {f}
  /\ UNCHANGED <<tk, gate, flags, idx, data, poisoned, files, unsynced, lastTs, vs, foot,
                 procs, clock, up, budget>>

\* The merged file is open: index, sealed map and levels change together.  A name
\* that could not be unlinked stays behind.
ReclaimSwap ==
  LET ks == MergeOrder(mt.ids) IN
  /\ mt.pc = "unlink"
  /\ IF mt.ids \cap linked = {} THEN UNCHANGED budget ELSE Spend("faults")
  /\ idx' = [idx EXCEPT !.map = [k \in Keys |->
               IF k \in Range(ks)
               THEN [file |-> mt.next, ts |-> idx.map[k].ts,
                     off |-> CHOOSE j \in DOMAIN ks : ks[j] = k]
               ELSE idx.map[k]]]
  /\ sealed' = (sealed \ mt.ids) \cup {mt.next}
  /\ level' = [f \in (DOMAIN level \ mt.ids) \cup {mt.next} |->
                 IF f = mt.next THEN mt.lvl + 1 ELSE level[f]]
  /\ lost' = [lost EXCEPT !.sealed = @ \ (mt.ids \cup {mt.next})]
  /\ mt' = [MtIdle EXCEPT !.pc = "merge"]
  /\ UNCHANGED <<tk, gate, flags, disk, active, unsynced, lastTs, vs, foot, sl, sy, clock,
                 up>>

\* No level is full any more: the id of a fresh active file is chosen,
ReclaimOpen ==
  /\ mt.pc = "merge" /\ FullLevels = {} /\ NextFile(sealed) \in FileIds
  /\ mt' = [mt EXCEPT !.pc = "open", !.next = NextFile(sealed)]
  /\ UNCHANGED <<tk, gate, flags, idx, disk, files, unsynced, lastTs, vs, foot, sl, sy,
                 clock, up, budget>>

\* and the file opened.
ReclaimDone ==
  /\ mt.pc = "open"
  /\ OpenActive(data, sealed, mt.next)
  /\ lost' = [lost EXCEPT !.active = FALSE]
  /\ MtReturn
  /\ UNCHANGED <<tk, gate, frozen, rotating, idx, level, lastTs, vs, foot, sl, sy, clock,
                 up, budget>>

\* A merge, the open of the merged file, or the open of the fresh active file
\* fails.  The sealed file stays the active one.
ReclaimFails ==
  /\ mt.pc \in {"copy", "unlink", "open"} /\ Spend("faults")
  /\ MtReturn
  /\ UNCHANGED <<tk, gate, frozen, rotating, idx, disk, files, unsynced, lastTs, vs, foot,
                 sl, sy, clock, up>>

-----------------------------------------------------------------------------
(* Flush (FLUSHDB), with the ValueStore::clear its caller does next.       *)

FlushStart ==
  /\ up /\ mt.pc = "idle" /\ ~reclaiming /\ Spend("maint")
  /\ reclaiming' = TRUE
  /\ mt' = [MtIdle EXCEPT !.pc = "flushDrain"]
  /\ UNCHANGED <<tk, gate, frozen, rotating, idx, disk, files, unsynced, lastTs, vs,
                 foot, sl, sy, clock, up>>

FlushClear ==
  /\ mt.pc = "flushDrain" /\ Drained
  /\ lastTs' = lastTs + 1
  /\ sealed' = {} /\ lost' = [lost EXCEPT !.sealed = {}]
  /\ idx' = EmptyIndex
  /\ mt' = [mt EXCEPT !.pc = "flush", !.ids = linked]
  /\ UNCHANGED <<tk, gate, flags, disk, active, level, unsynced, vs, foot, sl, sy, clock,
                 up, budget>>

FlushUnlink ==
  /\ mt.pc = "flush"
  /\ \E f \in mt.ids \cap linked : linked' = linked \ {f}
  /\ UNCHANGED <<tk, gate, flags, idx, data, poisoned, files, unsynced, lastTs, vs, foot,
                 procs, clock, up, budget>>

\* The level map is not cleared.  A handle to an unlinked file that the sealer or the
\* timer still holds, or a resume has put in the sealed map, keeps the nameless file.
FlushDone ==
  LET F == (({sl.file, sy.file, foot["seal"].file} \cup sealed) \cap FileIds) \ linked IN
  /\ mt.pc = "flush"
  /\ IF mt.ids \cap linked = {} THEN UNCHANGED budget ELSE Spend("faults")
  /\ data' = OpenRw(DetachedData(F), 0)
  /\ linked' = linked \cup {0} /\ poisoned' = DetachedPoison(F) \ {0}
  /\ active' = 0 /\ unsynced' = 0
  /\ lost' = [active |-> FALSE, sealed |-> lost.sealed \cup (F \cap sealed)]
  /\ vs' = VsClear
  /\ Detach(F)
  /\ MtReturn
  /\ UNCHANGED <<tk, gate, frozen, rotating, idx, sealed, level, lastTs, clock, up>>

\* data-0 cannot be opened: the nameless old file stays the active one.
FlushFails ==
  /\ mt.pc = "flush" /\ Spend("faults")
  /\ MtReturn
  /\ UNCHANGED <<tk, gate, frozen, rotating, idx, disk, files, unsynced, lastTs, vs, foot,
                 sl, sy, clock, up>>

-----------------------------------------------------------------------------
(* Seal (shutdown or handoff) and resume (handoff aborted).                *)

Freeze ==
  /\ up /\ sl.pc = "idle" /\ Spend("seals")
  /\ frozen' = TRUE
  /\ sl' = [SlIdle EXCEPT !.pc = "drain"]
  /\ UNCHANGED <<tk, gate, reclaiming, rotating, idx, disk, files, unsynced, lastTs, vs,
                 foot, mt, sy, clock, up>>

\* Drained, seal_active_for_shutdown takes the active file and fsyncs its records.
SealSync ==
  /\ sl.pc = "drain" /\ Drained /\ unsynced # 0
  /\ sl' = [pc |-> "sync", file |-> ActiveFile, synced |-> Written(data[ActiveFile])]
  /\ UNCHANGED <<tk, gate, flags, idx, disk, files, unsynced, lastTs, vs, foot, mt, sy,
                 clock, up, budget>>

\* Then, or at once when nothing is unsynced, it begins the footer of that file.
SealFooter ==
  LET f == IF sl.pc = "sync" THEN sl.file ELSE ActiveFile
      d == IF sl.pc = "sync" THEN Fsynced(data, f, sl.synced) ELSE data
  IN
  /\ sl.pc = "sync" \/ (sl.pc = "drain" /\ Drained /\ unsynced = 0)
  /\ unsynced' = 0
  /\ \/ /\ f \notin poisoned
        /\ StartFooter("seal", d, idx, f)
        /\ sl' = [pc |-> "footer", file |-> f, synced |-> {}]
     \/ /\ f \in poisoned
        /\ data' = d
        /\ sl' = [SlIdle EXCEPT !.pc = "failed"]
        /\ UNCHANGED foot
  /\ UNCHANGED <<tk, gate, flags, idx, linked, poisoned, files, lastTs, vs, mt, sy, clock,
                 up, budget>>

SealDone ==
  /\ sl.pc = "footer" /\ foot["seal"].pc = "fsync"
  /\ data' = FooterSynced("seal")
  /\ foot' = [foot EXCEPT !["seal"] = NoFooter]
  /\ sl' = [SlIdle EXCEPT !.pc = "sealed"]
  /\ UNCHANGED <<tk, gate, flags, idx, linked, poisoned, files, unsynced, lastTs, vs, mt,
                 sy, clock, up, budget>>

SealFails ==
  /\ \/ sl.pc = "footer" /\ FooterFails("seal")
     \/ sl.pc = "sync" /\ Spend("faults") /\ UNCHANGED <<data, poisoned, foot>>
  /\ sl' = [SlIdle EXCEPT !.pc = "failed"]
  /\ UNCHANGED <<tk, gate, flags, idx, linked, files, unsynced, lastTs, vs, mt, sy, clock,
                 up>>

\* reopen_active_after_seal: the active file enters the sealed map, the id of the next
\* one is chosen,
Resume ==
  LET S == sealed \cup {active} IN
  /\ sl.pc \in {"sealed", "failed"} /\ NextFile(S) \in FileIds
  /\ sealed' = S /\ lost' = LostSealing(ActiveFile)
  /\ sl' = [SlIdle EXCEPT !.pc = "reopen", !.file = NextFile(S)]
  /\ UNCHANGED <<tk, gate, flags, idx, disk, active, level, unsynced, lastTs, vs, foot, mt,
                 sy, clock, up, budget>>

\* the file is opened, its directory entry still to be fsynced,
ResumeOpen ==
  /\ sl.pc = "reopen"
  /\ data' = OpenRw(data, sl.file)
  /\ linked' = linked \cup {sl.file} /\ poisoned' = poisoned \ {sl.file}
  /\ sl' = [sl EXCEPT !.pc = "opened"]
  /\ UNCHANGED <<tk, gate, flags, idx, files, unsynced, lastTs, vs, foot, mt, sy, clock, up,
                 budget>>

\* and becomes the active one; unfreeze follows.
ResumeDone ==
  /\ sl.pc = "opened"
  /\ active' = FileId(sl.file) /\ lost' = [lost EXCEPT !.active = sl.file > MaxFile]
  /\ unsynced' = 0
  /\ frozen' = FALSE
  /\ sl' = SlIdle
  /\ UNCHANGED <<tk, gate, reclaiming, rotating, idx, disk, sealed, level, lastTs, vs, foot,
                 mt, sy, clock, up, budget>>

\* The fresh file cannot be opened: the namespace stays frozen on its old file.
ResumeFails ==
  /\ sl.pc = "reopen" /\ Spend("faults")
  /\ sl' = [SlIdle EXCEPT !.pc = "failed"]
  /\ UNCHANGED <<tk, gate, flags, idx, disk, files, unsynced, lastTs, vs, foot, mt, sy,
                 clock, up>>

-----------------------------------------------------------------------------
(* The one-second timer: sync, then collect_garbage.                       *)

TakePending ==
  /\ sy' = [pc |-> IF vs.pending = {} THEN "idle" ELSE "collect", file |-> 0,
            synced |-> {}, todo |-> vs.pending]
  /\ vs' = [vs EXCEPT !.pending = {}]

SyncStart ==
  /\ up /\ sy.pc = "idle"
  /\ \/ /\ unsynced > 0
        /\ sy' = [SyIdle EXCEPT !.pc = "fsync", !.file = ActiveFile,
                                !.synced = Written(data[ActiveFile])]
        /\ UNCHANGED vs
     \/ unsynced = 0 /\ vs.pending # {} /\ TakePending
  /\ UNCHANGED <<tk, gate, flags, idx, disk, files, unsynced, lastTs, foot, mt, sl, clock,
                 up, budget>>

SyncDone ==
  /\ sy.pc = "fsync"
  /\ data' = Fsynced(data, sy.file, sy.synced)
  /\ unsynced' = 0
  /\ TakePending
  /\ UNCHANGED <<tk, gate, flags, idx, linked, poisoned, files, lastTs, foot, mt, sl,
                 clock, up, budget>>

SyncFails ==
  /\ sy.pc = "fsync" /\ Spend("faults")
  /\ sy' = SyIdle
  /\ UNCHANGED <<tk, gate, flags, idx, disk, files, unsynced, lastTs, vs, foot, mt, sl,
                 clock, up>>

\* One queued blob, under its file stripe: removed unless referenced again.
Collect(h) ==
  /\ sy.pc = "collect" /\ h \in sy.todo
  /\ vs' = IF vs.refs[h] = 0 THEN [vs EXCEPT !.blobs = @ \ {h}] ELSE vs
  /\ sy' = IF sy.todo = {h} THEN SyIdle ELSE [sy EXCEPT !.todo = @ \ {h}]
  /\ UNCHANGED <<tk, gate, flags, idx, disk, files, unsynced, lastTs, foot, mt, sl, clock,
                 up, budget>>

-----------------------------------------------------------------------------
(* Crash and restart.                                                      *)

\* Blobs that a put may be writing: opening one truncates what the file held.
BeingWritten ==
  {h \in Hashes : vs.refs[h] = 0 /\
     \E t \in Tasks : tk[t].pc = "separate" /\ tk[t].op.pairs[Len(tk[t].ts)].val = h}

\* The process stops, or the machine loses power, at any point; the namespace is
\* opened again.  A file whose footer cannot be read keeps it from opening.
Crash(power) ==
  LET risk == UNION {{f} \X AtRisk(data[f], power) : f \in linked} IN
  /\ up /\ Spend(IF power THEN "losses" ELSE "kills")
  /\ \E keep \in SUBSET risk, ragged \in BOOLEAN, cut \in SUBSET BeingWritten :
       LET left == [f \in DOMAIN data |->
                      IF f \in linked
                      THEN Survive(data[f], power, {i \in DOMAIN data[f] : <<f, i>> \in keep},
                                   ragged)
                      ELSE <<>>]
           new  == OpenNamespace(left, linked)
       IN /\ new.active \in FileIds
          /\ up' = new.ok
          /\ idx' = IF new.ok THEN new.idx ELSE EmptyIndex
          /\ data' = IF new.ok THEN new.data ELSE left
          /\ linked' = IF new.ok THEN linked \cup {new.active} ELSE linked
          /\ active' = new.active /\ sealed' = new.sealed
          /\ lastTs' = Max({new.idx.map[k].ts : k \in Keys})
          /\ vs' = IF new.ok THEN VsOpen(new.idx, vs.blobs \ cut) ELSE vs
  /\ tk' = [t \in Tasks |-> Idle]
  /\ lock' = [s \in Stripes |-> Free] /\ inFlight' = 0
  /\ reclaiming' = FALSE /\ frozen' = FALSE /\ rotating' = FALSE
  /\ poisoned' = {} /\ level' = [f \in {} |-> 0]
  /\ lost' = [active |-> FALSE, sealed |-> {}] /\ unsynced' = 0
  /\ foot' = [o \in Owners |-> NoFooter]
  /\ mt' = MtIdle /\ sl' = SlIdle /\ sy' = SyIdle
  /\ UNCHANGED clock

Tick ==
  /\ Spend("ticks")
  /\ clock' = clock + 1
  /\ UNCHANGED <<tk, gate, flags, idx, disk, files, unsynced, lastTs, vs, foot, procs, up>>

-----------------------------------------------------------------------------

Writer(t) ==
  \/ Enter(t)
  \/ \E s \in Stripes : \/ TakeStripe(t, s)
                        \/ StartPut(t, s) \/ StartDel(t, s) \/ StartTtl(t, s)
                        \/ DelAbsent(t, s) \/ Refuse(t, s)
  \/ Separated(t) \/ SeparateFails(t)
  \/ CommitPut(t) \/ CommitDel(t) \/ CommitTtl(t) \/ AppendFails(t)
  \/ RotateDone(t) \/ RotateFails(t) \/ RotateOpenFails(t)

Footers == \E o \in Owners : FooterBody(o) \/ FooterTrailer(o)

Maintenance ==
  \/ ReclaimSeal \/ ReclaimSealed \/ ReclaimSealFails
  \/ ReclaimMerge \/ ReclaimRename \/ ReclaimUnlink \/ ReclaimSwap
  \/ ReclaimOpen \/ ReclaimDone \/ ReclaimFails
  \/ FlushClear \/ FlushUnlink \/ FlushDone \/ FlushFails

Sealer ==
  \/ SealSync \/ SealFooter \/ SealDone \/ SealFails
  \/ ResumeOpen \/ ResumeDone \/ ResumeFails

Timer == SyncDone \/ SyncFails \/ \E h \in Hashes : Collect(h)

\* What clients, operators and the world decide.
Environment ==
  \/ \E t \in Tasks : Call(t)
  \/ ReclaimStart \/ FlushStart \/ Freeze \/ Resume \/ SyncStart \/ Tick
  \/ \E power \in BOOLEAN : Crash(power)

\* A polling loop sleeps: await_reclaim, or one of the drains.
Polling ==
  \/ \E t \in Tasks : tk[t].pc = "gate" /\ reclaiming
  \/ mt.pc \in {"drain", "flushDrain"} /\ ~Drained
  \/ sl.pc = "drain" /\ ~Drained

\* Nothing is under way.
Quiet ==
  /\ \A t \in Tasks : tk[t].pc = "idle"
  /\ mt.pc = "idle" /\ sy.pc = "idle"
  /\ sl.pc \in {"idle", "sealed", "failed"}

Next ==
  \/ \E t \in Tasks : Writer(t)
  \/ Footers \/ Maintenance \/ Sealer \/ Timer \/ Environment
  \/ (Quiet \/ Polling) /\ UNCHANGED vars

Spec == Init /\ [][Next]_vars

\* Every I/O completes or fails, every sleep of a polling loop ends, and the
\* runtime polls every task that is ready.
FairSpec ==
  /\ Spec
  /\ \A t \in Tasks : WF_vars(Writer(t))
  /\ \A o \in Owners : WF_vars(FooterBody(o) \/ FooterTrailer(o))
  /\ WF_vars(Maintenance) /\ WF_vars(Sealer) /\ WF_vars(Timer)

-----------------------------------------------------------------------------
(* Properties.                                                             *)

\* The tasks that hold a write guard, and those past their last stripe.
Guarded == {t \in Tasks : tk[t].pc \in {"lock", "separate", "append", "rotate"}}
Writing == {t \in Tasks : tk[t].pc \in {"separate", "append", "rotate"}}

\* in_flight_writes counts the guards: begin_write and the drop of WriteGuard
\* balance on every path, early returns and failures included.
GuardsCounted == inFlight = Cardinality(Guarded)

\* A writer holds stripes only of its own keys, and all of them from the moment it
\* evaluates its condition until it returns.
StripesHeld ==
  \A t \in Tasks :
    /\ tk[t].pc \in {"idle", "gate"} => Held(t) = {}
    /\ tk[t].pc = "lock" => Held(t) \subseteq Need(tk[t].op)
    /\ t \in Writing => Held(t) = Need(tk[t].op)

\* reclaim_in_progress is set exactly while a reclaim or flush runs, and frozen from
\* the start of a seal to its resume.
FlagsOwned == (reclaiming <=> mt.pc # "idle") /\ (sl.pc # "idle" => frozen)

\* Two writes of one key never overlap between condition and commit (wlock).
SameKeyExclusion ==
  \A t, u \in Writing :
    t # u => {p.key : p \in Range(tk[t].op.pairs)} \cap {p.key : p \in Range(tk[u].op.pairs)} = {}

\* No write is in flight while a reclaim or a flush works on the files, or once
\* the sealer has drained: the index a footer is built from is the whole truth.
QuiescentSnapshot ==
  \/ Guarded = {}
  \/ /\ mt.pc \in {"idle", "drain", "flushDrain"}
     /\ sl.pc \in {"idle", "drain"}

\* The shape of the state the gate is about.
GateShape ==
  /\ tk = [t \in Tasks |-> tk[t]]
  /\ \A t \in Tasks :
       /\ DOMAIN tk[t] = DOMAIN Idle
       /\ tk[t].pc \in {"idle", "gate", "lock", "separate", "append", "rotate"}
       /\ tk[t].op \in Ops \cup {NoOp}
  /\ lock \in [Stripes -> Tasks \cup {Free}]
  /\ reclaiming \in BOOLEAN /\ frozen \in BOOLEAN
  /\ DOMAIN mt = DOMAIN MtIdle /\ DOMAIN sl = DOMAIN SlIdle

\* The gate as a whole: the write guards, the stripes and the two flags keep
\* writers, reclaims, flushes and seals apart (begin_write, wlock, await_reclaim,
\* freeze_and_drain).  It is inductive.
GateInv == GateShape /\ GuardsCounted /\ StripesHeld /\ FlagsOwned /\ QuiescentSnapshot

\* The condition a conditional write checked still holds when it commits: nothing
\* changes the key's live revision in between (put_full_cond).
CheckedConditionStands ==
  \A t \in Tasks :
    tk[t].pc \in {"separate", "append"} /\ tk[t].op.kind = "put" => Condition(t)

\* The slot an index entry points at.
At(e) == data[Located(e.file)][e.off]

\* The record of a live key is where the index says: its file is open, the bytes there
\* are the record of that key and revision, and a blob it names is on disk.
Readable(k) ==
  LET e == idx.map[k] IN
  /\ e.file \in sealed \cup {active}
  /\ e.off \in DOMAIN data[Located(e.file)]
  /\ At(e).kind = "put" /\ At(e).key = k /\ At(e).ts = e.ts
  /\ At(e).st \in {"written", "durable"}
  /\ At(e).val = Inline \/ At(e).val \in vs.blobs

\* The id names a file on disk, and the handle for the id is open on another one.
GivenTwice(f) == f \in linked /\ Located(f) # f

\* Until the power has failed (a footer can outlive the records it lists), every live key
\* can be read whatever a reclaim, flush, seal, collection or failure is doing, except
\* in a file whose id was given twice: files stay open and blobs on disk until the
\* index has left them (reclaim_inner, rotate_active_inner, flush, collect_garbage).
EntriesReadable ==
  budget.losses = budget.of.losses =>
    \A k \in Live(idx) : Readable(k) \/ GivenTwice(idx.map[k].file)

\* While the process runs, a key's record is replaced only by one with a larger
\* revision; a reclaim moves the record and keeps the revision.
RevisionsGrow ==
  [][budget'.kills = budget.kills /\ budget'.losses = budget.losses =>
       \A k \in Live(idx) : Present(idx', k) /\ idx'.map[k] # idx.map[k] =>
         \/ idx'.map[k].ts > idx.map[k].ts
         \/ mt.pc = "unlink" /\ idx'.map[k].ts = idx.map[k].ts]_vars

\* The blobs t has referenced for the put it is executing.
Claims(t, h) ==
  LET done == CASE tk[t].pc = "separate" -> 1 .. Len(tk[t].ts) - 1
                [] tk[t].pc = "append" /\ tk[t].op.kind = "put" -> DOMAIN tk[t].ts
                [] OTHER -> {}
      kept == IF tk[t].pc = "append" /\ tk[t].op.kind = "del" /\ tk[t].old = h THEN 1 ELSE 0
  IN Cardinality({i \in done : tk[t].op.pairs[i].val = h}) + kept

\* No reference is missing, so a blob in use cannot be collected; and outside a flush, as
\* long as nothing has failed, a blob's refcount is exactly the number of keys that refer
\* to it plus the references writers have taken and not yet committed or dropped.
RefcountsExact ==
  \A h \in Hashes :
    LET due == Cardinality({k \in Keys : idx.valsep[k] = h})
               + MapThenSumSet(LAMBDA t : Claims(t, h), Tasks)
    IN /\ vs.refs[h] >= due
       /\ mt.pc # "flush" /\ budget.faults = budget.of.faults => vs.refs[h] = due

\* What opening the files gives if the process is killed now.
AfterKill ==
  OpenNamespace([f \in DOMAIN data |-> Survive(data[f], FALSE, {}, FALSE)], linked)

\* A process killed while no write is in flight comes back with every live key at
\* the same revision and value, whatever a reclaim or a seal was doing.
LiveKeysRecover ==
  up /\ Guarded = {} =>
    LET new == AfterKill IN
    /\ new.ok
    /\ \A k \in Live(idx) :
         /\ new.idx.map[k].ts = idx.map[k].ts
         /\ new.data[new.idx.map[k].file][new.idx.map[k].off].val = At(idx.map[k]).val

\* A process killed while no write is in flight comes back without the keys that
\* were deleted: their tombstones are in the log.
DeletedKeysStayDeleted ==
  up /\ Guarded = {} /\ mt.pc # "flush" => Live(AfterKill.idx) \subseteq Live(idx)

\* The slots a power loss may or may not lose, and what opening the files gives when
\* those in keep reached the disk.
Unsynced == UNION {{f} \X AtRisk(data[f], TRUE) : f \in linked}
AfterPowerLoss(keep) ==
  OpenNamespace([f \in DOMAIN data |->
                   Survive(data[f], TRUE, {i \in DOMAIN data[f] : <<f, i>> \in keep}, FALSE)],
                linked)

\* When writes come one at a time: whatever else of the files reaches the disk, a live
\* key whose record is durable comes back after a power loss with that record or a later
\* one, if the namespace opens; and it opens unless the trailer of a footer reached the
\* disk before its fsync.
DurableRecordsSurvive ==
  up /\ budget.writers = 1 =>
    \A keep \in SUBSET Unsynced :
      LET new == AfterPowerLoss(keep) IN
      /\ new.ok \/ \E p \in keep : data[p[1]][p[2]].kind = "trailer"
      /\ new.ok => \A k \in Live(idx) :
                     At(idx.map[k]).st = "durable" => new.idx.map[k].ts >= idx.map[k].ts

\* Once a seal has succeeded, its files alone give the successor every live key, even
\* after a power loss.
SealedSurvives ==
  sl.pc = "sealed" =>
    \A keep \in SUBSET Unsynced :
      LET new == AfterPowerLoss(keep) IN
      new.ok /\ \A k \in Live(idx) : new.idx.map[k].ts = idx.map[k].ts

\* Every write call returns.
WritesReturn == \A t \in Tasks : tk[t].pc # "idle" ~> tk[t].pc = "idle"

\* A reclaim or flush ends, and so does a seal: no drain waits for a write that waits for
\* it, and no guard is left behind on an early return.
MaintenanceEnds ==
  /\ mt.pc # "idle" ~> mt.pc = "idle"
  /\ sl.pc = "drain" ~> sl.pc \notin {"drain", "sync", "footer"}
=============================================================================
