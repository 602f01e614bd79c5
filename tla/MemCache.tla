------------------------------ MODULE MemCache ------------------------------
(***************************************************************************)
(* The S3-FIFO cache of a shard (crates/engine/src/cache.rs).  Every call  *)
(* runs to completion on the shard's thread, so every call is one action.  *)
(*                                                                         *)
(* An entry's value, metadata and revision are one content; its size, its  *)
(* deadline and its frequency bit are kept.  Namespace prefixes are a      *)
(* function from keys: the cache knows no other structure of a key.        *)
(***************************************************************************)
EXTENDS Integers, FiniteSets, SequencesExt

CONSTANTS
  Keys,       \* composite keys, namespace included
  NsOf,       \* the namespace prefix of each key
  Contents,   \* what an entry holds
  SizeOf,     \* the size of each content, key included
  DeadlineOf, \* its expires_at_ms, NoTtl for none
  MaxBytes,   \* max_bytes
  GhostMax,   \* ghost_max
  MaxClock,   \* bound on the wall clock
  MaxSlots,   \* bound on the slots of Small and Main
  MaxGhosts   \* bound on the length of ghost_queue

NoTtl == 0

VARIABLES
  entries,      \* a function from the cached keys to their entries
  small, main,  \* the two queues of slots
  ghost, ghost_queue,
  current_bytes,
  stale_slots,
  clock

queues == <<small, main, ghost, ghost_queue>>
vars == <<entries, queues, current_bytes, stale_slots, clock>>

\* The cache as one value, for the steps of an eviction.
Now == [entries |-> entries, small |-> small, main |-> main, ghost |-> ghost,
        ghost_queue |-> ghost_queue, bytes |-> current_bytes, stale |-> stale_slots]

Become(c) ==
  /\ entries' = c.entries /\ small' = c.small /\ main' = c.main
  /\ ghost' = c.ghost /\ ghost_queue' = c.ghost_queue
  /\ current_bytes' = c.bytes /\ stale_slots' = c.stale
  /\ UNCHANGED clock

SaturatingSub(a, b) == IF a > b THEN a - b ELSE 0

SizeSum(es, S) == SumFunctionOnSet([k \in S |-> es[k].size], S)

Expired(e, now) == e.expires_at_ms # NoTtl /\ e.expires_at_ms <= now

\* The entries of S are taken out of the map and of the byte count.
Without(c, S) ==
  [c EXCEPT !.entries = Restrict(@, DOMAIN @ \ S),
            !.bytes = SaturatingSub(@, SizeSum(c.entries, S))]

-----------------------------------------------------------------------------
(* The ghost set.                                                          *)

RECURSIVE MakeRoom(_)
MakeRoom(c) ==
  IF Cardinality(c.ghost) < GhostMax \/ c.ghost_queue = << >> THEN c
  ELSE MakeRoom([c EXCEPT !.ghost = @ \ {Head(c.ghost_queue)},
                          !.ghost_queue = Tail(@)])

GhostInsert(c, k) ==
  LET r == MakeRoom(c) IN
  IF k \in r.ghost THEN r
  ELSE [r EXCEPT !.ghost = @ \cup {k}, !.ghost_queue = Append(@, k)]

\* ghost_remove leaves the queue's entry behind.
GhostRemove(c, k) == [c EXCEPT !.ghost = @ \ {k}]

-----------------------------------------------------------------------------
(* Eviction.                                                               *)

\* Phase 1 of evict_one, at the front of Small: a slot whose key is gone is
\* skipped, an entry read since it was inserted moves to Main, a cold one goes.
RECURSIVE EvictSmall(_)
EvictSmall(c) ==
  IF c.small = << >> THEN [done |-> FALSE, cache |-> c]
  ELSE LET k    == Head(c.small)
           rest == [c EXCEPT !.small = Tail(@)]
       IN CASE k \notin DOMAIN c.entries -> EvictSmall(rest)
            [] k \in DOMAIN c.entries /\ c.entries[k].freq = 1 ->
                 EvictSmall([rest EXCEPT !.entries[k].freq = 0, !.main = Append(@, k)])
            [] OTHER -> [done |-> TRUE, cache |-> GhostInsert(Without(rest, {k}), k)]

\* Phase 2, at the front of Main: an entry read since goes round once more.
RECURSIVE EvictMain(_)
EvictMain(c) ==
  IF c.main = << >> THEN [done |-> FALSE, cache |-> c]
  ELSE LET k    == Head(c.main)
           rest == [c EXCEPT !.main = Tail(@)]
       IN CASE k \notin DOMAIN c.entries -> EvictMain(rest)
            [] k \in DOMAIN c.entries /\ c.entries[k].freq = 1 ->
                 EvictMain([rest EXCEPT !.entries[k].freq = 0, !.main = Append(@, k)])
            [] OTHER -> [done |-> TRUE, cache |-> Without(rest, {k})]

EvictOne(c) == LET r == EvictSmall(c) IN IF r.done THEN r ELSE EvictMain(r.cache)

\* Mutation: one entry makes room, however large the new one is.
EvictOnce(c) == IF c.bytes > MaxBytes THEN EvictOne(c).cache ELSE c
RECURSIVE EvictToLimit(_)
EvictToLimit(c) ==
  IF c.bytes <= MaxBytes THEN c
  ELSE LET r == EvictOne(c) IN IF r.done THEN EvictToLimit(r.cache) ELSE r.cache

-----------------------------------------------------------------------------
(* Removal.                                                                *)

\* Mutation: only Small is compacted.
CompactSmall(c) ==
  [c EXCEPT !.small = SelectSeq(@, LAMBDA k : k \in DOMAIN c.entries),
            !.main = << >>, !.stale = 0]
CompactQueues(c) ==
  [c EXCEPT !.small = SelectSeq(@, LAMBDA k : k \in DOMAIN c.entries),
            !.main = SelectSeq(@, LAMBDA k : k \in DOMAIN c.entries),
            !.stale = 0]

\* What remove, remove_by_prefix and sweep_expired share: the slots of the
\* entries removed are counted as stale and compacted once they dominate.
Drop(c, S) ==
  LET d == [Without(c, S) EXCEPT !.stale = @ + Cardinality(S)] IN
  IF S = {} THEN c
  ELSE IF d.stale > (Len(d.small) + Len(d.main)) \div 2 THEN CompactQueues(d) ELSE d

-----------------------------------------------------------------------------
(* The calls.                                                              *)

Content(e) == [content |-> e.content, expires_at_ms |-> e.expires_at_ms]

Init ==
  /\ entries = << >> /\ small = << >> /\ main = << >>
  /\ ghost = {} /\ ghost_queue = << >>
  /\ current_bytes = 0 /\ stale_slots = 0 /\ clock = 0

GetHit(k) ==
  /\ k \in DOMAIN entries /\ ~Expired(entries[k], clock)
  /\ entries' = [entries EXCEPT ![k].freq = 1]
  /\ UNCHANGED <<queues, current_bytes, stale_slots, clock>>

GetMiss(k) == k \notin DOMAIN entries /\ UNCHANGED vars

\* An expired entry leaves its slot behind, and the slot is not counted as stale.
GetExpired(k) ==
  /\ k \in DOMAIN entries /\ Expired(entries[k], clock)
  /\ Become(Without(Now, {k}))

\* Mutation: an update keeps the deadline of the entry it replaces.
UpdatedOldDeadline(c, k, e) ==
  EvictToLimit([c EXCEPT !.entries[k] = [e EXCEPT !.freq = 1,
                                                  !.expires_at_ms = c.entries[k].expires_at_ms],
                         !.bytes = SaturatingSub(@, c.entries[k].size) + e.size])
\* The update in place of try_update and of insert.
Updated(c, k, e) ==
  EvictToLimit([c EXCEPT !.entries[k] = [e EXCEPT !.freq = 1],
                         !.bytes = SaturatingSub(@, c.entries[k].size) + e.size])

\* A new key enters Small, or Main when the ghost set remembers it.
Inserted(c, k, e) ==
  LET d == [c EXCEPT !.entries = [x \in DOMAIN @ \cup {k} |->
                                    IF x = k THEN e ELSE c.entries[x]],
                     !.bytes = @ + e.size]
  IN EvictToLimit(IF k \in c.ghost
                  THEN [GhostRemove(d, k) EXCEPT !.main = Append(@, k)]
                  ELSE [d EXCEPT !.small = Append(@, k)])

NewEntry(c) == [content |-> c, expires_at_ms |-> DeadlineOf[c], size |-> SizeOf[c], freq |-> 0]

\* upsert_cache is try_update, then insert when the key is not there; a fill calls
\* insert at once, which begins with the same update in place.
Insert(k, c) ==
  /\ Len(small) + Len(main) < MaxSlots /\ Len(ghost_queue) < MaxGhosts
  /\ Become(IF k \in DOMAIN entries THEN Updated(Now, k, NewEntry(c))
            ELSE Inserted(Now, k, NewEntry(c)))

RemoveKey(k) == k \in DOMAIN entries /\ Become(Drop(Now, {k}))

RemoveByPrefix(ns) ==
  LET S == {k \in DOMAIN entries : NsOf[k] = ns} IN
  S # {} /\ Become(Drop(Now, S))

SweepExpired ==
  LET S == {k \in DOMAIN entries : Expired(entries[k], clock)} IN
  S # {} /\ Become(Drop(Now, S))

Tick ==
  /\ clock < MaxClock /\ clock' = clock + 1
  /\ UNCHANGED <<entries, queues, current_bytes, stale_slots>>

Next ==
  \/ \E k \in Keys : \/ GetHit(k) \/ GetMiss(k) \/ GetExpired(k) \/ RemoveKey(k)
                     \/ \E c \in Contents : Insert(k, c)
  \/ \E ns \in Range(NsOf) : RemoveByPrefix(ns)
  \/ SweepExpired
  \/ Tick

Spec == Init /\ [][Next]_vars

-----------------------------------------------------------------------------
(* Properties.                                                             *)

\* Every call of insert or try_update ends within max_bytes, whatever slots earlier calls
\* left behind ("excess entries evicted immediately on insert"), and current_bytes is the
\* size of what the map holds: no order of updates, expiries, sweeps and evictions makes a
\* saturating_sub saturate or counts an entry twice.  The ghost set stays within ghost_max
\* although ghost_remove leaves entries in ghost_queue: what is in the set can still be
\* displaced through the queue.
WithinLimit ==
  /\ current_bytes = SizeSum(entries, DOMAIN entries) /\ current_bytes <= MaxBytes
  /\ Cardinality(ghost) <= GhostMax /\ ghost \subseteq ToSet(ghost_queue)

\* Every cached entry has a slot in Small or Main.  An entry without one could never
\* be evicted; remove, compact_queues and a later insert of the same key all touch
\* the slots of a key without knowing which insert they belong to.
EveryEntryHasASlot == DOMAIN entries \subseteq ToSet(small) \cup ToSet(main)

Lossy == INSTANCE LossyCache WITH
  cached <- [k \in DOMAIN entries |-> Content(entries[k])],
  Contents <- {Content(NewEntry(c)) : c \in Contents}

\* The cache implements LossyCache: an entry is exactly what the last insert
\* or try_update of its key put there, and no eviction, expiry or compaction changes
\* or revives one.
ImplementsLossyCache == Lossy!Spec
=============================================================================
