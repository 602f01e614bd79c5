------------------------- MODULE NamespaceLogProofs -------------------------
(***************************************************************************)
(* The gate of NamespaceLog, for every set of tasks, keys, stripes and     *)
(* operations: it is an invariant, writes of one key exclude each other,   *)
(* and the condition of a write stands from its check to its commit.       *)
(* Recovery is a fold over the log; nothing here depends on what it        *)
(* computes, because a crash leaves no task running.                       *)
(***************************************************************************)
EXTENDS NamespaceLog, TLAPS, FiniteSetTheorems

\* SMT has time for the larger steps; what it does not find is left to Zenon.
USE SMTT(30), ZenonT(30)

-----------------------------------------------------------------------------
(* Facts about the gate's vocabulary.                                      *)

\* The number of write guards is a natural number, and zero only when there are none.
LEMMA GuardedFinite ==
  /\ IsFiniteSet(Guarded)
  /\ Cardinality(Guarded) \in Nat
  /\ Cardinality(Guarded) = 0 <=> Guarded = {}
<1>1. Guarded \subseteq Tasks
  BY DEF Guarded
<1>2. IsFiniteSet(Guarded)
  BY <1>1, TasksAssumption, FS_Subset
<1> QED
  BY <1>2, FS_CardinalityType, FS_EmptySet

\* mine is the lock table of t, with or without stripes t has just taken.
Mine(t, mine) ==
  /\ mine \in [Stripes -> Tasks \cup {Free}]
  /\ \A s \in Stripes : mine[s] = lock[s] \/ (mine[s] = t /\ lock[s] = Free)

\* A writer that returns (WriteGuard and the stripe guards are dropped) keeps the
\* gate.
LEMMA ReturnKeepsGate ==
  ASSUME NEW t \in Tasks, NEW mine, GateInv, t \in Guarded, Return(t, mine),
         Mine(t, mine), UNCHANGED <<reclaiming, frozen, mt, sl>>
  PROVE  GateInv'
<1>1. tk' = [tk EXCEPT ![t] = Idle] /\ inFlight' = inFlight - 1
  BY DEF Return
<1>2. /\ tk'[t] = Idle
      /\ \A u \in Tasks \ {t} : tk'[u] = tk[u]
  BY <1>1 DEF GateInv, GateShape
<1>3. GateShape'
  <2>1. lock' \in [Stripes -> Tasks \cup {Free}]
    BY DEF Return, Mine
  <2> QED
    BY <1>1, <1>2, <2>1 DEF GateInv, GateShape, Idle, NoOp
<1>4. GuardsCounted'
  <2>1. Guarded' = Guarded \ {t}
    BY <1>2 DEF Guarded, Idle
  <2> QED
    BY <1>1, <2>1, GuardedFinite, FS_RemoveElement DEF GateInv, GuardsCounted
<1>5. StripesHeld'
  <2>1. Held(t)' = {}
    BY TasksAssumption DEF Held, Return, Free
  <2>2. \A u \in Tasks \ {t} : Held(u)' = Held(u)
    BY TasksAssumption DEF Held, Return, Free, Mine
  <2> QED
    BY <1>2, <2>1, <2>2 DEF GateInv, StripesHeld, Writing, Idle
<1>6. FlagsOwned'
  BY DEF GateInv, FlagsOwned
<1>7. QuiescentSnapshot'
  BY <1>2 DEF GateInv, QuiescentSnapshot, Guarded, Idle
<1> QED
  BY <1>3, <1>4, <1>5, <1>6, <1>7 DEF GateInv

\* A writer that goes on with all its stripes in hand keeps the gate.
LEMMA AdvanceKeepsGate ==
  ASSUME NEW t \in Tasks, NEW mine, NEW task, GateInv, t \in Guarded,
         tk' = [tk EXCEPT ![t] = task], DOMAIN task = DOMAIN Idle,
         task.pc \in {"separate", "append", "rotate"}, task.op = tk[t].op,
         lock' = mine, Mine(t, mine), {s \in Stripes : mine[s] = t} = Need(task.op),
         UNCHANGED <<inFlight, reclaiming, frozen, mt, sl>>
  PROVE  GateInv'
<1>1. /\ tk'[t] = task
      /\ \A u \in Tasks \ {t} : tk'[u] = tk[u]
  BY DEF GateInv, GateShape
<1>2. GateShape'
  BY <1>1 DEF GateInv, GateShape, Mine
<1>3. Guarded' = Guarded
  BY <1>1 DEF Guarded
<1>4. GuardsCounted'
  BY <1>3 DEF GateInv, GuardsCounted
<1>5. StripesHeld'
  <2>1. Held(t)' = Need(task.op)
    BY DEF Held
  <2>2. \A u \in Tasks \ {t} : Held(u)' = Held(u)
    BY TasksAssumption DEF Held, Free, Mine
  <2>3. \A u \in Tasks : tk'[u].op = tk[u].op
    BY <1>1
  <2>4. \A u \in Tasks : Need(tk[u].op)' = Need(tk[u].op)
    BY <2>3 DEF Need
  <2>5. \A u \in Tasks \ {t} : u \in Writing' <=> u \in Writing
    BY <1>1 DEF Writing
  <2> QED
    BY <1>1, <2>1, <2>2, <2>4, <2>5 DEF GateInv, StripesHeld
<1>6. FlagsOwned'
  BY DEF GateInv, FlagsOwned
<1>7. QuiescentSnapshot'
  BY <1>3 DEF GateInv, QuiescentSnapshot
<1> QED
  BY <1>2, <1>4, <1>5, <1>6, <1>7 DEF GateInv

\* LogFile::append, whether it reserves its offset or fails at once, keeps the gate.
LEMMA AppendKeepsGate ==
  ASSUME NEW t \in Tasks, NEW task, NEW mine, NEW v, NEW slots, NEW undo,
         GateInv, t \in Guarded, AppendRecords(t, task, mine, v, slots, undo),
         DOMAIN task = DOMAIN Idle, task.op = tk[t].op,
         Mine(t, mine), {s \in Stripes : mine[s] = t} = Need(task.op),
         UNCHANGED <<reclaiming, frozen, mt, sl>>
  PROVE  GateInv'
<1>1. CASE ActiveFile \notin poisoned
  <2> DEFINE new == [task EXCEPT !.pc = "append", !.file = ActiveFile,
                                 !.off = Len(data[ActiveFile])]
  <2>1. tk' = [tk EXCEPT ![t] = new] /\ lock' = mine /\ UNCHANGED inFlight
    BY <1>1 DEF AppendRecords
  <2>2. DOMAIN new = DOMAIN Idle /\ new.pc = "append" /\ new.op = task.op
    BY DEF Idle
  <2> HIDE DEF new
  <2> QED
    BY Zenon, <2>1, <2>2, AdvanceKeepsGate
<1>2. CASE ActiveFile \in poisoned
  BY <1>2, ReturnKeepsGate DEF AppendRecords
<1> QED
  BY <1>1, <1>2

\* The loop of a put over its pairs keeps the gate.
LEMMA PutPairsKeepsGate ==
  ASSUME NEW t \in Tasks, NEW i, NEW mine, NEW v, GateInv, t \in Guarded,
         PutPairs(t, i, mine, v),
         Mine(t, mine), {s \in Stripes : mine[s] = t} = Need(tk[t].op),
         UNCHANGED <<reclaiming, frozen, mt, sl>>
  PROVE  GateInv'
<1>1. PICK ts, slots, undo :
        LET task == [tk[t] EXCEPT !.ts = ts] IN
        \/ /\ tk' = [tk EXCEPT ![t] = [task EXCEPT !.pc = "separate"]]
           /\ lock' = mine /\ UNCHANGED inFlight
        \/ AppendRecords(t, task, mine, v, slots, undo)
  BY Zenon DEF PutPairs
<1> DEFINE task == [tk[t] EXCEPT !.ts = ts]
           sep  == [task EXCEPT !.pc = "separate"]
<1>2. DOMAIN task = DOMAIN Idle /\ task.op = tk[t].op
  BY DEF GateInv, GateShape, Idle
<1>3. DOMAIN sep = DOMAIN Idle /\ sep.op = tk[t].op /\ sep.pc = "separate"
  BY <1>2 DEF Idle
<1>4. \/ tk' = [tk EXCEPT ![t] = sep] /\ lock' = mine /\ UNCHANGED inFlight
      \/ AppendRecords(t, task, mine, v, slots, undo)
  BY <1>1
<1> HIDE DEF task, sep
<1> QED
  BY <1>2, <1>3, <1>4, AdvanceKeepsGate, AppendKeepsGate

\* A writer about to take its last stripe will hold exactly the stripes of its keys.
LEMMA LastStripe ==
  ASSUME NEW t \in Tasks, NEW s \in Stripes, GateInv, TakesLast(t, s),
         NEW mine, mine = [lock EXCEPT ![s] = t]
  PROVE  /\ t \in Guarded
         /\ Mine(t, lock)
         /\ Mine(t, mine)
         /\ {r \in Stripes : mine[r] = t} = Need(tk[t].op)
<1>1. tk[t].pc = "lock" /\ lock[s] = Free /\ s \in Need(tk[t].op)
  BY DEF TakesLast, CanTake
<1>2. lock \in [Stripes -> Tasks \cup {Free}]
  BY DEF GateInv, GateShape
<1>3. Held(t) \subseteq Need(tk[t].op) /\ Need(tk[t].op) \subseteq Held(t) \cup {s}
  BY <1>1 DEF GateInv, StripesHeld, TakesLast
<1>4. {r \in Stripes : mine[r] = t} = Held(t) \cup {s}
  BY <1>2 DEF Held
<1> QED
  BY <1>1, <1>2, <1>3, <1>4 DEF Guarded, Mine

\* A writer past its last stripe holds exactly the stripes of its keys.
LEMMA StripesInHand ==
  ASSUME NEW t \in Tasks, GateInv, tk[t].pc \in {"separate", "append", "rotate"}
  PROVE  /\ t \in Guarded
         /\ Mine(t, lock)
         /\ {s \in Stripes : lock[s] = t} = Need(tk[t].op)
  BY DEF Guarded, Writing, Mine, GateInv, GateShape, StripesHeld, Held

-----------------------------------------------------------------------------
(* Every step of a writer keeps the gate.                                  *)

\* A new call holds neither guard nor stripe yet.
LEMMA CallKeepsGate ==
  ASSUME NEW t \in Tasks, GateInv, Call(t)
  PROVE  GateInv'
<1>1. PICK op \in Ops, rev \in 0 .. lastTs :
        tk' = [tk EXCEPT ![t] = [Idle EXCEPT !.pc = "gate", !.op = op, !.rev = rev,
                                             !.now = clock]]
  BY Zenon DEF Call
<1>2. UNCHANGED <<lock, inFlight, reclaiming, frozen, mt, sl>> /\ tk[t].pc = "idle"
  BY DEF Call, gate, flags, procs
<1>3. /\ tk'[t].pc = "gate" /\ tk'[t].op = op /\ DOMAIN tk'[t] = DOMAIN Idle
      /\ \A u \in Tasks \ {t} : tk'[u] = tk[u]
  BY Zenon, <1>1 DEF GateInv, GateShape, Idle
<1>4. Guarded' = Guarded
  BY <1>2, <1>3 DEF Guarded
<1>5. GateShape'
  BY <1>1, <1>2, <1>3 DEF GateInv, GateShape
<1>6. StripesHeld'
  BY <1>2, <1>3 DEF GateInv, StripesHeld, Held, Writing
<1> QED
  BY <1>2, <1>4, <1>5, <1>6 DEF GateInv, GuardsCounted, FlagsOwned, QuiescentSnapshot

\* begin_write takes its guard only when no reclaim runs and nothing is frozen.
LEMMA EnterKeepsGate ==
  ASSUME NEW t \in Tasks, GateInv, Enter(t)
  PROVE  GateInv'
<1>1. UNCHANGED <<lock, reclaiming, frozen, mt, sl>> /\ tk[t].pc = "gate" /\ ~reclaiming
  BY DEF Enter, flags, procs
<1>2. CASE frozen
  <2>1. tk' = [tk EXCEPT ![t] = Idle] /\ UNCHANGED inFlight
    BY <1>2 DEF Enter
  <2>2. tk'[t] = Idle /\ \A u \in Tasks \ {t} : tk'[u] = tk[u]
    BY <2>1 DEF GateInv, GateShape
  <2>3. Guarded' = Guarded
    BY <1>1, <2>2 DEF Guarded, Idle
  <2>4. GateShape'
    BY <1>1, <2>1, <2>2 DEF GateInv, GateShape, Idle, NoOp
  <2>5. StripesHeld'
    BY <1>1, <2>2 DEF GateInv, StripesHeld, Held, Writing, Idle
  <2> QED
    BY <1>1, <2>1, <2>3, <2>4, <2>5
       DEF GateInv, GuardsCounted, FlagsOwned, QuiescentSnapshot
<1>3. CASE ~frozen
  <2>1. tk' = [tk EXCEPT ![t].pc = "lock"] /\ inFlight' = inFlight + 1
    BY <1>3 DEF Enter
  <2>2. /\ tk'[t].pc = "lock" /\ tk'[t].op = tk[t].op /\ DOMAIN tk'[t] = DOMAIN Idle
        /\ \A u \in Tasks \ {t} : tk'[u] = tk[u]
    BY <2>1 DEF GateInv, GateShape, Idle
  <2>3. Guarded' = Guarded \cup {t} /\ t \notin Guarded
    BY <1>1, <2>2 DEF Guarded
  <2>4. GateShape'
    BY <1>1, <2>1, <2>2 DEF GateInv, GateShape
  <2>5. GuardsCounted'
    BY <2>1, <2>3, GuardedFinite, FS_AddElement DEF GateInv, GuardsCounted
  <2>6. StripesHeld'
    BY <1>1, <2>2 DEF GateInv, StripesHeld, Held, Writing
  <2>7. QuiescentSnapshot'
    BY <1>1, <1>3 DEF GateInv, FlagsOwned, QuiescentSnapshot
  <2> QED
    BY <1>1, <2>4, <2>5, <2>6, <2>7 DEF GateInv, FlagsOwned
<1> QED
  BY <1>2, <1>3

\* A stripe is taken only from Free, and only one the call needs.
LEMMA TakeStripeKeepsGate ==
  ASSUME NEW t \in Tasks, NEW s \in Stripes, GateInv, TakeStripe(t, s)
  PROVE  GateInv'
<1>1. /\ tk[t].pc = "lock" /\ lock[s] = Free /\ s \in Need(tk[t].op)
      /\ lock' = [lock EXCEPT ![s] = t]
      /\ UNCHANGED <<tk, inFlight, reclaiming, frozen, mt, sl>>
  BY DEF TakeStripe, CanTake, flags, procs
<1>2. GateShape'
  BY <1>1 DEF GateInv, GateShape
<1>3. Guarded' = Guarded
  BY <1>1 DEF Guarded
<1>4. StripesHeld'
  <2>1. Held(t)' = Held(t) \cup {s}
    BY <1>1 DEF Held, GateInv, GateShape
  <2>2. \A u \in Tasks \ {t} : Held(u)' = Held(u)
    BY <1>1, TasksAssumption DEF Held, Free, GateInv, GateShape
  <2>3. Writing' = Writing /\ \A u \in Tasks : Need(tk[u].op)' = Need(tk[u].op)
    BY <1>1 DEF Writing, Need
  <2> QED
    BY <1>1, <2>1, <2>2, <2>3 DEF GateInv, StripesHeld, Writing
<1> QED
  BY <1>1, <1>2, <1>3, <1>4 DEF GateInv, GuardsCounted, FlagsOwned, QuiescentSnapshot

\* Every step of a write keeps the gate, failures and early returns included.
LEMMA WriterKeepsGate ==
  ASSUME NEW t \in Tasks, GateInv, Writer(t)
  PROVE  GateInv'
<1>1. ASSUME NEW s \in Stripes, StartPut(t, s) PROVE GateInv'
  <2>1. PICK mine : mine = [lock EXCEPT ![s] = t] /\ PutPairs(t, 1, mine, vs)
    BY <1>1 DEF StartPut
  <2>2. TakesLast(t, s) /\ UNCHANGED <<reclaiming, frozen, mt, sl>>
    BY <1>1 DEF StartPut, flags, procs
  <2> QED
    BY Zenon, <2>1, <2>2, LastStripe, PutPairsKeepsGate
<1>2. ASSUME NEW s \in Stripes, StartDel(t, s) PROVE GateInv'
  <2>1. PICK mine, ts, old, slots :
          /\ mine = [lock EXCEPT ![s] = t]
          /\ AppendRecords(t, [tk[t] EXCEPT !.ts = ts, !.old = old], mine, vs, slots, <<>>)
    BY ZenonT(30), <1>2 DEF StartDel
  <2>2. TakesLast(t, s) /\ UNCHANGED <<reclaiming, frozen, mt, sl>>
    BY <1>2 DEF StartDel, flags, procs
  <2> DEFINE task == [tk[t] EXCEPT !.ts = ts, !.old = old]
  <2>3. DOMAIN task = DOMAIN Idle /\ task.op = tk[t].op
    BY DEF GateInv, GateShape, Idle
  <2>4. AppendRecords(t, task, mine, vs, slots, <<>>)
    BY <2>1
  <2> HIDE DEF task
  <2> QED
    BY Zenon, <2>1, <2>2, <2>3, <2>4, LastStripe, AppendKeepsGate
<1>3. ASSUME NEW s \in Stripes, StartTtl(t, s) PROVE GateInv'
  <2>1. PICK mine, ts, slots :
          /\ mine = [lock EXCEPT ![s] = t]
          /\ AppendRecords(t, [tk[t] EXCEPT !.ts = ts], mine, vs, slots, <<>>)
    BY Zenon, <1>3 DEF StartTtl
  <2>2. TakesLast(t, s) /\ UNCHANGED <<reclaiming, frozen, mt, sl>>
    BY <1>3 DEF StartTtl, flags, procs
  <2> DEFINE task == [tk[t] EXCEPT !.ts = ts]
  <2>3. DOMAIN task = DOMAIN Idle /\ task.op = tk[t].op
    BY DEF GateInv, GateShape, Idle
  <2>4. AppendRecords(t, task, mine, vs, slots, <<>>)
    BY <2>1
  <2> HIDE DEF task
  <2> QED
    BY Zenon, <2>1, <2>2, <2>3, <2>4, LastStripe, AppendKeepsGate
<1>4. ASSUME NEW s \in Stripes, Refuse(t, s) PROVE GateInv'
  <2>1. TakesLast(t, s) /\ Return(t, lock) /\ UNCHANGED <<reclaiming, frozen, mt, sl>>
    BY <1>4 DEF Refuse, flags, procs
  <2>2. PICK mine : mine = [lock EXCEPT ![s] = t]
    BY Zenon
  <2> QED
    BY <2>1, <2>2, LastStripe, ReturnKeepsGate
<1>14. ASSUME NEW s \in Stripes, DelAbsent(t, s) PROVE GateInv'
  <2>1. TakesLast(t, s) /\ Return(t, lock) /\ UNCHANGED <<reclaiming, frozen, mt, sl>>
    BY <1>14 DEF DelAbsent, flags, procs
  <2>2. PICK mine : mine = [lock EXCEPT ![s] = t]
    BY Zenon
  <2> QED
    BY <2>1, <2>2, LastStripe, ReturnKeepsGate
<1>5. CASE Separated(t)
  <2>1. PICK i, v : PutPairs(t, i, lock, v)
    BY <1>5 DEF Separated
  <2>2. tk[t].pc = "separate" /\ UNCHANGED <<reclaiming, frozen, mt, sl>>
    BY <1>5 DEF Separated, flags, procs
  <2> QED
    BY <2>1, <2>2, StripesInHand, PutPairsKeepsGate
<1>6. CASE SeparateFails(t)
  BY <1>6, StripesInHand, ReturnKeepsGate DEF SeparateFails, flags, procs
<1>7. CASE CommitPut(t)
  <2>1. tk[t].pc = "append" /\ UNCHANGED <<reclaiming, frozen, mt, sl>>
    BY <1>7 DEF CommitPut, procs
  <2>2. \/ tk' = [tk EXCEPT ![t].pc = "rotate"] /\ UNCHANGED <<lock, inFlight>>
        \/ Return(t, lock)
    BY <1>7 DEF CommitPut, gate
  <2> DEFINE task == [tk[t] EXCEPT !.pc = "rotate"]
  <2>3. DOMAIN task = DOMAIN Idle /\ task.op = tk[t].op /\ task.pc = "rotate"
    BY DEF GateInv, GateShape, Idle
  <2>4. \/ tk' = [tk EXCEPT ![t] = task] /\ UNCHANGED <<lock, inFlight>>
        \/ Return(t, lock)
    BY <2>2
  <2> HIDE DEF task
  <2> QED
    BY <2>1, <2>3, <2>4, StripesInHand, AdvanceKeepsGate, ReturnKeepsGate
<1>8. CASE CommitDel(t)
  BY <1>8, StripesInHand, ReturnKeepsGate DEF CommitDel, flags, procs
<1>9. CASE CommitTtl(t)
  BY <1>9, StripesInHand, ReturnKeepsGate DEF CommitTtl, flags, procs
<1>10. CASE AppendFails(t)
  BY <1>10, StripesInHand, ReturnKeepsGate DEF AppendFails, flags, procs
<1>11. CASE RotateDone(t)
  BY <1>11, StripesInHand, ReturnKeepsGate DEF RotateDone, procs
<1>12. CASE RotateFails(t)
  BY <1>12, StripesInHand, ReturnKeepsGate DEF RotateFails, procs
<1>13. CASE RotateOpenFails(t)
  BY <1>13, StripesInHand, ReturnKeepsGate DEF RotateOpenFails, procs
<1> QED
  BY <1>1, <1>2, <1>3, <1>4, <1>5, <1>6, <1>7, <1>8, <1>9, <1>10, <1>11, <1>12, <1>13,
     <1>14, EnterKeepsGate, TakeStripeKeepsGate DEF Writer

-----------------------------------------------------------------------------
(* Every other step keeps the gate.                                        *)

\* A step that moves no writer keeps the gate if it keeps the flags with their
\* owners and starts no maintenance work while a write is in flight.
LEMMA OthersKeepGate ==
  ASSUME GateInv, UNCHANGED <<tk, lock, inFlight>>,
         reclaiming' \in BOOLEAN, frozen' \in BOOLEAN,
         DOMAIN mt' = DOMAIN MtIdle, DOMAIN sl' = DOMAIN SlIdle, FlagsOwned',
         \/ Guarded = {}
         \/ mt'.pc \in {"idle", "drain", "flushDrain"} /\ sl'.pc \in {"idle", "drain"}
  PROVE  GateInv'
<1>1. GateShape'
  BY DEF GateInv, GateShape
<1>2. Guarded' = Guarded /\ Writing' = Writing
  BY DEF Guarded, Writing
<1>3. StripesHeld'
  BY <1>2 DEF GateInv, StripesHeld, Held
<1> QED
  BY <1>1, <1>2, <1>3 DEF GateInv, GuardsCounted, QuiescentSnapshot

\* The drains of reclaim, flush and freeze_and_drain end with no write in flight.
LEMMA DrainedMeansQuiet ==
  ASSUME GateInv, Drained
  PROVE  Guarded = {}
  BY GuardedFinite DEF GateInv, GuardsCounted, Drained

\* A reclaim or flush works on the files only after its drain has seen no write,
\* and clears its flag on every way out.
LEMMA MaintenanceKeepsGate ==
  ASSUME GateInv, Maintenance \/ ReclaimStart \/ FlushStart
  PROVE  GateInv'
<1>0. /\ reclaiming \in BOOLEAN /\ frozen \in BOOLEAN
      /\ DOMAIN mt = DOMAIN MtIdle /\ DOMAIN sl = DOMAIN SlIdle
      /\ reclaiming <=> mt.pc # "idle"
      /\ sl.pc # "idle" => frozen
      /\ \/ Guarded = {}
         \/ mt.pc \in {"idle", "drain", "flushDrain"} /\ sl.pc \in {"idle", "drain"}
  BY DEF GateInv, GateShape, FlagsOwned, QuiescentSnapshot
<1> USE DEF FlagsOwned, MtIdle, SlIdle, gate, flags, procs
<1>1. CASE ReclaimStart
  <2>1. UNCHANGED <<tk, lock, inFlight, frozen, sl>> /\ reclaiming' = TRUE /\ ~reclaiming
    BY <1>1 DEF ReclaimStart
  <2>2. mt'.pc = "drain" /\ DOMAIN mt' = DOMAIN MtIdle
    BY <1>1 DEF ReclaimStart
  <2> QED
    BY <1>0, <2>1, <2>2, OthersKeepGate
<1>2. CASE FlushStart
  <2>1. UNCHANGED <<tk, lock, inFlight, frozen, sl>> /\ reclaiming' = TRUE /\ ~reclaiming
    BY <1>2 DEF FlushStart
  <2>2. mt'.pc = "flushDrain" /\ DOMAIN mt' = DOMAIN MtIdle
    BY <1>2 DEF FlushStart
  <2> QED
    BY <1>0, <2>1, <2>2, OthersKeepGate
<1>3. CASE ReclaimSeal
  <2>1. UNCHANGED <<tk, lock, inFlight, frozen, sl>> /\ mt.pc = "drain"
    BY <1>3 DEF ReclaimSeal
  <2>2. \/ mt' = [mt EXCEPT !.pc = "seal"] /\ UNCHANGED reclaiming
        \/ mt' = MtIdle /\ reclaiming' = FALSE
    BY <1>3 DEF ReclaimSeal, MtReturn
  <2>3. Guarded = {}
    BY <1>3, DrainedMeansQuiet DEF ReclaimSeal
  <2>4. DOMAIN mt' = DOMAIN MtIdle /\ mt'.pc \in {"seal", "idle"}
    BY <1>0, <2>2
  <2>5. reclaiming' \in BOOLEAN /\ FlagsOwned'
    <3>1. CASE mt' = [mt EXCEPT !.pc = "seal"] /\ UNCHANGED reclaiming
      BY <1>0, <2>1, <3>1
    <3>2. CASE mt' = MtIdle /\ reclaiming' = FALSE
      BY Zenon, <1>0, <2>1, <3>2
    <3> QED
      BY Zenon, <2>2, <3>1, <3>2
  <2> QED
    BY <1>0, <2>1, <2>3, <2>4, <2>5, OthersKeepGate
<1>4. CASE FlushClear
  <2>1. UNCHANGED <<tk, lock, inFlight, reclaiming, frozen, sl>> /\ mt.pc = "flushDrain"
    BY <1>4 DEF FlushClear
  <2>2. mt'.pc = "flush" /\ DOMAIN mt' = DOMAIN MtIdle
    BY <1>0, <1>4 DEF FlushClear
  <2>3. Guarded = {}
    BY <1>4, DrainedMeansQuiet DEF FlushClear
  <2> QED
    BY <1>0, <2>1, <2>2, <2>3, OthersKeepGate
<1>5. ASSUME mt.pc \in {"seal", "merge", "copy", "unlink", "open", "flush"},
             UNCHANGED <<tk, lock, inFlight, frozen>>,
             DOMAIN sl' = DOMAIN SlIdle, sl'.pc = sl.pc, DOMAIN mt' = DOMAIN MtIdle,
             \/ mt'.pc \in {"merge", "copy", "unlink", "open", "flush"} /\ UNCHANGED reclaiming
             \/ mt'.pc = "idle" /\ reclaiming' = FALSE
      PROVE  GateInv'
  <2>1. Guarded = {}
    BY <1>0, <1>5
  <2>2. reclaiming' \in BOOLEAN /\ FlagsOwned'
    <3>1. CASE mt'.pc \in {"merge", "copy", "unlink", "open", "flush"} /\ UNCHANGED reclaiming
      BY <1>0, <1>5, <3>1
    <3>2. CASE mt'.pc = "idle" /\ reclaiming' = FALSE
      BY Zenon, <1>0, <1>5, <3>2
    <3> QED
      BY Zenon, <1>5, <3>1, <3>2
  <2> QED
    BY <1>0, <1>5, <2>1, <2>2, OthersKeepGate
<1>6. CASE ReclaimSealed
  BY <1>0, <1>5, <1>6 DEF ReclaimSealed
<1>7. CASE ReclaimSealFails
  BY Zenon, <1>0, <1>5, <1>7 DEF ReclaimSealFails, MtReturn
<1>8. CASE ReclaimMerge
  BY <1>0, <1>5, <1>8 DEF ReclaimMerge
<1>9. CASE ReclaimUnlink
  BY <1>0, <1>5, <1>9 DEF ReclaimUnlink
<1>10. CASE ReclaimSwap
  BY <1>0, <1>5, <1>10 DEF ReclaimSwap
<1>11. CASE ReclaimDone
  BY Zenon, <1>0, <1>5, <1>11 DEF ReclaimDone, MtReturn
<1>12. CASE ReclaimFails
  BY Zenon, <1>0, <1>5, <1>12 DEF ReclaimFails, MtReturn
<1>13. CASE FlushUnlink
  BY <1>0, <1>5, <1>13 DEF FlushUnlink
<1>14. ASSUME NEW F, Detach(F) PROVE DOMAIN sl' = DOMAIN SlIdle /\ sl'.pc = sl.pc
  <2>1. sl' = sl \/ \E f : sl' = [sl EXCEPT !.file = f]
    BY <1>14 DEF Detach, Detached
  <2> QED
    BY <1>0, <2>1
<1>15. CASE FlushDone
  <2>1. \E F : Detach(F)
    BY Zenon, <1>15 DEF FlushDone
  <2>2. DOMAIN sl' = DOMAIN SlIdle /\ sl'.pc = sl.pc
    BY <1>14, <2>1
  <2>3. /\ mt.pc = "flush" /\ mt' = MtIdle /\ reclaiming' = FALSE
        /\ UNCHANGED <<tk, lock, inFlight, frozen>>
    BY Zenon, <1>15 DEF FlushDone, MtReturn
  <2> QED
    BY Zenon, <1>0, <1>5, <2>2, <2>3
<1>16. CASE FlushFails
  BY Zenon, <1>0, <1>5, <1>16 DEF FlushFails, MtReturn
<1>17. CASE ReclaimRename
  <2>1. \E F : Detach(F)
    BY Zenon, <1>17 DEF ReclaimRename
  <2>2. DOMAIN sl' = DOMAIN SlIdle /\ sl'.pc = sl.pc
    BY <1>14, <2>1
  <2>3. /\ mt.pc = "copy" /\ mt' = [mt EXCEPT !.pc = "unlink"]
        /\ UNCHANGED <<tk, lock, inFlight, reclaiming, frozen>>
    BY Zenon, <1>17 DEF ReclaimRename
  <2> QED
    BY Zenon, <1>0, <1>5, <2>2, <2>3
<1>18. CASE ReclaimOpen
  BY <1>0, <1>5, <1>18 DEF ReclaimOpen
<1> QED
  BY <1>1, <1>2, <1>3, <1>4, <1>6, <1>7, <1>8, <1>9, <1>10, <1>11, <1>12, <1>13, <1>15,
     <1>16, <1>17, <1>18 DEF Maintenance

\* A seal goes past its drain only with no write in flight; resume unfreezes.
LEMMA SealerKeepsGate ==
  ASSUME GateInv, Sealer \/ Freeze \/ Resume
  PROVE  GateInv'
<1>0. /\ reclaiming \in BOOLEAN /\ frozen \in BOOLEAN
      /\ DOMAIN mt = DOMAIN MtIdle /\ DOMAIN sl = DOMAIN SlIdle
      /\ reclaiming <=> mt.pc # "idle"
      /\ sl.pc # "idle" => frozen
      /\ \/ Guarded = {}
         \/ mt.pc \in {"idle", "drain", "flushDrain"} /\ sl.pc \in {"idle", "drain"}
  BY DEF GateInv, GateShape, FlagsOwned, QuiescentSnapshot
<1> USE DEF FlagsOwned, MtIdle, SlIdle, gate, flags, procs
<1>1. CASE Freeze
  <2>1. UNCHANGED <<tk, lock, inFlight, reclaiming, mt>> /\ frozen' = TRUE
    BY <1>1 DEF Freeze
  <2>2. sl'.pc = "drain" /\ DOMAIN sl' = DOMAIN SlIdle
    BY <1>1 DEF Freeze
  <2> QED
    BY <1>0, <2>1, <2>2, OthersKeepGate
<1>2. CASE ResumeDone
  <2>1. /\ UNCHANGED <<tk, lock, inFlight, reclaiming, mt>> /\ frozen' = FALSE
        /\ sl' = SlIdle /\ sl.pc = "opened"
    BY <1>2 DEF ResumeDone
  <2> QED
    BY Zenon, <1>0, <2>1, OthersKeepGate
<1>3. ASSUME Drained \/ sl.pc \notin {"idle", "drain"}, sl.pc # "idle",
             UNCHANGED <<tk, lock, inFlight, reclaiming, frozen, mt>>,
             DOMAIN sl' = DOMAIN SlIdle
      PROVE  GateInv'
  <2>1. Guarded = {}
    BY <1>0, <1>3, DrainedMeansQuiet
  <2> QED
    BY <1>0, <1>3, <2>1, OthersKeepGate
<1>4. CASE SealSync
  BY <1>0, <1>3, <1>4 DEF SealSync
<1>5. CASE SealFooter
  <2>1. \/ \E f : sl' = [pc |-> "footer", file |-> f, synced |-> {}]
        \/ sl' = [SlIdle EXCEPT !.pc = "failed"]
    BY <1>5 DEF SealFooter
  <2>2. /\ UNCHANGED <<tk, lock, inFlight, reclaiming, frozen, mt>>
        /\ sl.pc = "sync" \/ (sl.pc = "drain" /\ Drained)
    BY <1>5 DEF SealFooter
  <2> QED
    BY <1>0, <1>3, <2>1, <2>2
<1>6. CASE SealDone
  BY <1>0, <1>3, <1>6 DEF SealDone
<1>7. CASE SealFails
  BY <1>0, <1>3, <1>7 DEF SealFails
<1>8. CASE Resume
  BY <1>0, <1>3, <1>8 DEF Resume
<1>9. CASE ResumeOpen
  BY <1>0, <1>3, <1>9 DEF ResumeOpen
<1>10. CASE ResumeFails
  BY <1>0, <1>3, <1>10 DEF ResumeFails
<1> QED
  BY <1>1, <1>2, <1>4, <1>5, <1>6, <1>7, <1>8, <1>9, <1>10 DEF Sealer

\* A step of no writer, maintenance or seal leaves the gate alone.
LEMMA UntouchedGate ==
  ASSUME GateInv, UNCHANGED <<tk, lock, inFlight, reclaiming, frozen, mt, sl>>
  PROVE  GateInv'
  BY OthersKeepGate DEF GateInv, GateShape, FlagsOwned, QuiescentSnapshot

\* No task runs and nothing is held: a fresh start, or what a crash leaves.
Stopped ==
  /\ tk = [t \in Tasks |-> Idle]
  /\ lock = [s \in Stripes |-> Free] /\ inFlight = 0
  /\ reclaiming = FALSE /\ frozen = FALSE
  /\ mt = MtIdle /\ sl = SlIdle

\* The gate holds when nothing runs.
LEMMA StoppedGate == Stopped => GateInv
<1> SUFFICES ASSUME Stopped PROVE GateInv
  OBVIOUS
<1>1. GateShape
  BY Zenon DEF Stopped, GateShape, Idle, NoOp
<1>2. Guarded = {} /\ Writing = {}
  BY DEF Stopped, Guarded, Writing, Idle
<1>3. GuardsCounted
  BY <1>2, FS_EmptySet DEF Stopped, GuardsCounted
<1>4. StripesHeld
  BY <1>2, TasksAssumption DEF Stopped, StripesHeld, Held, Idle, Free
<1> QED
  BY <1>1, <1>2, <1>3, <1>4
     DEF Stopped, GateInv, FlagsOwned, QuiescentSnapshot, MtIdle, SlIdle

\* The gate is inductive.
LEMMA StepKeepsGate == GateInv /\ [Next]_vars => GateInv'
<1> SUFFICES ASSUME GateInv, [Next]_vars PROVE GateInv'
  OBVIOUS
<1>1. ASSUME NEW t \in Tasks, Writer(t) PROVE GateInv'
  BY <1>1, WriterKeepsGate
<1>2. ASSUME NEW t \in Tasks, Call(t) PROVE GateInv'
  BY <1>2, CallKeepsGate
<1>3. CASE Footers
  BY <1>3, UntouchedGate DEF Footers, FooterBody, FooterTrailer, gate, flags, procs
<1>4. CASE Maintenance \/ ReclaimStart \/ FlushStart
  BY <1>4, MaintenanceKeepsGate
<1>5. CASE Sealer \/ Freeze \/ Resume
  BY <1>5, SealerKeepsGate
<1>6. CASE Timer \/ SyncStart
  BY <1>6, UntouchedGate
     DEF Timer, SyncStart, SyncDone, SyncFails, Collect, gate, flags
<1>7. CASE Tick
  BY <1>7, UntouchedGate DEF Tick, gate, flags, procs
<1>8. ASSUME NEW power \in BOOLEAN, Crash(power) PROVE GateInv'
  <2>1. Stopped'
    BY Zenon, <1>8 DEF Crash, Stopped
  <2> QED
    BY <2>1, StoppedGate, PTL
<1>9. CASE UNCHANGED vars
  BY <1>9, UntouchedGate DEF vars, gate, flags, procs
<1> QED
  BY <1>1, <1>2, <1>3, <1>4, <1>5, <1>6, <1>7, <1>8, <1>9 DEF Next, Environment

\* The gate of begin_write, wlock, await_reclaim and freeze_and_drain holds in every
\* reachable state, crashes and failing I/O included.
THEOREM GateIsInvariant == Spec => []GateInv
<1>1. Init => GateInv
  BY StoppedGate DEF Init, Stopped
<1> QED
  BY <1>1, StepKeepsGate, PTL DEF Spec

\* Two writers past their last stripe never share a key: if they did, the stripe of
\* that key (wlock) would be held by both.
LEMMA GateExcludes == GateInv => SameKeyExclusion
<1> SUFFICES ASSUME GateInv, NEW t \in Writing, NEW u \in Writing, t # u,
                    NEW i \in DOMAIN tk[t].op.pairs, NEW j \in DOMAIN tk[u].op.pairs,
                    tk[t].op.pairs[i].key = tk[u].op.pairs[j].key
             PROVE  FALSE
  BY ZenonT(30) DEF SameKeyExclusion, Range
<1>1. Held(t) = Need(tk[t].op) /\ Held(u) = Need(tk[u].op)
  BY DEF GateInv, StripesHeld, Writing
<1>2. StripeOf[tk[t].op.pairs[i].key] \in Held(t) \cap Held(u)
  BY Zenon, <1>1 DEF Need
<1> QED
  BY Zenon, <1>2 DEF Held

\* Writes of one key never overlap between condition and commit.
THEOREM SameKeyWritesExclude == Spec => []SameKeyExclusion
  BY GateIsInvariant, GateExcludes, PTL

-----------------------------------------------------------------------------
(* A checked condition stands until the write commits.                     *)

\* The index is three functions on the keys.
IndexShape ==
  /\ DOMAIN idx = {"map", "ttl", "valsep"}
  /\ idx.map = [k \in Keys |-> idx.map[k]]
  /\ idx.ttl = [k \in Keys |-> idx.ttl[k]]
  /\ idx.valsep = [k \in Keys |-> idx.valsep[k]]

\* What the proof carries along.
CasInv == GateInv /\ IndexShape /\ CheckedConditionStands

\* t has evaluated the condition of a put and has not committed it.
Checked(t) == tk[t].pc \in {"separate", "append"} /\ tk[t].op.kind = "put"

KeyOf(t) == tk[t].op.pairs[1].key

\* A sequence that is not empty has a first element.
LEMMA FirstOfSeq ==
  ASSUME NEW R, NEW p \in Seq(R), p # <<>>
  PROVE  1 \in DOMAIN p /\ p[1] \in R
  OBVIOUS

\* A put names a key, and the stripe of that key is one the put needs.
LEMMA FirstKey ==
  ASSUME NEW t \in Tasks, GateInv, tk[t].op.kind \in {"put", "del", "ttl"}
  PROVE  KeyOf(t) \in Keys /\ StripeOf[KeyOf(t)] \in Need(tk[t].op)
<1>1. tk[t].op # NoOp /\ tk[t].op \in Ops \cup {NoOp}
  BY DEF GateInv, GateShape, NoOp
<1>2. tk[t].op \in Op /\ tk[t].op.pairs # <<>>
  BY <1>1, OpsAssumption
<1>3. tk[t].op.pairs \in Seq([key : Keys, val : Hashes \cup {Inline}])
  BY <1>2 DEF Op
<1>4. /\ 1 \in DOMAIN tk[t].op.pairs
      /\ tk[t].op.pairs[1] \in [key : Keys, val : Hashes \cup {Inline}]
  BY Zenon, <1>2, <1>3, FirstOfSeq
<1>5. tk[t].op.pairs[1].key \in Keys
  BY <1>4
<1> QED
  BY Zenon, <1>4, <1>5 DEF KeyOf, Need

\* t still executes the call it was executing.
SameCall(t) == tk'[t].op = tk[t].op /\ tk'[t].rev = tk[t].rev /\ tk'[t].now = tk[t].now

\* The condition of a call depends on the index entry and the deadline of its key.
LEMMA ConditionKept ==
  ASSUME NEW t \in Tasks, Condition(t), SameCall(t),
         idx'.map[KeyOf(t)] = idx.map[KeyOf(t)], idx'.ttl[KeyOf(t)] = idx.ttl[KeyOf(t)]
  PROVE  Condition(t)'
  BY Zenon DEF Condition, CondHolds, LiveRev, IsExpired, SameCall, KeyOf

\* A step of t that leaves the other tasks alone and the index entries of the keys
\* they have checked.
Apart(t) ==
  \A u \in Tasks \ {t} :
    /\ tk'[u] = tk[u]
    /\ Checked(u) => /\ idx'.map[KeyOf(u)] = idx.map[KeyOf(u)]
                     /\ idx'.ttl[KeyOf(u)] = idx.ttl[KeyOf(u)]

\* A step of t keeps the conditions of the others, and its own if it has one.
LEMMA ApartKeepsConditions ==
  ASSUME NEW t \in Tasks, CasInv, Apart(t), Checked(t)' => Condition(t)'
  PROVE  CheckedConditionStands'
<1> SUFFICES ASSUME NEW u \in Tasks, Checked(u)' PROVE Condition(u)'
  BY DEF CheckedConditionStands, Checked
<1>1. CASE u # t
  <2>1. Checked(u) /\ SameCall(u)
    BY <1>1 DEF Apart, Checked, SameCall
  <2> QED
    BY <1>1, <2>1, ConditionKept DEF CasInv, CheckedConditionStands, Checked, Apart
<1> QED
  BY <1>1

\* A step that keeps the index keeps it apart.
LEMMA SameIndexApart ==
  ASSUME NEW t \in Tasks, UNCHANGED idx, \A u \in Tasks \ {t} : tk'[u] = tk[u]
  PROVE  Apart(t)
  BY DEF Apart

\* After LogFile::append the writer waits for its write, or has failed.
LEMMA AppendFrame ==
  ASSUME NEW t \in Tasks, NEW task, NEW mine, NEW v, NEW slots, NEW undo,
         GateInv, AppendRecords(t, task, mine, v, slots, undo),
         DOMAIN task = DOMAIN Idle, task.op = tk[t].op, task.rev = tk[t].rev,
         task.now = tk[t].now
  PROVE  /\ \A u \in Tasks \ {t} : tk'[u] = tk[u]
         /\ Checked(t)' => SameCall(t)
<1>1. CASE ActiveFile \notin poisoned
  <2>1. tk' = [tk EXCEPT ![t] = [task EXCEPT !.pc = "append", !.file = ActiveFile,
                                 !.off = Len(data[ActiveFile])]]
    BY <1>1 DEF AppendRecords
  <2> QED
    BY Zenon, <2>1 DEF GateInv, GateShape, SameCall, Idle
<1>2. CASE ActiveFile \in poisoned
  BY <1>2 DEF AppendRecords, Return, GateInv, GateShape, Checked, Idle
<1> QED
  BY <1>1, <1>2

\* In the loop of a put over its pairs the writer keeps its call, or has failed.
LEMMA PutPairsFrame ==
  ASSUME NEW t \in Tasks, NEW i, NEW mine, NEW v, GateInv, PutPairs(t, i, mine, v)
  PROVE  /\ \A u \in Tasks \ {t} : tk'[u] = tk[u]
         /\ Checked(t)' => SameCall(t)
<1>1. PICK ts, slots, undo :
        LET task == [tk[t] EXCEPT !.ts = ts] IN
        \/ tk' = [tk EXCEPT ![t] = [task EXCEPT !.pc = "separate"]]
        \/ AppendRecords(t, task, mine, v, slots, undo)
  BY Zenon DEF PutPairs
<1> DEFINE task == [tk[t] EXCEPT !.ts = ts]
<1>2. /\ DOMAIN task = DOMAIN Idle
      /\ task.op = tk[t].op /\ task.rev = tk[t].rev /\ task.now = tk[t].now
  BY DEF GateInv, GateShape, Idle
<1>3. \/ tk' = [tk EXCEPT ![t] = [task EXCEPT !.pc = "separate"]]
      \/ AppendRecords(t, task, mine, v, slots, undo)
  BY <1>1
<1> HIDE DEF task
<1>4. CASE tk' = [tk EXCEPT ![t] = [task EXCEPT !.pc = "separate"]]
  BY <1>2, <1>4 DEF GateInv, GateShape, SameCall, Idle
<1>5. CASE AppendRecords(t, task, mine, v, slots, undo)
  BY <1>2, <1>5, AppendFrame
<1> QED
  BY <1>3, <1>4, <1>5

\* A key whose stripe is free or held by t is not one another task has checked.
LEMMA OtherKey ==
  ASSUME NEW t \in Tasks, NEW u \in Tasks \ {t}, GateInv, Checked(u),
         NEW k, lock[StripeOf[k]] \in {t, Free}
  PROVE  k # KeyOf(u)
<1>1. StripeOf[KeyOf(u)] \in Held(u)
  BY FirstKey DEF Checked, GateInv, StripesHeld, Writing
<1> QED
  BY <1>1, TasksAssumption DEF Held, Free

\* The key of a call is free or its own when it has or takes its last stripe.
LEMMA OwnKey ==
  ASSUME NEW t \in Tasks, GateInv, tk[t].op.kind \in {"put", "del", "ttl"},
         tk[t].pc = "append" \/ \E s \in Stripes : TakesLast(t, s)
  PROVE  lock[StripeOf[KeyOf(t)]] \in {t, Free}
<1>1. StripeOf[KeyOf(t)] \in Need(tk[t].op)
  BY FirstKey
<1>2. CASE tk[t].pc = "append"
  BY <1>1, <1>2, StripesInHand
<1>3. ASSUME NEW s \in Stripes, TakesLast(t, s)
      PROVE  lock[StripeOf[KeyOf(t)]] \in {t, Free}
  <2>1. StripeOf[KeyOf(t)] \in Held(t) \cup {s} /\ lock[s] = Free
    BY <1>1, <1>3 DEF TakesLast, CanTake
  <2> QED
    BY <2>1 DEF Held
<1> QED
  BY <1>2, <1>3

\* A writer that returns executes no call any more.
LEMMA ReturnFrame ==
  ASSUME NEW t \in Tasks, NEW mine, GateInv, Return(t, mine)
  PROVE  (\A u \in Tasks \ {t} : tk'[u] = tk[u]) /\ ~Checked(t)'
  BY DEF Return, GateInv, GateShape, Checked, Idle

\* Every step of a writer keeps the checked conditions: it changes the index only at
\* keys whose stripes it holds (put_full_cond, put_many, tombstone, ttl_update).
LEMMA WriterKeepsConditions ==
  ASSUME NEW t \in Tasks, CasInv, Writer(t)
  PROVE  CheckedConditionStands'
<1>0. GateInv /\ IndexShape /\ (Checked(t) => Condition(t))
  BY DEF CasInv, CheckedConditionStands, Checked
<1>1. ASSUME UNCHANGED idx, \A u \in Tasks \ {t} : tk'[u] = tk[u],
             Checked(t)' => SameCall(t) /\ Condition(t)
      PROVE  CheckedConditionStands'
  <2>1. Checked(t)' => Condition(t)'
    BY <1>1, ConditionKept
  <2> QED
    BY ZenonT(30), <1>1, <2>1, SameIndexApart, ApartKeepsConditions
<1>2. ASSUME UNCHANGED idx, NEW mine, Return(t, mine) PROVE CheckedConditionStands'
  BY <1>0, <1>1, <1>2, ReturnFrame
<1>3. CASE Enter(t)
  <2>1. tk' = [tk EXCEPT ![t] = Idle] \/ tk' = [tk EXCEPT ![t].pc = "lock"]
    BY <1>3 DEF Enter
  <2>2. (\A u \in Tasks \ {t} : tk'[u] = tk[u]) /\ ~Checked(t)'
    BY <1>0, <2>1 DEF GateInv, GateShape, Checked, Idle
  <2> QED
    BY <1>1, <1>3, <2>2 DEF Enter
<1>4. ASSUME NEW s \in Stripes, TakeStripe(t, s) PROVE CheckedConditionStands'
  <2>1. UNCHANGED <<tk, idx>> /\ ~Checked(t)
    BY <1>4 DEF TakeStripe, CanTake, Checked
  <2> QED
    BY <1>1, <2>1 DEF Checked
<1>5. ASSUME NEW s \in Stripes, StartPut(t, s) PROVE CheckedConditionStands'
  <2>1. UNCHANGED idx /\ Condition(t) /\ \E mine : PutPairs(t, 1, mine, vs)
    BY Zenon, <1>5 DEF StartPut
  <2> QED
    BY <1>0, <1>1, <2>1, PutPairsFrame
<1>6. ASSUME NEW s \in Stripes, StartDel(t, s) PROVE CheckedConditionStands'
  <2>1. PICK mine, ts, old, slots :
          AppendRecords(t, [tk[t] EXCEPT !.ts = ts, !.old = old], mine, vs, slots, <<>>)
    BY Zenon, <1>6 DEF StartDel
  <2> DEFINE task == [tk[t] EXCEPT !.ts = ts, !.old = old]
  <2>2. /\ DOMAIN task = DOMAIN Idle
        /\ task.op = tk[t].op /\ task.rev = tk[t].rev /\ task.now = tk[t].now
    BY <1>0 DEF GateInv, GateShape, Idle
  <2>3. AppendRecords(t, task, mine, vs, slots, <<>>)
    BY <2>1
  <2> HIDE DEF task
  <2>4. (\A u \in Tasks \ {t} : tk'[u] = tk[u]) /\ (Checked(t)' => SameCall(t))
    BY <1>0, <2>2, <2>3, AppendFrame
  <2>5. tk[t].op.kind = "del" /\ TakesLast(t, s) /\ idx' = RemoveKey(idx, KeyOf(t))
    BY <1>6 DEF StartDel, KeyOf
  <2>6. ~Checked(t)'
    BY <2>4, <2>5 DEF SameCall, Checked
  <2>7. ASSUME NEW u \in Tasks \ {t}, Checked(u)
        PROVE  /\ idx'.map[KeyOf(u)] = idx.map[KeyOf(u)]
               /\ idx'.ttl[KeyOf(u)] = idx.ttl[KeyOf(u)]
    <3>1. KeyOf(u) \in Keys
      BY <1>0, <2>7, FirstKey DEF Checked
    <3>2. lock[StripeOf[KeyOf(t)]] \in {t, Free}
      BY <1>0, <2>5, OwnKey
    <3>3. KeyOf(t) # KeyOf(u)
      BY <1>0, <2>7, <3>2, OtherKey
    <3> QED
      BY <1>0, <2>5, <3>1, <3>3 DEF IndexShape, RemoveKey
  <2> QED
    BY <2>4, <2>6, <2>7, ApartKeepsConditions DEF Apart
<1>7. ASSUME NEW s \in Stripes, StartTtl(t, s) PROVE CheckedConditionStands'
  <2>1. PICK mine, ts, slots :
          AppendRecords(t, [tk[t] EXCEPT !.ts = ts], mine, vs, slots, <<>>)
    BY Zenon, <1>7 DEF StartTtl
  <2> DEFINE task == [tk[t] EXCEPT !.ts = ts]
  <2>2. /\ DOMAIN task = DOMAIN Idle
        /\ task.op = tk[t].op /\ task.rev = tk[t].rev /\ task.now = tk[t].now
    BY <1>0 DEF GateInv, GateShape, Idle
  <2>3. AppendRecords(t, task, mine, vs, slots, <<>>)
    BY <2>1
  <2> HIDE DEF task
  <2>4. (\A u \in Tasks \ {t} : tk'[u] = tk[u]) /\ (Checked(t)' => SameCall(t))
    BY <1>0, <2>2, <2>3, AppendFrame
  <2>5. tk[t].op.kind = "ttl" /\ UNCHANGED idx
    BY <1>7 DEF StartTtl
  <2> QED
    BY <1>1, <2>4, <2>5 DEF SameCall, Checked
<1>8. ASSUME NEW s \in Stripes, Refuse(t, s) PROVE CheckedConditionStands'
  BY <1>2, <1>8 DEF Refuse
<1>18. ASSUME NEW s \in Stripes, DelAbsent(t, s) PROVE CheckedConditionStands'
  <2>1. /\ tk[t].op.kind = "del" /\ TakesLast(t, s) /\ Return(t, lock)
        /\ idx' = RemoveKey(idx, KeyOf(t))
    BY Zenon, <1>18 DEF DelAbsent, KeyOf
  <2>2. ASSUME NEW u \in Tasks \ {t}, Checked(u)
        PROVE  /\ idx'.map[KeyOf(u)] = idx.map[KeyOf(u)]
               /\ idx'.ttl[KeyOf(u)] = idx.ttl[KeyOf(u)]
    <3>1. KeyOf(u) \in Keys
      BY <1>0, <2>2, FirstKey DEF Checked
    <3>2. lock[StripeOf[KeyOf(t)]] \in {t, Free}
      BY Zenon, <1>0, <2>1, OwnKey
    <3>3. KeyOf(t) # KeyOf(u)
      BY <1>0, <2>2, <3>2, OtherKey
    <3> QED
      BY <1>0, <2>1, <3>1, <3>3 DEF IndexShape, RemoveKey
  <2> QED
    BY Zenon, <1>0, <2>1, <2>2, ReturnFrame, ApartKeepsConditions DEF Apart
<1>9. CASE Separated(t)
  <2>1. UNCHANGED idx /\ tk[t].pc = "separate" /\ \E i, v : PutPairs(t, i, lock, v)
    BY <1>9 DEF Separated
  <2>2. Checked(t)' => SameCall(t)
    BY <1>0, <2>1, PutPairsFrame
  <2>3. Checked(t)' => Checked(t)
    BY <2>1, <2>2 DEF Checked, SameCall
  <2> QED
    BY ZenonT(30), <1>0, <1>1, <2>1, <2>2, <2>3, PutPairsFrame
<1>10. CASE SeparateFails(t)
  BY Zenon, <1>2, <1>10 DEF SeparateFails
<1>11. CASE CommitPut(t)
  <2>1. /\ tk[t].pc = "append" /\ tk[t].op.kind = "put" /\ idx' = InsertPairs(idx, tk[t])
        /\ tk' = [tk EXCEPT ![t].pc = "rotate"] \/ Return(t, lock)
    BY <1>11 DEF CommitPut
  <2>2. (\A u \in Tasks \ {t} : tk'[u] = tk[u]) /\ ~Checked(t)'
    <3>1. CASE tk' = [tk EXCEPT ![t].pc = "rotate"]
      BY <1>0, <3>1 DEF GateInv, GateShape, Checked, Idle
    <3> QED
      BY <1>0, <2>1, <3>1, ReturnFrame
  <2>3. ASSUME NEW u \in Tasks \ {t}, Checked(u)
        PROVE  /\ idx'.map[KeyOf(u)] = idx.map[KeyOf(u)]
               /\ idx'.ttl[KeyOf(u)] = idx.ttl[KeyOf(u)]
    <3>1. KeyOf(u) \in Keys
      BY <1>0, <2>3, FirstKey DEF Checked
    <3>2. ASSUME NEW j \in PairsOf(tk[t], KeyOf(u)) PROVE FALSE
      <4>1. StripeOf[KeyOf(u)] \in Need(tk[t].op)
        BY <3>2 DEF PairsOf, Need
      <4>2. lock[StripeOf[KeyOf(u)]] = t
        BY <1>0, <2>1, <4>1, StripesInHand
      <4> QED
        BY <1>0, <2>3, <4>2, OtherKey
    <3>3. PairsOf(tk[t], KeyOf(u)) = {}
      BY <3>2
    <3> QED
      BY <2>1, <3>1, <3>3 DEF InsertPairs
  <2> QED
    BY <2>2, <2>3, ApartKeepsConditions DEF Apart
<1>12. CASE CommitDel(t)
  BY <1>2, <1>12 DEF CommitDel
<1>13. CASE CommitTtl(t)
  <2>1. /\ tk[t].pc = "append" /\ tk[t].op.kind = "ttl" /\ Return(t, lock)
        /\ idx' = SetTtl(idx, KeyOf(t), tk[t].op.ttl)
    BY Zenon, <1>13 DEF CommitTtl, KeyOf
  <2>2. ASSUME NEW u \in Tasks \ {t}, Checked(u)
        PROVE  /\ idx'.map[KeyOf(u)] = idx.map[KeyOf(u)]
               /\ idx'.ttl[KeyOf(u)] = idx.ttl[KeyOf(u)]
    <3>1. KeyOf(u) \in Keys
      BY <1>0, <2>2, FirstKey DEF Checked
    <3>2. lock[StripeOf[KeyOf(t)]] \in {t, Free}
      BY <1>0, <2>1, OwnKey
    <3>3. KeyOf(t) # KeyOf(u)
      BY <1>0, <2>2, <3>2, OtherKey
    <3> QED
      BY <1>0, <2>1, <3>1, <3>3 DEF IndexShape, SetTtl
  <2> QED
    BY Zenon, <1>0, <2>1, <2>2, ReturnFrame, ApartKeepsConditions DEF Apart
<1>14. CASE AppendFails(t)
  BY <1>2, <1>14 DEF AppendFails
<1>15. CASE RotateDone(t)
  BY <1>2, <1>15 DEF RotateDone
<1>16. CASE RotateFails(t)
  BY <1>2, <1>16 DEF RotateFails
<1>17. CASE RotateOpenFails(t)
  BY <1>2, <1>17 DEF RotateOpenFails
<1> QED
  BY <1>3, <1>4, <1>5, <1>6, <1>7, <1>8, <1>9, <1>10, <1>11, <1>12, <1>13, <1>14, <1>15,
     <1>16, <1>17, <1>18 DEF Writer

\* While no task has evaluated a condition there is none to keep.
LEMMA NothingChecked ==
  ASSUME Guarded' = {}
  PROVE  CheckedConditionStands'
  BY DEF Guarded, CheckedConditionStands

\* A step that changes neither tasks nor index keeps the checked conditions.
LEMMA SameConditions ==
  ASSUME CasInv, UNCHANGED <<tk, idx>>
  PROVE  CheckedConditionStands' /\ IndexShape'
<1>1. IndexShape'
  BY DEF CasInv, IndexShape
<1>2. ASSUME NEW t \in Tasks, Checked(t)' PROVE Condition(t)'
  BY <1>2, ConditionKept DEF CasInv, CheckedConditionStands, Checked, SameCall
<1> QED
  BY <1>1, <1>2 DEF CheckedConditionStands, Checked

\* The index keeps its shape: a writer inserts, removes or patches entries.
LEMMA WriterKeepsIndexShape ==
  ASSUME NEW t \in Tasks, CasInv, Writer(t)
  PROVE  IndexShape'
<1>0. IndexShape
  BY DEF CasInv
<1>1. ASSUME UNCHANGED idx PROVE IndexShape'
  BY <1>0, <1>1 DEF IndexShape
<1>2. ASSUME NEW s \in Stripes, StartDel(t, s) PROVE IndexShape'
  BY Zenon, <1>0, <1>2 DEF StartDel, RemoveKey, IndexShape
<1>5. ASSUME NEW s \in Stripes, DelAbsent(t, s) PROVE IndexShape'
  BY ZenonT(30), <1>0, <1>5 DEF DelAbsent, RemoveKey, IndexShape
<1>3. CASE CommitPut(t)
  BY <1>3 DEF CommitPut, InsertPairs, IndexShape
<1>4. CASE CommitTtl(t)
  BY <1>0, <1>4 DEF CommitTtl, SetTtl, IndexShape
<1> QED
  BY Zenon, <1>1, <1>2, <1>3, <1>4, <1>5
     DEF Writer, Enter, TakeStripe, StartPut, StartTtl, Refuse, Separated, SeparateFails,
         CommitDel, AppendFails, RotateDone, RotateFails, RotateOpenFails

\* The checked conditions, with the gate, are inductive.
LEMMA StepKeepsCas == CasInv /\ [Next]_vars => CasInv'
<1> SUFFICES ASSUME CasInv, [Next]_vars PROVE CheckedConditionStands' /\ IndexShape'
  BY StepKeepsGate DEF CasInv
<1>0. GateInv /\ IndexShape
  BY DEF CasInv
<1>1. ASSUME NEW t \in Tasks, Writer(t) PROVE CheckedConditionStands' /\ IndexShape'
  BY <1>1, WriterKeepsConditions, WriterKeepsIndexShape
<1>2. ASSUME NEW t \in Tasks, Call(t) PROVE CheckedConditionStands' /\ IndexShape'
  <2>1. UNCHANGED idx /\ \E op, rev : tk' = [tk EXCEPT ![t] =
          [Idle EXCEPT !.pc = "gate", !.op = op, !.rev = rev, !.now = clock]]
    BY Zenon, <1>2 DEF Call
  <2>2. (\A u \in Tasks \ {t} : tk'[u] = tk[u]) /\ ~Checked(t)'
    BY ZenonT(30), <1>0, <2>1 DEF GateInv, GateShape, Checked, Idle
  <2> QED
    BY <1>0, <2>1, <2>2, SameIndexApart, ApartKeepsConditions DEF IndexShape
<1>3. CASE Footers
  BY <1>3, SameConditions DEF Footers, FooterBody, FooterTrailer
<1>4. CASE Maintenance
  <2>1. CASE FlushClear
    <3>1. Guarded = {} /\ UNCHANGED tk /\ idx' = EmptyIndex
      BY <1>0, <2>1, DrainedMeansQuiet DEF FlushClear
    <3>2. Guarded' = {}
      BY <3>1 DEF Guarded
    <3> QED
      BY <3>1, <3>2, NothingChecked DEF EmptyIndex, IndexShape
  <2>2. CASE ReclaimSwap
    <3>1. Guarded = {} /\ UNCHANGED tk
      BY <1>0, <2>2 DEF ReclaimSwap, GateInv, QuiescentSnapshot
    <3>2. Guarded' = {}
      BY <3>1 DEF Guarded
    <3> QED
      BY <1>0, <2>2, <3>2, NothingChecked DEF ReclaimSwap, IndexShape
  <2> QED
    BY Zenon, <1>4, <2>1, <2>2, SameConditions
       DEF Maintenance, ReclaimSeal, ReclaimSealed, ReclaimSealFails, ReclaimMerge,
           ReclaimRename, ReclaimUnlink, ReclaimOpen, ReclaimDone, ReclaimFails, FlushUnlink, FlushDone, FlushFails
<1>5. CASE Sealer
  BY <1>5, SameConditions
     DEF Sealer, SealSync, SealFooter, SealDone, SealFails, ResumeOpen, ResumeDone, ResumeFails
<1>6. CASE Timer
  BY <1>6, SameConditions DEF Timer, SyncDone, SyncFails, Collect
<1>7. CASE ReclaimStart \/ FlushStart \/ Freeze \/ Resume \/ SyncStart \/ Tick
  BY <1>7, SameConditions
     DEF ReclaimStart, FlushStart, Freeze, Resume, SyncStart, Tick
<1>8. ASSUME NEW power \in BOOLEAN, Crash(power)
      PROVE  CheckedConditionStands' /\ IndexShape'
  <2>1. Guarded' = {}
    BY Zenon, <1>8 DEF Crash, Guarded, Idle
  <2>2. idx' = EmptyIndex \/ \E d, ids : idx' = OpenNamespace(d, ids).idx
    BY Zenon, <1>8 DEF Crash
  <2>3. ASSUME NEW d, NEW ids, idx' = OpenNamespace(d, ids).idx PROVE IndexShape'
    BY Zenon, <2>3 DEF OpenNamespace, IndexShape
  <2> QED
    BY <2>1, <2>2, <2>3, NothingChecked DEF EmptyIndex, IndexShape
<1>9. CASE UNCHANGED vars
  BY <1>9, SameConditions DEF vars
<1> QED
  BY <1>1, <1>2, <1>3, <1>4, <1>5, <1>6, <1>7, <1>8, <1>9 DEF Next, Environment

\* The condition put_full_cond evaluated under the stripe still holds when the write
\* commits: no other write, reclaim, flush, expiry update or crash comes between.
THEOREM ConditionsStand == Spec => []CheckedConditionStands
<1>1. Init => CasInv
  <2> SUFFICES ASSUME Init PROVE CasInv
    OBVIOUS
  <2>1. GateInv
    BY StoppedGate DEF Init, Stopped
  <2> QED
    BY Zenon, <2>1 DEF Init, CasInv, IndexShape, EmptyIndex, CheckedConditionStands, Idle
<1>2. CasInv => CheckedConditionStands
  BY DEF CasInv
<1> QED
  BY <1>1, <1>2, StepKeepsCas, PTL DEF Spec
=============================================================================
