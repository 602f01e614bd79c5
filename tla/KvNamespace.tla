---------------------------- MODULE KvNamespace ----------------------------
(***************************************************************************)
(* What a namespace promises to the commands of its shard: a map from keys *)
(* to revisions and values, and the deadlines beside it, changed by atomic *)
(* conditional puts, deletes and deadline updates.                         *)
(*                                                                         *)
(* A call holds its keys from the moment its condition is evaluated until  *)
(* it returns, and calls that share a key hold them one after the other.   *)
(* Readers wait for nobody: they see map and ttl as they are.  How the     *)
(* promise is kept (stripes, write guards, the log) is NamespaceLog.       *)
(***************************************************************************)
EXTENDS Integers, Sequences, FiniteSets

CONSTANTS
  Keys,      \* the keys of the namespace
  Callers    \* whoever has a call in progress, one call each

VARIABLES
  map,       \* a function from the keys present to their revision and value
  ttl,       \* the deadlines; a key that is not in map may have one
  call,      \* the call of each caller
  clearing,  \* a flush has emptied the map and not returned yet
  life       \* which life of the process this is

NoCall == [pc |-> "idle", kind |-> "none", pairs |-> << >>, cond |-> "Any",
           rev |-> 0, now |-> 0, ttl |-> 0]
NoDeadline == 0

KeysOf(c) == {c.pairs[i].key : i \in DOMAIN c.pairs}
KeyOf(c) == c.pairs[1].key

Expired(k, now) == k \in DOMAIN ttl /\ ttl[k] <= now
Rev(k) == IF k \in DOMAIN map THEN map[k].rev ELSE 0
\* The revision conditions compare with: 0 for an absent or expired key.
LiveRev(k, now) == IF Expired(k, now) THEN 0 ELSE Rev(k)

Holds(c) ==
  LET live == LiveRev(KeyOf(c), c.now) IN
  CASE c.cond = "Any"        -> TRUE
    [] c.cond = "KeyAbsent"  -> live = 0
    [] c.cond = "KeyPresent" -> live # 0
    [] c.cond = "Revision"   -> live = c.rev /\ c.rev # 0

Holding == {u \in Callers : call[u].pc \in {"holds", "done"}}
\* Nobody else holds a key of u's call.
KeysFree(u) ==
  \A o \in Holding \ {u} : KeysOf(call[o]) \cap KeysOf(call[u]) = {}

Init == /\ map = << >> /\ ttl = << >> /\ clearing = FALSE
        /\ call = [u \in Callers |-> NoCall]

Invoke(u, c) ==
  /\ call[u].pc = "idle" /\ c.pc = "called"
  /\ call' = [call EXCEPT ![u] = c]
  /\ UNCHANGED <<map, ttl, clearing>>

\* A put or a deadline update that will go on, or a delete that will remove.
MayStart(u) == call[u].pc = "called" /\ ~clearing /\ KeysFree(u) /\ Holds(call[u])

Start(u) ==
  /\ MayStart(u) /\ call[u].kind \in {"put", "ttl"}
  /\ call' = [call EXCEPT ![u].pc = "holds"]
  /\ UNCHANGED <<map, ttl, clearing>>

\* After its effect a call returns at once, or holds its keys a little longer.
Finish(u) == call' = [call EXCEPT ![u] = NoCall] \/ call' = [call EXCEPT ![u].pc = "done"]

\* The value the pairs give to key k: the last pair wins.
Winner(c, k) ==
  LET I == {i \in DOMAIN c.pairs : c.pairs[i].key = k} IN
  c.pairs[CHOOSE i \in I : \A j \in I : j <= i].val

WithDeadline(f, S, d) ==
  [k \in IF d = NoDeadline THEN DOMAIN f \ S ELSE DOMAIN f \cup S |->
     IF k \in S THEN d ELSE f[k]]

\* A put takes effect at revisions revs: at that moment its condition holds, and
\* every key gets a larger revision than the one it had.
CommitPut(u, revs) ==
  LET c == call[u]
      S == KeysOf(c)
  IN
  /\ c.pc = "holds" /\ c.kind = "put" /\ Holds(c) /\ ~clearing
  /\ \A k \in S : k \in DOMAIN revs /\ revs[k] > Rev(k)
  /\ map' = [k \in DOMAIN map \cup S |->
               IF k \in S THEN [rev |-> revs[k], val |-> Winner(c, k)] ELSE map[k]]
  /\ ttl' = WithDeadline(ttl, S, c.ttl)
  /\ Finish(u)
  /\ UNCHANGED clearing

\* The deadline is set whether or not the key is there.
CommitTtl(u) ==
  LET c == call[u] IN
  /\ c.pc = "holds" /\ c.kind = "ttl" /\ ~clearing
  /\ ttl' = WithDeadline(ttl, KeysOf(c), c.ttl)
  /\ Finish(u)
  /\ UNCHANGED <<map, clearing>>

CommitDel(u) ==
  LET k == KeyOf(call[u]) IN
  /\ MayStart(u) /\ call[u].kind = "del" /\ k \in DOMAIN map
  /\ map' = [x \in DOMAIN map \ {k} |-> map[x]]
  /\ ttl' = [x \in DOMAIN ttl \ {k} |-> ttl[x]]
  /\ Finish(u)
  /\ UNCHANGED clearing

\* A delete of an absent key forgets the deadline that was set for it.
DelAbsent(u) ==
  LET k == KeyOf(call[u]) IN
  /\ MayStart(u) /\ call[u].kind = "del" /\ k \notin DOMAIN map
  /\ ttl' = WithDeadline(ttl, {k}, NoDeadline)
  /\ call' = [call EXCEPT ![u] = NoCall]
  /\ UNCHANGED <<map, clearing>>

\* The call returns: it is done, its condition does not hold, or it failed.
Return(u) ==
  /\ call[u].pc # "idle"
  /\ call' = [call EXCEPT ![u] = NoCall]
  /\ UNCHANGED <<map, ttl, clearing>>

\* A flush empties the map once no call holds a key, and no call starts before it
\* returns.
Clear ==
  /\ Holding = {} /\ ~clearing
  /\ map' = << >> /\ ttl' = << >> /\ clearing' = TRUE
  /\ UNCHANGED call
ClearReturns ==
  /\ clearing /\ clearing' = FALSE
  /\ UNCHANGED <<map, ttl, call>>

\* A restart forgets the calls; what is recovered is the subject of NamespaceLog.
Restart == life' # life /\ clearing' = FALSE /\ call' = [u \in Callers |-> NoCall]

Next ==
  \/ /\ life' = life
     /\ \/ \E u \in Callers :
             \/ call'[u].pc = "called" /\ Invoke(u, call'[u])
             \/ Start(u) \/ CommitTtl(u) \/ CommitDel(u) \/ DelAbsent(u)
             \/ Return(u)
             \/ CommitPut(u, [k \in DOMAIN map' |-> map'[k].rev])
        \/ Clear \/ ClearReturns
  \/ Restart

Spec == Init /\ [][Next]_<<map, ttl, call, clearing, life>>
=============================================================================
