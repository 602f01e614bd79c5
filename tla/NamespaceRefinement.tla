------------------------ MODULE NamespaceRefinement ------------------------
(***************************************************************************)
(* NamespaceLog keeps the promise of KvNamespace.  The map is the index    *)
(* without the places of the records; a call is the part of a writer task  *)
(* its caller knows about.                                                 *)
(***************************************************************************)
EXTENDS NamespaceLog

\* Holding begins when the condition has been evaluated under the stripes.  A delete
\* takes effect there, a put or deadline update when its record is in the file.
KvPc(task) ==
  CASE task.pc = "idle" -> "idle"
    [] task.pc \in {"gate", "lock"} -> "called"
    [] task.pc = "separate" -> "holds"
    [] task.pc = "append" -> IF task.op.kind = "del" THEN "done" ELSE "holds"
    [] task.pc = "rotate" -> "done"

KvCall(task) ==
  [pc |-> KvPc(task), kind |-> task.op.kind, pairs |-> task.op.pairs,
   cond |-> task.op.cond, rev |-> task.rev, now |-> task.now, ttl |-> task.op.ttl]

KvMap == [k \in Live(idx) |-> [rev |-> idx.map[k].ts, val |-> idx.valsep[k]]]
KvTtl == [k \in {x \in Keys : idx.ttl[x] # NoTtl} |-> idx.ttl[k]]
KvCalls == [t \in Tasks |-> KvCall(tk[t])]

Kv == INSTANCE KvNamespace WITH
  Callers <- Tasks, map <- KvMap, ttl <- KvTtl, call <- KvCalls,
  clearing <- (mt.pc = "flush"), life <- <<budget.kills, budget.losses>>

\* The log implements the atomic namespace: a conditional write takes effect in one
\* step at which its condition holds, deletes and flushes too, reclaims, rotations,
\* seals and the sync timer change nothing a command can see, and calls that share a
\* key do not overlap (put_full_cond, put_many, tombstone_cond, ttl_update, flush).
ImplementsKvNamespace == Kv!Spec
=============================================================================
