--------------------------- MODULE MCNamespaceLog ---------------------------
(* Small instances of NamespaceLog for TLC.                                *)
EXTENDS NamespaceRefinement, TLC

CONSTANTS t1, t2

TwoKeys == {"a", "b"}
OwnStripes == [k \in Keys |-> IF k = "a" THEN 1 ELSE 2]

Pair(k, v) == [key |-> k, val |-> v]
Put(k, v) == [kind |-> "put", ttl |-> NoTtl, pairs |-> <<Pair(k, v)>>, cond |-> "Any"]
PutIf(k, v, c) == [Put(k, v) EXCEPT !.cond = c]
PutMany(ps) == [Put("a", Inline) EXCEPT !.pairs = ps]
Del(k) == [Put(k, Inline) EXCEPT !.kind = "del"]
DelIf(k) == [Del(k) EXCEPT !.cond = "Revision"]
Ttl(k, d) == [Put(k, Inline) EXCEPT !.kind = "ttl", !.ttl = d]

\* Conditional writes of one key, inline and in a blob, with its deadline passing.
CasOps == {Put("a", Inline), PutIf("a", "h", "Revision"), PutIf("a", Inline, "KeyPresent"),
           DelIf("a"), Ttl("a", 1)}
\* Two keys sharing the content of one blob.
ValueOps == {Put("a", "h"), Put("b", "h"), Put("a", Inline), Del("b"),
             PutMany(<<Pair("a", "h"), Pair("a", Inline)>>)}
\* One call of each kind, for failing I/O; a batch of two fills a file.
FaultOps == {Put("a", "h"), Put("b", Inline), Del("a"), Ttl("a", 1),
             PutMany(<<Pair("a", "h"), Pair("b", "g")>>)}
\* Writes that a kill or a seal meets, and a batch that a power loss meets.
RecoverOps == {Put("a", Inline), PutIf("b", Inline, "KeyAbsent"), Del("a")}
PowerOps == {Put("a", Inline), PutMany(<<Pair("a", Inline), Pair("b", Inline)>>), Del("a")}
\* Batches with opposite key order.
GateOps == {PutMany(<<Pair("a", Inline), Pair("b", Inline)>>),
            PutMany(<<Pair("b", Inline), Pair("a", Inline)>>), Del("a")}

AllOps == UNION {CasOps, ValueOps, FaultOps, RecoverOps, PowerOps, GateOps}

\* A scenario in files too large to rotate.
Scenario(calls, ops, maint, seals) ==
  [calls |-> calls, ops |-> ops, maint |-> maint, seals |-> seals, kills |-> 0, losses |-> 0,
   faults |-> 0, ticks |-> 0, of |-> [faults |-> 0, losses |-> 0], writers |-> 2,
   rotate |-> 100]

\* Two calls with a maintenance and with a seal; a batch and a delete with both.
GateScenarios ==
  {Scenario(GateOps, 2, 1, 0), Scenario(GateOps, 2, 0, 1),
   Scenario({PutMany(<<Pair("a", Inline), Pair("b", Inline)>>), Del("a")}, 2, 1, 1)}

\* Conditional writes with a deadline, and with reclaims that merge; shared blobs; one
\* call and one failure of each kind in files that rotate.
FaultyScenario(ops, maint, seals) ==
  [Scenario(FaultOps, ops, maint, seals) EXCEPT !.faults = 1, !.of.faults = 1, !.rotate = 2]
LogScenarios ==
  {[Scenario(CasOps, 4, 0, 0) EXCEPT !.ticks = 1], Scenario(CasOps, 3, 1, 0),
   Scenario(CasOps, 2, 2, 0),
   Scenario(ValueOps, 3, 1, 0),
   FaultyScenario(2, 1, 0), FaultyScenario(2, 0, 1), FaultyScenario(1, 1, 1)}

\* Two reclaims (so that runs merge) with a kill at any point; two seals, each resumed or
\* not; one writer at a time, the sync timer and reclaims with a power loss at any point.
RecoverScenarios ==
  {[Scenario({Put("a", Inline), Del("a")}, 3, 2, 0) EXCEPT !.kills = 1],
   [Scenario(RecoverOps, 2, 2, 0) EXCEPT !.kills = 1], Scenario(RecoverOps, 4, 0, 2),
   [Scenario(PowerOps, 2, 2, 0) EXCEPT !.losses = 1, !.of.losses = 1, !.writers = 1]}

\* A put, then a delete in a later file.
DeletedScenarios == {Scenario({Put("a", Inline), Del("a")}, 2, 0, 2)}

\* Two writers of different keys; the first one fills the file.
RotationScenarios ==
  {[Scenario({Put("a", Inline), Put("b", Inline)}, 2, 0, 0) EXCEPT !.rotate = 1]}

TaskSymmetry == Permutations(Tasks)
=============================================================================
