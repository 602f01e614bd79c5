------------------------------ MODULE MCFanOut ------------------------------
(* Small instances of FanOut for TLC.                                      *)
EXTENDS FanOut

CONSTANTS c1, c2, c3

FourKeys == 1..4
ThreeShards == <<0, 1, 2, 0>>

On(op, keys) == [NoCmd EXCEPT !.op = op, !.keys = keys, !.val = 2]
All(op, http) == [NoCmd EXCEPT !.op = op, !.http = http]
Pages(http) == [All("scan", http) EXCEPT !.count = 1]
Batch(ops, keys) == [On("batch", keys) EXCEPT !.ops = ops]

\* c1 and c3 live on the first shard, c2 on the second.
Allow(cmds1, cmds2, cmds3) ==
  [cmds |-> (c1 :> cmds1) @@ (c2 :> cmds2) @@ (c3 :> cmds3),
   n |-> (c1 :> 1) @@ (c2 :> 1) @@ (c3 :> IF cmds3 = {} THEN 0 ELSE 1),
   home |-> (c1 :> 0) @@ (c2 :> 1) @@ (c3 :> 0),
   stored |-> {1, 2}, faults |-> 0, stops |-> {}]

\* Three senders meet at the third shard and at each other's.
Crossing == Allow({On("mset", <<2, 3>>)}, {On("del", <<3, 1>>)}, {On("mset", <<3>>)})
Reading == Allow({On("mget", <<3, 4, 2>>)}, {On("mset", <<3, 1>>), On("exists", <<1, 3>>)}, {})
\* A part that fails.
Failing == [Allow({On("del", <<2, 3>>)}, {All("flushdb", TRUE), All("dbsize", TRUE)}, {})
              EXCEPT !.faults = 1]
\* Whole keyspaces beside writes.
Totals == Allow({All("dbsize", FALSE)}, {On("mset", <<3, 4>>)}, {})
Flushes == [Allow({All("keys", FALSE), All("flushdb", FALSE)}, {On("mset", <<3, 2>>)}, {})
              EXCEPT !.faults = 1]
\* Scans beside writes.
Scans == [Allow({Pages(FALSE), Pages(TRUE)}, {On("mset", <<3, 4>>), On("del", <<1, 2>>)}, {})
            EXCEPT !.stored = {1, 2, 4}]
\* Batches, one of them with a condition that may fail, and subscriptions.
Batches == [Allow({Batch(<<"set", "setnx", "get">>, <<1, 3, 2>>),
                   Batch(<<"incr", "setxx", "delrev">>, <<4, 2, 1>>)},
                  {Batch(<<"getdel", "set", "setrev">>, <<2, 3, 2>>),
                   Batch(<<"exists", "del">>, <<1, 1>>),
                   On("watch", <<1, 2>>), All("pwatch", FALSE), All("pwatch", TRUE),
                   [On("watch", <<2>>) EXCEPT !.http = TRUE]}, {})
              EXCEPT !.faults = 1]
\* A worker ends while others wait for it.
Ending == [Allow({On("mset", <<2, 3>>), All("dbsize", FALSE)}, {On("mget", <<3, 1>>)}, {})
             EXCEPT !.stops = {2}]
Parked == [Allow({On("mset", <<3>>)}, {On("mget", <<3>>)}, {On("del", <<3>>)})
             EXCEPT !.stops = {2}]

FanOutScenarios ==
  <<Crossing, Reading, Failing, Totals, Flushes, Scans, Batches, Ending, Parked>>
=============================================================================
