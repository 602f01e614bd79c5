---------------------------- MODULE MCShardStore ----------------------------
(* Small instances of ShardStore for TLC.                                  *)
EXTENDS ShardStore

CONSTANTS t1, t2

TwoKeys == 1..2

Op(name, keys) == [NoOp EXCEPT !.name = name, !.keys = keys]
On(name) == Op(name, <<1>>)
Both(name) == Op(name, <<1, 2>>)
SetFor(d) == [On("set") EXCEPT !.val = 5, !.ttl = d]
SetIf(c) == [On("set") EXCEPT !.val = 7, !.cond = c]
Keep == [On("set") EXCEPT !.val = 6, !.keep = TRUE]
For(name, d) == [On(name) EXCEPT !.ttl = d]

Limits(ops, n, ticks) == [ops |-> ops, n |-> n, ticks |-> ticks, faults |-> 0, watches |-> 0,
                         filters |-> {}, reclaims |-> 0]

\* Counters with a deadline; reads that fill L1; a failure.
Counters ==
  [Limits({SetFor(1), On("incr"), On("get"), On("del"), For("expire", 1)}, 3, 1)
     EXCEPT !.faults = 1]
\* The commands that read before they write.
Swaps == Limits({SetFor(1), Keep, On("getset"), On("getdel"), For("getex", 1), On("getex"),
                 On("persist"), On("ttl")}, 3, 1)
\* Conditional writes.
Conditions == Limits({SetIf("KeyAbsent"), SetIf("KeyPresent"), SetIf("Revision"),
                      On("delrev"), On("get")}, 3, 0)
\* Two keys at once, and a flush.
Bulk == Limits({Both("mset"), Both("mget"), Both("del"), On("flushdb"), SetFor(1)}, 3, 1)
\* A client that watches one key and reconnects once.
WatchOne == [Limits({SetFor(None), On("del"), For("expire", 1)}, 3, 0)
               EXCEPT !.watches = 2, !.filters = {{1}}, !.reclaims = 1]
\* A client that watches both keys.
WatchBoth == [Limits({Both("mset"), SetFor(None), On("flushdb")}, 2, 0)
                EXCEPT !.watches = 1, !.filters = {{1, 2}}]

\* lazy_delete: a read of an expired key while it is written again.
LazyScenarios == {Limits({SetFor(1), On("get")}, 3, 1)}

StoreScenarios == {Counters, Swaps, Conditions, Bulk, WatchOne, WatchBoth}
=============================================================================
