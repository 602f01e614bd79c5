------------------------------ MODULE MCHandoff ------------------------------
(* Small instances of Handoff for TLC.                                     *)
EXTENDS Handoff, TLC

CONSTANTS c1, c2, a, b

Base == [attempts |-> 1, faults |-> 0, sigterm |-> FALSE, successors |-> 1,
         early |-> FALSE, dies |-> TRUE, writes |-> 1, clients |-> {c1, c2}, names |-> {a}, open |-> {a},
         shard |-> (c1 :> 1) @@ (c2 :> 2), proto |-> (c1 :> "RESP") @@ (c2 :> "HTTP")]

\* Attempts that may fail anywhere, a second one, and a writer on the second shard.
Faulty == [Base EXCEPT !.faults = 1, !.attempts = 2, !.clients = {c2}]
\* Two connections of one shard, and writers that go on after an abort.
Busy == [Base EXCEPT !.shard = (c1 :> 1) @@ (c2 :> 1), !.proto = (c1 :> "RESP") @@ (c2 :> "RESP"),
                     !.writes = 2, !.faults = 1]
\* Shutdown without a handoff, and a namespace that is first used meanwhile.
Ending == [Base EXCEPT !.attempts = 0, !.sigterm = TRUE, !.faults = 1, !.names = {a, b}]
\* Shutdown in the middle of a handoff.
Interrupted == [Base EXCEPT !.sigterm = TRUE, !.writes = 0, !.clients = {c1}]
\* The successor takes requests before it is ready, and becomes ready.
Eager == [Base EXCEPT !.early = TRUE, !.dies = FALSE]

\* A namespace that is first used during the handoff.
Late == [Base EXCEPT !.names = {b}]

HandoffScenarios == <<Faulty, Busy, Ending, Interrupted, Eager>>
LateScenarios == <<Late>>
=============================================================================
