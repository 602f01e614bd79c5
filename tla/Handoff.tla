------------------------------- MODULE Handoff -------------------------------
(***************************************************************************)
(* The life of a server process: connections are accepted and given to     *)
(* shards, writes are acknowledged, and the process hands its data over to *)
(* a successor, takes it back when that fails, or shuts down.              *)
(*                                                                         *)
(* The accept loops, the workers and the handoff control thread are        *)
(* threads.  The supervisor, the successor and the data directory lock     *)
(* belong to the handoff library; they are modelled as the server and its  *)
(* tests use them.                                                         *)
(*                                                                         *)
(* A log file is a sequence of pieces: records, footer bodies, trailers.   *)
(* What a footer and a recovery are in detail is LogFiles.                 *)
(***************************************************************************)
EXTENDS Integers, Sequences, FiniteSets

CONSTANTS
  NShards,     \* worker threads
  Names,       \* namespaces
  Clients,     \* clients, each with one connection and its own keys
  Scenarios,   \* a sequence of scenarios: see left
  InboxCap,    \* connections an inbox of a worker holds (64 in the code)
  MaxConns     \* max_conns_per_shard

VARIABLES
  closed,      \* accept_closed
  shutdown,    \* the shutdown flag
  loop,        \* the accept loop of each protocol
  client,      \* the connection and the write of each client
  inbox,       \* accepted connections on their way to each worker
  worker,      \* where each worker thread is
  ns,          \* the namespaces each shard has open, and their freeze flags
  files,       \* the log files of each namespace, the active one last
  mem,         \* the writes in the index of each namespace
  ops,         \* the handoff operations queued for each worker
  replies,     \* the reply each worker sent to the control thread
  seals,       \* the seals under way in each shard: by the operation, by the exit
  ctl,         \* the control thread
  lock,        \* who holds the data directory
  nmem,        \* the writes the successor sees; it has not opened yet when Unopened
  acked,       \* history: the writes that were acknowledged
  left         \* the scenario, and what it still allows

vars == <<closed, shutdown, loop, client, inbox, worker, ns, files, mem, ops, replies,
          seals, ctl, lock, nmem, acked, left>>

Shards == 1..NShards
Protos == {"RESP", "HTTP"}
Scenario == Scenarios[left.of]

ASSUME HandoffAssumption ==
  NShards \in Nat \ {0} /\ InboxCap \in Nat /\ MaxConns \in Nat /\ IsFiniteSet(Clients)

\* A scenario: what may happen, the namespaces open at the start and the ones written to,
\* the shard and the protocol of each client.
ASSUME ScenariosAssumption ==
  \A i \in DOMAIN Scenarios :
    /\ Scenarios[i].attempts \in Nat /\ Scenarios[i].faults \in Nat
    /\ Scenarios[i].successors \in Nat /\ Scenarios[i].sigterm \in BOOLEAN
    /\ Scenarios[i].names \subseteq Names /\ Scenarios[i].open \subseteq Names
    /\ Scenarios[i].shard \in [Clients -> Shards]
    /\ Scenarios[i].proto \in [Clients -> Protos]

Unopened == {<<"unopened", 0>>}
Sealers == {"op", "exit"}
Unsealed == [stage |-> "sync", file |-> 0, has |-> {}]
NotSealing == [on |-> FALSE, drained |-> FALSE, at |-> << >>]

-----------------------------------------------------------------------------
(* Files.                                                                  *)

Record(w) == [kind |-> "record", has |-> {w}]
Body(ws) == [kind |-> "body", has |-> ws]
Trailer(ws) == [kind |-> "trailer", has |-> ws]

Records(f) == {i \in DOMAIN f : f[i].kind = "record"}

\* read_footer: a trailer is good when the bytes before it are its body, or its body is
\* empty.
FooterGood(f) ==
  \/ f[Len(f)].has = {}
  \/ Len(f) > 1 /\ f[Len(f) - 1] = Body(f[Len(f)].has)
HasTrailer(f) == f # << >> /\ f[Len(f)].kind = "trailer"

\* What opening the file finds: the entries of its footer, or else the records before
\* the first byte that is none.
Recovered(f) ==
  IF HasTrailer(f) THEN f[Len(f)].has
  ELSE UNION {f[i].has : i \in {j \in Records(f) : \A k \in 1..j : k \in Records(f)}}

Opens(fs) == \A i \in DOMAIN fs : HasTrailer(fs[i]) => FooterGood(fs[i])
Found(fs) == UNION {Recovered(fs[i]) : i \in DOMAIN fs}

EveryNs == Shards \X Names
AllOpen == \A x \in EveryNs : Opens(files[x[1]][x[2]])
AllFound == UNION {Found(files[x[1]][x[2]]) : x \in EveryNs}
Known == UNION {mem[x[1]][x[2]] : x \in EveryNs}

Active(s, n) == Len(files[s][n])
Extended(s, n, f, piece) == [files EXCEPT ![s][n][f] = Append(@, piece)]

OpenNames(s) == {n \in Names : ns[s][n].open}
InFlight(s, n) == {c \in Clients : client[c].pc = "append" /\ client[c].s = s /\ client[c].n = n}

-----------------------------------------------------------------------------
(* Connections.                                                            *)

\* accept_loop: the flags were read, then a connection was taken from the kernel's queue.
Accept(c) ==
  /\ client[c].pc = "waiting" /\ loop[client[c].proto] = "look"
  /\ ~shutdown /\ ~closed
  /\ client' = [client EXCEPT ![c].pc = "accepted"]
  /\ loop' = [loop EXCEPT ![client[c].proto] = "routing"]
  /\ UNCHANGED <<closed, shutdown, inbox, worker, ns, files, mem, ops, replies, seals, ctl,
                 lock, nmem, acked, left>>

\* accept_one: the connection goes to the shard of the key its first bytes name.  A full
\* inbox sheds it; a worker that is gone ends the loop.
accept_one(c) ==
  LET s == client[c].s
      p == client[c].proto
  IN /\ client[c].pc = "accepted"
     /\ IF worker[s] = "gone"
        THEN /\ client' = [client EXCEPT ![c].pc = "gone"]
             /\ loop' = [loop EXCEPT ![p] = "ended"]
             /\ inbox' = inbox
        ELSE /\ loop' = [loop EXCEPT ![p] = "look"]
             /\ IF Len(inbox[s][p]) >= InboxCap
                THEN client' = [client EXCEPT ![c].pc = "gone"] /\ inbox' = inbox
                ELSE /\ client' = [client EXCEPT ![c].pc = "queued"]
                     /\ inbox' = [inbox EXCEPT ![s][p] = Append(@, c)]
     /\ UNCHANGED <<closed, shutdown, worker, ns, files, mem, ops, replies, seals, ctl, lock,
                    nmem, acked, left>>

\* The loop ends on shutdown.  (main sets the flag itself when its own loop has ended; that
\* loop ends without the flag only when a worker is gone, and no worker goes before it.)
EndLoop(p) ==
  /\ loop[p] = "look" /\ shutdown
  /\ loop' = [loop EXCEPT ![p] = "ended"]
  /\ UNCHANGED <<closed, shutdown, client, inbox, worker, ns, files, mem, ops, replies, seals,
                 ctl, lock, nmem, acked, left>>

Live == {"open", "opening", "append"}
ConnCount(s, p) ==
  Cardinality({c \in Clients : client[c].s = s /\ client[c].proto = p /\ client[c].pc \in Live})
total_open_conns == Cardinality({c \in Clients : client[c].pc \in Live})

\* Mutation: the limit is not looked at.
serve_loop_unlimited(s, p) ==
  /\ worker[s] = "serving" /\ inbox[s][p] # << >>
  /\ inbox' = [inbox EXCEPT ![s][p] = Tail(@)]
  /\ client' = [client EXCEPT ![Head(inbox[s][p])].pc = "open"]
  /\ UNCHANGED <<closed, shutdown, loop, worker, ns, files, mem, ops, replies, seals, ctl,
                 lock, nmem, acked, left>>
\* serve_loop: a connection is taken from the inbox, or dropped at the limit.
serve_loop(s, p) ==
  /\ worker[s] = "serving" /\ inbox[s][p] # << >>
  /\ inbox' = [inbox EXCEPT ![s][p] = Tail(@)]
  /\ client' = [client EXCEPT ![Head(inbox[s][p])].pc =
                  IF ConnCount(s, p) >= MaxConns THEN "gone" ELSE "open"]
  /\ UNCHANGED <<closed, shutdown, loop, worker, ns, files, mem, ops, replies, seals, ctl,
                 lock, nmem, acked, left>>

\* The client leaves; its ConnGuard is dropped.
Leave(c) ==
  /\ client[c].pc = "open"
  /\ client' = [client EXCEPT ![c].pc = "gone"]
  /\ UNCHANGED <<closed, shutdown, loop, inbox, worker, ns, files, mem, ops, replies, seals,
                 ctl, lock, nmem, acked, left>>

-----------------------------------------------------------------------------
(* Writes.                                                                 *)

\* begin_write: refused while the namespace is frozen, counted and appended otherwise.
BeginWrite(c, s, n, frozen) ==
  IF frozen
  THEN client' = [client EXCEPT ![c].pc = "open"] /\ files' = files
  ELSE /\ client' = [client EXCEPT ![c].pc = "append", ![c].n = n]
       /\ files' = Extended(s, n, Active(s, n), Record(<<c, client[c].w>>))

\* ensure_ns finds the namespace, or begins to open it.
Write(c, n) ==
  LET s == client[c].s
  IN /\ client[c].pc = "open" /\ client[c].w < Scenario.writes
     /\ n \in Scenario.names
     /\ IF ns[s][n].open
        THEN /\ BeginWrite(c, s, n, ns[s][n].frozen)
             /\ UNCHANGED ns
        ELSE /\ client' = [client EXCEPT ![c].pc = "opening", ![c].n = n]
             /\ UNCHANGED <<ns, files>>
     /\ UNCHANGED <<closed, shutdown, loop, inbox, worker, mem, ops, replies, seals, ctl, lock,
                    nmem, acked, left>>

\* ensure_ns after its await: inserted unless another task was first.
Opened(c) ==
  LET s == client[c].s
      n == client[c].n
  IN /\ client[c].pc = "opening"
     /\ ns' = [ns EXCEPT ![s][n].open = TRUE]
     /\ BeginWrite(c, s, n, ns[s][n].frozen)
     /\ UNCHANGED <<closed, shutdown, loop, inbox, worker, mem, ops, replies, seals, ctl, lock,
                    nmem, acked, left>>

\* The append returned: the index is updated, the guard dropped, the client told.
Ack(c) ==
  LET w == <<c, client[c].w>>
  IN /\ client[c].pc = "append"
     /\ mem' = [mem EXCEPT ![client[c].s][client[c].n] = @ \cup {w}]
     /\ acked' = acked \cup {w}
     /\ client' = [client EXCEPT ![c].pc = "open", ![c].w = @ + 1]
     /\ UNCHANGED <<closed, shutdown, loop, inbox, worker, ns, files, ops, replies, seals, ctl,
                    lock, nmem, left>>

-----------------------------------------------------------------------------
(* Sealing a shard: seal_all_for_shutdown, by a handoff operation or by    *)
(* the worker that ends.                                                   *)

\* The namespaces are listed and frozen.
SealBegun(s, who) ==
  /\ seals' = [seals EXCEPT ![s][who] = [on |-> TRUE, drained |-> FALSE,
                                         at |-> [n \in OpenNames(s) |-> Unsealed]]]
  /\ ns' = [ns EXCEPT ![s] = [n \in Names |->
              IF n \in OpenNames(s) THEN [@[n] EXCEPT !.frozen = TRUE] ELSE @[n]]]

\* Mutation: the writes under way are not waited for.
FreezeAndGo(s, who) ==
  /\ seals[s][who].on /\ ~seals[s][who].drained
  /\ seals' = [seals EXCEPT ![s][who].drained = TRUE]
  /\ UNCHANGED <<closed, shutdown, loop, client, inbox, worker, ns, files, mem, ops, replies,
                 ctl, lock, nmem, acked, left>>
\* freeze_and_drain has returned for each of them.
FreezeAndDrain(s, who) ==
  /\ seals[s][who].on /\ ~seals[s][who].drained
  /\ \A n \in DOMAIN seals[s][who].at : InFlight(s, n) = {}
  /\ seals' = [seals EXCEPT ![s][who].drained = TRUE]
  /\ UNCHANGED <<closed, shutdown, loop, client, inbox, worker, ns, files, mem, ops, replies,
                 ctl, lock, nmem, acked, left>>

\* The footer's entries: the index entries that point into the file.
Entries(s, n, f) == mem[s][n] \cap UNION {files[s][n][f][i].has : i \in Records(files[s][n][f])}

\* seal_active_for_shutdown of one namespace: the active file is looked up and fsynced,
\* the footer is built and its body appended, then the trailer; other tasks run between.
SealStep(s, who, n) ==
  LET it == seals[s][who].at[n]
      to(next) == seals' = [seals EXCEPT ![s][who].at[n] = next]
  IN /\ seals[s][who].on /\ seals[s][who].drained /\ n \in DOMAIN seals[s][who].at
     /\ \/ /\ it.stage = "sync"
           /\ to([it EXCEPT !.stage = "body", !.file = Active(s, n)])
           /\ UNCHANGED files
        \/ /\ it.stage = "body"
           /\ LET has == Entries(s, n, it.file)
              IN /\ to([it EXCEPT !.stage = "trailer", !.has = has])
                 /\ files' = Extended(s, n, it.file, Body(has))
        \/ /\ it.stage = "trailer"
           /\ to([it EXCEPT !.stage = "done"])
           /\ files' = Extended(s, n, it.file, Trailer(it.has))
     /\ UNCHANGED <<closed, shutdown, loop, client, inbox, worker, ns, mem, ops, replies, ctl,
                    lock, nmem, acked, left>>

\* The fsync or an append fails.
SealFails(s, who, n) ==
  /\ seals[s][who].on /\ seals[s][who].drained /\ n \in DOMAIN seals[s][who].at
  /\ seals[s][who].at[n].stage \in {"sync", "body", "trailer"} /\ left.faults > 0
  /\ seals' = [seals EXCEPT ![s][who].at[n].stage = "failed"]
  /\ left' = [left EXCEPT !.faults = @ - 1]
  /\ UNCHANGED <<closed, shutdown, loop, client, inbox, worker, ns, files, mem, ops, replies,
                 ctl, lock, nmem, acked>>

SealOver(s, who) ==
  /\ seals[s][who].on /\ seals[s][who].drained
  /\ \A n \in DOMAIN seals[s][who].at : seals[s][who].at[n].stage \in {"done", "failed"}
SealOk(s, who) == \A n \in DOMAIN seals[s][who].at : seals[s][who].at[n].stage = "done"

-----------------------------------------------------------------------------
(* serve_handoff_inbox and handle_op: one operation after the other.       *)

Replied(s, ok) == replies' = [replies EXCEPT ![s] = Append(@, IF ok THEN "ok" ELSE "error")]
Serving(s, op) == worker[s] # "gone" /\ ops[s] # << >> /\ Head(ops[s]) = op
Handled(s) == ops' = [ops EXCEPT ![s] = Tail(@)]

\* HandoffOp::Drain: sync_logs.
HandleDrain(s) ==
  /\ Serving(s, "drain")
  /\ Handled(s)
  /\ \/ Replied(s, TRUE) /\ UNCHANGED left
     \/ left.faults > 0 /\ Replied(s, FALSE) /\ left' = [left EXCEPT !.faults = @ - 1]
  /\ UNCHANGED <<closed, shutdown, loop, client, inbox, worker, ns, files, mem, seals, ctl,
                 lock, nmem, acked>>

\* HandoffOp::Seal: seal_all_for_shutdown begins.
HandleSeal(s) ==
  /\ Serving(s, "seal") /\ ~seals[s]["op"].on
  /\ SealBegun(s, "op")
  /\ UNCHANGED <<closed, shutdown, loop, client, inbox, worker, files, mem, ops, replies, ctl,
                 lock, nmem, acked, left>>
\* It is over.
HandleSealEnd(s) ==
  /\ Serving(s, "seal") /\ SealOver(s, "op")
  /\ Handled(s) /\ Replied(s, SealOk(s, "op"))
  /\ seals' = [seals EXCEPT ![s]["op"] = NotSealing]
  /\ UNCHANGED <<closed, shutdown, loop, client, inbox, worker, ns, files, mem, ctl, lock,
                 nmem, acked, left>>

\* HandoffOp::Resume: resume_after_abort gives every namespace a new active file and, if
\* none of that failed, unfreezes them.
\* Mutation: taken as soon as it is queued, before the seal it follows is over.
HandleResumeAtOnce(s) ==
  /\ worker[s] # "gone" /\ \E i \in DOMAIN ops[s] : ops[s][i] = "resume"
  /\ ops' = [ops EXCEPT ![s] = SelectSeq(@, LAMBDA op : op # "resume")]
  /\ Replied(s, TRUE)
  /\ files' = [files EXCEPT ![s] = [n \in Names |-> IF n \in OpenNames(s) THEN Append(@[n], << >>)
                                                    ELSE @[n]]]
  /\ ns' = [ns EXCEPT ![s] = [n \in Names |-> [@[n] EXCEPT !.frozen = FALSE]]]
  /\ UNCHANGED <<closed, shutdown, loop, client, inbox, worker, mem, seals, ctl, lock, nmem,
                 acked, left>>
HandleResume(s) ==
  /\ Serving(s, "resume")
  /\ Handled(s)
  /\ \E failed \in SUBSET OpenNames(s) :
       /\ failed = {} \/ left.faults > 0
       /\ left' = [left EXCEPT !.faults = IF failed = {} THEN @ ELSE @ - 1]
       /\ Replied(s, failed = {})
       /\ files' = [files EXCEPT ![s] = [n \in Names |->
                      IF n \in OpenNames(s) \ failed THEN Append(@[n], << >>) ELSE @[n]]]
       /\ ns' = IF failed # {} THEN ns
                ELSE [ns EXCEPT ![s] = [n \in Names |->
                        IF n \in OpenNames(s) THEN [@[n] EXCEPT !.frozen = FALSE] ELSE @[n]]]
  /\ UNCHANGED <<closed, shutdown, loop, client, inbox, worker, mem, seals, ctl, lock, nmem,
                 acked>>

-----------------------------------------------------------------------------
(* The end of a worker, and of the process.                                *)

\* Mutation: the worker waits for its connections to close.
WorkerEndsIdle(s) ==
  /\ worker[s] = "serving" /\ loop["RESP"] = "ended" /\ inbox[s]["RESP"] = << >>
  /\ ConnCount(s, "RESP") = 0
  /\ worker' = [worker EXCEPT ![s] = "ending"]
  /\ SealBegun(s, "exit")
  /\ UNCHANGED <<closed, shutdown, loop, client, inbox, files, mem, ops, replies, ctl, lock,
                 nmem, acked, left>>
\* resp::serve returns when the RESP loop has dropped its senders and the inbox is empty.
\* The logs are synced, then the seal begins.
WorkerEnds(s) ==
  /\ worker[s] = "serving" /\ loop["RESP"] = "ended" /\ inbox[s]["RESP"] = << >>
  /\ worker' = [worker EXCEPT ![s] = "ending"]
  /\ SealBegun(s, "exit")
  /\ UNCHANGED <<closed, shutdown, loop, client, inbox, files, mem, ops, replies, ctl, lock,
                 nmem, acked, left>>

\* block_on returns: every task of the worker is dropped where it is.
WorkerGone(s) ==
  /\ worker[s] = "ending" /\ SealOver(s, "exit")
  /\ worker' = [worker EXCEPT ![s] = "gone"]
  /\ client' = [c \in Clients |->
                  IF client[c].s = s /\ client[c].pc \in Live \cup {"queued"}
                  THEN [client[c] EXCEPT !.pc = "gone"] ELSE client[c]]
  /\ inbox' = [inbox EXCEPT ![s] = [p \in Protos |-> << >>]]
  /\ replies' = [replies EXCEPT ![s] = @ \o [i \in DOMAIN ops[s] |-> "error"]]
  /\ ops' = [ops EXCEPT ![s] = << >>]
  /\ seals' = [seals EXCEPT ![s] = [who \in Sealers |-> NotSealing]]
  /\ UNCHANGED <<closed, shutdown, loop, ns, files, mem, ctl, lock, nmem, acked, left>>

Exited == \A s \in Shards : worker[s] = "gone"

\* SIGTERM, SIGINT.
Sigterm ==
  /\ left.sigterm /\ ~shutdown
  /\ shutdown' = TRUE
  /\ left' = [left EXCEPT !.sigterm = FALSE]
  /\ UNCHANGED <<closed, loop, client, inbox, worker, ns, files, mem, ops, replies, seals, ctl,
                 lock, nmem, acked>>

\* The watchdog's 30 seconds are over: abort.
Watchdog ==
  /\ loop["RESP"] = "ended" /\ loop["HTTP"] = "ended" /\ ~Exited
  /\ worker' = [s \in Shards |-> "gone"]
  /\ client' = [c \in Clients |-> [client[c] EXCEPT !.pc = "gone"]]
  /\ inbox' = [s \in Shards |-> [p \in Protos |-> << >>]]
  /\ seals' = [s \in Shards |-> [who \in Sealers |-> NotSealing]]
  /\ UNCHANGED <<closed, shutdown, loop, ns, files, mem, ops, replies, ctl, lock, nmem, acked,
                 left>>

-----------------------------------------------------------------------------
(* The control thread: Incumbent::serve calls drain, seal and              *)
(* resume_after_abort as the supervisor asks.                              *)

Own == <<loop, client, inbox, worker, ns, files, mem, replies, seals, acked>>

\* fan_out: one operation to each worker in turn, up to one that is gone.
Reached == {s \in Shards : \A t \in 1..s : worker[t] # "gone"}
fan_out(op, then) ==
  /\ ops' = [s \in Shards |-> IF s \in Reached THEN Append(ops[s], op) ELSE ops[s]]
  /\ ctl' = [stage |-> IF Reached = Shards THEN then
                       ELSE IF op = "resume" THEN "failed" ELSE "abort",
             k |-> ctl.k + 1]

Reply(s) == IF ctl.k <= Len(replies[s]) THEN replies[s][ctl.k] ELSE "none"
AllOk == \A s \in Shards : Reply(s) = "ok"
\* Replies are read in the order of the workers.
FirstIsError == \E s \in Shards : Reply(s) = "error" /\ \A t \in 1..(s - 1) : Reply(t) = "ok"
Stage(stage) == ctl' = [ctl EXCEPT !.stage = stage]

\* Prepare: drain.
Drain ==
  /\ ctl.stage = "idle" /\ left.attempts > 0 /\ ~Exited
  /\ closed' = TRUE
  /\ fan_out("drain", "draining")
  /\ left' = [left EXCEPT !.attempts = @ - 1]
  /\ UNCHANGED <<Own, shutdown, lock, nmem>>
DrainReplies ==
  /\ ctl.stage = "draining"
  /\ \/ AllOk /\ Stage("conns")
     \/ FirstIsError /\ Stage("abort")
     \/ ~AllOk /\ Stage("abort")    \* recv_timeout
  /\ UNCHANGED <<Own, closed, shutdown, ops, lock, nmem, left>>
\* Mutation: the deadline is forgotten.
DrainConnsAll ==
  /\ ctl.stage = "conns" /\ total_open_conns = 0
  /\ Stage("drained")
  /\ UNCHANGED <<Own, closed, shutdown, ops, lock, nmem, left>>
\* No connection is left, or the deadline has come.
DrainConns ==
  /\ ctl.stage = "conns"
  /\ Stage("drained")
  /\ UNCHANGED <<Own, closed, shutdown, ops, lock, nmem, left>>

\* SealRequest: seal.
Seal ==
  /\ ctl.stage = "drained"
  /\ fan_out("seal", "sealing")
  /\ UNCHANGED <<Own, closed, shutdown, lock, nmem, left>>
\* Mutation: the first worker's reply is taken for all of them.
SealFirstReply ==
  /\ ctl.stage = "sealing"
  /\ \/ Reply(1) = "ok" /\ Stage("sealed") /\ lock' = "free"
     \/ FirstIsError /\ Stage("abort") /\ UNCHANGED lock
  /\ UNCHANGED <<Own, closed, shutdown, ops, nmem, left>>
\* SealComplete releases the directory; an error is SealFailed.
SealReplies ==
  /\ ctl.stage = "sealing"
  /\ \/ AllOk /\ Stage("sealed") /\ lock' = "free"
     \/ FirstIsError /\ Stage("abort") /\ UNCHANGED lock
  /\ UNCHANGED <<Own, closed, shutdown, ops, nmem, left>>

\* The attempt is given up: resume_after_abort.
Resume ==
  /\ ctl.stage = "abort"
  /\ fan_out("resume", "resuming")
  /\ UNCHANGED <<Own, closed, shutdown, lock, nmem, left>>
ResumeReplies ==
  /\ ctl.stage = "resuming"
  /\ \/ AllOk /\ Stage("idle") /\ closed' = FALSE
     \/ FirstIsError /\ Stage("failed") /\ UNCHANGED closed
  /\ UNCHANGED <<Own, shutdown, ops, lock, nmem, left>>

-----------------------------------------------------------------------------
(* The supervisor and the successor.                                       *)

\* The supervisor goes away, or gives up after the successor died.  The directory is
\* taken back first.
SupervisorAborts ==
  /\ ctl.stage \in {"drained", "sealed"} /\ lock # "N" /\ Stage("abort")
  /\ lock' = "O"
  /\ UNCHANGED <<Own, closed, shutdown, ops, nmem, left>>

\* Begin: the successor takes the directory and opens every shard; it dies when a file
\* does not open.
SuccessorOpens ==
  /\ ctl.stage = "sealed" /\ lock = "free" /\ left.successors > 0
  /\ left' = [left EXCEPT !.successors = @ - 1]
  /\ IF AllOpen THEN lock' = "N" /\ nmem' = AllFound ELSE UNCHANGED <<lock, nmem>>
  /\ UNCHANGED <<Own, closed, shutdown, ops, ctl>>

\* The successor's HTTP loop runs before it is ready, and writes to files of its own.
EarlyHttp(c) ==
  LET w == <<c, client[c].w>>
  IN /\ Scenario.early /\ lock = "N" /\ client[c].pc = "waiting" /\ client[c].proto = "HTTP"
     /\ client' = [client EXCEPT ![c].pc = "gone"]
     /\ nmem' = nmem \cup {w}
     /\ acked' = acked \cup {w}
     /\ UNCHANGED <<closed, shutdown, loop, inbox, worker, ns, files, mem, ops, replies, seals,
                    ctl, lock, left>>

\* It dies before it is ready.
SuccessorDies ==
  /\ ctl.stage = "sealed" /\ lock = "N" /\ Scenario.dies
  /\ lock' = "free" /\ nmem' = Unopened
  /\ UNCHANGED <<Own, closed, shutdown, ops, ctl, left>>

\* Ready, then Commit: serve returns and the process shuts down.
Commit ==
  /\ ctl.stage = "sealed" /\ lock = "N"
  /\ Stage("committed") /\ shutdown' = TRUE
  /\ UNCHANGED <<Own, closed, ops, lock, nmem, left>>

-----------------------------------------------------------------------------
Init ==
  /\ left \in {[of |-> i, attempts |-> Scenarios[i].attempts, faults |-> Scenarios[i].faults,
                sigterm |-> Scenarios[i].sigterm, successors |-> Scenarios[i].successors] :
                 i \in DOMAIN Scenarios}
  /\ closed = FALSE /\ shutdown = FALSE
  /\ loop = [p \in Protos |-> "look"]
  /\ client = [c \in Clients |-> [pc |-> IF c \in Scenario.clients THEN "waiting" ELSE "gone",
                                  s |-> Scenario.shard[c],
                                  proto |-> Scenario.proto[c], n |-> "none", w |-> 0]]
  /\ inbox = [s \in Shards |-> [p \in Protos |-> << >>]]
  /\ worker = [s \in Shards |-> "serving"]
  /\ ns = [s \in Shards |-> [n \in Names |-> [open |-> n \in Scenario.open, frozen |-> FALSE]]]
  /\ files = [s \in Shards |-> [n \in Names |-> << << >> >>]]
  /\ mem = [s \in Shards |-> [n \in Names |-> {}]]
  /\ ops = [s \in Shards |-> << >>]
  /\ replies = [s \in Shards |-> << >>]
  /\ seals = [s \in Shards |-> [who \in Sealers |-> NotSealing]]
  /\ ctl = [stage |-> "idle", k |-> 0]
  /\ lock = "O" /\ nmem = Unopened /\ acked = {}

\* What the threads, the supervisor and the successor do by themselves.
Control ==
  /\ ~Exited
  /\ \/ DrainReplies \/ DrainConns \/ Seal \/ SealReplies \/ Resume \/ ResumeReplies
     \/ SupervisorAborts \/ SuccessorOpens \/ SuccessorDies \/ Commit
WorkerStep(s) ==
  \/ HandleDrain(s) \/ HandleSeal(s) \/ HandleSealEnd(s) \/ HandleResume(s)
  \/ WorkerEnds(s) \/ WorkerGone(s)
  \/ \E who \in Sealers :
       FreezeAndDrain(s, who) \/ \E n \in Names : SealStep(s, who, n) \/ SealFails(s, who, n)
  \/ \E p \in Protos : serve_loop(s, p)
Progress ==
  \/ Control
  \/ \E s \in Shards : WorkerStep(s)
  \/ \E p \in Protos : EndLoop(p)
  \/ \E c \in Clients : Accept(c) \/ accept_one(c) \/ Opened(c) \/ Ack(c)
Next ==
  \/ Progress \/ Drain \/ Sigterm \/ Watchdog
  \/ \E c \in Clients : Leave(c) \/ EarlyHttp(c) \/ \E n \in Names : Write(c, n)

\* As long as one of the threads can move, one does; none can move for ever by itself.
Spec == Init /\ [][Next]_vars /\ WF_vars(Progress)

-----------------------------------------------------------------------------
(* Properties.                                                             *)

\* The kinds of values; no shard has more connections than its limit.
TypeOK ==
  /\ \A c \in Clients : client[c].pc \in {"waiting", "accepted", "queued", "gone"} \cup Live
  /\ \A s \in Shards :
       /\ worker[s] \in {"serving", "ending", "gone"}
       /\ \A p \in Protos : Len(inbox[s][p]) <= InboxCap /\ ConnCount(s, p) <= MaxConns
       /\ \A n \in Names : ns[s][n].frozen => ns[s][n].open
  /\ ctl.stage \in {"idle", "draining", "conns", "drained", "sealing", "sealed", "abort",
                    "resuming", "failed", "committed"}
  /\ lock \in {"O", "free", "N"}

\* "The handoff doesn't silently drop acked writes": every write that was acknowledged is
\* in the index of the process that serves the data in the end - the successor after a
\* commit, this process after an attempt that was given up - and, when the process has
\* exited, in what the next one recovers from the files.
AckedWritesSurvive ==
  /\ ctl.stage = "committed" => acked \subseteq nmem
  /\ ctl.stage = "idle" => acked \subseteq Known
  /\ Exited /\ ctl.stage # "committed" => AllOpen /\ acked \subseteq AllFound

\* Two processes never append to the same log: once the directory is given away, no
\* write of this process is under way and every namespace refuses new ones.
NoWriterWithoutLock ==
  lock # "O" =>
    /\ \A c \in Clients : client[c].pc # "append"
    /\ \A s \in Shards : worker[s] # "gone" => \A n \in OpenNames(s) : ns[s][n].frozen

\* Whenever the server takes connections it takes writes: no namespace is left frozen
\* after an attempt that was given up, although a seal that failed on one shard returns
\* while the other shards are still sealing (KvHandoff::seal, resume_after_abort).
FrozenOnlyWhileClosed ==
  (\E x \in EveryNs : ns[x[1]][x[2]].frozen) => closed \/ shutdown \/ loop["RESP"] = "ended"

\* An attempt ends: with a commit, with the server back in service, or with an error
\* of the resume - or with the process.
AttemptEnds ==
  ctl.stage \notin {"idle", "committed", "failed"} ~>
    ctl.stage \in {"idle", "committed", "failed"} \/ Exited

\* Shutdown completes without the watchdog's help, also in the middle of a handoff.
ShutdownCompletes == shutdown ~> Exited

=============================================================================
