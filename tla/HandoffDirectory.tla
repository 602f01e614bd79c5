-------------------------- MODULE HandoffDirectory --------------------------
(***************************************************************************)
(* The handoff gives the directory away safely, for any number of shards,  *)
(* clients, namespaces, attempts and failures; and what a step does to the *)
(* files, the index and the course of the process.                         *)
(***************************************************************************)
EXTENDS HandoffControl

USE SMTT(30), ZenonT(30)

-----------------------------------------------------------------------------
(* The directory.                                                          *)

\* Every namespace the clients write to is open from the start.
Settled == Scenario.names \subseteq Scenario.open

NoAppend(s) == \A c \in Clients : client[c].s = s => client[c].pc # "append"
AllFrozen(s) == \A n \in Scenario.open : ns[s][n].frozen
Quiet(s) == NoAppend(s) /\ AllFrozen(s)

OpSeal(s) ==
  seals[s]["op"].on =>
    /\ DOMAIN seals[s]["op"].at = Scenario.open /\ AllFrozen(s)
    /\ seals[s]["op"].drained => NoAppend(s)

\* No namespace is opened late: the open ones are those of the start.
NamesInv ==
  /\ \A c \in Clients : client[c].pc # "opening"
  /\ \A c \in Clients : client[c].pc = "append" => client[c].n \in Scenario.open
  /\ \A s \in Shards, n \in Names : ns[s][n].open <=> n \in Scenario.open

\* A shard that does not write, and will not until it is resumed.
Still(s) == worker[s] = "gone" \/ Quiet(s)

\* The directory is given away when every shard has sealed: the last operation of an
\* attempt to seal is the seal, and a shard that has answered it is still.
StageInv ==
  /\ lock # "O" => ctl.stage \in {"sealed", "committed"}
  /\ ctl.stage = "sealing" =>
       \A s \in Shards :
         /\ ops[s] # << >> => ops[s][Len(ops[s])] = "seal"
         /\ Reply(s) = "ok" => Still(s)
  /\ ctl.stage \in {"sealed", "committed"} => \A s \in Shards : ops[s] = << >> /\ Still(s)

LockInv == NamesInv /\ StageInv /\ \A s \in Shards : OpSeal(s)

-----------------------------------------------------------------------------
(* The files.                                                              *)

\* A handoff without SIGTERM whose clients use open namespaces, with a successor that
\* takes no request before it is ready or does not die; or a shutdown without handoff.
Calm == Settled /\ ~Scenario.sigterm /\ ~(Scenario.early /\ Scenario.dies)
Orderly == Calm \/ Scenario.attempts = 0

RecordsIn(f) == UNION {f[i].has : i \in Records(f)}

\* f is a file of which the index has m: its records come first, a footer lists what the
\* index has of them, and a trailer follows its body.
Sound(f, m) ==
  \A i \in DOMAIN f : f[i].kind # "record" =>
    /\ m \cap RecordsIn(f) \subseteq f[i].has
    /\ \A j \in Records(f) : j < i
    /\ f[i].kind = "trailer" => i > 1 /\ f[i - 1] = Body(f[i].has)

OnlyRecords(f) == Records(f) = DOMAIN f

\* A seal under way: nothing is written to its namespaces, and the trailer comes after
\* the body it belongs to.
SealItemOk(s, who, n) ==
  LET it == seals[s][who].at[n] IN
  /\ ns[s][n].frozen
  /\ seals[s][who].drained => InFlight(s, n) = {}
  /\ it.stage \in {"body", "trailer"} => it.file = Active(s, n) /\ seals[s][who].drained
  /\ it.stage = "trailer" =>
       /\ files[s][n][it.file] # << >>
       /\ files[s][n][it.file][Len(files[s][n][it.file])] = Body(it.has)
       /\ mem[s][n] \cap RecordsIn(files[s][n][it.file]) \subseteq it.has
SealsSound ==
  \A s \in Shards : \A who \in Sealers :
    seals[s][who].on => \A n \in DOMAIN seals[s][who].at : SealItemOk(s, who, n)

FilesSound ==
  \A s \in Shards, n \in Names :
    \A f \in DOMAIN files[s][n] : Sound(files[s][n][f], mem[s][n])

\* A namespace that takes writes has no footer in its active file.
ActiveClean ==
  \A s \in Shards, n \in Names : ~ns[s][n].frozen => OnlyRecords(files[s][n][Active(s, n)])

\* What the index has is in a file, and so is a write under way.
IndexBacked ==
  \A s \in Shards, n \in Names : \A w \in mem[s][n] :
    \E f \in DOMAIN files[s][n] : w \in RecordsIn(files[s][n][f])
Backed(c) ==
  LET fs == files[client[c].s][client[c].n]
  IN \E f \in DOMAIN fs : OnlyRecords(fs[f]) /\ <<c, client[c].w>> \in RecordsIn(fs[f])
AppendsBacked == \A c \in Clients : client[c].pc = "append" => Backed(c)

\* A record is of a write that is over, of one that the end of its worker has cut off, or of
\* one under way, in a file without a footer.
NumberOk(s, n, f, w) ==
  LET c == w[1] IN
  \/ w[2] < client[c].w
  \/ w[2] = client[c].w /\ client[c].pc = "gone"
  \/ /\ w[2] = client[c].w /\ client[c].pc = "append" /\ client[c].s = s /\ client[c].n = n
     /\ OnlyRecords(files[s][n][f])
Numbered ==
  \A s \in Shards, n \in Names :
    \A f \in DOMAIN files[s][n] : \A w \in RecordsIn(files[s][n][f]) : NumberOk(s, n, f, w)

AckedKnown == (Scenario.early /\ lock = "N") \/ acked \subseteq Known

FileInv ==
  /\ FilesSound /\ ActiveClean /\ IndexBacked /\ AppendsBacked /\ Numbered /\ SealsSound
  /\ AckedKnown

\* What the successor has, and what becomes of a process with or without a handoff.
CourseInv ==
  /\ left.sigterm => Scenario.sigterm
  /\ Calm /\ ctl.stage # "committed" => ~shutdown /\ Unended
  /\ Scenario.attempts = 0 => ctl.stage = "idle" /\ lock = "O" /\ left.attempts = 0
  /\ ctl.stage = "committed" => lock = "N"

KeepInv ==
  /\ CourseInv
  /\ Orderly /\ lock = "N" => acked \subseteq nmem
  /\ Orderly /\ ctl.stage # "committed" => FileInv

-----------------------------------------------------------------------------
(* Clients.                                                                *)

\* A write comes under way in a namespace that is open and not frozen; an append goes on
\* as it began.
Begins(c, n) ==
  /\ Write(c, n) /\ client'[c].n = n /\ client'[c].w = client[c].w
  /\ ns[client[c].s][n].open /\ ~ns[client[c].s][n].frozen
Continues(c) ==
  client[c].pc = "append" /\ client'[c].n = client[c].n /\ client'[c].w = client[c].w

\* What a step does to a client.
LEMMA ClientSteps ==
  ASSUME BaseInv, [Next]_vars, NEW c \in Clients
  PROVE  /\ client'[c].s = client[c].s
         /\ client'[c].pc = "append" =>
              Continues(c) \/ Opened(c) \/ \E n \in Names : Begins(c, n)
         /\ client'[c].pc = "opening" =>
              \/ client[c].pc = "opening"
              \/ \E n \in Names : Write(c, n) /\ ~ns[client[c].s][n].open
  <1> USE DEF BaseInv, Types
  <1> DEFINE Goal == /\ client'[c].s = client[c].s
                     /\ client'[c].pc = "append" =>
                          Continues(c) \/ Opened(c) \/ \E n \in Names : Begins(c, n)
                     /\ client'[c].pc = "opening" =>
                          \/ client[c].pc = "opening"
                          \/ \E n \in Names : Write(c, n) /\ ~ns[client[c].s][n].open
  <1>1. ASSUME client'[c] = client[c] PROVE Goal
    BY <1>1 DEF Continues
  <1>2. ASSUME client'[c].s = client[c].s, client'[c].pc \notin {"append", "opening"} PROVE Goal
    BY <1>2
  <1> HIDE DEF Goal
  <1>3. ASSUME Unconnected \/ \E p \in Protos : EndLoop(p) PROVE Goal
    BY <1>1, <1>3 DEF Unconnected, EndLoop
  <1>4. ASSUME NEW d \in Clients, Accept(d) \/ accept_one(d) PROVE Goal
    <2>1. PICK pc \in {"accepted", "gone", "queued"} : client' = [client EXCEPT ![d].pc = pc]
      BY <1>4 DEF Accept, accept_one
    <2> QED
      BY <1>1, <1>2, <2>1 DEF ClientTypes
  <1>5. ASSUME NEW d \in Clients, Ack(d) \/ Leave(d) \/ EarlyHttp(d) PROVE Goal
    <2>1. CASE d # c
      <3>1. client'[c] = client[c]
        BY <1>5, <2>1 DEF Ack, Leave, EarlyHttp, ClientTypes
      <3> QED
        BY <1>1, <3>1
    <2>2. CASE d = c
      <3>1. client'[c].s = client[c].s /\ client'[c].pc \notin {"append", "opening"}
        BY <1>5, <2>2 DEF Ack, Leave, EarlyHttp, ClientTypes
      <3> QED
        BY <1>2, <3>1
    <2> QED
      BY <2>1, <2>2
  <1>6. ASSUME NEW d \in Clients, Opened(d) PROVE Goal
    <2>1. CASE d # c
      <3>1. client'[c] = client[c]
        BY <1>6, <2>1 DEF Opened, BeginWrite, ClientTypes
      <3> QED
        BY <1>1, <3>1
    <2>2. CASE d = c
      <3>1. client'[c].s = client[c].s /\ client[c].pc = "opening"
        BY <1>6, <2>2 DEF Opened, BeginWrite, ClientTypes
      <3> QED
        BY <1>6, <2>2, <3>1 DEF Goal
    <2> QED
      BY <2>1, <2>2
  <1>7. ASSUME NEW d \in Clients, NEW n \in Names, Write(d, n) PROVE Goal
    <2>1. CASE d # c
      <3>1. client'[c] = client[c]
        BY <1>7, <2>1 DEF Write, BeginWrite, ClientTypes
      <3> QED
        BY <1>1, <3>1
    <2>2. CASE d = c
      <3>1. client'[c].s = client[c].s /\ client[c].pc = "open"
        BY <1>7, <2>2 DEF Write, BeginWrite, ClientTypes
      <3>2. client'[c].pc = "opening" => ~ns[client[c].s][n].open
        BY <1>7, <2>2 DEF Write, BeginWrite, ClientTypes
      <3>3. client'[c].pc = "append" => Begins(c, n)
        BY <1>7, <2>2 DEF Write, BeginWrite, ClientTypes, Begins
      <3> QED
        BY <1>7, <2>2, <3>1, <3>2, <3>3 DEF Goal
    <2> QED
      BY <2>1, <2>2
  <1>8. ASSUME NEW s \in Shards, NEW p \in Protos, serve_loop(s, p) PROVE Goal
    <2>1. PICK pc \in {"gone", "open"} : client' = [client EXCEPT ![Head(inbox[s][p])].pc = pc]
      BY Zenon, <1>8 DEF serve_loop
    <2> QED
      BY <1>1, <1>2, <2>1 DEF ClientTypes
  <1>9. ASSUME NEW s \in Shards, WorkerGone(s) PROVE Goal
    <2>1. client'[c] = client[c] \/ client'[c] = [client[c] EXCEPT !.pc = "gone"]
      BY <1>9 DEF WorkerGone
    <2> QED
      BY <1>1, <1>2, <2>1 DEF ClientTypes
  <1>10. ASSUME Watchdog PROVE Goal
    BY <1>2, <1>10 DEF Watchdog, ClientTypes
  <1>11. Goal
    BY <1>3, <1>4, <1>5, <1>6, <1>7, <1>8, <1>9, <1>10, ConnSteps
  <1> QED
    BY <1>11 DEF Goal

\* A process runs one scenario.
LEMMA SameScenario == ASSUME Types, [Next]_vars PROVE left'.of = left.of /\ Scenario' = Scenario
  <1>3. left'.of = left.of
    <2>1. ASSUME Control PROVE left'.of = left.of
      BY <2>1 DEF Control, DrainReplies, DrainConns, Seal, SealReplies, Resume, ResumeReplies,
         SupervisorAborts, SuccessorOpens, SuccessorDies, Commit, Types, LeftTypes
    <2>2. ASSUME Drain \/ Sigterm \/ Watchdog \/ UNCHANGED vars PROVE left'.of = left.of
      BY <2>2 DEF Drain, Sigterm, Watchdog, vars, Types, LeftTypes
    <2>3. ASSUME NEW s \in Shards, WorkerStep(s) PROVE left'.of = left.of
      BY ZenonT(30), <2>3 DEF WorkerStep, HandleDrain, HandleSeal, HandleSealEnd, HandleResume, WorkerEnds,
         WorkerGone, FreezeAndDrain, SealStep, SealFails, serve_loop, Types, LeftTypes
    <2>4. ASSUME NEW c \in Clients,
                 \/ Accept(c) \/ accept_one(c) \/ Ack(c) \/ Leave(c) \/ EarlyHttp(c) \/ Opened(c)
                 \/ \E n \in Names : Write(c, n)
          PROVE  left'.of = left.of
      BY Zenon, <2>4 DEF Accept, accept_one, Ack, Leave, EarlyHttp, Opened, Write
    <2>5. ASSUME NEW p \in Protos, EndLoop(p) PROVE left'.of = left.of
      BY <2>5 DEF EndLoop
    <2> QED
      BY <2>1, <2>2, <2>3, <2>4, <2>5 DEF Next, Progress
  <1> QED
    BY <1>3 DEF Scenario

-----------------------------------------------------------------------------
(* The directory is given away by a shard that does not write.             *)

\* The namespaces of a scenario.
LEMMA ScenarioNames == Types => Scenario.open \subseteq Names /\ Scenario.names \subseteq Names
  BY ScenariosAssumption DEF Types, LeftTypes, Scenario

\* No step opens a namespace late, if every namespace in use is open from the start.
LEMMA NamesStep ==
  ASSUME BaseInv, Settled, NamesInv, [Next]_vars
  PROVE  NamesInv'
  <1> USE DEF BaseInv, Types
  <1>1. Scenario' = Scenario
    BY SameScenario
  <1>2. \A c \in Clients : ~Opened(c)
    BY DEF NamesInv, Opened
  <1>3. \A s \in Shards, n \in Names : ns'[s][n].open = ns[s][n].open
    <2>1. CASE UNCHANGED ns
      BY <2>1
    <2>2. ASSUME NEW s \in Shards, HandleSeal(s) \/ WorkerEnds(s)
          PROVE  \A t \in Shards, n \in Names : ns'[t][n].open = ns[t][n].open
      <3>1. PICK who \in Sealers : SealBegun(s, who)
        BY <2>2 DEF HandleSeal, WorkerEnds, Sealers
      <3> QED
        BY Zenon, <3>1, SealBegunNs
    <2>3. ASSUME NEW s \in Shards, HandleResume(s)
          PROVE  \A t \in Shards, n \in Names : ns'[t][n].open = ns[t][n].open
      BY <2>3, ResumedNs
    <2> QED
      BY <1>2, <2>1, <2>2, <2>3, NsSteps
  <1>4. \A c \in Clients, n \in Names :
          Write(c, n) => n \in Scenario.open /\ ns[client[c].s][n].open
    BY DEF Write, Settled, NamesInv, ClientTypes
  <1>5. ASSUME NEW c \in Clients PROVE client'[c].pc # "opening"
    BY <1>4, ClientSteps DEF NamesInv
  <1>6. ASSUME NEW c \in Clients, client'[c].pc = "append" PROVE client'[c].n \in Scenario.open
    <2>1. CASE Continues(c)
      BY <2>1 DEF Continues, NamesInv
    <2>2. ASSUME NEW n \in Names, Begins(c, n) PROVE client'[c].n \in Scenario.open
      BY <1>4, <2>2 DEF Begins
    <2> QED
      BY <1>2, <1>6, <2>1, <2>2, ClientSteps
  <1>7. \A s \in Shards, n \in Names : ns'[s][n].open <=> n \in Scenario.open
    BY <1>3 DEF NamesInv
  <1> QED
    BY <1>1, <1>5, <1>6, <1>7 DEF NamesInv

\* Only a resume unfreezes a shard.
LEMMA FrozenKept ==
  ASSUME BaseInv, [Next]_vars, NEW s \in Shards, ~HandleResume(s), AllFrozen(s)
  PROVE  AllFrozen(s)'
  <1> USE DEF BaseInv, Types
  <1>1. Scenario' = Scenario /\ Scenario.open \subseteq Names
    BY SameScenario, ScenarioNames
  <1>2. \A n \in Names : ns[s][n].frozen => ns'[s][n].frozen
    <2>1. CASE UNCHANGED ns
      BY <2>1
    <2>2. ASSUME NEW t \in Shards, HandleSeal(t) \/ WorkerEnds(t)
          PROVE  \A n \in Names : ns[s][n].frozen => ns'[s][n].frozen
      <3>1. PICK who \in Sealers : SealBegun(t, who)
        BY <2>2 DEF HandleSeal, WorkerEnds, Sealers
      <3> QED
        BY Zenon, <3>1, SealBegunNs
    <2>3. ASSUME NEW t \in Shards, HandleResume(t)
          PROVE  \A n \in Names : ns[s][n].frozen => ns'[s][n].frozen
      BY <2>3, ResumedNs
    <2>4. ASSUME NEW c \in Clients, Opened(c)
          PROVE  \A n \in Names : ns[s][n].frozen => ns'[s][n].frozen
      BY <2>4, OpenedNs
    <2> QED
      BY <2>1, <2>2, <2>3, <2>4, NsSteps
  <1> QED
    BY <1>1, <1>2 DEF AllFrozen

\* A shard that is frozen begins no write.
LEMMA NoAppendKept ==
  ASSUME BaseInv, Settled, NamesInv, [Next]_vars, NEW s \in Shards, AllFrozen(s), NoAppend(s)
  PROVE  NoAppend(s)'
  <1> SUFFICES ASSUME NEW c \in Clients, client'[c].s = s, client'[c].pc = "append" PROVE FALSE
    BY DEF NoAppend
  <1>1. client[c].s = s /\ (Continues(c) \/ Opened(c) \/ \E n \in Names : Begins(c, n))
    BY ClientSteps
  <1>2. ~Continues(c) /\ ~Opened(c)
    BY <1>1 DEF Continues, Opened, NoAppend, NamesInv
  <1>3. ASSUME NEW n \in Names, Begins(c, n) PROVE FALSE
    BY <1>1, <1>3 DEF Begins, Write, Settled, AllFrozen
  <1> QED
    BY <1>1, <1>2, <1>3

\* A worker that is gone stays so.
LEMMA GoneKept ==
  ASSUME Types, [Next]_vars, NEW s \in Shards, worker[s] = "gone"
  PROVE  worker'[s] = "gone"
  <1> USE DEF Types
  <1>1. ASSUME UNCHANGED worker PROVE worker'[s] = "gone"
    BY <1>1
  <1>2. ASSUME Control \/ Drain \/ Sigterm \/ Watchdog \/ UNCHANGED vars PROVE worker'[s] = "gone"
    BY Zenon, <1>2 DEF Control, Drain, Sigterm, Watchdog, vars, Own, DrainReplies, DrainConns, Seal,
       SealReplies, Resume, ResumeReplies, SupervisorAborts, SuccessorOpens, SuccessorDies, Commit
  <1>3. ASSUME NEW t \in Shards, WorkerStep(t) PROVE worker'[s] = "gone"
    BY ZenonT(30), <1>3 DEF WorkerStep, HandleDrain, HandleSeal, HandleSealEnd, HandleResume, WorkerEnds,
       WorkerGone, FreezeAndDrain, SealStep, SealFails, serve_loop, FlagTypes
  <1>4. ASSUME NEW c \in Clients,
               \/ Accept(c) \/ accept_one(c) \/ Ack(c) \/ Leave(c) \/ EarlyHttp(c) \/ Opened(c)
               \/ \E n \in Names : Write(c, n)
        PROVE  worker'[s] = "gone"
    BY Zenon, <1>4 DEF Accept, accept_one, Ack, Leave, EarlyHttp, Opened, Write
  <1>5. ASSUME NEW p \in Protos, EndLoop(p) PROVE worker'[s] = "gone"
    BY <1>5 DEF EndLoop
  <1> QED
    BY <1>2, <1>3, <1>4, <1>5 DEF Next, Progress

\* A still shard stays so until it is resumed.
LEMMA StillKept ==
  ASSUME BaseInv, Settled, NamesInv, [Next]_vars, NEW s \in Shards, ~HandleResume(s), Still(s)
  PROVE  Still(s)'
  BY GoneKept, FrozenKept, NoAppendKept DEF Still, Quiet, BaseInv

\* What a step does to a seal.
LEMMA SealSteps ==
  ASSUME Types, [Next]_vars, NEW s \in Shards, NEW who \in Sealers
  PROVE  \/ seals'[s][who] = seals[s][who]
         \/ ~seals'[s][who].on
         \/ who = "op" /\ HandleSeal(s)
         \/ who = "exit" /\ WorkerEnds(s)
         \/ FreezeAndDrain(s, who)
         \/ \E n \in Names : SealStep(s, who, n) \/ SealFails(s, who, n)
  <1> USE DEF Types
  <1>1. ASSUME Control \/ Drain \/ Sigterm \/ UNCHANGED vars PROVE seals' = seals
    BY Zenon, <1>1 DEF Control, Drain, Sigterm, vars, Own, DrainReplies, DrainConns, Seal,
       SealReplies, Resume, ResumeReplies, SupervisorAborts, SuccessorOpens, SuccessorDies, Commit
  <1>2. ASSUME Watchdog PROVE ~seals'[s][who].on
    BY <1>2 DEF Watchdog, NotSealing
  <1>3. ASSUME NEW c \in Clients,
               \/ Accept(c) \/ accept_one(c) \/ Ack(c) \/ Leave(c) \/ EarlyHttp(c) \/ Opened(c)
               \/ \E n \in Names : Write(c, n)
        PROVE  seals' = seals
    BY Zenon, <1>3 DEF Accept, accept_one, Ack, Leave, EarlyHttp, Opened, Write
  <1>4. ASSUME NEW p \in Protos, EndLoop(p) PROVE seals' = seals
    BY <1>4 DEF EndLoop
  <1>5. ASSUME NEW t \in Shards, HandleDrain(t) \/ HandleResume(t) \/ \E p \in Protos : serve_loop(t, p)
        PROVE  seals' = seals
    BY Zenon, <1>5 DEF HandleDrain, HandleResume, serve_loop
  <1>6. ASSUME NEW t \in Shards, HandleSeal(t)
        PROVE  seals'[s][who] = seals[s][who] \/ (who = "op" /\ HandleSeal(s))
    BY Zenon, <1>6 DEF HandleSeal, SealBegun, SealsTypes
  <1>7. ASSUME NEW t \in Shards, WorkerEnds(t)
        PROVE  seals'[s][who] = seals[s][who] \/ (who = "exit" /\ WorkerEnds(s))
    BY Zenon, <1>7 DEF WorkerEnds, SealBegun, SealsTypes
  <1>8. ASSUME NEW t \in Shards, HandleSealEnd(t)
        PROVE  seals'[s][who] = seals[s][who] \/ ~seals'[s][who].on
    BY <1>8 DEF HandleSealEnd, SealsTypes, NotSealing
  <1>9. ASSUME NEW t \in Shards, WorkerGone(t)
        PROVE  seals'[s][who] = seals[s][who] \/ ~seals'[s][who].on
    BY <1>9 DEF WorkerGone, SealsTypes, NotSealing
  <1>10. ASSUME NEW t \in Shards, NEW by \in Sealers, FreezeAndDrain(t, by)
         PROVE  seals'[s][who] = seals[s][who] \/ FreezeAndDrain(s, who)
    BY Zenon, <1>10 DEF FreezeAndDrain, SealsTypes
  <1>11. ASSUME NEW t \in Shards, NEW by \in Sealers, NEW n \in Names,
                SealStep(t, by, n) \/ SealFails(t, by, n)
         PROVE  seals'[s][who] = seals[s][who] \/ SealStep(s, who, n) \/ SealFails(s, who, n)
    <2>1. CASE t = s /\ by = who
      BY <1>11, <2>1
    <2>2. CASE ~(t = s /\ by = who)
      <3>1. \E it : seals' = [seals EXCEPT ![t][by].at[n] = it]
        BY ZenonT(30), <1>11 DEF SealStep, SealFails
      <3> QED
        BY <2>2, <3>1 DEF SealsTypes
    <2> QED
      BY <2>1, <2>2
  <1>12. ASSUME NEW t \in Shards, WorkerStep(t)
         PROVE  \/ seals'[s][who] = seals[s][who]
                \/ ~seals'[s][who].on
                \/ who = "op" /\ HandleSeal(s)
                \/ who = "exit" /\ WorkerEnds(s)
                \/ FreezeAndDrain(s, who)
                \/ \E n \in Names : SealStep(s, who, n) \/ SealFails(s, who, n)
    BY <1>5, <1>6, <1>7, <1>8, <1>9, <1>10, <1>11, <1>12 DEF WorkerStep
  <1> QED
    BY <1>1, <1>2, <1>3, <1>4, <1>12 DEF Next, Progress

\* A resume is handled only when the attempt is given up.
LEMMA NoResume ==
  ASSUME Types, CtlInv, NEW s \in Shards, HandleResume(s)
  PROVE  ctl.stage \in {"resuming", "failed"} /\ UNCHANGED <<ctl, lock, seals>> /\ ~seals[s]["op"].on
  <1>1. ops[s] # << >> /\ Head(ops[s]) = "resume" /\ ops[s] \in Seq(Operations)
    BY DEF HandleResume, Serving, Types, OpsTypes
  <1>2. 1 \in Resumes(ops[s])
    BY <1>1 DEF Resumes
  <1>3. ctl.stage \in {"resuming", "failed"}
    BY <1>2 DEF CtlInv
  <1>4. ~seals[s]["op"].on
    BY <1>1 DEF CtlInv, SealsOwned
  <1> QED
    BY <1>3, <1>4 DEF HandleResume

\* The seal of an operation freezes what is open, and waits for the writes under way.
LEMMA OpSealStep ==
  ASSUME BaseInv, CtlInv, Settled, NamesInv, [Next]_vars, NEW s \in Shards, OpSeal(s)
  PROVE  OpSeal(s)'
  <1> USE DEF BaseInv, Types
  <1>1. Scenario' = Scenario /\ Scenario.open \subseteq Names
    BY SameScenario, ScenarioNames
  <1> DEFINE old == seals[s]["op"]
             new == seals'[s]["op"]
  <1>2. "op" \in Sealers /\ old \in SealType
    BY DEF Sealers, SealsTypes
  <1>3. ASSUME old.on, new.on PROVE ~HandleResume(s)
    BY <1>3, NoResume
  <1>4. ASSUME old.on, new.on, DOMAIN new.at = DOMAIN old.at, new.drained = old.drained
        PROVE  OpSeal(s)'
    <2>1. DOMAIN old.at = Scenario.open /\ AllFrozen(s) /\ (old.drained => NoAppend(s))
      BY <1>4 DEF OpSeal
    <2>2. AllFrozen(s)' /\ (old.drained => NoAppend(s)')
      BY <1>3, <1>4, <2>1, FrozenKept, NoAppendKept
    <2> QED
      BY <1>1, <1>4, <2>1, <2>2 DEF OpSeal
  <1>5. ASSUME new = old PROVE OpSeal(s)'
    <2>1. CASE new.on
      BY <1>4, <1>5, <2>1
    <2>2. CASE ~new.on
      BY <2>2 DEF OpSeal
    <2> QED
      BY <2>1, <2>2
  <1>6. ASSUME ~new.on PROVE OpSeal(s)'
    BY <1>6 DEF OpSeal
  <1>7. ASSUME HandleSeal(s) PROVE OpSeal(s)'
    <2>1. SealBegun(s, "op")
      BY <1>7 DEF HandleSeal
    <2>2. OpenNames(s) = Scenario.open
      BY <1>1 DEF OpenNames, NamesInv
    <2>3. new = [on |-> TRUE, drained |-> FALSE, at |-> [n \in OpenNames(s) |-> Unsealed]]
      BY <1>2, <2>1 DEF SealBegun, SealsTypes
    <2>4. DOMAIN new.at = Scenario.open /\ ~new.drained
      BY <2>2, <2>3
    <2>5. AllFrozen(s)'
      <3>1. ASSUME NEW n \in Names, ns[s][n].open PROVE ns'[s][n].frozen
        BY ZenonT(30), <1>2, <2>1, <3>1, SealBegunNs
      <3> QED
        BY <1>1, <3>1 DEF AllFrozen, NamesInv
    <2> QED
      BY <1>1, <2>4, <2>5 DEF OpSeal
  <1>8. ASSUME FreezeAndDrain(s, "op") PROVE OpSeal(s)'
    <2>1. /\ old.on /\ seals' = [seals EXCEPT ![s]["op"].drained = TRUE] /\ client' = client
          /\ \A n \in DOMAIN old.at : InFlight(s, n) = {}
      BY <1>8 DEF FreezeAndDrain
    <2>2. new.on = old.on /\ new.at = old.at
      BY Zenon, <1>2, <2>1 DEF SealsTypes, SealType
    <2>3. DOMAIN old.at = Scenario.open /\ AllFrozen(s)
      BY <2>1 DEF OpSeal
    <2>4. NoAppend(s)
      BY <2>1, <2>3 DEF NoAppend, InFlight, NamesInv
    <2>5. NoAppend(s)' /\ AllFrozen(s)'
      BY <1>3, <2>1, <2>2, <2>3, <2>4, FrozenKept, NoAppendKept
    <2> QED
      BY <1>1, <2>2, <2>3, <2>5 DEF OpSeal
  <1>9. ASSUME NEW n \in Names, SealStep(s, "op", n) \/ SealFails(s, "op", n) PROVE OpSeal(s)'
    <2>1. PICK it : seals' = [seals EXCEPT ![s]["op"].at[n] = it]
      BY Zenon, <1>9 DEF SealStep, SealFails
    <2>2. new = [old EXCEPT !.at[n] = it] /\ old.on
      BY Zenon, <1>2, <1>9, <2>1 DEF SealsTypes, SealStep, SealFails
    <2>3. new.on = old.on /\ new.drained = old.drained /\ DOMAIN new.at = DOMAIN old.at
      BY Zenon, <1>2, <2>2 DEF SealType
    <2> HIDE DEF old, new
    <2> QED
      BY <1>4, <2>2, <2>3
  <1> QED
    BY <1>2, <1>5, <1>6, <1>7, <1>8, <1>9, SealSteps

\* The answers of a shard to the operations, the last of which is a seal.
LEMMA SealedAnswers ==
  ASSUME Types, CtlInv, ctl.stage = "sealing", NEW s \in Shards, ops[s] # << >>,
         ops[s][Len(ops[s])] = "seal", NEW r \in {"ok", "error"}, Handled(s),
         replies' = [replies EXCEPT ![s] = Append(@, r)], UNCHANGED ctl
  PROVE  /\ ops'[s] # << >> => ops'[s][Len(ops'[s])] = "seal" /\ Reply(s)' = "none"
         /\ ops'[s] = << >> => Head(ops[s]) = "seal" /\ Reply(s)' = r
         /\ \A t \in Shards \ {s} : ops'[t] = ops[t] /\ Reply(t)' = Reply(t)
  <1> USE DEF Types
  <1>1. ops[s] \in Seq(Operations) /\ Sent(s) = ctl.k
    BY DEF OpsTypes, CtlInv, Counted
  <1>2. /\ \A t \in Shards \ {s} : ops'[t] = ops[t] /\ Reply(t)' = Reply(t)
        /\ ops'[s] = Tail(ops[s])
        /\ Tail(ops[s]) = << >> => Reply(s)' = r
        /\ Tail(ops[s]) # << >> => Reply(s)' = "none"
    BY Zenon, <1>1, Answered
  <1>3. /\ Tail(ops[s]) = << >> => Head(ops[s]) = "seal"
        /\ Tail(ops[s]) # << >> => Tail(ops[s])[Len(Tail(ops[s]))] = "seal"
    <2> DEFINE q == ops[s]
    <2>1. q \in Seq(Operations) /\ q # << >> /\ q[Len(q)] = "seal"
      BY <1>1
    <2> HIDE DEF q
    <2>2. Tail(q) = << >> => Head(q) = "seal"
      BY <2>1, TakenOp
    <2>3. Tail(q) # << >> => Tail(q)[Len(Tail(q))] = "seal"
      <3>1. Len(Tail(q)) = Len(q) - 1 /\ Len(q) \in Nat /\ Tail(q) \in Seq(Operations)
        BY <2>1
      <3>2. Tail(q) # << >> => Len(Tail(q)) \in DOMAIN Tail(q)
        BY <3>1
      <3>3. \A i \in DOMAIN Tail(q) : Tail(q)[i] = q[i + 1]
        BY <2>1, TakenOp
      <3>4. Len(q) - 1 + 1 = Len(q)
        BY <3>1
      <3> QED
        BY Zenon, <2>1, <3>1, <3>2, <3>3, <3>4
    <2> QED
      BY <2>2, <2>3 DEF q
  <1> QED
    BY <1>2, <1>3

\* Only these steps change who holds the directory.
LEMMA LockSteps ==
  ASSUME [Next]_vars
  PROVE  \/ UNCHANGED lock
         \/ SealReplies \/ SupervisorAborts
         \/ ctl.stage = "sealed" /\ UNCHANGED ctl
  <1>1. ASSUME Control PROVE \/ UNCHANGED lock \/ SealReplies \/ SupervisorAborts
                             \/ ctl.stage = "sealed" /\ UNCHANGED ctl
    BY <1>1 DEF Control, DrainReplies, DrainConns, Seal, Resume, ResumeReplies, SuccessorOpens,
       SuccessorDies, Commit
  <1>2. ASSUME Drain \/ Sigterm \/ Watchdog \/ UNCHANGED vars PROVE UNCHANGED lock
    BY <1>2 DEF Drain, Sigterm, Watchdog, vars
  <1>3. ASSUME NEW s \in Shards, WorkerStep(s) PROVE UNCHANGED lock
    BY ZenonT(30), <1>3 DEF WorkerStep, HandleDrain, HandleSeal, HandleSealEnd, HandleResume, WorkerEnds,
       WorkerGone, FreezeAndDrain, SealStep, SealFails, serve_loop
  <1>4. ASSUME NEW c \in Clients,
               \/ Accept(c) \/ accept_one(c) \/ Ack(c) \/ Leave(c) \/ EarlyHttp(c) \/ Opened(c)
               \/ \E n \in Names : Write(c, n)
        PROVE  UNCHANGED lock
    BY Zenon, <1>4 DEF Accept, accept_one, Ack, Leave, EarlyHttp, Opened, Write
  <1>5. ASSUME NEW p \in Protos, EndLoop(p) PROVE UNCHANGED lock
    BY <1>5 DEF EndLoop
  <1> QED
    BY <1>1, <1>2, <1>3, <1>4, <1>5 DEF Next, Progress

\* A worker whose reply to the last operation is there has no operation left.
LEMMA AllAnswered ==
  ASSUME OpsTypes, NEW s \in Shards, Sent(s) = ctl.k, Reply(s) = "ok"
  PROVE  ops[s] = << >>
  <1>1. ops[s] \in Seq(Operations) /\ replies[s] \in Seq({"ok", "error"}) /\ ctl.k \in Nat
    BY DEF OpsTypes
  <1>2. ctl.k <= Len(replies[s])
    BY DEF Reply
  <1>3. \A a, b, k \in Nat : a + b = k /\ k <= a => b = 0
    OBVIOUS
  <1>4. Len(replies[s]) \in Nat /\ Len(ops[s]) \in Nat
    BY <1>1
  <1>5. Len(replies[s]) + Len(ops[s]) = ctl.k
    BY Zenon DEF Sent
  <1>6. Len(ops[s]) = 0
    BY Zenon, <1>1, <1>2, <1>3, <1>4, <1>5
  <1> QED
    BY <1>1, <1>6

\* The replies to an operation that was just sent are not there.
LEMMA NoneAnswered ==
  ASSUME OpsTypes, NEW s \in Shards, Sent(s) = ctl.k, UNCHANGED replies, ctl'.k = ctl.k + 1
  PROVE  Reply(s)' = "none"
  <1>1. ops[s] \in Seq(Operations) /\ replies[s] \in Seq({"ok", "error"}) /\ ctl.k \in Nat
    BY DEF OpsTypes
  <1>2. \A a, b, k \in Nat : a + b = k => ~(k + 1 <= a)
    OBVIOUS
  <1>3. Len(replies[s]) \in Nat /\ Len(ops[s]) \in Nat
    BY <1>1
  <1>4. Len(replies[s]) + Len(ops[s]) = ctl.k
    BY Zenon DEF Sent
  <1>5. ~(ctl.k + 1 <= Len(replies[s]))
    BY Zenon, <1>1, <1>2, <1>3, <1>4
  <1> QED
    BY Zenon, <1>5 DEF Reply

\* The stages of an attempt, at each step.
LEMMA StageStep ==
  ASSUME BaseInv, CtlInv, Settled, LockInv, [Next]_vars
  PROVE  StageInv'
  <1> USE DEF BaseInv, Types
  <1>0. NamesInv /\ StageInv /\ (\A s \in Shards : OpSeal(s)) /\ Accepting /\ ctl.stage \in Stages
    BY DEF LockInv, ConnInv, OpsTypes
  <1>1. ASSUME NEW s \in Shards, Still(s), ctl.stage \notin {"resuming", "failed"} PROVE Still(s)'
    BY <1>0, <1>1, NoResume, StillKept
  <1>2. ASSUME UNCHANGED <<ops, replies, ctl>>, UNCHANGED lock \/ ctl.stage = "sealed"
        PROVE  StageInv'
    <2>1. \A s \in Shards : Reply(s)' = Reply(s)
      BY <1>2 DEF Reply
    <2> QED
      BY <1>0, <1>1, <1>2, <2>1 DEF StageInv
  <1>3. ASSUME ctl'.stage \notin {"sealing", "sealed", "committed"},
               lock' = "O" \/ (UNCHANGED lock /\ ctl.stage \notin {"sealed", "committed"})
        PROVE  StageInv'
    BY <1>0, <1>3 DEF StageInv
  <1>4. CASE Aside
    <2>1. UNCHANGED <<ops, replies, ctl>>
      BY <1>4 DEF Aside
    <2>2. UNCHANGED lock \/ ctl.stage = "sealed"
      BY <2>1, LockSteps DEF SealReplies, SupervisorAborts, Stage, OpsTypes
    <2> QED
      BY <1>2, <2>1, <2>2
  <1>5. ASSUME NEW s \in Shards, HandleDrain(s) \/ HandleSealEnd(s) PROVE StageInv'
    <2>1. PICK r \in {"ok", "error"} : replies' = [replies EXCEPT ![s] = Append(@, r)]
      BY <1>5 DEF HandleDrain, HandleSealEnd, Replied
    <2>2. ops[s] # << >> /\ Handled(s) /\ UNCHANGED <<ctl, lock>>
      BY Zenon, <1>5 DEF HandleDrain, HandleSealEnd, Serving
    <2>3. CASE ctl.stage = "sealing"
      <3>1. /\ ops'[s] # << >> => ops'[s][Len(ops'[s])] = "seal" /\ Reply(s)' = "none"
            /\ ops'[s] = << >> => Head(ops[s]) = "seal" /\ Reply(s)' = r
            /\ \A t \in Shards \ {s} : ops'[t] = ops[t] /\ Reply(t)' = Reply(t)
        BY Zenon, <1>0, <2>1, <2>2, <2>3, SealedAnswers DEF StageInv
      <3>2. Head(ops[s]) = "seal" => Still(s)
        <4>1. Head(ops[s]) = "seal" => SealOver(s, "op")
          BY Zenon, <1>5 DEF HandleDrain, HandleSealEnd, Serving
        <4> QED
          BY <1>0, <4>1 DEF SealOver, OpSeal, Still, Quiet
      <3>3. ops'[s] = << >> => Still(s)'
        BY <1>1, <2>3, <3>1, <3>2
      <3>4. \A t \in Shards : Reply(t)' = "ok" => Still(t)'
        BY <1>0, <1>1, <2>3, <3>1, <3>3 DEF StageInv
      <3> QED
        BY <1>0, <2>2, <2>3, <3>1, <3>4 DEF StageInv
    <2>4. CASE ctl.stage # "sealing"
      BY <1>0, <1>3, <2>2, <2>4 DEF StageInv
    <2> QED
      BY <2>3, <2>4
  <1>6. ASSUME NEW s \in Shards, HandleSeal(s) \/ WorkerEnds(s) PROVE StageInv'
    BY <1>2, <1>6 DEF HandleSeal, WorkerEnds
  <1>7. ASSUME NEW s \in Shards, HandleResume(s) PROVE StageInv'
    BY <1>3, <1>7, NoResume
  <1>8. ASSUME NEW s \in Shards, WorkerGone(s) PROVE StageInv'
    <2>1. /\ UNCHANGED <<ctl, lock>> /\ worker'[s] = "gone" /\ ops'[s] = << >>
          /\ \A t \in Shards \ {s} : ops'[t] = ops[t] /\ replies'[t] = replies[t]
      BY <1>8 DEF WorkerGone, FlagTypes, OpsTypes
    <2>2. \A t \in Shards \ {s} : Reply(t)' = Reply(t)
      BY <2>1 DEF Reply
    <2>3. Still(s)'
      BY <2>1 DEF Still
    <2> QED
      BY <1>0, <1>1, <2>1, <2>2, <2>3 DEF StageInv
  <1>9. CASE Watchdog
    BY <1>2, <1>9 DEF Watchdog
  <1>10. ASSUME NEW op \in {"drain", "seal", "resume"}, NEW then \in {"draining", "sealing", "resuming"},
                fan_out(op, then), UNCHANGED <<lock, replies>>,
                ctl.stage \in {"idle", "drained", "abort"}, then = "sealing" => op = "seal"
         PROVE  StageInv'
    <2>0. op \in Operations /\ then \in Stages
      BY DEF Operations, Stages
    <2>1. \/ /\ ctl' = [stage |-> then, k |-> ctl.k + 1]
             /\ \A s \in Shards : ops'[s] = Append(ops[s], op)
             /\ \A s \in Shards : worker[s] # "gone"
          \/ ctl'.stage \in {"failed", "abort"}
      BY <1>10, <2>0, FannedOut
    <2>2. CASE ctl'.stage \notin {"sealing", "sealed", "committed"}
      BY <1>3, <1>10, <2>2
    <2>3. CASE ctl'.stage \in {"sealing", "sealed", "committed"}
      <3>1. /\ ctl'.stage = "sealing" /\ ctl'.k = ctl.k + 1 /\ op = "seal"
            /\ \A s \in Shards : ops'[s] = Append(ops[s], "seal")
            /\ \A s \in Shards : worker[s] # "gone"
        BY <1>10, <2>1, <2>3
      <3>2. ASSUME NEW s \in Shards PROVE Reply(s)' = "none"
        BY <1>10, <3>1, NoneAnswered DEF CtlInv, Counted
      <3>3. ASSUME NEW s \in Shards PROVE ops'[s][Len(ops'[s])] = "seal"
        <4>1. ops[s] \in Seq(Operations)
          BY DEF OpsTypes
        <4>2. /\ Len(Append(ops[s], "seal")) = Len(ops[s]) + 1
              /\ Append(ops[s], "seal")[Len(ops[s]) + 1] = "seal"
          BY <4>1, SentOp DEF Operations
        <4> QED
          BY Zenon, <3>1, <4>2
      <3> QED
        BY <1>0, <1>10, <3>1, <3>2, <3>3 DEF StageInv
    <2> QED
      BY <2>2, <2>3
  <1>11. ASSUME Drain \/ Seal \/ Resume PROVE StageInv'
    BY <1>10, <1>11 DEF Drain, Seal, Resume, Own
  <1>12. ASSUME DrainReplies \/ DrainConns \/ ResumeReplies \/ SupervisorAborts PROVE StageInv'
    <2>1. ctl'.stage \in {"conns", "abort", "drained", "idle", "failed"}
      BY <1>12 DEF DrainReplies, DrainConns, ResumeReplies, SupervisorAborts, Stage, OpsTypes
    <2>2. lock' = "O" \/ (UNCHANGED lock /\ ctl.stage \notin {"sealed", "committed"})
      BY <1>12 DEF DrainReplies, DrainConns, ResumeReplies, SupervisorAborts
    <2> QED
      BY <1>3, <2>1, <2>2
  <1>13. CASE SealReplies
    <2>1. CASE AllOk /\ Stage("sealed") /\ lock' = "free"
      <3>1. ctl.stage = "sealing" /\ ctl'.stage = "sealed" /\ UNCHANGED ops
        BY <1>13, <2>1 DEF SealReplies, Stage, OpsTypes
      <3>2. ASSUME NEW s \in Shards PROVE Reply(s) = "ok" /\ ops[s] = << >> /\ Still(s)
        BY <1>0, <2>1, <3>1, AllAnswered DEF AllOk, StageInv, CtlInv, Counted
      <3>3. ASSUME NEW s \in Shards PROVE Still(s)'
        BY <1>1, <3>1, <3>2
      <3> QED
        BY <3>1, <3>2, <3>3 DEF StageInv
    <2>2. CASE Stage("abort") /\ UNCHANGED lock
      <3>1. ctl.stage = "sealing" /\ ctl'.stage = "abort"
        BY <1>13, <2>2 DEF SealReplies, Stage, OpsTypes
      <3> QED
        BY <1>3, <2>2, <3>1
    <2> QED
      BY <1>13, <2>1, <2>2 DEF SealReplies
  <1>14. CASE Commit
    <2>1. ctl.stage = "sealed" /\ ctl'.stage = "committed" /\ UNCHANGED <<ops, lock>>
      BY <1>14 DEF Commit, Stage, OpsTypes
    <2> QED
      BY <1>0, <1>1, <2>1 DEF StageInv
  <1> QED
    BY <1>0, <1>4, <1>5, <1>6, <1>7, <1>8, <1>9, <1>11, <1>12, <1>13, <1>14, CtlSteps

\* Who holds the directory, always.
LEMMA LockIsInvariant == Spec => [](Settled => LockInv)
  <1>1. Init /\ Types => (Settled => LockInv)
    <2> SUFFICES ASSUME Init, Types PROVE LockInv
      OBVIOUS
    <2>1. NamesInv
      <3>1. \A c \in Clients : client[c].pc \notin {"opening", "append"}
        BY DEF Init
      <3>2. \A s \in Shards, n \in Names : ns[s][n].open <=> n \in Scenario.open
        BY ZenonT(30) DEF Init
      <3> QED
        BY <3>1, <3>2 DEF NamesInv
    <2>2. StageInv
      BY DEF Init, StageInv
    <2>3. \A s \in Shards : OpSeal(s)
      BY DEF Init, OpSeal, NotSealing, Sealers
    <2> QED
      BY <2>1, <2>2, <2>3 DEF LockInv
  <1>2. BaseInv /\ CtlInv /\ (Settled => LockInv) /\ [Next]_vars => (Settled => LockInv)'
    <2> SUFFICES ASSUME BaseInv, CtlInv, Settled => LockInv, [Next]_vars, Settled'
                 PROVE  LockInv'
      OBVIOUS
    <2>1. Settled /\ NamesInv /\ \A s \in Shards : OpSeal(s)
      BY SameScenario DEF Settled, BaseInv, LockInv
    <2>2. NamesInv'
      BY <2>1, NamesStep
    <2>3. StageInv'
      BY <2>1, StageStep
    <2>4. \A s \in Shards : OpSeal(s)'
      BY <2>1, OpSealStep
    <2> QED
      BY <2>2, <2>3, <2>4 DEF LockInv
  <1>3. BaseInv => Types
    BY DEF BaseInv
  <1> QED
    BY <1>1, <1>2, <1>3, BaseIsInvariant, CtlIsInvariant, PTL DEF Spec

\* Two processes never append to the same log, when every namespace that is written to is
\* open before the handoff: seal_all_for_shutdown freezes and drains what is open, the
\* reply of every shard is awaited before the directory is released, and a resume comes
\* only after it was taken back.
THEOREM DirectoryHasOneWriter == Spec => [](Settled => NoWriterWithoutLock)
  <1>1. BaseInv /\ (Settled => LockInv) => (Settled => NoWriterWithoutLock)
    <2> SUFFICES ASSUME BaseInv, LockInv, lock # "O"
                 PROVE  /\ \A c \in Clients : client[c].pc # "append"
                        /\ \A s \in Shards : worker[s] # "gone" =>
                             \A n \in OpenNames(s) : ns[s][n].frozen
      BY DEF NoWriterWithoutLock
    <2>1. \A s \in Shards : Still(s)
      BY DEF LockInv, StageInv
    <2>2. ASSUME NEW c \in Clients PROVE client[c].pc # "append"
      <3>1. client[c].s \in Shards
        BY DEF BaseInv, Types, ClientTypes
      <3> QED
        BY <2>1, <3>1 DEF Still, Quiet, NoAppend, BaseInv, ConnInv, GoneIsGone, Live
    <2>3. ASSUME NEW s \in Shards, worker[s] # "gone", NEW n \in OpenNames(s) PROVE ns[s][n].frozen
      BY <2>1, <2>3 DEF Still, Quiet, AllFrozen, OpenNames, LockInv, NamesInv
    <2> QED
      BY <2>2, <2>3
  <1> QED
    BY <1>1, BaseIsInvariant, LockIsInvariant, PTL


-----------------------------------------------------------------------------
(* Files.                                                                  *)

\* A record after records.
LEMMA RecordAppended ==
  ASSUME NEW f \in Seq(Piece), NEW w \in Writes, OnlyRecords(f)
  PROVE  /\ OnlyRecords(Append(f, Record(w)))
         /\ RecordsIn(Append(f, Record(w))) = RecordsIn(f) \cup {w}
  <1> DEFINE g == Append(f, Record(w))
             l == Len(f) + 1
  <1>1. /\ DOMAIN g = DOMAIN f \cup {l} /\ l \notin DOMAIN f /\ g[l] = Record(w)
        /\ \A i \in DOMAIN f : g[i] = f[i]
    BY DEF Record, Piece
  <1> HIDE DEF g, l
  <1>2. Records(g) = DOMAIN g
    BY <1>1 DEF Records, OnlyRecords, Record
  <1>3. RecordsIn(g) = RecordsIn(f) \cup {w}
    BY <1>1, <1>2 DEF RecordsIn, OnlyRecords, Record
  <1> QED
    BY <1>2, <1>3 DEF g, OnlyRecords

\* A piece of a footer.
LEMMA FooterAppended ==
  ASSUME NEW f \in Seq(Piece), NEW p \in Piece, p.kind # "record", NEW m
  PROVE  /\ RecordsIn(Append(f, p)) = RecordsIn(f)
         /\ /\ Sound(f, m) /\ m \cap RecordsIn(f) \subseteq p.has
            /\ p.kind = "trailer" => f # << >> /\ f[Len(f)] = Body(p.has)
            => Sound(Append(f, p), m)
  <1> DEFINE g == Append(f, p)
             l == Len(f) + 1
  <1>1. /\ DOMAIN g = DOMAIN f \cup {l} /\ l \notin DOMAIN f /\ g[l] = p
        /\ \A i \in DOMAIN f : g[i] = f[i] /\ i < l /\ i \in Nat /\ i >= 1
        /\ l \in Nat /\ l - 1 = Len(f) /\ (f # << >> => Len(f) \in DOMAIN f /\ l > 1)
    OBVIOUS
  <1>2. \A i \in DOMAIN f : i > 1 => i - 1 \in DOMAIN f
    OBVIOUS
  <1> HIDE DEF g, l
  <1>3. Records(g) = Records(f)
    BY <1>1 DEF Records
  <1>4. RecordsIn(g) = RecordsIn(f)
    BY <1>1, <1>3 DEF RecordsIn, Records
  <1>5. ASSUME Sound(f, m), m \cap RecordsIn(f) \subseteq p.has,
               p.kind = "trailer" => f # << >> /\ f[Len(f)] = Body(p.has)
        PROVE  Sound(g, m)
    <2> SUFFICES ASSUME NEW i \in DOMAIN g, g[i].kind # "record"
                 PROVE  /\ m \cap RecordsIn(g) \subseteq g[i].has
                        /\ \A j \in Records(g) : j < i
                        /\ g[i].kind = "trailer" => i > 1 /\ g[i - 1] = Body(g[i].has)
      BY DEF Sound
    <2>1. CASE i \in DOMAIN f
      BY <1>1, <1>2, <1>3, <1>4, <1>5, <2>1 DEF Sound
    <2>2. CASE i = l
      <3>1. \A j \in Records(g) : j < l
        BY <1>1, <1>3 DEF Records
      <3>2. p.kind = "trailer" => l > 1 /\ g[l - 1] = Body(p.has)
        BY <1>1, <1>5
      <3> QED
        BY <1>1, <1>4, <1>5, <2>2, <3>1, <3>2
    <2> QED
      BY <1>1, <2>1, <2>2
  <1> QED
    BY <1>4, <1>5 DEF g

\* A file of records alone is sound; a file is sound for an index that has less of it.
LEMMA SoundFiles ==
  ASSUME NEW f, NEW m, NEW k
  PROVE  /\ OnlyRecords(f) => Sound(f, m)
         /\ Sound(f, m) /\ k \cap RecordsIn(f) \subseteq m => Sound(f, k)
  <1>1. OnlyRecords(f) => Sound(f, m)
    BY DEF OnlyRecords, Records, Sound
  <1>2. ASSUME Sound(f, m), k \cap RecordsIn(f) \subseteq m PROVE Sound(f, k)
    <2>1. k \cap RecordsIn(f) \subseteq m \cap RecordsIn(f)
      BY <1>2
    <2> QED
      BY <1>2, <2>1 DEF Sound
  <1> QED
    BY <1>1, <1>2

\* Opening a sound file succeeds and finds what the index has of it.
LEMMA SoundOpens ==
  ASSUME NEW f \in Seq(Piece), NEW m, Sound(f, m)
  PROVE  /\ HasTrailer(f) => FooterGood(f)
         /\ m \cap RecordsIn(f) \subseteq Recovered(f)
  <1>1. CASE HasTrailer(f)
    <2>1. Len(f) \in DOMAIN f /\ f[Len(f)].kind = "trailer"
      BY <1>1 DEF HasTrailer
    <2>2. /\ m \cap RecordsIn(f) \subseteq f[Len(f)].has
          /\ Len(f) > 1 /\ f[Len(f) - 1] = Body(f[Len(f)].has)
      BY <2>1 DEF Sound
    <2> QED
      BY <1>1, <2>2 DEF FooterGood, Recovered
  <1>2. CASE ~HasTrailer(f)
    <2>1. Recovered(f) = UNION {f[i].has : i \in {j \in Records(f) : \A k \in 1..j : k \in Records(f)}}
      BY <1>2 DEF Recovered
    <2>2. ASSUME NEW j \in Records(f), NEW k \in 1..j PROVE k \in Records(f)
      <3>1. j \in DOMAIN f /\ k \in DOMAIN f /\ k <= j /\ k \in Nat /\ j \in Nat
        BY DEF Records
      <3>2. CASE f[k].kind # "record"
        <4>1. j < k
          BY <3>1, <3>2 DEF Sound
        <4> QED
          BY <3>1, <4>1
      <3> QED
        BY <3>1, <3>2 DEF Records
    <2>3. {j \in Records(f) : \A k \in 1..j : k \in Records(f)} = Records(f)
      BY <2>2
    <2> QED
      BY <1>2, <2>1, <2>3 DEF RecordsIn
  <1> QED
    BY <1>1, <1>2

\* So with sound files a successor, or the next process, finds what the index has.
LEMMA AllIsFound ==
  ASSUME Types, FilesSound, IndexBacked
  PROVE  AllOpen /\ Known \subseteq AllFound
  <1>1. ASSUME NEW s \in Shards, NEW n \in Names, NEW f \in DOMAIN files[s][n]
        PROVE  /\ HasTrailer(files[s][n][f]) => FooterGood(files[s][n][f])
               /\ mem[s][n] \cap RecordsIn(files[s][n][f]) \subseteq Recovered(files[s][n][f])
    <2>1. files[s][n][f] \in Seq(Piece)
      BY DEF Types, FilesTypes
    <2> QED
      BY <2>1, SoundOpens DEF FilesSound
  <1>2. AllOpen
    BY <1>1 DEF AllOpen, EveryNs, Opens
  <1>3. ASSUME NEW w \in Known PROVE w \in AllFound
    <2>1. PICK s \in Shards, n \in Names : w \in mem[s][n]
      BY <1>3 DEF Known, EveryNs
    <2>2. PICK f \in DOMAIN files[s][n] : w \in RecordsIn(files[s][n][f])
      BY <2>1 DEF IndexBacked
    <2>3. w \in Recovered(files[s][n][f])
      BY <1>1, <2>1, <2>2
    <2>4. w \in Found(files[s][n])
      BY <2>3 DEF Found
    <2>5. <<s, n>> \in EveryNs /\ <<s, n>>[1] = s /\ <<s, n>>[2] = n
      BY DEF EveryNs
    <2> QED
      BY <2>4, <2>5 DEF AllFound
  <1> QED
    BY <1>2, <1>3


-----------------------------------------------------------------------------
(* What a step does to the files, the index and the clients.               *)

\* BeginWrite has appended the record of a client's write.
Recorded(c, s, n) ==
  /\ client[c].s = s /\ client[c].pc \in {"open", "opening"} /\ ~ns[s][n].frozen
  /\ client'[c].pc = "append" /\ client'[c].n = n /\ client'[c].w = client[c].w /\ client'[c].s = s
  /\ files'[s][n] = [files[s][n] EXCEPT ![Active(s, n)] = Append(@, Record(<<c, client[c].w>>))]

\* A seal has appended its body, its trailer.
Footed(s, who, n, piece) ==
  /\ SealStep(s, who, n)
  /\ files'[s][n] = [files[s][n] EXCEPT ![seals[s][who].at[n].file] = Append(@, piece)]
BodyWritten(s, who, n) ==
  /\ seals[s][who].at[n].stage = "body"
  /\ Footed(s, who, n, Body(Entries(s, n, seals[s][who].at[n].file)))
TrailerWritten(s, who, n) ==
  /\ seals[s][who].at[n].stage = "trailer"
  /\ Footed(s, who, n, Trailer(seals[s][who].at[n].has))

\* A piece goes to one file of one namespace.
Extends(s, n, f, piece) ==
  \A t \in Shards, m \in Names :
    files'[t][m] = IF t = s /\ m = n THEN [files[s][n] EXCEPT ![f] = Append(@, piece)]
                   ELSE files[t][m]

\* That is what an append to a file does.
LEMMA ExtendedAt ==
  ASSUME FilesTypes, NEW s \in Shards, NEW n \in Names, NEW f, NEW piece,
         files' = Extended(s, n, f, piece)
  PROVE  Extends(s, n, f, piece)
  <1> SUFFICES ASSUME NEW t \in Shards, NEW m \in Names
               PROVE  files'[t][m] = IF t = s /\ m = n
                                     THEN [files[s][n] EXCEPT ![f] = Append(@, piece)]
                                     ELSE files[t][m]
    BY DEF Extends
  <1> DEFINE new == [files[s][n] EXCEPT ![f] = Append(@, piece)]
  <1>1. files' = [files EXCEPT ![s] = [files[s] EXCEPT ![n] = new]]
    BY DEF Extended
  <1> HIDE DEF new
  <1>2. files'[t][m] = IF t = s /\ m = n THEN new ELSE files[t][m]
    BY <1>1 DEF FilesTypes
  <1> QED
    BY <1>2 DEF new

\* A write that begins.
LEMMA BeginWriteFiles ==
  ASSUME Types, NEW c \in Clients, NEW n \in Names,
         client[c].pc \in {"open", "opening"}, client[c].n = n \/ client[c].pc = "open",
         BeginWrite(c, client[c].s, n, ns[client[c].s][n].frozen),
         NEW t \in Shards, NEW m \in Names
  PROVE  \/ files'[t][m] = files[t][m]
         \/ t = client[c].s /\ m = n /\ Recorded(c, t, m)
  <1> USE DEF Types
  <1> DEFINE s == client[c].s
  <1>1. s \in Shards
    BY DEF ClientTypes
  <1>2. CASE ns[s][n].frozen
    BY <1>2 DEF BeginWrite
  <1>3. CASE ~ns[s][n].frozen
    <2>1. /\ client' = [client EXCEPT ![c].pc = "append", ![c].n = n]
          /\ files' = Extended(s, n, Active(s, n), Record(<<c, client[c].w>>))
      BY <1>3 DEF BeginWrite
    <2>2. client'[c].pc = "append" /\ client'[c].n = n /\ client'[c].w = client[c].w /\ client'[c].s = s
      BY <2>1 DEF ClientTypes
    <2>3. Extends(s, n, Active(s, n), Record(<<c, client[c].w>>))
      BY Zenon, <1>1, <2>1, ExtendedAt
    <2>4. CASE t = s /\ m = n
      BY Zenon, <1>3, <2>2, <2>3, <2>4 DEF Recorded, Extends
    <2>5. CASE ~(t = s /\ m = n)
      BY ZenonT(30), <2>3, <2>5 DEF Extends
    <2> QED
      BY <2>4, <2>5
  <1> QED
    BY <1>2, <1>3

\* What a step does to the files of a namespace.
LEMMA FileSteps ==
  ASSUME Types, [Next]_vars, NEW s \in Shards, NEW n \in Names
  PROVE  \/ files'[s][n] = files[s][n]
         \/ \E c \in Clients : Recorded(c, s, n)
         \/ \E who \in Sealers : BodyWritten(s, who, n) \/ TrailerWritten(s, who, n)
         \/ HandleResume(s) /\ files'[s][n] = Append(files[s][n], << >>)
  <1> USE DEF Types
  <1> DEFINE Goal == \/ files'[s][n] = files[s][n]
                     \/ \E c \in Clients : Recorded(c, s, n)
                     \/ \E who \in Sealers : BodyWritten(s, who, n) \/ TrailerWritten(s, who, n)
                     \/ HandleResume(s) /\ files'[s][n] = Append(files[s][n], << >>)
  <1>1. ASSUME UNCHANGED files PROVE Goal
    BY <1>1
  <1>2. ASSUME NEW c \in Clients, Opened(c) PROVE Goal
    <2>1. client[c].n \in Names
      BY <1>2 DEF Opened, ClientTypes
    <2> QED
      BY ZenonT(30), <1>2, <2>1, BeginWriteFiles DEF Opened
  <1>3. ASSUME NEW c \in Clients, NEW m \in Names, Write(c, m) PROVE Goal
    <2>1. CASE ns[client[c].s][m].open
      BY <1>3, <2>1, BeginWriteFiles DEF Write
    <2>2. CASE ~ns[client[c].s][m].open
      BY <1>1, <1>3, <2>2 DEF Write
    <2> QED
      BY ZenonT(30), <2>1, <2>2
  <1>4. ASSUME NEW t \in Shards, NEW who \in Sealers, NEW m \in Names, SealStep(t, who, m) PROVE Goal
    <2> DEFINE it == seals[t][who].at[m]
    <2>1. CASE UNCHANGED files
      BY <1>1, <2>1
    <2>2. CASE it.stage = "body" /\ files' = Extended(t, m, it.file, Body(Entries(t, m, it.file)))
      <3>1. Extends(t, m, it.file, Body(Entries(t, m, it.file)))
        BY Zenon, <2>2, ExtendedAt
      <3>2. CASE s = t /\ n = m
        <4>1. BodyWritten(s, who, n)
          BY Zenon, <1>4, <2>2, <3>1, <3>2 DEF BodyWritten, Footed, Extends
        <4> QED
          BY Zenon, <4>1
      <3>3. CASE ~(s = t /\ n = m)
        BY Zenon, <3>1, <3>3 DEF Extends
      <3> QED
        BY Zenon, <3>2, <3>3
    <2>3. CASE it.stage = "trailer" /\ files' = Extended(t, m, it.file, Trailer(it.has))
      <3>1. Extends(t, m, it.file, Trailer(it.has))
        BY Zenon, <2>3, ExtendedAt
      <3>2. CASE s = t /\ n = m
        <4>1. TrailerWritten(s, who, n)
          BY Zenon, <1>4, <2>3, <3>1, <3>2 DEF TrailerWritten, Footed, Extends
        <4> QED
          BY Zenon, <4>1
      <3>3. CASE ~(s = t /\ n = m)
        BY Zenon, <3>1, <3>3 DEF Extends
      <3> QED
        BY Zenon, <3>2, <3>3
    <2> QED
      BY Zenon, <1>4, <2>1, <2>2, <2>3 DEF SealStep
  <1>5. ASSUME NEW t \in Shards, HandleResume(t) PROVE Goal
    <2>1. PICK failed \in SUBSET OpenNames(t) : ResumedBut(t, failed)
      BY <1>5, Resumed
    <2> QED
      BY Zenon, <1>5, <2>1 DEF ResumedBut
  <1> HIDE DEF Goal
  <1>6. ASSUME Control \/ Drain \/ Sigterm \/ Watchdog \/ UNCHANGED vars PROVE UNCHANGED files
    BY Zenon, <1>6 DEF Control, Drain, Sigterm, Watchdog, vars, Own, DrainReplies, DrainConns, Seal,
       SealReplies, Resume, ResumeReplies, SupervisorAborts, SuccessorOpens, SuccessorDies, Commit
  <1>7. ASSUME NEW t \in Shards,
               \/ HandleDrain(t) \/ HandleSeal(t) \/ HandleSealEnd(t) \/ WorkerEnds(t) \/ WorkerGone(t)
               \/ \E p \in Protos : serve_loop(t, p)
               \/ \E who \in Sealers : FreezeAndDrain(t, who) \/ \E m \in Names : SealFails(t, who, m)
        PROVE  UNCHANGED files
    BY Zenon, <1>7 DEF HandleDrain, HandleSeal, HandleSealEnd, WorkerEnds, WorkerGone, serve_loop,
       FreezeAndDrain, SealFails
  <1>8. ASSUME NEW c \in Clients, Accept(c) \/ accept_one(c) \/ Ack(c) \/ Leave(c) \/ EarlyHttp(c)
        PROVE  UNCHANGED files
    BY Zenon, <1>8 DEF Accept, accept_one, Ack, Leave, EarlyHttp
  <1>9. ASSUME NEW p \in Protos, EndLoop(p) PROVE UNCHANGED files
    BY <1>9 DEF EndLoop
  <1>10. Goal
    BY <1>1, <1>2, <1>3, <1>4, <1>5, <1>6, <1>7, <1>8, <1>9 DEF Next, Progress, WorkerStep
  <1> QED
    BY <1>10 DEF Goal

\* The index changes when a write is acknowledged.
LEMMA MemSteps ==
  ASSUME [Next]_vars
  PROVE  \/ UNCHANGED mem
         \/ \E c \in Clients : Ack(c)
  <1>1. ASSUME Control \/ Drain \/ Sigterm \/ Watchdog \/ UNCHANGED vars PROVE UNCHANGED mem
    BY <1>1 DEF Control, Drain, Sigterm, Watchdog, vars, Own, DrainReplies, DrainConns, Seal,
       SealReplies, Resume, ResumeReplies, SupervisorAborts, SuccessorOpens, SuccessorDies, Commit
  <1>2. ASSUME NEW s \in Shards, WorkerStep(s) PROVE UNCHANGED mem
    BY ZenonT(30), <1>2 DEF WorkerStep, HandleDrain, HandleSeal, HandleSealEnd, HandleResume, WorkerEnds,
       WorkerGone, FreezeAndDrain, SealStep, SealFails, serve_loop
  <1>3. ASSUME NEW c \in Clients,
               \/ Accept(c) \/ accept_one(c) \/ Leave(c) \/ EarlyHttp(c) \/ Opened(c)
               \/ \E n \in Names : Write(c, n)
        PROVE  UNCHANGED mem
    BY Zenon, <1>3 DEF Accept, accept_one, Leave, EarlyHttp, Opened, Write
  <1>4. ASSUME NEW p \in Protos, EndLoop(p) PROVE UNCHANGED mem
    BY <1>4 DEF EndLoop
  <1> QED
    BY <1>1, <1>2, <1>3, <1>4 DEF Next, Progress

\* The index of a namespace, when a client is told.
Indexed(c, s, n) ==
  mem'[s][n] = IF s = client[c].s /\ n = client[c].n
               THEN mem[s][n] \cup {<<c, client[c].w>>} ELSE mem[s][n]

\* An acknowledged write is in the index.
LEMMA AckedAt ==
  ASSUME Types, NEW c \in Clients, Ack(c), NEW s \in Shards, NEW n \in Names
  PROVE  /\ client[c].s \in Shards /\ client[c].n \in Names
         /\ Indexed(c, s, n)
         /\ UNCHANGED files /\ client[c].pc = "append" /\ client'[c].w = client[c].w + 1
  <1> USE DEF Types
  <1>1. client[c].pc = "append" /\ UNCHANGED files /\ client[c].s \in Shards /\ client[c].n \in Names
    BY DEF Ack, ClientTypes
  <1>2. mem' = [mem EXCEPT ![client[c].s][client[c].n] = @ \cup {<<c, client[c].w>>}]
    BY DEF Ack
  <1>3. Indexed(c, s, n)
    BY Zenon, <1>1, <1>2 DEF MemTypes, Indexed
  <1>4. client'[c].w = client[c].w + 1
    BY DEF Ack, ClientTypes
  <1> QED
    BY <1>1, <1>3, <1>4

\* The writes of a client are counted as they are acknowledged; a client that is gone stays
\* so, and a write under way goes on, is acknowledged, or is cut off.
LEMMA NumberSteps ==
  ASSUME BaseInv, [Next]_vars, NEW c \in Clients
  PROVE  /\ client'[c].w = client[c].w \/ Ack(c)
         /\ client[c].pc = "gone" => client'[c].pc = "gone" /\ ~Ack(c)
         /\ client[c].pc = "append" =>
              client'[c] = client[c] \/ Ack(c) \/ client'[c].pc = "gone"
  <1> USE DEF BaseInv, Types
  <1> DEFINE Goal == /\ client'[c].w = client[c].w \/ Ack(c)
                     /\ client[c].pc = "gone" => client'[c].pc = "gone" /\ ~Ack(c)
                     /\ client[c].pc = "append" =>
                          client'[c] = client[c] \/ Ack(c) \/ client'[c].pc = "gone"
  <1>0. client[c].pc = "gone" => ~Ack(c)
    BY DEF Ack
  <1>1. ASSUME client'[c] = client[c] PROVE Goal
    BY <1>0, <1>1
  <1>2. ASSUME client'[c].w = client[c].w,
               client'[c].pc = "gone" \/ client[c].pc \notin {"gone", "append"} PROVE Goal
    BY <1>0, <1>2
  <1>12. ASSUME Ack(c) PROVE Goal
    BY <1>0, <1>12
  <1> HIDE DEF Goal
  <1>3. ASSUME Unconnected \/ \E p \in Protos : EndLoop(p) PROVE Goal
    BY <1>1, <1>3 DEF Unconnected, EndLoop
  <1>4. ASSUME NEW d \in Clients,
               Accept(d) \/ accept_one(d) \/ Leave(d) \/ EarlyHttp(d)
        PROVE  Goal
    <2>1. PICK pc \in {"accepted", "gone", "queued"} : client' = [client EXCEPT ![d].pc = pc]
      BY <1>4 DEF Accept, accept_one, Leave, EarlyHttp
    <2>2. client[d].pc \notin {"gone", "append"}
      BY <1>4 DEF Accept, accept_one, Leave, EarlyHttp
    <2>3. client'[c] = client[c] \/ (d = c /\ client'[c].w = client[c].w)
      BY <2>1 DEF ClientTypes
    <2> QED
      BY <1>1, <1>2, <2>2, <2>3
  <1>5. ASSUME NEW d \in Clients, Ack(d) PROVE Goal
    <2>1. d # c => client'[c] = client[c]
      BY <1>5 DEF Ack, ClientTypes
    <2> QED
      BY <1>1, <1>5, <1>12, <2>1
  <1>6. ASSUME NEW d \in Clients, Opened(d) \/ \E n \in Names : Write(d, n) PROVE Goal
    <2>1. client[d].pc \in {"open", "opening"}
      BY Zenon, <1>6 DEF Opened, Write
    <2>3. \/ \E pc : client' = [client EXCEPT ![d].pc = pc]
          \/ \E pc, n : client' = [client EXCEPT ![d].pc = pc, ![d].n = n]
      <3>1. ASSUME NEW s, NEW n, NEW z, BeginWrite(d, s, n, z) PROVE <2>3
        BY <3>1 DEF BeginWrite
      <3> QED
        BY Zenon, <1>6, <3>1 DEF Opened, Write
    <2>2. client'[c].w = client[c].w /\ (d # c => client'[c] = client[c])
      <3>1. CASE \E pc : client' = [client EXCEPT ![d].pc = pc]
        BY <3>1 DEF ClientTypes
      <3>2. CASE \E pc, n : client' = [client EXCEPT ![d].pc = pc, ![d].n = n]
        BY <3>2 DEF ClientTypes
      <3> QED
        BY Zenon, <2>3, <3>1, <3>2
    <2> QED
      BY <1>1, <1>2, <2>1, <2>2
  <1>8. ASSUME NEW s \in Shards, NEW p \in Protos, serve_loop(s, p) PROVE Goal
    <2> DEFINE d == Head(inbox[s][p])
    <2>1. PICK pc \in {"gone", "open"} : client' = [client EXCEPT ![d].pc = pc]
      BY Zenon, <1>8 DEF serve_loop
    <2>2. 1 \in DOMAIN inbox[s][p] /\ d = inbox[s][p][1] /\ d \in Clients
      BY <1>8 DEF serve_loop, InboxTypes
    <2>3. client[d].pc = "queued"
      BY <2>2 DEF ConnInv, Queued
    <2> HIDE DEF d
    <2>4. client'[c] = client[c] \/ (d = c /\ client'[c].w = client[c].w)
      BY <2>1 DEF ClientTypes
    <2> QED
      BY <1>1, <1>2, <2>3, <2>4
  <1>9. ASSUME NEW s \in Shards, WorkerGone(s) PROVE Goal
    <2>1. client'[c] = client[c] \/ client'[c] = [client[c] EXCEPT !.pc = "gone"]
      BY <1>9 DEF WorkerGone
    <2> QED
      BY <1>1, <1>2, <2>1 DEF ClientTypes
  <1>10. ASSUME Watchdog PROVE Goal
    BY <1>2, <1>10 DEF Watchdog, ClientTypes
  <1>11. Goal
    BY <1>3, <1>4, <1>5, <1>6, <1>8, <1>9, <1>10, ConnSteps
  <1> QED
    BY <1>11 DEF Goal


-----------------------------------------------------------------------------
(* The course of a process.                                                *)

\* The stages that an attempt may go to from where it is.
LEMMA StageSteps ==
  ASSUME Types, Accepting, [Next]_vars
  PROVE  \/ ctl' = ctl
         \/ Drain
         \/ Commit
         \/ /\ ctl.stage \notin {"idle", "committed"} /\ ctl'.stage # "committed"
            /\ UNCHANGED <<shutdown, left>>
  <1> USE DEF Types
  <1>1. ASSUME Aside PROVE ctl' = ctl
    BY <1>1 DEF Aside
  <1>2. ASSUME NEW s \in Shards, \/ HandleDrain(s) \/ HandleSeal(s) \/ HandleSealEnd(s)
                                 \/ HandleResume(s) \/ WorkerEnds(s) \/ WorkerGone(s)
        PROVE  ctl' = ctl
    BY Zenon, <1>2 DEF HandleDrain, HandleSeal, HandleSealEnd, HandleResume, WorkerEnds, WorkerGone
  <1>3. ASSUME Watchdog PROVE ctl' = ctl
    BY <1>3 DEF Watchdog
  <1>4. ASSUME DrainReplies \/ DrainConns \/ SealReplies \/ ResumeReplies \/ SupervisorAborts
        PROVE  /\ ctl.stage \notin {"idle", "committed"} /\ ctl'.stage # "committed"
               /\ UNCHANGED <<shutdown, left>>
    BY <1>4 DEF DrainReplies, DrainConns, SealReplies, ResumeReplies, SupervisorAborts, Stage,
       OpsTypes
  <1>5. ASSUME Seal \/ Resume
        PROVE  /\ ctl.stage \notin {"idle", "committed"} /\ ctl'.stage # "committed"
               /\ UNCHANGED <<shutdown, left>>
    BY <1>5 DEF Seal, Resume, fan_out
  <1> QED
    BY <1>1, <1>2, <1>3, <1>4, <1>5, CtlSteps

\* Only SIGTERM and a commit begin the shutdown; the RESP loop ends after it.
LEMMA ShutdownSteps ==
  ASSUME Types, Accepting, CtlInv, [Next]_vars, ~shutdown, Unended
  PROVE  /\ Unended'
         /\ shutdown' => Commit \/ left.sigterm
  <1> USE DEF Types
  <1>0. \A s \in Shards : worker[s] = "serving"
    BY DEF CtlInv
  <1>1. ASSUME UNCHANGED <<shutdown, loop>> PROVE Unended' /\ ~shutdown'
    BY <1>1 DEF Unended
  <1>2. ASSUME NEW c \in Clients, Accept(c) \/ accept_one(c) PROVE Unended' /\ ~shutdown'
    <2>1. PICK l \in {"routing", "look"} : loop' = [loop EXCEPT ![client[c].proto] = l]
      BY <1>0, <1>2 DEF Accept, accept_one, ClientTypes
    <2>2. shutdown' = shutdown
      BY ZenonT(30), <1>2 DEF Accept, accept_one
    <2>3. loop'["RESP"] = loop["RESP"] \/ loop'["RESP"] = l
      BY <2>1 DEF FlagTypes
    <2> QED
      BY ZenonT(30), <2>2, <2>3 DEF Unended
  <1>3. ASSUME NEW c \in Clients,
               Opened(c) \/ Ack(c) \/ Leave(c) \/ EarlyHttp(c) \/ \E n \in Names : Write(c, n)
        PROVE  UNCHANGED <<shutdown, loop>>
    BY Zenon, <1>3 DEF Opened, Ack, Leave, EarlyHttp, Write
  <1>4. ASSUME NEW s \in Shards, WorkerStep(s) PROVE UNCHANGED <<shutdown, loop>>
    <2>1. ASSUME HandleDrain(s) \/ HandleSeal(s) \/ HandleSealEnd(s) \/ HandleResume(s)
          PROVE  UNCHANGED <<shutdown, loop>>
      BY Zenon, <2>1 DEF HandleDrain, HandleSeal, HandleSealEnd, HandleResume
    <2>2. ASSUME WorkerEnds(s) \/ WorkerGone(s) PROVE UNCHANGED <<shutdown, loop>>
      BY Zenon, <2>2 DEF WorkerEnds, WorkerGone
    <2>3. ASSUME NEW who \in Sealers, FreezeAndDrain(s, who) PROVE UNCHANGED <<shutdown, loop>>
      BY Zenon, <2>3 DEF FreezeAndDrain
    <2>4. ASSUME NEW who \in Sealers, NEW n \in Names, SealStep(s, who, n) \/ SealFails(s, who, n)
          PROVE  UNCHANGED <<shutdown, loop>>
      BY Zenon, <2>4 DEF SealStep, SealFails
    <2>5. ASSUME NEW p \in Protos, serve_loop(s, p) PROVE UNCHANGED <<shutdown, loop>>
      BY Zenon, <2>5 DEF serve_loop
    <2> QED
      BY Zenon, <1>4, <2>1, <2>2, <2>3, <2>4, <2>5 DEF WorkerStep
  <1>5. ASSUME NEW p \in Protos PROVE ~EndLoop(p)
    BY DEF EndLoop
  <1>6. ASSUME Drain \/ UNCHANGED vars PROVE UNCHANGED <<shutdown, loop>>
    BY <1>6 DEF Drain, vars, Own
  <1>7. ~Watchdog
    BY DEF Watchdog, Unended
  <1>8. ASSUME Sigterm \/ Commit PROVE Unended' /\ (Commit \/ left.sigterm)
    BY <1>8 DEF Sigterm, Commit, Own, Unended
  <1>9. ASSUME DrainReplies \/ DrainConns \/ Seal \/ SealReplies \/ Resume \/ ResumeReplies
               \/ SupervisorAborts \/ SuccessorOpens \/ SuccessorDies
        PROVE  UNCHANGED <<shutdown, loop>>
    BY <1>9 DEF Own, DrainReplies, DrainConns, Seal, SealReplies, Resume, ResumeReplies,
       SupervisorAborts, SuccessorOpens, SuccessorDies
  <1> QED
    BY <1>1, <1>2, <1>3, <1>4, <1>5, <1>6, <1>7, <1>8, <1>9 DEF Next, Progress, Control

\* What is left of a scenario does not grow.
LEMMA LeftSteps ==
  ASSUME Types, [Next]_vars
  PROVE  /\ left'.sigterm => left.sigterm
         /\ left'.attempts = left.attempts \/ Drain
  <1> USE DEF Types, LeftTypes
  <1>1. ASSUME Control \/ Sigterm \/ Watchdog \/ UNCHANGED vars
        PROVE  (left'.sigterm => left.sigterm) /\ left'.attempts = left.attempts
    BY <1>1 DEF Control, Sigterm, Watchdog, vars, DrainReplies, DrainConns, Seal, SealReplies,
       Resume, ResumeReplies, SupervisorAborts, SuccessorOpens, SuccessorDies, Commit
  <1>2. ASSUME NEW s \in Shards, WorkerStep(s)
        PROVE  left'.sigterm = left.sigterm /\ left'.attempts = left.attempts
    BY ZenonT(30), <1>2 DEF WorkerStep, HandleDrain, HandleSeal, HandleSealEnd, HandleResume, WorkerEnds,
       WorkerGone, FreezeAndDrain, SealStep, SealFails, serve_loop
  <1>3. ASSUME NEW c \in Clients,
               \/ Accept(c) \/ accept_one(c) \/ Ack(c) \/ Leave(c) \/ EarlyHttp(c) \/ Opened(c)
               \/ \E n \in Names : Write(c, n)
        PROVE  left' = left
    BY Zenon, <1>3 DEF Accept, accept_one, Ack, Leave, EarlyHttp, Opened, Write
  <1>4. ASSUME NEW p \in Protos, EndLoop(p) PROVE left' = left
    BY <1>4 DEF EndLoop
  <1>5. ASSUME Drain PROVE left'.sigterm = left.sigterm
    BY <1>5 DEF Drain
  <1> QED
    BY <1>1, <1>2, <1>3, <1>4, <1>5 DEF Next, Progress

\* A handoff is not cut short without SIGTERM, and none happens that is not asked for.
LEMMA CourseStep ==
  ASSUME BaseInv, CtlInv, CourseInv, [Next]_vars
  PROVE  CourseInv'
  <1> USE DEF BaseInv, ConnInv
  <1>1. Scenario' = Scenario /\ (Calm' <=> Calm)
    BY SameScenario DEF Calm, Settled
  <1>2. (left.sigterm => Scenario.sigterm)'
    BY <1>1, LeftSteps DEF CourseInv
  <1>3. (Calm /\ ctl.stage # "committed" => ~shutdown /\ Unended)'
    <2> SUFFICES ASSUME Calm, ctl'.stage # "committed" PROVE ~shutdown' /\ Unended'
      BY <1>1
    <2>1. ctl.stage # "committed" /\ ~Commit
      BY Zenon, StageSteps DEF Drain, Commit, Stage, Types, OpsTypes
    <2>2. ~shutdown /\ Unended /\ ~left.sigterm
      BY <2>1 DEF CourseInv, Calm
    <2> QED
      BY <2>1, <2>2, ShutdownSteps
  <1>4. (Scenario.attempts = 0 => ctl.stage = "idle" /\ lock = "O" /\ left.attempts = 0)'
    <2> SUFFICES ASSUME Scenario.attempts = 0
                 PROVE  ctl'.stage = "idle" /\ lock' = "O" /\ left'.attempts = 0
      BY <1>1
    <2>1. ctl.stage = "idle" /\ lock = "O" /\ left.attempts = 0
      BY DEF CourseInv
    <2>2. ~Drain /\ ~Commit
      BY <2>1 DEF Drain, Commit
    <2>3. ctl' = ctl
      BY <2>1, <2>2, StageSteps
    <2>4. lock' = lock
      BY <2>1, LockSteps DEF SealReplies, SupervisorAborts
    <2> QED
      BY <2>1, <2>2, <2>3, <2>4, LeftSteps
  <1>5. (ctl.stage = "committed" => lock = "N")'
    <2>1. CASE Commit
      BY <2>1 DEF Commit
    <2>2. CASE ctl' = ctl
      BY <2>2, LockSteps DEF CourseInv, SealReplies, SupervisorAborts
    <2>3. CASE ctl'.stage # "committed"
      BY <2>3
    <2>4. Drain => ctl'.stage # "committed"
      BY DEF Drain, fan_out
    <2> QED
      BY <2>1, <2>2, <2>3, <2>4, StageSteps
  <1> QED
    BY <1>2, <1>3, <1>4, <1>5 DEF CourseInv

\* One seal at a time is under way in a shard, and it is not resumed meanwhile.
LEMMA SealAlone ==
  ASSUME CtlInv, CourseInv, Orderly, ctl.stage # "committed",
         NEW s \in Shards, NEW who \in Sealers, seals[s][who].on
  PROVE  /\ \A by \in Sealers : seals[s][by].on => by = who
         /\ ~HandleResume(s)
  <1>1. seals[s]["op"].on => ops[s] # << >> /\ Head(ops[s]) = "seal"
    BY DEF CtlInv, SealsOwned
  <1>2. CASE Calm
    <2>1. ~seals[s]["exit"].on
      BY <1>2 DEF CourseInv, CtlInv, SealsOwned
    <2> QED
      BY <1>1, <2>1 DEF Sealers, HandleResume, Serving
  <1>3. CASE Scenario.attempts = 0
    <2>1. ops[s] = << >>
      BY <1>3 DEF CourseInv, CtlInv
    <2> QED
      BY <1>1, <2>1 DEF Sealers, HandleResume, Serving
  <1> QED
    BY <1>2, <1>3 DEF Orderly

=============================================================================
