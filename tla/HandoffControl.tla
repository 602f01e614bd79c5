---------------------------- MODULE HandoffControl ---------------------------
(***************************************************************************)
(* The state, the connections and the control thread of Handoff, for any   *)
(* number of shards, clients, namespaces, attempts and failures: the state *)
(* has its types, the limits hold, and the server never takes connections  *)
(* with a namespace frozen.                                                *)
(***************************************************************************)
EXTENDS Handoff, TLAPS, FiniteSetTheorems

\* SMT has time for the larger steps; what it does not find is left to Zenon.
USE SMTT(30), ZenonT(30)

-----------------------------------------------------------------------------
(* The values the state takes.                                             *)

ClientStates == {"waiting", "accepted", "queued", "gone"} \cup Live
Stages == {"idle", "draining", "conns", "drained", "sealing", "sealed", "abort", "resuming",
           "failed", "committed"}
Operations == {"drain", "seal", "resume"}
Writes == Clients \X Nat
SealItem == [stage : {"sync", "body", "trailer", "done", "failed"}, file : Nat,
             has : SUBSET Writes]
Piece == [kind : {"record", "body", "trailer"}, has : SUBSET Writes]
SealMaps == UNION {[S -> SealItem] : S \in SUBSET Names}

SealType == [on : BOOLEAN, drained : BOOLEAN, at : SealMaps]

FlagTypes ==
  /\ closed \in BOOLEAN /\ shutdown \in BOOLEAN
  /\ loop \in [Protos -> {"look", "routing", "ended"}]
  /\ worker \in [Shards -> {"serving", "ending", "gone"}]
  /\ lock \in {"O", "free", "N"}
ClientTypes ==
  /\ client \in [Clients -> [pc : ClientStates, s : Shards, proto : Protos,
                             n : Names \cup {"none"}, w : Nat]]
  /\ \A c \in Clients : client[c].pc \in {"opening", "append"} => client[c].n \in Names
InboxTypes == inbox \in [Shards -> [Protos -> Seq(Clients)]]
NsTypes == ns \in [Shards -> [Names -> [open : BOOLEAN, frozen : BOOLEAN]]]
OpsTypes ==
  /\ ops \in [Shards -> Seq(Operations)]
  /\ replies \in [Shards -> Seq({"ok", "error"})]
  /\ ctl \in [stage : Stages, k : Nat]
SealsTypes == seals \in [Shards -> [Sealers -> SealType]]
MemTypes == mem \in [Shards -> [Names -> SUBSET Writes]]
FilesTypes ==
  /\ files \in [Shards -> [Names -> Seq(Seq(Piece))]]
  /\ \A s \in Shards, n \in Names : files[s][n] # << >>
LeftTypes ==
  left \in [of : DOMAIN Scenarios, attempts : Int, faults : Int, sigterm : BOOLEAN,
            successors : Int]
Types ==
  /\ FlagTypes /\ ClientTypes /\ InboxTypes /\ NsTypes /\ OpsTypes /\ SealsTypes
  /\ MemTypes /\ FilesTypes /\ LeftTypes

-----------------------------------------------------------------------------
(* Types.                                                                  *)

\* The constants of a scenario have the types the state starts from.
LEMMA InitTypes == Init => Types
  <1> SUFFICES ASSUME Init PROVE Types
    OBVIOUS
  <1>1. PICK i \in DOMAIN Scenarios :
          left = [of |-> i, attempts |-> Scenarios[i].attempts, faults |-> Scenarios[i].faults,
                  sigterm |-> Scenarios[i].sigterm, successors |-> Scenarios[i].successors]
    BY DEF Init
  <1>2. left.of = i /\ Scenario = Scenarios[i]
    BY <1>1 DEF Scenario
  <1>3. SealsTypes
    <2>1. << >> \in [{} -> SealItem]
      OBVIOUS
    <2>2. << >> \in SealMaps
      BY Zenon, <2>1 DEF SealMaps
    <2>3. NotSealing \in SealType
      BY <2>2 DEF NotSealing, SealType
    <2> QED
      BY <2>3 DEF Init, SealsTypes
  <1>4. ClientTypes
    BY <1>2, ScenariosAssumption DEF Init, ClientTypes, ClientStates, Live
  <1>5. NsTypes
    BY DEF Init, NsTypes
  <1>6. LeftTypes
    BY <1>1, ScenariosAssumption DEF LeftTypes
  <1>7. InboxTypes
    <2>1. << >> \in Seq(Clients)
      OBVIOUS
    <2> QED
      BY <2>1 DEF Init, InboxTypes
  <1>8. OpsTypes
    <2>1. << >> \in Seq(Operations) /\ << >> \in Seq({"ok", "error"})
      OBVIOUS
    <2> QED
      BY <2>1 DEF Init, OpsTypes, Stages
  <1>9. FlagTypes
    BY Zenon DEF Init, FlagTypes
  <1>10. MemTypes
    BY DEF Init, MemTypes
  <1>11. FilesTypes
    <2>1. << << >> >> \in Seq(Seq(Piece)) /\ << << >> >> # << >>
      OBVIOUS
    <2> QED
      BY <2>1 DEF Init, FilesTypes
  <1> QED
    BY <1>3, <1>4, <1>5, <1>6, <1>7, <1>8, <1>9, <1>10, <1>11 DEF Types

\* What seal_all_for_shutdown lists is a set of namespaces, none begun.
LEMMA SealBegunTypes ==
  ASSUME SealsTypes, NsTypes, NEW s \in Shards, NEW who \in Sealers, SealBegun(s, who)
  PROVE  SealsTypes' /\ NsTypes'
  <1> DEFINE begun == [on |-> TRUE, drained |-> FALSE, at |-> [n \in OpenNames(s) |-> Unsealed]]
  <1>1. [n \in OpenNames(s) |-> Unsealed] \in [OpenNames(s) -> SealItem]
    BY DEF Unsealed, SealItem
  <1>2. [n \in OpenNames(s) |-> Unsealed] \in SealMaps
    BY Zenon, <1>1 DEF SealMaps, OpenNames
  <1>3. begun \in SealType
    BY <1>2 DEF SealType
  <1>4. seals' = [seals EXCEPT ![s][who] = begun]
    BY DEF SealBegun
  <1> HIDE DEF begun
  <1>5. SealsTypes'
    BY <1>3, <1>4 DEF SealsTypes
  <1> DEFINE frozen == [n \in Names |-> IF n \in OpenNames(s)
                                        THEN [ns[s][n] EXCEPT !.frozen = TRUE] ELSE ns[s][n]]
  <1>6. frozen \in [Names -> [open : BOOLEAN, frozen : BOOLEAN]]
    BY ZenonT(30) DEF NsTypes
  <1>7. ns' = [ns EXCEPT ![s] = frozen]
    BY DEF SealBegun
  <1> HIDE DEF frozen
  <1>8. NsTypes'
    BY <1>6, <1>7 DEF NsTypes
  <1> QED
    BY <1>5, <1>8

\* No seal is a seal.
LEMMA NotSealingType == NotSealing \in SealType
  <1>1. << >> \in [{} -> SealItem]
    OBVIOUS
  <1>2. << >> \in SealMaps
    BY <1>1 DEF SealMaps
  <1> QED
    BY <1>2 DEF NotSealing, SealType

\* The item of a namespace in a seal.
LEMMA SealItemType ==
  ASSUME NEW seal \in SealType, NEW n \in DOMAIN seal.at
  PROVE  n \in Names /\ seal.at[n] \in SealItem
  <1>1. PICK S \in SUBSET Names : seal.at \in [S -> SealItem]
    BY DEF SealType, SealMaps
  <1> QED
    BY <1>1

\* An item of a seal is replaced by an item.
LEMMA SealItemTypes ==
  ASSUME NEW seal \in SealType, NEW n \in DOMAIN seal.at, NEW it \in SealItem
  PROVE  [seal EXCEPT !.at[n] = it] \in SealType
  <1>1. PICK S \in SUBSET Names : seal.at \in [S -> SealItem]
    BY DEF SealType, SealMaps
  <1> DEFINE at == [seal.at EXCEPT ![n] = it]
  <1>2. at \in [S -> SealItem]
    BY <1>1
  <1>3. at \in SealMaps
    BY <1>2 DEF SealMaps
  <1> HIDE DEF at
  <1>4. [seal EXCEPT !.at = at] \in SealType
    BY <1>3 DEF SealType
  <1> QED
    BY <1>1, <1>4 DEF at

\* A worker takes the operation at the head and replies.
LEMMA HandledTypes ==
  ASSUME OpsTypes, NEW s \in Shards, ops[s] # << >>, NEW ok, Handled(s), Replied(s, ok),
         UNCHANGED ctl
  PROVE  OpsTypes'
  <1> DEFINE answer == IF ok THEN "ok" ELSE "error"
  <1>1. answer \in {"ok", "error"}
    OBVIOUS
  <1>2. replies' = [replies EXCEPT ![s] = Append(@, answer)]
    BY DEF Replied
  <1> HIDE DEF answer
  <1> QED
    BY <1>1, <1>2 DEF OpsTypes, Handled

\* fan_out appends the operation and counts it.
LEMMA FanOutTypes ==
  ASSUME OpsTypes, NEW op \in Operations, NEW then \in Stages, fan_out(op, then),
         UNCHANGED replies
  PROVE  OpsTypes'
  <1>1. \A s \in Shards : Append(ops[s], op) \in Seq(Operations)
    BY DEF OpsTypes
  <1>2. ops' \in [Shards -> Seq(Operations)]
    BY <1>1 DEF OpsTypes, fan_out
  <1>3. ctl' \in [stage : Stages, k : Nat]
    BY DEF OpsTypes, fan_out, Stages
  <1> QED
    BY <1>2, <1>3 DEF OpsTypes

\* One element of a sequence is replaced.
LEMMA ReplacedAt ==
  ASSUME NEW S, NEW q \in Seq(S), NEW i \in 1..Len(q), NEW e \in S
  PROVE  LET new == [q EXCEPT ![i] = e]
         IN /\ new \in Seq(S) /\ Len(new) = Len(q)
            /\ \A j \in 1..Len(q) : new[j] = IF j = i THEN e ELSE q[j]
  <1> DEFINE new == [q EXCEPT ![i] = e]
  <1>1. DOMAIN q = 1..Len(q) /\ Len(q) \in Nat /\ q \in [1..Len(q) -> S]
    OBVIOUS
  <1>2. new \in [1..Len(q) -> S]
    BY <1>1
  <1>3. new \in Seq(S) /\ Len(new) = Len(q)
    BY <1>1, <1>2
  <1> QED
    BY <1>1, <1>3

\* A piece is appended to the f-th of some files.
LEMMA AppendAt ==
  ASSUME NEW fs \in Seq(Seq(Piece)), NEW f \in Nat, NEW piece \in Piece
  PROVE  LET new == [fs EXCEPT ![f] = Append(@, piece)]
         IN /\ new \in Seq(Seq(Piece)) /\ Len(new) = Len(fs)
            /\ \A g \in 1..Len(fs) : new[g] = IF g = f THEN Append(fs[f], piece) ELSE fs[g]
  <1> DEFINE new == [fs EXCEPT ![f] = Append(@, piece)]
  <1>1. ASSUME f \in 1..Len(fs)
        PROVE  /\ new \in Seq(Seq(Piece)) /\ Len(new) = Len(fs)
               /\ \A g \in 1..Len(fs) : new[g] = IF g = f THEN Append(fs[f], piece) ELSE fs[g]
    <2>1. Append(fs[f], piece) \in Seq(Piece)
      BY <1>1
    <2> QED
      BY <1>1, <2>1, ReplacedAt
  <1>2. ASSUME f \notin 1..Len(fs)
        PROVE  /\ new \in Seq(Seq(Piece)) /\ Len(new) = Len(fs)
               /\ \A g \in 1..Len(fs) : new[g] = IF g = f THEN Append(fs[f], piece) ELSE fs[g]
    <2>1. new = fs
      BY <1>2
    <2> QED
      BY Zenon, <1>2, <2>1
  <1> QED
    BY <1>1, <1>2

\* A piece is appended to a file of a namespace.
LEMMA ExtendedTypes ==
  ASSUME FilesTypes, NEW s \in Shards, NEW n \in Names, NEW f \in Nat, NEW piece \in Piece,
         files' = Extended(s, n, f, piece)
  PROVE  FilesTypes'
  <1>1. files[s][n] \in Seq(Seq(Piece)) /\ files[s][n] # << >>
    BY DEF FilesTypes
  <1> DEFINE fs == [files[s][n] EXCEPT ![f] = Append(@, piece)]
  <1>2. fs \in Seq(Seq(Piece)) /\ Len(fs) = Len(files[s][n])
    BY <1>1, AppendAt
  <1>3. files' = [files EXCEPT ![s][n] = fs]
    BY DEF Extended
  <1> HIDE DEF fs
  <1>4. fs # << >>
    BY <1>1, <1>2
  <1> QED
    BY <1>2, <1>3, <1>4 DEF FilesTypes

\* A part of the state that a step leaves alone keeps its type.
LEMMA KeptTypes ==
  /\ FlagTypes /\ UNCHANGED <<closed, shutdown, loop, worker, lock>> => FlagTypes'
  /\ ClientTypes /\ UNCHANGED client => ClientTypes'
  /\ InboxTypes /\ UNCHANGED inbox => InboxTypes'
  /\ NsTypes /\ UNCHANGED ns => NsTypes'
  /\ OpsTypes /\ UNCHANGED <<ops, replies, ctl>> => OpsTypes'
  /\ SealsTypes /\ UNCHANGED seals => SealsTypes'
  /\ MemTypes /\ UNCHANGED mem => MemTypes'
  /\ FilesTypes /\ UNCHANGED files => FilesTypes'
  /\ LeftTypes /\ UNCHANGED left => LeftTypes'
  BY DEF FlagTypes, ClientTypes, InboxTypes, NsTypes, OpsTypes, SealsTypes,
         MemTypes, FilesTypes, LeftTypes

\* One value of a table of tables is replaced.
LEMMA NestedType ==
  ASSUME NEW S, NEW P, NEW T, NEW f \in [S -> [P -> T]], NEW s \in S, NEW p \in P, NEW q \in T
  PROVE  [f EXCEPT ![s][p] = q] \in [S -> [P -> T]]
  OBVIOUS

\* begin_write appends a record of the client, or nothing.
LEMMA BegunTypes ==
  ASSUME FilesTypes, ClientTypes, NEW c \in Clients, NEW s \in Shards, NEW n \in Names,
         NEW frozen, BeginWrite(c, s, n, frozen)
  PROVE  FilesTypes'
  <1>1. Record(<<c, client[c].w>>) \in Piece
    BY DEF Record, Piece, Writes, ClientTypes
  <1>2. Active(s, n) \in Nat
    BY DEF Active, FilesTypes
  <1>3. files' = files \/ files' = Extended(s, n, Active(s, n), Record(<<c, client[c].w>>))
    BY DEF BeginWrite
  <1> QED
    BY <1>1, <1>2, <1>3, ExtendedTypes, KeptTypes

\* Every step keeps the types.
LEMMA TypesStep == Types /\ [Next]_vars => Types'
  <1> SUFFICES ASSUME Types, [Next]_vars PROVE Types'
    OBVIOUS
  <1> USE DEF Types
  <1>0. CASE UNCHANGED vars
    BY <1>0, KeptTypes DEF vars
  <1>1. ASSUME NEW c \in Clients, Accept(c) PROVE Types'
    <2>1. ClientTypes'
      BY <1>1 DEF ClientTypes, Accept, ClientStates
    <2>2. FlagTypes'
      BY ZenonT(30), <1>1 DEF FlagTypes, Accept, ClientStates
    <2> QED
      BY <1>1, <2>1, <2>2, KeptTypes DEF Accept
  <1>2. ASSUME NEW c \in Clients, accept_one(c) PROVE Types'
    <2>1. ClientTypes'
      <3>1. PICK pc \in {"gone", "queued"} : client' = [client EXCEPT ![c].pc = pc]
        BY ZenonT(30), <1>2 DEF accept_one
      <3> QED
        BY <3>1 DEF ClientTypes, ClientStates, Live
    <2>2. FlagTypes'
      BY <1>2 DEF FlagTypes, accept_one, ClientStates
    <2>3. InboxTypes'
      <3>1. client[c].s \in Shards /\ client[c].proto \in Protos
        BY ZenonT(30) DEF ClientTypes
      <3>2. \/ UNCHANGED inbox
            \/ inbox' = [inbox EXCEPT ![client[c].s][client[c].proto] = Append(@, c)]
        BY <1>2 DEF accept_one
      <3>3. Append(inbox[client[c].s][client[c].proto], c) \in Seq(Clients)
        BY <3>1 DEF InboxTypes
      <3>4. PICK s \in Shards, p \in Protos, q \in Seq(Clients) :
              inbox' = inbox \/ inbox' = [inbox EXCEPT ![s][p] = q]
        BY Zenon, <3>1, <3>2, <3>3
      <3>5. [inbox EXCEPT ![s][p] = q] \in [Shards -> [Protos -> Seq(Clients)]]
        BY NestedType, Zenon DEF InboxTypes
      <3> QED
        BY <3>4, <3>5, Zenon DEF InboxTypes
    <2> QED
      BY <1>2, <2>1, <2>2, <2>3, KeptTypes DEF accept_one
  <1>3. ASSUME NEW c \in Clients, Opened(c) PROVE Types'
    <2>1. ClientTypes'
      BY <1>3 DEF ClientTypes, Opened, ClientStates, BeginWrite, Live
    <2>2. NsTypes'
      <3>1. client[c].s \in Shards /\ client[c].n \in Names
        BY <1>3 DEF ClientTypes, Opened
      <3>2. ns[client[c].s][client[c].n] \in [open : BOOLEAN, frozen : BOOLEAN]
        BY ZenonT(30), <3>1 DEF NsTypes
      <3> QED
        BY Zenon, <1>3, <3>1, <3>2 DEF NsTypes, Opened
    <2>3. FilesTypes'
      <3>1. client[c].s \in Shards /\ client[c].n \in Names
        BY <1>3 DEF ClientTypes, Opened
      <3> QED
        BY <1>3, <3>1, BegunTypes DEF Opened
    <2> QED
      BY Zenon, <1>3, <2>1, <2>2, <2>3, KeptTypes DEF Opened
  <1>4. ASSUME NEW c \in Clients, Ack(c) PROVE Types'
    <2>1. ClientTypes'
      BY <1>4 DEF ClientTypes, Ack, ClientStates, Live
    <2>2. MemTypes'
      <3>1. client[c].s \in Shards /\ client[c].n \in Names /\ client[c].w \in Nat
        BY <1>4 DEF ClientTypes, Ack
      <3>2. mem[client[c].s][client[c].n] \cup {<<c, client[c].w>>} \in SUBSET Writes
        BY <3>1 DEF MemTypes, Writes
      <3> QED
        BY <1>4, <3>1, <3>2 DEF MemTypes, Ack
    <2> QED
      BY <1>4, <2>1, <2>2, KeptTypes DEF Ack
  <1>5. ASSUME NEW c \in Clients, Leave(c) PROVE Types'
    <2>1. ClientTypes'
      BY <1>5 DEF ClientTypes, Leave, ClientStates
    <2> QED
      BY <1>5, <2>1, KeptTypes DEF Leave
  <1>6. ASSUME NEW c \in Clients, EarlyHttp(c) PROVE Types'
    <2>1. ClientTypes'
      BY <1>6 DEF ClientTypes, EarlyHttp, ClientStates
    <2> QED
      BY <1>6, <2>1, KeptTypes DEF EarlyHttp
  <1>7. ASSUME NEW c \in Clients, NEW n \in Names, Write(c, n) PROVE Types'
    <2>1. ClientTypes'
      BY <1>7 DEF ClientTypes, Write, ClientStates, BeginWrite, Live
    <2>2. FilesTypes'
      <3>1. client[c].s \in Shards
        BY Zenon DEF ClientTypes
      <3>2. files' = files \/ BeginWrite(c, client[c].s, n, ns[client[c].s][n].frozen)
        BY <1>7 DEF Write
      <3> QED
        BY Zenon, <3>1, <3>2, BegunTypes, KeptTypes
    <2> QED
      BY <1>7, <2>1, <2>2, KeptTypes DEF Write
  <1>8. ASSUME NEW p \in Protos, EndLoop(p) PROVE Types'
    <2>1. FlagTypes'
      BY <1>8 DEF FlagTypes, EndLoop
    <2> QED
      BY <1>8, <2>1, KeptTypes DEF EndLoop
  <1>9. ASSUME NEW s \in Shards, NEW p \in Protos, serve_loop(s, p) PROVE Types'
    <2>1. ClientTypes'
      <3>1. Head(inbox[s][p]) \in Clients
        BY <1>9 DEF InboxTypes, serve_loop
      <3> DEFINE h == Head(inbox[s][p])
                 pc == IF ConnCount(s, p) >= MaxConns THEN "gone" ELSE "open"
                 new == [client[h] EXCEPT !.pc = pc]
      <3>2. pc \in {"gone", "open"}
        OBVIOUS
      <3>3. client' = [client EXCEPT ![h] = new]
        BY Zenon, <1>9 DEF serve_loop
      <3> HIDE DEF h, pc
      <3>4. /\ new \in [pc : ClientStates, s : Shards, proto : Protos,
                        n : Names \cup {"none"}, w : Nat]
            /\ new.pc \notin {"opening", "append"}
        BY <3>1, <3>2 DEF ClientTypes, ClientStates, Live, h
      <3> HIDE DEF new
      <3> QED
        BY <3>1, <3>3, <3>4 DEF ClientTypes, h
    <2>2. InboxTypes'
      BY <1>9 DEF InboxTypes, serve_loop, ClientStates, Live
    <2> QED
      BY <1>9, <2>1, <2>2, KeptTypes DEF serve_loop
  <1>10. ASSUME NEW s \in Shards, NEW who \in Sealers, FreezeAndDrain(s, who) PROVE Types'
    <2>1. SealsTypes'
      <3>1. seals[s][who] \in SealType
        BY DEF SealsTypes
      <3>2. [seals[s][who] EXCEPT !.drained = TRUE] \in SealType
        BY Zenon, <3>1 DEF SealType
      <3> QED
        BY <1>10, <3>2 DEF SealsTypes, FreezeAndDrain
    <2> QED
      BY <1>10, <2>1, KeptTypes DEF FreezeAndDrain
  <1>11. ASSUME NEW s \in Shards, NEW who \in Sealers, NEW n \in Names,
                SealStep(s, who, n)
         PROVE  Types'
    <2>1. SealsTypes'
      <3> DEFINE seal == seals[s][who]
      <3>1. seal \in SealType /\ n \in DOMAIN seal.at
        BY Zenon, <1>11 DEF SealsTypes, SealStep
      <3>2. seal.at[n] \in SealItem
        BY <3>1, SealItemType
      <3>3. Active(s, n) \in Nat /\ \A f \in Nat : Entries(s, n, f) \subseteq Writes
        BY DEF Active, Entries, FilesTypes, MemTypes
      <3>4. PICK it \in SealItem : seals' = [seals EXCEPT ![s][who].at[n] = it]
        BY Zenon, <1>11, <3>2, <3>3 DEF SealStep, SealItem
      <3>5. [seal EXCEPT !.at[n] = it] \in SealType
        BY Zenon, <3>1, SealItemTypes
      <3> QED
        BY <3>4, <3>5 DEF SealsTypes
    <2>2. FilesTypes'
      <3> DEFINE seal == seals[s][who]
      <3>1. seal \in SealType /\ n \in DOMAIN seal.at
        BY Zenon, <1>11 DEF SealsTypes, SealStep
      <3>2. seal.at[n] \in SealItem
        BY <3>1, SealItemType
      <3>3. seal.at[n].file \in Nat /\ seal.at[n].has \in SUBSET Writes
            /\ \A f \in Nat : Entries(s, n, f) \in SUBSET Writes
        BY <3>2 DEF SealItem, Entries, MemTypes
      <3>4. \A ws \in SUBSET Writes : Body(ws) \in Piece /\ Trailer(ws) \in Piece
        BY DEF Body, Trailer, Piece
      <3>5. files' = files \/ \E piece \in Piece : files' = Extended(s, n, seal.at[n].file, piece)
        BY Zenon, <1>11, <3>3, <3>4 DEF SealStep
      <3> QED
        BY Zenon, <3>3, <3>5, ExtendedTypes, KeptTypes
    <2> QED
      BY Zenon, <1>11, <2>1, <2>2, KeptTypes DEF SealStep
  <1>12. ASSUME NEW s \in Shards, NEW who \in Sealers, NEW n \in Names,
                SealFails(s, who, n)
         PROVE  Types'
    <2>1. SealsTypes'
      <3> DEFINE seal == seals[s][who]
      <3>1. seal \in SealType /\ n \in DOMAIN seal.at
        BY Zenon, <1>12 DEF SealsTypes, SealFails
      <3>2. seal.at[n] \in SealItem
        BY <3>1, SealItemType
      <3> DEFINE it == [seal.at[n] EXCEPT !.stage = "failed"]
      <3>3. it \in SealItem
        BY <3>2 DEF SealItem
      <3>4. seals' = [seals EXCEPT ![s][who].at[n] = it]
        BY <1>12 DEF SealFails
      <3> HIDE DEF it
      <3>5. [seal EXCEPT !.at[n] = it] \in SealType
        BY Zenon, <3>1, <3>3, SealItemTypes
      <3> QED
        BY <3>4, <3>5 DEF SealsTypes
    <2>2. LeftTypes'
      BY <1>12 DEF LeftTypes, SealFails
    <2> QED
      BY <1>12, <2>1, <2>2, KeptTypes DEF SealFails
  <1>13. ASSUME NEW s \in Shards, HandleDrain(s) PROVE Types'
    <2>1. OpsTypes'
      BY Zenon, <1>13, HandledTypes DEF HandleDrain, Serving
    <2>2. LeftTypes'
      BY <1>13 DEF LeftTypes, HandleDrain, Replied, Handled, Serving, Operations
    <2> QED
      BY <1>13, <2>1, <2>2, KeptTypes DEF HandleDrain
  <1>14. ASSUME NEW s \in Shards, HandleSeal(s) PROVE Types'
    <2>1. SealsTypes'
      BY <1>14, SealBegunTypes DEF HandleSeal, Sealers
    <2>2. NsTypes'
      BY <1>14, SealBegunTypes DEF HandleSeal, Sealers
    <2> QED
      BY <1>14, <2>1, <2>2, KeptTypes DEF HandleSeal
  <1>15. ASSUME NEW s \in Shards, HandleSealEnd(s) PROVE Types'
    <2>1. OpsTypes'
      BY <1>15, HandledTypes DEF HandleSealEnd, Serving
    <2>2. SealsTypes'
      BY <1>15, NotSealingType DEF HandleSealEnd, SealsTypes, Sealers
    <2> QED
      BY <1>15, <2>1, <2>2, KeptTypes DEF HandleSealEnd
  <1>16. ASSUME NEW s \in Shards, HandleResume(s) PROVE Types'
    <2>1. OpsTypes'
      BY <1>16, HandledTypes DEF HandleResume, Serving
    <2>2. LeftTypes'
      BY <1>16 DEF LeftTypes, HandleResume, Replied, Handled, Serving
    <2>3. NsTypes'
      <3> DEFINE awake == [n \in Names |-> IF n \in OpenNames(s)
                               THEN [ns[s][n] EXCEPT !.frozen = FALSE] ELSE ns[s][n]]
      <3>1. awake \in [Names -> [open : BOOLEAN, frozen : BOOLEAN]]
        <4>1. \A r \in [open : BOOLEAN, frozen : BOOLEAN] :
                [r EXCEPT !.frozen = FALSE] \in [open : BOOLEAN, frozen : BOOLEAN]
          BY Zenon
        <4>2. \A n \in Names : ns[s][n] \in [open : BOOLEAN, frozen : BOOLEAN]
          BY Zenon DEF NsTypes
        <4> QED
          BY Zenon, <4>1, <4>2
      <3>2. ns' = ns \/ ns' = [ns EXCEPT ![s] = awake]
        BY <1>16 DEF HandleResume
      <3> HIDE DEF awake
      <3> QED
        BY Zenon, <3>1, <3>2 DEF NsTypes
    <2>4. FilesTypes'
      <3>1. PICK failed \in SUBSET OpenNames(s) :
              files' = [files EXCEPT ![s] = [n \in Names |->
                          IF n \in OpenNames(s) \ failed THEN Append(files[s][n], << >>)
                          ELSE files[s][n]]]
        BY Zenon, <1>16 DEF HandleResume
      <3> DEFINE new == [n \in Names |->
                          IF n \in OpenNames(s) \ failed THEN Append(files[s][n], << >>)
                          ELSE files[s][n]]
      <3>2. \A n \in Names : new[n] \in Seq(Seq(Piece)) /\ new[n] # << >>
        <4> TAKE n \in Names
        <4>1. files[s][n] \in Seq(Seq(Piece)) /\ files[s][n] # << >> /\ << >> \in Seq(Piece)
          BY DEF FilesTypes
        <4>2. Append(files[s][n], << >>) \in Seq(Seq(Piece)) /\ Append(files[s][n], << >>) # << >>
          BY <4>1
        <4> QED
          BY <4>1, <4>2
      <3>3. files' = [files EXCEPT ![s] = new]
        BY <3>1
      <3>4. new \in [Names -> Seq(Seq(Piece))]
        BY <3>2
      <3> HIDE DEF new
      <3> QED
        BY <3>2, <3>3, <3>4 DEF FilesTypes
    <2> QED
      BY <1>16, <2>1, <2>2, <2>3, <2>4, KeptTypes DEF HandleResume
  <1>17. ASSUME NEW s \in Shards, WorkerEnds(s) PROVE Types'
    <2>1. FlagTypes'
      BY <1>17 DEF FlagTypes, WorkerEnds
    <2>2. SealsTypes'
      BY <1>17, SealBegunTypes DEF WorkerEnds, Sealers
    <2>3. NsTypes'
      BY <1>17, SealBegunTypes DEF WorkerEnds, Sealers
    <2> QED
      BY <1>17, <2>1, <2>2, <2>3, KeptTypes DEF WorkerEnds
  <1>18. ASSUME NEW s \in Shards, WorkerGone(s) PROVE Types'
    <2>1. FlagTypes'
      BY <1>18 DEF FlagTypes, WorkerGone, ClientStates, Live
    <2>2. ClientTypes'
      <3> DEFINE gone(c) == [client[c] EXCEPT !.pc = "gone"]
      <3>1. \A c \in Clients : client'[c] = client[c] \/ client'[c] = gone(c)
        BY <1>18 DEF WorkerGone
      <3>2. \A c \in Clients :
              /\ gone(c) \in [pc : ClientStates, s : Shards, proto : Protos,
                               n : Names \cup {"none"}, w : Nat]
              /\ gone(c).pc = "gone"
        BY DEF ClientTypes, ClientStates
      <3>3. client' = [c \in Clients |-> client'[c]]
        BY Zenon, <1>18 DEF WorkerGone
      <3> HIDE DEF gone
      <3>4. \A c \in Clients :
              client'[c] \in [pc : ClientStates, s : Shards, proto : Protos,
                              n : Names \cup {"none"}, w : Nat]
        BY Zenon, <3>1, <3>2 DEF ClientTypes
      <3>5. client' \in [Clients -> [pc : ClientStates, s : Shards, proto : Protos,
                                     n : Names \cup {"none"}, w : Nat]]
        BY Zenon, <3>3, <3>4
      <3>6. \A c \in Clients : client'[c].pc \in {"opening", "append"} => client'[c].n \in Names
        BY <3>1, <3>2 DEF ClientTypes
      <3> QED
        BY Zenon, <3>5, <3>6 DEF ClientTypes
    <2>3. InboxTypes'
      BY <1>18 DEF InboxTypes, WorkerGone, ClientStates, Live
    <2>4. OpsTypes'
      BY <1>18 DEF OpsTypes, WorkerGone, ClientStates, Live
    <2>5. SealsTypes'
      BY <1>18, NotSealingType DEF WorkerGone, SealsTypes
    <2> QED
      BY <1>18, <2>1, <2>2, <2>3, <2>4, <2>5, KeptTypes DEF WorkerGone
  <1>19. CASE Sigterm
    <2>1. FlagTypes'
      BY <1>19 DEF FlagTypes, Sigterm
    <2>2. LeftTypes'
      BY Zenon, <1>19 DEF LeftTypes, Sigterm
    <2> QED
      BY <1>19, <2>1, <2>2, KeptTypes DEF Sigterm
  <1>20. CASE Watchdog
    <2>1. FlagTypes'
      BY <1>20 DEF FlagTypes, Watchdog
    <2>2. ClientTypes'
      BY Zenon, <1>20 DEF Watchdog, ClientTypes, ClientStates
    <2>3. InboxTypes'
      BY <1>20 DEF InboxTypes, Watchdog
    <2>4. SealsTypes'
      BY <1>20, NotSealingType DEF Watchdog, SealsTypes
    <2> QED
      BY <1>20, <2>1, <2>2, <2>3, <2>4, KeptTypes DEF Watchdog
  <1>21. CASE Drain
    <2>1. FlagTypes'
      BY <1>21 DEF FlagTypes, Drain, Own, fan_out
    <2>2. OpsTypes'
      BY <1>21, FanOutTypes DEF Drain, Own, Operations, Stages
    <2>3. LeftTypes'
      BY <1>21 DEF LeftTypes, Drain, Own, fan_out
    <2> QED
      BY <1>21, <2>1, <2>2, <2>3, KeptTypes DEF Drain, Own
  <1>22. CASE DrainReplies
    <2>1. OpsTypes'
      BY <1>22 DEF OpsTypes, DrainReplies, Own, Stage, Stages
    <2> QED
      BY <1>22, <2>1, KeptTypes DEF DrainReplies, Own
  <1>23. CASE DrainConns
    <2>1. OpsTypes'
      BY <1>23 DEF OpsTypes, DrainConns, Own, Stage, Stages
    <2> QED
      BY <1>23, <2>1, KeptTypes DEF DrainConns, Own
  <1>24. CASE Seal
    <2>1. OpsTypes'
      BY <1>24, FanOutTypes DEF Seal, Own, Operations, Stages
    <2> QED
      BY <1>24, <2>1, KeptTypes DEF Seal, Own
  <1>25. CASE SealReplies
    <2>1. OpsTypes'
      BY <1>25 DEF OpsTypes, SealReplies, Own, Stage, Stages
    <2>2. FlagTypes'
      BY <1>25 DEF FlagTypes, SealReplies, Own, Stage, Stages
    <2> QED
      BY <1>25, <2>1, <2>2, KeptTypes DEF SealReplies, Own
  <1>26. CASE Resume
    <2>1. OpsTypes'
      BY <1>26, FanOutTypes DEF Resume, Own, Operations, Stages
    <2> QED
      BY <1>26, <2>1, KeptTypes DEF Resume, Own
  <1>27. CASE ResumeReplies
    <2>1. OpsTypes'
      BY <1>27 DEF OpsTypes, ResumeReplies, Own, Stage, Stages
    <2>2. FlagTypes'
      BY Zenon, <1>27 DEF FlagTypes, ResumeReplies, Own, Stage, Stages
    <2> QED
      BY <1>27, <2>1, <2>2, KeptTypes DEF ResumeReplies, Own
  <1>28. CASE SupervisorAborts
    <2>1. OpsTypes'
      BY Zenon, <1>28 DEF OpsTypes, SupervisorAborts, Own, Stage, Stages
    <2>2. FlagTypes'
      BY <1>28 DEF FlagTypes, SupervisorAborts, Own, Stage, Stages
    <2> QED
      BY <1>28, <2>1, <2>2, KeptTypes DEF SupervisorAborts, Own
  <1>29. CASE SuccessorOpens
    <2>1. FlagTypes'
      BY <1>29 DEF FlagTypes, SuccessorOpens, Own
    <2>2. LeftTypes'
      BY <1>29 DEF LeftTypes, SuccessorOpens, Own
    <2> QED
      BY <1>29, <2>1, <2>2, KeptTypes DEF SuccessorOpens, Own
  <1>30. CASE SuccessorDies
    <2>1. FlagTypes'
      BY <1>30 DEF FlagTypes, SuccessorDies, Own
    <2> QED
      BY <1>30, <2>1, KeptTypes DEF SuccessorDies, Own
  <1>31. CASE Commit
    <2>1. OpsTypes'
      BY Zenon, <1>31 DEF OpsTypes, Commit, Own, Stage, Stages
    <2>2. FlagTypes'
      BY <1>31 DEF FlagTypes, Commit, Own, Stage, Stages
    <2> QED
      BY <1>31, <2>1, <2>2, KeptTypes DEF Commit, Own
  <1> QED
    BY ZenonT(30), <1>0, <1>1, <1>2, <1>3, <1>4, <1>5, <1>6, <1>7, <1>8, <1>9, <1>10, <1>11, <1>12,
       <1>13, <1>14, <1>15, <1>16, <1>17, <1>18, <1>19, <1>20, <1>21, <1>22, <1>23, <1>24, <1>25,
       <1>26, <1>27, <1>28, <1>29, <1>30, <1>31
    DEF Next, Progress, Control, WorkerStep

-----------------------------------------------------------------------------
(* What the steps preserve.                                                *)

\* A loop has at most one connection in its hands, and has not ended meanwhile.
Accepting ==
  /\ \A c \in Clients : client[c].pc = "accepted" => loop[client[c].proto] = "routing"
  /\ \A c, d \in Clients :
       client[c].pc = "accepted" /\ client[d].pc = "accepted"
         /\ client[c].proto = client[d].proto => c = d

\* An inbox holds each of its connections once, and no more than fit.
Queued ==
  \A s \in Shards, p \in Protos :
    /\ Len(inbox[s][p]) <= InboxCap
    /\ \A i \in DOMAIN inbox[s][p] :
         LET c == client[inbox[s][p][i]] IN c.pc = "queued" /\ c.s = s /\ c.proto = p
    /\ \A i, j \in DOMAIN inbox[s][p] : inbox[s][p][i] = inbox[s][p][j] => i = j

\* No shard has more connections of a protocol than its limit.
Limited == \A s \in Shards, p \in Protos : ConnCount(s, p) <= MaxConns

\* The connections of a worker that is gone are gone.
GoneIsGone ==
  \A s \in Shards : worker[s] = "gone" =>
    \A c \in Clients : client[c].s = s => client[c].pc \notin Live

\* The connections, from the kernel's queue to the end of the worker.
ConnInv == Accepting /\ Queued /\ Limited /\ GoneIsGone

\* Only what is open is sealed.
FrozenAreOpen == \A s \in Shards, n \in Names : ns[s][n].frozen => ns[s][n].open

\* What Types adds up to with them.
BaseInv == Types /\ ConnInv /\ FrozenAreOpen

-----------------------------------------------------------------------------
(* The control thread and the workers.                                     *)

Unended == loop["RESP"] # "ended"
Awake(s) == \A n \in Names : ~ns[s][n].frozen
Resumes(q) == {i \in DOMAIN q : q[i] = "resume"}

\* Operations sent to a worker: answered or not.
Sent(s) == Len(replies[s]) + Len(ops[s])

\* Operations are answered in order, one reply each, unless a worker was gone when the
\* last ones were sent.
Counted ==
  \/ \A s \in Shards : Sent(s) = ctl.k
  \/ ctl.stage \in {"abort", "failed"} /\ \E s \in Shards : worker[s] = "gone"

\* A seal is that of the operation being handled, or of the worker that ends.
SealsOwned ==
  \A s \in Shards :
    /\ seals[s]["op"].on => worker[s] # "gone" /\ ops[s] # << >> /\ Head(ops[s]) = "seal"
    /\ seals[s]["exit"].on => worker[s] = "ending"

CtlInv ==
  /\ SealsOwned
  /\ Unended => \A s \in Shards : worker[s] = "serving"
  /\ ctl.stage # "idle" => closed
  /\ Counted
  /\ ctl.stage \notin {"resuming", "failed"} => \A s \in Shards : Resumes(ops[s]) = {}
  /\ ctl.stage = "resuming" =>
       \A s \in Shards :
         /\ ops[s] # << >> => Resumes(ops[s]) = {Len(ops[s])}
         /\ ops[s] = << >> /\ Reply(s) = "ok" => Awake(s) \/ ~Unended
  /\ ctl.stage = "idle" => \A s \in Shards : ops[s] = << >> /\ (Awake(s) \/ ~Unended)

-----------------------------------------------------------------------------
(* Connections.                                                            *)

\* The connections are left alone, and no worker goes.
Unconnected ==
  /\ UNCHANGED <<client, loop, inbox>>
  /\ \A s \in Shards : worker'[s] = "gone" => worker[s] = "gone"

\* The steps that touch a connection.
LEMMA ConnSteps ==
  ASSUME FlagTypes, [Next]_vars
  PROVE  \/ Unconnected
         \/ \E p \in Protos : EndLoop(p)
         \/ \E c \in Clients :
              \/ Accept(c) \/ accept_one(c) \/ Opened(c) \/ Ack(c) \/ Leave(c) \/ EarlyHttp(c)
              \/ \E n \in Names : Write(c, n)
         \/ \E s \in Shards, p \in Protos : serve_loop(s, p)
         \/ \E s \in Shards : WorkerGone(s)
         \/ Watchdog
  <1>1. ASSUME Control PROVE Unconnected
    BY <1>1 DEF Control, Unconnected, Own, DrainReplies, DrainConns, Seal, SealReplies, Resume,
       ResumeReplies, SupervisorAborts, SuccessorOpens, SuccessorDies, Commit
  <1>2. ASSUME NEW s \in Shards, WorkerStep(s)
        PROVE  Unconnected \/ WorkerGone(s) \/ \E p \in Protos : serve_loop(s, p)
    <2>1. ASSUME HandleDrain(s) \/ HandleSeal(s) \/ HandleSealEnd(s) \/ HandleResume(s)
          PROVE  Unconnected
      BY Zenon, <2>1 DEF Unconnected, HandleDrain, HandleSeal, HandleSealEnd, HandleResume
    <2>4. ASSUME WorkerEnds(s) PROVE Unconnected
      BY <2>4 DEF Unconnected, WorkerEnds, FlagTypes
    <2>2. ASSUME NEW who \in Sealers, FreezeAndDrain(s, who) PROVE Unconnected
      BY <2>2 DEF Unconnected, FreezeAndDrain
    <2>3. ASSUME NEW who \in Sealers, NEW n \in Names,
                 SealStep(s, who, n) \/ SealFails(s, who, n)
          PROVE  Unconnected
      BY Zenon, <2>3 DEF Unconnected, SealStep, SealFails
    <2> QED
      BY <1>2, <2>1, <2>2, <2>3, <2>4 DEF WorkerStep
  <1>3. ASSUME Drain \/ Sigterm PROVE Unconnected
    BY <1>3 DEF Drain, Sigterm, Unconnected, Own
  <1>4. ASSUME UNCHANGED vars PROVE Unconnected
    BY <1>4 DEF vars, Unconnected
  <1> QED
    BY Zenon, <1>1, <1>2, <1>3, <1>4 DEF Next, Progress

\* The live connections of a shard.
Conns(s, p) ==
  {c \in Clients : client[c].s = s /\ client[c].proto = p /\ client[c].pc \in Live}

\* They are finitely many, and fewer have a smaller count.
LEMMA ConnsFinite ==
  ASSUME NEW s, NEW p
  PROVE  /\ IsFiniteSet(Conns(s, p)) /\ ConnCount(s, p) = Cardinality(Conns(s, p))
         /\ ConnCount(s, p) \in Nat
  <1>1. IsFiniteSet(Conns(s, p))
    BY HandoffAssumption, FS_Subset DEF Conns
  <1> QED
    BY <1>1, FS_CardinalityType DEF Conns, ConnCount

\* No new live connection: the count does not grow.
LEMMA ConnsShrink ==
  ASSUME NEW s, NEW p, Conns(s, p)' \subseteq Conns(s, p)
  PROVE  ConnCount(s, p)' <= ConnCount(s, p)
  <1>1. Cardinality(Conns(s, p)') <= Cardinality(Conns(s, p))
    BY ConnsFinite, FS_Subset
  <1>2. ConnCount(s, p)' = Cardinality(Conns(s, p)')
    BY DEF ConnCount, Conns
  <1> QED
    BY <1>1, <1>2, ConnsFinite

\* A step of the client c that leaves the loops and the inboxes alone.
Local(c) ==
  /\ UNCHANGED <<loop, inbox, worker>>
  /\ \A d \in Clients \ {c} : client'[d] = client[d]
  /\ client'[c].s = client[c].s /\ client'[c].proto = client[c].proto
  /\ client[c].pc \notin {"accepted", "queued"} /\ client'[c].pc \notin {"accepted", "queued"}
  /\ client'[c].pc \in Live => client[c].pc \in Live

\* A client that writes, is answered, leaves or meets the successor takes a local step.
LEMMA LocalSteps ==
  ASSUME ClientTypes, NEW c \in Clients,
         \/ Opened(c) \/ Ack(c) \/ Leave(c) \/ EarlyHttp(c)
         \/ \E n \in Names : Write(c, n)
  PROVE  Local(c)
  <1>1. CASE Opened(c)
    BY <1>1 DEF Opened, BeginWrite, Local, ClientTypes, Live
  <1>2. CASE Ack(c)
    BY <1>2 DEF Ack, Local, ClientTypes, Live
  <1>3. CASE Leave(c)
    BY <1>3 DEF Leave, Local, ClientTypes, Live
  <1>4. CASE EarlyHttp(c)
    BY Zenon, <1>4 DEF EarlyHttp, Local, ClientTypes, Live
  <1>5. ASSUME NEW n \in Names, Write(c, n) PROVE Local(c)
    BY <1>5 DEF Write, BeginWrite, Local, ClientTypes, Live
  <1> QED
    BY ZenonT(30), <1>1, <1>2, <1>3, <1>4, <1>5

\* No step but serve_loop's makes a connection live; a client keeps its shard.
LEMMA LimitKept ==
  ASSUME ClientTypes, Limited,
         \A c \in Clients : /\ client'[c].s = client[c].s /\ client'[c].proto = client[c].proto
                            /\ client'[c].pc \in Live => client[c].pc \in Live
  PROVE  Limited'
  <1> SUFFICES ASSUME NEW s \in Shards, NEW p \in Protos PROVE ConnCount(s, p)' <= MaxConns
    BY DEF Limited
  <1>1. Conns(s, p)' \subseteq Conns(s, p)
    BY DEF Conns
  <1>2. ConnCount(s, p)' \in Nat
    <2>1. IsFiniteSet(Conns(s, p)')
      BY HandoffAssumption, FS_Subset DEF Conns
    <2> QED
      BY <2>1, FS_CardinalityType DEF Conns, ConnCount
  <1> QED
    BY <1>1, <1>2, ConnsShrink, ConnsFinite, HandoffAssumption DEF Limited

\* serve_loop lets one more in below the limit.
LEMMA LimitServed ==
  ASSUME ClientTypes, InboxTypes, Queued, Limited, NEW s \in Shards, NEW p \in Protos, serve_loop(s, p)
  PROVE  Limited'
  <1> DEFINE h == Head(inbox[s][p])
  <1>1. h = inbox[s][p][1] /\ 1 \in DOMAIN inbox[s][p] /\ h \in Clients
    BY DEF serve_loop, InboxTypes
  <1>2. client[h].s = s /\ client[h].proto = p
    BY <1>1 DEF Queued
  <1> HIDE DEF h
  <1> SUFFICES ASSUME NEW t \in Shards, NEW q \in Protos PROVE ConnCount(t, q)' <= MaxConns
    BY DEF Limited
  <1>3. ConnCount(t, q)' = Cardinality(Conns(t, q)') /\ IsFiniteSet(Conns(t, q)')
    BY HandoffAssumption, FS_Subset DEF Conns, ConnCount
  <1>4. ConnCount(t, q)' \in Nat
    BY <1>3, FS_CardinalityType
  <1>5. client' = [client EXCEPT ![h].pc = IF ConnCount(s, p) >= MaxConns THEN "gone" ELSE "open"]
    BY DEF serve_loop, h
  <1>6. CASE ConnCount(s, p) >= MaxConns \/ t # s \/ q # p
    <2>1. Conns(t, q)' \subseteq Conns(t, q)
      BY <1>1, <1>2, <1>5, <1>6 DEF Conns, ClientTypes, Live
    <2> QED
      BY <1>4, <2>1, ConnsShrink, ConnsFinite, HandoffAssumption DEF Limited
  <1>7. CASE ~(ConnCount(s, p) >= MaxConns) /\ t = s /\ q = p
    <2>1. Conns(t, q)' \subseteq Conns(t, q) \cup {h}
      BY <1>1, <1>5, <1>7 DEF Conns, ClientTypes
    <2>2. /\ IsFiniteSet(Conns(t, q) \cup {h})
          /\ Cardinality(Conns(t, q) \cup {h}) <= ConnCount(t, q) + 1
      BY ConnsFinite, FS_AddElement
    <2>3. Cardinality(Conns(t, q)') <= Cardinality(Conns(t, q) \cup {h})
      BY <2>1, <2>2, FS_Subset
    <2>4. Cardinality(Conns(t, q) \cup {h}) \in Nat
      BY Zenon, <2>2, FS_CardinalityType
    <2> QED
      BY <1>3, <1>4, <1>7, <2>2, <2>3, <2>4, ConnsFinite, HandoffAssumption
  <1> QED
    BY <1>6, <1>7

\* What changing the state of one connection leaves alone.
LEMMA PcChange ==
  ASSUME ClientTypes, NEW c \in Clients, NEW pc, client' = [client EXCEPT ![c].pc = pc]
  PROVE  /\ client'[c].pc = pc
         /\ \A d \in Clients : client'[d].proto = client[d].proto /\ client'[d].s = client[d].s
         /\ \A d \in Clients : d # c => client'[d] = client[d]
  BY DEF ClientTypes

\* accept_one ends a connection or gives it to a worker whose inbox has room.
Routed(c, pc, l) ==
  /\ client' = [client EXCEPT ![c].pc = pc] /\ loop' = [loop EXCEPT ![client[c].proto] = l]
  /\ IF pc = "gone" THEN inbox' = inbox
     ELSE /\ Len(inbox[client[c].s][client[c].proto]) < InboxCap
          /\ inbox' = [inbox EXCEPT ![client[c].s][client[c].proto] = Append(@, c)]

\* The three ways of accept_one: the worker is gone, its inbox is full, or it takes the connection.
LEMMA AcceptOneCases ==
  ASSUME NEW c \in Clients, accept_one(c), Len(inbox[client[c].s][client[c].proto]) \in Nat
  PROVE  \E pc \in {"gone", "queued"}, l \in {"look", "ended"} : Routed(c, pc, l)
  <1> DEFINE room == Len(inbox[client[c].s][client[c].proto])
  <1>1. CASE worker[client[c].s] = "gone"
    <2>1. Routed(c, "gone", "ended")
      BY Zenon, <1>1 DEF accept_one, Routed
    <2> QED
      BY Zenon, <2>1
  <1>2. CASE worker[client[c].s] # "gone" /\ room >= InboxCap
    <2>1. Routed(c, "gone", "look")
      BY Zenon, <1>2 DEF accept_one, Routed
    <2> QED
      BY Zenon, <2>1
  <1>3. CASE worker[client[c].s] # "gone" /\ ~(room >= InboxCap)
    <2>1. room < InboxCap
      BY <1>3, HandoffAssumption
    <2>2. "queued" # "gone"
      OBVIOUS
    <2>3. Routed(c, "queued", "look")
      BY Zenon, <1>3, <2>1, <2>2 DEF accept_one, Routed
    <2> QED
      BY Zenon, <2>3
  <1> QED
    BY Zenon, <1>1, <1>2, <1>3

\* A loop that still routes a connection has accepted no other one.
LEMMA AcceptingKept ==
  ASSUME Accepting,
         \A c \in Clients : client'[c].pc = "accepted" =>
           /\ client[c].pc = "accepted" /\ client'[c].proto = client[c].proto
           /\ loop'[client[c].proto] = loop[client[c].proto]
  PROVE  Accepting'
  <1>1. \A c \in Clients : client'[c].pc = "accepted" => loop'[client'[c].proto] = "routing"
    BY Zenon DEF Accepting
  <1>2. ASSUME NEW c \in Clients, NEW d \in Clients, client'[c].pc = "accepted",
               client'[d].pc = "accepted", client'[c].proto = client'[d].proto
        PROVE  c = d
    <2>1. client[c].pc = "accepted" /\ client[d].pc = "accepted"
          /\ client[c].proto = client[d].proto
      BY Zenon, <1>2
    <2> QED
      BY Zenon, <2>1 DEF Accepting
  <1> QED
    BY Zenon, <1>1, <1>2 DEF Accepting

\* The inbox of a shard and a protocol stays in order while none of its connections changes.
LEMMA InboxKept ==
  ASSUME Queued, NEW t \in Shards, NEW q \in Protos, inbox'[t][q] = inbox[t][q],
         \A i \in DOMAIN inbox[t][q] : client'[inbox[t][q][i]] = client[inbox[t][q][i]]
  PROVE  /\ Len(inbox'[t][q]) <= InboxCap
         /\ \A i \in DOMAIN inbox'[t][q] :
              LET d == client'[inbox'[t][q][i]]
              IN d.pc = "queued" /\ d.s = t /\ d.proto = q
         /\ \A i, j \in DOMAIN inbox'[t][q] : inbox'[t][q][i] = inbox'[t][q][j] => i = j
  <1> DEFINE b == inbox[t][q]
  <1>1. /\ Len(b) <= InboxCap
        /\ \A i \in DOMAIN b : client[b[i]].pc = "queued" /\ client[b[i]].s = t
                               /\ client[b[i]].proto = q
        /\ \A i, j \in DOMAIN b : b[i] = b[j] => i = j
    BY Zenon DEF Queued
  <1>2. inbox'[t][q] = b /\ \A i \in DOMAIN b : client'[b[i]] = client[b[i]]
    OBVIOUS
  <1> HIDE DEF b
  <1>3. \A i \in DOMAIN b : client'[b[i]].pc = "queued" /\ client'[b[i]].s = t
                            /\ client'[b[i]].proto = q
    BY ZenonT(30), <1>1, <1>2
  <1> QED
    BY Zenon, <1>1, <1>2, <1>3

\* So do all of them.
LEMMA QueuedKept ==
  ASSUME Queued, inbox' = inbox,
         \A t \in Shards, q \in Protos : \A i \in DOMAIN inbox[t][q] :
           client'[inbox[t][q][i]] = client[inbox[t][q][i]]
  PROVE  Queued'
  <1>1. \A t \in Shards, q \in Protos : inbox'[t][q] = inbox[t][q]
    BY Zenon
  <1> SUFFICES ASSUME NEW t \in Shards, NEW q \in Protos
               PROVE  /\ Len(inbox'[t][q]) <= InboxCap
                      /\ \A i \in DOMAIN inbox'[t][q] :
                           LET d == client'[inbox'[t][q][i]]
                           IN d.pc = "queued" /\ d.s = t /\ d.proto = q
                      /\ \A i, j \in DOMAIN inbox'[t][q] :
                           inbox'[t][q][i] = inbox'[t][q][j] => i = j
    BY DEF Queued
  <1>2. inbox'[t][q] = inbox[t][q]
        /\ \A i \in DOMAIN inbox[t][q] : client'[inbox[t][q][i]] = client[inbox[t][q][i]]
    BY Zenon, <1>1
  <1> QED
    BY <1>2, InboxKept

\* A worker that is gone takes no connection.
LEMMA GoneStayGone ==
  ASSUME GoneIsGone, \A s \in Shards : worker'[s] = "gone" => worker[s] = "gone",
         \A c \in Clients :
           /\ client'[c].s = client[c].s
           /\ client'[c].pc \in Live =>
                client[c].pc \in Live \/ worker[client[c].s] # "gone"
  PROVE  GoneIsGone'
  BY Zenon DEF GoneIsGone

\* The loops and the inboxes at each step.
LEMMA RoutingStep ==
  ASSUME Types, ConnInv, [Next]_vars
  PROVE  (Accepting /\ Queued /\ GoneIsGone)'
  <1> USE DEF Types, ConnInv
  <1>0. CASE Unconnected
    BY <1>0 DEF Unconnected, Accepting, Queued, GoneIsGone
  <1>1. ASSUME NEW p \in Protos, EndLoop(p) PROVE (Accepting /\ Queued /\ GoneIsGone)'
    <2>1. UNCHANGED <<client, inbox, worker>>
      BY Zenon, <1>1 DEF EndLoop
    <2>2. \A q \in Protos : loop[q] = "routing" => loop'[q] = "routing"
      BY <1>1 DEF EndLoop, FlagTypes
    <2>3. \A c \in Clients : client[c].proto \in Protos
      BY DEF ClientTypes
    <2>4. Accepting'
      BY ZenonT(30), <2>1, <2>2, <2>3 DEF Accepting
    <2>5. Queued'
      BY <2>1 DEF Queued
    <2>6. GoneIsGone'
      BY Zenon, <2>1 DEF GoneIsGone
    <2> QED
      BY Zenon, <2>4, <2>5, <2>6
  <1>2. ASSUME NEW c \in Clients, Accept(c) PROVE (Accepting /\ Queued /\ GoneIsGone)'
    <2> DEFINE p == client[c].proto
    <2>1. /\ client[c].pc = "waiting" /\ loop[p] = "look" /\ UNCHANGED <<inbox, worker>>
          /\ client' = [client EXCEPT ![c].pc = "accepted"]
          /\ loop' = [loop EXCEPT ![p] = "routing"]
      BY Zenon, <1>2 DEF Accept
    <2>2. /\ client'[c].pc = "accepted"
          /\ \A d \in Clients : client'[d].proto = client[d].proto /\ client'[d].s = client[d].s
          /\ \A d \in Clients : d # c => client'[d] = client[d]
      BY Zenon, <2>1, PcChange
    <2>3. \A d \in Clients : client[d].proto \in Protos
      BY Zenon DEF ClientTypes
    <2>4. loop'[p] = "routing" /\ \A q \in Protos : q # p => loop'[q] = loop[q]
      BY <2>1, <2>3 DEF FlagTypes
    <2> HIDE DEF p
    <2>5. "look" # "routing" /\ "waiting" # "queued" /\ "accepted" \notin Live
      BY DEF Live
    <2>6. \A d \in Clients : client[d].pc = "accepted" => client[d].proto # p
      BY Zenon, <2>1, <2>5 DEF Accepting
    <2>7. Accepting'
      <3>1. \A d \in Clients : client'[d].pc = "accepted" =>
              \/ d = c
              \/ client[d].pc = "accepted" /\ client'[d] = client[d]
        BY Zenon, <2>2
      <3>2. \A d \in Clients : client'[d].pc = "accepted" => loop'[client'[d].proto] = "routing"
        <4>1. client'[c].proto = p
          BY Zenon, <2>2 DEF p
        <4>2. ASSUME NEW d \in Clients, client[d].pc = "accepted", client'[d] = client[d]
              PROVE  loop'[client'[d].proto] = "routing"
          <5>1. loop[client[d].proto] = "routing" /\ client[d].proto # p
            BY Zenon, <2>6, <4>2 DEF Accepting
          <5>2. loop'[client[d].proto] = loop[client[d].proto]
            BY Zenon, <2>3, <2>4, <5>1
          <5> QED
            BY Zenon, <4>2, <5>1, <5>2
        <4> QED
          BY Zenon, <2>4, <3>1, <4>1, <4>2
      <3>3. ASSUME NEW d \in Clients, NEW e \in Clients, client'[d].pc = "accepted",
                   client'[e].pc = "accepted", client'[d].proto = client'[e].proto
            PROVE  d = e
        <4>1. client[d].proto = client[e].proto
          BY Zenon, <2>2, <3>3
        <4>2. CASE d = c \/ e = c
          BY Zenon, <2>6, <3>1, <3>3, <4>1, <4>2 DEF p
        <4>3. CASE d # c /\ e # c
          BY Zenon, <3>1, <3>3, <4>1, <4>3 DEF Accepting
        <4> QED
          BY Zenon, <4>2, <4>3
      <3> QED
        BY Zenon, <3>2, <3>3 DEF Accepting
    <2>8. GoneIsGone'
      BY Zenon, <2>1, <2>2, <2>5, GoneStayGone
    <2>9. \A t \in Shards, q \in Protos : \A i \in DOMAIN inbox[t][q] :
            inbox[t][q][i] # c /\ inbox[t][q][i] \in Clients
      BY <2>1 DEF Queued, InboxTypes
    <2>10. \A t \in Shards, q \in Protos : \A i \in DOMAIN inbox[t][q] :
             client'[inbox[t][q][i]] = client[inbox[t][q][i]]
      BY Zenon, <2>2, <2>9
    <2>11. Queued'
      BY Zenon, <2>1, <2>10, QueuedKept
    <2> QED
      BY Zenon, <2>7, <2>8, <2>11
  <1>3. ASSUME NEW c \in Clients, accept_one(c) PROVE (Accepting /\ Queued /\ GoneIsGone)'
    <2> DEFINE s == client[c].s
               p == client[c].proto
    <2>1. s \in Shards /\ p \in Protos /\ client[c].pc = "accepted"
      BY ZenonT(30), <1>3 DEF ClientTypes, accept_one
    <2>0. Len(inbox[s][p]) \in Nat
      BY <2>1 DEF InboxTypes
    <2>2. PICK pc \in {"gone", "queued"}, l \in {"look", "ended"} :
            /\ client' = [client EXCEPT ![c].pc = pc] /\ loop' = [loop EXCEPT ![p] = l]
            /\ IF pc = "gone" THEN inbox' = inbox
               ELSE /\ Len(inbox[s][p]) < InboxCap
                    /\ inbox' = [inbox EXCEPT ![s][p] = Append(@, c)]
      BY Zenon, <1>3, <2>0, AcceptOneCases DEF Routed
    <2>6. /\ client'[c].pc = pc
          /\ \A d \in Clients : client'[d].proto = client[d].proto /\ client'[d].s = client[d].s
          /\ \A d \in Clients : d # c => client'[d] = client[d]
      BY Zenon, <2>2, PcChange
    <2>7. pc # "accepted" /\ pc \notin Live /\ "accepted" # "queued"
      BY DEF Live
    <2>8. \A q \in Protos : q # p => loop'[q] = loop[q]
      BY <2>2 DEF FlagTypes
    <2>9. \A d \in Clients : client[d].proto \in Protos
      BY Zenon DEF ClientTypes
    <2>3. Accepting'
      <3>1. \A d \in Clients : client'[d].pc = "accepted" => client[d].pc = "accepted" /\ d # c
        BY Zenon, <2>6, <2>7
      <3>2. \A d \in Clients : client[d].pc = "accepted" /\ d # c => client[d].proto # p
        BY Zenon, <2>1 DEF Accepting
      <3> QED
        BY Zenon, <2>6, <2>8, <2>9, <3>1, <3>2, AcceptingKept
    <2>4. GoneIsGone'
      <3>1. worker' = worker
        BY Zenon, <1>3 DEF accept_one
      <3> QED
        BY Zenon, <2>6, <2>7, <3>1, GoneStayGone
    <2>5. Queued'
      <3>1. CASE pc = "gone"
        <4>1. inbox' = inbox
          BY Zenon, <2>2, <3>1
        <4>2. \A t \in Shards, q \in Protos : \A i \in DOMAIN inbox[t][q] :
                inbox[t][q][i] # c /\ inbox[t][q][i] \in Clients
          BY <2>1 DEF Queued, InboxTypes
        <4>3. \A t \in Shards, q \in Protos : \A i \in DOMAIN inbox[t][q] :
                client'[inbox[t][q][i]] = client[inbox[t][q][i]]
          BY Zenon, <2>6, <4>2
        <4> QED
          BY Zenon, <4>1, <4>3, QueuedKept
      <3>2. CASE pc = "queued"
        <4> SUFFICES ASSUME NEW t \in Shards, NEW q \in Protos
                     PROVE  /\ Len(inbox'[t][q]) <= InboxCap
                            /\ \A i \in DOMAIN inbox'[t][q] :
                                 LET d == client'[inbox'[t][q][i]]
                                 IN d.pc = "queued" /\ d.s = t /\ d.proto = q
                            /\ \A i, j \in DOMAIN inbox'[t][q] :
                                 inbox'[t][q][i] = inbox'[t][q][j] => i = j
          BY DEF Queued
        <4>1. inbox[t][q] \in Seq(Clients)
          BY Zenon DEF InboxTypes
        <4>2. \A i \in DOMAIN inbox[t][q] : inbox[t][q][i] # c /\ inbox[t][q][i] \in Clients
          BY <2>1, <4>1 DEF Queued
        <4>3. CASE t = s /\ q = p
          <5>5. inbox' = [inbox EXCEPT ![t][q] = Append(inbox[t][q], c)]
            BY Zenon, <2>2, <3>2, <4>3
          <5>1. inbox'[t][q] = Append(inbox[t][q], c)
            BY Zenon, <5>5 DEF InboxTypes
          <5>2. Len(inbox[t][q]) < InboxCap
            BY Zenon, <2>2, <3>2, <4>3
          <5>3. client'[c].pc = "queued" /\ client'[c].s = t /\ client'[c].proto = q
            BY <2>1, <2>2, <3>2, <4>3 DEF ClientTypes
          <5>4. \A d \in Clients : d # c => client'[d] = client[d]
            BY Zenon, <2>2 DEF ClientTypes
          <5> HIDE DEF s, p
          <5> DEFINE q1 == inbox[t][q]
          <5>6. /\ Len(q1) <= InboxCap
                /\ \A i \in DOMAIN q1 :
                     client[q1[i]].pc = "queued" /\ client[q1[i]].s = t /\ client[q1[i]].proto = q
                /\ \A i, j \in DOMAIN q1 : q1[i] = q1[j] => i = j
            BY Zenon DEF Queued
          <5>7. /\ q1 \in Seq(Clients) /\ inbox'[t][q] = Append(q1, c) /\ Len(q1) < InboxCap
                /\ \A i \in DOMAIN q1 : q1[i] # c /\ q1[i] \in Clients
            BY Zenon, <4>1, <4>2, <5>1, <5>2
          <5> HIDE DEF q1
          <5>8. /\ DOMAIN Append(q1, c) = DOMAIN q1 \cup {Len(q1) + 1}
                /\ Len(Append(q1, c)) = Len(q1) + 1
                /\ \A i \in DOMAIN q1 : Append(q1, c)[i] = q1[i]
                /\ Append(q1, c)[Len(q1) + 1] = c
            BY <5>7
          <5>9. Len(inbox'[t][q]) <= InboxCap
            BY <5>7, <5>8, HandoffAssumption
          <5>10. \A i \in DOMAIN inbox'[t][q] :
                   LET d == client'[inbox'[t][q][i]]
                   IN d.pc = "queued" /\ d.s = t /\ d.proto = q
            <6> SUFFICES ASSUME NEW i \in DOMAIN inbox'[t][q]
                         PROVE  LET d == client'[inbox'[t][q][i]]
                                IN d.pc = "queued" /\ d.s = t /\ d.proto = q
              OBVIOUS
            <6>1. CASE i \in DOMAIN q1
              <7>1. inbox'[t][q][i] = q1[i] /\ client'[q1[i]] = client[q1[i]]
                BY Zenon, <5>4, <5>7, <5>8, <6>1
              <7> QED
                BY Zenon, <5>6, <6>1, <7>1
            <6>2. CASE i = Len(q1) + 1
              BY Zenon, <5>3, <5>7, <5>8, <6>2
            <6>3. i \in DOMAIN q1 \cup {Len(q1) + 1}
              BY Zenon, <5>7, <5>8
            <6> QED
              BY ZenonT(30), <6>1, <6>2, <6>3
          <5>11. \A i, j \in DOMAIN inbox'[t][q] : inbox'[t][q][i] = inbox'[t][q][j] => i = j
            <6> SUFFICES ASSUME NEW i \in DOMAIN Append(q1, c), NEW j \in DOMAIN Append(q1, c),
                                Append(q1, c)[i] = Append(q1, c)[j]
                         PROVE  i = j
              BY Zenon, <5>7
            <6>1. (i \in DOMAIN q1 \/ i = Len(q1) + 1) /\ (j \in DOMAIN q1 \/ j = Len(q1) + 1)
              BY Zenon, <5>8
            <6>2. CASE i \in DOMAIN q1 /\ j \in DOMAIN q1
              BY Zenon, <5>6, <5>8, <6>2
            <6> QED
              BY Zenon, <5>7, <5>8, <6>1, <6>2
          <5> QED
            BY Zenon, <5>9, <5>10, <5>11
        <4>4. CASE ~(t = s /\ q = p)
          <5>1. inbox'[t][q] = inbox[t][q]
            BY <2>1, <2>2, <3>2, <4>4 DEF InboxTypes
          <5>2. \A d \in Clients : d # c => client'[d] = client[d]
            BY Zenon, <2>2 DEF ClientTypes
          <5>3. \A i \in DOMAIN inbox[t][q] : client'[inbox[t][q][i]] = client[inbox[t][q][i]]
            BY ZenonT(30), <4>2, <5>2
          <5> QED
            BY ZenonT(30), <5>1, <5>3, InboxKept
        <4> QED
          BY ZenonT(30), <4>3, <4>4
      <3> QED
        BY Zenon, <2>2, <3>1, <3>2
    <2> QED
      BY Zenon, <2>3, <2>4, <2>5
  <1>4. ASSUME NEW c \in Clients, Local(c) PROVE (Accepting /\ Queued /\ GoneIsGone)'
    <2>1. Accepting'
      BY <1>4 DEF Local, Accepting
    <2>2. GoneIsGone'
      BY Zenon, <1>4 DEF Local, GoneIsGone
    <2>3. \A t \in Shards, q \in Protos : \A i \in DOMAIN inbox[t][q] :
            inbox[t][q][i] # c /\ inbox[t][q][i] \in Clients
      BY <1>4 DEF Local, Queued, InboxTypes
    <2>4. Queued'
      BY <1>4, <2>3 DEF Local, Queued
    <2> QED
      BY Zenon, <2>1, <2>2, <2>4
  <1>5. ASSUME NEW s \in Shards, NEW p \in Protos, serve_loop(s, p)
        PROVE  (Accepting /\ Queued /\ GoneIsGone)'
    <2> DEFINE h == Head(inbox[s][p])
    <2>1. h = inbox[s][p][1] /\ 1 \in DOMAIN inbox[s][p] /\ h \in Clients
      BY <1>5 DEF serve_loop, InboxTypes
    <2>2. client[h].s = s /\ client[h].proto = p /\ client[h].pc = "queued"
      BY <2>1 DEF Queued
    <2>3. PICK pc \in {"gone", "open"} : client' = [client EXCEPT ![h].pc = pc]
      BY Zenon, <1>5 DEF serve_loop
    <2>7. inbox' = [inbox EXCEPT ![s][p] = Tail(@)]
      BY Zenon, <1>5 DEF serve_loop
    <2> HIDE DEF h
    <2>8. UNCHANGED <<loop, worker>> /\ worker[s] = "serving"
      BY Zenon, <1>5 DEF serve_loop
    <2>9. /\ client'[h].pc = pc
          /\ \A d \in Clients : client'[d].proto = client[d].proto /\ client'[d].s = client[d].s
          /\ \A d \in Clients : d # h => client'[d] = client[d]
      BY Zenon, <2>1, <2>3, PcChange
    <2>10. client'[h].pc # "accepted"
      BY Zenon, <2>3, <2>9
    <2>4. Accepting'
      BY Zenon, <2>8, <2>9, <2>10, AcceptingKept
    <2>5. GoneIsGone'
      <3>1. "serving" # "gone"
        OBVIOUS
      <3> QED
        BY Zenon, <2>1, <2>2, <2>8, <2>9, <3>1, GoneStayGone
    <2>6. Queued'
      <3> SUFFICES ASSUME NEW t \in Shards, NEW q \in Protos
                   PROVE  /\ Len(inbox'[t][q]) <= InboxCap
                          /\ \A i \in DOMAIN inbox'[t][q] :
                               LET d == client'[inbox'[t][q][i]]
                               IN d.pc = "queued" /\ d.s = t /\ d.proto = q
                          /\ \A i, j \in DOMAIN inbox'[t][q] :
                               inbox'[t][q][i] = inbox'[t][q][j] => i = j
        BY DEF Queued
      <3>1. inbox[t][q] \in Seq(Clients)
        BY Zenon DEF InboxTypes
      <3>2. CASE t = s /\ q = p
        <4>1. inbox'[t][q] = Tail(inbox[t][q])
          BY <2>7, <3>2 DEF InboxTypes
        <4>2. \A i \in DOMAIN inbox[t][q] : i # 1 => inbox[t][q][i] # h /\ inbox[t][q][i] \in Clients
          BY <2>1, <3>1, <3>2 DEF Queued
        <4>3. /\ Len(inbox'[t][q]) = Len(inbox[t][q]) - 1
              /\ \A i \in DOMAIN inbox'[t][q] :
                   inbox'[t][q][i] = inbox[t][q][i + 1] /\ i + 1 \in DOMAIN inbox[t][q]
          BY <2>1, <3>1, <3>2, <4>1
        <4>6. \A i \in DOMAIN inbox'[t][q] : i \in Nat /\ i + 1 # 1
          <5>1. \A x \in Seq(Clients) : x # << >> =>
                  \A i \in DOMAIN Tail(x) : i \in Nat /\ i + 1 # 1
            OBVIOUS
          <5>2. inbox[t][q] # << >>
            BY Zenon, <1>5, <3>2 DEF serve_loop
          <5> QED
            BY Zenon, <3>1, <4>1, <5>1, <5>2
        <4>5. \A i \in DOMAIN inbox'[t][q] : client'[inbox'[t][q][i]] = client[inbox[t][q][i + 1]]
          BY Zenon, <2>9, <4>2, <4>3, <4>6
        <4>7. Len(inbox'[t][q]) <= InboxCap
          <5>1. \A a, b \in Nat : a <= b => a - 1 <= b
            OBVIOUS
          <5>2. Len(inbox[t][q]) \in Nat /\ InboxCap \in Nat /\ Len(inbox[t][q]) <= InboxCap
            BY <3>1, HandoffAssumption DEF Queued
          <5> QED
            BY Zenon, <4>3, <5>1, <5>2
        <4>8. \A i \in DOMAIN inbox'[t][q] :
                LET d == client'[inbox'[t][q][i]]
                IN d.pc = "queued" /\ d.s = t /\ d.proto = q
          <5>1. \A i \in DOMAIN inbox[t][q] :
                  /\ client[inbox[t][q][i]].pc = "queued" /\ client[inbox[t][q][i]].s = t
                  /\ client[inbox[t][q][i]].proto = q
            BY Zenon DEF Queued
          <5> QED
            BY ZenonT(30), <4>3, <4>5, <5>1
        <4>9. \A i, j \in DOMAIN inbox'[t][q] : inbox'[t][q][i] = inbox'[t][q][j] => i = j
          <5>1. \A i, j \in Nat : i + 1 = j + 1 => i = j
            OBVIOUS
          <5>2. \A i, j \in DOMAIN inbox[t][q] : inbox[t][q][i] = inbox[t][q][j] => i = j
            BY Zenon DEF Queued
          <5>3. ASSUME NEW i \in DOMAIN inbox'[t][q], NEW j \in DOMAIN inbox'[t][q],
                       inbox'[t][q][i] = inbox'[t][q][j]
                PROVE  i = j
            <6>1. i + 1 = j + 1
              BY ZenonT(30), <4>3, <5>2, <5>3
            <6> QED
              BY Zenon, <4>6, <5>1, <6>1
          <5> QED
            BY Zenon, <5>3
        <4> QED
          BY Zenon, <4>7, <4>8, <4>9
      <3>3. CASE ~(t = s /\ q = p)
        <4>1. inbox'[t][q] = inbox[t][q]
          BY Zenon, <2>7, <3>3 DEF InboxTypes
        <4>2. \A i \in DOMAIN inbox[t][q] : inbox[t][q][i] # h /\ inbox[t][q][i] \in Clients
          BY <2>2, <3>1, <3>3 DEF Queued
        <4>3. \A i \in DOMAIN inbox[t][q] : client'[inbox[t][q][i]] = client[inbox[t][q][i]]
          BY Zenon, <2>9, <4>2
        <4> QED
          BY Zenon, <4>1, <4>3, InboxKept
      <3> QED
        BY ZenonT(30), <3>2, <3>3
    <2> QED
      BY <2>4, <2>5, <2>6
  <1>6. ASSUME NEW s \in Shards, WorkerGone(s) PROVE (Accepting /\ Queued /\ GoneIsGone)'
    <2>1. Accepting'
      BY <1>6 DEF WorkerGone, Accepting, ClientTypes, Live
    <2>2. GoneIsGone'
      BY <1>6 DEF WorkerGone, GoneIsGone, ClientTypes, FlagTypes, Live
    <2>3. Queued'
      <3> SUFFICES ASSUME NEW t \in Shards, NEW q \in Protos
                   PROVE  /\ Len(inbox'[t][q]) <= InboxCap
                          /\ \A i \in DOMAIN inbox'[t][q] :
                               LET d == client'[inbox'[t][q][i]]
                               IN d.pc = "queued" /\ d.s = t /\ d.proto = q
                          /\ \A i, j \in DOMAIN inbox'[t][q] :
                               inbox'[t][q][i] = inbox'[t][q][j] => i = j
        BY DEF Queued
      <3>1. CASE t = s
        <4>1. inbox'[t][q] = << >>
          BY <1>6, <3>1 DEF WorkerGone, InboxTypes
        <4>2. Len(<< >>) = 0 /\ DOMAIN << >> = {} /\ 0 <= InboxCap
          BY HandoffAssumption
        <4> QED
          BY Zenon, <4>1, <4>2
      <3>2. CASE t # s
        <4>1. inbox'[t][q] = inbox[t][q] /\ inbox[t][q] \in Seq(Clients)
          BY <1>6, <3>2 DEF WorkerGone, InboxTypes
        <4>2. \A i \in DOMAIN inbox[t][q] : client'[inbox[t][q][i]] = client[inbox[t][q][i]]
          BY <1>6, <3>2, <4>1 DEF WorkerGone, Queued
        <4>3. /\ Len(inbox[t][q]) <= InboxCap
              /\ \A i \in DOMAIN inbox[t][q] :
                   LET d == client[inbox[t][q][i]]
                   IN d.pc = "queued" /\ d.s = t /\ d.proto = q
              /\ \A i, j \in DOMAIN inbox[t][q] : inbox[t][q][i] = inbox[t][q][j] => i = j
          BY Zenon DEF Queued
        <4>4. \A i \in DOMAIN inbox[t][q] :
                 LET d == client'[inbox[t][q][i]]
                 IN d.pc = "queued" /\ d.s = t /\ d.proto = q
          BY ZenonT(30), <4>2, <4>3
        <4> QED
          BY Zenon, <4>1, <4>3, <4>4
      <3> QED
        BY ZenonT(30), <3>1, <3>2
    <2> QED
      BY <2>1, <2>2, <2>3
  <1>7. CASE Watchdog
    <2>1. \A c \in Clients : client'[c].pc = "gone"
      BY <1>7 DEF Watchdog, ClientTypes
    <2>2. \A s \in Shards, p \in Protos : inbox'[s][p] = << >>
      BY <1>7 DEF Watchdog
    <2> QED
      BY <2>1, <2>2, HandoffAssumption DEF Accepting, Queued, GoneIsGone, Live
  <1> QED
    BY <1>0, <1>1, <1>2, <1>3, <1>4, <1>5, <1>6, <1>7, ConnSteps, LocalSteps

\* The connections at each step.
LEMMA ConnStep ==
  ASSUME Types, ConnInv, [Next]_vars
  PROVE  ConnInv'
  <1>1. (Accepting /\ Queued /\ GoneIsGone)'
    BY RoutingStep
  <1> DEFINE Tame == \A c \in Clients :
               /\ client'[c].s = client[c].s /\ client'[c].proto = client[c].proto
               /\ client'[c].pc \in Live => client[c].pc \in Live
  <1>2. ASSUME Tame PROVE Limited'
    BY <1>2, LimitKept DEF Types, ConnInv
  <1>3. ClientTypes /\ InboxTypes /\ Queued /\ Limited /\ FlagTypes
    BY DEF Types, ConnInv
  <1>4. ASSUME Unconnected \/ \E p \in Protos : EndLoop(p) PROVE Limited'
    <2>1. client' = client
      BY <1>4 DEF Unconnected, EndLoop
    <2> QED
      BY <1>2, <2>1
  <1>5. ASSUME NEW c \in Clients, Accept(c) \/ accept_one(c) PROVE Limited'
    <2>1. PICK pc \in {"accepted", "gone", "queued"} : client' = [client EXCEPT ![c].pc = pc]
      BY Zenon, <1>5 DEF Accept, accept_one
    <2>2. Tame
      BY <1>3, <2>1 DEF ClientTypes, Live
    <2> QED
      BY <1>2, <2>2
  <1>6. ASSUME NEW c \in Clients, Local(c) PROVE Limited'
    <2>1. Tame
      BY <1>6 DEF Local
    <2> QED
      BY Zenon, <1>2, <2>1
  <1>7. ASSUME NEW s \in Shards, NEW p \in Protos, serve_loop(s, p) PROVE Limited'
    BY <1>3, <1>7, LimitServed
  <1>8. ASSUME NEW s \in Shards, WorkerGone(s) PROVE Limited'
    <2>1. Tame
      BY <1>3, <1>8 DEF WorkerGone, ClientTypes, Live
    <2> QED
      BY <1>2, <2>1
  <1>9. ASSUME Watchdog PROVE Limited'
    <2>1. Tame
      BY Zenon, <1>3, <1>9 DEF Watchdog, ClientTypes, Live
    <2> QED
      BY <1>2, <2>1
  <1>10. Limited'
    BY <1>3, <1>4, <1>5, <1>6, <1>7, <1>8, <1>9, ConnSteps, LocalSteps
  <1> QED
    BY <1>1, <1>10 DEF ConnInv

-----------------------------------------------------------------------------
(* The namespaces.                                                         *)

\* The steps that open, freeze or unfreeze a namespace.
LEMMA NsSteps ==
  ASSUME [Next]_vars
  PROVE  \/ UNCHANGED ns
         \/ \E c \in Clients : Opened(c)
         \/ \E s \in Shards : HandleSeal(s) \/ HandleResume(s) \/ WorkerEnds(s)
  <1>1. ASSUME Control \/ Drain \/ Sigterm \/ Watchdog \/ UNCHANGED vars PROVE UNCHANGED ns
    BY <1>1 DEF Control, Drain, Sigterm, Watchdog, vars, Own, DrainReplies, DrainConns, Seal,
       SealReplies, Resume, ResumeReplies, SupervisorAborts, SuccessorOpens, SuccessorDies, Commit
  <1>2. ASSUME NEW s \in Shards, WorkerStep(s)
        PROVE  UNCHANGED ns \/ HandleSeal(s) \/ HandleResume(s) \/ WorkerEnds(s)
    BY ZenonT(30), <1>2 DEF WorkerStep, HandleDrain, HandleSealEnd, WorkerGone, FreezeAndDrain, SealStep,
       SealFails, serve_loop
  <1>3. ASSUME NEW c \in Clients,
               \/ Accept(c) \/ accept_one(c) \/ Ack(c) \/ Leave(c) \/ EarlyHttp(c)
               \/ \E n \in Names : Write(c, n)
        PROVE  UNCHANGED ns
    BY Zenon, <1>3 DEF Accept, accept_one, Ack, Leave, EarlyHttp, Write
  <1>4. ASSUME NEW p \in Protos, EndLoop(p) PROVE UNCHANGED ns
    BY <1>4 DEF EndLoop
  <1> QED
    BY <1>1, <1>2, <1>3, <1>4 DEF Next, Progress

\* What they do to it.
LEMMA OpenedNs ==
  ASSUME Types, NEW c \in Clients, Opened(c), NEW s \in Shards, NEW n \in Names
  PROVE  /\ ns'[s][n].frozen = ns[s][n].frozen
         /\ ns[s][n].open => ns'[s][n].open
  <1>1. ns[s][n] \in [open : BOOLEAN, frozen : BOOLEAN]
    BY Zenon DEF Types, NsTypes
  <1>2. ns'[s][n] \in {ns[s][n], [ns[s][n] EXCEPT !.open = TRUE]}
    BY Zenon DEF Opened, Types, NsTypes
  <1> QED
    BY <1>1, <1>2

\* seal_all_for_shutdown freezes what is open in its shard.
LEMMA SealBegunNs ==
  ASSUME NsTypes, NEW s \in Shards, NEW who \in Sealers, SealBegun(s, who),
         NEW t \in Shards, NEW n \in Names
  PROVE  /\ ns'[t][n].open = ns[t][n].open
         /\ ns'[t][n].frozen = IF t = s /\ ns[t][n].open THEN TRUE ELSE ns[t][n].frozen
  <1>1. ns[t][n] \in [open : BOOLEAN, frozen : BOOLEAN]
    BY DEF NsTypes
  <1>2. ns'[t][n] = IF t = s /\ ns[t][n].open THEN [ns[t][n] EXCEPT !.frozen = TRUE] ELSE ns[t][n]
    BY Zenon DEF SealBegun, OpenNames, NsTypes
  <1> QED
    BY <1>1, <1>2

\* resume_after_abort adds a file to every namespace but those that failed, and unfreezes
\* its shard when none did.
ResumedBut(s, failed) ==
  /\ replies' = [replies EXCEPT ![s] = Append(@, IF failed = {} THEN "ok" ELSE "error")]
  /\ \A t \in Shards, n \in Names :
       /\ files'[t][n] = IF t = s /\ n \in OpenNames(s) \ failed
                         THEN Append(files[t][n], << >>) ELSE files[t][n]
       /\ ns'[t][n].open = ns[t][n].open
       /\ ns'[t][n].frozen = IF t = s /\ failed = {} /\ n \in OpenNames(s)
                             THEN FALSE ELSE ns[t][n].frozen

\* That is what HandoffOp::Resume does.
LEMMA Resumed ==
  ASSUME NsTypes, FilesTypes, NEW s \in Shards, HandleResume(s)
  PROVE  \E failed \in SUBSET OpenNames(s) : ResumedBut(s, failed)
  <1>1. PICK failed \in SUBSET OpenNames(s) :
          /\ replies' = [replies EXCEPT ![s] = Append(@, IF failed = {} THEN "ok" ELSE "error")]
          /\ files' = [files EXCEPT ![s] = [n \in Names |->
                         IF n \in OpenNames(s) \ failed THEN Append(@[n], << >>) ELSE @[n]]]
          /\ ns' = IF failed # {} THEN ns
                   ELSE [ns EXCEPT ![s] = [n \in Names |->
                           IF n \in OpenNames(s) THEN [@[n] EXCEPT !.frozen = FALSE] ELSE @[n]]]
    BY Zenon DEF HandleResume, Replied
  <1> SUFFICES ASSUME NEW t \in Shards, NEW n \in Names
               PROVE  /\ files'[t][n] = IF t = s /\ n \in OpenNames(s) \ failed
                                        THEN Append(files[t][n], << >>) ELSE files[t][n]
                      /\ ns'[t][n].open = ns[t][n].open
                      /\ ns'[t][n].frozen = IF t = s /\ failed = {} /\ n \in OpenNames(s)
                                            THEN FALSE ELSE ns[t][n].frozen
    BY Zenon, <1>1 DEF ResumedBut
  <1> DEFINE new == [m \in Names |->
               IF m \in OpenNames(s) \ failed THEN Append(files[s][m], << >>) ELSE files[s][m]]
             awake == [m \in Names |->
               IF m \in OpenNames(s) THEN [ns[s][m] EXCEPT !.frozen = FALSE] ELSE ns[s][m]]
  <1>2. files' = [files EXCEPT ![s] = new] /\ ns' = IF failed # {} THEN ns ELSE [ns EXCEPT ![s] = awake]
    BY <1>1
  <1>3. /\ new[n] = IF n \in OpenNames(s) \ failed THEN Append(files[s][n], << >>) ELSE files[s][n]
        /\ awake[n] = IF n \in OpenNames(s) THEN [ns[s][n] EXCEPT !.frozen = FALSE] ELSE ns[s][n]
    BY Zenon
  <1> HIDE DEF new, awake
  <1>4. files'[t][n] = IF t = s THEN new[n] ELSE files[t][n]
    BY <1>2 DEF FilesTypes
  <1>5. ns'[t][n] = IF t = s /\ failed = {} THEN awake[n] ELSE ns[t][n]
    BY <1>2 DEF NsTypes
  <1>6. ns[t][n] \in [open : BOOLEAN, frozen : BOOLEAN]
    BY DEF NsTypes
  <1>7. files'[t][n] = IF t = s /\ n \in OpenNames(s) \ failed
                       THEN Append(files[t][n], << >>) ELSE files[t][n]
    BY Zenon, <1>3, <1>4
  <1>8. ns'[t][n] = IF t = s /\ failed = {} /\ n \in OpenNames(s)
                    THEN [ns[t][n] EXCEPT !.frozen = FALSE] ELSE ns[t][n]
    BY Zenon, <1>3, <1>5
  <1> QED
    BY <1>6, <1>7, <1>8

\* So it opens and freezes none.
LEMMA ResumedNs ==
  ASSUME NsTypes, FilesTypes, NEW s \in Shards, HandleResume(s), NEW t \in Shards, NEW n \in Names
  PROVE  /\ ns'[t][n].open = ns[t][n].open
         /\ ns'[t][n].frozen => ns[t][n].frozen
         /\ t # s => ns'[t][n].frozen = ns[t][n].frozen
  <1>1. PICK failed \in SUBSET OpenNames(s) : ResumedBut(s, failed)
    BY Zenon, Resumed
  <1> QED
    BY Zenon, <1>1 DEF ResumedBut

\* Only an open namespace is frozen, at each step.
LEMMA FrozenStep ==
  ASSUME Types, FrozenAreOpen, [Next]_vars
  PROVE  FrozenAreOpen'
  <1> USE DEF Types, FrozenAreOpen
  <1>1. ASSUME NEW c \in Clients, Opened(c) PROVE FrozenAreOpen'
    BY <1>1, OpenedNs
  <1>2. ASSUME NEW s \in Shards, HandleSeal(s) \/ WorkerEnds(s) PROVE FrozenAreOpen'
    <2>1. PICK who \in Sealers : SealBegun(s, who)
      BY Zenon, <1>2 DEF HandleSeal, WorkerEnds, Sealers
    <2> QED
      BY Zenon, <2>1, SealBegunNs
  <1>3. ASSUME NEW s \in Shards, HandleResume(s) PROVE FrozenAreOpen'
    BY <1>3, ResumedNs
  <1> QED
    BY <1>1, <1>2, <1>3, NsSteps

\* The state has its types and limits, always.
LEMMA BaseIsInvariant == Spec => []BaseInv
  <1>1. Init => BaseInv
    <2> SUFFICES ASSUME Init PROVE BaseInv
      OBVIOUS
    <2>1. Types
      BY InitTypes
    <2>2. \A c \in Clients : client[c].pc \in {"waiting", "gone"}
      BY DEF Init
    <2>3. Accepting /\ GoneIsGone
      BY Zenon, <2>2 DEF Init, Accepting, GoneIsGone, Live
    <2>4. Queued
      <3>1. \A s \in Shards, p \in Protos : inbox[s][p] = << >>
        BY Zenon DEF Init
      <3> QED
        BY <3>1, HandoffAssumption DEF Queued
    <2>5. FrozenAreOpen
      BY Zenon DEF Init, FrozenAreOpen
    <2>6. Limited
      <3> SUFFICES ASSUME NEW s \in Shards, NEW p \in Protos PROVE ConnCount(s, p) <= MaxConns
        BY DEF Limited
      <3>1. Conns(s, p) = {}
        BY <2>2 DEF Conns, Live
      <3> QED
        BY <3>1, ConnsFinite, FS_EmptySet, HandoffAssumption
    <2> QED
      BY <2>1, <2>3, <2>4, <2>5, <2>6 DEF BaseInv, ConnInv
  <1>2. BaseInv /\ [Next]_vars => BaseInv'
    BY TypesStep, ConnStep, FrozenStep DEF BaseInv
  <1> QED
    BY <1>1, <1>2, PTL DEF Spec

\* The kinds of values; an inbox and a shard hold no more connections than their limits
\* (accept_one's try_send, serve_loop's check), and only an open namespace is frozen.
THEOREM StateIsTyped == Spec => []TypeOK
  <1>1. BaseInv => TypeOK
    <2> SUFFICES ASSUME BaseInv PROVE TypeOK
      OBVIOUS
    <2>1. \A c \in Clients : client[c].pc \in {"waiting", "accepted", "queued", "gone"} \cup Live
      BY DEF BaseInv, Types, ClientTypes, ClientStates
    <2>2. \A s \in Shards : worker[s] \in {"serving", "ending", "gone"}
      BY Zenon DEF BaseInv, Types, FlagTypes
    <2>3. \A s \in Shards, p \in Protos :
            Len(inbox[s][p]) <= InboxCap /\ ConnCount(s, p) <= MaxConns
      BY Zenon DEF BaseInv, ConnInv, Queued, Limited
    <2>4. \A s \in Shards, n \in Names : ns[s][n].frozen => ns[s][n].open
      BY Zenon DEF BaseInv, FrozenAreOpen
    <2>5. ctl.stage \in Stages /\ lock \in {"O", "free", "N"}
      BY DEF BaseInv, Types, OpsTypes, FlagTypes
    <2> QED
      BY Zenon, <2>1, <2>2, <2>3, <2>4, <2>5 DEF TypeOK, Stages
  <1> QED
    BY <1>1, BaseIsInvariant, PTL

-----------------------------------------------------------------------------
(* The control thread.                                                     *)

\* The queue of operations of a worker: one is taken.
LEMMA TakenOp ==
  ASSUME NEW q \in Seq(Operations), q # << >>
  PROVE  /\ Tail(q) \in Seq(Operations) /\ Len(Tail(q)) = Len(q) - 1 /\ Head(q) = q[1]
         /\ Tail(q) = << >> <=> Len(q) = 1
         /\ \A i \in DOMAIN Tail(q) : i \in Nat /\ Tail(q)[i] = q[i + 1] /\ i + 1 \in DOMAIN q
         /\ Resumes(q) = {} => Resumes(Tail(q)) = {}
         /\ Resumes(q) = {Len(q)} /\ Tail(q) # << >> => Resumes(Tail(q)) = {Len(Tail(q))}
         /\ Resumes(q) = {Len(q)} /\ Head(q) # "resume" => Tail(q) # << >>
  <1>1. Tail(q) \in Seq(Operations) /\ Len(Tail(q)) = Len(q) - 1 /\ Head(q) = q[1] /\ Len(q) \in Nat
        /\ Len(q) > 0
    OBVIOUS
  <1>2. \A i \in DOMAIN Tail(q) : i \in Nat /\ Tail(q)[i] = q[i + 1] /\ i + 1 \in DOMAIN q
    OBVIOUS
  <1>3. Tail(q) = << >> <=> Len(q) = 1
    BY <1>1
  <1>4. Resumes(q) = {} => Resumes(Tail(q)) = {}
    BY <1>2 DEF Resumes
  <1>5. ASSUME Resumes(q) = {Len(q)}, Tail(q) # << >> PROVE Resumes(Tail(q)) = {Len(Tail(q))}
    <2>1. \A i \in Resumes(Tail(q)) : i = Len(Tail(q))
      BY <1>1, <1>2, <1>5 DEF Resumes
    <2>2. Len(Tail(q)) \in DOMAIN Tail(q)
      BY <1>1, <1>5
    <2>3. Len(q) \in Resumes(q)
      BY <1>5
    <2>4. Len(Tail(q)) \in Resumes(Tail(q))
      BY <1>1, <1>2, <2>2, <2>3 DEF Resumes
    <2> QED
      BY <2>1, <2>4
  <1>6. ASSUME Resumes(q) = {Len(q)}, Head(q) # "resume" PROVE Tail(q) # << >>
    <2>1. Len(q) \in Resumes(q)
      BY <1>6
    <2> QED
      BY <1>1, <1>3, <1>6, <2>1 DEF Resumes
  <1> QED
    BY <1>1, <1>2, <1>3, <1>4, <1>5, <1>6

\* One is sent.
LEMMA SentOp ==
  ASSUME NEW q \in Seq(Operations), NEW op \in Operations
  PROVE  /\ Append(q, op) \in Seq(Operations) /\ Len(Append(q, op)) = Len(q) + 1
         /\ Append(q, op) # << >> /\ Append(q, op)[Len(q) + 1] = op
         /\ q # << >> => Head(Append(q, op)) = Head(q)
         /\ Resumes(q) = {} /\ op # "resume" => Resumes(Append(q, op)) = {}
         /\ Resumes(q) = {} /\ op = "resume" => Resumes(Append(q, op)) = {Len(q) + 1}
  <1> DEFINE r == Append(q, op)
  <1>1. r \in Seq(Operations) /\ Len(r) = Len(q) + 1 /\ r # << >> /\ r[Len(q) + 1] = op
        /\ Len(q) \in Nat /\ DOMAIN r = 1..(Len(q) + 1) /\ DOMAIN q = 1..Len(q)
    OBVIOUS
  <1>2. \A i \in 1..Len(q) : r[i] = q[i]
    OBVIOUS
  <1>3. q # << >> => Head(r) = Head(q)
    BY <1>1, <1>2
  <1> HIDE DEF r
  <1>4. Resumes(q) = {} /\ op # "resume" => Resumes(r) = {}
    BY <1>1, <1>2 DEF Resumes
  <1>5. Resumes(q) = {} /\ op = "resume" => Resumes(r) = {Len(q) + 1}
    BY <1>1, <1>2 DEF Resumes
  <1> QED
    BY Zenon, <1>1, <1>3, <1>4, <1>5 DEF r

\* The steps of the clients and of the accept loops, of the seals under way, of the
\* successor and of SIGTERM leave the operations alone.
Aside ==
  /\ Unended' => Unended
  /\ UNCHANGED <<closed, worker, ops, replies, ctl>>
  /\ \A s \in Shards, n \in Names : ns'[s][n].frozen = ns[s][n].frozen
  /\ \A s \in Shards, who \in Sealers : seals'[s][who].on = seals[s][who].on

\* The steps that do not.
LEMMA CtlSteps ==
  ASSUME Types, Accepting, [Next]_vars
  PROVE  \/ Aside
         \/ \E s \in Shards : \/ HandleDrain(s) \/ HandleSeal(s) \/ HandleSealEnd(s)
                              \/ HandleResume(s) \/ WorkerEnds(s) \/ WorkerGone(s)
         \/ Watchdog
         \/ Drain
         \/ /\ ~Exited
            /\ \/ DrainReplies \/ DrainConns \/ Seal \/ SealReplies \/ Resume \/ ResumeReplies
               \/ SupervisorAborts \/ Commit
  <1> USE DEF Types
  <1>1. ASSUME NEW c \in Clients, Accept(c) \/ accept_one(c) PROVE Aside
    <2>1. PICK l \in {"routing", "look", "ended"} : loop' = [loop EXCEPT ![client[c].proto] = l]
      BY ZenonT(30), <1>1 DEF Accept, accept_one
    <2>2. client[c].proto \in Protos /\ loop[client[c].proto] # "ended"
      BY <1>1 DEF Accept, accept_one, Accepting, ClientTypes
    <2>3. Unended' => Unended
      BY <2>1, <2>2 DEF Unended, FlagTypes
    <2> QED
      BY Zenon, <1>1, <2>3 DEF Accept, accept_one, Aside
  <1>2. ASSUME NEW c \in Clients, Opened(c) PROVE Aside
    BY Zenon, <1>2, OpenedNs DEF Opened, Aside, Unended
  <1>3. ASSUME NEW c \in Clients,
               Ack(c) \/ Leave(c) \/ EarlyHttp(c) \/ \E n \in Names : Write(c, n)
        PROVE  Aside
    BY Zenon, <1>3 DEF Ack, Leave, EarlyHttp, Write, Aside, Unended
  <1>4. ASSUME NEW p \in Protos, EndLoop(p) PROVE Aside
    <2>1. Unended' => Unended
      BY <1>4 DEF EndLoop, Unended, FlagTypes
    <2> QED
      BY <1>4, <2>1 DEF EndLoop, Aside
  <1>5. ASSUME NEW s \in Shards, NEW p \in Protos, serve_loop(s, p) PROVE Aside
    BY <1>5 DEF serve_loop, Aside, Unended
  <1>6. ASSUME NEW s \in Shards, NEW who \in Sealers, NEW n \in Names,
               SealStep(s, who, n) \/ SealFails(s, who, n)
        PROVE  Aside
    <2>1. \A t \in Shards, who2 \in Sealers : seals'[t][who2].on = seals[t][who2].on
      <3>1. \E it : seals' = [seals EXCEPT ![s][who].at[n] = it]
        BY Zenon, <1>6 DEF SealStep, SealFails
      <3> QED
        BY <3>1 DEF SealsTypes, SealType
    <2> QED
      BY Zenon, <1>6, <2>1 DEF SealStep, SealFails, Aside, Unended
  <1>7. ASSUME Sigterm \/ SuccessorOpens \/ SuccessorDies \/ UNCHANGED vars PROVE Aside
    BY <1>7 DEF Sigterm, SuccessorOpens, SuccessorDies, vars, Own, Aside, Unended
  <1>8. ASSUME NEW s \in Shards, NEW who \in Sealers, FreezeAndDrain(s, who) PROVE Aside
    <2>1. \A t \in Shards, who2 \in Sealers : seals'[t][who2].on = seals[t][who2].on
      BY <1>8 DEF FreezeAndDrain, SealsTypes, SealType
    <2> QED
      BY <1>8, <2>1 DEF FreezeAndDrain, Aside, Unended
  <1> QED
    BY ZenonT(30), <1>1, <1>2, <1>3, <1>4, <1>5, <1>6, <1>7, <1>8 DEF Next, Progress, Control, WorkerStep

\* An operation that was answered.
LEMMA Answered ==
  ASSUME OpsTypes, NEW s \in Shards, ops[s] # << >>, NEW r \in {"ok", "error"},
         Handled(s), replies' = [replies EXCEPT ![s] = Append(@, r)], UNCHANGED ctl
  PROVE  /\ \A t \in Shards : Sent(t)' = Sent(t)
         /\ \A t \in Shards \ {s} : ops'[t] = ops[t] /\ replies'[t] = replies[t]
         /\ \A t \in Shards \ {s} : Reply(t)' = Reply(t)
         /\ ops'[s] = Tail(ops[s])
         /\ Sent(s) = ctl.k /\ Tail(ops[s]) = << >> => Reply(s)' = r
         /\ Sent(s) = ctl.k /\ Tail(ops[s]) # << >> => Reply(s)' = "none"
         /\ Sent(s) = ctl.k => Reply(s) = "none"
  <1>1. ops[s] \in Seq(Operations) /\ replies[s] \in Seq({"ok", "error"}) /\ ctl.k \in Nat
    BY DEF OpsTypes
  <1>2. ops'[s] = Tail(ops[s]) /\ replies'[s] = Append(replies[s], r)
    BY DEF OpsTypes, Handled
  <1>3. \A t \in Shards \ {s} : ops'[t] = ops[t] /\ replies'[t] = replies[t]
    BY DEF OpsTypes, Handled
  <1>4. Len(replies'[s]) = Len(replies[s]) + 1 /\ replies'[s][Len(replies[s]) + 1] = r
        /\ Len(ops'[s]) = Len(ops[s]) - 1 /\ Len(replies[s]) \in Nat /\ Len(ops[s]) \in Nat
        /\ Len(ops[s]) > 0
    BY <1>1, <1>2
  <1>5. Tail(ops[s]) = << >> <=> Len(ops[s]) = 1
    BY Zenon, <1>1, TakenOp
  <1>6. \A t \in Shards : Sent(t)' = Sent(t)
    <2> TAKE t \in Shards
    <2>1. CASE t = s
      <3>1. Sent(s)' = Len(replies'[s]) + Len(ops'[s])
        BY Zenon DEF Sent
      <3>2. Len(replies'[s]) + Len(ops'[s]) = Len(replies[s]) + 1 + (Len(ops[s]) - 1)
        BY Zenon, <1>4
      <3>3. Len(replies[s]) + 1 + (Len(ops[s]) - 1) = Sent(s)
        <4>1. \A a, b \in Nat : a + 1 + (b - 1) = a + b
          OBVIOUS
        <4> QED
          BY Zenon, <1>4, <4>1 DEF Sent
      <3> QED
        BY Zenon, <2>1, <3>1, <3>2, <3>3
    <2>2. CASE t # s
      BY Zenon, <1>3, <2>2 DEF Sent
    <2> QED
      BY <2>1, <2>2
  <1>7. \A t \in Shards \ {s} : Reply(t)' = Reply(t)
    BY <1>3 DEF Reply
  <1>8. Sent(s) = ctl.k =>
          /\ Tail(ops[s]) = << >> => Reply(s)' = r
          /\ Tail(ops[s]) # << >> => Reply(s)' = "none"
          /\ Reply(s) = "none"
    BY <1>1, <1>4, <1>5 DEF Reply, Sent, OpsTypes
  <1> QED
    BY Zenon, <1>2, <1>3, <1>6, <1>7, <1>8

\* The control invariant when an operation was answered that is no resume.
LEMMA CtlAnswered ==
  ASSUME Types, CtlInv, NEW s \in Shards, Serving(s, "drain") \/ Serving(s, "seal"),
         NEW r \in {"ok", "error"}, Handled(s), replies' = [replies EXCEPT ![s] = Append(@, r)],
         UNCHANGED <<ctl, closed, worker, loop, ns>>,
         \A t \in Shards : /\ seals'[t]["op"].on => seals[t]["op"].on /\ t # s
                           /\ seals'[t]["exit"].on => seals[t]["exit"].on
  PROVE  CtlInv'
  <1> USE DEF Types
  <1>1. ops[s] # << >> /\ Head(ops[s]) # "resume" /\ ops[s] \in Seq(Operations)
    BY DEF Serving, OpsTypes
  <1>2. /\ \A t \in Shards : Sent(t)' = Sent(t)
        /\ \A t \in Shards \ {s} : ops'[t] = ops[t] /\ Reply(t)' = Reply(t)
        /\ ops'[s] = Tail(ops[s])
    BY Zenon, <1>1, Answered
  <1>3. SealsOwned'
    BY Zenon, <1>2 DEF CtlInv, SealsOwned
  <1>4. Counted'
    BY Zenon, <1>2 DEF CtlInv, Counted
  <1>5. /\ Resumes(ops[s]) = {} => Resumes(ops'[s]) = {}
        /\ Resumes(ops[s]) = {Len(ops[s])} => ops'[s] # << >> /\ Resumes(ops'[s]) = {Len(ops'[s])}
    BY Zenon, <1>1, <1>2, TakenOp
  <1>6. ctl.stage \notin {"resuming", "failed"} => \A t \in Shards : Resumes(ops'[t]) = {}
    BY Zenon, <1>2, <1>5 DEF CtlInv
  <1>7. /\ Unended' = Unended /\ \A t \in Shards : Awake(t)' = Awake(t)
        /\ ctl' = ctl
    BY Zenon DEF Unended, Awake
  <1>8. ctl.stage = "resuming" =>
          \A t \in Shards :
            /\ ops'[t] # << >> => Resumes(ops'[t]) = {Len(ops'[t])}
            /\ ops'[t] = << >> /\ Reply(t)' = "ok" => Awake(t) \/ ~Unended
    BY Zenon, <1>1, <1>2, <1>5 DEF CtlInv
  <1>9. ctl.stage # "idle"
    BY Zenon, <1>1 DEF CtlInv
  <1> QED
    BY ZenonT(30), <1>3, <1>4, <1>6, <1>7, <1>8, <1>9 DEF CtlInv

\* When it was a resume.
LEMMA CtlResumed ==
  ASSUME Types, FrozenAreOpen, CtlInv, NEW s \in Shards, HandleResume(s)
  PROVE  CtlInv'
  <1> USE DEF Types
  <1>1. PICK failed \in SUBSET OpenNames(s) : ResumedBut(s, failed)
    BY Resumed
  <1> DEFINE r == IF failed = {} THEN "ok" ELSE "error"
  <1>2. replies' = [replies EXCEPT ![s] = Append(@, r)]
    BY <1>1 DEF ResumedBut
  <1>3. r = "ok" => Awake(s)'
    BY Zenon, <1>1 DEF ResumedBut, Awake, FrozenAreOpen, OpenNames
  <1>4. \A t \in Shards \ {s} : Awake(t)' = Awake(t)
    BY Zenon, <1>1 DEF ResumedBut, Awake
  <1>5. r \in {"ok", "error"}
    OBVIOUS
  <1> HIDE DEF r
  <1>6. ops[s] # << >> /\ Head(ops[s]) = "resume" /\ ops[s] \in Seq(Operations) /\ Handled(s)
        /\ UNCHANGED <<ctl, closed, worker, loop, seals>>
    BY DEF HandleResume, Serving, OpsTypes
  <1>7. /\ \A t \in Shards : Sent(t)' = Sent(t)
        /\ \A t \in Shards \ {s} : ops'[t] = ops[t] /\ Reply(t)' = Reply(t)
        /\ ops'[s] = Tail(ops[s])
        /\ Sent(s) = ctl.k /\ Tail(ops[s]) = << >> => Reply(s)' = r
    BY ZenonT(30), <1>2, <1>5, <1>6, Answered
  <1>8. 1 \in Resumes(ops[s])
    BY <1>6 DEF Resumes
  <1>9. ctl.stage \in {"resuming", "failed"} /\ ctl' = ctl /\ Unended' = Unended
    BY Zenon, <1>6, <1>8 DEF CtlInv, Unended
  <1>10. SealsOwned'
    <2>1. ~seals[s]["op"].on
      BY Zenon, <1>6 DEF CtlInv, SealsOwned
    <2> QED
      BY Zenon, <1>6, <1>7, <2>1 DEF CtlInv, SealsOwned
  <1>11. Counted'
    BY Zenon, <1>6, <1>7 DEF CtlInv, Counted
  <1>12. ctl.stage = "resuming" =>
           \A t \in Shards :
             /\ ops'[t] # << >> => Resumes(ops'[t]) = {Len(ops'[t])}
             /\ ops'[t] = << >> /\ Reply(t)' = "ok" => Awake(t)' \/ ~Unended
    <2> SUFFICES ASSUME ctl.stage = "resuming", NEW t \in Shards
                 PROVE  /\ ops'[t] # << >> => Resumes(ops'[t]) = {Len(ops'[t])}
                        /\ ops'[t] = << >> /\ Reply(t)' = "ok" => Awake(t)' \/ ~Unended
      OBVIOUS
    <2>1. CASE t # s
      BY <1>4, <1>7, <2>1 DEF CtlInv
    <2>2. CASE t = s
      <3>1. Resumes(ops[s]) = {Len(ops[s])} /\ Sent(s) = ctl.k
        BY Zenon, <1>6 DEF CtlInv, Counted
      <3>2. Len(ops[s]) = 1
        BY Zenon, <1>8, <3>1
      <3>3. Tail(ops[s]) = << >>
        BY Zenon, <1>6, <3>2, TakenOp
      <3> QED
        BY Zenon, <1>3, <1>7, <2>2, <3>1, <3>3
    <2> QED
      BY ZenonT(30), <2>1, <2>2
  <1> QED
    BY ZenonT(30), <1>6, <1>9, <1>10, <1>11, <1>12 DEF CtlInv

\* fan_out: every worker gets the operation, or one of them is gone.
LEMMA FannedOut ==
  ASSUME OpsTypes, NEW op \in Operations, NEW then \in Stages, fan_out(op, then), UNCHANGED replies
  PROVE  /\ \A s \in Shards : ops'[s] \in {ops[s], Append(ops[s], op)}
         /\ \/ /\ ctl' = [stage |-> then, k |-> ctl.k + 1]
               /\ \A s \in Shards : ops'[s] = Append(ops[s], op) /\ Sent(s)' = Sent(s) + 1
               /\ \A s \in Shards : worker[s] # "gone"
            \/ /\ ctl' = [stage |-> IF op = "resume" THEN "failed" ELSE "abort", k |-> ctl.k + 1]
               /\ \E s \in Shards : worker[s] = "gone"
  <1>1. \A s \in Shards : ops'[s] = IF s \in Reached THEN Append(ops[s], op) ELSE ops[s]
    BY Zenon DEF fan_out
  <1>2. CASE Reached = Shards
    <2>1. ctl' = [stage |-> then, k |-> ctl.k + 1]
      BY <1>2 DEF fan_out
    <2>2. \A s \in Shards : ops'[s] = Append(ops[s], op)
      BY <1>1, <1>2
    <2>3. ASSUME NEW s \in Shards PROVE Sent(s)' = Sent(s) + 1
      <3>1. ops[s] \in Seq(Operations) /\ replies[s] \in Seq({"ok", "error"})
        BY DEF OpsTypes
      <3>2. Len(Append(ops[s], op)) = Len(ops[s]) + 1 /\ Len(ops[s]) \in Nat /\ Len(replies[s]) \in Nat
        BY <3>1
      <3>3. Sent(s)' = Len(replies[s]) + Len(Append(ops[s], op))
        BY Zenon, <2>2 DEF Sent
      <3>4. \A a, b \in Nat : a + (b + 1) = a + b + 1
        OBVIOUS
      <3> QED
        BY Zenon, <3>2, <3>3, <3>4 DEF Sent
    <2>4. \A s \in Shards : s \in 1..s
      BY HandoffAssumption DEF Shards
    <2>5. \A s \in Shards : worker[s] # "gone"
      BY <1>2, <2>4 DEF Reached
    <2> QED
      BY ZenonT(30), <2>1, <2>2, <2>3, <2>5
  <1>3. CASE Reached # Shards
    <2>1. ctl' = [stage |-> IF op = "resume" THEN "failed" ELSE "abort", k |-> ctl.k + 1]
      BY <1>3 DEF fan_out
    <2>2. \E s \in Shards : worker[s] = "gone"
      BY <1>3, HandoffAssumption DEF Reached, Shards
    <2> QED
      BY ZenonT(30), <1>1, <2>1, <2>2
  <1> QED
    BY Zenon, <1>2, <1>3

\* Nothing is sealed twice: what a fan_out leaves of the seals.
LEMMA OwnedFanned ==
  ASSUME OpsTypes, SealsOwned, UNCHANGED <<seals, worker>>, NEW op \in Operations,
         \A s \in Shards : ops'[s] \in {ops[s], Append(ops[s], op)}
  PROVE  SealsOwned'
  <1> SUFFICES ASSUME NEW s \in Shards, seals[s]["op"].on
               PROVE  ops'[s] # << >> /\ Head(ops'[s]) = "seal"
    BY Zenon DEF SealsOwned
  <1>1. ops[s] # << >> /\ Head(ops[s]) = "seal" /\ ops[s] \in Seq(Operations)
    BY DEF SealsOwned, OpsTypes
  <1>2. Append(ops[s], op) # << >> /\ Head(Append(ops[s], op)) = Head(ops[s])
    BY <1>1, SentOp
  <1> QED
    BY Zenon, <1>1, <1>2

\* The steps of the control thread.
LEMMA CtlControl ==
  ASSUME Types, CtlInv, Drain \/ Control
  PROVE  CtlInv' \/ Aside
  <1> USE DEF Types
  <1>0. UNCHANGED <<loop, worker, ns, replies, seals>>
    BY Zenon DEF Drain, Control, Own, DrainReplies, DrainConns, Seal, SealReplies, Resume,
       ResumeReplies, SupervisorAborts, SuccessorOpens, SuccessorDies, Commit
  <1>1. Unended' = Unended /\ \A s \in Shards : Awake(s)' = Awake(s)
    BY Zenon, <1>0 DEF Unended, Awake
  <1>2. ASSUME NEW then \in {"draining", "sealing", "resuming"}, NEW op \in Operations,
               fan_out(op, then), closed', op = "resume" <=> then = "resuming",
               ctl.stage \in {"idle", "drained", "abort"},
               ctl.stage = "abort" => op = "resume"
        PROVE  CtlInv'
    <2> DEFINE missed == IF op = "resume" THEN "failed" ELSE "abort"
    <2>1. /\ \A s \in Shards : ops'[s] \in {ops[s], Append(ops[s], op)}
          /\ \/ /\ ctl' = [stage |-> then, k |-> ctl.k + 1]
                /\ \A s \in Shards : ops'[s] = Append(ops[s], op) /\ Sent(s)' = Sent(s) + 1
                /\ \A s \in Shards : worker[s] # "gone"
             \/ /\ ctl' = [stage |-> missed, k |-> ctl.k + 1]
                /\ \E s \in Shards : worker[s] = "gone"
      BY Zenon, <1>0, <1>2, FannedOut DEF Stages
    <2>2. SealsOwned'
      BY Zenon, <1>0, <2>1, OwnedFanned DEF CtlInv
    <2>8. missed \in {"failed", "abort"} /\ (op = "resume" <=> missed = "failed")
      OBVIOUS
    <2> HIDE DEF missed
    <2>3. Counted'
      <3>1. CASE \A s \in Shards : worker[s] # "gone"
        <4>1. \A s \in Shards : Sent(s) = ctl.k /\ Sent(s)' = Sent(s) + 1
          BY Zenon, <2>1, <3>1 DEF CtlInv, Counted
        <4>2. ctl'.k = ctl.k + 1
          <5>1. \E st \in {then, missed} : ctl' = [stage |-> st, k |-> ctl.k + 1]
            BY Zenon, <2>1
          <5> QED
            BY <5>1
        <4> QED
          BY Zenon, <4>1, <4>2 DEF Counted
      <3>2. CASE \E s \in Shards : worker[s] = "gone"
        <4>1. ctl'.stage = missed
          BY <2>1, <3>2
        <4> QED
          BY ZenonT(30), <1>0, <2>8, <3>2, <4>1 DEF Counted
      <3> QED
        BY <3>1, <3>2
    <2>4. \A s \in Shards : Resumes(ops[s]) = {} /\ ops[s] \in Seq(Operations)
      BY <1>2 DEF CtlInv, OpsTypes
    <2>9. ASSUME NEW s \in Shards
          PROVE  LET q == Append(ops[s], op)
                 IN /\ op # "resume" => Resumes(q) = {}
                    /\ q # << >> /\ (op = "resume" => Resumes(q) = {Len(q)})
      <3> DEFINE q == Append(ops[s], op)
      <3>1. ops[s] \in Seq(Operations) /\ Resumes(ops[s]) = {}
        BY Zenon, <2>4
      <3>2. /\ Len(q) = Len(ops[s]) + 1 /\ q # << >>
            /\ op # "resume" => Resumes(q) = {}
            /\ op = "resume" => Resumes(q) = {Len(ops[s]) + 1}
        BY <1>2, <3>1, SentOp
      <3> HIDE DEF q
      <3>3. op = "resume" => Resumes(q) = {Len(q)}
        BY Zenon, <3>2
      <3> QED
        BY <3>2, <3>3 DEF q
    <2>5. ctl'.stage \notin {"resuming", "failed"} => \A s \in Shards : Resumes(ops'[s]) = {}
      <3>1. ctl'.stage \notin {"resuming", "failed"} => op # "resume"
        BY <1>2, <2>1, <2>8
      <3> QED
        BY ZenonT(30), <2>1, <2>4, <2>9, <3>1
    <2>6. ctl'.stage = "resuming" =>
            \A s \in Shards : ops'[s] # << >> /\ Resumes(ops'[s]) = {Len(ops'[s])}
      <3>1. ctl'.stage = "resuming" => op = "resume" /\ \A s \in Shards : ops'[s] = Append(ops[s], op)
        BY <1>2, <2>1, <2>8
      <3> QED
        BY ZenonT(30), <2>9, <3>1
    <2>7. ctl'.stage # "idle"
      BY <1>2, <2>1, <2>8
    <2> QED
      BY ZenonT(30), <1>0, <1>1, <1>2, <2>2, <2>3, <2>5, <2>6, <2>7 DEF CtlInv
  <1>3. ASSUME NEW to, Stage(to), UNCHANGED <<closed, ops>>,
               ctl.stage \in {"draining", "conns", "drained", "sealing", "sealed"},
               to \notin {"idle", "resuming"}
        PROVE  CtlInv'
    <2>1. ctl'.stage = to /\ ctl'.k = ctl.k
      BY <1>3 DEF Stage, OpsTypes
    <2>2. SealsOwned'
      BY <1>0, <1>3 DEF CtlInv, SealsOwned
    <2>3. \A s \in Shards : Sent(s)' = Sent(s)
      BY Zenon, <1>0, <1>3 DEF Sent
    <2>4. Counted'
      BY Zenon, <1>0, <1>3, <2>1, <2>3 DEF CtlInv, Counted
    <2> QED
      BY ZenonT(30), <1>0, <1>1, <1>3, <2>1, <2>2, <2>4 DEF CtlInv
  <1>4. ASSUME Drain PROVE CtlInv'
    BY <1>2, <1>4 DEF Drain, Operations
  <1>5. ASSUME Seal PROVE CtlInv'
    BY Zenon, <1>2, <1>5 DEF Seal, Operations, CtlInv
  <1>6. ASSUME Resume PROVE CtlInv'
    BY ZenonT(30), <1>2, <1>6 DEF Resume, Operations, CtlInv
  <1>7. ASSUME DrainReplies \/ DrainConns \/ SealReplies \/ SupervisorAborts \/ Commit PROVE CtlInv'
    BY <1>3, <1>7 DEF DrainReplies, DrainConns, SealReplies, SupervisorAborts, Commit
  <1>8. ASSUME ResumeReplies PROVE CtlInv'
    <2>1. \A s \in Shards : Sent(s)' = Sent(s) /\ Sent(s) = ctl.k
      BY Zenon, <1>0, <1>8 DEF Sent, ResumeReplies, CtlInv, Counted
    <2>2. ctl'.k = ctl.k
      BY Zenon, <1>8 DEF ResumeReplies, Stage, OpsTypes
    <2>3. SealsOwned'
      BY Zenon, <1>0, <1>8 DEF CtlInv, SealsOwned, ResumeReplies
    <2>4. Counted'
      BY ZenonT(30), <2>1, <2>2 DEF Counted
    <2>5. CASE AllOk /\ Stage("idle") /\ closed' = FALSE
      <3>1. \A s \in Shards : ops[s] = << >> /\ Reply(s) = "ok"
        <4> TAKE s \in Shards
        <4>1. Reply(s) = "ok" /\ ctl.k <= Len(replies[s])
          BY <2>5 DEF AllOk, Reply
        <4>2. ops[s] \in Seq(Operations) /\ replies[s] \in Seq({"ok", "error"}) /\ ctl.k \in Nat
          BY DEF OpsTypes
        <4>3. Len(ops[s]) = 0
          <5>1. \A a, b, k \in Nat : a + b = k /\ k <= a => b = 0
            OBVIOUS
          <5>2. Len(replies[s]) \in Nat /\ Len(ops[s]) \in Nat
            BY <4>2
          <5>3. Len(replies[s]) + Len(ops[s]) = ctl.k
            BY Zenon, <2>1 DEF Sent
          <5> QED
            BY ZenonT(30), <4>1, <4>2, <5>1, <5>2, <5>3
        <4> QED
          BY <4>1, <4>2, <4>3
      <3>2. ctl'.stage = "idle" /\ UNCHANGED ops
        BY <1>8, <2>5 DEF ResumeReplies, Stage, OpsTypes
      <3>3. \A s \in Shards : Awake(s) \/ ~Unended
        BY <1>8, <3>1 DEF ResumeReplies, CtlInv
      <3>4. \A s \in Shards : Resumes(ops[s]) = {}
        BY <3>1 DEF Resumes
      <3> QED
        BY <1>0, <1>1, <2>3, <2>4, <3>1, <3>2, <3>3, <3>4 DEF CtlInv
    <2>6. CASE Stage("failed") /\ UNCHANGED closed
      <3>1. ctl'.stage = "failed" /\ UNCHANGED ops
        BY <1>8, <2>6 DEF ResumeReplies, Stage, OpsTypes
      <3> QED
        BY ZenonT(30), <1>0, <1>1, <1>8, <2>3, <2>4, <2>6, <3>1 DEF CtlInv, ResumeReplies
    <2> QED
      BY Zenon, <1>8, <2>5, <2>6 DEF ResumeReplies
  <1>9. ASSUME SuccessorOpens \/ SuccessorDies PROVE Aside
    BY Zenon, <1>9 DEF SuccessorOpens, SuccessorDies, Own, Aside, Unended
  <1> QED
    BY ZenonT(30), <1>4, <1>5, <1>6, <1>7, <1>8, <1>9 DEF Control

\* The control invariant at each step.
LEMMA CtlStep ==
  ASSUME BaseInv, CtlInv, [Next]_vars
  PROVE  CtlInv'
  <1> USE DEF BaseInv, Types, ConnInv
  <1>1. ASSUME Aside PROVE CtlInv'
    <2>1. SealsOwned'
      BY ZenonT(30), <1>1 DEF Aside, CtlInv, SealsOwned, Sealers
    <2>2. \A s \in Shards : Awake(s)' = Awake(s) /\ Reply(s)' = Reply(s) /\ Sent(s)' = Sent(s)
      BY <1>1 DEF Aside, Awake, Reply, Sent
    <2>3. Counted'
      BY Zenon, <1>1, <2>2 DEF Aside, CtlInv, Counted
    <2> QED
      BY Zenon, <1>1, <2>1, <2>2, <2>3 DEF Aside, CtlInv
  <1>2. ASSUME NEW s \in Shards, HandleDrain(s) PROVE CtlInv'
    <2>1. PICK r \in {"ok", "error"} : replies' = [replies EXCEPT ![s] = Append(@, r)]
      BY <1>2 DEF HandleDrain, Replied
    <2>2. ~seals[s]["op"].on
      BY <1>2 DEF HandleDrain, Serving, CtlInv, SealsOwned
    <2>3. /\ Serving(s, "drain") /\ Handled(s) /\ UNCHANGED <<ctl, closed, worker, loop, ns, seals>>
      BY <1>2 DEF HandleDrain
    <2> QED
      BY Zenon, <2>1, <2>2, <2>3, CtlAnswered
  <1>3. ASSUME NEW s \in Shards, HandleSealEnd(s) PROVE CtlInv'
    <2>1. PICK r \in {"ok", "error"} : replies' = [replies EXCEPT ![s] = Append(@, r)]
      BY ZenonT(30), <1>3 DEF HandleSealEnd, Replied
    <2>2. \A t \in Shards : /\ seals'[t]["op"].on => seals[t]["op"].on /\ t # s
                            /\ seals'[t]["exit"].on => seals[t]["exit"].on
      BY <1>3 DEF HandleSealEnd, SealsTypes, SealType, NotSealing, Sealers
    <2>3. /\ Serving(s, "seal") /\ Handled(s) /\ UNCHANGED <<ctl, closed, worker, loop, ns>>
      BY <1>3 DEF HandleSealEnd
    <2> QED
      BY Zenon, <2>1, <2>2, <2>3, CtlAnswered
  <1>4. ASSUME NEW s \in Shards, HandleResume(s) PROVE CtlInv'
    BY <1>4, CtlResumed
  <1>5. ASSUME NEW s \in Shards, HandleSeal(s) PROVE CtlInv'
    <2>1. SealBegun(s, "op") /\ "op" \in Sealers /\ Serving(s, "seal")
          /\ UNCHANGED <<closed, worker, ops, replies, ctl, loop>>
      BY ZenonT(30), <1>5 DEF HandleSeal, Sealers
    <2>2. \A t \in Shards : Reply(t)' = Reply(t) /\ Sent(t)' = Sent(t) /\ Unended' = Unended
      BY <2>1 DEF Reply, Sent, Unended
    <2>3. \A t \in Shards \ {s} : Awake(t) => Awake(t)'
      BY Zenon, <2>1, SealBegunNs DEF Awake
    <2>4. SealsOwned'
      BY <2>1 DEF CtlInv, SealsOwned, SealBegun, Serving, SealsTypes, Sealers
    <2>5. Counted'
      BY Zenon, <2>1, <2>2 DEF CtlInv, Counted
    <2>6. ops[s] # << >>
      BY Zenon, <2>1 DEF Serving
    <2> QED
      BY ZenonT(30), <2>1, <2>2, <2>3, <2>4, <2>5, <2>6 DEF CtlInv
  <1>6. ASSUME NEW s \in Shards, WorkerEnds(s) PROVE CtlInv'
    <2>1. SealBegun(s, "exit") /\ UNCHANGED <<closed, ops, replies, ctl, loop>>
          /\ worker' = [worker EXCEPT ![s] = "ending"] /\ worker[s] = "serving"
      BY Zenon, <1>6 DEF WorkerEnds
    <2>2. \A t \in Shards : Sent(t)' = Sent(t)
      BY <2>1 DEF Sent
    <2>3. ~Unended /\ ~Unended'
      BY Zenon, <1>6 DEF WorkerEnds, Unended
    <2>4. SealsOwned'
      BY <2>1 DEF CtlInv, SealsOwned, SealBegun, SealsTypes, Sealers, FlagTypes
    <2>5. Counted'
      BY Zenon, <2>1, <2>2 DEF CtlInv, Counted, FlagTypes
    <2> QED
      BY Zenon, <2>1, <2>3, <2>4, <2>5 DEF CtlInv
  <1>7. ASSUME NEW s \in Shards, WorkerGone(s) PROVE CtlInv'
    <2>1. /\ UNCHANGED <<closed, ctl, loop>> /\ worker[s] = "ending"
          /\ worker' = [worker EXCEPT ![s] = "gone"] /\ ops' = [ops EXCEPT ![s] = << >>]
          /\ replies' = [replies EXCEPT ![s] = @ \o [i \in DOMAIN ops[s] |-> "error"]]
          /\ seals' = [seals EXCEPT ![s] = [who \in Sealers |-> NotSealing]]
      BY Zenon, <1>7 DEF WorkerGone
    <2>2. ~Unended /\ ~Unended'
      BY <2>1 DEF CtlInv, Unended
    <2>3. ops'[s] = << >> /\ \A t \in Shards \ {s} : ops'[t] = ops[t] /\ replies'[t] = replies[t]
      BY <2>1 DEF OpsTypes
    <2>4. \A t \in Shards : Sent(t)' = Sent(t)
      <3>1. Sent(s)' = Sent(s)
        <4> DEFINE e == [i \in DOMAIN ops[s] |-> "error"]
        <4>1. ops[s] \in Seq(Operations) /\ replies[s] \in Seq({"ok", "error"})
          BY DEF OpsTypes
        <4>2. e \in Seq({"ok", "error"}) /\ Len(e) = Len(ops[s])
          BY <4>1
        <4>3. replies'[s] = replies[s] \o e
          BY <2>1 DEF OpsTypes
        <4> HIDE DEF e
        <4>4. Len(replies[s] \o e) = Len(replies[s]) + Len(e)
          <5>1. \A p, q \in Seq({"ok", "error"}) : Len(p \o q) = Len(p) + Len(q)
            OBVIOUS
          <5> QED
            BY Zenon, <4>1, <4>2, <5>1
        <4>5. Len(replies'[s]) = Len(replies[s]) + Len(ops[s])
          BY ZenonT(30), <4>2, <4>3, <4>4
        <4>8. replies[s] \o e \in Seq({"ok", "error"})
          BY <4>1, <4>2
        <4>9. Len(replies[s] \o e) \in Nat
          BY <4>8
        <4>6. Len(replies'[s]) \in Nat /\ Len(ops'[s]) = 0
          <5>1. Len(<< >>) = 0
            OBVIOUS
          <5> QED
            BY Zenon, <2>3, <4>3, <4>9, <5>1
        <4>7. \A a \in Nat : a + 0 = a
          OBVIOUS
        <4> QED
          BY Zenon, <4>5, <4>6, <4>7 DEF Sent
      <3>2. \A t \in Shards \ {s} : Sent(t)' = Sent(t)
        BY ZenonT(30), <2>3 DEF Sent
      <3> QED
        BY <3>1, <3>2
    <2>5. SealsOwned'
      <3>1. \A who \in Sealers : ~seals'[s][who].on
        BY <2>1 DEF SealsTypes, NotSealing
      <3>2. \A t \in Shards \ {s} : seals'[t] = seals[t] /\ worker'[t] = worker[t]
        BY Zenon, <2>1 DEF SealsTypes, FlagTypes
      <3> QED
        BY <2>3, <3>1, <3>2 DEF CtlInv, SealsOwned, Sealers
    <2>6. Counted'
      <3>1. \A t \in Shards : worker[t] = "gone" => worker'[t] = "gone"
        BY <2>1 DEF FlagTypes
      <3> QED
        BY Zenon, <2>1, <2>4, <3>1 DEF CtlInv, Counted
    <2>7. Resumes(ops'[s]) = {}
      <3>1. DOMAIN << >> = {}
        OBVIOUS
      <3> QED
        BY Zenon, <2>3, <3>1 DEF Resumes
    <2> QED
      BY ZenonT(30), <2>1, <2>2, <2>3, <2>5, <2>6, <2>7 DEF CtlInv
  <1>8. CASE Watchdog
    <2>1. /\ UNCHANGED <<closed, ops, replies, ctl, loop>> /\ ~Unended
          /\ \A s \in Shards : worker'[s] = "gone" /\ \A who \in Sealers : ~seals'[s][who].on
      BY <1>8 DEF Watchdog, Unended, NotSealing
    <2>2. \A t \in Shards : Sent(t)' = Sent(t) /\ Unended' = Unended
      BY ZenonT(30), <2>1 DEF Sent, Unended
    <2>3. SealsOwned'
      BY Zenon, <2>1 DEF SealsOwned, Sealers
    <2>4. Counted'
      BY Zenon, <2>1, <2>2 DEF CtlInv, Counted
    <2> QED
      BY Zenon, <2>1, <2>2, <2>3, <2>4 DEF CtlInv
  <1>9. ASSUME Drain \/ Control PROVE CtlInv'
    BY <1>1, <1>9, CtlControl
  <1> QED
    BY ZenonT(30), <1>1, <1>2, <1>3, <1>4, <1>5, <1>6, <1>7, <1>8, <1>9, CtlSteps DEF Control

\* The operations of the control thread and the freeze flags, always.
LEMMA CtlIsInvariant == Spec => []CtlInv
  <1>1. Init => CtlInv
    <2> SUFFICES ASSUME Init PROVE CtlInv
      OBVIOUS
    <2>1. \A s \in Shards : ops[s] = << >> /\ replies[s] = << >> /\ worker[s] = "serving"
      BY Zenon DEF Init
    <2>2. \A s \in Shards : Awake(s)
      BY Zenon DEF Init, Awake
    <2>3. SealsOwned
      BY Zenon DEF Init, SealsOwned, NotSealing, Sealers
    <2>4. Counted
      <3>1. \A s \in Shards : Sent(s) = 0
        <4> TAKE s \in Shards
        <4>1. Len(ops[s]) = 0 /\ Len(replies[s]) = 0
          BY <2>1
        <4>2. Sent(s) = 0 + 0
          BY Zenon, <4>1 DEF Sent
        <4> QED
          BY <4>2
      <3> QED
        BY Zenon, <3>1 DEF Init, Counted
    <2>5. \A s \in Shards : Resumes(ops[s]) = {}
      BY <2>1 DEF Resumes
    <2> QED
      BY Zenon, <2>1, <2>2, <2>3, <2>4, <2>5 DEF Init, CtlInv
  <1>2. BaseInv /\ CtlInv /\ [Next]_vars => CtlInv'
    BY Zenon, CtlStep
  <1> QED
    BY <1>1, <1>2, BaseIsInvariant, PTL DEF Spec

\* Whenever the server takes connections, no namespace refuses writes: accept_closed is
\* lowered only after every worker has answered the resume that was queued behind
\* whatever an attempt that was given up had left for it.
THEOREM NeverOpenAndFrozen == Spec => []FrozenOnlyWhileClosed
  <1>1. CtlInv => FrozenOnlyWhileClosed
    <2> SUFFICES ASSUME CtlInv, ~closed, Unended, NEW s \in Shards, NEW n \in Names
                 PROVE  ~ns[s][n].frozen
      BY DEF FrozenOnlyWhileClosed, EveryNs, Unended
    <2>1. ctl.stage = "idle"
      BY DEF CtlInv
    <2> QED
      BY Zenon, <2>1 DEF CtlInv, Awake
  <1> QED
    BY <1>1, CtlIsInvariant, PTL

=============================================================================
