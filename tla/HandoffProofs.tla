---------------------------- MODULE HandoffProofs ----------------------------
(***************************************************************************)
(* The handoff gives the acknowledged writes away safely, for any number   *)
(* of shards, clients, namespaces, attempts and failures.                  *)
(***************************************************************************)
EXTENDS HandoffDirectory

USE SMTT(30), ZenonT(30)

-----------------------------------------------------------------------------
(* The files at each step.                                                 *)

\* A file is left alone, is new, gets the record of a write, or a piece of a footer.
Kept(s, n, f) == f \in DOMAIN files[s][n] /\ files'[s][n][f] = files[s][n][f]
Fresh(s, n, f) == f \notin DOMAIN files[s][n] /\ files'[s][n][f] = << >>
Grown(c, s, n, f) ==
  /\ Recorded(c, s, n) /\ f = Active(s, n) /\ f \in DOMAIN files[s][n]
  /\ OnlyRecords(files'[s][n][f])
  /\ RecordsIn(files'[s][n][f]) = RecordsIn(files[s][n][f]) \cup {<<c, client[c].w>>}
Closed(s, n, f) ==
  /\ f \in DOMAIN files[s][n] /\ ns[s][n].frozen /\ InFlight(s, n) = {}
  /\ RecordsIn(files'[s][n][f]) = RecordsIn(files[s][n][f])
  /\ Sound(files'[s][n][f], mem[s][n])
Fate(s, n, f) ==
  Kept(s, n, f) \/ Fresh(s, n, f) \/ Closed(s, n, f) \/ \E c \in Clients : Grown(c, s, n, f)

\* The files of a namespace are files, one of them is active, and their records are writes.
LEMMA FileAt ==
  ASSUME Types, NEW s \in Shards, NEW n \in Names
  PROVE  /\ Active(s, n) \in DOMAIN files[s][n] /\ files[s][n] \in Seq(Seq(Piece))
         /\ \A f \in DOMAIN files[s][n] :
              files[s][n][f] \in Seq(Piece) /\ RecordsIn(files[s][n][f]) \subseteq Writes
  <1>1. files[s][n] \in Seq(Seq(Piece)) /\ files[s][n] # << >>
    BY DEF Types, FilesTypes
  <1>2. \A f \in DOMAIN files[s][n] : files[s][n][f] \in Seq(Piece)
    BY <1>1
  <1>3. ASSUME NEW f \in DOMAIN files[s][n] PROVE RecordsIn(files[s][n][f]) \subseteq Writes
    <2>1. ASSUME NEW i \in Records(files[s][n][f]) PROVE files[s][n][f][i].has \subseteq Writes
      <3>1. files[s][n][f][i] \in Piece
        BY <1>2 DEF Records
      <3> QED
        BY <3>1 DEF Piece
    <2> QED
      BY <2>1 DEF RecordsIn
  <1> QED
    BY <1>1, <1>2, <1>3 DEF Active

\* One file of a namespace gets a piece.
LEMMA PieceAt ==
  ASSUME Types, NEW s \in Shards, NEW n \in Names, NEW g \in DOMAIN files[s][n], NEW piece,
         files'[s][n] = [files[s][n] EXCEPT ![g] = Append(@, piece)]
  PROVE  /\ DOMAIN files'[s][n] = DOMAIN files[s][n]
         /\ files'[s][n][g] = Append(files[s][n][g], piece)
         /\ \A f \in DOMAIN files[s][n] \ {g} : Kept(s, n, f)
  BY FileAt DEF Kept

\* The record of a write is appended to a file without a footer.
LEMMA GrownFile ==
  ASSUME Types, ActiveClean, NEW c \in Clients, NEW s \in Shards, NEW n \in Names, Recorded(c, s, n)
  PROVE  Grown(c, s, n, Active(s, n))
  <1> DEFINE g == Active(s, n)
             f == files[s][n][g]
             w == <<c, client[c].w>>
  <1>1. g \in DOMAIN files[s][n] /\ f \in Seq(Piece) /\ w \in Writes
    BY FileAt DEF Types, ClientTypes, Writes
  <1>2. OnlyRecords(f)
    BY Zenon DEF Recorded, ActiveClean
  <1>3. files'[s][n] = [files[s][n] EXCEPT ![g] = Append(@, Record(w))]
    BY DEF Recorded
  <1> HIDE DEF g, w
  <1>4. files'[s][n][g] = Append(f, Record(w))
    BY Zenon, <1>1, <1>3, PieceAt
  <1> HIDE DEF f
  <1>5. OnlyRecords(Append(f, Record(w))) /\ RecordsIn(Append(f, Record(w))) = RecordsIn(f) \cup {w}
    BY <1>1, <1>2, RecordAppended
  <1> QED
    BY Zenon, <1>1, <1>4, <1>5 DEF Grown, f, g, w

\* The body and the trailer of a footer.
LEMMA ClosedFile ==
  ASSUME Types, FilesSound, SealsSound, NEW s \in Shards, NEW who \in Sealers, NEW n \in Names,
         BodyWritten(s, who, n) \/ TrailerWritten(s, who, n)
  PROVE  /\ Closed(s, n, Active(s, n))
         /\ DOMAIN files'[s][n] = DOMAIN files[s][n]
         /\ \A f \in DOMAIN files[s][n] \ {Active(s, n)} : Kept(s, n, f)
  <1> DEFINE it == seals[s][who].at[n]
             g == Active(s, n)
             f == files[s][n][g]
             m == mem[s][n]
  <1>1. seals[s][who].on /\ seals[s][who].drained /\ n \in DOMAIN seals[s][who].at
    BY Zenon DEF BodyWritten, TrailerWritten, Footed, SealStep
  <1>2. SealItemOk(s, who, n)
    BY <1>1 DEF SealsSound
  <1>3. ns[s][n].frozen /\ InFlight(s, n) = {} /\ it.file = g
    BY Zenon, <1>1, <1>2 DEF SealItemOk, BodyWritten, TrailerWritten
  <1>4. g \in DOMAIN files[s][n] /\ f \in Seq(Piece) /\ m \in SUBSET Writes /\ Sound(f, m)
    BY FileAt DEF Types, MemTypes, FilesSound
  <1>5. it \in SealItem
    BY <1>1 DEF Types, SealsTypes, SealType, SealMaps
  <1>6. \E p \in Piece :
          /\ files'[s][n] = [files[s][n] EXCEPT ![g] = Append(@, p)]
          /\ p.kind # "record" /\ m \cap RecordsIn(f) \subseteq p.has
          /\ p.kind = "trailer" => f # << >> /\ f[Len(f)] = Body(p.has)
    <2>1. CASE BodyWritten(s, who, n)
      <3> DEFINE p == Body(m \cap RecordsIn(f))
      <3>1. Entries(s, n, it.file) = m \cap RecordsIn(f)
        BY <1>3 DEF Entries, RecordsIn
      <3>2. files'[s][n] = [files[s][n] EXCEPT ![g] = Append(@, p)]
        BY Zenon, <1>3, <2>1, <3>1 DEF BodyWritten, Footed
      <3>3. p \in Piece /\ p.kind = "body" /\ p.has = m \cap RecordsIn(f)
        BY Zenon, <1>4 DEF Body, Piece
      <3> HIDE DEF p
      <3> QED
        BY Zenon, <3>2, <3>3
    <2>2. CASE TrailerWritten(s, who, n)
      <3> DEFINE p == Trailer(it.has)
      <3>1. files'[s][n] = [files[s][n] EXCEPT ![g] = Append(@, p)]
        BY <1>3, <2>2 DEF TrailerWritten, Footed
      <3>2. p \in Piece /\ p.kind = "trailer" /\ p.has = it.has
        BY <1>5 DEF Trailer, Piece, SealItem
      <3>3. f # << >> /\ f[Len(f)] = Body(it.has) /\ m \cap RecordsIn(f) \subseteq it.has
        BY Zenon, <1>2, <1>3, <2>2 DEF SealItemOk, TrailerWritten
      <3> HIDE DEF p
      <3> QED
        BY ZenonT(30), <3>1, <3>2, <3>3
    <2> QED
      BY Zenon, <2>1, <2>2
  <1> HIDE DEF g, m, it
  <1>7. PICK p \in Piece :
          /\ files'[s][n] = [files[s][n] EXCEPT ![g] = Append(@, p)]
          /\ p.kind # "record" /\ m \cap RecordsIn(f) \subseteq p.has
          /\ p.kind = "trailer" => f # << >> /\ f[Len(f)] = Body(p.has)
    BY Zenon, <1>6
  <1>8. /\ DOMAIN files'[s][n] = DOMAIN files[s][n]
        /\ files'[s][n][g] = Append(f, p)
        /\ \A h \in DOMAIN files[s][n] \ {g} : Kept(s, n, h)
    BY Zenon, <1>4, <1>7, PieceAt
  <1>9. RecordsIn(Append(f, p)) = RecordsIn(f) /\ Sound(Append(f, p), m)
    BY Zenon, <1>4, <1>7, FooterAppended
  <1> QED
    BY Zenon, <1>3, <1>4, <1>8, <1>9 DEF Closed, g, m

\* What becomes of the files of a namespace.
LEMMA FileFates ==
  ASSUME BaseInv, FileInv, [Next]_vars, NEW s \in Shards, NEW n \in Names
  PROVE  /\ DOMAIN files[s][n] \subseteq DOMAIN files'[s][n]
         /\ \A f \in DOMAIN files'[s][n] : Fate(s, n, f)
  <1> USE DEF BaseInv
  <1>1. CASE files'[s][n] = files[s][n]
    BY Zenon, <1>1 DEF Fate, Kept
  <1>2. ASSUME NEW c \in Clients, Recorded(c, s, n)
        PROVE  /\ DOMAIN files[s][n] \subseteq DOMAIN files'[s][n]
               /\ \A f \in DOMAIN files'[s][n] : Fate(s, n, f)
    <2>1. Grown(c, s, n, Active(s, n))
      BY <1>2, GrownFile DEF FileInv
    <2>2. /\ DOMAIN files'[s][n] = DOMAIN files[s][n]
          /\ \A f \in DOMAIN files[s][n] \ {Active(s, n)} : Kept(s, n, f)
      BY Zenon, <1>2, FileAt, PieceAt DEF Recorded
    <2> QED
      BY Zenon, <2>1, <2>2 DEF Fate
  <1>3. ASSUME NEW who \in Sealers, BodyWritten(s, who, n) \/ TrailerWritten(s, who, n)
        PROVE  /\ DOMAIN files[s][n] \subseteq DOMAIN files'[s][n]
               /\ \A f \in DOMAIN files'[s][n] : Fate(s, n, f)
    <2>1. /\ Closed(s, n, Active(s, n))
          /\ DOMAIN files'[s][n] = DOMAIN files[s][n]
          /\ \A f \in DOMAIN files[s][n] \ {Active(s, n)} : Kept(s, n, f)
      BY ZenonT(30), <1>3, ClosedFile DEF FileInv
    <2> QED
      BY <2>1 DEF Fate
  <1>4. CASE files'[s][n] = Append(files[s][n], << >>)
    <2> DEFINE fs == files[s][n]
               l == Len(fs) + 1
    <2>1. /\ DOMAIN Append(fs, << >>) = DOMAIN fs \cup {l} /\ l \notin DOMAIN fs
          /\ Append(fs, << >>)[l] = << >> /\ \A f \in DOMAIN fs : Append(fs, << >>)[f] = fs[f]
      <3>1. fs \in Seq(Seq(Piece)) /\ << >> \in Seq(Piece)
        BY FileAt
      <3> HIDE DEF fs
      <3> QED
        BY <3>1
    <2> HIDE DEF l
    <2> QED
      BY <1>4, <2>1 DEF Fate, Kept, Fresh
  <1> QED
    BY Zenon, <1>1, <1>2, <1>3, <1>4, FileSteps

\* Records stay, and a file that a write under way is in gets no footer.
LEMMA RecordsStay ==
  ASSUME BaseInv, FileInv, [Next]_vars, NEW s \in Shards, NEW n \in Names,
         NEW f \in DOMAIN files[s][n]
  PROVE  /\ f \in DOMAIN files'[s][n]
         /\ RecordsIn(files[s][n][f]) \subseteq RecordsIn(files'[s][n][f])
         /\ OnlyRecords(files[s][n][f]) /\ InFlight(s, n) # {} => OnlyRecords(files'[s][n][f])
  <1>1. f \in DOMAIN files'[s][n] /\ Fate(s, n, f)
    BY Zenon, FileFates
  <1> QED
    BY Zenon, <1>1 DEF Fate, Kept, Fresh, Closed, Grown


\* Only a resume unfreezes a namespace, and then it has a new active file.
LEMMA Thaw ==
  ASSUME BaseInv, [Next]_vars, NEW s \in Shards, NEW n \in Names,
         ns[s][n].frozen, ~ns'[s][n].frozen
  PROVE  HandleResume(s) /\ files'[s][n] = Append(files[s][n], << >>)
  <1> USE DEF BaseInv, Types
  <1>1. ASSUME NEW t \in Shards, HandleSeal(t) \/ WorkerEnds(t) PROVE FALSE
    <2>1. PICK who \in Sealers : SealBegun(t, who)
      BY Zenon, <1>1 DEF HandleSeal, WorkerEnds, Sealers
    <2> QED
      BY Zenon, <2>1, SealBegunNs
  <1>2. ASSUME NEW c \in Clients, Opened(c) PROVE FALSE
    BY <1>2, OpenedNs
  <1>3. PICK t \in Shards : HandleResume(t)
    BY <1>1, <1>2, NsSteps
  <1>4. PICK failed \in SUBSET OpenNames(t) : ResumedBut(t, failed)
    BY <1>3, Resumed
  <1>5. t = s /\ failed = {} /\ n \in OpenNames(s)
    BY Zenon, <1>4 DEF ResumedBut
  <1> QED
    BY Zenon, <1>3, <1>4, <1>5 DEF ResumedBut

\* A write that is under way and was not is recorded.
LEMMA Started ==
  ASSUME BaseInv, [Next]_vars, NEW c \in Clients, client'[c].pc = "append"
  PROVE  \/ Continues(c)
         \/ client[c].s \in Shards /\ client'[c].n \in Names /\ Recorded(c, client[c].s, client'[c].n)
  <1> USE DEF BaseInv, Types
  <1>0. client[c].s \in Shards
    BY DEF ClientTypes
  <1>1. ASSUME NEW n \in Names, client[c].pc \in {"open", "opening"},
               BeginWrite(c, client[c].s, n, ns[client[c].s][n].frozen)
        PROVE  client'[c].n = n /\ Recorded(c, client[c].s, n)
    <2> DEFINE s == client[c].s
    <2>1. CASE ns[s][n].frozen
      BY <1>1, <2>1 DEF BeginWrite, ClientTypes
    <2>2. CASE ~ns[s][n].frozen
      <3>1. /\ client' = [client EXCEPT ![c].pc = "append", ![c].n = n]
            /\ files' = Extended(s, n, Active(s, n), Record(<<c, client[c].w>>))
        BY <1>1, <2>2 DEF BeginWrite
      <3>2. client'[c].pc = "append" /\ client'[c].n = n /\ client'[c].w = client[c].w /\ client'[c].s = s
        BY <3>1 DEF ClientTypes
      <3>3. Extends(s, n, Active(s, n), Record(<<c, client[c].w>>))
        BY Zenon, <1>0, <3>1, ExtendedAt
      <3>4. files'[s][n] = [files[s][n] EXCEPT ![Active(s, n)] = Append(@, Record(<<c, client[c].w>>))]
        BY Zenon, <1>0, <3>3 DEF Extends
      <3> QED
        BY Zenon, <1>1, <2>2, <3>2, <3>4 DEF Recorded
    <2> QED
      BY <2>1, <2>2
  <1>2. ASSUME Opened(c) PROVE client'[c].n \in Names /\ Recorded(c, client[c].s, client'[c].n)
    <2>1. client[c].n \in Names /\ client[c].pc = "opening"
          /\ BeginWrite(c, client[c].s, client[c].n, ns[client[c].s][client[c].n].frozen)
      BY <1>2 DEF Opened, ClientTypes
    <2>2. client'[c].n = client[c].n /\ Recorded(c, client[c].s, client[c].n)
      BY <1>1, <2>1
    <2> QED
      BY ZenonT(30), <2>1, <2>2
  <1>3. ASSUME NEW n \in Names, Begins(c, n)
        PROVE  client'[c].n \in Names /\ Recorded(c, client[c].s, client'[c].n)
    <2>1. client[c].pc = "open" /\ BeginWrite(c, client[c].s, n, ns[client[c].s][n].frozen)
      BY <1>3 DEF Begins, Write
    <2>2. client'[c].n = n /\ Recorded(c, client[c].s, n)
      BY <1>1, <2>1
    <2> QED
      BY Zenon, <2>2
  <1> QED
    BY <1>0, <1>2, <1>3, ClientSteps

\* No write comes under way in a frozen namespace.
LEMMA NoNewFlight ==
  ASSUME BaseInv, [Next]_vars, NEW s \in Shards, NEW n \in Names, ns[s][n].frozen,
         InFlight(s, n) = {}
  PROVE  InFlight(s, n)' = {}
  <1> SUFFICES ASSUME NEW c \in Clients, client'[c].pc = "append", client'[c].s = s, client'[c].n = n
               PROVE  FALSE
    BY DEF InFlight
  <1>1. client[c].s = s
    BY ClientSteps
  <1>2. CASE Continues(c)
    BY <1>1, <1>2 DEF Continues, InFlight
  <1>3. CASE Recorded(c, client[c].s, client'[c].n)
    BY <1>1, <1>3 DEF Recorded
  <1> QED
    BY <1>2, <1>3, Started

\* Files stay sound: the write that is acknowledged is in no file with a footer.
LEMMA SoundStep ==
  ASSUME BaseInv, FileInv, [Next]_vars
  PROVE  FilesSound'
  <1> USE DEF BaseInv
  <1> SUFFICES ASSUME NEW s \in Shards, NEW n \in Names, NEW f \in DOMAIN files'[s][n]
               PROVE  Sound(files'[s][n][f], mem'[s][n])
    BY DEF FilesSound
  <1>1. CASE UNCHANGED mem
    <2>1. Fate(s, n, f)
      BY FileFates
    <2>2. CASE Kept(s, n, f)
      BY <1>1, <2>2 DEF Kept, FileInv, FilesSound
    <2>3. CASE Fresh(s, n, f)
      BY <2>3 DEF Fresh, Sound
    <2>4. CASE Closed(s, n, f)
      BY <1>1, <2>4 DEF Closed
    <2>5. ASSUME NEW c \in Clients, Grown(c, s, n, f) PROVE Sound(files'[s][n][f], mem'[s][n])
      BY Zenon, <2>5, SoundFiles DEF Grown
    <2> QED
      BY Zenon, <2>1, <2>2, <2>3, <2>4, <2>5 DEF Fate
  <1>2. ASSUME NEW c \in Clients, Ack(c) PROVE Sound(files'[s][n][f], mem'[s][n])
    <2> DEFINE g == files[s][n][f]
               w == <<c, client[c].w>>
    <2>1. files' = files /\ client[c].pc = "append" /\ mem'[s][n] \subseteq mem[s][n] \cup {w}
      <3>1. Indexed(c, s, n) /\ UNCHANGED files /\ client[c].pc = "append"
        BY <1>2, AckedAt
      <3> QED
        BY <3>1 DEF Indexed
    <2>2. f \in DOMAIN files[s][n] /\ Sound(g, mem[s][n]) /\ client[c].w \in Nat
      BY <2>1 DEF FileInv, FilesSound, Types, ClientTypes
    <2>3. CASE OnlyRecords(g)
      BY <2>1, <2>3, SoundFiles
    <2>4. CASE w \notin RecordsIn(g)
      <3>1. mem'[s][n] \cap RecordsIn(g) \subseteq mem[s][n]
        BY <2>1, <2>4
      <3> QED
        BY <2>1, <2>2, <3>1, SoundFiles
    <2>5. w \in RecordsIn(g) => OnlyRecords(g)
      <3>1. w \in RecordsIn(g) => NumberOk(s, n, f, w)
        BY Zenon, <2>2 DEF FileInv, Numbered
      <3>2. w[1] = c /\ w[2] = client[c].w /\ ~(client[c].w < client[c].w)
        BY <2>2
      <3> HIDE DEF w
      <3> QED
        BY <2>1, <3>1, <3>2 DEF NumberOk
    <2> QED
      BY <2>3, <2>4, <2>5
  <1> QED
    BY <1>1, <1>2, MemSteps

\* The active file of a namespace that takes writes has no footer.
LEMMA CleanStep ==
  ASSUME BaseInv, FileInv, [Next]_vars, Types'
  PROVE  ActiveClean'
  <1> SUFFICES ASSUME NEW s \in Shards, NEW n \in Names, ~ns'[s][n].frozen
               PROVE  OnlyRecords(files'[s][n][Active(s, n)'])
    BY DEF ActiveClean
  <1> DEFINE g == Active(s, n)'
  <1>0. OnlyRecords(<< >>)
    BY DEF OnlyRecords, Records
  <1>1. g = Len(files'[s][n]) /\ Active(s, n) = Len(files[s][n])
    BY DEF Active
  <1>2. files[s][n] \in Seq(Seq(Piece)) /\ files[s][n] # << >>
        /\ files'[s][n] \in Seq(Seq(Piece)) /\ files'[s][n] # << >>
    BY DEF BaseInv, Types, FilesTypes
  <1>3. g \in DOMAIN files'[s][n]
    BY <1>1, <1>2
  <1>4. CASE ns[s][n].frozen
    <2>1. files'[s][n] = Append(files[s][n], << >>)
      BY <1>4, Thaw
    <2>2. \A fs \in Seq(Seq(Piece)) : Append(fs, << >>)[Len(Append(fs, << >>))] = << >>
      OBVIOUS
    <2> QED
      BY Zenon, <1>0, <1>1, <1>2, <2>1, <2>2
  <1>5. CASE ~ns[s][n].frozen
    <2>1. Fate(s, n, g) /\ DOMAIN files[s][n] \subseteq DOMAIN files'[s][n]
      BY <1>3, FileFates
    <2>2. g \in DOMAIN files[s][n] => g = Active(s, n)
      <3>1. ASSUME NEW p \in Seq(Seq(Piece)), NEW q \in Seq(Seq(Piece)), p # << >>,
                   DOMAIN p \subseteq DOMAIN q, Len(q) \in DOMAIN p
            PROVE  Len(q) = Len(p)
        <4>1. Len(p) \in DOMAIN p /\ Len(p) \in Nat /\ Len(q) \in Nat
          BY <3>1
        <4>2. Len(p) \in 1..Len(q) /\ Len(q) \in 1..Len(p)
          BY <3>1, <4>1
        <4> QED
          BY <4>1, <4>2
      <3> QED
        BY Zenon, <1>1, <1>2, <2>1, <3>1
    <2> HIDE DEF g
    <2>3. OnlyRecords(files[s][n][Active(s, n)])
      BY <1>5 DEF FileInv, ActiveClean
    <2>4. OnlyRecords(files'[s][n][g])
      BY Zenon, <1>0, <1>5, <2>1, <2>2, <2>3 DEF Fate, Kept, Fresh, Closed, Grown
    <2> QED
      BY <2>4 DEF g
  <1> QED
    BY <1>4, <1>5


\* What the index has stays in the files.
LEMMA IndexStep ==
  ASSUME BaseInv, FileInv, [Next]_vars
  PROVE  IndexBacked'
  <1> USE DEF BaseInv
  <1> SUFFICES ASSUME NEW s \in Shards, NEW n \in Names, NEW w \in mem'[s][n]
               PROVE  \E f \in DOMAIN files'[s][n] : w \in RecordsIn(files'[s][n][f])
    BY DEF IndexBacked
  <1>1. CASE w \in mem[s][n]
    <2>1. PICK f \in DOMAIN files[s][n] : w \in RecordsIn(files[s][n][f])
      BY <1>1 DEF FileInv, IndexBacked
    <2> QED
      BY <2>1, RecordsStay
  <1>2. CASE w \notin mem[s][n]
    <2>1. PICK c \in Clients : Ack(c)
      BY <1>2, MemSteps
    <2>2. Indexed(c, s, n) /\ UNCHANGED files /\ client[c].pc = "append"
      BY <2>1, AckedAt
    <2>3. s = client[c].s /\ n = client[c].n /\ w = <<c, client[c].w>>
      BY <1>2, <2>2 DEF Indexed
    <2>4. Backed(c)
      BY <2>2 DEF FileInv, AppendsBacked
    <2> QED
      BY Zenon, <2>2, <2>3, <2>4 DEF Backed
  <1> QED
    BY <1>1, <1>2

\* A write under way is in a file.
LEMMA AppendsStep ==
  ASSUME BaseInv, FileInv, [Next]_vars
  PROVE  AppendsBacked'
  <1> USE DEF BaseInv
  <1> SUFFICES ASSUME NEW c \in Clients, client'[c].pc = "append" PROVE Backed(c)'
    BY DEF AppendsBacked
  <1>1. client'[c].s = client[c].s /\ client[c].s \in Shards
    BY ClientSteps DEF Types, ClientTypes
  <1>2. CASE Continues(c)
    <2> DEFINE s == client[c].s
               n == client[c].n
    <2>1. client[c].pc = "append" /\ client'[c].n = n /\ client'[c].w = client[c].w /\ n \in Names
      BY <1>2 DEF Continues, Types, ClientTypes
    <2>2. PICK f \in DOMAIN files[s][n] :
            OnlyRecords(files[s][n][f]) /\ <<c, client[c].w>> \in RecordsIn(files[s][n][f])
      BY Zenon, <2>1 DEF FileInv, AppendsBacked, Backed
    <2>3. InFlight(s, n) # {}
      BY <2>1 DEF InFlight
    <2>4. f \in DOMAIN files'[s][n] /\ OnlyRecords(files'[s][n][f])
          /\ <<c, client[c].w>> \in RecordsIn(files'[s][n][f])
      BY Zenon, <1>1, <2>1, <2>2, <2>3, RecordsStay
    <2> QED
      BY Zenon, <1>1, <2>1, <2>4 DEF Backed
  <1>3. CASE client'[c].n \in Names /\ Recorded(c, client[c].s, client'[c].n)
    <2> DEFINE s == client[c].s
               n == client'[c].n
               f == Active(s, n)
    <2>1. Grown(c, s, n, f)
      BY Zenon, <1>1, <1>3, GrownFile DEF FileInv
    <2>2. DOMAIN files[s][n] \subseteq DOMAIN files'[s][n] /\ client'[c].w = client[c].w
      BY Zenon, <1>1, <1>3, FileFates DEF Recorded
    <2> HIDE DEF f
    <2>3. f \in DOMAIN files'[s][n] /\ OnlyRecords(files'[s][n][f])
          /\ <<c, client[c].w>> \in RecordsIn(files'[s][n][f])
      BY Zenon, <2>1, <2>2 DEF Grown
    <2> QED
      BY Zenon, <1>1, <2>2, <2>3 DEF Backed
  <1> QED
    BY <1>2, <1>3, Started

\* The records of a client are numbered.
LEMMA NumberedStep ==
  ASSUME BaseInv, FileInv, [Next]_vars
  PROVE  Numbered'
  <1> USE DEF BaseInv
  <1> SUFFICES ASSUME NEW s \in Shards, NEW n \in Names, NEW f \in DOMAIN files'[s][n],
                      NEW w \in RecordsIn(files'[s][n][f])
               PROVE  NumberOk(s, n, f, w)'
    BY DEF Numbered
  <1>1. Fate(s, n, f)
    BY FileFates
  <1>2. CASE f \in DOMAIN files[s][n] /\ w \in RecordsIn(files[s][n][f])
    <2> DEFINE c == w[1]
    <2>1. NumberOk(s, n, f, w)
      BY Zenon, <1>2 DEF FileInv, Numbered
    <2>2. c \in Clients /\ w[2] \in Nat /\ client[c].w \in Nat
      <3>1. w \in Writes
        BY Zenon, <1>2, FileAt
      <3>2. c \in Clients /\ w[2] \in Nat
        BY <3>1 DEF Writes
      <3>3. client[c].w \in Nat
        BY <3>2 DEF Types, ClientTypes
      <3> QED
        BY Zenon, <3>2, <3>3
    <2>3. /\ client'[c].w = client[c].w \/ (Ack(c) /\ client'[c].w = client[c].w + 1)
          /\ client[c].pc = "gone" => client'[c].pc = "gone" /\ ~Ack(c)
          /\ client[c].pc = "append" =>
               client'[c] = client[c] \/ Ack(c) \/ client'[c].pc = "gone"
      BY Zenon, <2>2, NumberSteps, AckedAt
    <2>4. CASE w[2] < client[c].w
      <3>1. \A a, b, d \in Nat : a < b /\ (d = b \/ d = b + 1) => a < d
        OBVIOUS
      <3>2. client'[c].w = client[c].w \/ client'[c].w = client[c].w + 1
        BY Zenon, <2>3
      <3>3. client'[c].w \in Nat
        BY <3>2, <2>2
      <3>4. w[2] < client'[c].w
        BY Zenon, <2>2, <2>4, <3>1, <3>2, <3>3
      <3> QED
        BY Zenon, <3>4 DEF NumberOk
    <2>5. CASE w[2] = client[c].w /\ client[c].pc = "gone"
      BY <2>3, <2>5 DEF NumberOk
    <2>6. CASE /\ w[2] = client[c].w /\ client[c].pc = "append" /\ client[c].s = s /\ client[c].n = n
               /\ OnlyRecords(files[s][n][f])
      <3>1. OnlyRecords(files'[s][n][f])
        <4>1. InFlight(s, n) # {}
          BY Zenon, <2>2, <2>6 DEF InFlight
        <4> QED
          BY Zenon, <1>2, <2>6, <4>1, RecordsStay
      <3>2. CASE client'[c] = client[c]
        BY <2>6, <3>1, <3>2 DEF NumberOk
      <3>3. CASE client'[c].w = client[c].w + 1
        <4>1. w[2] < client'[c].w
          BY <2>2, <2>6, <3>3
        <4> QED
          BY <4>1 DEF NumberOk
      <3>4. CASE client'[c].pc = "gone" /\ client'[c].w = client[c].w
        BY <2>6, <3>4 DEF NumberOk
      <3>5. Ack(c) => client'[c].w = client[c].w + 1
        BY Zenon, <1>2, <2>2, AckedAt
      <3> QED
        BY Zenon, <2>3, <2>6, <3>2, <3>3, <3>4, <3>5
    <2> QED
      BY Zenon, <2>1, <2>4, <2>5, <2>6 DEF NumberOk
  <1>3. ASSUME NEW c \in Clients, Grown(c, s, n, f), w = <<c, client[c].w>> PROVE NumberOk(s, n, f, w)'
    <2>1. w[1] = c /\ w[2] = client[c].w
      BY <1>3
    <2>2. client'[c].pc = "append" /\ client'[c].s = s /\ client'[c].n = n /\ client'[c].w = client[c].w
          /\ OnlyRecords(files'[s][n][f])
      BY Zenon, <1>3 DEF Grown, Recorded
    <2> QED
      BY Zenon, <2>1, <2>2 DEF NumberOk
  <1>4. \/ f \in DOMAIN files[s][n] /\ w \in RecordsIn(files[s][n][f])
        \/ \E c \in Clients : Grown(c, s, n, f) /\ w = <<c, client[c].w>>
    <2>1. RecordsIn(<< >>) = {}
      BY DEF RecordsIn, Records
    <2> QED
      BY ZenonT(30), <1>1, <2>1 DEF Fate, Kept, Fresh, Closed, Grown
  <1> QED
    BY Zenon, <1>2, <1>3, <1>4


\* A namespace that a seal left alone in this step.
LEMMA ItemKept ==
  ASSUME NEW s \in Shards, NEW who \in Sealers, NEW n \in Names, SealItemOk(s, who, n),
         seals'[s][who].at[n] = seals[s][who].at[n],
         seals'[s][who].drained = seals[s][who].drained,
         ns'[s][n].frozen, files'[s][n] = files[s][n],
         seals[s][who].drained => InFlight(s, n)' = {} /\ mem'[s][n] = mem[s][n]
  PROVE  SealItemOk(s, who, n)'
  BY Zenon DEF SealItemOk, Active

\* While a seal is under way nobody else writes to its namespaces.
LEMMA ItemUndisturbed ==
  ASSUME BaseInv, CtlInv, CourseInv, Orderly, ctl.stage # "committed", FileInv, [Next]_vars,
         NEW s \in Shards, NEW who \in Sealers, NEW n \in Names,
         seals[s][who].on, n \in DOMAIN seals[s][who].at, seals'[s][who] = seals[s][who]
  PROVE  SealItemOk(s, who, n)'
  <1> USE DEF BaseInv
  <1>1. SealItemOk(s, who, n)
    BY DEF FileInv, SealsSound
  <1>2. ns[s][n].frozen /\ (seals[s][who].drained => InFlight(s, n) = {})
    BY Zenon, <1>1 DEF SealItemOk
  <1>3. ns'[s][n].frozen
    BY ZenonT(30), <1>2, SealAlone, Thaw
  <1>4. seals[s][who].drained => InFlight(s, n)' = {}
    BY <1>2, NoNewFlight
  <1>5. files'[s][n] = files[s][n]
    <2>1. \A c \in Clients : ~Recorded(c, s, n)
      BY <1>2 DEF Recorded
    <2>2. ASSUME NEW by \in Sealers, BodyWritten(s, by, n) \/ TrailerWritten(s, by, n) PROVE FALSE
      <3>1. SealStep(s, by, n) /\ seals[s][by].on
            /\ seals[s][by].at[n].stage \in {"body", "trailer"}
        BY Zenon, <2>2 DEF BodyWritten, TrailerWritten, Footed, SealStep
      <3>2. by = who
        BY <3>1, SealAlone
      <3>3. seals[s][who] \in SealType /\ seals[s][who].at[n] \in SealItem
        BY DEF Types, SealsTypes, SealType, SealMaps
      <3>4. ASSUME NEW x, seals' = [seals EXCEPT ![s][who].at[n] = x] PROVE seals'[s][who].at[n] = x
        BY <3>3, <3>4 DEF Types, SealsTypes, SealType
      <3>5. CASE seals[s][who].at[n].stage = "body"
        <4>1. PICK ws : seals' = [seals EXCEPT ![s][who].at[n] =
                                    [seals[s][who].at[n] EXCEPT !.stage = "trailer", !.has = ws]]
          BY Zenon, <3>1, <3>2, <3>5 DEF SealStep
        <4>2. seals'[s][who].at[n] = [seals[s][who].at[n] EXCEPT !.stage = "trailer", !.has = ws]
          BY Zenon, <3>4, <4>1
        <4>3. seals'[s][who].at[n].stage = "trailer"
          BY <3>3, <4>2 DEF SealItem
        <4> QED
          BY <3>5, <4>3
      <3>6. CASE seals[s][who].at[n].stage = "trailer"
        <4>1. seals' = [seals EXCEPT ![s][who].at[n] = [seals[s][who].at[n] EXCEPT !.stage = "done"]]
          BY Zenon, <3>1, <3>2, <3>6 DEF SealStep
        <4>2. seals'[s][who].at[n] = [seals[s][who].at[n] EXCEPT !.stage = "done"]
          BY ZenonT(30), <3>4, <4>1
        <4>3. seals'[s][who].at[n].stage = "done"
          BY <3>3, <4>2 DEF SealItem
        <4> QED
          BY <3>6, <4>3
      <3> QED
        BY <3>1, <3>2, <3>5, <3>6
    <2> QED
      BY Zenon, <2>1, <2>2, SealAlone, FileSteps
  <1>6. seals[s][who].drained => mem'[s][n] = mem[s][n]
    <2>1. ASSUME NEW c \in Clients, Ack(c), seals[s][who].drained PROVE mem'[s][n] = mem[s][n]
      <3>1. Indexed(c, s, n) /\ client[c].pc = "append"
        BY <2>1, AckedAt
      <3>2. ~(client[c].s = s /\ client[c].n = n)
        BY <1>2, <2>1, <3>1 DEF InFlight
      <3> QED
        BY <3>1, <3>2 DEF Indexed
    <2> QED
      BY <2>1, MemSteps
  <1> QED
    BY <1>1, <1>3, <1>4, <1>5, <1>6, ItemKept

\* A seal goes on in one of its namespaces.
LEMMA ItemSealed ==
  ASSUME BaseInv, FileInv, FilesTypes', NEW s \in Shards, NEW who \in Sealers, NEW n \in Names,
         SealStep(s, who, n) \/ SealFails(s, who, n)
  PROVE  SealItemOk(s, who, n)'
  <1> USE DEF BaseInv, Types
  <1> DEFINE it == seals[s][who].at[n]
             new == seals'[s][who].at[n]
  <1>1. seals[s][who].on /\ seals[s][who].drained /\ n \in DOMAIN seals[s][who].at
        /\ UNCHANGED <<ns, mem, client>>
    BY Zenon DEF SealStep, SealFails
  <1>2. SealItemOk(s, who, n) /\ it \in SealItem /\ seals[s][who] \in SealType
    <2>1. SealItemOk(s, who, n)
      BY Zenon, <1>1 DEF FileInv, SealsSound
    <2>2. seals[s][who] \in SealType
      BY DEF SealsTypes
    <2>3. seals[s][who].at \in SealMaps
      BY <2>2 DEF SealType
    <2>4. it \in SealItem
      BY <2>3, <1>1 DEF SealMaps
    <2> QED
      BY Zenon, <2>1, <2>2, <2>4
  <1>3. ns'[s][n].frozen /\ InFlight(s, n)' = {}
    BY ZenonT(30), <1>1, <1>2 DEF SealItemOk, InFlight
  <1>4. ASSUME NEW x, seals' = [seals EXCEPT ![s][who].at[n] = x]
        PROVE  new = x /\ seals'[s][who].drained
    BY <1>1, <1>2, <1>4 DEF SealsTypes, SealType
  <1>5. Active(s, n) \in DOMAIN files[s][n] /\ files[s][n] \in Seq(Seq(Piece))
    BY FileAt
  <1>6. CASE SealFails(s, who, n)
    <2>1. seals' = [seals EXCEPT ![s][who].at[n] = [it EXCEPT !.stage = "failed"]]
      BY <1>6 DEF SealFails
    <2>2. new = [it EXCEPT !.stage = "failed"] /\ seals'[s][who].drained
      BY ZenonT(30), <1>4, <2>1
    <2>3. new.stage = "failed"
      BY <1>2, <2>2 DEF SealItem
    <2> QED
      BY ZenonT(30), <1>3, <2>3 DEF SealItemOk
  <1>7. CASE /\ it.stage = "sync" /\ UNCHANGED files
             /\ seals' = [seals EXCEPT ![s][who].at[n] =
                            [it EXCEPT !.stage = "body", !.file = Active(s, n)]]
    <2>1. new = [it EXCEPT !.stage = "body", !.file = Active(s, n)] /\ seals'[s][who].drained
      BY Zenon, <1>4, <1>7
    <2>2. new.stage = "body" /\ new.file = Active(s, n) /\ Active(s, n)' = Active(s, n)
      BY ZenonT(30), <1>2, <1>7, <2>1 DEF SealItem, Active
    <2> QED
      BY <1>3, <2>1, <2>2 DEF SealItemOk
  <1>8. CASE /\ it.stage = "body"
             /\ seals' = [seals EXCEPT ![s][who].at[n] =
                            [it EXCEPT !.stage = "trailer", !.has = Entries(s, n, it.file)]]
             /\ files' = Extended(s, n, it.file, Body(Entries(s, n, it.file)))
    <2> DEFINE has == Entries(s, n, it.file)
               f == files[s][n][it.file]
    <2>1. new = [it EXCEPT !.stage = "trailer", !.has = has] /\ seals'[s][who].drained
      BY ZenonT(30), <1>4, <1>8
    <2>2. new.stage = "trailer" /\ new.file = it.file /\ new.has = has
      BY <1>2, <2>1 DEF SealItem
    <2>3. it.file = Active(s, n)
      BY <1>2, <1>8 DEF SealItemOk
    <2>4. f \in Seq(Piece) /\ has = mem[s][n] \cap RecordsIn(f) /\ has \subseteq Writes
      <3>1. f \in Seq(Piece)
        BY Zenon, <2>3, FileAt
      <3>2. has = mem[s][n] \cap RecordsIn(f)
        BY Zenon DEF Entries, RecordsIn
      <3>3. mem[s][n] \subseteq Writes
        BY DEF MemTypes
      <3> QED
        BY Zenon, <3>1, <3>2, <3>3
    <2>5. Body(has) \in Piece /\ Body(has).kind # "record"
      BY Zenon, <2>4 DEF Body, Piece
    <2>6. Extends(s, n, it.file, Body(has))
      BY Zenon, <1>8, ExtendedAt
    <2>7. files'[s][n] = [files[s][n] EXCEPT ![it.file] = Append(@, Body(has))]
      BY Zenon, <2>6 DEF Extends
    <2> HIDE DEF has
    <2>8. DOMAIN files'[s][n] = DOMAIN files[s][n] /\ files'[s][n][it.file] = Append(f, Body(has))
      BY Zenon, <1>5, <2>3, <2>7, PieceAt
    <2>9. Active(s, n)' = it.file
      <3>1. \A x, y \in Seq(Seq(Piece)) : DOMAIN x = DOMAIN y => Len(x) = Len(y)
        OBVIOUS
      <3>2. files'[s][n] \in Seq(Seq(Piece))
        BY DEF FilesTypes
      <3>3. Len(files'[s][n]) = Len(files[s][n])
        BY Zenon, <1>5, <2>8, <3>1, <3>2
      <3> QED
        BY <2>3, <3>3 DEF Active
    <2> HIDE DEF f
    <2>10. Append(f, Body(has)) # << >>
           /\ Append(f, Body(has))[Len(Append(f, Body(has)))] = Body(has)
      BY <2>4, <2>5
    <2>11. RecordsIn(Append(f, Body(has))) = RecordsIn(f)
      BY <2>4, <2>5, FooterAppended
    <2>12. mem'[s][n] = mem[s][n]
      BY <1>1
    <2> HIDE DEF it, new
    <2>13. /\ files'[s][n][new.file] # << >>
           /\ files'[s][n][new.file][Len(files'[s][n][new.file])] = Body(new.has)
           /\ mem'[s][n] \cap RecordsIn(files'[s][n][new.file]) \subseteq new.has
      BY Zenon, <2>2, <2>4, <2>8, <2>10, <2>11, <2>12
    <2> QED
      BY <1>3, <2>1, <2>2, <2>9, <2>13 DEF SealItemOk, new
  <1>9. CASE it.stage = "trailer" /\ seals' = [seals EXCEPT ![s][who].at[n] = [it EXCEPT !.stage = "done"]]
    <2>1. new = [it EXCEPT !.stage = "done"] /\ seals'[s][who].drained
      BY ZenonT(30), <1>4, <1>9
    <2>2. new.stage = "done"
      BY <1>2, <2>1 DEF SealItem
    <2> QED
      BY Zenon, <1>3, <2>2 DEF SealItemOk
  <1> QED
    BY Zenon, <1>6, <1>7, <1>8, <1>9 DEF SealStep

\* The seals under way, at each step.
LEMMA SealsStep ==
  ASSUME BaseInv, CtlInv, CourseInv, Orderly, ctl.stage # "committed", FileInv, [Next]_vars,
         SealsTypes', FilesTypes'
  PROVE  SealsSound'
  <1> USE DEF BaseInv, Types
  <1> SUFFICES ASSUME NEW s \in Shards, NEW who \in Sealers, seals'[s][who].on,
                      NEW n \in DOMAIN seals'[s][who].at
               PROVE  SealItemOk(s, who, n)'
    BY DEF SealsSound
  <1>0. n \in Names /\ seals[s][who] \in SealType
    BY DEF SealsTypes, SealType, SealMaps
  <1>1. CASE seals'[s][who] = seals[s][who]
    BY <1>0, <1>1, ItemUndisturbed
  <1>2. CASE SealBegun(s, who)
    <2>1. seals'[s][who] = [on |-> TRUE, drained |-> FALSE, at |-> [m \in OpenNames(s) |-> Unsealed]]
      BY <1>2 DEF SealBegun, SealsTypes
    <2>2. ~seals'[s][who].drained /\ n \in OpenNames(s) /\ seals'[s][who].at[n].stage = "sync"
      BY <2>1 DEF Unsealed
    <2>3. ns'[s][n].frozen
      BY Zenon, <1>0, <1>2, <2>2, SealBegunNs DEF OpenNames
    <2> QED
      BY Zenon, <2>2, <2>3 DEF SealItemOk
  <1>3. CASE FreezeAndDrain(s, who)
    <2>1. seals[s][who].on /\ seals' = [seals EXCEPT ![s][who].drained = TRUE]
          /\ UNCHANGED <<client, ns, files, mem>>
          /\ \A m \in DOMAIN seals[s][who].at : InFlight(s, m) = {}
      BY <1>3 DEF FreezeAndDrain
    <2>2. seals'[s][who].at = seals[s][who].at /\ seals'[s][who].drained
      BY <1>0, <2>1 DEF SealsTypes, SealType
    <2>3. SealItemOk(s, who, n) /\ InFlight(s, n)' = {}
      BY <2>1, <2>2 DEF FileInv, SealsSound, InFlight
    <2> QED
      BY Zenon, <2>1, <2>2, <2>3 DEF SealItemOk, Active
  <1>4. ASSUME NEW m \in Names, SealStep(s, who, m) \/ SealFails(s, who, m) PROVE SealItemOk(s, who, n)'
    <2>1. CASE m = n
      BY <1>4, <2>1, ItemSealed
    <2>2. CASE m # n
      <3>1. PICK x : seals' = [seals EXCEPT ![s][who].at[m] = x]
        BY Zenon, <1>4 DEF SealStep, SealFails
      <3>2. seals[s][who].on /\ UNCHANGED <<ns, mem, client>>
        BY Zenon, <1>4 DEF SealStep, SealFails
      <3>3. seals'[s][who] = [seals[s][who] EXCEPT !.at = [seals[s][who].at EXCEPT ![m] = x]]
        BY <3>1 DEF SealsTypes
      <3>4. seals'[s][who].drained = seals[s][who].drained
            /\ DOMAIN seals'[s][who].at = DOMAIN seals[s][who].at
            /\ seals'[s][who].at[n] = seals[s][who].at[n]
        BY <1>0, <2>2, <3>3 DEF SealType, SealMaps
      <3>5. SealItemOk(s, who, n)
        BY Zenon, <3>2, <3>4 DEF FileInv, SealsSound
      <3>6. files'[s][n] = files[s][n]
        <4>1. UNCHANGED files \/ \E f, p : files' = Extended(s, m, f, p)
          BY Zenon, <1>4 DEF SealStep, SealFails
        <4>2. ASSUME NEW f, NEW p, files' = Extended(s, m, f, p) PROVE files'[s][n] = files[s][n]
          <5>1. Extends(s, m, f, p)
            BY <4>2, ExtendedAt
          <5> QED
            BY Zenon, <1>0, <2>2, <5>1 DEF Extends
        <4> QED
          BY <4>1, <4>2
      <3>7. ns'[s][n].frozen /\ mem'[s][n] = mem[s][n]
            /\ (seals[s][who].drained => InFlight(s, n)' = {})
        BY Zenon, <3>2, <3>5 DEF SealItemOk, InFlight
      <3> QED
        BY Zenon, <1>0, <3>4, <3>5, <3>6, <3>7, ItemKept
    <2> QED
      BY <2>1, <2>2
  <1> QED
    BY Zenon, <1>1, <1>2, <1>3, <1>4, SealSteps DEF HandleSeal, WorkerEnds


-----------------------------------------------------------------------------
(* The acknowledged writes.                                                *)

\* What a step acknowledges: the write of a client whose append is over, or one that the
\* successor has taken.
LEMMA AckSteps ==
  ASSUME [Next]_vars
  PROVE  \/ UNCHANGED acked
         \/ \E c \in Clients : Ack(c)
         \/ \E c \in Clients : EarlyHttp(c)
  <1>1. ASSUME Control \/ Drain \/ Sigterm \/ Watchdog \/ UNCHANGED vars PROVE UNCHANGED acked
    BY <1>1 DEF Control, Drain, Sigterm, Watchdog, vars, Own, DrainReplies, DrainConns, Seal,
       SealReplies, Resume, ResumeReplies, SupervisorAborts, SuccessorOpens, SuccessorDies, Commit
  <1>2. ASSUME NEW s \in Shards, WorkerStep(s) PROVE UNCHANGED acked
    BY ZenonT(30), <1>2 DEF WorkerStep, HandleDrain, HandleSeal, HandleSealEnd, HandleResume, WorkerEnds,
       WorkerGone, FreezeAndDrain, SealStep, SealFails, serve_loop
  <1>3. ASSUME NEW p \in Protos, EndLoop(p) PROVE UNCHANGED acked
    BY <1>3 DEF EndLoop
  <1>4. ASSUME NEW c \in Clients, Accept(c) \/ accept_one(c) \/ Opened(c) \/ Leave(c)
        PROVE  UNCHANGED acked
    BY Zenon, <1>4 DEF Accept, accept_one, Opened, Leave
  <1>5. ASSUME NEW c \in Clients, NEW n \in Names, Write(c, n) PROVE UNCHANGED acked
    BY <1>5 DEF Write
  <1> QED
    BY Zenon, <1>1, <1>2, <1>3, <1>4, <1>5 DEF Next, Progress

\* What a step does to what the successor has.
LEMMA SuccessorSteps ==
  ASSUME [Next]_vars
  PROVE  \/ UNCHANGED nmem
         \/ SuccessorOpens
         \/ SuccessorDies
         \/ \E c \in Clients : EarlyHttp(c)
  <1>1. ASSUME Control PROVE UNCHANGED nmem \/ SuccessorOpens \/ SuccessorDies
    BY <1>1 DEF Control, DrainReplies, DrainConns, Seal, SealReplies, Resume, ResumeReplies,
       SupervisorAborts, Commit
  <1>2. ASSUME Drain \/ Sigterm \/ Watchdog \/ UNCHANGED vars PROVE UNCHANGED nmem
    BY <1>2 DEF Drain, Sigterm, Watchdog, vars
  <1>3. ASSUME NEW s \in Shards, WorkerStep(s) PROVE UNCHANGED nmem
    BY ZenonT(30), <1>3 DEF WorkerStep, HandleDrain, HandleSeal, HandleSealEnd, HandleResume, WorkerEnds,
       WorkerGone, FreezeAndDrain, SealStep, SealFails, serve_loop
  <1>4. ASSUME NEW p \in Protos, EndLoop(p) PROVE UNCHANGED nmem
    BY <1>4 DEF EndLoop
  <1>5. ASSUME NEW c \in Clients, Accept(c) \/ accept_one(c) \/ Opened(c) \/ Ack(c) \/ Leave(c)
        PROVE  UNCHANGED nmem
    BY ZenonT(30), <1>5 DEF Accept, accept_one, Opened, Ack, Leave
  <1>6. ASSUME NEW c \in Clients, NEW n \in Names, Write(c, n) PROVE UNCHANGED nmem
    BY <1>6 DEF Write
  <1> QED
    BY Zenon, <1>1, <1>2, <1>3, <1>4, <1>5, <1>6 DEF Next, Progress

\* The directory comes to the successor when it has opened the files.  It gives it up
\* when it dies.
LEMMA LockMoves ==
  ASSUME [Next]_vars, lock = "N" => ctl.stage # "sealing"
  PROVE  /\ lock' = "N" => lock = "N" \/ SuccessorOpens
         /\ lock = "N" => lock' = "N" \/ SuccessorDies
  <1> DEFINE Goal == /\ lock' = "N" => lock = "N" \/ SuccessorOpens
                     /\ lock = "N" => lock' = "N" \/ SuccessorDies
  <1>1. ASSUME Control PROVE Goal
    <2>1. CASE DrainReplies \/ DrainConns \/ Seal \/ Resume \/ ResumeReplies \/ Commit
      BY <2>1 DEF DrainReplies, DrainConns, Seal, Resume, ResumeReplies, Commit
    <2>2. CASE SupervisorAborts
      BY <2>2 DEF SupervisorAborts
    <2>3. CASE SealReplies
      BY <2>3 DEF SealReplies
    <2>4. CASE SuccessorOpens \/ SuccessorDies
      BY <2>4 DEF SuccessorOpens, SuccessorDies
    <2> QED
      BY <1>1, <2>1, <2>2, <2>3, <2>4 DEF Control
  <1>2. ASSUME Drain \/ Sigterm \/ Watchdog \/ UNCHANGED vars PROVE UNCHANGED lock
    BY <1>2 DEF Drain, Sigterm, Watchdog, vars
  <1>3. ASSUME NEW s \in Shards, WorkerStep(s) PROVE UNCHANGED lock
    BY ZenonT(30), <1>3 DEF WorkerStep, HandleDrain, HandleSeal, HandleSealEnd, HandleResume, WorkerEnds,
       WorkerGone, FreezeAndDrain, SealStep, SealFails, serve_loop
  <1>4. ASSUME NEW p \in Protos, EndLoop(p) PROVE UNCHANGED lock
    BY <1>4 DEF EndLoop
  <1>5. ASSUME NEW c \in Clients, Accept(c) \/ accept_one(c) \/ Opened(c) \/ Ack(c) \/ Leave(c)
                                  \/ EarlyHttp(c)
        PROVE  UNCHANGED lock
    BY ZenonT(30), <1>5 DEF Accept, accept_one, Opened, Ack, Leave, EarlyHttp
  <1>6. ASSUME NEW c \in Clients, NEW n \in Names, Write(c, n) PROVE UNCHANGED lock
    BY <1>6 DEF Write
  <1>7. UNCHANGED lock => Goal
    OBVIOUS
  <1> HIDE DEF Goal
  <1>8. Goal
    BY Zenon, <1>1, <1>2, <1>3, <1>4, <1>5, <1>6, <1>7 DEF Next, Progress
  <1> QED
    BY <1>8 DEF Goal


\* The index keeps what it has, and gets the writes it acknowledges.
LEMMA KnownGrows ==
  ASSUME Types, [Next]_vars
  PROVE  /\ Known \subseteq Known'
         /\ \A c \in Clients : Ack(c) => acked' = acked \cup {<<c, client[c].w>>}
                                         /\ <<c, client[c].w>> \in Known'
  <1>1. ASSUME NEW c \in Clients, Ack(c)
        PROVE  /\ Known \subseteq Known' /\ acked' = acked \cup {<<c, client[c].w>>}
               /\ <<c, client[c].w>> \in Known'
    <2> DEFINE w == <<c, client[c].w>>
    <2>1. \A s \in Shards, n \in Names : Indexed(c, s, n)
      BY <1>1, AckedAt
    <2>2. client[c].s \in Shards /\ client[c].n \in Names
      BY <1>1 DEF Types, ClientTypes, Ack
    <2> HIDE DEF w
    <2>3. \A s \in Shards, n \in Names : mem[s][n] \subseteq mem'[s][n]
      BY Zenon, <2>1 DEF Indexed
    <2>4. w \in mem'[client[c].s][client[c].n]
      BY ZenonT(30), <2>1, <2>2 DEF Indexed, w
    <2>5. \A s \in Shards, n \in Names : mem'[s][n] \subseteq Known'
      <3> SUFFICES ASSUME NEW s \in Shards, NEW n \in Names PROVE mem'[s][n] \subseteq Known'
        OBVIOUS
      <3>1. <<s, n>> \in EveryNs
        BY DEF EveryNs
      <3> QED
        BY <3>1 DEF Known
    <2>6. Known \subseteq Known'
      BY <2>3 DEF Known, EveryNs
    <2>7. acked' = acked \cup {w}
      BY <1>1 DEF Ack, w
    <2> QED
      BY <2>2, <2>4, <2>5, <2>6, <2>7 DEF w
  <1>2. ASSUME UNCHANGED mem PROVE Known' = Known
    BY <1>2 DEF Known
  <1> QED
    BY Zenon, <1>1, <1>2, MemSteps

\* What was acknowledged is in the index.
LEMMA KnownStep ==
  ASSUME Types, [Next]_vars, AckedKnown, Orderly, CourseInv, lock = "N" => ctl.stage # "sealing"
  PROVE  AckedKnown'
  <1>1. Scenario' = Scenario
    BY SameScenario
  <1>2. CASE Scenario.early /\ lock = "N"
    <2>1. ~SuccessorDies
      BY <1>2 DEF SuccessorDies, Orderly, Calm, CourseInv
    <2> QED
      BY <1>1, <1>2, <2>1, LockMoves DEF AckedKnown
  <1>3. CASE ~(Scenario.early /\ lock = "N")
    <2>1. acked \subseteq Known
      BY <1>3 DEF AckedKnown
    <2>2. ASSUME NEW c \in Clients PROVE ~EarlyHttp(c)
      BY <1>3 DEF EarlyHttp
    <2>3. acked' \subseteq Known'
      BY Zenon, <2>1, <2>2, AckSteps, KnownGrows
    <2> QED
      BY <2>3 DEF AckedKnown
  <1> QED
    BY <1>2, <1>3

\* What was acknowledged is in the successor's index.
LEMMA SuccessorStep ==
  ASSUME BaseInv, KeepInv, [Next]_vars, Orderly, Settled => NoWriterWithoutLock,
         lock = "N" => ctl.stage # "sealing", lock' = "N"
  PROVE  acked' \subseteq nmem'
  <1>1. CASE SuccessorOpens
    <2>1. ctl.stage = "sealed" /\ lock = "free" /\ UNCHANGED acked
          /\ (IF AllOpen THEN lock' = "N" /\ nmem' = AllFound ELSE UNCHANGED <<lock, nmem>>)
      BY <1>1 DEF SuccessorOpens, Own
    <2>2. FileInv
      BY <2>1 DEF KeepInv
    <2>3. AllOpen /\ Known \subseteq AllFound
      BY <2>2, AllIsFound DEF BaseInv, FileInv
    <2>4. acked \subseteq Known
      BY <2>1, <2>2 DEF FileInv, AckedKnown
    <2> QED
      BY <2>1, <2>3, <2>4
  <1>2. CASE ~SuccessorOpens
    <2>1. lock = "N" /\ acked \subseteq nmem
      BY <1>2, LockMoves DEF KeepInv
    <2>2. ~SuccessorDies
      BY DEF SuccessorDies
    <2>3. Settled
      BY <2>1 DEF Orderly, Calm, KeepInv, CourseInv
    <2>4. ASSUME NEW c \in Clients PROVE ~Ack(c)
      BY <2>1, <2>3 DEF NoWriterWithoutLock, Ack
    <2>5. ASSUME NEW c \in Clients, EarlyHttp(c)
          PROVE  acked' = acked \cup {<<c, client[c].w>>} /\ nmem' = nmem \cup {<<c, client[c].w>>}
      BY <2>5 DEF EarlyHttp
    <2>6. CASE \E c \in Clients : EarlyHttp(c)
      BY <2>1, <2>5, <2>6
    <2>7. CASE ~\E c \in Clients : EarlyHttp(c)
      BY <1>2, <2>1, <2>2, <2>4, <2>7, AckSteps, SuccessorSteps
    <2> QED
      BY <2>6, <2>7
  <1> QED
    BY <1>1, <1>2

\* With and without handoff, the acknowledged writes are kept.
LEMMA KeepIsInvariant == Spec => []KeepInv
  <1>1. Init /\ Types => KeepInv
    <2> SUFFICES ASSUME Init, Types PROVE KeepInv
      OBVIOUS
    <2>1. /\ \A c \in Clients : client[c].pc \in {"waiting", "gone"} /\ client[c].w = 0
          /\ \A s \in Shards, n \in Names :
               ~ns[s][n].frozen /\ files[s][n] = << << >> >> /\ mem[s][n] = {}
          /\ \A s \in Shards, who \in Sealers : ~seals[s][who].on
          /\ acked = {} /\ lock = "O" /\ ctl.stage = "idle" /\ ~shutdown
          /\ \A p \in Protos : loop[p] = "look"
      BY Zenon DEF Init, NotSealing
    <2>2. left.sigterm = Scenario.sigterm /\ left.attempts = Scenario.attempts
      <3>1. PICK i \in DOMAIN Scenarios :
              left = [of |-> i, attempts |-> Scenarios[i].attempts,
                      faults |-> Scenarios[i].faults, sigterm |-> Scenarios[i].sigterm,
                      successors |-> Scenarios[i].successors]
        BY Zenon DEF Init
      <3> QED
        BY Zenon, <3>1 DEF Scenario
    <2>3. CourseInv
      BY <2>1, <2>2 DEF CourseInv, Unended, Protos
    <2>4. RecordsIn(<< >>) = {} /\ OnlyRecords(<< >>) /\ Sound(<< >>, {})
      BY DEF RecordsIn, Records, OnlyRecords, Sound
    <2>5. \A s \in Shards, n \in Names :
            Active(s, n) = 1 /\ DOMAIN files[s][n] = {1} /\ files[s][n][1] = << >>
      <3>1. Len(<< << >> >>) = 1 /\ DOMAIN << << >> >> = {1} /\ << << >> >>[1] = << >>
        OBVIOUS
      <3> QED
        BY Zenon, <2>1, <3>1 DEF Active
    <2>6. FilesSound /\ ActiveClean /\ IndexBacked /\ Numbered
      <3>1. ASSUME NEW s \in Shards, NEW n \in Names, NEW f \in DOMAIN files[s][n]
            PROVE  files[s][n][f] = << >>
        BY <2>5
      <3>2. FilesSound
        BY Zenon, <2>1, <2>4, <3>1 DEF FilesSound
      <3>3. ActiveClean
        BY <2>4, <2>5 DEF ActiveClean
      <3>4. IndexBacked /\ Numbered
        BY Zenon, <2>1, <2>4, <3>1 DEF IndexBacked, Numbered
      <3> QED
        BY <3>2, <3>3, <3>4
    <2>7. AppendsBacked /\ SealsSound /\ AckedKnown
      BY Zenon, <2>1 DEF AppendsBacked, SealsSound, AckedKnown
    <2> QED
      BY <2>1, <2>3, <2>6, <2>7 DEF KeepInv, FileInv
  <1>2. BaseInv /\ CtlInv /\ (Settled => LockInv) /\ (Settled => NoWriterWithoutLock) /\ BaseInv'
        /\ KeepInv /\ [Next]_vars => KeepInv'
    <2> SUFFICES ASSUME BaseInv, CtlInv, Settled => LockInv, Settled => NoWriterWithoutLock,
                        BaseInv', KeepInv, [Next]_vars
                 PROVE  KeepInv'
      OBVIOUS
    <2>1. Types /\ Types' /\ Accepting /\ CourseInv
      BY DEF BaseInv, ConnInv, KeepInv
    <2>2. CourseInv'
      BY <2>1, CourseStep
    <2>3. Scenario' = Scenario /\ (Orderly' <=> Orderly)
      BY <2>1, SameScenario DEF Orderly, Calm, Settled
    <2>4. Orderly /\ lock = "N" => ctl.stage # "sealing"
      BY <2>1 DEF Orderly, Calm, CourseInv, LockInv, StageInv
    <2>5. (Orderly /\ lock = "N" => acked \subseteq nmem)'
      BY <2>3, <2>4, SuccessorStep
    <2>6. (Orderly /\ ctl.stage # "committed" => FileInv)'
      <3> SUFFICES ASSUME Orderly, ctl'.stage # "committed" PROVE FileInv'
        BY <2>3
      <3>1. ctl.stage # "committed"
        BY Zenon, <2>1, StageSteps DEF Drain, Commit
      <3>2. FileInv
        BY <3>1 DEF KeepInv
      <3>3. FilesSound' /\ ActiveClean' /\ IndexBacked' /\ AppendsBacked' /\ Numbered'
        BY <2>1, <3>2, SoundStep, CleanStep, IndexStep, AppendsStep, NumberedStep
      <3>4. SealsSound'
        BY <2>1, <3>1, <3>2, SealsStep DEF Types
      <3>5. AckedKnown'
        BY <2>1, <2>4, <3>2, KnownStep DEF FileInv
      <3> QED
        BY <3>3, <3>4, <3>5 DEF FileInv
    <2> QED
      BY <2>2, <2>5, <2>6 DEF KeepInv
  <1>3. BaseInv => Types
    BY DEF BaseInv
  <1> QED
    BY <1>1, <1>2, <1>3, BaseIsInvariant, CtlIsInvariant, LockIsInvariant, DirectoryHasOneWriter,
       PTL DEF Spec

\* No acknowledged write is lost by a handoff, or by a shutdown without one: the successor
\* that is committed to has every write in its index; after an attempt that was given up
\* this process has; and when the process exits, every file opens and every write is
\* recovered from them.
THEOREM AckedWritesAreKept == Spec => [](Orderly => AckedWritesSurvive)
  <1>1. BaseInv /\ CtlInv /\ (Settled => LockInv) /\ KeepInv => (Orderly => AckedWritesSurvive)
    <2> SUFFICES ASSUME BaseInv, CtlInv, Settled => LockInv, KeepInv, Orderly
                 PROVE  AckedWritesSurvive
      OBVIOUS
    <2>1. ctl.stage = "committed" => acked \subseteq nmem
      BY DEF KeepInv, CourseInv
    <2>2. ctl.stage = "idle" => acked \subseteq Known
      <3>1. ctl.stage = "idle" => lock = "O"
        BY DEF Orderly, Calm, LockInv, StageInv, KeepInv, CourseInv
      <3> QED
        BY <3>1 DEF KeepInv, FileInv, AckedKnown
    <2>3. ASSUME Exited, ctl.stage # "committed" PROVE AllOpen /\ acked \subseteq AllFound
      <3>1. 1 \in Shards
        BY HandoffAssumption DEF Shards
      <3>2. worker[1] = "gone"
        BY <2>3, <3>1 DEF Exited
      <3>3. ~Calm
        BY <2>3, <3>1, <3>2 DEF KeepInv, CourseInv, CtlInv
      <3>4. lock = "O" /\ FileInv
        BY <2>3, <3>3 DEF Orderly, KeepInv, CourseInv
      <3>5. AllOpen /\ Known \subseteq AllFound
        BY <3>4, AllIsFound DEF BaseInv, FileInv
      <3> QED
        BY <3>4, <3>5 DEF FileInv, AckedKnown
    <2> QED
      BY <2>1, <2>2, <2>3 DEF AckedWritesSurvive
  <1> QED
    BY <1>1, BaseIsInvariant, CtlIsInvariant, LockIsInvariant, KeepIsInvariant, PTL

=============================================================================
