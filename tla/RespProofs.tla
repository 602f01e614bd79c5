----------------------------- MODULE RespProofs -----------------------------
(***************************************************************************)
(* RespConn for every set of scripts: whatever a client pipelines, and     *)
(* wherever reads and flushes fall, the answers come in the order of the   *)
(* commands and in the version negotiated up to each of them.              *)
(***************************************************************************)
EXTENDS RespConn, TLAPS, FiniteSetTheorems

\* SMT has time for the larger steps; what it does not find is left to Zenon.
USE SMTT(30), ZenonT(30)

-----------------------------------------------------------------------------
(* The pieces between the client and the decoder.                          *)

Unread == Len(rbuf) + Len(wire)
\* The j-th piece the decoder has not taken: first those in the read buffer.
PieceAt(j) == IF j <= Len(rbuf) THEN rbuf[j] ELSE wire[j - Len(rbuf)]

StreamTypes ==
  /\ script.cmds \in Seq(STRING)
  /\ sent \in Nat /\ taken \in Nat
  /\ rbuf \in Seq(Nat \X {1, 2}) /\ wire \in Seq(Nat \X {1, 2})

\* The command at the head of every two pieces is the next one, and only the last command of
\* the script can be cut short.
StreamInv ==
  /\ StreamTypes
  /\ \/ Unread = 2 * (sent - taken)
     \/ Unread = 2 * (sent - taken) - 1 /\ sent = Len(script.cmds)
  /\ \A j \in Nat \ {0} : 2 * j - 1 <= Unread => PieceAt(2 * j - 1)[1] = taken + j

\* The next frame the decoder gives is the next command's.
LEMMA NextIsNext ==
  ASSUME StreamInv, HasFrame
  PROVE  Next1 = taken + 1
<1>1. Len(rbuf) \in Nat /\ Len(rbuf) >= 2 /\ Len(wire) \in Nat
  BY DEF StreamInv, StreamTypes, HasFrame
<1>2. 1 \in Nat \ {0} /\ 2 * 1 - 1 = 1 /\ 1 <= Unread /\ 1 <= Len(rbuf)
  BY <1>1 DEF Unread
<1>3. PieceAt(1)[1] = taken + 1
  BY <1>2, Zenon DEF StreamInv
<1> QED
  BY <1>2, <1>3, Zenon DEF PieceAt, Next1

\* RespInit: nothing is on its way.
LEMMA StreamInit == RespInit => StreamInv
  BY ScriptsAssumption DEF RespInit, StreamInv, StreamTypes, Unread, PieceAt

\* A client's write goes behind what is on its way.
LEMMA StreamSend == StreamInv /\ ClientSends => StreamInv'
<1> SUFFICES ASSUME StreamInv, ClientSends PROVE StreamInv'
  OBVIOUS
<1> DEFINE new == IF Stalled(sent + 1) THEN <<<<sent + 1, 1>>>> ELSE Pieces(sent + 1)
<1>1. /\ new \in Seq(Nat \X {1, 2})
      /\ new[1][1] = sent + 1
      /\ Len(new) = 2 \/ (Len(new) = 1 /\ sent + 1 = Len(script.cmds))
  <2>1. sent + 1 \in Nat /\ <<sent + 1, 1>> \in Nat \X {1, 2} /\ <<sent + 1, 2>> \in Nat \X {1, 2}
    BY DEF StreamInv, StreamTypes
  <2>2. CASE Stalled(sent + 1)
    BY <2>1, <2>2 DEF Stalled
  <2>3. CASE ~Stalled(sent + 1)
    BY <2>1, <2>3 DEF Pieces
  <2> QED
    BY <2>2, <2>3
<1>2. /\ sent' = sent + 1 /\ wire' = wire \o new /\ rbuf' = rbuf /\ taken' = taken
      /\ script' = script /\ sent < Len(script.cmds)
  BY DEF ClientSends
<1> HIDE DEF new
<1>3. StreamTypes'
  BY <1>1, <1>2 DEF StreamInv, StreamTypes
<1>4. Unread = 2 * (sent - taken)
  BY <1>2 DEF StreamInv, StreamTypes
<1>5. Unread' = Unread + Len(new)
  BY <1>1, <1>2 DEF Unread, StreamInv, StreamTypes
<1>6. ASSUME NEW j \in Nat \ {0}, 2 * j - 1 <= Unread'
      PROVE  PieceAt(2 * j - 1)'[1] = taken' + j
  <2>0. /\ Len(rbuf) \in Nat /\ Len(wire) \in Nat /\ Len(new) \in Nat /\ 2 * j - 1 \in Nat
        /\ 1 <= 2 * j - 1
        /\ \A i \in 1..Len(wire) : wire'[i] = wire[i]
        /\ wire'[Len(wire) + 1] = new[1]
    BY <1>1, <1>2 DEF StreamInv, StreamTypes
  <2>1. CASE 2 * j - 1 <= Unread
    <3>1. PieceAt(2 * j - 1)' = PieceAt(2 * j - 1)
      <4>1. \A i \in Nat : i > Len(rbuf) /\ i <= Unread => i - Len(rbuf) \in 1..Len(wire)
        BY <2>0 DEF Unread
      <4>2. 2 * j - 1 <= Len(rbuf) \/ 2 * j - 1 > Len(rbuf)
        BY <2>0
      <4> QED
        BY <4>1, <4>2, <1>2, <2>0, <2>1, Zenon DEF PieceAt
    <3>2. PieceAt(2 * j - 1)[1] = taken + j
      BY <2>1, Zenon DEF StreamInv
    <3> QED
      BY <1>2, <3>1, <3>2, Zenon
  <2>2. CASE 2 * j - 1 > Unread
    <3>1. 2 * j - 1 = Unread + 1
      <4>1. \A a \in Int, l \in {1, 2} : 2 * j - 1 > 2 * a /\ 2 * j - 1 <= 2 * a + l
                                         => 2 * j - 1 = 2 * a + 1
        OBVIOUS
      <4>2. sent - taken \in Int /\ Len(new) \in {1, 2}
        BY <1>1 DEF StreamInv, StreamTypes
      <4> QED
        BY <4>1, <4>2, <1>4, <1>5, <1>6, <2>2, Zenon
    <3>2. PieceAt(2 * j - 1)' = new[1]
      <4>1. ~(Unread + 1 <= Len(rbuf)) /\ (Unread + 1) - Len(rbuf) = Len(wire) + 1
        BY <2>0 DEF Unread
      <4> QED
        BY <4>1, <3>1, <1>2, <2>0, Zenon DEF PieceAt
    <3>3. j = sent - taken + 1
      BY <3>1, <1>4 DEF StreamInv, StreamTypes
    <3> QED
      BY <3>2, <3>3, <1>1, <1>2 DEF StreamInv, StreamTypes
  <2> QED
    BY <2>1, <2>2 DEF Unread, StreamInv, StreamTypes
<1>7. \/ Unread' = 2 * (sent' - taken')
      \/ Unread' = 2 * (sent' - taken') - 1 /\ sent' = Len(script'.cmds)
  <2>1. \A a, b \in Int : 2 * (a - b) + 2 = 2 * ((a + 1) - b) /\ 2 * (a - b) + 1 = 2 * ((a + 1) - b) - 1
    OBVIOUS
  <2>2. sent \in Int /\ taken \in Int
    BY DEF StreamInv, StreamTypes
  <2>3. CASE Len(new) = 2
    <3>1. Unread' = 2 * (sent - taken) + 2
      BY <2>3, <1>4, <1>5, Zenon
    <3>2. 2 * (sent - taken) + 2 = 2 * ((sent + 1) - taken)
      BY <2>1, <2>2, Zenon
    <3> QED
      BY <3>1, <3>2, <1>2
  <2>4. CASE Len(new) = 1 /\ sent + 1 = Len(script.cmds)
    <3>1. Unread' = 2 * (sent - taken) + 1
      BY <2>4, <1>4, <1>5, Zenon
    <3>2. 2 * (sent - taken) + 1 = 2 * ((sent + 1) - taken) - 1
      BY <2>1, <2>2, Zenon
    <3> QED
      BY <3>1, <3>2, <2>4, <1>2
  <2> QED
    BY <2>3, <2>4, <1>1
<1> QED
  BY <1>3, <1>6, <1>7, Zenon DEF StreamInv

\* A read moves pieces into the buffer and changes none.
LEMMA StreamRead == StreamInv /\ Read => StreamInv'
<1> SUFFICES ASSUME StreamInv, Read PROVE StreamInv'
  OBVIOUS
<1>1. PICK n \in 1..Len(wire) : /\ rbuf' = rbuf \o SubSeq(wire, 1, n)
                                /\ wire' = SubSeq(wire, n + 1, Len(wire))
  BY DEF Read
<1>2. script' = script /\ sent' = sent /\ taken' = taken
  BY DEF Read
<1>3. /\ SubSeq(wire, 1, n) \in Seq(Nat \X {1, 2}) /\ Len(SubSeq(wire, 1, n)) = n
      /\ wire' \in Seq(Nat \X {1, 2}) /\ Len(wire') = Len(wire) - n
      /\ \A j \in 1..n : SubSeq(wire, 1, n)[j] = wire[j]
      /\ \A j \in 1..Len(wire) - n : wire'[j] = wire[n + j]
  BY <1>1 DEF StreamInv, StreamTypes
<1>4. /\ rbuf' \in Seq(Nat \X {1, 2}) /\ Len(rbuf') = Len(rbuf) + n
      /\ \A j \in 1..Len(rbuf) : rbuf'[j] = rbuf[j]
      /\ \A j \in 1..n : rbuf'[Len(rbuf) + j] = wire[j]
  BY <1>1, <1>3 DEF StreamInv, StreamTypes
<1>5. \A j \in 1..Unread : PieceAt(j)' = PieceAt(j)
  <2> SUFFICES ASSUME NEW j \in 1..Unread PROVE PieceAt(j)' = PieceAt(j)
    OBVIOUS
  <2>0. Len(rbuf) \in Nat /\ Len(wire) \in Nat
    BY DEF StreamInv, StreamTypes
  <2>1. CASE j <= Len(rbuf)
    BY <2>0, <2>1, <1>4 DEF PieceAt, Unread
  <2>2. CASE Len(rbuf) < j /\ j <= Len(rbuf) + n
    <3>1. j - Len(rbuf) \in 1..n /\ j = Len(rbuf) + (j - Len(rbuf))
      BY <2>0, <2>2 DEF Unread
    <3> QED
      BY <2>0, <2>2, <3>1, <1>4 DEF PieceAt, Unread
  <2>3. CASE j > Len(rbuf) + n
    <3>1. /\ j - (Len(rbuf) + n) \in 1..Len(wire) - n
          /\ j - Len(rbuf) = n + (j - (Len(rbuf) + n))
      BY <2>0, <2>3 DEF Unread
    <3>2. ~(j <= Len(rbuf')) /\ ~(j <= Len(rbuf)) /\ j - Len(rbuf') = j - (Len(rbuf) + n)
      BY <2>0, <2>3, <1>4 DEF Unread
    <3> QED
      BY <3>1, <3>2, <1>3, Zenon DEF PieceAt
  <2> QED
    BY <2>0, <2>1, <2>2, <2>3 DEF Unread
<1>6. Unread' = Unread
  BY <1>3, <1>4 DEF Unread, StreamInv, StreamTypes
<1>7. StreamTypes'
  BY <1>2, <1>3, <1>4 DEF StreamInv, StreamTypes
<1>8. \A j \in Nat \ {0} : 2 * j - 1 <= Unread => 2 * j - 1 \in 1..Unread
  BY DEF StreamInv, StreamTypes, Unread
<1>9. \A j \in Nat \ {0} : 2 * j - 1 <= Unread' => PieceAt(2 * j - 1)'[1] = taken' + j
  BY <1>2, <1>5, <1>6, <1>8, Zenon DEF StreamInv
<1> QED
  BY <1>2, <1>6, <1>7, <1>9, Zenon DEF StreamInv

\* A frame leaves the buffer.
LEMMA StreamTake ==
  ASSUME StreamInv, HasFrame, Taken, UNCHANGED <<script, sent, wire>>
  PROVE  StreamInv'
<1>1. /\ rbuf' \in Seq(Nat \X {1, 2}) /\ Len(rbuf') = Len(rbuf) - 2
      /\ \A j \in 1..Len(rbuf) - 2 : rbuf'[j] = rbuf[j + 2]
  BY DEF StreamInv, StreamTypes, HasFrame, Taken, Rest
<1>2. taken' = taken + 1
  BY DEF Taken
<1>3. \A j \in 1..Unread - 2 : PieceAt(j)' = PieceAt(j + 2)
  <2> SUFFICES ASSUME NEW j \in 1..Unread - 2 PROVE PieceAt(j)' = PieceAt(j + 2)
    OBVIOUS
  <2>0. Len(rbuf) \in Nat /\ Len(wire) \in Nat /\ Len(rbuf) >= 2
    BY DEF StreamInv, StreamTypes, HasFrame
  <2>1. CASE j <= Len(rbuf) - 2
    BY <2>0, <2>1, <1>1 DEF PieceAt, Unread
  <2>2. CASE j > Len(rbuf) - 2
    <3>1. (j + 2) - Len(rbuf) = j - (Len(rbuf) - 2)
      BY <2>0 DEF Unread
    <3> QED
      BY <2>0, <2>2, <3>1, <1>1 DEF PieceAt, Unread
  <2> QED
    BY <2>0, <2>1, <2>2 DEF Unread
<1>4. Unread' = Unread - 2
  BY <1>1 DEF Unread, StreamInv, StreamTypes, HasFrame
<1>5. Unread \in Nat
  BY DEF Unread, StreamInv, StreamTypes
<1>6. ASSUME NEW j \in Nat \ {0}, 2 * j - 1 <= Unread'
      PROVE  PieceAt(2 * j - 1)'[1] = taken' + j
  <2>1. PieceAt(2 * j - 1)' = PieceAt((2 * j - 1) + 2)
    BY <1>3, <1>4, <1>5, <1>6
  <2>2. (2 * j - 1) + 2 = 2 * (j + 1) - 1
    OBVIOUS
  <2>3. PieceAt(2 * (j + 1) - 1)[1] = taken + (j + 1)
    BY <1>4, <1>5, <1>6 DEF StreamInv
  <2> QED
    BY <2>1, <2>2, <2>3, <1>2 DEF StreamInv, StreamTypes
<1> QED
  BY <1>1, <1>2, <1>4, <1>5, <1>6 DEF StreamInv, StreamTypes

-----------------------------------------------------------------------------
(* The versions commands negotiate.                                        *)

\* No RESET among the first n commands.
Clean(n) == \A i \in 1..n : Kind(i) # "reset"

\* With one more command the negotiated version is that of a HELLO, and otherwise the one
\* before it.
LEMMA NegotiatedNext ==
  ASSUME NEW n \in Nat
  PROVE  /\ Kind(n + 1) = "hello2" => Negotiated(n + 1) = 2
         /\ Kind(n + 1) = "hello3" => Negotiated(n + 1) = 3
         /\ Kind(n + 1) \notin {"hello2", "hello3"} => Negotiated(n + 1) = Negotiated(n)
<1>1. CASE Kind(n + 1) \in {"hello2", "hello3"}
  <2>1. /\ n + 1 \in HellosUpTo(n + 1)
        /\ \A j \in HellosUpTo(n + 1) : j \in Nat /\ j <= n + 1
    BY <1>1 DEF HellosUpTo
  <2>2. /\ LastHello(n + 1) \in HellosUpTo(n + 1)
        /\ \A j \in HellosUpTo(n + 1) : j <= LastHello(n + 1)
    <3>1. \E i \in HellosUpTo(n + 1) : \A j \in HellosUpTo(n + 1) : j <= i
      BY <2>1
    <3> QED
      BY <3>1, Zenon DEF LastHello
  <2>3. LastHello(n + 1) = n + 1
    BY <2>1, <2>2
  <2> QED
    BY <1>1, <2>1, <2>3 DEF Negotiated
<1>2. CASE Kind(n + 1) \notin {"hello2", "hello3"}
  <2>1. HellosUpTo(n + 1) = HellosUpTo(n)
    BY <1>2 DEF HellosUpTo
  <2> QED
    BY <1>2, <2>1, Zenon DEF Negotiated, LastHello
<1> QED
  BY <1>1, <1>2

\* The version of the start is RESP2.
LEMMA NegotiatedFirst == Negotiated(0) = 2
  BY DEF Negotiated, HellosUpTo

-----------------------------------------------------------------------------
(* The answers.                                                            *)

Frames == [of : Nat, version : {2, 3}]

\* The n-th answer: those the client has, then those in the write buffer.
Reply(g, o, n) == IF n <= Len(g) THEN g[n] ELSE o[n - Len(g)]

\* Frame f is the answer to command n.
Answers(f, n) == f.of = n /\ (Clean(n) => f.version = Negotiated(n))

\* The frames g, and o after them, are the answers to the first m commands.
InOrder(g, o, m) == Len(g) + Len(o) = m /\ \A n \in 1..m : Answers(Reply(g, o, n), n)

\* The frames g are the answers to the first w commands, then only pushes.
UpTo(g, w) ==
  /\ w \in 0..Len(g)
  /\ \A n \in 1..w : Answers(g[n], n)
  /\ \A n \in w + 1 .. Len(g) :
       g[n].of = Push /\ (Clean(w) => g[n].version = Negotiated(w))

ReplyTypes ==
  /\ got \in Seq(Frames) /\ out \in Seq(Frames)
  /\ version \in {2, 3} /\ codec \in {2, 3}

\* While commands are served every command taken has its answer; a watch begins with the
\* write buffer empty, and nothing is written once the connection is closed.
ReplyInv ==
  /\ ReplyTypes
  /\ pc \in {"next", "watch", "closed"}
  /\ pc = "next" => InOrder(got, out, taken) /\ (Clean(taken) => codec = Negotiated(taken))
  /\ pc = "watch" => /\ out = << >>
                     /\ \E w \in Nat : UpTo(got, w) /\ (Clean(w) => codec = Negotiated(w))
  /\ pc = "closed" => \E w \in Nat : UpTo(got, w)

\* serve: no command, no answer, RESP2.
LEMMA ReplyInit == RespInit => ReplyInv
  BY NegotiatedFirst DEF RespInit, ReplyInv, ReplyTypes, InOrder, Reply, Frames

\* What the client has of the answers.
LEMMA GotOfAll ==
  ASSUME NEW g \in Seq(Frames), NEW o \in Seq(Frames), NEW m \in Nat, InOrder(g, o, m)
  PROVE  UpTo(g, Len(g)) /\ Len(g) \in Nat
<1>1. Len(g) \in Nat /\ Len(o) \in Nat /\ Len(g) + Len(o) = m
  BY DEF InOrder
<1>2. \A n \in 1..Len(g) : n \in 1..m /\ Reply(g, o, n) = g[n]
  BY <1>1 DEF Reply
<1>3. \A n \in 1..Len(g) : Answers(g[n], n)
  BY <1>2, Zenon DEF InOrder
<1>4. Len(g) \in 0..Len(g) /\ Len(g) + 1 .. Len(g) = {}
  BY <1>1
<1> QED
  BY <1>1, <1>3, <1>4, Zenon DEF UpTo

\* The script is the client's for good, and so are what it negotiates and what answers it.
LEMMA ScriptFixed ==
  ASSUME script' = script
  PROVE  /\ \A n : Clean(n)' <=> Clean(n)
         /\ \A n : Negotiated(n)' = Negotiated(n)
<1> SUFFICES ASSUME NEW n PROVE (Clean(n)' <=> Clean(n)) /\ Negotiated(n)' = Negotiated(n)
  OBVIOUS
<1>1. \A i : Kind(i)' = Kind(i)
  BY DEF Kind
<1>2. HellosUpTo(n)' = HellosUpTo(n)
  BY <1>1 DEF HellosUpTo
<1>3. LastHello(n)' = LastHello(n)
  BY <1>2, Zenon DEF LastHello
<1>4. Negotiated(n)' = Negotiated(n)
  BY <1>1, <1>2, <1>3, Zenon DEF Negotiated
<1>5. Clean(n)' <=> Clean(n)
  BY <1>1, Zenon DEF Clean
<1> QED
  BY <1>4, <1>5, Zenon

\* framed.send: one more answer, behind those before it, whichever of them it flushes.
LEMMA OneMoreReply ==
  ASSUME ReplyInv, pc = "next", taken \in Nat,
         NEW early \in BOOLEAN, NEW flush \in BOOLEAN, NEW f \in Frames,
         Sent(f, early, flush), Answers(f, taken + 1)
  PROVE  /\ got' \in Seq(Frames) /\ out' \in Seq(Frames)
         /\ InOrder(got', out', taken + 1)
<1> DEFINE before == IF early THEN got \o out ELSE got
           rest   == IF early THEN << >> ELSE out
<1>1. /\ before \in Seq(Frames) /\ rest \in Seq(Frames) /\ Len(before) + Len(rest) = taken
      /\ \A n \in 1..Len(before) : before[n] = Reply(got, out, n)
      /\ \A n \in 1..Len(rest) : rest[n] = Reply(got, out, Len(before) + n)
  <2>1. CASE early
    BY <2>1 DEF ReplyInv, ReplyTypes, Reply, InOrder
  <2>2. CASE ~early
    BY <2>2 DEF ReplyInv, ReplyTypes, Reply, InOrder
  <2> QED
    BY <2>1, <2>2
<1>2. /\ got' = IF flush THEN before \o Append(rest, f) ELSE before
      /\ out' = IF flush THEN << >> ELSE Append(rest, f)
  BY DEF Sent
<1> HIDE DEF before, rest
<1>3. /\ Append(rest, f) \in Seq(Frames) /\ Len(Append(rest, f)) = Len(rest) + 1
      /\ \A n \in 1..Len(rest) : Append(rest, f)[n] = rest[n]
      /\ Append(rest, f)[Len(rest) + 1] = f
  BY <1>1
<1>4. /\ got' \in Seq(Frames) /\ out' \in Seq(Frames) /\ Len(got') + Len(out') = taken + 1
      /\ \A n \in 1..taken : Reply(got', out', n) = Reply(got, out, n)
      /\ Reply(got', out', taken + 1) = f
  <2>1. CASE flush
    <3>1. /\ got' \in Seq(Frames) /\ Len(got') = taken + 1 /\ out' = << >>
          /\ \A n \in 1..Len(before) : got'[n] = before[n]
          /\ \A n \in 1..Len(rest) + 1 : got'[Len(before) + n] = Append(rest, f)[n]
      <4>1. got' = before \o Append(rest, f) /\ out' = << >>
        BY <1>2, <2>1
      <4> DEFINE more == Append(rest, f)
      <4>2. more \in Seq(Frames) /\ Len(more) = Len(rest) + 1 /\ Len(rest) \in Nat
        BY <1>1, <1>3
      <4>3. got' = before \o more
        BY <4>1
      <4> HIDE DEF more
      <4>4. /\ got' \in Seq(Frames) /\ Len(got') = Len(before) + Len(more)
            /\ \A n \in 1..Len(before) : got'[n] = before[n]
            /\ \A n \in 1..Len(more) : got'[Len(before) + n] = more[n]
        <5>1. \A x, y \in Seq(Frames) :
                /\ x \o y \in Seq(Frames) /\ Len(x \o y) = Len(x) + Len(y)
                /\ \A n \in 1..Len(x) : (x \o y)[n] = x[n]
                /\ \A n \in 1..Len(y) : (x \o y)[Len(x) + n] = y[n]
          OBVIOUS
        <5> QED
          BY <5>1, <1>1, <4>2, <4>3, Zenon
      <4>5. Len(got') = taken + 1
        <5>1. \A a, b \in Nat : a + (b + 1) = (a + b) + 1
          OBVIOUS
        <5>2. Len(before) \in Nat
          BY <1>1
        <5> QED
          BY <5>1, <5>2, <1>1, <4>2, <4>4, Zenon
      <4> QED
        BY <4>1, <4>2, <4>4, <4>5, Zenon DEF more
    <3>2. \A n \in 1..taken + 1 : Reply(got', out', n) = got'[n]
      BY <3>1 DEF Reply
    <3>3. \A n \in 1..taken : got'[n] = Reply(got, out, n)
      <4> SUFFICES ASSUME NEW n \in 1..taken PROVE got'[n] = Reply(got, out, n)
        OBVIOUS
      <4>1. CASE n <= Len(before)
        BY <4>1, <1>1, <3>1
      <4>2. CASE n > Len(before)
        <5>1. n - Len(before) \in 1..Len(rest) /\ Len(before) + (n - Len(before)) = n
          BY <4>2, <1>1
        <5>2. n - Len(before) \in 1..Len(rest) + 1
          BY <5>1, <1>1
        <5> QED
          BY <5>1, <5>2, <1>1, <1>3, <3>1, ZenonT(30)
      <4> QED
        BY <4>1, <4>2, <1>1
    <3>4. got'[taken + 1] = f
      BY <1>1, <1>3, <3>1
    <3> QED
      BY <3>1, <3>2, <3>3, <3>4 
  <2>2. CASE ~flush
    <3>1. got' = before /\ out' = Append(rest, f)
      BY <1>2, <2>2
    <3>2. \A n \in 1..taken : Reply(got', out', n) = Reply(got, out, n)
      <4> SUFFICES ASSUME NEW n \in 1..taken PROVE Reply(got', out', n) = Reply(got, out, n)
        OBVIOUS
      <4>1. CASE n <= Len(before)
        BY <4>1, <1>1, <3>1 DEF Reply
      <4>2. CASE n > Len(before)
        <5>1. n - Len(before) \in 1..Len(rest) /\ Len(before) + (n - Len(before)) = n
          BY <4>2, <1>1
        <5>2. Reply(got', out', n) = rest[n - Len(before)]
          BY <4>2, <5>1, <1>1, <1>3, <3>1 DEF Reply
        <5> QED
          BY <5>1, <5>2, <1>1
      <4> QED
        BY <4>1, <4>2, <1>1
    <3>3. Reply(got', out', taken + 1) = f
      <4>1. ~(taken + 1 <= Len(before)) /\ (taken + 1) - Len(before) = Len(rest) + 1
        BY <1>1
      <4> QED
        BY <4>1, <1>3, <3>1, Zenon DEF Reply
    <3> QED
      BY <1>1, <1>3, <3>1, <3>2, <3>3 
  <2> QED
    BY <2>1, <2>2
<1>5. \A n \in 1..taken : Answers(Reply(got', out', n), n)
  BY <1>4, Zenon DEF ReplyInv, InOrder
<1>6. \A n \in 1..taken + 1 : n \in 1..taken \/ n = taken + 1
  OBVIOUS
<1> QED
  BY <1>4, <1>5, <1>6, Zenon DEF InOrder


\* A step that leaves the script alone takes what was negotiated, and by which frames it was
\* answered, along.
LEMMA FramesFixed ==
  ASSUME script' = script, got' \in Seq(Frames), out' \in Seq(Frames)
  PROVE  /\ \A w : UpTo(got', w) => UpTo(got, w)'
         /\ \A m : InOrder(got', out', m) /\ taken' = m => InOrder(got, out, taken)'
<1>1. \A f, n : Answers(f, n) => f.of = n /\ (Clean(n)' => f.version = Negotiated(n)')
  BY ScriptFixed, Zenon DEF Answers
<1>2. ASSUME NEW w, UpTo(got', w) PROVE UpTo(got, w)'
  BY <1>1, <1>2, ScriptFixed, Zenon DEF UpTo, Answers
<1>3. ASSUME NEW m, InOrder(got', out', m), taken' = m PROVE InOrder(got, out, taken)'
  <2>1. Len(got') + Len(out') = taken'
    BY <1>3, Zenon DEF InOrder
  <2>2. \A n \in 1..taken' : Answers(Reply(got', out', n), n)
    BY <1>3, Zenon DEF InOrder
  <2>3. \A n : Reply(got, out, n)' = Reply(got', out', n)
    BY Zenon DEF Reply
  <2>4. \A f, n : Answers(f, n) => Answers(f, n)'
    BY ScriptFixed, Zenon DEF Answers
  <2>5. \A n \in 1..taken' : Answers(Reply(got, out, n), n)'
    BY <2>2, <2>3, <2>4, Zenon DEF Answers
  <2> QED
    BY <2>1, <2>5, Zenon DEF InOrder
<1> QED
  BY <1>2, <1>3, Zenon

\* At any time the client has the answers to some first commands, then only pushes.
LEMMA SomeGot ==
  ASSUME ReplyInv, taken \in Nat
  PROVE  \E w \in Nat : UpTo(got, w)
<1>1. CASE pc = "next"
  <2>1. UpTo(got, Len(got)) /\ Len(got) \in Nat
    BY <1>1, GotOfAll DEF ReplyInv, ReplyTypes
  <2> QED
    BY <2>1, Zenon
<1>2. CASE pc # "next"
  BY <1>2, Zenon DEF ReplyInv
<1> QED
  BY <1>1, <1>2

\* A connection that is dropped: what was flushed stays with the client.
LEMMA DropKeeps ==
  ASSUME ReplyInv, taken \in Nat, Dropped
  PROVE  ReplyInv'
<1>1. /\ pc' = "closed" /\ out' = << >> /\ script' = script /\ got' = got
      /\ version' = version /\ codec' = codec
  BY DEF Dropped
<1>2. ReplyTypes'
  BY <1>1 DEF ReplyInv, ReplyTypes
<1>3. PICK w \in Nat : UpTo(got, w)
  BY SomeGot
<1>4. UpTo(got, w)'
  BY <1>1, <1>2, <1>3, FramesFixed, Zenon DEF ReplyTypes
<1> QED
  BY <1>1, <1>2, <1>4 DEF ReplyInv

\* A command that is answered: what handle_conn does after it decides how it goes on.
LEMMA AnswerKeeps ==
  ASSUME ReplyInv, StreamInv, pc = "next", HasFrame, Taken, script' = script,
         NEW early \in BOOLEAN, NEW flush \in BOOLEAN,
         codec' \in {2, 3}, version' \in {2, 3}, Sent(Frame(Next1, codec'), early, flush),
         Clean(taken + 1) => codec' = Negotiated(taken + 1),
         pc' \in {"next", "closed"} \/ (pc' = "watch" /\ flush)
  PROVE  ReplyInv'
<1>1. taken \in Nat /\ Next1 = taken + 1 /\ taken' = taken + 1
  BY NextIsNext DEF StreamInv, StreamTypes, Taken
<1>2. Frame(Next1, codec') \in Frames /\ Answers(Frame(Next1, codec'), taken + 1)
  BY <1>1 DEF Frame, Frames, Answers
<1>3. got' \in Seq(Frames) /\ out' \in Seq(Frames) /\ InOrder(got', out', taken + 1)
  BY <1>1, <1>2, OneMoreReply
<1>4. ReplyTypes'
  BY <1>3 DEF ReplyTypes
<1>5. InOrder(got, out, taken)' /\ (Clean(taken)' => codec' = Negotiated(taken)')
  BY <1>1, <1>3, FramesFixed, ScriptFixed, Zenon
<1>6. UpTo(got', Len(got')) /\ Len(got') \in Nat
  BY <1>1, <1>3, GotOfAll
<1>7. PICK w \in Nat : w = Len(got') /\ UpTo(got, w)'
  BY <1>3, <1>6, FramesFixed, Zenon
<1>8. ASSUME flush PROVE out' = << >> /\ Len(got') = taken + 1
  <2>1. out' = << >>
    BY <1>8 DEF Sent
  <2> QED
    BY <2>1, <1>3, <1>6 DEF InOrder
<1>9. CASE pc' = "next"
  BY <1>4, <1>5, <1>9, Zenon DEF ReplyInv
<1>10. CASE pc' = "closed"
  BY <1>4, <1>6, <1>7, <1>10, Zenon DEF ReplyInv
<1>11. CASE pc' = "watch"
  <2>1. out' = << >> /\ w = taken'
    BY <1>1, <1>7, <1>8, <1>11
  <2>2. UpTo(got, w)' /\ (Clean(w)' => codec' = Negotiated(w)')
    BY <1>5, <1>7, <2>1, Zenon
  <2> QED
    BY <1>4, <1>11, <2>1, <2>2, Zenon DEF ReplyInv
<1> QED
  BY <1>9, <1>10, <1>11

\* What one more command that is no HELLO leaves negotiated.
LEMMA CodecStands ==
  ASSUME ReplyInv, StreamInv, pc = "next", HasFrame, Kind(Next1) \notin {"hello2", "hello3"}
  PROVE  Clean(taken + 1) => codec = Negotiated(taken + 1)
<1>1. taken \in Nat /\ Next1 = taken + 1
  BY NextIsNext DEF StreamInv, StreamTypes
<1>2. Clean(taken + 1) => Clean(taken)
  BY <1>1 DEF Clean
<1> QED
  BY <1>1, <1>2, NegotiatedNext, Zenon DEF ReplyInv

\* Every step of the connection keeps the answers in order.
LEMMA ReplyStep ==
  ASSUME StreamInv, ReplyInv, [RespNext]_respVars
  PROVE  ReplyInv'
<1>0. taken \in Nat
  BY DEF StreamInv, StreamTypes
<1>1. ASSUME UNCHANGED <<script, version, codec, out, got, pc>>, pc = "next" => taken' = taken
      PROVE  ReplyInv'
  <2>1. ReplyTypes'
    BY <1>1 DEF ReplyInv, ReplyTypes
  <2>2. /\ \A w : UpTo(got, w) => UpTo(got, w)'
        /\ pc = "next" => (InOrder(got, out, taken) => InOrder(got, out, taken)')
    BY <1>1, <2>1, FramesFixed, Zenon DEF ReplyTypes
  <2>3. (\A n : Clean(n)' <=> Clean(n)) /\ (\A n : Negotiated(n)' = Negotiated(n))
    BY <1>1, ScriptFixed
  <2>4. CASE pc = "next"
    BY <1>1, <2>1, <2>2, <2>3, <2>4, Zenon DEF ReplyInv
  <2>5. CASE pc = "watch"
    <3>1. PICK w \in Nat : UpTo(got, w) /\ (Clean(w) => codec = Negotiated(w))
      BY <2>5, Zenon DEF ReplyInv
    <3>2. UpTo(got, w)' /\ (Clean(w)' => codec' = Negotiated(w)')
      BY <1>1, <2>2, <2>3, <3>1, Zenon
    <3> QED
      BY <1>1, <2>1, <2>5, <3>2, Zenon DEF ReplyInv
  <2>6. CASE pc = "closed"
    BY <1>1, <2>1, <2>2, <2>6, Zenon DEF ReplyInv
  <2> QED
    BY <2>4, <2>5, <2>6, Zenon DEF ReplyInv
<1>2. CASE ClientSends \/ Read \/ ClientCloses \/ UNCHANGED respVars
  BY <1>1, <1>2, Zenon DEF ClientSends, Read, ClientCloses, respVars
<1>3. CASE DecodeError \/ EndOfStream \/ IdleTimeout \/ SendFails
  BY <1>0, <1>3, DropKeeps, Zenon DEF DecodeError, EndOfStream, IdleTimeout, SendFails
<1>4. CASE Refuse
  <2>1. PICK early \in BOOLEAN : Sent(Frame(Next1, codec), early, TRUE)
    BY <1>4, Zenon DEF Refuse
  <2>2. /\ pc = "next" /\ HasFrame /\ Taken /\ script' = script /\ Kind(Next1) = "bad"
        /\ codec' = codec /\ version' = version /\ pc' = pc
    BY <1>4, Zenon DEF Refuse
  <2>3. codec' \in {2, 3} /\ version' \in {2, 3}
    BY <2>2 DEF ReplyInv, ReplyTypes
  <2>4. Clean(taken + 1) => codec' = Negotiated(taken + 1)
    BY <2>2, CodecStands
  <2>5. Sent(Frame(Next1, codec'), early, TRUE)
    BY <2>1, <2>2, Zenon
  <2> QED
    BY <2>2, <2>3, <2>4, <2>5, AnswerKeeps, Zenon
<1>5. CASE Watch
  <2>1. PICK early \in BOOLEAN : Sent(Frame(Next1, codec), early, TRUE)
    BY <1>5, Zenon DEF Watch
  <2>2. /\ pc = "next" /\ HasFrame /\ Taken /\ script' = script /\ Kind(Next1) = "watch"
        /\ codec' = codec /\ version' = version /\ pc' \in {"closed", "watch"}
    BY <1>5 DEF Watch
  <2>3. codec' \in {2, 3} /\ version' \in {2, 3}
    BY <2>2 DEF ReplyInv, ReplyTypes
  <2>4. Clean(taken + 1) => codec' = Negotiated(taken + 1)
    BY <2>2, CodecStands
  <2>5. Sent(Frame(Next1, codec'), early, TRUE)
    BY <2>1, <2>2, Zenon
  <2>6. pc' = "closed" \/ pc' = "watch"
    BY <2>2
  <2> QED
    BY <2>2, <2>3, <2>4, <2>5, <2>6, AnswerKeeps, Zenon
<1>6. CASE Dispatch
  <2>1. PICK early \in BOOLEAN : Sent(Frame(Next1, codec'), early, Rest = << >>)
    BY <1>6, Zenon DEF Dispatch
  <2>2. /\ pc = "next" /\ HasFrame /\ Taken /\ script' = script
        /\ codec' = CodecAfter(Kind(Next1)) /\ version' = VersionAfter(Kind(Next1))
        /\ pc' \in {"closed", "next"}
    BY <1>6 DEF Dispatch
  <2>3. codec' \in {2, 3} /\ version' \in {2, 3}
    BY <2>2 DEF ReplyInv, ReplyTypes, CodecAfter, VersionAfter
  <2>4. Clean(taken + 1) => codec' = Negotiated(taken + 1)
    <3>1. Next1 = taken + 1
      BY <2>2, NextIsNext
    <3>2. CASE Kind(Next1) \in {"hello2", "hello3"}
      BY <1>0, <2>2, <3>1, <3>2, NegotiatedNext DEF CodecAfter, VersionAfter
    <3>3. CASE Kind(Next1) \notin {"hello2", "hello3"}
      BY <2>2, <3>3, CodecStands DEF CodecAfter
    <3> QED
      BY <3>2, <3>3
  <2> DEFINE flush == Rest = << >>
  <2>5. flush \in BOOLEAN /\ Sent(Frame(Next1, codec'), early, flush)
    BY <2>1
  <2>6. pc' \in {"next", "closed"}
    BY <2>2
  <2> HIDE DEF flush
  <2> QED
    BY <2>2, <2>3, <2>4, <2>5, <2>6, AnswerKeeps, Zenon
<1>7. CASE WatchFrame
  <2>1. /\ pc = "watch" /\ pc' \in {"watch", "closed"} /\ script' = script /\ out' = out
        /\ got' = got /\ codec' = codec /\ version' = version
    BY <1>7 DEF WatchFrame
  <2>2. ReplyTypes'
    BY <2>1 DEF ReplyInv, ReplyTypes
  <2>3. PICK w \in Nat : UpTo(got, w) /\ (Clean(w) => codec = Negotiated(w))
    BY <2>1, Zenon DEF ReplyInv
  <2>4. UpTo(got, w)' /\ (Clean(w)' => codec' = Negotiated(w)')
    BY <2>1, <2>2, <2>3, FramesFixed, ScriptFixed, Zenon DEF ReplyTypes
  <2>5. out = << >>
    BY <2>1 DEF ReplyInv
  <2>6. CASE pc' = "watch"
    BY <2>1, <2>2, <2>4, <2>5, <2>6, Zenon DEF ReplyInv
  <2>7. CASE pc' = "closed"
    BY <2>1, <2>2, <2>4, <2>5, <2>7, Zenon DEF ReplyInv
  <2> QED
    BY <2>1, <2>6, <2>7
<1>8. CASE WatchPush
  <2>1. /\ pc = "watch" /\ pc' = pc /\ script' = script /\ out' = << >>
        /\ got' = Append(got \o out, Frame(Push, codec)) /\ codec' = codec /\ version' = version
    BY <1>8 DEF WatchPush
  <2>2. PICK w \in Nat : UpTo(got, w) /\ (Clean(w) => codec = Negotiated(w))
    BY <2>1, Zenon DEF ReplyInv
  <2>3. /\ got' \in Seq(Frames) /\ Len(got') = Len(got) + 1 /\ Len(got) \in Nat
        /\ \A n \in 1..Len(got) : got'[n] = got[n]
        /\ got'[Len(got) + 1] = Frame(Push, codec)
    <3>1. out = << >> /\ got \in Seq(Frames) /\ Frame(Push, codec) \in Frames
      BY <2>1 DEF ReplyInv, ReplyTypes, Frame, Frames, Push
    <3>2. got \o out = got
      BY <3>1
    <3> QED
      BY <2>1, <3>1, <3>2
  <2>4. ReplyTypes'
    BY <2>1, <2>3 DEF ReplyInv, ReplyTypes
  <2>5. UpTo(got', w)
    <3>1. w \in 0..Len(got) /\ w \in 0..Len(got')
      BY <2>2, <2>3 DEF UpTo
    <3>2. \A n \in 1..w : n \in 1..Len(got)
      BY <3>1
    <3>3. \A n \in w + 1 .. Len(got') :
            (n \in w + 1 .. Len(got) /\ n \in 1..Len(got)) \/ n = Len(got) + 1
      BY <2>3, <3>1
    <3>4. Frame(Push, codec).of = Push /\ Frame(Push, codec).version = codec
      BY DEF Frame
    <3> QED
      BY <2>2, <2>3, <3>1, <3>2, <3>3, <3>4, Zenon DEF UpTo
  <2>6. UpTo(got, w)' /\ (Clean(w)' => codec' = Negotiated(w)')
    BY <2>1, <2>2, <2>4, <2>5, FramesFixed, ScriptFixed, Zenon DEF ReplyTypes
  <2> QED
    BY <2>1, <2>4, <2>6, Zenon DEF ReplyInv
<1> QED
  BY <1>2, <1>3, <1>4, <1>5, <1>6, <1>7, <1>8, Zenon DEF RespNext, RespProgress

\* Every step of the connection keeps the pieces in order.
LEMMA StreamStep ==
  ASSUME StreamInv, [RespNext]_respVars
  PROVE  StreamInv'
<1>1. ASSUME UNCHANGED <<script, sent, wire, rbuf, taken>> PROVE StreamInv'
  BY <1>1 DEF StreamInv, StreamTypes, Unread, PieceAt
<1>2. CASE ClientSends
  BY <1>2, StreamSend
<1>3. CASE Read
  BY <1>3, StreamRead
<1>4. CASE DecodeError \/ Refuse \/ Watch \/ Dispatch \/ WatchFrame
  <2>1. HasFrame /\ Taken /\ UNCHANGED <<script, sent, wire>>
    BY <1>4, Zenon DEF DecodeError, Dropped, Refuse, Watch, Dispatch, WatchFrame, Taken
  <2> QED
    BY <2>1, StreamTake
<1>5. CASE SendFails
  <2>1. UNCHANGED <<script, sent, wire>> /\ ((HasFrame /\ Taken) \/ UNCHANGED <<rbuf, taken>>)
    BY <1>5, Zenon DEF SendFails, Dropped
  <2> QED
    BY <2>1, <1>1, StreamTake, Zenon
<1>6. CASE ClientCloses \/ EndOfStream \/ IdleTimeout \/ WatchPush \/ UNCHANGED respVars
  BY <1>1, <1>6, Zenon
    DEF ClientCloses, EndOfStream, IdleTimeout, WatchPush, Dropped, respVars
<1> QED
  BY <1>2, <1>3, <1>4, <1>5, <1>6, Zenon DEF RespNext, RespProgress

\* The two together are inductive.
LEMMA RespInvariant == RespSpec => [](StreamInv /\ ReplyInv)
<1>1. RespInit => StreamInv /\ ReplyInv
  BY StreamInit, ReplyInit
<1>2. (StreamInv /\ ReplyInv) /\ [RespNext]_respVars => (StreamInv /\ ReplyInv)'
  BY StreamStep, ReplyStep
<1> QED
  BY <1>1, <1>2, PTL DEF RespSpec

\* Whatever a client pipelines and wherever reads, early flushes and failures fall, the n-th
\* frame it receives is the answer to its n-th command, until only pushes follow
\* (handle_conn, watch_stream_loop).
THEOREM RepliesAreInOrder == RespSpec => []AnswersInOrder
<1>1. StreamInv /\ ReplyInv => AnswersInOrder
  <2> SUFFICES ASSUME StreamInv, ReplyInv PROVE AnswersInOrder
    OBVIOUS
  <2>1. PICK w \in Nat : UpTo(got, w)
    BY SomeGot DEF StreamInv, StreamTypes
  <2>2. Len(got) \in Nat
    BY DEF ReplyInv, ReplyTypes
  <2> SUFFICES ASSUME NEW n \in 1..Len(got)
               PROVE  got[n].of = n \/ \A m \in n..Len(got) : got[m].of = Push
    BY DEF AnswersInOrder
  <2>3. CASE n <= w
    BY <2>1, <2>3 DEF UpTo, Answers
  <2>4. CASE n > w
    <3>1. \A m \in n..Len(got) : m \in w + 1 .. Len(got)
      BY <2>2, <2>4
    <3> QED
      BY <2>1, <3>1, Zenon DEF UpTo
  <2> QED
    BY <2>3, <2>4
<1> QED
  BY <1>1, RespInvariant, PTL

\* Every reply is encoded in the version negotiated up to its command, although it may wait
\* in the write buffer while later commands switch the codec, and every push in that
\* negotiated before the watch (handle_conn, dispatch_inner).
THEOREM RepliesInNegotiatedVersion == RespSpec => []InNegotiatedVersion
<1>1. StreamInv /\ ReplyInv => InNegotiatedVersion
  <2> SUFFICES ASSUME StreamInv, ReplyInv PROVE InNegotiatedVersion
    OBVIOUS
  <2>1. PICK w \in Nat : UpTo(got, w)
    BY SomeGot DEF StreamInv, StreamTypes
  <2>2. Len(got) \in Nat
    BY DEF ReplyInv, ReplyTypes
  <2> SUFFICES ASSUME NEW n \in 1..Len(got)
               PROVE  LET upto == IF got[n].of = Push THEN AnsweredBy(n) ELSE got[n].of
                      IN (\A i \in 1..upto : Kind(i) # "reset") => got[n].version = Negotiated(upto)
    BY DEF InNegotiatedVersion
  <2>3. CASE n <= w
    BY <2>1, <2>3 DEF UpTo, Answers, Clean, Push
  <2>4. CASE n > w
    <3>1. n \in w + 1 .. Len(got) /\ w \in 0..Len(got)
      BY <2>1, <2>2, <2>4 DEF UpTo
    <3>2. \A m \in 1..w : got[m].of = m
      BY <2>1, Zenon DEF UpTo, Answers
    <3>3. \A m \in w + 1 .. Len(got) : got[m].of = Push
      BY <2>1, Zenon DEF UpTo
    <3>4. {m \in 1..n : got[m].of # Push} = 1..w
      <4>1. \A m \in 1..n : m \in 1..w \/ m \in w + 1 .. Len(got)
        BY <2>2, <3>1
      <4>2. \A m \in 1..w : m \in 1..n /\ m # 0
        BY <3>1
      <4> QED
        BY <3>2, <3>3, <4>1, <4>2, Zenon DEF Push
    <3>5. AnsweredBy(n) = w
      <4>1. Cardinality(1..w) = w
        BY FS_Interval
      <4> QED
        BY <3>4, <4>1, Zenon DEF AnsweredBy
    <3>6. Clean(w) => got[n].version = Negotiated(w)
      BY <2>1, <3>1, Zenon DEF UpTo
    <3> QED
      BY <3>1, <3>3, <3>5, <3>6 DEF Clean
  <2> QED
    BY <2>3, <2>4
<1> QED
  BY <1>1, RespInvariant, PTL

=============================================================================
