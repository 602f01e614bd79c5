------------------------------ MODULE RespConn ------------------------------
(***************************************************************************)
(* One RESP connection: handle_conn of resp.rs between a client that       *)
(* pipelines and a store that answers each command.  A command is its kind *)
(* and travels as two pieces, so that a read can end inside one.           *)
(***************************************************************************)
EXTENDS Integers, Sequences, FiniteSets

CONSTANTS
  Scripts        \* what a client sends: cmds, window, pushes, and the faults it meets

ASSUME ScriptsAssumption == \A s \in Scripts : s.cmds \in Seq(STRING)

VARIABLES
  script,      \* the client's script
  sent,        \* how many commands the client wrote
  closing,     \* whether the client has ended its side
  wire,        \* the pieces on their way to the server
  rbuf,        \* framed.read_buffer()
  taken,       \* how many commands the server decoded
  version,     \* state.resp_version
  codec,       \* the version the codec encodes
  out,         \* the replies encoded and not flushed
  got,         \* the frames the client received
  pc,          \* where handle_conn is: "next", "watch" or "closed"
  pushes       \* the events the subscription has yet to deliver

respVars == <<script, sent, closing, wire, rbuf, taken, version, codec, out, got, pc, pushes>>

Push == 0
Pieces(i) == <<<<i, 1>>, <<i, 2>>>>
Kind(i) == script.cmds[i]
Frame(i, v) == [of |-> i, version |-> v]
Answered == SelectSeq(got, LAMBDA f : f.of # Push)

\* serve starts handle_conn with ConnState::default and a RESP2 codec.
RespInit ==
  /\ script \in Scripts
  /\ sent = 0 /\ closing = FALSE
  /\ wire = << >> /\ rbuf = << >> /\ taken = 0
  /\ version = 2 /\ codec = 2
  /\ out = << >> /\ got = << >>
  /\ pc = "next" /\ pushes = script.pushes

-----------------------------------------------------------------------------
(* The client: it keeps at most a window of commands unanswered.  In some  *)
(* scripts it goes away in the middle of its last command.                 *)

Stalled(i) == script.stalls /\ i = Len(script.cmds)

ClientSends ==
  /\ sent < Len(script.cmds) /\ sent - Len(Answered) < script.window /\ ~closing
  /\ sent' = sent + 1
  /\ wire' = wire \o (IF Stalled(sent + 1) THEN <<<<sent + 1, 1>>>> ELSE Pieces(sent + 1))
  /\ UNCHANGED <<script, closing, rbuf, taken, version, codec, out, got, pc, pushes>>

ClientCloses ==
  /\ sent = Len(script.cmds) /\ ~closing
  /\ closing' = TRUE
  /\ UNCHANGED <<script, sent, wire, rbuf, taken, version, codec, out, got, pc, pushes>>

-----------------------------------------------------------------------------
(* framed.next(): decode what the buffer holds, otherwise read more.       *)

HasFrame == Len(rbuf) >= 2
Next1 == rbuf[1][1]
Rest == SubSeq(rbuf, 3, Len(rbuf))

Read ==
  /\ pc # "closed" /\ ~HasFrame /\ wire # << >>
  /\ \E n \in 1..Len(wire) :
       /\ rbuf' = rbuf \o SubSeq(wire, 1, n)
       /\ wire' = SubSeq(wire, n + 1, Len(wire))
  /\ UNCHANGED <<script, sent, closing, taken, version, codec, out, got, pc, pushes>>

\* The connection is dropped with whatever was not flushed.
Dropped ==
  /\ pc' = "closed" /\ out' = << >>
  /\ UNCHANGED <<script, sent, closing, wire, codec, version, got, pushes>>

\* A frame that cannot be decoded, in either loop.
DecodeError ==
  /\ pc # "closed" /\ HasFrame /\ Kind(Next1) = "garbage"
  /\ rbuf' = Rest /\ taken' = taken + 1
  /\ Dropped

\* framed.next() gives None.
EndOfStream ==
  /\ pc # "closed" /\ ~HasFrame /\ wire = << >> /\ closing
  /\ UNCHANGED <<rbuf, taken>>
  /\ Dropped

\* The idle timeout, which the watch loop does not have.
IdleTimeout ==
  /\ pc = "next" /\ ~HasFrame /\ script.idle
  /\ UNCHANGED <<rbuf, taken>>
  /\ Dropped

-----------------------------------------------------------------------------
(* One turn of handle_conn.  framed.send encodes the reply; it flushes the *)
(* replies before it when they fill the buffer, which early stands for.    *)

Sent(frame, early, flush) ==
  LET before == IF early THEN got \o out ELSE got
      held   == Append(IF early THEN << >> ELSE out, frame)
  IN /\ got' = IF flush THEN before \o held ELSE before
     /\ out' = IF flush THEN << >> ELSE held

Taken == rbuf' = Rest /\ taken' = taken + 1

\* Mutation: the error goes around the buffer.
RefuseAtOnce ==
  /\ pc = "next" /\ HasFrame /\ Kind(Next1) = "bad"
  /\ Taken
  /\ got' = Append(got, Frame(Next1, codec))
  /\ UNCHANGED <<script, sent, closing, wire, out, version, codec, pc, pushes>>

\* A command Command::parse refuses: the error is flushed at once.
Refuse ==
  /\ pc = "next" /\ HasFrame /\ Kind(Next1) = "bad"
  /\ Taken
  /\ \E early \in BOOLEAN : Sent(Frame(Next1, codec), early, TRUE)
  /\ UNCHANGED <<script, sent, closing, wire, version, codec, pc, pushes>>

\* WATCH and PWATCH take the connection over, in RESP3 only; the loop's first flush
\* takes the earlier replies along, and its ready frame is the answer.
Watch ==
  /\ pc = "next" /\ HasFrame /\ Kind(Next1) = "watch"
  /\ Taken
  /\ pc' = IF version < 3 THEN "closed" ELSE "watch"
  /\ \E early \in BOOLEAN : Sent(Frame(Next1, codec), early, TRUE)
  /\ UNCHANGED <<script, sent, closing, wire, version, codec, pushes>>

\* What dispatch_inner does to the connection's state: HELLO's version is clamped, RESET
\* goes back to RESP2.
VersionAfter(kind) ==
  CASE kind = "hello2" -> 2
    [] kind = "hello3" -> 3
    [] kind = "reset" -> 2
    [] OTHER -> version

\* Mutation: a connection is only ever upgraded.
CodecUpgraded(kind) == IF kind = "hello3" THEN 3 ELSE codec

\* HELLO, and only HELLO, switches the codec, before its reply is encoded.
CodecAfter(kind) == IF kind \in {"hello2", "hello3"} THEN VersionAfter(kind) ELSE codec

\* Mutation: a lone reply waits for company.
DispatchHolds ==
  /\ pc = "next" /\ HasFrame /\ Kind(Next1) \notin {"garbage", "bad", "watch"}
  /\ Taken
  /\ version' = VersionAfter(Kind(Next1))
  /\ codec' = CodecAfter(Kind(Next1))
  /\ Sent(Frame(Next1, codec'), FALSE, Rest = << >> /\ out # << >>)
  /\ pc' = IF Kind(Next1) = "quit" THEN "closed" ELSE "next"
  /\ UNCHANGED <<script, sent, closing, wire, pushes>>

\* Any other command: dispatched, answered, flushed when no input is left to decode.
Dispatch ==
  /\ pc = "next" /\ HasFrame /\ Kind(Next1) \notin {"garbage", "bad", "watch"}
  /\ Taken
  /\ version' = VersionAfter(Kind(Next1))
  /\ codec' = CodecAfter(Kind(Next1))
  /\ \E early \in BOOLEAN : Sent(Frame(Next1, codec'), early, Rest = << >>)
  /\ pc' = IF Kind(Next1) = "quit" THEN "closed" ELSE "next"
  /\ UNCHANGED <<script, sent, closing, wire, pushes>>

\* A reply or a push that cannot be written; a failed write of a refusal is ignored.
SendFails ==
  /\ script.fails
  /\ \/ pc = "next" /\ HasFrame /\ Kind(Next1) \notin {"garbage", "bad"} /\ Taken
     \/ pc = "watch" /\ pushes > 0 /\ UNCHANGED <<rbuf, taken>>
  /\ Dropped

\* watch_stream_loop: UNWATCH ends it, other frames are ignored.
WatchFrame ==
  /\ pc = "watch" /\ HasFrame /\ Kind(Next1) # "garbage"
  /\ Taken
  /\ pc' = IF Kind(Next1) = "unwatch" THEN "closed" ELSE "watch"
  /\ UNCHANGED <<script, sent, closing, wire, version, codec, out, got, pushes>>

\* An event or a heartbeat is sent and flushed.
WatchPush ==
  /\ pc = "watch" /\ pushes > 0
  /\ pushes' = pushes - 1
  /\ got' = Append(got \o out, Frame(Push, codec)) /\ out' = << >>
  /\ UNCHANGED <<script, sent, closing, wire, rbuf, taken, version, codec, pc>>

RespProgress ==
  \/ ClientSends \/ Read \/ DecodeError \/ EndOfStream \/ Refuse \/ Watch \/ Dispatch
  \/ WatchFrame \/ WatchPush

RespNext == RespProgress \/ ClientCloses \/ IdleTimeout \/ SendFails

RespSpec == RespInit /\ [][RespNext]_respVars

-----------------------------------------------------------------------------
(* Properties.                                                             *)

\* handle_conn answers commands in the order they came, whatever mix of buffered replies,
\* errors flushed at once and early flushes: the n-th frame is the n-th command's answer,
\* and nothing but pushes follows the first push.
AnswersInOrder ==
  \A n \in 1..Len(got) :
    \/ got[n].of = n
    \/ \A m \in n..Len(got) : got[m].of = Push

\* The version a client has negotiated with its first n commands.
HellosUpTo(n) == {i \in 1..n : Kind(i) \in {"hello2", "hello3"}}
LastHello(n) == CHOOSE i \in HellosUpTo(n) : \A j \in HellosUpTo(n) : j <= i
Negotiated(n) == IF HellosUpTo(n) = {} \/ Kind(LastHello(n)) = "hello2" THEN 2 ELSE 3

\* The commands answered with the first n frames.
AnsweredBy(n) == Cardinality({m \in 1..n : got[m].of # Push})

\* Every reply is encoded in the version of the last HELLO up to it, and every push in that
\* of the last HELLO answered, although replies wait in the buffer while later commands
\* switch the codec; RESET is left out.
InNegotiatedVersion ==
  \A n \in 1..Len(got) :
    LET upto == IF got[n].of = Push THEN AnsweredBy(n) ELSE got[n].of
    IN (\A i \in 1..upto : Kind(i) # "reset") => got[n].version = Negotiated(upto)
=============================================================================
