------------------------------ MODULE HttpConn ------------------------------
(***************************************************************************)
(* One HTTP connection: handle_conn of http.rs.  The stream is a sequence  *)
(* of requests, each a head and the body that follows it; the decoder      *)
(* reads a head wherever the last request left the stream.                 *)
(***************************************************************************)
EXTENDS Integers, Sequences

CONSTANTS
  Streams        \* the requests of a connection: kind, and whether a body follows

VARIABLES
  stream,      \* the requests
  inward,      \* what is left of the stream: <<request, "head" or "body">>
  reading,     \* the request being handled; 0 between requests
  answers,     \* the responses, in order
  hpc,         \* "next", "fill", "sse" or "closed"
  misread      \* whether a body was decoded as a request

httpVars == <<stream, inward, reading, answers, hpc, misread>>

Status(i, s) == [of |-> i, status |-> s]
Bodies(s, i) == IF s[i].body THEN <<<<i, "head">>, <<i, "body">>>> ELSE <<<<i, "head">>>>
RECURSIVE Laid(_, _)
Laid(s, i) == IF i > Len(s) THEN << >> ELSE Bodies(s, i) \o Laid(s, i + 1)

HttpInit ==
  /\ stream \in Streams
  /\ inward = Laid(stream, 1)
  /\ reading = 0 /\ answers = << >> /\ hpc = "next" /\ misread = FALSE

\* Nothing to decode: end of stream, idle timeout or a malformed head.
HttpEnds ==
  /\ hpc = "next" /\ inward = << >>
  /\ hpc' = "closed"
  /\ UNCHANGED <<stream, inward, reading, answers, misread>>

Head1 == inward[1]

\* Mutation: after a 413 the connection goes on.
DecodeHeadContinues ==
  /\ hpc = "next" /\ inward # << >>
  /\ inward' = Tail(inward)
  /\ misread' = (misread \/ Head1[2] = "body")
  /\ reading' = Head1[1]
  /\ LET kind == stream[Head1[1]].kind
     IN CASE kind = "malformed" \/ Head1[2] = "body" ->
               hpc' = "closed" /\ UNCHANGED answers
          [] kind = "watch" -> hpc' = "sse" /\ answers' = Append(answers, Status(Head1[1], 200))
          [] kind = "watch_post" ->
               hpc' = "closed" /\ answers' = Append(answers, Status(Head1[1], 405))
          [] kind = "declared_large" ->
               hpc' = "next" /\ answers' = Append(answers, Status(Head1[1], 413))
          [] OTHER -> hpc' = "fill" /\ UNCHANGED answers
  /\ UNCHANGED stream

\* A head is decoded and looked at before the body is read: a watch takes the stream over,
\* a declared length over the limit closes the connection.
DecodeHead ==
  /\ hpc = "next" /\ inward # << >>
  /\ inward' = Tail(inward)
  /\ misread' = (misread \/ Head1[2] = "body")
  /\ reading' = Head1[1]
  /\ LET kind == stream[Head1[1]].kind
     IN CASE kind = "malformed" \/ Head1[2] = "body" ->
               hpc' = "closed" /\ UNCHANGED answers
          [] kind = "watch" -> hpc' = "sse" /\ answers' = Append(answers, Status(Head1[1], 200))
          [] kind = "watch_post" ->
               hpc' = "closed" /\ answers' = Append(answers, Status(Head1[1], 405))
          [] kind = "declared_large" ->
               hpc' = "closed" /\ answers' = Append(answers, Status(Head1[1], 413))
          [] OTHER -> hpc' = "fill" /\ UNCHANGED answers
  /\ UNCHANGED stream

\* fill_payload and read_body take the body; one over the limit (a chunked one) closes the
\* connection, any other is routed and its response flushed.
FillAndRoute ==
  /\ hpc = "fill"
  /\ inward' = IF stream[reading].body THEN Tail(inward) ELSE inward
  /\ LET large == stream[reading].kind = "chunked_large"
     IN /\ answers' = Append(answers, Status(reading, IF large THEN 413 ELSE 200))
        /\ hpc' = IF large THEN "closed" ELSE "next"
  /\ reading' = 0
  /\ UNCHANGED <<stream, misread>>

\* The body does not come, or the response cannot be written.
HttpBreaks ==
  /\ hpc = "fill" /\ stream[reading].kind = "breaks"
  /\ hpc' = "closed"
  /\ UNCHANGED <<stream, inward, reading, answers, misread>>

HttpNext == HttpEnds \/ DecodeHead \/ FillAndRoute \/ HttpBreaks
=============================================================================
