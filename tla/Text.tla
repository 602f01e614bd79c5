-------------------------------- MODULE Text --------------------------------
(***************************************************************************)
(* The byte algorithms of the wire: glob patterns, percent-encoded keys,   *)
(* decimal integers, and the key a connection is routed by.  Bytes are     *)
(* their ASCII codes; a string is a sequence of them.                      *)
(***************************************************************************)
EXTENDS Integers, Sequences, FiniteSets, SequencesExt

CONSTANTS
  U64Max,     \* u64::MAX
  I64Min,     \* i64::MIN
  I64Max      \* i64::MAX

None == -1000000        \* Option::None of a number

Star == 42
Question == 63
Open == 91
Close == 93
Caret == 94
Bang == 33
Dash == 45
Plus == 43
Percent == 37
Digits == 48..57
Upper == 65..70
Lower == 97..102
Safe == {45, 46, 95, 126}

From(s, i) == SubSeq(s, i, Len(s))

-----------------------------------------------------------------------------
(* Patterns of KEYS and SCAN.                                              *)

\* match_bracket: whether the class at the start of the pattern has ch, and how many
\* bytes the class takes; an opening bracket that is never closed stands for itself.
match_bracket(bracket, ch) ==
  LET negate == Len(bracket) >= 2 /\ bracket[2] \in {Caret, Bang}
      first  == IF negate THEN 3 ELSE 2
      RECURSIVE Class(_, _)
      Class(i, matched) ==
        IF i > Len(bracket) THEN <<ch = Open, 1>>
        ELSE IF bracket[i] = Close /\ i > first THEN <<negate # matched, i>>
        ELSE IF i + 2 <= Len(bracket) /\ bracket[i + 1] = Dash /\ bracket[i + 2] # Close
          THEN Class(i + 3, matched \/ ch \in bracket[i]..bracket[i + 2])
        ELSE Class(i + 1, matched \/ ch = bracket[i])
  IN Class(first, FALSE)

\* The loop of glob_match, at byte pi of the pattern and si of the key; star is the last
\* star met and where the key stood then (<<0, 0>> before any).
RECURSIVE GlobLoop(_, _, _, _, _)
GlobLoop(p, s, pi, si, star) ==
  LET Retry == IF star[1] = 0 THEN FALSE
               ELSE GlobLoop(p, s, star[1] + 1, star[2] + 1, <<star[1], star[2] + 1>>)
  IN IF si > Len(s) THEN \A i \in pi..Len(p) : p[i] = Star
     ELSE IF pi > Len(p) THEN Retry
     ELSE IF p[pi] = Open
       THEN LET m == match_bracket(From(p, pi), s[si])
            IN IF m[1] THEN GlobLoop(p, s, pi + m[2], si + 1, star) ELSE Retry
     ELSE IF p[pi] \in {Question, s[si]} THEN GlobLoop(p, s, pi + 1, si + 1, star)
     ELSE IF p[pi] = Star THEN GlobLoop(p, s, pi + 1, si, <<pi, si>>)
     ELSE Retry

\* Mutation: the fast path does not look behind the star.
glob_match_prefix(p, s) ==
  LET metas == {i \in 1..Len(p) : p[i] \in {Star, Question, Open}}
      n     == (CHOOSE i \in metas : \A j \in metas : i <= j) - 1
  IN IF metas = {} THEN p = s
     ELSE /\ Len(s) >= n /\ SubSeq(s, 1, n) = SubSeq(p, 1, n)
          /\ \/ n > 0 /\ p[n + 1] = Star
             \/ GlobLoop(p, s, n + 1, n + 1, <<0, 0>>)

\* glob_match: the bytes before the first metacharacter are compared at once, and
\* "prefix*" needs no loop.
glob_match(p, s) ==
  LET metas == {i \in 1..Len(p) : p[i] \in {Star, Question, Open}}
      n     == (CHOOSE i \in metas : \A j \in metas : i <= j) - 1
  IN IF metas = {} THEN p = s
     ELSE /\ Len(s) >= n /\ SubSeq(s, 1, n) = SubSeq(p, 1, n)
          /\ \/ n > 0 /\ n + 1 = Len(p) /\ p[n + 1] = Star
             \/ GlobLoop(p, s, n + 1, n + 1, <<0, 0>>)

\* What a pattern means: the class between the brackets, and the strings a pattern has.
RECURSIVE ClassOf(_)
ClassOf(c) ==
  IF c = << >> THEN {}
  ELSE IF Len(c) >= 3 /\ c[2] = Dash THEN (c[1]..c[3]) \union ClassOf(From(c, 4))
  ELSE {c[1]} \union ClassOf(Tail(c))

RECURSIVE Denotes(_, _)
Denotes(p, s) ==
  IF p = << >> THEN s = << >>
  ELSE IF Head(p) = Star THEN \E i \in 1..(Len(s) + 1) : Denotes(Tail(p), From(s, i))
  ELSE
    LET negated == Len(p) >= 2 /\ p[2] \in {Caret, Bang}
        first   == IF negated THEN 3 ELSE 2
        ends    == {i \in (first + 1)..Len(p) : p[i] = Close}
        end     == CHOOSE i \in ends : \A j \in ends : i <= j
    IN /\ s # << >>
       /\ IF Head(p) = Open /\ ends # {}
            THEN /\ negated # (Head(s) \in ClassOf(SubSeq(p, first, end - 1)))
                 /\ Denotes(From(p, end + 1), Tail(s))
            ELSE /\ Head(p) \in {Question, Head(s)}
                 /\ Denotes(Tail(p), Tail(s))

-----------------------------------------------------------------------------
(* Keys in a URL.                                                          *)

\* hex_val
hex_val(b) ==
  CASE b \in Digits -> b - 48
    [] b \in Lower  -> b - 87
    [] b \in Upper  -> b - 55
    [] OTHER        -> None

HexDigit(n) == IF n < 10 THEN 48 + n ELSE 55 + n

\* percent_encode_bytes
percent_encode_bytes(bytes) ==
  FlattenSeq([i \in 1..Len(bytes) |->
    IF bytes[i] \in Digits \union (65..90) \union (97..122) \union Safe THEN <<bytes[i]>>
    ELSE <<Percent, HexDigit(bytes[i] \div 16), HexDigit(bytes[i] % 16)>>])

\* percent_decode: an escape that is not complete is kept as it stands.
RECURSIVE percent_decode(_)
percent_decode(s) ==
  IF s = << >> THEN << >>
  ELSE IF /\ Head(s) = Percent /\ Len(s) >= 3
          /\ hex_val(s[2]) # None /\ hex_val(s[3]) # None
    THEN <<16 * hex_val(s[2]) + hex_val(s[3])>> \o percent_decode(From(s, 4))
  ELSE <<Head(s)>> \o percent_decode(Tail(s))

\* Mutation: the accept loop takes the key as it is written.
percent_raw(s) == s

\* percent_decode_routing, the copy the accept loop uses.
RECURSIVE percent_decode_routing(_)
percent_decode_routing(s) ==
  IF s = << >> THEN << >>
  ELSE IF /\ Head(s) = Percent /\ Len(s) >= 3
          /\ hex_val(s[2]) # None /\ hex_val(s[3]) # None
    THEN <<16 * hex_val(s[2]) + hex_val(s[3])>> \o percent_decode_routing(From(s, 4))
  ELSE <<Head(s)>> \o percent_decode_routing(Tail(s))

\* A target is the path after its first part ("kv" for /v1/kv/, "watch" for /v1/watch/)
\* and the query, which keeps its question mark; the suffix "/incr" is one symbol.
Incr == 1000
NoKey == <<None>>

WithoutIncr(s) == IF s # << >> /\ Last(s) = Incr THEN Front(s) ELSE s

\* peek_http_key, on as much of the request line as the 2 ms and 4096 bytes of
\* peek_first_bytes let it see; it looks only for /v1/kv/.
peek_http_key(target, whole) ==
  LET key == WithoutIncr(target.rest)
  IN IF ~whole \/ target.at # "kv" \/ key = << >> THEN NoKey ELSE percent_decode_routing(key)

\* The key of the handler the request reaches: route's, or parse_watch_params'.
RouteKey(target) ==
  IF target.at = "kv" THEN percent_decode(WithoutIncr(target.rest))
  ELSE percent_decode(target.rest)

-----------------------------------------------------------------------------
(* Integers.                                                               *)

\* Digit by digit, refused as soon as the number leaves the type.
RECURSIVE Accumulate(_, _)
Accumulate(s, n) ==
  IF s = << >> THEN n
  ELSE IF Head(s) \notin Digits \/ 10 * n + (Head(s) - 48) > U64Max THEN None
  ELSE Accumulate(Tail(s), 10 * n + (Head(s) - 48))

\* atoi_u64
atoi_u64(s) == IF s = << >> THEN None ELSE Accumulate(s, 0)

\* Mutation: the smallest number is refused.
atoi_i64_symmetric(s) ==
  LET signed == s # << >> /\ Head(s) \in {Dash, Plus}
      n      == atoi_u64(IF signed THEN Tail(s) ELSE s)
  IN IF n = None \/ n > I64Max THEN None ELSE IF signed /\ Head(s) = Dash THEN -n ELSE n

\* atoi_i64: the magnitude is read as a u64; one more is allowed below zero.
atoi_i64(s) ==
  LET signed == s # << >> /\ Head(s) \in {Dash, Plus}
      n      == atoi_u64(IF signed THEN Tail(s) ELSE s)
  IN IF n = None THEN None
     ELSE IF signed /\ Head(s) = Dash THEN IF n > I64Max + 1 THEN None ELSE -n
     ELSE IF n > I64Max THEN None ELSE n

\* What a numeral means.
RECURSIVE ValueOf(_)
ValueOf(s) == IF s = << >> THEN 0 ELSE 10 * ValueOf(Front(s)) + (Last(s) - 48)
Numeral(s) == s # << >> /\ \A i \in 1..Len(s) : s[i] \in Digits

\* The wrapping negation of dispatch_inner's DecrBy, and the checked addition of
\* ShardStore::incr.
Negated(delta) == IF delta = I64Min THEN I64Min ELSE -delta
checked_add(n, delta) == IF n + delta \in I64Min..I64Max THEN n + delta ELSE None

-----------------------------------------------------------------------------
(* The key a RESP connection is routed by.                                 *)

CR == 13
LF == 10
Array == 42
BulkMark == 36

\* How a client writes a number and a command.
RECURSIVE Decimal(_)
Decimal(n) == IF n < 10 THEN <<48 + n>> ELSE Decimal(n \div 10) \o <<48 + (n % 10)>>
Encoded(args) ==
  <<Array>> \o Decimal(Len(args)) \o <<CR, LF>>
    \o FlattenSeq([i \in 1..Len(args) |->
         <<BulkMark>> \o Decimal(Len(args[i])) \o <<CR, LF>> \o args[i] \o <<CR, LF>>])

\* The number from byte i up to the end of its line, and where the next line begins;
\* None when the line does not end in the bytes seen, or is not a number.
LineNumber(buf, i) ==
  LET ends == {j \in i..Len(buf) : buf[j] = LF}
      nl   == CHOOSE j \in ends : \A k \in ends : j <= k
      last == IF nl > 1 /\ buf[nl - 1] = CR THEN nl - 2 ELSE nl - 1
  IN IF ends = {} THEN <<None, 0>> ELSE <<atoi_u64(SubSeq(buf, i, last)), nl + 1>>

\* peek_resp_key, on the bytes peek_first_bytes saw: the second element of the first
\* command, if it is there to its end.
peek_resp_key(buf) ==
  LET count   == LineNumber(buf, 2)
      name    == LineNumber(buf, count[2] + 1)
      second  == name[2] + name[1] + 2
      len     == LineNumber(buf, second + 1)
      Bulk(i) == i <= Len(buf) /\ buf[i] = BulkMark
  IN IF buf = << >> \/ Head(buf) # Array \/ count[1] = None \/ count[1] < 2 THEN NoKey
     ELSE IF ~Bulk(count[2]) \/ name[1] = None THEN NoKey
     ELSE IF ~Bulk(second) \/ len[1] = None \/ len[2] + len[1] - 1 > Len(buf) THEN NoKey
     ELSE SubSeq(buf, len[2], len[2] + len[1] - 1)
=============================================================================
