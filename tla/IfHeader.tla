------------------------------ MODULE IfHeader ------------------------------
(***************************************************************************)
(* The headers of a request as the handlers read them: the If header       *)
(* (webdav/if.go), Timeout (parseTimeout, lock.go), Depth (parseDepth,     *)
(* webdav.go) and the body of a LOCK (readLockInfo, xml.go), as functions. *)
(* MCIfHeader compares them with second definitions of what they are meant *)
(* to compute.                                                             *)
(*                                                                         *)
(* A header is a sequence of characters; "a" stands for any that is no     *)
(* delimiter, and "Not" for the three letters of that word.                *)
(***************************************************************************)
EXTENDS Integers, SequencesExt

Delimiters == {" ", "(", ")", "<", ">", "[", "]"}
Characters == Delimiters \cup {"a", "Not"}

From(s, i) == SubSeq(s, i, Len(s))

IfToken(type, str, remaining) == [type |-> type, str |-> str, remaining |-> remaining]

(* lex: the first token of s. *)
lex(s0) ==
  LET s    == From(s0, SelectInSeq(s0 \o <<"a">>, LAMBDA c : c # " "))
      word == SelectInSeq(s \o <<" ">>, LAMBDA c : c \in Delimiters) - 1
      Quoted(type, end) ==
        LET j == SelectInSeq(s, LAMBDA c : c = end)
        IN  IF j = 0 THEN IfToken("err", << >>, << >>)
            ELSE IfToken(type, SubSeq(s, 2, j - 1), From(s, j + 1))
  IN  IF s = << >> THEN IfToken("eof", << >>, << >>)
      ELSE IF SubSeq(s, 1, word) = <<"Not">> THEN IfToken("Not", << >>, From(s, word + 1))
      ELSE IF word > 0 THEN IfToken("str", SubSeq(s, 1, word), From(s, word + 1))
      ELSE CASE s[1] = "<" -> Quoted("angle", ">")
             [] s[1] = "[" -> Quoted("square", "]")
             [] OTHER      -> IfToken(s[1], << >>, From(s, 2))

Refused == [ok |-> FALSE]
Read(value, remaining) == [ok |-> TRUE, value |-> value, remaining |-> remaining]

Condition(not, token, etag) == [Not |-> not, Token |-> token, ETag |-> etag]

parseCondition(s) ==
  LET first == lex(s)
      not   == first.type = "Not"
      t     == IF not THEN lex(first.remaining) ELSE first
  IN  CASE t.type \in {"str", "angle"} -> Read(Condition(not, t.str, << >>), t.remaining)
        [] t.type = "square"           -> Read(Condition(not, << >>, t.str), t.remaining)
        [] OTHER                       -> Refused

RECURSIVE conditionsOf(_, _), noTagLists(_, _), taggedLists(_, _, _, _)

conditionsOf(s, conditions) ==
  LET t == lex(s)
      c == parseCondition(s)
  IN  IF t.type = ")" THEN IF conditions = << >> THEN Refused ELSE Read(conditions, t.remaining)
      ELSE IF c.ok THEN conditionsOf(c.remaining, Append(conditions, c.value)) ELSE Refused

parseList(s) ==
  LET t == lex(s)
  IN  IF t.type = "(" THEN conditionsOf(t.remaining, << >>) ELSE Refused

List(tag, conditions) == [resourceTag |-> tag, conditions |-> conditions]

noTagLists(s, lists) ==
  LET l == parseList(s)
  IN  IF ~l.ok THEN Refused
      ELSE LET more == Append(lists, List(<< >>, l.value))
           IN  IF l.remaining = << >> THEN Read(more, << >>) ELSE noTagLists(l.remaining, more)

(* tag is the last resource tag, n the number of lists since, -1 before any. *)
taggedLists(s, tag, n, lists) ==
  LET t == lex(s)
      l == parseList(s)
  IN  CASE t.type = "angle" /\ n # 0 -> taggedLists(t.remaining, t.str, 0, lists)
        [] t.type = "(" /\ l.ok ->
             LET more == Append(lists, List(tag, l.value))
             IN  IF l.remaining = << >> THEN Read(more, << >>)
                 ELSE taggedLists(l.remaining, tag, n + 1, more)
        [] OTHER -> Refused

TrimSpace(s) ==
  LET text == {i \in DOMAIN s : s[i] # " "}
  IN  IF text = {} THEN << >>
      ELSE SubSeq(s, CHOOSE i \in text : \A j \in text : i <= j,
                     CHOOSE i \in text : \A j \in text : i >= j)

parseIfHeader(header) ==
  LET s == TrimSpace(header)
      t == lex(s).type
  IN  CASE t = "("     -> noTagLists(s, << >>)
        [] t = "angle" -> taggedLists(s, << >>, -1, << >>)
        [] OTHER       -> Refused

-----------------------------------------------------------------------------
(* Durations are in nanoseconds; a header's number of seconds, N of them in  *)
(* a second, is less than Limit.  An element is "Infinite", a number or      *)
(* something else.                                                          *)

infiniteTimeout == -1

(* The first element counts, the others are what a client would also take. *)
parseTimeout(elements, Second, Limit) ==
  IF elements = << >> THEN Read(infiniteTimeout, << >>)
  ELSE CASE elements[1].kind = "Infinite" -> Read(infiniteTimeout, << >>)
         [] elements[1].kind = "Second" /\ elements[1].n < Limit ->
              Read(elements[1].n * Second, << >>)
         [] OTHER -> Refused

(* writeLockInfo: the seconds of the timeout; Go's division truncates towards *)
(* zero.                                                                    *)
Truncated(a, b) == IF a < 0 THEN -((-a) \div b) ELSE a \div b
writtenTimeout(duration, Second) == Truncated(duration, Second)

infiniteDepth == -1
invalidDepth  == -2

parseDepth(s) ==
  CASE s = "0" -> 0 [] s = "1" -> 1 [] s = "infinity" -> infiniteDepth [] OTHER -> invalidDepth

(* handleLock's body: empty to refresh, or an exclusive write lock. *)
readLockInfo(body) ==
  IF body.length = 0 THEN "refresh"
  ELSE IF ~body.wellFormed THEN "400"
  ELSE IF ~body.exclusive \/ body.shared \/ ~body.write THEN "501"
  ELSE "lock"
=============================================================================
