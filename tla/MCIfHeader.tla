----------------------------- MODULE MCIfHeader -----------------------------
(* The functions of IfHeader against other definitions of the same, over     *)
(* bounded inputs.                                                          *)
EXTENDS IfHeader, FiniteSets

LOCAL INSTANCE TLC

(* Headers are put together of these. *)
Pieces == {<<"(">>, <<")">>, <<"<", "a", ">">>, <<"<", ">">>, <<"[", "a", "]">>, <<"[">>,
           <<"Not", " ">>, <<"a", " ">>, <<" ", "(", "a", "a", ")">>}
MaxPieces == 5

AllHeaders == {FlattenSeq(pieces) : pieces \in SeqOf(Pieces, MaxPieces)}

RECURSIVE tokensOf(_)
tokensOf(s) ==
  LET t == lex(s) IN IF t.type = "eof" THEN << >> ELSE <<t>> \o tokensOf(t.remaining)

Operands == {"str", "angle", "square"}

(* What is inside a list: as many have been opened before as closed, and one. *)
Inside(ts, i) ==
  LET Before(type) == Cardinality({j \in 1 .. (i - 1) : ts[j].type = type})
  IN  Before("(") = Before(")") + 1

(* The grammar of RFC 4918, section 10.4.2, with words for coded URLs as     *)
(* well, told of each token by itself.                                      *)
WellFormedHeader(ts) ==
  LET T(i) == ts[i].type
      n    == Len(ts)
  IN  /\ n > 0 /\ T(n) = ")" /\ T(1) \in {"(", "angle"}
      /\ \A i \in 1 .. n :
           CASE T(i) = "("     -> ~Inside(ts, i)
             [] T(i) = ")"     -> Inside(ts, i) /\ T(i - 1) \in Operands
             [] T(i) = "Not"   -> Inside(ts, i) /\ T(i - 1) # "Not"
             [] T(i) = "angle" -> Inside(ts, i) \/ (T(1) = "angle" /\ (i = 1 \/ T(i - 1) = ")"))
             [] T(i) \in Operands -> Inside(ts, i)
             [] OTHER          -> FALSE

(* The lists of a well-formed header: one for each parenthesis that opens,   *)
(* tagged by the last word in angle brackets outside of the lists.          *)
Meaning(ts) ==
  LET Where(type) == {i \in DOMAIN ts : ts[i].type = type}
      opens == SetToSortSeq(Where("("), <)
      TagOf(i) ==
        LET tags == {j \in Where("angle") : j < i /\ ~Inside(ts, j)}
        IN  IF tags = {} THEN << >> ELSE ts[CHOOSE j \in tags : \A k \in tags : k <= j].str
      OperandsOf(i) ==
        SetToSortSeq({j \in i .. Len(ts) :
                        /\ ts[j].type \in Operands
                        /\ ~ \E k \in Where(")") : i < k /\ k < j}, <)
      Meant(j) == Condition(ts[j - 1].type = "Not",
                            IF ts[j].type = "square" THEN << >> ELSE ts[j].str,
                            IF ts[j].type = "square" THEN ts[j].str ELSE << >>)
  IN  [k \in DOMAIN opens |->
         LET operands == OperandsOf(opens[k])
         IN  List(TagOf(opens[k]), [m \in DOMAIN operands |-> Meant(operands[m])])]

(* parseIfHeader accepts the headers of the grammar and gives their lists.   *)
ASSUME IfHeaderExact ==
  \A s \in AllHeaders :
    LET ts == tokensOf(s)
        h  == parseIfHeader(s)
    IN  /\ h.ok <=> WellFormedHeader(ts)
        /\ h.ok => h.value = Meaning(ts)

(* lex loses nothing but blanks: the tokens, written again, are the header.  *)
ASSUME LexExact ==
  \A s \in SeqOf(Characters, 4) :
    LET ts == tokensOf(s)
        Shown(t) ==
          CASE t.type = "str" -> t.str
            [] t.type = "Not" -> <<"Not">>
            [] t.type = "angle" -> <<"<">> \o t.str \o <<">">>
            [] t.type = "square" -> <<"[">> \o t.str \o <<"]">>
            [] OTHER -> <<t.type>>
        text == SelectSeq(s, LAMBDA c : c # " ")
        again == SelectSeq(FlattenSeq([i \in DOMAIN ts |-> Shown(ts[i])]), LAMBDA c : c # " ")
    IN  (\A i \in DOMAIN ts : ts[i].type # "err") => again = text

(* A timeout that a client asks for is the one that it is told, but for the   *)
(* infinite one, which is told as no time at all (xml.go:89).               *)
ASSUME TimeoutExact ==
  \A kind \in {"Infinite", "Second", "other"}, n \in 0 .. 9 :
    LET Second == 4
        t == parseTimeout(<<[kind |-> kind, n |-> n]>>, Second, 8)
    IN  /\ t.ok <=> kind = "Infinite" \/ (kind = "Second" /\ n < 8)
        /\ t.ok => writtenTimeout(t.value, Second) = IF kind = "Infinite" THEN 0 ELSE n
=============================================================================
