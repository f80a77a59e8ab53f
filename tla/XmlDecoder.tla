----------------------------- MODULE XmlDecoder -----------------------------
(***************************************************************************)
(* The Decoder of webdav/internal/xml/xml.go as operators over its state:  *)
(* the stack of open elements and of name space translations to undo, the  *)
(* translations in force, the pending half of a self-closing element and   *)
(* the error that sticks.  Every decoder of the repository is strict.      *)
(*                                                                         *)
(* Lexing is abstracted: a raw token is a record that tells what rawToken  *)
(* found.  Its kind is "start" (with the prefix and the local name, the    *)
(* xmlns attributes as decls, the other attributes as attrs, and whether   *)
(* the tag closes itself), "end", "text", "comment" (also processing       *)
(* instructions and directives), "bad" (any syntax error) or "eof".  The   *)
(* empty prefix is that of an undecorated name.                            *)
(***************************************************************************)
EXTENDS Sequences, Integers, TLC, SequencesExt, Functions

XmlURL == "http://www.w3.org/XML/1998/namespace"

(* f without the key k, Go's delete. *)
Deleted(f, k) == [x \in DOMAIN f \ {k} |-> f[x]]

(* f with v at the key k, Go's assignment to an element of a map. *)
With(f, k, v) == [x \in DOMAIN f \cup {k} |-> IF x = k THEN v ELSE f[x]]

(* The state after Op has taken each element of seq in turn. *)
Through(Op(_, _), state, seq) ==
  LET at[i \in 0..Len(seq)] == IF i = 0 THEN state ELSE Op(at[i - 1], seq[i])
  IN  at[Len(seq)]

StartFrame(name) == [kind |-> "start", space |-> name.space, local |-> name.local]
NsFrame(prefix, url, ok) == [kind |-> "ns", prefix |-> prefix, url |-> url, ok |-> ok]
EOFFrame == [kind |-> "eof"]

NewDecoder == [stk |-> << >>, ns |-> << >>, toClose |-> << >>, err |-> "none"]

TopKind(d) == IF d.stk = << >> THEN "none" ELSE Last(d.stk).kind

-----------------------------------------------------------------------------
(* translate: attributes without a prefix are in no name space, and a      *)
(* prefix nobody declared stands for itself.                               *)
Translate(ns, prefix, isElement) ==
  IF prefix = "" /\ ~isElement THEN ""
  ELSE IF prefix = "xml" THEN XmlURL
  ELSE IF prefix \in DOMAIN ns THEN ns[prefix]
  ELSE prefix

(* pushNs and the assignment to d.ns that follows it. *)
DeclareNs(d, decl) ==
  LET ok == decl.prefix \in DOMAIN d.ns
  IN  [d EXCEPT !.stk = Append(@, NsFrame(decl.prefix,
                                          IF ok THEN d.ns[decl.prefix] ELSE "", ok)),
                !.ns  = With(@, decl.prefix, decl.url)]

PushElement(d, name) == [d EXCEPT !.stk = Append(@, StartFrame(name))]

UndoNs(ns, frame) ==
  IF frame.ok THEN With(ns, frame.prefix, frame.url) ELSE Deleted(ns, frame.prefix)

(* Mutant: the element's own translations stay in force. *)
PopElementKeepsNs(d, name) ==
  LET rest == IF d.stk = << >> THEN << >> ELSE Front(d.stk)
      keep == SelectLastInSeq(rest, LAMBDA f : f.kind # "ns")
  IN  IF d.stk # << >> /\ Last(d.stk) = StartFrame(name)
      THEN [d EXCEPT !.stk = SubSeq(rest, 1, keep)]
      ELSE [d EXCEPT !.stk = rest, !.err = "syntax"]

(* The frames below the element that ended, up to the next element or EOF   *)
(* frame, hold the translations it declared, the last one on top.          *)
PopElement(d, name) ==
  LET s    == IF d.stk = << >> THEN EOFFrame ELSE Last(d.stk)
      rest == IF d.stk = << >> THEN << >> ELSE Front(d.stk)
      keep == SelectLastInSeq(rest, LAMBDA f : f.kind # "ns")
      undo == Reverse(SubSeq(rest, keep + 1, Len(rest)))
  IN  IF s = StartFrame(name)
      THEN [d EXCEPT !.stk = SubSeq(rest, 1, keep), !.ns = Through(UndoNs, @, undo)]
      ELSE [d EXCEPT !.stk = rest, !.err = "syntax"]

(* pushEOF puts its frame under the innermost open element and under the   *)
(* translations that belong to it.                                         *)
PushEOF(d) ==
  LET start == SelectLastInSeq(d.stk, LAMBDA f : f.kind = "start")
      below == SelectLastInSubSeq(d.stk, 1, start - 1, LAMBDA f : f.kind # "ns")
  IN  [d EXCEPT !.stk = InsertAt(@, below + 1, EOFFrame)]

(* Mutant: the result of popEOF is not looked at. *)
CanAlwaysPopEOF(d) == d.stk # << >>

(* popEOF fails when the element has not been finished. *)
CanPopEOF(d) == TopKind(d) = "eof"
PopEOF(d)    == [d EXCEPT !.stk = Front(@)]

-----------------------------------------------------------------------------
(* Whether the next call of rawToken reads from the input, and what it     *)
(* returns when the input holds raw.                                       *)
ReadsInput(d) == d.err = "none" /\ d.toClose = << >>

RawEnd(prefix, local) == [kind |-> "end", prefix |-> prefix, local |-> local]
Failed(e) == [kind |-> "error", err |-> e]

(* An open tag; one that closes itself is followed by its other half. *)
RawStart(d, raw) ==
  [d   |-> [d EXCEPT !.toClose = IF raw.empty THEN <<raw>> ELSE << >>],
   raw |-> raw]

RawToken(d, raw) ==
  IF d.err # "none" THEN [d |-> d, raw |-> Failed(d.err)]
  ELSE IF d.toClose # << >>
       THEN [d   |-> [d EXCEPT !.toClose = << >>],
             raw |-> RawEnd(d.toClose[1].prefix, d.toClose[1].local)]
  ELSE CASE raw.kind = "eof"   -> [d |-> [d EXCEPT !.err = "eof"], raw |-> Failed("eof")]
         [] raw.kind = "bad"   -> [d |-> [d EXCEPT !.err = "syntax"], raw |-> Failed("syntax")]
         [] raw.kind = "start" -> RawStart(d, raw)
         [] OTHER              -> [d |-> d, raw |-> raw]

StartToken(d, raw) ==
  LET inside == Through(DeclareNs, d, raw.decls)
      name   == [space |-> Translate(inside.ns, raw.prefix, TRUE), local |-> raw.local]
      attrs  == [i \in DOMAIN raw.attrs |->
                   [space |-> Translate(inside.ns, raw.attrs[i].prefix, FALSE),
                    local |-> raw.attrs[i].local]]
  IN  [d |-> PushElement(inside, name),
       t |-> [kind |-> "start", name |-> name, decls |-> raw.decls, attrs |-> attrs]]

EndToken(d, raw) ==
  LET name  == [space |-> Translate(d.ns, raw.prefix, TRUE), local |-> raw.local]
      after == PopElement(d, name)
  IN  [d |-> after,
       t |-> IF after.err = "none" THEN [kind |-> "end", name |-> name] ELSE Failed("syntax")]

(* Token: the decoder after the call and the token or the error.  An EOF    *)
(* frame on top of the stack ends the tokens of an UnmarshalXML method.    *)
Token(d, raw) ==
  LET r == RawToken(d, raw)
  IN  IF TopKind(d) = "eof" THEN [d |-> d, t |-> Failed("eof")]
      ELSE CASE r.raw.kind = "start" -> StartToken(r.d, r.raw)
             [] r.raw.kind = "end"   -> EndToken(r.d, r.raw)
             [] OTHER                -> [d |-> r.d, t |-> r.raw]
=============================================================================
