----------------------------- MODULE PropValue ------------------------------
(***************************************************************************)
(* The way of a property's value through a PROPPATCH body and back:        *)
(* xmlValue.UnmarshalXML (webdav/xml.go) takes the tokens of the value     *)
(* from the request's decoder and writes them with an encoder of its own,  *)
(* so that the bytes it keeps need no name space from around them.  What   *)
(* was written is read again by a decoder, either alone (as bytes that     *)
(* stand for themselves) or where PROPFIND's answer puts it: inside the    *)
(* element of the property, inside multistatus.                            *)
(*                                                                         *)
(* The client's document is chosen one raw token at a time.                *)
(***************************************************************************)
EXTENDS XmlEncoder

CONSTANTS RawStarts,   \* start tags a client sends
          RawEnds,     \* end tags a client sends
          MaxDepth,    \* open elements in the document
          MaxDecls,    \* xmlns attributes in the open elements
          MaxNumber    \* numbers given to prefixes of one value

(* What the lexer makes of a tag. *)
ASSUME RawsAssumption ==
  /\ RawStarts \subseteq [kind : {"start"}, prefix : STRING, local : STRING,
                          decls : Seq([prefix : STRING, url : STRING]),
                          attrs : Seq([prefix : STRING, local : STRING]), empty : BOOLEAN]
  /\ RawEnds \subseteq [kind : {"end"}, prefix : STRING, local : STRING]
(* The name spaces that names and attributes may turn out to be in: those   *)
(* declared, prefixes nobody declared, and the one of the answer.          *)
NameSpaces ==
  {"DAV:"} \cup {raw.prefix : raw \in RawStarts}
    \cup (UNION {{raw.decls[i].url : i \in DOMAIN raw.decls} : raw \in RawStarts})
    \cup (UNION {{raw.attrs[i].prefix : i \in DOMAIN raw.attrs} : raw \in RawStarts})

(* createNSPrefix takes "_" for a name that is empty or not legal, and puts  *)
(* "_" before one that begins with xml.                                    *)
ASSUME BasePrefixAssumption ==
  \A url \in NameSpaces \ {"", XmlURL} : BasePrefix[url] \notin {"", "xml"}
ASSUME BoundsAssumption ==
  MaxDepth \in Nat /\ MaxDecls \in Nat /\ MaxNumber \in Nat

VARIABLES
  dec,      \* the decoder of the request
  phase,    \* "props" between properties, "value" in UnmarshalXML, "refused"
  start,    \* the name of the property at hand
  enc,      \* the encoder of the value
  reader,   \* the decoder that reads the value again
  passed,   \* the last token that went through: as decoded, and as read again
  scope     \* history: the tags that are open in the document

vars == <<dec, phase, start, enc, reader, passed, scope>>

Text == [kind |-> "text"]
NoTokens == [sent |-> Text, read |-> Text]

Raws == RawStarts \cup RawEnds
          \cup {Text, [kind |-> "comment"], [kind |-> "bad"], [kind |-> "eof"]}

DeclCount(tags) == FoldLeft(LAMBDA n, t : n + Len(t.decls), 0, tags)

(* The document's open tags after the decoder took raw.  A tag that closes  *)
(* itself is open until its other half has been returned.                  *)
ScopeAfter(d, raw) ==
  CASE ReadsInput(d) /\ raw.kind = "start" -> Append(scope, raw)
    [] ~ReadsInput(d) \/ (raw.kind = "end" /\ scope # << >>) -> Front(scope)
    [] OTHER -> scope

InBounds(raw) ==
  /\ raw.kind = "start" => /\ Len(scope) < MaxDepth
                           /\ DeclCount(scope) + Len(raw.decls) <= MaxDecls
  /\ ReadsInput(dec) \/ raw = [kind |-> "eof"]

-----------------------------------------------------------------------------
(* What is read before the value: nothing, or the start of a multistatus    *)
(* answer and of the property's element as propstat.MarshalXML renames it. *)
Multistatus == [kind  |-> "start", name |-> [space |-> "DAV:", local |-> "multistatus"],
                decls |-> <<[prefix |-> "D", url |-> "DAV:"]>>, attrs |-> << >>]

RawProperty(name) ==
  IF name.space = "DAV:"
  THEN [kind  |-> "start", empty |-> FALSE, prefix |-> "D", local |-> name.local,
        decls |-> << >>, attrs |-> << >>]
  ELSE MarshalStart(WriteStart(NewPrinter, Multistatus).p, name).raw

InResponse(name) ==
  Token(Token(NewDecoder, WriteStart(NewPrinter, Multistatus).raw).d, RawProperty(name)).d

(* proppatchProps.UnmarshalXML between the properties: a start tag begins    *)
(* one, and DecodeElement marks where its value's tokens end.              *)
BetweenProps(raw) ==
  /\ phase = "props" /\ InBounds(raw)
  /\ LET r == Token(dec, raw)
     IN  /\ scope' = ScopeAfter(dec, raw)
         /\ CASE r.t.kind = "error" ->
                   /\ phase' = "refused" /\ dec' = r.d
                   /\ UNCHANGED <<start, enc, reader>>
              [] r.t.kind = "start" /\ scope # << >> ->
                   /\ phase' = "value" /\ start' = r.t.name
                   /\ dec' = PushEOF(r.d)
                   /\ enc' = NewPrinter /\ reader' \in {NewDecoder, InResponse(r.t.name)}
              [] OTHER ->
                   /\ dec' = r.d
                   /\ UNCHANGED <<phase, start, enc, reader>>
  /\ passed' = NoTokens

(* One turn of the loop of xmlValue.UnmarshalXML, with the end of          *)
(* unmarshalInterface when the loop ends: the method must have consumed    *)
(* the whole element.                                                      *)
InValue(raw) ==
  /\ phase = "value" /\ InBounds(raw)
  /\ scope' = ScopeAfter(dec, raw)
  /\ LET r == Token(dec, raw)
         e == EncodeToken(enc, r.t)
         read == Token(reader, e.raw)
     IN  CASE r.t.kind = "error" \/ (r.t.kind = "end" /\ r.t.name = start
                                       /\ ~CanPopEOF(r.d)) ->
                /\ phase' = "refused" /\ dec' = r.d /\ passed' = NoTokens
                /\ UNCHANGED <<start, enc, reader>>
           [] r.t.kind = "end" /\ r.t.name = start /\ CanPopEOF(r.d) ->
                /\ phase' = "props" /\ dec' = PopEOF(r.d) /\ passed' = NoTokens
                /\ start' = NoName /\ enc' = NewPrinter /\ reader' = NewDecoder
           [] r.t.kind = "comment" ->
                /\ dec' = r.d
                /\ UNCHANGED <<phase, start, enc, reader, passed>>
           [] OTHER ->
                /\ e.p.seq <= MaxNumber
                /\ dec' = r.d /\ enc' = e.p /\ reader' = read.d
                /\ passed' = [sent |-> r.t, read |-> read.t]
                /\ UNCHANGED <<phase, start>>

Stopped == phase = "refused" /\ UNCHANGED vars

Init ==
  /\ dec = NewDecoder /\ phase = "props" /\ start = NoName
  /\ enc = NewPrinter /\ reader = NewDecoder /\ passed = NoTokens /\ scope = << >>

Next == (\E raw \in Raws : BetweenProps(raw) \/ InValue(raw)) \/ Stopped

Spec == Init /\ [][Next]_vars

-----------------------------------------------------------------------------
(* Tags that leave the prefix xml to its name space, and tags that declare   *)
(* no prefix twice, as the recommendation on XML name spaces has them; the *)
(* decoder asks neither of a client.                                       *)
XmlIsXml ==
  \A raw \in RawStarts : \A i \in DOMAIN raw.decls :
    raw.decls[i].prefix = "xml" => raw.decls[i].url = XmlURL

TagsDeclareOnce ==
  \A raw \in RawStarts : \A i, j \in DOMAIN raw.decls :
    raw.decls[i].prefix = raw.decls[j].prefix => i = j

(* That a numbered prefix is neither empty nor xml, and tells its number.     *)
NumbersTell(numbers) ==
  \A url \in NameSpaces \ {"", XmlURL} : \A m, n \in numbers :
    /\ Numbered(BasePrefix[url], n) \notin {"", "xml"}
    /\ Numbered(BasePrefix[url], m) = Numbered(BasePrefix[url], n) => m = n

(* The xmlns attributes of the open elements, by the place of the element   *)
(* and of the attribute in its tag.                                        *)
Places == UNION {{<<k, j>> : j \in DOMAIN scope[k].decls} : k \in DOMAIN scope}
DeclAt(a) == scope[a[1]].decls[a[2]]
LaterIn(a, b) == a[1] > b[1] \/ (a[1] = b[1] /\ a[2] > b[2])

(* The name spaces in force are those that the open elements of the        *)
(* document declare, the innermost declaration of a prefix before the      *)
(* others: each end of an element takes back exactly what its start set.   *)
NsExact ==
  dec.err = "none" =>
    /\ DOMAIN dec.ns = {DeclAt(a).prefix : a \in Places}
    /\ \A a \in Places :
         (\A b \in Places : LaterIn(b, a) => DeclAt(b).prefix # DeclAt(a).prefix) =>
           dec.ns[DeclAt(a).prefix] = DeclAt(a).url

(* marshal.go says that the maps from prefix to URL and from URL to prefix  *)
(* are one-to-one: "we maintain a strict one-to-one mapping between prefix *)
(* and URL".                                                               *)
PrefixesOneToOne ==
  /\ \A prefix \in DOMAIN enc.attrNS : Look(enc.attrPrefix, enc.attrNS[prefix]) = prefix
  /\ \A url \in DOMAIN enc.attrPrefix : Look(enc.attrNS, enc.attrPrefix[url]) = url

(* The encoder has its name spaces back as they were whenever every element *)
(* of the value is closed: popPrefix undoes what writeStart defined.       *)
NamesTakenBack == enc.tags = << >> => [enc EXCEPT !.seq = 0] = NewPrinter

(* The decoder accepts what the encoder writes, token by token, the encoder *)
(* refuses nothing that a decoder gave it, and is as it was at first        *)
(* whenever every element of the value is closed.                          *)
ReadAsWritten ==
  reader.err = "none" /\ passed.read.kind = passed.sent.kind /\ NamesTakenBack

(* No start tag is written that declares one prefix twice, which other      *)
(* readers would not take.                                                 *)
DeclaredOnce ==
  passed.read.kind = "start" =>
    \A i, j \in DOMAIN passed.read.decls :
      passed.read.decls[i].prefix = passed.read.decls[j].prefix => i = j

(* The value is read by itself, not inside an answer. *)
Alone == \A i \in DOMAIN reader.stk : reader.stk[i] # StartFrame(Multistatus.name)

(* Every name of the value, of elements and of attributes, is read again as *)
(* the name it was sent with; but an element without a name space, for      *)
(* which the encoder has no declaration, takes that of the property when   *)
(* it is read inside an answer.                                            *)
ReadAsSent ==
  /\ passed.sent.kind \in {"start", "end"} /\ (Alone \/ passed.sent.name.space # "") =>
       passed.read.name = passed.sent.name
  /\ passed.sent.kind = "start" => passed.read.attrs = passed.sent.attrs

(* Names come through, and no tag takes a prefix for two name spaces.       *)
NamesKept == ReadAsSent /\ DeclaredOnce

(* Between two properties the decoder stands where it stood before the     *)
(* first of them: a value takes the tokens of its own element and no more, *)
(* and the stop that kept it there is gone.                                *)
ValueTakesItsElement ==
  phase = "props" =>
    /\ \A i \in DOMAIN dec.stk : dec.stk[i].kind # "eof"
    /\ Cardinality({i \in DOMAIN dec.stk : dec.stk[i].kind = "start"}) = Len(scope)
=============================================================================
