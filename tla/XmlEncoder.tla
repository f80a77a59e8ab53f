----------------------------- MODULE XmlEncoder -----------------------------
(***************************************************************************)
(* The printer of webdav/internal/xml/marshal.go as operators over its     *)
(* state: the name spaces in force, the stack of definitions to undo and   *)
(* the stack of open tags.  A token is what XmlDecoder's Token returns;    *)
(* what is written is a raw token of XmlDecoder.  Attribute values, text,  *)
(* indentation and buffering are left out, and so is the error for an      *)
(* attribute that is called xmlns in a name space of its own.              *)
(***************************************************************************)
EXTENDS XmlDecoder, FiniteSets

CONSTANT BasePrefix   \* the last element of a URL's path made a legal prefix

NewPrinter == [defaultNS |-> "", attrNS |-> << >>, attrPrefix |-> << >>,
               prefixes |-> << >>, tags |-> << >>, seq |-> 0]

Mark == [prefix |-> "", url |-> "", mark |-> TRUE]

(* The name of no element. *)
NoName == [space |-> "", local |-> ""]

Look(f, k) == IF k \in DOMAIN f THEN f[k] ELSE ""

NsForPrefix(p, prefix) == IF prefix = "" THEN p.defaultNS ELSE Look(p.attrNS, prefix)

(* Mutant: the URL that a redefined prefix stood for keeps its entry. *)
SetAttrPrefixKeepsOld(p, prefix, url) ==
  CASE prefix = ""                -> [p EXCEPT !.defaultNS = url]
    [] prefix # "" /\ url = ""    -> [p EXCEPT !.attrNS = Deleted(@, prefix)]
    [] OTHER -> [p EXCEPT !.attrPrefix = With(@, url, prefix),
                          !.attrNS = With(@, prefix, url)]

SetAttrPrefix(p, prefix, url) ==
  LET cleared == Deleted(p.attrPrefix, NsForPrefix(p, prefix))
  IN  CASE prefix = "" -> [p EXCEPT !.defaultNS = url]
        [] prefix # "" /\ url = "" -> [p EXCEPT !.attrPrefix = cleared,
                                                !.attrNS = Deleted(@, prefix)]
        [] OTHER -> [p EXCEPT !.attrPrefix = With(cleared, url, prefix),
                              !.attrNS = With(@, prefix, url)]

PushPrefix(p, prefix, url) ==
  LET undo == [prefix |-> prefix, url |-> NsForPrefix(p, prefix), mark |-> FALSE]
  IN  SetAttrPrefix([p EXCEPT !.prefixes = Append(@, undo)], prefix, url)

(* The definitions of the innermost element: those above the last mark,    *)
(* the latest one first.                                                   *)
OwnPrefixes(p) ==
  Reverse(SubSeq(p.prefixes,
                 SelectLastInSeq(p.prefixes, LAMBDA r : r.mark) + 1, Len(p.prefixes)))

UndoPrefix(p, r) == SetAttrPrefix(p, r.prefix, r.url)

PopPrefix(p) ==
  LET own  == OwnPrefixes(p)
      kept == Len(p.prefixes) - Len(own)
  IN  Through(UndoPrefix, [p EXCEPT !.prefixes = SubSeq(@, 1, kept - 1)], own)

-----------------------------------------------------------------------------
(* defineNS for the xmlns attributes; a non-empty default cannot be set on *)
(* an element that is itself in no name space.                             *)
DefineNS(p, decl, ignoreNonEmptyDefault) ==
  IF \/ decl.prefix = "" /\ decl.url = p.defaultNS
     \/ decl.prefix = "" /\ decl.url # "" /\ ignoreNonEmptyDefault
     \/ decl.prefix # "" /\ decl.url = ""
     \/ decl.prefix # "" /\ decl.url \in DOMAIN p.attrPrefix
  THEN p
  ELSE PushPrefix(p, decl.prefix, decl.url)

Numbered(prefix, n) == prefix \o "_" \o ToString(n)

(* A prefix nobody uses, with a number when the URL's own is taken. *)
CreatePrefix(p, url) ==
  LET base == BasePrefix[url]
      free == {n \in (p.seq + 1)..(p.seq + 1 + Cardinality(DOMAIN p.attrNS)) :
                 Numbered(base, n) \notin DOMAIN p.attrNS}
      n    == CHOOSE i \in free : \A j \in free : i <= j
  IN  IF base \notin DOMAIN p.attrNS
      THEN PushPrefix(p, base, url)
      ELSE PushPrefix([p EXCEPT !.seq = n], Numbered(base, n), url)

CreateNSPrefix(p, url, isAttr) ==
  IF url \in DOMAIN p.attrPrefix \/ (~isAttr /\ url = p.defaultNS) \/ url = XmlURL THEN p
  ELSE IF url # "" THEN CreatePrefix(p, url)
  ELSE IF p.defaultNS # "" THEN PushPrefix(p, "", "")
  ELSE p

(* Mutant: attributes use the default name space too. *)
PrefixForAnyNS(p, url, isAttr) ==
  IF url = XmlURL THEN "xml"
  ELSE IF url = p.defaultNS THEN ""
  ELSE Look(p.attrPrefix, url)

PrefixForNS(p, url, isAttr) ==
  IF url = XmlURL THEN "xml"
  ELSE IF ~isAttr /\ url = p.defaultNS THEN ""
  ELSE Look(p.attrPrefix, url)

-----------------------------------------------------------------------------
(* writeStart: the printer after the call and the raw tag it wrote.  The   *)
(* attributes' declarations come first, whatever their place in the tag.   *)
WriteStart(p, t) ==
  LET marked   == [p EXCEPT !.tags = Append(@, t.name), !.prefixes = Append(@, Mark)]
      Declare(q, decl) == DefineNS(q, decl, t.name.space = "")
      Imply(q, attr)   == IF attr.space = "" THEN q ELSE CreateNSPrefix(q, attr.space, TRUE)
      declared == Through(Declare, marked, t.decls)
      q        == CreateNSPrefix(Through(Imply, declared, t.attrs), t.name.space, FALSE)
      own      == OwnPrefixes(q)
  IN  [p   |-> q,
       raw |-> [kind   |-> "start", empty |-> FALSE,
                prefix |-> PrefixForNS(q, t.name.space, FALSE),
                local  |-> t.name.local,
                decls  |-> [i \in DOMAIN own |-> [prefix |-> own[i].prefix,
                                                  url |-> NsForPrefix(q, own[i].prefix)]],
                attrs  |-> [i \in DOMAIN t.attrs |->
                              [prefix |-> PrefixForNS(q, t.attrs[i].space, TRUE),
                               local  |-> t.attrs[i].local]]]]

(* Mutant: the name is written when its definitions are undone already. *)
WriteEndLate(p, name) ==
  IF p.tags = << >> \/ name # Last(p.tags)
  THEN [p |-> p, raw |-> Failed("tags")]
  ELSE LET q == PopPrefix([p EXCEPT !.tags = Front(@)])
       IN  [p |-> q, raw |-> RawEnd(PrefixForNS(q, name.space, FALSE), name.local)]

(* writeEnd refuses an end tag that does not match the innermost start. *)
WriteEnd(p, name) ==
  IF p.tags = << >> \/ name # Last(p.tags)
  THEN [p |-> p, raw |-> Failed("tags")]
  ELSE [p   |-> PopPrefix([p EXCEPT !.tags = Front(@)]),
        raw |-> RawEnd(PrefixForNS(p, name.space, FALSE), name.local)]

(* EncodeToken. *)
EncodeToken(p, t) ==
  CASE t.kind = "start" -> WriteStart(p, t)
    [] t.kind = "end"   -> WriteEnd(p, t.name)
    [] OTHER            -> [p |-> p, raw |-> t]

(* marshalValue for an element with a name of its own: an element in a     *)
(* name space makes it the default for what it contains.                   *)
SetDefaultNamespace(name) ==
  IF name.space = "" THEN << >> ELSE <<[prefix |-> "", url |-> name.space]>>

MarshalStart(p, name) ==
  WriteStart(p, [kind |-> "start", name |-> name,
                 decls |-> SetDefaultNamespace(name), attrs |-> << >>])
=============================================================================
