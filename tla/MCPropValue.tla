---------------------------- MODULE MCPropValue -----------------------------
EXTENDS PropValue

Decl(prefix, url) == [prefix |-> prefix, url |-> url]

Tag(prefix, local, decls, attrs, empty) ==
  [kind |-> "start", prefix |-> prefix, local |-> local, decls |-> decls,
   attrs |-> attrs, empty |-> empty]

(* Declarations of the default and of two prefixes, one of which is the     *)
(* prefix the encoder would make for the name space "u" itself.            *)
Decls ==
  {Decl("", ""), Decl("", "u"), Decl("p", "u"), Decl("p", "DAV:"), Decl("u", "DAV:")}

MCDecls ==
  {<< >>} \cup {<<d>> : d \in Decls}
    \cup {<<Decl("u", "DAV:"), Decl("p", "u")>>, <<Decl("", "u"), Decl("p", "u")>>}

(* Those that say what "p" stands for, and none at all. *)
DeclsOfP == {decls \in MCDecls : decls = << >> \/ \E i \in DOMAIN decls : decls[i].prefix = "p"}

AttrP == <<[prefix |-> "p", local |-> "a"]>>

(* Elements y with any declarations, and elements x without; names and      *)
(* attributes with the prefix "p" where it is declared or not at all.       *)
MCStarts ==
  {Tag("", "y", decls, << >>, FALSE) : decls \in MCDecls}
    \cup {Tag("", "y", decls, AttrP, FALSE) : decls \in DeclsOfP}
    \cup {Tag("p", "y", decls, << >>, FALSE) : decls \in DeclsOfP}
    \cup {Tag("p", "x", << >>, <<[prefix |-> "xml", local |-> "a"]>>, empty) :
            empty \in BOOLEAN}

MCEnds == {RawEnd(prefix, local) : prefix \in {"", "p"}, local \in {"x", "y"}}

(* The prefix the encoder tries for each name space; "p" and "_" stand for   *)
(* prefixes nobody declared, which the decoder takes for name spaces.      *)
MCBase == [url \in {"u", "DAV:", "p", "xml"} |->
             CASE url = "DAV:" -> "_" [] url = "xml" -> "_xml" [] OTHER -> url]

(* What the theorems ask of tags holds of these, and what they ask of        *)
(* numbered prefixes holds as far as it was tried.                         *)
ASSUME XmlIsXml /\ TagsDeclareOnce /\ NumbersTell(0..20)
=============================================================================
