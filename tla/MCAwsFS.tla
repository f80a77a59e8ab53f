------------------------------ MODULE MCAwsFS ------------------------------
EXTENDS AwsFS

CONSTANTS c1, c2, i1, i2

MCSegments == {"a", "b"}
MCCallers  == {c1, c2}

(* For the run about the tree: a directory and a path in it, and where they *)
(* can be moved to.                                                        *)
TreeNames   == {<< >>, <<"a">>, <<"a", "b">>, <<"b">>, <<"b", "b">>}
TreeRenames == {<<<<"a">>, <<"b">>>>, <<<<"a", "b">>, <<"b">>>>}

(* For the run about mux: two paths that come and go. *)
EntryNames   == {<< >>, <<"a">>, <<"b">>}
EntryRenames == {<<<<"a">>, <<"b">>>>}

(* Two callers of one process of the server, or each in a process of its own. *)
OneInstance == [c \in MCCallers |-> i1]
OwnInstance == [c \in MCCallers |-> IF c = c1 THEN i1 ELSE i2]
=============================================================================
