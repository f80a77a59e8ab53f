---------------------------- MODULE MCAwsFSBoot ----------------------------
EXTENDS AwsFSBoot

CONSTANTS c1, c2, i1, i2

MCSegments == {"a", "b"}
MCCallers  == {c1, c2}

(* A path that comes, changes, is moved and goes. *)
EntryNames   == {<< >>, <<"a">>, <<"b">>}
EntryRenames == {<<<<"a">>, <<"b">>>>}

(* Each caller in a process of its own. *)
OwnInstance == [c \in MCCallers |-> IF c = c1 THEN i1 ELSE i2]
=============================================================================
