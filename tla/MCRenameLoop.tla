---------------------------- MODULE MCRenameLoop ----------------------------
EXTENDS RenameLoop

MCSegments == {"a", "b"}

(* Paths over both branches, and a tree deep enough that what is moved onto *)
(* its own ancestor comes to lie below the old path again.                  *)
MCNames == {<< >>, <<"a">>, <<"b">>, <<"a", "a">>, <<"a", "b">>, <<"b", "a">>, <<"b", "b">>,
            <<"a", "a", "a">>, <<"a", "a", "b">>, <<"a", "b", "a">>, <<"b", "a", "b">>,
            <<"a", "a", "a", "b">>}
=============================================================================
