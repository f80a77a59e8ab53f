------------------------------ MODULE MCWebDAV ------------------------------
EXTENDS WebDAV, MCIfHeader, TLC

CONSTANTS r1, r2, t1, t2

(* Requests are interchangeable, and so are tokens. *)
Swap == Permutations({r1, r2}) \cup Permutations({t1, t2})

MCSegments == {"a", "b"}

FlatNames == {<< >>, <<"a">>, <<"b">>}
DeepNames == {<< >>, <<"a">>, <<"a", "b">>}

EmptyStore  == {{<< >>}}
EmptyOrDeep == {{<< >>}, {<< >>, <<"a">>}}
=============================================================================
