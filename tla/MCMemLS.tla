------------------------------ MODULE MCMemLS ------------------------------
EXTENDS MemLS

MCSegments == {"a", "b"}

(* A branch of two levels. *)
MCNames == {<< >>, <<"a">>, <<"a", "b">>}

(* Locks that are never due, due at once, and due when the clock has moved: *)
(* they can lapse, be refreshed before and after, and be held past then.    *)
MCDurations == {-1, 0, 1}

(* Two tokens, and one with one that was never given out. *)
MCConditions == {<<3, 2>>, <<1, 4>>}
=============================================================================
