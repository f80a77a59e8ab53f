--------------------------- MODULE MCTreeRequests ---------------------------
EXTENDS TreeRequests

MCSegments == {"a", "b"}
MCBodies == {<< >>, <<"x">>}

MCTrees ==
  {( << >> :> Directory @@ <<"a">> :> Directory @@ <<"a", "a">> :> <<"x">>
       @@ <<"a", "b">> :> Directory),
   ( << >> :> Directory @@ <<"a">> :> Directory @@ <<"a", "a">> :> Directory
       @@ <<"b">> :> <<"x">>),
   ( << >> :> Directory @@ <<"a">> :> <<"x">> @@ <<"a", "a">> :> <<"x">>
       @@ <<"b">> :> Directory @@ <<"b", "a">> :> Directory @@ <<"b", "a", "b">> :> <<"x">>)}

Request(method, src, dst, overwrite, depth) ==
  [method |-> method, src |-> src, dst |-> dst, overwrite |-> overwrite, depth |-> depth]

(* Among them a COPY of a directory into itself and onto the directory above. *)
MCRequests ==
  {r \in {Request("COPY", src, dst, o, d) :
            src \in {<<"a">>, <<"b">>, <<"a", "a">>, <<"a", "b">>},
            dst \in {<<"a">>, <<"a", "a">>, <<"b">>, <<"b", "a">>},
            o \in BOOLEAN, d \in {0, Infinite}} : r.src # r.dst}
  \cup {Request("MOVE", src, dst, o, Infinite) :
          src \in {<<"a">>, <<"a", "a">>, <<"b", "a">>},
          dst \in {<<"b">>, <<"b", "b">>}, o \in BOOLEAN}
  \cup {Request("PROPFIND", src, << >>, FALSE, d) :
          src \in {<< >>, <<"a">>, <<"b", "a">>}, d \in {0, 1, Infinite}}
=============================================================================
