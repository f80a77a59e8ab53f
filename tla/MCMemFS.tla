------------------------------- MODULE MCMemFS ------------------------------
EXTENDS MemFS

MCSegments == {"a", "b"}
MCNames == {<< >>, <<"a">>, <<"b">>, <<"a", "a">>}
MCBytes == {<< >>, <<1>>}
MCFlags == {{}, {"write", "create"}, {"write", "create", "trunc"}, {"write", "create", "excl"},
            {"write", "append"}}
=============================================================================
