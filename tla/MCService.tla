----------------------------- MODULE MCService -----------------------------
(* Every environment over a few URLs, and a few spellings of two transfers. *)
EXTENDS Service

CONSTANTS shared, own

Plain(database) == [database |-> database, query |-> <<>>]
WithQuery(database) == [database |-> database, query |-> <<"mode">>]
WithPath(database) == [database |-> database, query |-> <<"cert", "pem">>]

MCUrls == {Plain(shared), WithQuery(shared), WithPath(shared), Plain(own)}
MCSeconds == {-1, 0, 1}
MCUpper == [c \in {" ", "a", "A", "b", "B"} |->
              CASE c \in {"a", "A"} -> "A" [] c \in {"b", "B"} -> "B" [] OTHER -> " "]
MCRaws == {<<"a">>, <<" ", "A">>, <<"a", " ">>, <<"b">>, <<"a", "b">>, <<" ", "A", "B", " ">>,
           <<"a", " ", "b">>, <<" ">>}
=============================================================================
