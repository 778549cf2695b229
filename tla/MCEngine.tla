------------------------------ MODULE MCEngine ------------------------------
(* A small instance of Engine for TLC: a character is a word of its own. *)
EXTENDS Engine

Words == {"hello", "reload", "refresh", "testlua1", "testlua2", "7", "x"}

CommandLines ==
    {<<w>> : w \in Words \ {"7"}}
        \cup {<<"hello", " ", "7">>, <<"hello", " ", "x">>, <<"testlua1", " ">>}

TheNumbers == {<<"7">>}
AllChars == Words \cup {" "}
=============================================================================
