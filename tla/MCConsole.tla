----------------------------- MODULE MCConsole -----------------------------
(* A small instance of ConsoleReader for TLC. *)
EXTENDS ConsoleReader

\* Every line of up to two characters, a word between blanks, two words, and a
\* line that is longer than LineMax.
ShortLines ==
    UNION {[1..n -> Chars] : n \in 0..2}
        \cup {<<" ", "x", " ">>, <<"x", " ", "x">>, <<"x", " ", "x", "x">>}
=============================================================================
