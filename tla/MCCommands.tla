------------------------------ MODULE MCCommands ------------------------------
(***************************************************************************)
(* Commands with two connections and as many message ids as calls, so that *)
(* no id is used twice.                                                    *)
(***************************************************************************)
EXTENDS Commands

Plain     == {{}}
NoneOrOne == {{}} \cup {{f} : f \in AllFlags}

\* The user of one connection sets flags.
SomeFlags == LET c == CHOOSE x \in Connections : TRUE
             IN  [x \in Connections |-> IF x = c THEN NoneOrOne ELSE Plain]

===============================================================================
