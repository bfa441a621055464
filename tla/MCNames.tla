------------------------------- MODULE MCNames -------------------------------
(***************************************************************************)
(* Names with databases and collections whose names hold single and double *)
(* colons and dots, wherever the code can tell them apart.                 *)
(***************************************************************************)
EXTENDS Names

AllChars == {"a", "b", ":", "."}
AdminName == <<"b">>
DBs == {<<"a">>, <<"a", ":", "b">>}
Collections == {<<"b">>, <<":", ":", "b">>, <<".", ":", ":">>}

\* The promise is about names that can be told apart.
ASSUME PlainNames

===============================================================================
