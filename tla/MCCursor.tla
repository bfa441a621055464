------------------------------- MODULE MCCursor -------------------------------
(***************************************************************************)
(* Cursor with two ranges of three and two documents, in batches of two.   *)
(***************************************************************************)
EXTENDS Cursor, TLC

CONSTANTS r1, r2

MCRanges == {r1, r2}
MCDocs   == (r1 :> 3) @@ (r2 :> 2)

===============================================================================
