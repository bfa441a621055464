---------------------------- MODULE MCWriteBuffer ----------------------------
(***************************************************************************)
(* WriteBuffer with the sizes scaled down: bytes hold 0 to 3, a block is   *)
(* two bytes of size, one of an id and one of flags.  The first message,   *)
(* with a checksum, is written as announced; of the second too few, as     *)
(* many, or too many bytes are written; the third, with a checksum, is     *)
(* written as announced, perhaps in single bytes from the first one on;    *)
(* the fourth claims to be smaller than any message.  The sizes of the     *)
(* last two, 7 and 11, have a byte that looks like eof(): with the id in   *)
(* its place they are 9, which fits in the buffer, and 10, which does not. *)
(***************************************************************************)
EXTENDS WriteBuffer

Block(size0, size1, id, flags) == [i \in 0 .. 3 |-> <<size0, size1, id, flags>>[i + 1]]

MCHeader      == <<Block(1, 2, 1, 1), Block(0, 2, 2, 0), Block(2, 1, 3, 1),
                   Block(1, 1, 0, 0), Block(3, 1, 2, 0), Block(3, 2, 2, 0)>>
MCSize        == <<9, 8, 6, 5, 7, 11>>
MCWritten     == <<{9}, {7, 8, 9}, {6}, {6}, {7}, {11}>>
MCChecksummed == <<TRUE, FALSE, TRUE, FALSE, FALSE, FALSE>>

==============================================================================
