----------------------------- MODULE ReplyStream -----------------------------
(***************************************************************************)
(* What the reader of a connection is promised: the replies' bytes, in     *)
(* order, as many as it asks for, until the connection is cut.  A read     *)
(* that cannot be satisfied fails, which only happens once the connection  *)
(* is cut, and nothing is read after a failure.                            *)
(***************************************************************************)
EXTENDS Integers, Sequences

CONSTANT Content            \* the byte at each position of the stream

VARIABLES delivered, failed, open

vars == <<delivered, failed, open>>

Init == delivered = <<>> /\ failed = FALSE /\ open = TRUE

Read ==
  /\ ~failed /\ UNCHANGED <<failed, open>>
  /\ Len(delivered') > Len(delivered)
  /\ \A i \in 1 .. Len(delivered) : delivered'[i] = delivered[i]
  /\ \A i \in Len(delivered) + 1 .. Len(delivered') : delivered'[i] = Content[i - 1]

Cut == open /\ open' = FALSE /\ UNCHANGED <<delivered, failed>>

\* A short read: what it put in the reader's memory is not used.
Fail ==
  /\ ~failed /\ failed' = TRUE /\ open' = FALSE
  /\ \A i \in 1 .. Len(delivered) : delivered'[i] = delivered[i]

Next == Read \/ Cut \/ Fail

Spec == Init /\ [][Next]_vars

===============================================================================
