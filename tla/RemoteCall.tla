------------------------------ MODULE RemoteCall ------------------------------
(***************************************************************************)
(* What a connection promises the program that sends commands over it: a   *)
(* command is executed at most once and in the order of the calls, it is   *)
(* reported to have worked only if it was executed, and after a call whose *)
(* answer was not obtained nothing more is executed.                       *)
(***************************************************************************)
EXTENDS Integers, Sequences

CONSTANTS Connections, MaxCalls

VARIABLES
  begun,      \* number of calls made on each connection
  reported,   \* what each of them returned: "ok", "error" or "failed"
  executed    \* the calls the server executed, in order

vars == <<begun, reported, executed>>

Init ==
  /\ begun = [c \in Connections |-> 0]
  /\ reported = [c \in Connections |-> <<>>]
  /\ executed = [c \in Connections |-> <<>>]

Begin(c) ==
  /\ begun[c] = Len(reported[c]) /\ begun[c] < MaxCalls
  /\ begun' = [begun EXCEPT ![c] = @ + 1]
  /\ UNCHANGED <<reported, executed>>

\* A call may still be executed after the program gave up on it.
Execute(c) ==
  /\ \E k \in 1 .. begun[c] :
       /\ \A i \in 1 .. Len(executed[c]) : executed[c][i] < k
       /\ \A j \in 1 .. k - 1 : reported[c][j] # "failed"
       /\ executed' = [executed EXCEPT ![c] = Append(@, k)]
  /\ UNCHANGED <<begun, reported>>

Report(c) ==
  /\ begun[c] = Len(reported[c]) + 1
  /\ \E what \in {"ok", "error", "failed"} :
       /\ what = "ok" => \E i \in 1 .. Len(executed[c]) : executed[c][i] = begun[c]
       /\ reported' = [reported EXCEPT ![c] = Append(@, what)]
  /\ UNCHANGED <<begun, executed>>

Next == \E c \in Connections : Begin(c) \/ Execute(c) \/ Report(c)

Spec == Init /\ [][Next]_vars

===============================================================================
