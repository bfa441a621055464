-------------------------------- MODULE Commands --------------------------------
(***************************************************************************)
(* How a command runs: Collection::insert(), remove(), countDocuments()    *)
(* and the others all call MessageHandler::sendMessage(), and if that      *)
(* succeeds recvMessage(), and return the response or, for a reply that    *)
(* was not accepted and if the configuration says so, throw it: to the     *)
(* model these are the same.  Every connection is used by a thread of its  *)
(* own; what the threads share is the counter that message ids are taken   *)
(* from.                                                                   *)
(*                                                                         *)
(* The calls on a connection are numbered 1, 2, ...; the numbers are not   *)
(* part of the program, which only knows message ids.                      *)
(*                                                                         *)
(* An operator whose comment begins with "Mistaken" is a variant of the    *)
(* one after it that no behaviour uses: a plausible mistake, which a       *)
(* property has to notice when it takes the place of the original.         *)
(***************************************************************************)
EXTENDS Integers, Sequences

CONSTANTS
  Connections,  \* each with the thread that uses it
  MaxCalls,     \* bound: calls made on a connection
  IdSpace,      \* number of message ids, 2^32
  Flags,        \* per connection: the sets of flags its calls may be made with
  Faults        \* what goes wrong: a subset of AllFaults

AllFlags == {"moreToCome", "exhaustAllowed"}

\* "error": the server refuses a command.  "corrupt": a reply fails the checks
\* of recvMessage() that do not concern its id: checksum, size, op code.
\* "unsendable": a message is not complete when it is flushed.  "lost": a
\* connection is closed.
AllFaults == {"error", "corrupt", "unsendable", "lost"}

ASSUME CommandsAssumption ==
  /\ MaxCalls \in Nat /\ IdSpace \in Nat \ {0}
  /\ Flags \in [Connections -> SUBSET SUBSET AllFlags]
  /\ Faults \subseteq AllFaults

VARIABLES
  nextMessageId,  \* the static atomic counter
  good, open,     \* per connection: the stream's state, the socket's
  pc,             \* where its thread is
  current,        \* the call it is making
  results,        \* what the calls returned
  toServer,       \* requests on their way
  toClient,       \* replies on their way
  executed        \* the calls the server executed

vars == <<nextMessageId, good, open, pc, current, results,
          toServer, toClient, executed>>

Call == [number : Nat, messageId : 0 .. IdSpace - 1, flags : SUBSET AllFlags]

Request == [messageId : 0 .. IdSpace - 1, flags : SUBSET AllFlags, call : Nat]

\* "call" is the call a reply answers, "valid" what recvMessage() makes of it
\* besides its id.
Reply == [responseId : 0 .. IdSpace - 1, ok : BOOLEAN, valid : BOOLEAN, call : Nat]

\* The response's ok and, as history, whether the reply it was read from was
\* accepted, which call that reply answers, and the flags of the request.
Result == [ok : BOOLEAN, accepted : BOOLEAN, answers : Nat, flags : SUBSET AllFlags]

-----------------------------------------------------------------------------
Init ==
  /\ nextMessageId = 0
  /\ good = [c \in Connections |-> TRUE] /\ open = [c \in Connections |-> TRUE]
  /\ pc = [c \in Connections |-> "idle"]
  /\ current = [c \in Connections |->
                  [number |-> 0, messageId |-> 0, flags |-> {}]]
  /\ results = [c \in Connections |-> <<>>]
  /\ toServer = [c \in Connections |-> <<>>]
  /\ toClient = [c \in Connections |-> <<>>]
  /\ executed = [c \in Connections |-> <<>>]

\* Mistaken: the counter does not wrap around.
AfterUnbounded(id) == id + 1

\* The counter is an unsigned integer.
After(id) == (id + 1) % IdSpace

\* A command begins: sendMessage() fills in the message's header, whose id is
\* getMessageId()++.
Number(c) ==
  /\ pc[c] = "idle" /\ Len(results[c]) < MaxCalls
  /\ \E flags \in Flags[c] :
       current' = [current EXCEPT ![c] =
                     [number |-> Len(results[c]) + 1, messageId |-> nextMessageId,
                      flags |-> flags]]
  /\ nextMessageId' = After(nextMessageId)
  /\ pc' = [pc EXCEPT ![c] = "numbered"]
  /\ UNCHANGED <<good, open, results, toServer, toClient, executed>>

\* The command returns its response, or throws it.
Return(c, ok, accepted, answers) ==
  /\ results' = [results EXCEPT ![c] =
       Append(@, [ok |-> ok, accepted |-> accepted, answers |-> answers,
                  flags |-> current[c].flags])]
  /\ pc' = [pc EXCEPT ![c] = "idle"]

\* Mistaken: a message may be sent a second time.
SendTwice(c) ==
  /\ pc[c] \in {"numbered", "waiting"} /\ good[c] /\ Len(toServer[c]) < 2
  /\ toServer' = [toServer EXCEPT ![c] =
                    Append(@, [messageId |-> current[c].messageId,
                               flags |-> current[c].flags,
                               call |-> current[c].number])]
  /\ pc' = [pc EXCEPT ![c] = "waiting"]
  /\ UNCHANGED <<nextMessageId, good, open, current, results, toClient, executed>>

\* The rest of sendMessage(), on a good stream: everything is written and
\* flushed.  A socket whose peer is gone may still take a message.
Send(c) ==
  /\ pc[c] = "numbered" /\ good[c]
  /\ toServer' = IF open[c]
                   THEN [toServer EXCEPT ![c] =
                           Append(@, [messageId |-> current[c].messageId,
                                      flags |-> current[c].flags,
                                      call |-> current[c].number])]
                   ELSE toServer
  /\ pc' = [pc EXCEPT ![c] = "waiting"]
  /\ UNCHANGED <<nextMessageId, good, open, current, results, toClient, executed>>

\* It fails, and the command returns: the stream was not good, or the message
\* could not be written.
SendFails(c) ==
  /\ pc[c] = "numbered"
  /\ ~good[c] \/ ~open[c] \/ "unsendable" \in Faults
  /\ good' = [good EXCEPT ![c] = FALSE]
  /\ Return(c, FALSE, FALSE, 0)
  /\ UNCHANGED <<nextMessageId, open, current, toServer, toClient, executed>>

\* Mistaken: the id is not looked at.
AcceptedAny(r, id) == r.valid /\ id \in Nat

\* The checks of recvMessage().
Accepted(r, id) == r.valid /\ r.responseId = id

\* Mistaken: a reply that is not accepted does not fail the stream.
ReceiveForgives(c) ==
  /\ pc[c] = "waiting" /\ toClient[c] # <<>>
  /\ LET r == Head(toClient[c])
     IN  Return(c, r.ok, Accepted(r, current[c].messageId), r.call)
  /\ toClient' = [toClient EXCEPT ![c] = Tail(@)]
  /\ UNCHANGED <<nextMessageId, good, open, current, toServer, executed>>

\* recvMessage() and the command's return.  The reply is parsed into the
\* response before it is checked; one that is not accepted fails the stream.
Receive(c) ==
  /\ pc[c] = "waiting" /\ toClient[c] # <<>>
  /\ LET r == Head(toClient[c])
         accepted == Accepted(r, current[c].messageId)
     IN  /\ good' = [good EXCEPT ![c] = accepted]
         /\ Return(c, r.ok, accepted, r.call)
  /\ toClient' = [toClient EXCEPT ![c] = Tail(@)]
  /\ UNCHANGED <<nextMessageId, open, current, toServer, executed>>

\* Mistaken: it gives up waiting, with the stream still good.
ReceiveTimesOut(c) ==
  /\ pc[c] = "waiting" /\ toClient[c] = <<>>
  /\ Return(c, FALSE, FALSE, 0)
  /\ UNCHANGED <<nextMessageId, good, open, current, toServer, toClient, executed>>

\* Mistaken: it tries again until there is something to read.
ReceiveRetries(c) ==
  /\ pc[c] = "waiting" /\ toClient[c] = <<>> /\ ~open[c]
  /\ UNCHANGED vars

\* recvMessage() finds the end of the stream.
ReceiveFails(c) ==
  /\ pc[c] = "waiting" /\ toClient[c] = <<>> /\ ~open[c]
  /\ good' = [good EXCEPT ![c] = FALSE]
  /\ Return(c, FALSE, FALSE, 0)
  /\ UNCHANGED <<nextMessageId, open, current, toServer, toClient, executed>>

-----------------------------------------------------------------------------
(* The server and the network. *)

\* The server executes a request, or refuses it, and answers; not if the
\* request says that more is to come, and twice if it allows that (a getMore).
Execute(c) ==
  /\ toServer[c] # <<>>
  /\ LET q == Head(toServer[c]) IN
     \E ok \in {TRUE} \cup {b \in {FALSE} : "error" \in Faults},
        valid \in {TRUE} \cup {b \in {FALSE} : "corrupt" \in Faults},
        twice \in {FALSE} \cup {b \in {TRUE} : "exhaustAllowed" \in q.flags} :
       LET r == [responseId |-> q.messageId, ok |-> ok, valid |-> valid, call |-> q.call]
       IN  /\ executed' = IF ok THEN [executed EXCEPT ![c] = Append(@, q.call)] ELSE executed
           /\ toClient' = IF ~open[c] \/ "moreToCome" \in q.flags THEN toClient
                          ELSE [toClient EXCEPT ![c] =
                                  IF twice THEN Append(Append(@, r), r) ELSE Append(@, r)]
  /\ toServer' = [toServer EXCEPT ![c] = Tail(@)]
  /\ UNCHANGED <<nextMessageId, good, open, pc, current, results>>

\* A connection is closed: what is on its way may arrive or not.
Close(c) ==
  /\ "lost" \in Faults /\ open[c]
  /\ open' = [open EXCEPT ![c] = FALSE]
  /\ toServer' \in {toServer, [toServer EXCEPT ![c] = <<>>]}
  /\ toClient' \in {toClient, [toClient EXCEPT ![c] = <<>>]}
  /\ UNCHANGED <<nextMessageId, good, pc, current, results, executed>>

\* Every thread has made its calls.
Done == /\ \A c \in Connections : pc[c] = "idle" /\ Len(results[c]) = MaxCalls
        /\ UNCHANGED vars

ThreadNext(c) == Number(c) \/ Send(c) \/ SendFails(c) \/ Receive(c) \/ ReceiveFails(c)

Next == \/ \E c \in Connections : ThreadNext(c) \/ Execute(c) \/ Close(c)
        \/ Done

Spec == Init /\ [][Next]_vars

\* Threads run, and the server gets to every request.
FairSpec ==
  /\ Spec
  /\ \A c \in Connections :
       WF_vars(Send(c) \/ SendFails(c) \/ Receive(c) \/ ReceiveFails(c)) /\ WF_vars(Execute(c))

-----------------------------------------------------------------------------
(* Properties. *)

TypeOK ==
  /\ nextMessageId \in 0 .. IdSpace - 1
  /\ good \in [Connections -> BOOLEAN] /\ open \in [Connections -> BOOLEAN]
  /\ pc \in [Connections -> {"idle", "numbered", "waiting"}]
  /\ current \in [Connections -> Call]
  /\ results \in [Connections -> Seq(Result)]
  /\ toServer \in [Connections -> Seq(Request)]
  /\ toClient \in [Connections -> Seq(Reply)]
  /\ executed \in [Connections -> Seq(Nat)]

\* A response that was accepted is the answer to the very call it is returned
\* from, although other threads take ids at any moment.  A reply left over from a
\* request that allows several is told apart by its id alone: this is about ids
\* that are not used again while it is there.
OwnAnswer ==
  \A c \in Connections : \A k \in 1 .. Len(results[c]) :
    results[c][k].accepted => results[c][k].answers = k

\* After a call whose answer was not obtained, whatever the reason, no later
\* call on that connection reaches the server.
FailureIsFinal ==
  \A c \in Connections : \A k \in 1 .. Len(results[c]) :
    ~results[c][k].accepted =>
      /\ \A i \in 1 .. Len(executed[c]) : executed[c][i] <= k
      /\ \A i \in 1 .. Len(toServer[c]) : toServer[c][i].call <= k

\* Between two commands of a good connection nothing is on its way: the next
\* reply the client reads is not one that it should have read before, unless it
\* is a further reply to a request that allowed several.
InStep ==
  \A c \in Connections :
    pc[c] # "waiting" /\ good[c] =>
      /\ toServer[c] = <<>>
      /\ \A i \in 1 .. Len(toClient[c]) :
           "exhaustAllowed" \in results[c][toClient[c][i].call].flags

\* Every command returns or throws, but one whose request forbids a reply.
CommandReturns ==
  \A c \in Connections :
    pc[c] # "idle" /\ "moreToCome" \notin current[c].flags ~> pc[c] = "idle"

\* What call k tells the program that made it.  What is read from a reply to an
\* earlier call counts as a failure, which it is: the reply is rejected.
Told(k, r) == IF r.ok /\ (r.accepted \/ r.answers = k) THEN "ok"
              ELSE IF r.accepted THEN "error" ELSE "failed"

Remote == INSTANCE RemoteCall WITH
  begun    <- [c \in Connections |-> IF pc[c] = "idle" THEN Len(results[c])
                                     ELSE Len(results[c]) + 1],
  reported <- [c \in Connections |-> [k \in 1 .. Len(results[c]) |-> Told(k, results[c][k])]]

\* The connections keep the promise of RemoteCall, all together.
ImplementsRemoteCall == Remote!Spec

===============================================================================
