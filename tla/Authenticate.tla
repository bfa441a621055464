------------------------------ MODULE Authenticate ------------------------------
(***************************************************************************)
(* How a connection gets ready: the constructor of ThorsMongo registers    *)
(* the authentication mechanisms it knows and calls handShake(), which     *)
(* agrees on compression and on a mechanism with the server and carries    *)
(* that mechanism's conversation out.  Whoever catches the exception of a  *)
(* failed handshake still has the message handler.                         *)
(*                                                                         *)
(* An exchange, a message sent and its reply received, is one step: there  *)
(* is one thread, which does nothing else meanwhile.                       *)
(*                                                                         *)
(* An operator whose comment begins with "Mistaken" is a variant of the    *)
(* one after it that no behaviour uses: a plausible mistake, which a       *)
(* property has to notice when it takes the place of the original.         *)
(***************************************************************************)
EXTENDS Integers, Sequences

CONSTANTS
  Mechanisms,   \* the authentication mechanisms there are
  Registered,   \* those given to addAuthenticator()
  Offers,       \* the lists of mechanisms a server may offer, by preference
  Compressions, \* what the user may ask for: a set of sets
  MaxUses,      \* bound: what is done with the handler after the handshake
  Faults        \* what goes wrong: a subset of AllFaults

\* "error": the server refuses a message.  "lost": the connection dies, or the
\* reply is not accepted.  "garbled": the server's challenge does not make
\* sense to the SCRAM client, which throws.  "unfinished": the server does not
\* say that the conversation is done.
AllFaults == {"error", "lost", "garbled", "unfinished"}

ASSUME AuthenticateAssumption ==
  /\ Registered \subseteq Mechanisms
  /\ Offers \subseteq Seq(Mechanisms)
  /\ Compressions \subseteq SUBSET {"Snappy", "ZLib", "ZStd"}
  /\ MaxUses \in Nat
  /\ Faults \subseteq AllFaults

VARIABLES
  pc,            \* the exchange the client is about to start, or how it ended
  good,          \* the stream's state
  requested,     \* the user's useCompression
  compression,   \* useCompressionOnWrite
  mechanism,     \* the mechanism used
  uses,
  \* The server: what it can compress with, what it offers, how far the
  \* conversation is, what it agreed to, and the messages it handled.
  supports, offers, session, agreed, handled

client == <<pc, good, requested, compression, mechanism, uses>>
server == <<supports, offers, session, agreed, handled>>
vars   == <<client, server>>

None == "none"

-----------------------------------------------------------------------------
\* What sendMessage() and recvMessage() lead to: the reply, "failed" if there
\* was none that was accepted, "error" if it says that ok is not 1.
Outcomes(possible) ==
  IF ~good THEN {"failed"}
  ELSE possible \cup {f \in {"error"} : f \in Faults}
                \cup {f \in {"failed"} : "lost" \in Faults}

\* The server handles a message of this kind, and its conversation reaches the
\* given state; if the reply is lost, perhaps the message was, too.
Handle(kind, outcome, then) ==
  \/ /\ outcome # "failed" \/ good
     /\ handled' = Append(handled, [kind |-> kind, compression |-> compression])
     /\ session' = IF outcome = "error" /\ kind # "command" THEN "none" ELSE then
  \/ outcome = "failed" /\ UNCHANGED <<handled, session>>

\* Mistaken: the exception leaves the stream as it is.
ThrowOnly == pc' = "thrown" /\ UNCHANGED good

\* Mistaken: it is caught, and the handshake begun again.
ThrowAndRetry == pc' = "hello" /\ good' = FALSE

\* An exception: handShake() fails the stream and throws on.
Throw == pc' = "thrown" /\ good' = FALSE

\* Mistaken: also those that are not implemented.
ToldAll == requested

\* The compressions handShake() tells the server.
Told == requested \cap {"Snappy"}

\* Mistaken: it compresses because it offered to.
ChosenUnasked(names) == IF "Snappy" \in requested \/ "Snappy" \in names THEN "Snappy" ELSE compression

\* What setCompression() is called with, from the names in the reply.
Chosen(names) == IF "Snappy" \in names THEN "Snappy" ELSE compression

\* The first mechanism of the server's list that is registered.
Choice(list) ==
  IF \E i \in DOMAIN list : list[i] \in Registered
    THEN list[CHOOSE i \in DOMAIN list :
                /\ list[i] \in Registered
                /\ \A j \in 1 .. i - 1 : list[j] \notin Registered]
    ELSE None

Init ==
  /\ pc = "hello" /\ good = TRUE
  /\ requested \in Compressions /\ compression = "None"
  /\ mechanism = None /\ uses = 0
  /\ supports \in SUBSET {"Snappy", "ZLib"} /\ offers \in Offers
  /\ session = "none" /\ agreed = {} /\ handled = <<>>

\* authenticteHandShake(): the hello.  Its reply names the compressions both
\* sides know and the server's mechanisms.
HandShake ==
  /\ pc = "hello"
  /\ \E outcome \in Outcomes({"ok"}) :
       /\ Handle("hello", outcome, "none")
       /\ IF outcome = "ok"
            THEN /\ agreed' = Told \cap supports
                 /\ compression' = Chosen(agreed')
                 /\ mechanism' = Choice(offers)
                 /\ IF mechanism' = None THEN Throw
                    ELSE pc' = "start" /\ UNCHANGED good
            ELSE Throw /\ UNCHANGED <<agreed, compression, mechanism>>
  /\ UNCHANGED <<requested, uses, supports, offers>>

\* ScramSha256::authenticate(), first exchange: the client's first message.
Start ==
  /\ pc = "start"
  /\ \E outcome \in Outcomes({"ok"}) :
       /\ Handle("start", outcome, "challenged")
       /\ IF outcome = "ok" THEN pc' = "proof" /\ UNCHANGED good ELSE Throw
  /\ UNCHANGED <<requested, compression, mechanism, uses, supports, offers, agreed>>

\* Second exchange: getFinalMessage() computes the proof from the challenge.
Proof ==
  /\ pc = "proof"
  /\ \/ /\ "garbled" \in Faults /\ Throw
        /\ UNCHANGED <<session, handled>>
     \/ \E outcome \in Outcomes({"ok"}) :
          /\ Handle("continue", outcome, "proved")
          /\ IF outcome = "ok" THEN pc' = "finish" /\ UNCHANGED good ELSE Throw
  /\ UNCHANGED <<requested, compression, mechanism, uses, supports, offers, agreed>>

\* Mistaken: "done" is not looked at.
FinishUnchecked ==
  /\ pc = "finish"
  /\ \E outcome \in Outcomes({"done"} \cup {f \in {"unfinished"} : f \in Faults}) :
       /\ Handle("continue", outcome, IF outcome = "unfinished" THEN session ELSE "authenticated")
       /\ IF outcome \in {"done", "unfinished"} THEN pc' = "ready" /\ UNCHANGED good ELSE Throw
  /\ UNCHANGED <<requested, compression, mechanism, uses, supports, offers, agreed>>

\* Third exchange, with nothing in it: the server must be done.
Finish ==
  /\ pc = "finish"
  /\ \E outcome \in Outcomes({"done"} \cup {f \in {"unfinished"} : f \in Faults}) :
       /\ Handle("continue", outcome, IF outcome = "unfinished" THEN session ELSE "authenticated")
       /\ IF outcome = "done" THEN pc' = "ready" /\ UNCHANGED good ELSE Throw
  /\ UNCHANGED <<requested, compression, mechanism, uses, supports, offers, agreed>>

\* A command on the message handler, whether or not the handshake worked.
Command ==
  /\ pc \in {"ready", "thrown"} /\ uses < MaxUses
  /\ uses' = uses + 1
  /\ \E outcome \in Outcomes({"ok"}) :
       /\ Handle("command", outcome, session)
       /\ good' = (outcome # "failed")
  /\ UNCHANGED <<pc, requested, compression, mechanism, supports, offers, agreed>>

\* Another handShake() on a message handler whose handshake failed.
Again ==
  /\ pc = "thrown" /\ uses < MaxUses
  /\ uses' = uses + 1 /\ pc' = "hello"
  /\ UNCHANGED <<good, requested, compression, mechanism, server>>

Done == pc \in {"ready", "thrown"} /\ uses = MaxUses /\ UNCHANGED vars

Next == HandShake \/ Start \/ Proof \/ Finish \/ Command \/ Again \/ Done

Spec == Init /\ [][Next]_vars

\* The thread is not stopped in the middle of a handshake, and every message
\* is answered or the connection closed.
FairSpec == Spec /\ WF_vars(HandShake \/ Start \/ Proof \/ Finish)

-----------------------------------------------------------------------------
(* Properties. *)

TypeOK ==
  /\ pc \in {"hello", "start", "proof", "finish", "ready", "thrown"}
  /\ good \in BOOLEAN /\ requested \in Compressions
  /\ compression \in {"None", "Snappy"}
  /\ mechanism \in Mechanisms \cup {None} /\ uses \in 0 .. MaxUses
  /\ supports \subseteq {"Snappy", "ZLib"} /\ offers \in Offers
  /\ session \in {"none", "challenged", "proved", "authenticated"}
  /\ agreed \subseteq {"Snappy"}
  /\ handled \in Seq([kind : {"hello", "start", "continue", "command"},
                      compression : {"None", "Snappy"}])

\* A constructed ThorsMongo is a connection that the server authenticated, by
\* the mechanism it prefers of those the client knows.
ReadyIsAuthenticated ==
  pc = "ready" =>
    /\ session = "authenticated"
    /\ mechanism \in Registered
    /\ \E i \in DOMAIN offers : /\ offers[i] = mechanism
                               /\ \A j \in 1 .. i - 1 : offers[j] \notin Registered

\* The server gets no command but after a complete handshake, even from a
\* program that goes on with a message handler whose handshake failed.
CommandsFollowHandshake ==
  \A i \in DOMAIN handled :
    handled[i].kind = "command" =>
      /\ i > 4
      /\ [j \in 1 .. 4 |-> handled[j].kind] = <<"hello", "start", "continue", "continue">>

\* What is compressed was agreed to be: the user asked for it, the server can
\* do it, and it is after the hello that settled it.
CompressedIsAgreed ==
  \A i \in DOMAIN handled :
    handled[i].compression # "None" =>
      /\ i > 1
      /\ handled[i].compression \in requested \cap supports

\* A failed handshake is not made good by another one on the same connection.
ThrownIsFinal == [](pc = "thrown" => [](pc # "ready"))

\* Every handshake comes to an end.
HandshakeEnds == pc \notin {"ready", "thrown"} ~> pc \in {"ready", "thrown"}

===============================================================================
