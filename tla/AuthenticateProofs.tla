--------------------------- MODULE AuthenticateProofs ---------------------------
(***************************************************************************)
(* Proofs about Authenticate, for all mechanisms, offers and faults.       *)
(*                                                                         *)
(* The argument: a stream that is good has carried the messages of the     *)
(* handshake up to the client's program counter and nothing else, and an   *)
(* exception leaves a stream that is not.                                  *)
(***************************************************************************)
EXTENDS Authenticate, SequenceTheorems, WellFoundedInduction, TLAPS

Kinds == {"hello", "start", "continue", "command"}

\* What the i-th message that the server handles is.
KindOf(i) == IF i = 1 THEN "hello" ELSE IF i = 2 THEN "start"
             ELSE IF i \in {3, 4} THEN "continue" ELSE "command"

\* The messages are handled in this order, and their number is known where the
\* client is in the middle of a handshake.
InOrder ==
  /\ \A i \in DOMAIN handled : handled[i].kind = KindOf(i)
  /\ pc = "hello" /\ good => Len(handled) = 0
  /\ pc = "start"  => good /\ Len(handled) = 1
  /\ pc = "proof"  => good /\ Len(handled) = 2
  /\ pc = "finish" => good /\ Len(handled) = 3
  /\ pc = "ready"  => Len(handled) >= 4
  /\ pc = "thrown" => ~good

\* The mechanism is the first of the server's that the client knows.
Preferred ==
  pc \in {"start", "proof", "finish", "ready"} =>
    /\ mechanism \in Registered
    /\ \E i \in DOMAIN offers : /\ offers[i] = mechanism
                               /\ \A j \in 1 .. i - 1 : offers[j] \notin Registered

\* Compression is off until the server's hello, and then what both agreed to.
Agreement ==
  /\ pc = "hello" /\ good => compression = "None"
  /\ compression # "None" => compression \in requested \cap supports

IInv ==
  /\ TypeOK /\ InOrder /\ Preferred /\ Agreement /\ CompressedIsAgreed
  /\ pc = "ready" => session = "authenticated"

-----------------------------------------------------------------------------
\* A set of numbers that is not empty has a least.
LEMMA SmallestIndex ==
  ASSUME NEW T, T \subseteq Nat, T # {}
  PROVE  \E x \in T : \A y \in T : x <= y
<1> DEFINE less == {s \in Nat \X Nat : s[1] < s[2]}
<1>1. IsWellFoundedOn(less, Nat)
  BY NatLessThanWellFounded DEF OpToRel
<1>2. PICK x \in T : \A y \in T : <<y, x>> \notin less
  BY <1>1, WFMin
<1>3. \A y \in T : y < x => <<y, x>> \in less
  OBVIOUS
<1>4. \A y \in T : ~(y < x)
  BY <1>2, <1>3
<1>5. x \in Nat /\ \A y \in T : y \in Nat
  OBVIOUS
<1> HIDE DEF less
<1> QED BY <1>4, <1>5

\* authenticteHandShake() goes through the server's list until it finds one of
\* the mechanisms it was given.
LEMMA ChoicePreferred ==
  ASSUME NEW list \in Seq(Mechanisms), Choice(list) # None
  PROVE  /\ Choice(list) \in Registered
         /\ \E i \in DOMAIN list : /\ list[i] = Choice(list)
                                  /\ \A j \in 1 .. i - 1 : list[j] \notin Registered
<1> DEFINE First(i) == list[i] \in Registered /\ \A j \in 1 .. i - 1 : list[j] \notin Registered
           T == {i \in DOMAIN list : list[i] \in Registered}
<1>1. DOMAIN list \subseteq Nat /\ DOMAIN list = 1 .. Len(list) /\ Len(list) \in Nat
  OBVIOUS
<1>2. T # {}
  BY DEF Choice
<1>3. PICK m \in T : \A y \in T : m <= y
  BY <1>1, <1>2, SmallestIndex
<1>4. m \in DOMAIN list /\ First(m)
  <2>1. \A j \in 1 .. m - 1 : j \in DOMAIN list /\ ~(m <= j)
    BY <1>1, <1>3
  <2> QED BY <1>3, <2>1
<1> DEFINE c == CHOOSE i \in DOMAIN list : First(i)
<1>5. c \in DOMAIN list /\ First(c)
  BY <1>4
<1>6. Choice(list) = list[c]
  BY <1>2 DEF Choice
<1> QED BY <1>5, <1>6

-----------------------------------------------------------------------------
(* The steps. *)

\* What an exchange adds to the messages the server handled.
LEMMA Handled ==
  ASSUME NEW kind \in Kinds, NEW outcome, NEW then, TypeOK, Handle(kind, outcome, then)
  PROVE  /\ handled' \in Seq([kind : Kinds, compression : {"None", "Snappy"}])
         /\ \/ /\ outcome # "failed" \/ good
               /\ Len(handled') = Len(handled) + 1
               /\ \A i \in DOMAIN handled : handled'[i] = handled[i]
               /\ handled'[Len(handled')] = [kind |-> kind, compression |-> compression]
               /\ DOMAIN handled' = DOMAIN handled \cup {Len(handled')}
            \/ outcome = "failed" /\ UNCHANGED <<handled, session>>
<1> DEFINE T == [kind : Kinds, compression : {"None", "Snappy"}]
           e == [kind |-> kind, compression |-> compression]
<1>1. handled \in Seq(T) /\ e \in T
  BY DEF TypeOK, Kinds
<1>2. CASE outcome # "failed" \/ good
  <2>1. CASE handled' = Append(handled, e)
    <3>1. /\ handled' \in Seq(T) /\ Len(handled') = Len(handled) + 1
          /\ \A i \in 1 .. Len(handled) : handled'[i] = handled[i]
          /\ handled'[Len(handled) + 1] = e
      BY <1>1, <2>1, AppendProperties
    <3>2. /\ DOMAIN handled = 1 .. Len(handled) /\ DOMAIN handled' = 1 .. Len(handled')
          /\ Len(handled) \in Nat
      BY <1>1, <3>1
    <3> QED BY <1>2, <3>1, <3>2
  <2>2. CASE outcome = "failed" /\ UNCHANGED <<handled, session>>
    BY <1>1, <2>2
  <2> QED BY <1>2, <2>1, <2>2 DEF Handle
<1>3. CASE outcome = "failed" /\ ~good
  BY <1>1, <1>3 DEF Handle
<1> QED BY <1>2, <1>3

\* A message that is not sent, because the stream has failed, changes nothing.
LEMMA NotSent ==
  ASSUME ~good, NEW possible, NEW outcome \in Outcomes(possible)
  PROVE  outcome = "failed"
BY DEF Outcomes

LEMMA HandShakeStep == IInv /\ HandShake => IInv'
<1> SUFFICES ASSUME IInv, HandShake
             PROVE  IInv'
  OBVIOUS
<1> USE DEF IInv
<1>1. PICK outcome \in Outcomes({"ok"}) :
        /\ Handle("hello", outcome, "none")
        /\ IF outcome = "ok"
             THEN /\ agreed' = Told \cap supports
                  /\ compression' = Chosen(agreed')
                  /\ mechanism' = Choice(offers)
                  /\ IF mechanism' = None THEN Throw
                     ELSE pc' = "start" /\ UNCHANGED good
             ELSE Throw /\ UNCHANGED <<agreed, compression, mechanism>>
  BY DEF HandShake
<1>2. pc = "hello" /\ UNCHANGED <<requested, uses, supports, offers>>
  BY DEF HandShake
<1>3. offers \in Seq(Mechanisms)
  BY AuthenticateAssumption DEF TypeOK
<1>4. /\ handled' \in Seq([kind : Kinds, compression : {"None", "Snappy"}])
      /\ \/ /\ good /\ Len(handled') = 1 /\ DOMAIN handled' = {1}
            /\ handled'[1] = [kind |-> "hello", compression |-> "None"]
         \/ outcome = "failed" /\ UNCHANGED <<handled, session>>
  <2>1. outcome # "failed" => good
    BY NotSent
  <2>2. good => Len(handled) = 0 /\ DOMAIN handled = {} /\ compression = "None"
    BY <1>2 DEF InOrder, Agreement, TypeOK
  <2>3. "hello" \in Kinds
    BY DEF Kinds
  <2>4. /\ handled' \in Seq([kind : Kinds, compression : {"None", "Snappy"}])
        /\ \/ /\ outcome # "failed" \/ good
              /\ Len(handled') = Len(handled) + 1
              /\ handled'[Len(handled')] = [kind |-> "hello", compression |-> compression]
              /\ DOMAIN handled' = DOMAIN handled \cup {Len(handled')}
           \/ outcome = "failed" /\ UNCHANGED <<handled, session>>
    BY <1>1, <2>3, Handled
  <2>5. CASE outcome # "failed" \/ good
    <3>1. good /\ Len(handled) = 0 /\ DOMAIN handled = {} /\ compression = "None"
      BY <2>1, <2>2, <2>5
    <3> QED BY <2>4, <3>1
  <2> QED BY <2>4, <2>5
<1>5. session' \in {"none", "challenged", "proved", "authenticated"}
  BY <1>1 DEF Handle, TypeOK
<1>6. compression' \in {"None", "Snappy"} /\ (compression' # "None" => compression' \in requested \cap supports)
  BY <1>1, <1>2 DEF Chosen, Told, TypeOK, Agreement
<1>7. \/ pc' = "thrown" /\ good' = FALSE
      \/ outcome = "ok" /\ pc' = "start" /\ UNCHANGED good /\ mechanism' = Choice(offers) /\ mechanism' # None
  BY <1>1 DEF Throw
<1>8. mechanism' \in Mechanisms \cup {None} /\ agreed' \subseteq {"Snappy"}
  BY <1>1, <1>3, ChoicePreferred, AuthenticateAssumption DEF TypeOK, Told
<1>9. TypeOK'
  BY <1>2, <1>4, <1>5, <1>6, <1>7, <1>8 DEF TypeOK, Kinds
<1>10. InOrder'
  BY <1>4, <1>7 DEF InOrder, KindOf
<1>11. Preferred'
  BY <1>2, <1>3, <1>7, ChoicePreferred DEF Preferred
<1>12. Agreement' /\ CompressedIsAgreed'
  BY <1>2, <1>4, <1>6, <1>7 DEF Agreement, CompressedIsAgreed
<1> QED BY <1>7, <1>9, <1>10, <1>11, <1>12

\* The exchanges of the mechanism's conversation, which differ in what they
\* send, where they are and how far they bring the server.
LEMMA Exchange ==
  ASSUME NEW kind \in Kinds, NEW at, NEW next, NEW done,
         NEW then \in {"challenged", "proved", "authenticated"}, NEW after,
         NEW possible, NEW outcome \in Outcomes(possible),
         IInv, pc = at, Handle(kind, outcome, after),
         IF outcome = done THEN pc' = next /\ UNCHANGED good ELSE Throw,
         UNCHANGED <<requested, compression, mechanism, uses, supports, offers, agreed>>,
         after \in {then, session}, done # "failed",
         \/ <<at, next, kind>> = <<"start", "proof", "start">>
         \/ <<at, next, kind>> = <<"proof", "finish", "continue">>
         \/ /\ <<at, next, kind>> = <<"finish", "ready", "continue">>
            /\ outcome = done => outcome # "error" /\ after = "authenticated"
  PROVE  IInv'
<1> USE DEF IInv
<1>1. /\ handled' \in Seq([kind : Kinds, compression : {"None", "Snappy"}])
      /\ \/ /\ Len(handled') = Len(handled) + 1
            /\ \A i \in DOMAIN handled : handled'[i] = handled[i]
            /\ handled'[Len(handled')] = [kind |-> kind, compression |-> compression]
            /\ DOMAIN handled' = DOMAIN handled \cup {Len(handled')}
         \/ outcome = "failed" /\ UNCHANGED <<handled, session>>
  BY Handled
<1>2. \/ pc' = "thrown" /\ good' = FALSE
      \/ outcome = done /\ pc' = next /\ UNCHANGED good
  BY DEF Throw
<1>3. good /\ Len(handled) = (CASE at = "start" -> 1 [] at = "proof" -> 2 [] at = "finish" -> 3)
  BY DEF InOrder
<1>4. session' \in {"none", "challenged", "proved", "authenticated"}
  BY DEF Handle, TypeOK
<1>5. TypeOK'
  BY <1>1, <1>2, <1>4 DEF TypeOK, Kinds
<1>6. InOrder'
  <2>1. \A i \in DOMAIN handled' : handled'[i].kind = KindOf(i)
    BY <1>1, <1>3 DEF InOrder, KindOf
  <2>2. CASE pc' = "thrown" /\ good' = FALSE
    BY <2>1, <2>2 DEF InOrder
  <2>3. CASE outcome = done /\ pc' = next /\ UNCHANGED good
    <3>1. Len(handled') = Len(handled) + 1 /\ good'
      BY <1>1, <1>3, <2>3
    <3>2. \/ pc' = "proof" /\ Len(handled') = 2
          \/ pc' = "finish" /\ Len(handled') = 3
          \/ pc' = "ready" /\ Len(handled') = 4
      BY <1>3, <2>3, <3>1
    <3> QED BY <2>1, <3>1, <3>2 DEF InOrder
  <2> QED BY <1>2, <2>2, <2>3
<1>7. Preferred' /\ Agreement'
  BY <1>2 DEF Preferred, Agreement
<1>8. CompressedIsAgreed'
  BY <1>1, <1>3 DEF CompressedIsAgreed, Agreement
<1>9. pc' = "ready" => session' = "authenticated"
  BY <1>2 DEF Handle
<1> QED BY <1>5, <1>6, <1>7, <1>8, <1>9

LEMMA StartStep == IInv /\ Start => IInv'
<1> SUFFICES ASSUME IInv, Start
             PROVE  IInv'
  OBVIOUS
<1>1. PICK outcome \in Outcomes({"ok"}) :
        /\ Handle("start", outcome, "challenged")
        /\ IF outcome = "ok" THEN pc' = "proof" /\ UNCHANGED good ELSE Throw
  BY DEF Start
<1>2. pc = "start" /\ UNCHANGED <<requested, compression, mechanism, uses, supports, offers, agreed>>
  BY DEF Start
<1>3. "start" \in Kinds
  BY DEF Kinds
<1> QED BY <1>1, <1>2, <1>3, Exchange

LEMMA ProofStep == IInv /\ Proof => IInv'
<1> SUFFICES ASSUME IInv, Proof
             PROVE  IInv'
  OBVIOUS
<1>1. pc = "proof" /\ UNCHANGED <<requested, compression, mechanism, uses, supports, offers, agreed>>
  BY DEF Proof
<1>2. CASE Throw /\ UNCHANGED <<session, handled>>
  <2>1. pc' = "thrown" /\ good' = FALSE
    BY <1>2 DEF Throw
  <2> QED BY <1>1, <1>2, <2>1
        DEF IInv, TypeOK, InOrder, Preferred, Agreement, CompressedIsAgreed
<1>3. ASSUME NEW outcome \in Outcomes({"ok"}),
             Handle("continue", outcome, "proved"),
             IF outcome = "ok" THEN pc' = "finish" /\ UNCHANGED good ELSE Throw
      PROVE  IInv'
  <2>1. "continue" \in Kinds
    BY DEF Kinds
  <2> QED BY <1>1, <1>3, <2>1, Exchange
<1> QED BY <1>2, <1>3 DEF Proof

LEMMA FinishStep == IInv /\ Finish => IInv'
<1> SUFFICES ASSUME IInv, Finish
             PROVE  IInv'
  OBVIOUS
<1>1. PICK outcome \in Outcomes({"done"} \cup {f \in {"unfinished"} : f \in Faults}) :
        /\ Handle("continue", outcome, IF outcome = "unfinished" THEN session ELSE "authenticated")
        /\ IF outcome = "done" THEN pc' = "ready" /\ UNCHANGED good ELSE Throw
  BY DEF Finish
<1>2. pc = "finish" /\ UNCHANGED <<requested, compression, mechanism, uses, supports, offers, agreed>>
  BY DEF Finish
<1> DEFINE after == IF outcome = "unfinished" THEN session ELSE "authenticated"
<1>3. after \in {"authenticated", session} /\ (outcome = "done" => after = "authenticated")
  OBVIOUS
<1>4. Handle("continue", outcome, after)
  BY <1>1
<1>5. "continue" \in Kinds
  BY DEF Kinds
<1> HIDE DEF after
<1> QED BY <1>1, <1>2, <1>3, <1>4, <1>5, Exchange

LEMMA CommandStep == IInv /\ Command => IInv'
<1> SUFFICES ASSUME IInv, Command
             PROVE  IInv'
  OBVIOUS
<1> USE DEF IInv
<1>1. PICK outcome \in Outcomes({"ok"}) :
        Handle("command", outcome, session) /\ good' = (outcome # "failed")
  BY DEF Command
<1>2. /\ pc \in {"ready", "thrown"} /\ uses' = uses + 1 /\ uses < MaxUses
      /\ UNCHANGED <<pc, requested, compression, mechanism, supports, offers, agreed>>
  BY DEF Command
<1>3. "command" \in Kinds
  BY DEF Kinds
<1>4. /\ handled' \in Seq([kind : Kinds, compression : {"None", "Snappy"}])
      /\ \/ /\ outcome # "failed" \/ good
            /\ Len(handled') = Len(handled) + 1
            /\ \A i \in DOMAIN handled : handled'[i] = handled[i]
            /\ handled'[Len(handled')] = [kind |-> "command", compression |-> compression]
            /\ DOMAIN handled' = DOMAIN handled \cup {Len(handled')}
         \/ outcome = "failed" /\ UNCHANGED <<handled, session>>
  BY <1>1, <1>3, Handled
<1>5. session' = session /\ good' \in BOOLEAN
  BY <1>1 DEF Handle
<1>6. TypeOK'
  <2>1. uses' \in 0 .. MaxUses
    BY <1>2, AuthenticateAssumption DEF TypeOK
  <2> QED BY <1>2, <1>4, <1>5, <2>1 DEF TypeOK, Kinds
<1>7. CASE outcome = "failed" /\ UNCHANGED <<handled, session>>
  <2>1. pc = "thrown" => good' = FALSE
    BY <1>1, <1>7
  <2>2. InOrder'
    BY <1>2, <1>7, <2>1 DEF InOrder
  <2> QED BY <1>2, <1>5, <1>6, <1>7, <2>2 DEF Preferred, Agreement, CompressedIsAgreed
<1>8. CASE ~(outcome = "failed" /\ UNCHANGED <<handled, session>>)
  <2>1. good /\ pc = "ready" /\ Len(handled) >= 4
    BY <1>2, <1>4, <1>8, NotSent DEF InOrder
  <2>2. /\ Len(handled') = Len(handled) + 1 /\ Len(handled) \in Nat
        /\ \A i \in DOMAIN handled : handled'[i] = handled[i]
        /\ handled'[Len(handled')] = [kind |-> "command", compression |-> compression]
        /\ DOMAIN handled' = DOMAIN handled \cup {Len(handled')}
    BY <1>4, <1>8 DEF TypeOK
  <2>3. InOrder'
    BY <1>2, <2>1, <2>2 DEF InOrder, KindOf
  <2>4. CompressedIsAgreed'
    BY <1>2, <2>1, <2>2 DEF CompressedIsAgreed, Agreement
  <2> QED BY <1>2, <1>5, <1>6, <2>1, <2>3, <2>4 DEF Preferred, Agreement
<1> QED BY <1>7, <1>8

LEMMA AgainStep == IInv /\ Again => IInv'
<1> SUFFICES ASSUME IInv, Again
             PROVE  IInv'
  OBVIOUS
<1>1. ~good /\ ~good' /\ uses' \in 0 .. MaxUses /\ pc' = "hello"
  BY AuthenticateAssumption DEF Again, IInv, TypeOK, InOrder
<1> QED BY <1>1
      DEF Again, IInv, TypeOK, InOrder, Preferred, Agreement, CompressedIsAgreed, server

LEMMA Initially == Init => IInv
<1> SUFFICES ASSUME Init
             PROVE  IInv
  OBVIOUS
<1>1. uses \in 0 .. MaxUses /\ handled \in Seq([kind : Kinds, compression : {"None", "Snappy"}])
  BY AuthenticateAssumption DEF Init
<1>2. TypeOK
  BY <1>1 DEF Init, TypeOK, Kinds
<1> QED BY <1>2 DEF Init, IInv, InOrder, Preferred, Agreement, CompressedIsAgreed

\* The strengthened invariant: messages, mechanism and compression are what the
\* client's place in the handshake says.
LEMMA Invariance == Spec => []IInv
<1>1. IInv /\ [Next]_vars => IInv'
  <2>1. ASSUME IInv, UNCHANGED vars
        PROVE  IInv'
    BY <2>1 DEF IInv, TypeOK, InOrder, Preferred, Agreement, CompressedIsAgreed, vars, client, server
  <2> QED BY <2>1, HandShakeStep, StartStep, ProofStep, FinishStep, CommandStep, AgainStep DEF Next, Done
<1> QED BY <1>1, Initially, PTL DEF Spec

-----------------------------------------------------------------------------
(* The theorems. *)

\* handShake() and authenticate() keep every variable in its type.
THEOREM TypeCorrect == Spec => []TypeOK
<1>1. IInv => TypeOK
  BY DEF IInv
<1> QED BY <1>1, Invariance, PTL

\* A ThorsMongo that was constructed is authenticated at the server, by the
\* server's most preferred mechanism of those the client knows.
THEOREM Authenticated == Spec => []ReadyIsAuthenticated
<1>1. IInv => ReadyIsAuthenticated
  BY DEF IInv, Preferred, ReadyIsAuthenticated
<1> QED BY <1>1, Invariance, PTL

\* No command reaches a server before the four messages of a handshake did,
\* although a program may keep a handler whose handshake threw.
THEOREM HandshakeFirst == Spec => []CommandsFollowHandshake
<1>1. IInv => CommandsFollowHandshake
  <2> SUFFICES ASSUME IInv, NEW i \in DOMAIN handled, handled[i].kind = "command"
               PROVE  /\ i > 4
                      /\ [j \in 1 .. 4 |-> handled[j].kind] = <<"hello", "start", "continue", "continue">>
    BY DEF CommandsFollowHandshake
  <2>1. /\ DOMAIN handled = 1 .. Len(handled) /\ Len(handled) \in Nat
        /\ \A j \in DOMAIN handled : handled[j].kind = KindOf(j)
    BY DEF IInv, TypeOK, InOrder
  <2>2. i > 4
    BY <2>1 DEF KindOf
  <2>3. /\ handled[1].kind = "hello" /\ handled[2].kind = "start"
        /\ handled[3].kind = "continue" /\ handled[4].kind = "continue"
    BY <2>1, <2>2 DEF KindOf
  <2> QED BY <2>2, <2>3
<1> QED BY <1>1, Invariance, PTL

\* Nothing is compressed that the user did not ask for, the server cannot read,
\* or that is sent before both agreed.
THEOREM Compressed == Spec => []CompressedIsAgreed
<1>1. IInv => CompressedIsAgreed
  BY DEF IInv
<1> QED BY <1>1, Invariance, PTL

\* The stream of a failed handshake stays failed, whatever is tried with it.
LEMMA FailedForEver ==
  ASSUME ~good, pc \in {"hello", "thrown"}, IInv, [Next]_vars
  PROVE  ~good' /\ pc' \in {"hello", "thrown"}
<1>1. CASE HandShake
  BY <1>1, NotSent DEF HandShake, Throw
<1>2. CASE Command
  <2>1. PICK outcome \in Outcomes({"ok"}) : good' = (outcome # "failed")
    BY <1>2 DEF Command
  <2>2. outcome = "failed" /\ pc' = pc
    BY <1>2, NotSent DEF Command
  <2> QED BY <2>1, <2>2
<1>3. CASE Again \/ Done \/ UNCHANGED vars
  BY <1>3 DEF Again, Done, vars, client
<1> QED BY <1>1, <1>2, <1>3 DEF Next, Start, Proof, Finish

\* A handshake that threw is never followed by one that works (handShake()'s
\* catch fails the stream for good).
THEOREM ThrownForEver == Spec => ThrownIsFinal
<1> DEFINE Failed == ~good /\ pc \in {"hello", "thrown"}
<1>1. IInv /\ pc = "thrown" => Failed
  BY DEF IInv, InOrder
<1>2. IInv /\ Failed /\ [Next]_vars => Failed'
  BY FailedForEver
<1>3. Failed => pc # "ready"
  OBVIOUS
<1> HIDE DEF Failed
<1> QED BY <1>1, <1>2, <1>3, Invariance, PTL DEF Spec, ThrownIsFinal

===============================================================================
