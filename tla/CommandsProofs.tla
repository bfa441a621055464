----------------------------- MODULE CommandsProofs -----------------------------
(***************************************************************************)
(* Proofs about Commands, for any number of connections and calls, any     *)
(* faults, and however few message ids there are.                          *)
(*                                                                         *)
(* The argument: a call that did not get its answer leaves a stream that   *)
(* has failed, so on a stream that is good every earlier call was          *)
(* answered.  If moreover nobody allows several replies to a request, at   *)
(* most one message is on its way on a connection, and the reply to a call *)
(* is the only one it can meet: then the ids do not even have to differ.   *)
(***************************************************************************)
EXTENDS Commands, SequenceTheorems, TLAPS

\* Nobody allows several replies to one request.
OneReply == \A c \in Connections : \A flags \in Flags[c] : "exhaustAllowed" \notin flags

\* The last call on the connection that the server may know of.
Latest(d) == IF pc[d] = "waiting" THEN Len(results[d]) + 1 ELSE Len(results[d])

\* Calls are numbered in order, and nothing is known of one that was not sent.
Numbering(d) ==
  /\ pc[d] # "idle" => current[d].number = Len(results[d]) + 1
  /\ \A i \in 1 .. Len(executed[d]) : executed[d][i] \in 1 .. Latest(d)
  /\ \A i \in 1 .. Len(toServer[d]) : toServer[d][i].call \in 1 .. Latest(d)
  /\ \A i \in 1 .. Len(toClient[d]) : toClient[d][i].call \in 1 .. Latest(d)

\* A stream on which a call went without its answer has failed.
Poisoned(d) ==
  /\ pc[d] = "waiting" => good[d]
  /\ good[d] => \A k \in 1 .. Len(results[d]) : results[d][k].accepted

\* FailureIsFinal, of one connection.
Final(d) ==
  \A k \in 1 .. Len(results[d]) :
    ~results[d][k].accepted =>
      /\ \A i \in 1 .. Len(executed[d]) : executed[d][i] <= k
      /\ \A i \in 1 .. Len(toServer[d]) : toServer[d][i].call <= k

IInv == TypeOK /\ \A d \in Connections : Numbering(d) /\ Poisoned(d) /\ Final(d)

\* At most one message is on its way, between two calls none, and during a call
\* only one of that call.
Lockstep(d) ==
  /\ Len(toServer[d]) + Len(toClient[d]) <= 1
  /\ good[d] /\ pc[d] # "waiting" => Len(toServer[d]) + Len(toClient[d]) = 0
  /\ pc[d] = "waiting" =>
       /\ \A i \in 1 .. Len(toServer[d]) : toServer[d][i].call = Len(results[d]) + 1
       /\ \A i \in 1 .. Len(toClient[d]) : toClient[d][i].call = Len(results[d]) + 1
  /\ pc[d] # "idle" => "exhaustAllowed" \notin current[d].flags
  /\ \A i \in 1 .. Len(toServer[d]) : "exhaustAllowed" \notin toServer[d][i].flags

\* The server executes the calls in their order, and says so of no other.
Honest(d) ==
  /\ \A i \in 1 .. Len(executed[d]) : \A j \in 1 .. Len(toServer[d]) :
       executed[d][i] < toServer[d][j].call
  /\ \A i \in 1 .. Len(toClient[d]) :
       toClient[d][i].ok => \E j \in 1 .. Len(executed[d]) : executed[d][j] = toClient[d][i].call

\* OwnAnswer, of one connection.
Own(d) ==
  \A k \in 1 .. Len(results[d]) : results[d][k].accepted => results[d][k].answers = k

OneInv == \A d \in Connections : Lockstep(d) /\ Honest(d) /\ Own(d)

-----------------------------------------------------------------------------
(* What the steps do. *)

\* Nothing that belongs to connection d changes.
Quiet(d) ==
  /\ good'[d] = good[d] /\ pc'[d] = pc[d] /\ current'[d] = current[d]
  /\ results'[d] = results[d] /\ toServer'[d] = toServer[d]
  /\ toClient'[d] = toClient[d] /\ executed'[d] = executed[d]

LEMMA QuietKeeps ==
  ASSUME NEW d \in Connections, Quiet(d)
  PROVE  /\ Numbering(d) /\ Poisoned(d) /\ Final(d) => (Numbering(d) /\ Poisoned(d) /\ Final(d))'
         /\ Lockstep(d) /\ Honest(d) /\ Own(d) => (Lockstep(d) /\ Honest(d) /\ Own(d))'
<1>1. Latest(d)' = Latest(d)
  BY DEF Quiet, Latest
<1>2. Numbering(d) => Numbering(d)'
  BY <1>1 DEF Quiet, Numbering
<1>3. Poisoned(d) /\ Final(d) => (Poisoned(d) /\ Final(d))'
  BY DEF Quiet, Poisoned, Final
<1>4. Lockstep(d) => Lockstep(d)'
  BY DEF Quiet, Lockstep
<1>5. Honest(d) /\ Own(d) => (Honest(d) /\ Own(d))'
  BY DEF Quiet, Honest, Own
<1> QED BY <1>2, <1>3, <1>4, <1>5

\* An element is added to one of several sequences.
LEMMA OneAppended ==
  ASSUME NEW S, NEW T, NEW f \in [S -> Seq(T)], NEW c \in S, NEW e \in T, NEW g,
         g = [f EXCEPT ![c] = Append(@, e)]
  PROVE  /\ g \in [S -> Seq(T)]
         /\ \A d \in S : d # c => g[d] = f[d]
         /\ Len(g[c]) = Len(f[c]) + 1 /\ Len(f[c]) \in Nat
         /\ \A i \in 1 .. Len(f[c]) : g[c][i] = f[c][i]
         /\ g[c][Len(f[c]) + 1] = e
<1>1. f[c] \in Seq(T) /\ g[c] = Append(f[c], e)
  OBVIOUS
<1>2. /\ g[c] \in Seq(T) /\ Len(g[c]) = Len(f[c]) + 1
      /\ \A i \in 1 .. Len(f[c]) : g[c][i] = f[c][i]
      /\ g[c][Len(f[c]) + 1] = e
  BY <1>1, AppendProperties
<1>3. g \in [S -> Seq(T)]
  BY <1>2
<1> QED BY <1>1, <1>2, <1>3, LenProperties

\* The first element of one of several sequences is taken away.
LEMMA OneTaken ==
  ASSUME NEW S, NEW T, NEW f \in [S -> Seq(T)], NEW c \in S, f[c] # <<>>, NEW g,
         g = [f EXCEPT ![c] = Tail(@)]
  PROVE  /\ g \in [S -> Seq(T)]
         /\ \A d \in S : d # c => g[d] = f[d]
         /\ Len(f[c]) = Len(g[c]) + 1 /\ Len(g[c]) \in Nat
         /\ \A i \in 1 .. Len(g[c]) : g[c][i] = f[c][i + 1]
         /\ Head(f[c]) = f[c][1] /\ Head(f[c]) \in T
<1>1. f[c] \in Seq(T) /\ g[c] = Tail(f[c])
  OBVIOUS
<1>2. /\ g[c] \in Seq(T) /\ Len(g[c]) = Len(f[c]) - 1
      /\ \A i \in 1 .. Len(g[c]) : g[c][i] = f[c][i + 1]
      /\ Head(f[c]) = f[c][1] /\ Head(f[c]) \in T
  BY <1>1, HeadTailProperties
<1>3. g \in [S -> Seq(T)]
  BY <1>2
<1> QED BY <1>1, <1>2, <1>3, LenProperties

LEMMA NoneOfNone == \A a, b \in Nat : a + b = 0 => a = 0 /\ b = 0
OBVIOUS

\* What a command adds to the results when it returns.
LEMMA Returned ==
  ASSUME TypeOK, NEW c \in Connections, NEW okay \in BOOLEAN, NEW fine \in BOOLEAN,
         NEW which \in Nat, Return(c, okay, fine, which)
  PROVE  /\ results' \in [Connections -> Seq(Result)]
         /\ pc' \in [Connections -> {"idle", "numbered", "waiting"}] /\ pc'[c] = "idle"
         /\ \A d \in Connections : d # c => results'[d] = results[d] /\ pc'[d] = pc[d]
         /\ Len(results'[c]) = Len(results[c]) + 1 /\ Len(results[c]) \in Nat
         /\ \A i \in 1 .. Len(results[c]) : results'[c][i] = results[c][i]
         /\ results'[c][Len(results[c]) + 1].accepted = fine
         /\ results'[c][Len(results[c]) + 1].answers = which
         /\ results'[c][Len(results[c]) + 1].ok = okay
<1> DEFINE e == [ok |-> okay, accepted |-> fine, answers |-> which, flags |-> current[c].flags]
<1>1. e \in Result /\ results \in [Connections -> Seq(Result)]
  BY DEF TypeOK, Call, Result
<1>2. results' = [results EXCEPT ![c] = Append(@, e)]
  BY DEF Return
<1>3. /\ pc' \in [Connections -> {"idle", "numbered", "waiting"}] /\ pc'[c] = "idle"
      /\ \A d \in Connections : d # c => pc'[d] = pc[d]
  BY DEF Return, TypeOK
<1>4. /\ results' \in [Connections -> Seq(Result)]
      /\ \A d \in Connections : d # c => results'[d] = results[d]
      /\ Len(results'[c]) = Len(results[c]) + 1 /\ Len(results[c]) \in Nat
      /\ \A i \in 1 .. Len(results[c]) : results'[c][i] = results[c][i]
      /\ results'[c][Len(results[c]) + 1] = e
  <2> HIDE DEF e
  <2> QED BY <1>1, <1>2, OneAppended
<1>5. e.accepted = fine /\ e.answers = which /\ e.ok = okay
  OBVIOUS
<1> QED BY <1>3, <1>4, <1>5

-----------------------------------------------------------------------------
(* The steps of a thread. *)

LEMMA NumberStep ==
  ASSUME IInv, NEW c \in Connections, Number(c)
  PROVE  IInv' /\ (OneReply /\ OneInv => OneInv')
<1>1. /\ pc[c] = "idle" /\ UNCHANGED <<good, open, results, toServer, toClient, executed>>
      /\ nextMessageId' = After(nextMessageId)
      /\ pc' = [pc EXCEPT ![c] = "numbered"]
  BY DEF Number
<1>2. PICK flags \in Flags[c] :
        current' = [current EXCEPT ![c] = [number |-> Len(results[c]) + 1,
                                           messageId |-> nextMessageId, flags |-> flags]]
  BY DEF Number
<1>3. flags \in SUBSET AllFlags /\ IdSpace \in Nat \ {0}
  BY CommandsAssumption
<1>4. results[c] \in Seq(Result) /\ Len(results[c]) \in Nat
  BY DEF IInv, TypeOK
<1>5. TypeOK'
  <2>1. nextMessageId' \in 0 .. IdSpace - 1
    BY <1>1, <1>3 DEF IInv, TypeOK, After
  <2>2. current' \in [Connections -> Call]
    BY <1>2, <1>3, <1>4 DEF IInv, TypeOK, Call
  <2>3. pc' \in [Connections -> {"idle", "numbered", "waiting"}]
    BY <1>1 DEF IInv, TypeOK
  <2> QED BY <1>1, <2>1, <2>2, <2>3 DEF IInv, TypeOK
<1>6. /\ pc'[c] = "numbered"
      /\ current'[c].number = Len(results[c]) + 1 /\ current'[c].flags = flags
      /\ \A d \in Connections : d # c => pc'[d] = pc[d] /\ current'[d] = current[d]
  BY <1>1, <1>2 DEF IInv, TypeOK
<1>7. \A d \in Connections : d # c => Quiet(d)
  BY <1>1, <1>6 DEF Quiet
<1>8. Latest(c)' = Latest(c)
  BY <1>1, <1>6 DEF Latest
<1>9. (Numbering(c) /\ Poisoned(c) /\ Final(c))'
  BY <1>1, <1>6, <1>8 DEF IInv, Numbering, Poisoned, Final
<1>10. OneReply /\ OneInv => (Lockstep(c) /\ Honest(c) /\ Own(c))'
  BY ZenonT(40), <1>1, <1>6 DEF OneReply, OneInv, Lockstep, Honest, Own
<1> QED BY <1>5, <1>7, <1>9, <1>10, QuietKeeps DEF IInv, OneInv

LEMMA SendStep ==
  ASSUME IInv, NEW c \in Connections, Send(c)
  PROVE  IInv' /\ (OneInv => OneInv')
<1> DEFINE q == [messageId |-> current[c].messageId, flags |-> current[c].flags,
                 call |-> current[c].number]
<1>1. /\ pc[c] = "numbered" /\ good[c]
      /\ pc' = [pc EXCEPT ![c] = "waiting"]
      /\ UNCHANGED <<nextMessageId, good, open, current, results, toClient, executed>>
  BY DEF Send
<1>2. \/ toServer' = [toServer EXCEPT ![c] = Append(@, q)]
      \/ toServer' = toServer
  BY DEF Send
<1>3. q \in Request /\ q.call = current[c].number /\ q.flags = current[c].flags
  BY DEF IInv, TypeOK, Call, Request
<1>4. /\ toServer' \in [Connections -> Seq(Request)]
      /\ \A d \in Connections : d # c => toServer'[d] = toServer[d]
      /\ Len(toServer[c]) \in Nat
      /\ \A i \in 1 .. Len(toServer[c]) : toServer'[c][i] = toServer[c][i]
      /\ \/ /\ Len(toServer'[c]) = Len(toServer[c]) + 1
            /\ toServer'[c][Len(toServer[c]) + 1] = q
         \/ Len(toServer'[c]) = Len(toServer[c])
  <2>1. toServer \in [Connections -> Seq(Request)]
    BY DEF IInv, TypeOK
  <2> HIDE DEF q
  <2>2. CASE toServer' = [toServer EXCEPT ![c] = Append(@, q)]
    BY <1>3, <2>1, <2>2, OneAppended
  <2>3. CASE toServer' = toServer
    BY <2>1, <2>3
  <2> QED BY <1>2, <2>2, <2>3
<1> HIDE DEF q
<1>5. pc'[c] = "waiting" /\ \A d \in Connections : d # c => pc'[d] = pc[d]
  BY <1>1 DEF IInv, TypeOK
<1>6. TypeOK'
  BY <1>1, <1>4 DEF IInv, TypeOK
<1>7. \A d \in Connections : d # c => Quiet(d)
  BY <1>1, <1>4, <1>5 DEF Quiet
<1>8. /\ Latest(c) = Len(results[c]) /\ Latest(c)' = Len(results[c]) + 1
      /\ current[c].number = Len(results[c]) + 1 /\ Len(results[c]) \in Nat
  BY <1>1, <1>5 DEF IInv, TypeOK, Numbering, Latest
<1>9. Numbering(c)'
  <2>1. pc'[c] # "idle" => current'[c].number = Len(results'[c]) + 1
    BY <1>1, <1>8
  <2>2. \A i \in 1 .. Len(executed'[c]) : executed'[c][i] \in 1 .. Latest(c)'
    BY <1>1, <1>8 DEF IInv, Numbering
  <2>3. \A i \in 1 .. Len(toServer'[c]) : toServer'[c][i].call \in 1 .. Latest(c)'
    <3>1. \A i \in 1 .. Len(toServer[c]) : toServer[c][i].call \in 1 .. Len(results[c])
      BY <1>8 DEF IInv, Numbering
    <3>2. \A i \in 1 .. Len(toServer'[c]) :
            \/ i \in 1 .. Len(toServer[c]) /\ toServer'[c][i] = toServer[c][i]
            \/ toServer'[c][i] = q
      BY <1>4
    <3>3. \A i \in 1 .. Len(toServer[c]) : toServer[c][i].call \in 1 .. Len(results[c]) + 1
      BY <1>8, <3>1
    <3>4. q.call \in 1 .. Len(results[c]) + 1
      BY <1>3, <1>8
    <3> QED BY <1>8, <3>2, <3>3, <3>4
  <2>4. \A i \in 1 .. Len(toClient'[c]) : toClient'[c][i].call \in 1 .. Latest(c)'
    BY <1>1, <1>8 DEF IInv, Numbering
  <2> QED BY <2>1, <2>2, <2>3, <2>4 DEF Numbering
<1>10. \A k \in 1 .. Len(results[c]) : results[c][k].accepted
  BY <1>1 DEF IInv, Poisoned
<1>11. (Poisoned(c) /\ Final(c))'
  BY <1>1, <1>10 DEF Poisoned, Final
<1>12. ASSUME OneInv
       PROVE  (Lockstep(c) /\ Honest(c) /\ Own(c))'
  <2>1. Len(toServer[c]) = 0 /\ Len(toClient[c]) = 0 /\ "exhaustAllowed" \notin current[c].flags
    <3>1. Lockstep(c)
      BY <1>12 DEF OneInv
    <3>2. Len(toClient[c]) \in Nat
      BY LenProperties DEF IInv, TypeOK
    <3>3. "exhaustAllowed" \notin current[c].flags
      BY <1>1, <3>1 DEF Lockstep
    <3>4. Len(toServer[c]) + Len(toClient[c]) = 0
      BY <1>1, <3>1 DEF Lockstep
    <3>5. Len(toServer[c]) \in Nat
      BY <1>4
    <3>6. Len(toServer[c]) = 0 /\ Len(toClient[c]) = 0
      BY <3>2, <3>4, <3>5, NoneOfNone
    <3> QED BY <3>3, <3>6
  <2>2. Len(toClient'[c]) = 0
    BY <1>1, <2>1
  <2>3. Lockstep(c)'
    <3>1. Len(toServer'[c]) \in {0, 1} /\ \A i \in 1 .. Len(toServer'[c]) : toServer'[c][i] = q
      BY <1>4, <2>1
    <3>2. /\ results'[c] = results[c] /\ current'[c] = current[c]
          /\ q.call = Len(results[c]) + 1 /\ "exhaustAllowed" \notin q.flags
      BY <1>1, <1>3, <1>8, <2>1
    <3>3. Len(toServer'[c]) + Len(toClient'[c]) <= 1
      BY <2>2, <3>1
    <3>4. /\ \A i \in 1 .. Len(toServer'[c]) :
                /\ toServer'[c][i].call = Len(results'[c]) + 1
                /\ "exhaustAllowed" \notin toServer'[c][i].flags
          /\ \A i \in 1 .. Len(toClient'[c]) : FALSE
      BY <2>2, <3>1, <3>2
    <3>5. pc'[c] = "waiting" /\ "exhaustAllowed" \notin current'[c].flags
      BY <1>5, <2>1, <3>2
    <3> QED BY <3>3, <3>4, <3>5 DEF Lockstep
  <2>4. \A i \in 1 .. Len(executed[c]) : executed[c][i] \in 1 .. Len(results[c])
    BY <1>8 DEF IInv, Numbering
  <2>5. \A j \in 1 .. Len(toServer'[c]) : toServer'[c][j].call = Len(results[c]) + 1
    BY <1>3, <1>4, <1>8, <2>1
  <2>6. Honest(c)'
    BY <1>1, <1>8, <2>2, <2>4, <2>5 DEF Honest
  <2>7. Own(c)'
    BY <1>1, <1>12 DEF OneInv, Own
  <2> QED BY <2>3, <2>6, <2>7
<1> QED BY <1>6, <1>7, <1>9, <1>11, <1>12, QuietKeeps DEF IInv, OneInv

\* A call that returns without its answer leaves a stream that has failed.
LEMMA GivenUp ==
  ASSUME IInv, NEW c \in Connections, Return(c, FALSE, FALSE, 0), pc[c] # "idle",
         good' = [good EXCEPT ![c] = FALSE],
         UNCHANGED <<nextMessageId, open, current, toServer, toClient, executed>>
  PROVE  IInv' /\ (OneInv => OneInv')
<1>1. /\ results' \in [Connections -> Seq(Result)]
      /\ pc' \in [Connections -> {"idle", "numbered", "waiting"}] /\ pc'[c] = "idle"
      /\ \A d \in Connections : d # c => results'[d] = results[d] /\ pc'[d] = pc[d]
      /\ Len(results'[c]) = Len(results[c]) + 1 /\ Len(results[c]) \in Nat
      /\ \A i \in 1 .. Len(results[c]) : results'[c][i] = results[c][i]
      /\ results'[c][Len(results[c]) + 1].accepted = FALSE
  <2>1. TypeOK /\ 0 \in Nat /\ FALSE \in BOOLEAN
    BY DEF IInv
  <2> QED BY <2>1, Returned
<1>2. /\ good' \in [Connections -> BOOLEAN] /\ good'[c] = FALSE
      /\ \A d \in Connections : d # c => good'[d] = good[d]
  BY DEF IInv, TypeOK
<1>3. TypeOK'
  BY <1>1, <1>2 DEF IInv, TypeOK
<1>4. \A d \in Connections : d # c => Quiet(d)
  BY <1>1, <1>2 DEF Quiet
<1>5. /\ Latest(c)' = Len(results[c]) + 1 /\ Latest(c) \in Nat /\ Latest(c) <= Latest(c)'
      /\ \A x \in 1 .. Latest(c) : x \in 1 .. Latest(c)' /\ x <= Latest(c)'
  BY <1>1 DEF Latest
<1>6. /\ \A i \in 1 .. Len(executed[c]) : executed[c][i] \in 1 .. Latest(c)
      /\ \A i \in 1 .. Len(toServer[c]) : toServer[c][i].call \in 1 .. Latest(c)
      /\ \A i \in 1 .. Len(toClient[c]) : toClient[c][i].call \in 1 .. Latest(c)
  BY DEF IInv, Numbering
<1>7. Numbering(c)' /\ Poisoned(c)'
  BY <1>1, <1>2, <1>5, <1>6 DEF Numbering, Poisoned
<1>8. Final(c)'
  <2>1. ASSUME NEW k \in 1 .. Len(results'[c]), ~results'[c][k].accepted
        PROVE  /\ \A i \in 1 .. Len(executed[c]) : executed[c][i] <= k
               /\ \A i \in 1 .. Len(toServer[c]) : toServer[c][i].call <= k
    <3>1. CASE k = Len(results[c]) + 1
      BY <1>5, <1>6, <3>1
    <3>2. CASE k \in 1 .. Len(results[c])
      BY <1>1, <2>1, <3>2 DEF IInv, Final
    <3> QED BY <1>1, <3>1, <3>2
  <2> QED BY <2>1 DEF Final
<1>9. ASSUME OneInv
      PROVE  (Lockstep(c) /\ Honest(c) /\ Own(c))'
  <2>1. Lockstep(c) /\ Honest(c) /\ Own(c)
    BY <1>9 DEF OneInv
  <2>2. Lockstep(c)'
    BY <1>1, <1>2, <2>1 DEF Lockstep
  <2>3. Honest(c)'
    BY <2>1 DEF Honest
  <2>4. Own(c)'
    <3>1. ASSUME NEW k \in 1 .. Len(results'[c]), results'[c][k].accepted
          PROVE  results'[c][k].answers = k
      <4>1. k # Len(results[c]) + 1
        BY <1>1, <3>1
      <4>2. k \in 1 .. Len(results[c])
        BY <1>1, <4>1
      <4> QED BY <1>1, <2>1, <3>1, <4>2 DEF Own
    <3> QED BY <3>1 DEF Own
  <2> QED BY <2>2, <2>3, <2>4
<1> QED BY <1>3, <1>4, <1>7, <1>8, <1>9, QuietKeeps DEF IInv, OneInv

LEMMA ReceiveStep ==
  ASSUME IInv, NEW c \in Connections, Receive(c)
  PROVE  IInv' /\ (OneInv => OneInv')
<1> DEFINE r == Head(toClient[c])
           accepted == Accepted(r, current[c].messageId)
<1>1. /\ pc[c] = "waiting" /\ toClient[c] # <<>>
      /\ good' = [good EXCEPT ![c] = accepted]
      /\ Return(c, r.ok, accepted, r.call)
      /\ toClient' = [toClient EXCEPT ![c] = Tail(@)]
      /\ UNCHANGED <<nextMessageId, open, current, toServer, executed>>
  BY DEF Receive
<1>2. /\ toClient' \in [Connections -> Seq(Reply)]
      /\ \A d \in Connections : d # c => toClient'[d] = toClient[d]
      /\ Len(toClient[c]) = Len(toClient'[c]) + 1 /\ Len(toClient'[c]) \in Nat
      /\ \A i \in 1 .. Len(toClient'[c]) : toClient'[c][i] = toClient[c][i + 1]
      /\ r = toClient[c][1] /\ r \in Reply
  <2>1. toClient \in [Connections -> Seq(Reply)]
    BY DEF IInv, TypeOK
  <2> QED BY <1>1, <2>1, OneTaken
<1>3. accepted \in BOOLEAN /\ r.ok \in BOOLEAN /\ r.call \in Nat
  BY <1>2 DEF Accepted, Reply
<1> HIDE DEF r, accepted
<1>4. /\ results' \in [Connections -> Seq(Result)]
      /\ pc' \in [Connections -> {"idle", "numbered", "waiting"}] /\ pc'[c] = "idle"
      /\ \A d \in Connections : d # c => results'[d] = results[d] /\ pc'[d] = pc[d]
      /\ Len(results'[c]) = Len(results[c]) + 1 /\ Len(results[c]) \in Nat
      /\ \A i \in 1 .. Len(results[c]) : results'[c][i] = results[c][i]
      /\ results'[c][Len(results[c]) + 1].accepted = accepted
      /\ results'[c][Len(results[c]) + 1].answers = r.call
  <2>1. TypeOK
    BY DEF IInv
  <2> QED BY <1>1, <1>3, <2>1, Returned
<1>5. /\ good' \in [Connections -> BOOLEAN] /\ good'[c] = accepted
      /\ \A d \in Connections : d # c => good'[d] = good[d]
  BY <1>1, <1>3 DEF IInv, TypeOK
<1>6. TypeOK'
  BY <1>1, <1>2, <1>4, <1>5 DEF IInv, TypeOK
<1>7. \A d \in Connections : d # c => Quiet(d)
  BY <1>1, <1>2, <1>4, <1>5 DEF Quiet
<1>8. Latest(c) = Len(results[c]) + 1 /\ Latest(c)' = Len(results[c]) + 1
  BY <1>1, <1>4 DEF Latest
<1>9. /\ \A i \in 1 .. Len(executed[c]) : executed[c][i] \in 1 .. Len(results[c]) + 1
      /\ \A i \in 1 .. Len(toServer[c]) : toServer[c][i].call \in 1 .. Len(results[c]) + 1
      /\ \A i \in 1 .. Len(toClient[c]) : toClient[c][i].call \in 1 .. Len(results[c]) + 1
      /\ \A k \in 1 .. Len(results[c]) : results[c][k].accepted
  BY <1>1, <1>8 DEF IInv, Numbering, Poisoned
<1>10. \A i \in 1 .. Len(toClient'[c]) : i + 1 \in 1 .. Len(toClient[c])
  BY <1>2
<1>11. Numbering(c)'
  <2>1. \A i \in 1 .. Len(toClient'[c]) : toClient'[c][i].call \in 1 .. Len(results[c]) + 1
    BY <1>2, <1>9, <1>10
  <2> QED BY <1>1, <1>4, <1>8, <1>9, <2>1 DEF Numbering
<1>12. \A k \in 1 .. Len(results'[c]) :
         k \in 1 .. Len(results[c]) \/ k = Len(results[c]) + 1
  BY <1>4
<1>13. Poisoned(c)'
  BY <1>4, <1>5, <1>9, <1>12 DEF Poisoned
<1>14. Final(c)'
  <2>1. ASSUME NEW k \in 1 .. Len(results'[c]), ~results'[c][k].accepted
        PROVE  k = Len(results[c]) + 1
    BY <1>4, <1>9, <1>12, <2>1
  <2>2. /\ \A i \in 1 .. Len(executed[c]) : executed[c][i] <= Len(results[c]) + 1
        /\ \A i \in 1 .. Len(toServer[c]) : toServer[c][i].call <= Len(results[c]) + 1
    BY <1>4, <1>9
  <2> QED BY <1>1, <2>1, <2>2 DEF Final
<1>15. ASSUME OneInv
       PROVE  (Lockstep(c) /\ Honest(c) /\ Own(c))'
  <2>1. Lockstep(c) /\ Honest(c) /\ Own(c)
    BY <1>15 DEF OneInv
  <2>2. /\ Len(toServer[c]) = 0 /\ Len(toClient'[c]) = 0
        /\ r.call = Len(results[c]) + 1
    <3>1. Len(toServer[c]) + Len(toClient[c]) <= 1 /\ Len(toServer[c]) \in Nat
      BY <2>1, LenProperties DEF Lockstep, IInv, TypeOK
    <3>2. \A a, b \in Nat : a + (b + 1) <= 1 => a = 0 /\ b = 0
      OBVIOUS
    <3>3. 1 \in 1 .. Len(toClient[c])
      BY <1>2
    <3>4. \A i \in 1 .. Len(toClient[c]) : toClient[c][i].call = Len(results[c]) + 1
      BY <1>1, <2>1 DEF Lockstep
    <3>5. r.call = Len(results[c]) + 1
      BY <1>2, <3>3, <3>4
    <3>6. Len(toServer[c]) = 0 /\ Len(toClient'[c]) = 0
      BY <1>2, <3>1, <3>2
    <3> QED BY <3>5, <3>6
  <2>3. Lockstep(c)'
    <3>1. Len(toServer'[c]) = 0 /\ Len(toClient'[c]) = 0 /\ pc'[c] = "idle"
      BY <1>1, <1>4, <2>2
    <3>2. Len(toServer'[c]) + Len(toClient'[c]) = 0
      BY <3>1
    <3> QED BY <3>1, <3>2 DEF Lockstep
  <2>4. Honest(c)'
    BY <1>1, <2>2 DEF Honest
  <2>5. Own(c)'
    BY <1>4, <1>12, <2>1, <2>2 DEF Own
  <2> QED BY <2>3, <2>4, <2>5
<1> QED BY <1>6, <1>7, <1>11, <1>13, <1>14, <1>15, QuietKeeps DEF IInv, OneInv

-----------------------------------------------------------------------------
(* The steps of the server and the network. *)

LEMMA ExecuteStep ==
  ASSUME IInv, NEW c \in Connections, Execute(c)
  PROVE  IInv' /\ (OneInv => OneInv')
<1> DEFINE q == Head(toServer[c])
           Answer(ok, valid) == [responseId |-> q.messageId, ok |-> ok, valid |-> valid,
                                 call |-> q.call]
<1>1. /\ toServer[c] # <<>>
      /\ toServer' = [toServer EXCEPT ![c] = Tail(@)]
      /\ UNCHANGED <<nextMessageId, good, open, pc, current, results>>
  BY DEF Execute
<1>2. PICK ok \in BOOLEAN, valid \in BOOLEAN, twice \in BOOLEAN :
        /\ twice => "exhaustAllowed" \in q.flags
        /\ executed' = IF ok THEN [executed EXCEPT ![c] = Append(@, q.call)] ELSE executed
        /\ toClient' = IF ~open[c] \/ "moreToCome" \in q.flags THEN toClient
                       ELSE [toClient EXCEPT ![c] =
                               IF twice THEN Append(Append(@, Answer(ok, valid)), Answer(ok, valid))
                               ELSE Append(@, Answer(ok, valid))]
  BY DEF Execute
<1> DEFINE r == Answer(ok, valid)
<1>3. /\ toServer' \in [Connections -> Seq(Request)]
      /\ \A d \in Connections : d # c => toServer'[d] = toServer[d]
      /\ Len(toServer[c]) = Len(toServer'[c]) + 1 /\ Len(toServer'[c]) \in Nat
      /\ \A i \in 1 .. Len(toServer'[c]) : toServer'[c][i] = toServer[c][i + 1]
      /\ q = toServer[c][1] /\ q \in Request
  <2>1. toServer \in [Connections -> Seq(Request)]
    BY DEF IInv, TypeOK
  <2> QED BY <1>1, <2>1, OneTaken
<1>4. r \in Reply /\ r.call = q.call /\ r.ok = ok /\ q.call \in Nat
  BY <1>3 DEF Request, Reply
<1> HIDE DEF q, Answer
<1>5. /\ executed' \in [Connections -> Seq(Nat)]
      /\ \A d \in Connections : d # c => executed'[d] = executed[d]
      /\ Len(executed[c]) \in Nat
      /\ \A i \in 1 .. Len(executed[c]) : executed'[c][i] = executed[c][i]
      /\ IF ok THEN /\ Len(executed'[c]) = Len(executed[c]) + 1
                    /\ executed'[c][Len(executed[c]) + 1] = q.call
         ELSE Len(executed'[c]) = Len(executed[c])
  <2>1. executed \in [Connections -> Seq(Nat)]
    BY DEF IInv, TypeOK
  <2>2. CASE ok
    <3>1. executed' = [executed EXCEPT ![c] = Append(@, q.call)]
      BY <1>2, <2>2
    <3> QED BY <1>4, <2>1, <2>2, <3>1, OneAppended
  <2>3. CASE ~ok
    BY <1>2, <2>1, <2>3
  <2> QED BY <2>2, <2>3
<1>6. /\ toClient' \in [Connections -> Seq(Reply)]
      /\ \A d \in Connections : d # c => toClient'[d] = toClient[d]
      /\ Len(toClient[c]) \in Nat /\ Len(toClient'[c]) \in Nat
      /\ Len(toClient[c]) <= Len(toClient'[c])
      /\ ~twice => Len(toClient'[c]) <= Len(toClient[c]) + 1
      /\ \A i \in 1 .. Len(toClient[c]) : toClient'[c][i] = toClient[c][i]
      /\ \A i \in 1 .. Len(toClient'[c]) : i \in 1 .. Len(toClient[c]) \/ toClient'[c][i] = r
  <2>1. toClient \in [Connections -> Seq(Reply)] /\ toClient[c] \in Seq(Reply) /\ r \in Reply
    BY <1>4 DEF IInv, TypeOK
  <2> HIDE DEF r
  <2>2. CASE toClient' = toClient
    BY <2>1, <2>2
  <2>3. CASE toClient' = [toClient EXCEPT ![c] = Append(@, r)]
    <3>1. /\ toClient' \in [Connections -> Seq(Reply)]
          /\ \A d \in Connections : d # c => toClient'[d] = toClient[d]
          /\ Len(toClient'[c]) = Len(toClient[c]) + 1 /\ Len(toClient[c]) \in Nat
          /\ \A i \in 1 .. Len(toClient[c]) : toClient'[c][i] = toClient[c][i]
          /\ toClient'[c][Len(toClient[c]) + 1] = r
      BY <2>1, <2>3, OneAppended
    <3> QED BY <3>1
  <2>4. CASE twice /\ toClient' = [toClient EXCEPT ![c] = Append(Append(@, r), r)]
    <3> DEFINE one == [toClient EXCEPT ![c] = Append(@, r)]
    <3>1. /\ one \in [Connections -> Seq(Reply)]
          /\ \A d \in Connections : d # c => one[d] = toClient[d]
          /\ Len(one[c]) = Len(toClient[c]) + 1 /\ Len(toClient[c]) \in Nat
          /\ \A i \in 1 .. Len(toClient[c]) : one[c][i] = toClient[c][i]
          /\ one[c][Len(toClient[c]) + 1] = r
      <4> HIDE DEF one
      <4>1. one = [toClient EXCEPT ![c] = Append(@, r)]
        BY DEF one
      <4> QED BY <2>1, <4>1, OneAppended
    <3>2. toClient' = [one EXCEPT ![c] = Append(@, r)]
      BY <2>1, <2>4
    <3> HIDE DEF one
    <3>3. /\ toClient' \in [Connections -> Seq(Reply)]
          /\ \A d \in Connections : d # c => toClient'[d] = one[d]
          /\ Len(toClient'[c]) = Len(one[c]) + 1 /\ Len(one[c]) \in Nat
          /\ \A i \in 1 .. Len(one[c]) : toClient'[c][i] = one[c][i]
          /\ toClient'[c][Len(one[c]) + 1] = r
      BY <2>1, <3>1, <3>2, OneAppended
    <3>4. \A n \in Nat : /\ \A i \in 1 .. n : i \in 1 .. n + 1
                         /\ n + 1 \in 1 .. n + 1 /\ n <= (n + 1) + 1
                         /\ \A i \in 1 .. (n + 1) + 1 :
                              i \in 1 .. n \/ i = n + 1 \/ i = (n + 1) + 1
      OBVIOUS
    <3>5. Len(toClient'[c]) = (Len(toClient[c]) + 1) + 1 /\ Len(toClient'[c]) \in Nat
      BY <3>1, <3>3
    <3>6. \A i \in 1 .. Len(toClient[c]) : toClient'[c][i] = toClient[c][i]
      BY <3>1, <3>3, <3>4
    <3>7. toClient'[c][Len(toClient[c]) + 1] = r /\ toClient'[c][(Len(toClient[c]) + 1) + 1] = r
      BY <3>1, <3>3, <3>4
    <3>8. \A i \in 1 .. Len(toClient'[c]) : i \in 1 .. Len(toClient[c]) \/ toClient'[c][i] = r
      BY <3>1, <3>4, <3>5, <3>7
    <3>9. Len(toClient[c]) <= Len(toClient'[c])
      BY <3>1, <3>4, <3>5
    <3>10. ~twice => Len(toClient'[c]) <= Len(toClient[c]) + 1
      BY <2>4
    <3>11. \A d \in Connections : d # c => toClient'[d] = toClient[d]
      BY <3>1, <3>3
    <3>12. toClient' \in [Connections -> Seq(Reply)] /\ Len(toClient[c]) \in Nat
      BY <3>1, <3>3
    <3> QED BY <3>5, <3>6, <3>8, <3>9, <3>10, <3>11, <3>12
  <2>5. \/ toClient' = toClient
        \/ toClient' = [toClient EXCEPT ![c] = Append(@, r)]
        \/ twice /\ toClient' = [toClient EXCEPT ![c] = Append(Append(@, r), r)]
    BY <1>2 DEF r
  <2> QED BY <2>2, <2>3, <2>4, <2>5
<1> HIDE DEF r
<1>7. TypeOK'
  BY <1>1, <1>3, <1>5, <1>6 DEF IInv, TypeOK
<1>8. \A d \in Connections : d # c => Quiet(d)
  BY <1>1, <1>3, <1>5, <1>6 DEF Quiet
<1>9. Latest(c)' = Latest(c)
  BY <1>1 DEF Latest
<1>10. /\ 1 \in 1 .. Len(toServer[c])
       /\ \A i \in 1 .. Len(toServer'[c]) : i + 1 \in 1 .. Len(toServer[c])
       /\ \A i \in 1 .. Len(executed'[c]) :
            \/ i \in 1 .. Len(executed[c]) /\ executed'[c][i] = executed[c][i]
            \/ executed'[c][i] = q.call
  BY SMTT(20), <1>3, <1>5
<1>11. Numbering(c)'
  <2>1. Numbering(c)
    BY DEF IInv
  <2>2. q.call \in 1 .. Latest(c)
    BY <1>3, <1>10, <2>1 DEF Numbering
  <2>3. \A i \in 1 .. Len(executed'[c]) : executed'[c][i] \in 1 .. Latest(c)
    BY <1>10, <2>1, <2>2 DEF Numbering
  <2>4. \A i \in 1 .. Len(toServer'[c]) : toServer'[c][i].call \in 1 .. Latest(c)
    BY <1>3, <1>10, <2>1 DEF Numbering
  <2>5. \A i \in 1 .. Len(toClient'[c]) : toClient'[c][i].call \in 1 .. Latest(c)
    BY <1>4, <1>6, <2>1, <2>2 DEF Numbering
  <2> QED BY <1>1, <1>9, <2>1, <2>3, <2>4, <2>5 DEF Numbering
<1>12. Poisoned(c)'
  BY <1>1 DEF IInv, Poisoned
<1>13. Final(c)'
  <2>1. ASSUME NEW k \in 1 .. Len(results[c]), ~results[c][k].accepted
        PROVE  /\ \A i \in 1 .. Len(executed'[c]) : executed'[c][i] <= k
               /\ \A i \in 1 .. Len(toServer'[c]) : toServer'[c][i].call <= k
    <3>1. /\ \A i \in 1 .. Len(executed[c]) : executed[c][i] <= k
          /\ \A i \in 1 .. Len(toServer[c]) : toServer[c][i].call <= k
      BY <2>1 DEF IInv, Final
    <3>2. q.call <= k
      BY <1>3, <1>10, <3>1
    <3> QED BY <1>3, <1>10, <3>1, <3>2
  <2> QED BY <1>1, <2>1 DEF Final
<1>14. ASSUME OneInv
       PROVE  (Lockstep(c) /\ Honest(c) /\ Own(c))'
  <2>1. Lockstep(c) /\ Honest(c) /\ Own(c)
    BY <1>14 DEF OneInv
  <2>2. ~twice
    BY <1>2, <1>3, <1>10, <2>1 DEF Lockstep
  <2>3. Len(toServer'[c]) = 0 /\ Len(toClient[c]) = 0 /\ Len(toClient'[c]) \in {0, 1}
    <3>1. Len(toServer[c]) + Len(toClient[c]) <= 1
      BY <2>1 DEF Lockstep
    <3>2. \A a, b \in Nat : (a + 1) + b <= 1 => a = 0 /\ b = 0
      OBVIOUS
    <3>3. Len(toServer'[c]) = 0 /\ Len(toClient[c]) = 0
      BY <1>3, <1>6, <3>1, <3>2
    <3>4. \A n \in Nat : n <= 0 + 1 => n \in {0, 1} /\ 0 + n <= 1
      OBVIOUS
    <3>5. Len(toClient'[c]) \in Nat /\ Len(toClient'[c]) <= 0 + 1
      BY <1>6, <2>2, <3>3
    <3> QED BY <3>3, <3>4, <3>5
  <2>4. Len(toServer'[c]) + Len(toClient'[c]) <= 1
    <3>1. \A a, n : a = 0 /\ n \in {0, 1} => a + n <= 1
      OBVIOUS
    <3> QED BY <2>3, <3>1
  <2>5. ~(good[c] /\ pc[c] # "waiting")
    <3>1. Len(toServer[c]) + Len(toClient[c]) # 0
      BY <1>3, <2>3
    <3> QED BY <2>1, <3>1 DEF Lockstep
  <2>6. \A i \in 1 .. Len(toClient'[c]) : toClient'[c][i] = r
    BY <1>6, <2>3
  <2>7. pc[c] = "waiting" => q.call = Len(results[c]) + 1
    BY <1>3, <1>10, <2>1 DEF Lockstep
  <2>8. Lockstep(c)'
    <3>1. \A i \in 1 .. Len(toServer'[c]) : FALSE
      BY <2>3
    <3>2. pc[c] # "idle" => "exhaustAllowed" \notin current[c].flags
      BY <2>1 DEF Lockstep
    <3> QED BY <1>1, <1>4, <2>4, <2>5, <2>6, <2>7, <3>1, <3>2 DEF Lockstep
  <2>9. Honest(c)'
    <3>1. \A i \in 1 .. Len(toServer'[c]) : FALSE
      BY <2>3
    <3>2. ok => \E j \in 1 .. Len(executed'[c]) : executed'[c][j] = q.call
      BY <1>5
    <3> QED BY <1>4, <2>6, <3>1, <3>2 DEF Honest
  <2>10. Own(c)'
    BY <1>1, <2>1 DEF Own
  <2> QED BY <2>8, <2>9, <2>10
<1> QED BY <1>7, <1>8, <1>11, <1>12, <1>13, <1>14, QuietKeeps DEF IInv, OneInv

LEMMA CloseStep ==
  ASSUME IInv, NEW c \in Connections, Close(c)
  PROVE  IInv' /\ (OneInv => OneInv')
<1>1. /\ open' = [open EXCEPT ![c] = FALSE]
      /\ toServer' \in {toServer, [toServer EXCEPT ![c] = <<>>]}
      /\ toClient' \in {toClient, [toClient EXCEPT ![c] = <<>>]}
      /\ UNCHANGED <<nextMessageId, good, pc, current, results, executed>>
  BY DEF Close
<1>2. TypeOK'
  <2>1. <<>> \in Seq(Request) /\ <<>> \in Seq(Reply)
    OBVIOUS
  <2>2. open' \in [Connections -> BOOLEAN]
    BY <1>1 DEF IInv, TypeOK
  <2>3. toServer' \in [Connections -> Seq(Request)]
    BY <1>1, <2>1 DEF IInv, TypeOK
  <2>4. toClient' \in [Connections -> Seq(Reply)]
    BY <1>1, <2>1 DEF IInv, TypeOK
  <2> QED BY <1>1, <2>2, <2>3, <2>4 DEF IInv, TypeOK
<1>3. /\ \A d \in Connections : d # c => toServer'[d] = toServer[d] /\ toClient'[d] = toClient[d]
      /\ toServer'[c] = toServer[c] \/ toServer'[c] = <<>>
      /\ toClient'[c] = toClient[c] \/ toClient'[c] = <<>>
  BY <1>1 DEF IInv, TypeOK
<1>4. \A d \in Connections : d # c => Quiet(d)
  BY <1>1, <1>3 DEF Quiet
<1>5. /\ Len(toServer[c]) \in Nat /\ Len(toClient[c]) \in Nat
      /\ toServer'[c] # toServer[c] => Len(toServer'[c]) = 0
      /\ toClient'[c] # toClient[c] => Len(toClient'[c]) = 0
  BY <1>3, LenProperties DEF IInv, TypeOK
<1>6. (Numbering(c) /\ Poisoned(c) /\ Final(c))'
  <2>1. Latest(c)' = Latest(c)
    BY <1>1 DEF Latest
  <2>2. Numbering(c)'
    BY <1>1, <1>5, <2>1 DEF IInv, Numbering
  <2>3. Poisoned(c)'
    BY <1>1 DEF IInv, Poisoned
  <2>4. Final(c)'
    BY <1>1, <1>5 DEF IInv, Final
  <2> QED BY <2>2, <2>3, <2>4
<1>7. ASSUME OneInv
      PROVE  (Lockstep(c) /\ Honest(c) /\ Own(c))'
  <2>1. Lockstep(c) /\ Honest(c) /\ Own(c)
    BY <1>7 DEF OneInv
  <2>2. /\ Len(toServer'[c]) + Len(toClient'[c]) <= Len(toServer[c]) + Len(toClient[c])
        /\ Len(toServer[c]) + Len(toClient[c]) = 0 => Len(toServer'[c]) + Len(toClient'[c]) = 0
    <3> DEFINE Shrinks(x, y, a, b) == x + y <= a + b /\ (a + b = 0 => x + y = 0)
    <3>1. \A a, b \in Nat : /\ Shrinks(a, b, a, b) /\ Shrinks(0, b, a, b)
                            /\ Shrinks(a, 0, a, b) /\ Shrinks(0, 0, a, b)
      OBVIOUS
    <3>2. /\ Len(toServer'[c]) = Len(toServer[c]) \/ Len(toServer'[c]) = 0
          /\ Len(toClient'[c]) = Len(toClient[c]) \/ Len(toClient'[c]) = 0
      BY <1>5
    <3>3. Shrinks(Len(toServer'[c]), Len(toClient'[c]), Len(toServer[c]), Len(toClient[c]))
      <4> HIDE DEF Shrinks
      <4> QED BY <1>5, <3>1, <3>2
    <3> QED BY <3>3
  <2>3. Len(toServer'[c]) + Len(toClient'[c]) <= 1
    <3>1. \A a, b, x, y \in Nat : x + y <= a + b /\ a + b <= 1 => x + y <= 1
      OBVIOUS
    <3>2. Len(toServer'[c]) \in Nat /\ Len(toClient'[c]) \in Nat
      BY <1>5
    <3> QED BY <1>5, <2>1, <2>2, <3>1, <3>2 DEF Lockstep
  <2>4. /\ \A i \in 1 .. Len(toServer'[c]) :
               i \in 1 .. Len(toServer[c]) /\ toServer'[c][i] = toServer[c][i]
        /\ \A i \in 1 .. Len(toClient'[c]) :
               i \in 1 .. Len(toClient[c]) /\ toClient'[c][i] = toClient[c][i]
    BY <1>5
  <2>5. Lockstep(c)'
    <3>1. good'[c] /\ pc'[c] # "waiting" => Len(toServer'[c]) + Len(toClient'[c]) = 0
      BY <1>1, <2>1, <2>2 DEF Lockstep
    <3>2. pc'[c] = "waiting" =>
            /\ \A i \in 1 .. Len(toServer'[c]) : toServer'[c][i].call = Len(results'[c]) + 1
            /\ \A i \in 1 .. Len(toClient'[c]) : toClient'[c][i].call = Len(results'[c]) + 1
      BY <1>1, <2>1, <2>4 DEF Lockstep
    <3>3. /\ pc'[c] # "idle" => "exhaustAllowed" \notin current'[c].flags
          /\ \A i \in 1 .. Len(toServer'[c]) : "exhaustAllowed" \notin toServer'[c][i].flags
      BY <1>1, <2>1, <2>4 DEF Lockstep
    <3> QED BY <2>3, <3>1, <3>2, <3>3 DEF Lockstep
  <2>6. Honest(c)'
    BY <1>1, <2>1, <2>4 DEF Honest
  <2>7. Own(c)'
    BY <1>1, <2>1 DEF Own
  <2> QED BY <2>5, <2>6, <2>7
<1> QED BY <1>2, <1>4, <1>6, <1>7, QuietKeeps DEF IInv, OneInv

-----------------------------------------------------------------------------
LEMMA Initially == Init => IInv /\ OneInv
<1> SUFFICES ASSUME Init PROVE IInv /\ OneInv
  OBVIOUS
<1>1. TypeOK
  BY CommandsAssumption DEF Init, TypeOK, Call
<1>2. \A d \in Connections : /\ results[d] = <<>> /\ toServer[d] = <<>> /\ toClient[d] = <<>>
                            /\ executed[d] = <<>> /\ pc[d] = "idle"
  BY DEF Init
<1>3. Len(<<>>) = 0 /\ 0 + 0 <= 1 /\ 0 + 0 = 0 /\ \A i \in 1 .. 0 : FALSE
  OBVIOUS
<1>4. ASSUME NEW d \in Connections
      PROVE  Numbering(d) /\ Poisoned(d) /\ Final(d)
  <2>1. Numbering(d)
    BY <1>2, <1>3 DEF Numbering
  <2>2. Poisoned(d)
    BY <1>2, <1>3 DEF Poisoned
  <2>3. Final(d)
    BY <1>2, <1>3 DEF Final
  <2> QED BY <2>1, <2>2, <2>3
<1>5. ASSUME NEW d \in Connections
      PROVE  Lockstep(d) /\ Honest(d) /\ Own(d)
  <2>1. Lockstep(d)
    BY <1>2, <1>3 DEF Lockstep
  <2>2. Honest(d)
    BY <1>2, <1>3 DEF Honest
  <2>3. Own(d)
    BY <1>2, <1>3 DEF Own
  <2> QED BY <2>1, <2>2, <2>3
<1> QED BY <1>1, <1>4, <1>5 DEF IInv, OneInv

LEMMA Step == IInv /\ [Next]_vars => IInv' /\ (OneReply /\ OneInv => OneInv')
<1> SUFFICES ASSUME IInv, [Next]_vars PROVE IInv' /\ (OneReply /\ OneInv => OneInv')
  OBVIOUS
<1>1. ASSUME NEW c \in Connections, Number(c)
      PROVE  IInv' /\ (OneReply /\ OneInv => OneInv')
  BY <1>1, NumberStep
<1>2. ASSUME NEW c \in Connections, Send(c)
      PROVE  IInv' /\ (OneInv => OneInv')
  BY <1>2, SendStep
<1>3. ASSUME NEW c \in Connections, SendFails(c) \/ ReceiveFails(c)
      PROVE  IInv' /\ (OneInv => OneInv')
  <2>1. /\ Return(c, FALSE, FALSE, 0) /\ pc[c] # "idle"
        /\ good' = [good EXCEPT ![c] = FALSE]
        /\ UNCHANGED <<nextMessageId, open, current, toServer, toClient, executed>>
    BY <1>3 DEF SendFails, ReceiveFails
  <2> QED BY <2>1, GivenUp
<1>4. ASSUME NEW c \in Connections, Receive(c)
      PROVE  IInv' /\ (OneInv => OneInv')
  BY <1>4, ReceiveStep
<1>5. ASSUME NEW c \in Connections, Execute(c)
      PROVE  IInv' /\ (OneInv => OneInv')
  BY <1>5, ExecuteStep
<1>6. ASSUME NEW c \in Connections, Close(c)
      PROVE  IInv' /\ (OneInv => OneInv')
  BY <1>6, CloseStep
<1>7. ASSUME UNCHANGED vars
      PROVE  IInv' /\ (OneInv => OneInv')
  <2>1. \A d \in Connections : Quiet(d)
    BY <1>7 DEF vars, Quiet
  <2>2. TypeOK'
    BY <1>7 DEF IInv, TypeOK, vars
  <2> QED BY <2>1, <2>2, QuietKeeps DEF IInv, OneInv
<1> QED BY <1>1, <1>2, <1>3, <1>4, <1>5, <1>6, <1>7 DEF Next, ThreadNext, Done

-----------------------------------------------------------------------------
(* The theorems. *)

\* Every variable keeps its type: the counter stays below IdSpace, and each
\* connection's queues hold requests and replies.
THEOREM TypeCorrect == Spec => []TypeOK
<1>1. Init => IInv
  BY Initially
<1>2. IInv /\ [Next]_vars => IInv'
  BY Step
<1>3. IInv => TypeOK
  BY DEF IInv
<1> QED BY <1>1, <1>2, <1>3, PTL DEF Spec

\* After a call that did not get its answer, no later call on that connection
\* reaches the server, whatever flags the calls set and however often message
\* ids are used again: sendMessage() and recvMessage() leave the stream failed.
THEOREM FailedForGood == Spec => []FailureIsFinal
<1>1. Init => IInv
  BY Initially
<1>2. IInv /\ [Next]_vars => IInv'
  BY Step
<1>3. IInv => FailureIsFinal
  BY DEF IInv, Final, FailureIsFinal
<1> QED BY <1>1, <1>2, <1>3, PTL DEF Spec

\* Unless a call allows several replies, a response that recvMessage() accepted
\* is the answer to the call it is returned from; and that with any number of
\* ids, even one: the order of the connection alone makes it so.
THEOREM AnsweredByOwn == OneReply => (Spec => []OwnAnswer)
<1> SUFFICES ASSUME OneReply PROVE Spec => []OwnAnswer
  OBVIOUS
<1>1. Init => IInv /\ OneInv
  BY Initially
<1>2. IInv /\ OneInv /\ [Next]_vars => IInv' /\ OneInv'
  BY Step
<1>3. IInv /\ OneInv => OwnAnswer
  BY DEF OneInv, Own, OwnAnswer
<1> QED BY <1>1, <1>2, <1>3, PTL DEF Spec

\* Unless a call allows several replies, nothing is on its way on a connection
\* that is good and not waiting for a reply.
THEOREM KeptInStep == OneReply => (Spec => []InStep)
<1> SUFFICES ASSUME OneReply PROVE Spec => []InStep
  OBVIOUS
<1>1. Init => IInv /\ OneInv
  BY Initially
<1>2. IInv /\ OneInv /\ [Next]_vars => IInv' /\ OneInv'
  BY Step
<1>3. ASSUME IInv, OneInv, NEW c \in Connections, pc[c] # "waiting", good[c]
      PROVE  toServer[c] = <<>> /\ Len(toClient[c]) = 0
  <2>1. toServer[c] \in Seq(Request) /\ Len(toServer[c]) \in Nat /\ Len(toClient[c]) \in Nat
    BY <1>3, LenProperties DEF IInv, TypeOK
  <2>2. Len(toServer[c]) + Len(toClient[c]) = 0
    BY <1>3 DEF OneInv, Lockstep
  <2>3. Len(toServer[c]) = 0 /\ Len(toClient[c]) = 0
    BY <2>1, <2>2, NoneOfNone
  <2> QED BY <2>1, <2>3, EmptySeq
<1>4. IInv /\ OneInv => InStep
  BY <1>3 DEF InStep
<1> QED BY <1>1, <1>2, <1>4, PTL DEF Spec

-----------------------------------------------------------------------------
(* Commands implements RemoteCall. *)

Whats == {"ok", "error", "failed"}

\* The state of the promise, of one connection.
BegunOf(d)    == IF pc[d] = "idle" THEN Len(results[d]) ELSE Len(results[d]) + 1
ReportedOf(d) == [k \in 1 .. Len(results[d]) |-> Told(k, results[d][k])]

\* And of all.
Begun    == [d \in Connections |-> BegunOf(d)]
Reported == [d \in Connections |-> ReportedOf(d)]

LEMMA FunctionIsSeq ==
  ASSUME NEW T, NEW n \in Nat, NEW f \in [1 .. n -> T]
  PROVE  f \in Seq(T) /\ Len(f) = n
<1>1. f \in Seq(T)
  BY SeqDef
<1>2. Len(f) \in Nat /\ DOMAIN f = 1 .. Len(f) /\ DOMAIN f = 1 .. n
  BY <1>1, LenProperties
<1>3. \A a, b \in Nat : 1 .. a = 1 .. b => a = b
  <2>1. ASSUME NEW a \in Nat, NEW b \in Nat, 1 .. a = 1 .. b, a < b
        PROVE  FALSE
    <3>1. b \in 1 .. b /\ b \notin 1 .. a
      BY <2>1
    <3> QED BY <2>1, <3>1
  <2>2. ASSUME NEW a \in Nat, NEW b \in Nat, 1 .. a = 1 .. b
        PROVE  a = b
    <3>1. ~(a < b) /\ ~(b < a)
      BY <2>1, <2>2
    <3> QED BY <3>1
  <2> QED BY <2>2
<1> QED BY <1>1, <1>2, <1>3

LEMMA ReportedIs ==
  ASSUME TypeOK, NEW d \in Connections
  PROVE  ReportedOf(d) \in Seq(Whats) /\ Len(ReportedOf(d)) = Len(results[d])
<1>1. Len(results[d]) \in Nat
  BY LenProperties DEF TypeOK
<1>2. ReportedOf(d) \in [1 .. Len(results[d]) -> Whats]
  BY DEF ReportedOf, Told, Whats
<1> QED BY <1>1, <1>2, FunctionIsSeq

\* A result is added.
LEMMA ReportedGrows ==
  ASSUME TypeOK, TypeOK', NEW c \in Connections,
         Len(results'[c]) = Len(results[c]) + 1,
         \A i \in 1 .. Len(results[c]) : results'[c][i] = results[c][i]
  PROVE  ReportedOf(c)' = Append(ReportedOf(c),
                                 Told(Len(results[c]) + 1, results'[c][Len(results[c]) + 1]))
<1> DEFINE n == Len(results[c])
           s == ReportedOf(c)
           t == ReportedOf(c)'
           x == Told(n + 1, results'[c][n + 1])
<1>1. n \in Nat /\ s \in Seq(Whats) /\ Len(s) = n /\ x \in Whats
  BY ReportedIs, LenProperties DEF TypeOK, Told, Whats
<1>2. t = [k \in 1 .. n + 1 |-> Told(k, results'[c][k])]
  BY DEF ReportedOf, Told
<1>3. \A k \in 1 .. n : Told(k, results'[c][k]) = s[k]
  BY DEF ReportedOf
<1>4. Append(s, x) = [k \in 1 .. n + 1 |-> IF k = n + 1 THEN x ELSE s[k]]
  <2> HIDE DEF s, x, n
  <2>1. DOMAIN Append(s, x) = 1 .. n + 1
    BY <1>1, AppendProperties
  <2>2. /\ \A k \in 1 .. n : Append(s, x)[k] = s[k]
        /\ Append(s, x)[n + 1] = x
    BY <1>1, AppendProperties
  <2>3. \A k \in 1 .. n + 1 : k = n + 1 \/ k \in 1 .. n
    BY <1>1
  <2>4. Append(s, x) = [k \in 1 .. n + 1 |-> Append(s, x)[k]]
    <3> DEFINE f == Append(s, x)
    <3>1. f \in Seq(Whats) /\ Len(f) = n + 1
      BY <1>1, AppendProperties
    <3>2. f \in [1 .. n + 1 -> Whats]
      BY <3>1, LenProperties
    <3> HIDE DEF f
    <3>3. f = [k \in 1 .. n + 1 |-> f[k]]
      BY <3>2
    <3> QED BY <3>3 DEF f
  <2> QED BY <2>2, <2>3, <2>4
<1>5. \A k \in 1 .. n + 1 : k = n + 1 \/ k \in 1 .. n
  BY <1>1
<1>6. \A k \in 1 .. n + 1 : Told(k, results'[c][k]) = IF k = n + 1 THEN x ELSE s[k]
  BY <1>3, <1>5
<1> HIDE DEF s, t, x, n
<1> QED BY <1>2, <1>4, <1>6 DEF s, t, x, n

LEMMA InitialPromise == Init => Remote!Init
<1> SUFFICES ASSUME Init PROVE Remote!Init
  OBVIOUS
<1>1. \A d \in Connections : pc[d] = "idle" /\ results[d] = <<>> /\ executed[d] = <<>>
      /\ executed = [c \in Connections |-> <<>>]
  BY DEF Init
<1>2. Len(<<>>) = 0 /\ [k \in 1 .. 0 |-> Told(k, <<>>[k])] = <<>>
  OBVIOUS
<1>3. \A d \in Connections : BegunOf(d) = 0 /\ ReportedOf(d) = <<>>
  BY <1>1, <1>2 DEF BegunOf, ReportedOf
<1>4. Begun = [d \in Connections |-> 0] /\ Reported = [d \in Connections |-> <<>>]
  BY <1>3 DEF Begun, Reported
<1> QED BY <1>1, <1>4 DEF Begun, Reported, BegunOf, ReportedOf, Init, Remote!Init

\* A thread that does not begin or return says nothing new.
LEMMA SilentKeeps ==
  ASSUME NEW d \in Connections, results'[d] = results[d],
         pc[d] = "idle" <=> pc'[d] = "idle"
  PROVE  BegunOf(d)' = BegunOf(d) /\ ReportedOf(d)' = ReportedOf(d)
BY DEF BegunOf, ReportedOf

LEMMA BeginPromise ==
  ASSUME IInv, NEW c \in Connections, Number(c)
  PROVE  Remote!Begin(c)
<1>1. /\ pc[c] = "idle" /\ Len(results[c]) < MaxCalls
      /\ pc' = [pc EXCEPT ![c] = "numbered"]
      /\ UNCHANGED <<results, executed>>
  BY DEF Number
<1>2. pc'[c] = "numbered" /\ \A d \in Connections : d # c => pc'[d] = pc[d]
  BY <1>1 DEF IInv, TypeOK
<1>3. BegunOf(c) = Len(results[c]) /\ BegunOf(c)' = BegunOf(c) + 1
  BY <1>1, <1>2 DEF BegunOf
<1>4. \A d \in Connections : d # c => BegunOf(d)' = BegunOf(d)
  BY <1>1, <1>2 DEF BegunOf
<1>5. \A d \in Connections : ReportedOf(d)' = ReportedOf(d)
  BY <1>1 DEF ReportedOf
<1>6. Begun' = [Begun EXCEPT ![c] = @ + 1] /\ Reported' = Reported
  BY <1>3, <1>4, <1>5 DEF Begun, Reported
<1>7. Begun[c] = Len(Reported[c]) /\ Begun[c] < MaxCalls
  <2>1. Len(ReportedOf(c)) = Len(results[c])
    BY ReportedIs DEF IInv
  <2> QED BY <1>1, <1>3, <2>1 DEF Begun, Reported
<1> QED BY <1>1, <1>6, <1>7 DEF Begun, Reported, BegunOf, ReportedOf, Remote!Begin

\* A command returns, having told the program that the call worked only if the
\* server executed it.
LEMMA ReportPromise ==
  ASSUME IInv, TypeOK', NEW c \in Connections, NEW okay \in BOOLEAN, NEW fine \in BOOLEAN,
         NEW which \in Nat, Return(c, okay, fine, which), UNCHANGED executed,
         pc[c] # "idle",
         okay => which = Len(results[c]) + 1 /\ \E i \in 1 .. Len(executed[c]) : executed[c][i] = which
  PROVE  Remote!Report(c)
<1> DEFINE n == Len(results[c])
           e == results'[c][n + 1]
<1>1. /\ pc'[c] = "idle"
      /\ \A d \in Connections : d # c => results'[d] = results[d] /\ pc'[d] = pc[d]
      /\ Len(results'[c]) = n + 1 /\ n \in Nat
      /\ \A i \in 1 .. n : results'[c][i] = results[c][i]
      /\ e.accepted = fine /\ e.answers = which /\ e.ok = okay
  <2>1. TypeOK
    BY DEF IInv
  <2> QED BY <2>1, Returned
<1>2. BegunOf(c) = n + 1 /\ \A d \in Connections : BegunOf(d)' = BegunOf(d)
  BY <1>1 DEF BegunOf
<1>3. ReportedOf(c)' = Append(ReportedOf(c), Told(n + 1, e))
  BY <1>1, ReportedGrows DEF IInv
<1>4. \A d \in Connections : d # c => ReportedOf(d)' = ReportedOf(d)
  BY <1>1 DEF ReportedOf
<1>5. Begun' = Begun /\ Reported' = [Reported EXCEPT ![c] = Append(@, Told(n + 1, e))]
  BY <1>2, <1>3, <1>4 DEF Begun, Reported
<1>6. Told(n + 1, e) \in Whats
      /\ (Told(n + 1, e) = "ok" => \E i \in 1 .. Len(executed[c]) : executed[c][i] = n + 1)
  BY <1>1 DEF Told, Whats
<1>7. Begun[c] = n + 1 /\ Begun[c] = Len(Reported[c]) + 1
  <2>1. Len(ReportedOf(c)) = n
    BY ReportedIs DEF IInv
  <2> QED BY <1>2, <2>1 DEF Begun, Reported
<1> HIDE DEF n, e
<1>8. \E what \in {"ok", "error", "failed"} :
        /\ what = "ok" => \E i \in 1 .. Len(executed[c]) : executed[c][i] = Begun[c]
        /\ Reported' = [Reported EXCEPT ![c] = Append(@, what)]
  BY <1>5, <1>6, <1>7 DEF Whats
<1> QED BY <1>5, <1>7, <1>8 DEF Begun, Reported, BegunOf, ReportedOf, Remote!Report

LEMMA ExecutePromise ==
  ASSUME IInv, OneInv, NEW c \in Connections, Execute(c)
  PROVE  Remote!Execute(c) \/ UNCHANGED <<Begun, Reported, executed>>
<1> DEFINE k == Head(toServer[c]).call
<1>1. toServer[c] # <<>> /\ UNCHANGED <<pc, results>>
  BY DEF Execute
<1>2. executed' = executed \/ executed' = [executed EXCEPT ![c] = Append(@, k)]
  BY DEF Execute
<1>3. Begun' = Begun /\ Reported' = Reported
  BY <1>1 DEF Begun, Reported, BegunOf, ReportedOf
<1>4. Head(toServer[c]) = toServer[c][1] /\ 1 \in 1 .. Len(toServer[c])
  <2>1. toServer[c] \in Seq(Request)
    BY DEF IInv, TypeOK
  <2>2. Len(toServer[c]) \in Nat /\ Len(toServer[c]) # 0
    BY <1>1, <2>1, LenProperties, EmptySeq
  <2> QED BY <1>1, <2>1, <2>2, HeadTailProperties
<1>5. k \in 1 .. Latest(c) /\ Len(results[c]) \in Nat
  BY <1>4, LenProperties DEF IInv, TypeOK, Numbering
<1>6. k \in 1 .. Begun[c]
  BY <1>5 DEF Begun, BegunOf, Latest
<1>7. \A i \in 1 .. Len(executed[c]) : executed[c][i] < k
  BY <1>4 DEF OneInv, Honest
<1>8. \A j \in 1 .. k - 1 : Reported[c][j] # "failed"
  <2>1. ASSUME NEW j \in 1 .. k - 1
        PROVE  Reported[c][j] # "failed"
    <3>1. j \in 1 .. Len(results[c]) /\ ~(k <= j)
      BY <1>5 DEF Latest
    <3>2. results[c][j].accepted
      BY <1>4, <3>1 DEF IInv, Final
    <3>3. Reported[c][j] = Told(j, results[c][j])
      BY <3>1 DEF Reported, ReportedOf
    <3> QED BY <3>2, <3>3 DEF Told
  <2> QED BY <2>1
<1> HIDE DEF k
<1>9. CASE executed' = [executed EXCEPT ![c] = Append(@, k)]
  BY <1>3, <1>6, <1>7, <1>8, <1>9 DEF Begun, Reported, BegunOf, ReportedOf, Remote!Execute
<1> QED BY <1>2, <1>3, <1>9

LEMMA StepPromise ==
  ASSUME IInv, TypeOK', OneInv, [Next]_vars
  PROVE  Remote!Next \/ UNCHANGED <<Begun, Reported, executed>>
<1>1. ASSUME NEW c \in Connections, Number(c)
      PROVE  Remote!Next
  BY <1>1, BeginPromise DEF Remote!Next
<1>2. ASSUME NEW c \in Connections, Send(c)
      PROVE  UNCHANGED <<Begun, Reported, executed>>
  <2>1. /\ pc[c] = "numbered" /\ pc' = [pc EXCEPT ![c] = "waiting"]
        /\ UNCHANGED <<results, executed>>
    BY <1>2 DEF Send
  <2>2. \A d \in Connections : pc[d] = "idle" <=> pc'[d] = "idle"
    BY <2>1 DEF IInv, TypeOK
  <2> QED BY <2>1, <2>2 DEF Begun, Reported, BegunOf, ReportedOf
<1>3. ASSUME NEW c \in Connections, SendFails(c) \/ ReceiveFails(c)
      PROVE  Remote!Next
  <2>1. Return(c, FALSE, FALSE, 0) /\ pc[c] # "idle" /\ UNCHANGED executed
    BY <1>3 DEF SendFails, ReceiveFails
  <2>2. FALSE \in BOOLEAN /\ 0 \in Nat
    OBVIOUS
  <2>3. Remote!Report(c)
    BY <2>1, <2>2, ReportPromise
  <2> QED BY <2>3 DEF Remote!Next
<1>4. ASSUME NEW c \in Connections, Receive(c)
      PROVE  Remote!Next
  <2> DEFINE r == Head(toClient[c])
             accepted == Accepted(r, current[c].messageId)
  <2>1. /\ pc[c] = "waiting" /\ toClient[c] # <<>>
        /\ Return(c, r.ok, accepted, r.call) /\ UNCHANGED executed
    BY <1>4 DEF Receive
  <2>2. r = toClient[c][1] /\ r \in Reply /\ 1 \in 1 .. Len(toClient[c])
    <3>1. toClient[c] \in Seq(Reply)
      BY DEF IInv, TypeOK
    <3>2. Len(toClient[c]) \in Nat /\ Len(toClient[c]) # 0
      BY <2>1, <3>1, LenProperties, EmptySeq
    <3> QED BY <2>1, <3>1, <3>2, HeadTailProperties
  <2>3. accepted \in BOOLEAN /\ r.ok \in BOOLEAN /\ r.call \in Nat
    BY <2>2 DEF Accepted, Reply
  <2>4. r.call = Len(results[c]) + 1
    BY <2>1, <2>2 DEF OneInv, Lockstep
  <2>5. r.ok => \E i \in 1 .. Len(executed[c]) : executed[c][i] = r.call
    BY <2>2 DEF OneInv, Honest
  <2> HIDE DEF r, accepted
  <2>6. Remote!Report(c)
    BY <2>1, <2>3, <2>4, <2>5, ReportPromise
  <2> QED BY <2>6 DEF Remote!Next
<1>5. ASSUME NEW c \in Connections, Execute(c)
      PROVE  Remote!Next \/ UNCHANGED <<Begun, Reported, executed>>
  <2>1. CASE Remote!Execute(c)
    BY <2>1 DEF Remote!Next
  <2> QED BY <1>5, <2>1, ExecutePromise
<1>6. ASSUME NEW c \in Connections, Close(c)
      PROVE  UNCHANGED <<Begun, Reported, executed>>
  BY <1>6 DEF Close, Begun, Reported, BegunOf, ReportedOf
<1>7. ASSUME UNCHANGED vars
      PROVE  UNCHANGED <<Begun, Reported, executed>>
  BY <1>7 DEF vars, Begun, Reported, BegunOf, ReportedOf
<1> QED BY <1>1, <1>2, <1>3, <1>4, <1>5, <1>6, <1>7 DEF Next, ThreadNext, Done

\* Unless a call allows several replies, the connections keep the promise of
\* RemoteCall for any number of calls, ids and faults: a command is executed at
\* most once and in order, is reported to have worked only if it was executed,
\* and nothing is executed after a failure.
THEOREM Implements == OneReply => (Spec => ImplementsRemoteCall)
<1> SUFFICES ASSUME OneReply PROVE Spec => ImplementsRemoteCall
  OBVIOUS
<1>1. Init => IInv /\ OneInv
  BY Initially
<1>2. IInv /\ OneInv /\ [Next]_vars => IInv' /\ OneInv'
  BY Step
<1>3. Init => Remote!Init
  BY InitialPromise
<1>4. IInv /\ IInv' /\ OneInv /\ [Next]_vars => [Remote!Next]_(Remote!vars)
  <2> SUFFICES ASSUME IInv, TypeOK', OneInv, [Next]_vars
               PROVE  [Remote!Next]_(Remote!vars)
    BY DEF IInv
  <2> QED BY StepPromise DEF Begun, Reported, BegunOf, ReportedOf, Remote!vars
<1> QED BY <1>1, <1>2, <1>3, <1>4, PTL DEF Spec, ImplementsRemoteCall, Remote!Spec

===============================================================================
