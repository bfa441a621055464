------------------------------ MODULE CursorProofs ------------------------------
(***************************************************************************)
(* Proofs about Cursor, for any ranges, results, batch sizes and faults.   *)
(*                                                                         *)
(* The argument: a range's offset and batch together are exactly the       *)
(* documents the server sent, and at most one more, of a reply that was    *)
(* rejected and failed the stream, so that no batch can follow it; the     *)
(* iterator points into the batch whenever it may be read.                 *)
(***************************************************************************)
EXTENDS Cursor, SequenceTheorems, TLAPS

\* The i-th document of a range: the server's, or that of a rejected reply.
Doc(c, i) == IF i <= sent[c] THEN i ELSE Bad

\* The batch holds the documents after the offset, and no reply is missing.
Stocked(c) ==
  /\ size(c) \in {sent[c], sent[c] + 1}
  /\ good \/ accepted[c] => size(c) = sent[c]
  /\ \A i \in 1 .. Len(batch[c]) : batch[c][i] = Doc(c, offset[c] + i)

\* The iterator points at the next document, which is in the batch if there is
\* one, and at the end of an empty batch when a loop is over.
Reading(c) ==
  /\ Len(seen[c]) = iter[c].index /\ iter[c].index <= size(c)
  /\ \A i \in 1 .. Len(seen[c]) : seen[c][i] = Doc(c, i)
  /\ iter[c].input => offset[c] <= iter[c].index /\ iter[c].index < size(c)
  /\ copies[c] > 0 /\ ~iter[c].input /\ iter[c].index > 0 =>
       iter[c].index = size(c) /\ Len(batch[c]) = 0

\* A batch is empty only where the result ends.
Ended(c) ==
  accepted[c] /\ ok[c] /\ Len(batch[c]) = 0 => sent[c] = Docs[c] \/ EmptyBatches

\* The cursors of the ranges in use, and of those that are gone.
Held(c) ==
  /\ copies[c] > 0 /\ id[c] # NoCursor /\ good => id[c] = c /\ (live[c] \/ reaped[c])
  /\ copies[c] > 0 /\ id[c] = NoCursor /\ good => ~live[c] \/ refused[c]
  /\ found[c] /\ copies[c] = 0 /\ good => ~live[c] \/ refused[c]

\* A range that was not asked for.
Fresh(c) ==
  ~found[c] =>
    /\ copies[c] = 0 /\ sent[c] = 0 /\ offset[c] = 0 /\ iter[c].index = 0 /\ ~iter[c].input
    /\ ~live[c] /\ ~accepted[c] /\ Len(batch[c]) = 0

Local(c) == Stocked(c) /\ Reading(c) /\ Ended(c) /\ Held(c) /\ Fresh(c)

IInv == TypeOK /\ \A c \in Ranges : Local(c)

-----------------------------------------------------------------------------
(* What a command on a cursor does. *)

\* The reply was accepted and holds a batch.
Served(c, o) ==
  /\ good /\ o.good = TRUE /\ o.accepted = TRUE /\ o.reply.ok = TRUE
  /\ o.reply.id \in {c, NoCursor}
  /\ \A i \in 1 .. Len(o.reply.docs) : o.reply.docs[i] = sent[c] + i
  /\ o.sent = sent[c] + Len(o.reply.docs)
  /\ o.live = (o.reply.id = c)
  /\ Len(o.reply.docs) = 0 => sent[c] = Docs[c] \/ EmptyBatches

\* It was accepted and holds an error.
Denied(c, o) ==
  /\ good /\ o.good = TRUE /\ o.accepted = TRUE /\ o.reply.ok = FALSE
  /\ o.reply.id = NoCursor /\ Len(o.reply.docs) = 0 /\ o.sent = sent[c]

\* There was none, or the command was not sent.
Missing(c, o) ==
  /\ o.good = FALSE /\ o.accepted = FALSE /\ o.reply.ok = FALSE
  /\ o.reply.id = NoCursor /\ Len(o.reply.docs) = 0 /\ o.sent = sent[c] /\ o.live = live[c]

\* It was parsed, then rejected.
Rejected(c, o) ==
  /\ good /\ o.good = FALSE /\ o.accepted = FALSE /\ o.reply.ok = TRUE
  /\ o.reply.id = c /\ o.sent = sent[c] /\ o.live = live[c]
  /\ Len(o.reply.docs) = 1 /\ o.reply.docs[1] = Bad

Typed(c, o) ==
  /\ o.good \in BOOLEAN /\ o.accepted \in BOOLEAN /\ o.live \in BOOLEAN
  /\ o.sent \in Nat
  /\ o.reply.ok \in BOOLEAN /\ o.reply.id \in {c, NoCursor} /\ o.reply.docs \in Seq(Int)
  /\ Len(o.reply.docs) \in Nat

LEMMA FunctionIsSeq ==
  ASSUME NEW T, NEW n \in Nat, NEW f \in [1 .. n -> T]
  PROVE  f \in Seq(T) /\ Len(f) = n
<1>1. f \in Seq(T)
  BY SeqDef
<1>2. Len(f) \in Nat /\ DOMAIN f = 1 .. Len(f) /\ DOMAIN f = 1 .. n
  BY <1>1, LenProperties
<1>3. ASSUME NEW a \in Nat, NEW b \in Nat, 1 .. a = 1 .. b, a < b
      PROVE  FALSE
  <2>1. b \in 1 .. b /\ b \notin 1 .. a
    BY <1>3
  <2> QED BY <1>3, <2>1
<1>4. ~(Len(f) < n) /\ ~(n < Len(f))
  BY <1>2, <1>3
<1> QED BY <1>1, <1>2, <1>4

LEMMA BatchIs ==
  ASSUME TypeOK, NEW c \in Ranges, NEW r \in Batches(c)
  PROVE  /\ r.ok = TRUE /\ r.id \in {c, NoCursor} /\ r.docs \in Seq(Int) /\ Len(r.docs) \in Nat
         /\ \A i \in 1 .. Len(r.docs) : r.docs[i] = sent[c] + i
         /\ Len(r.docs) = 0 => sent[c] = Docs[c] \/ EmptyBatches
<1>1. /\ r \in [ok : {TRUE}, id : {c, NoCursor},
                docs : {[i \in 1 .. k |-> sent[c] + i] : k \in 0 .. MaxBatch}]
      /\ r.docs = <<>> => Docs[c] - sent[c] = 0 \/ EmptyBatches
  BY DEF Batches
<1>2. PICK k \in 0 .. MaxBatch : r.docs = [i \in 1 .. k |-> sent[c] + i]
  BY <1>1
<1>3. sent[c] \in Nat /\ Docs[c] \in Nat /\ k \in Nat
  <2>1. sent[c] \in Nat
    BY DEF TypeOK
  <2>2. Docs[c] \in Nat /\ MaxBatch \in Nat
    BY CursorAssumption
  <2> QED BY <2>1, <2>2
<1>4. r.docs \in [1 .. k -> Int]
  BY <1>2, <1>3
<1>5. r.docs \in Seq(Int) /\ Len(r.docs) = k
  BY <1>3, <1>4, FunctionIsSeq
<1>6. Len(r.docs) = 0 => r.docs = <<>>
  BY <1>5, EmptySeq
<1>7. Docs[c] - sent[c] = 0 => sent[c] = Docs[c]
  BY <1>3
<1>8. \A i \in 1 .. k : r.docs[i] = sent[c] + i
  BY <1>2
<1> QED BY <1>1, <1>3, <1>5, <1>6, <1>7, <1>8

LEMMA OutcomeIs ==
  ASSUME TypeOK, NEW c \in Ranges, NEW opens \in BOOLEAN, NEW o \in Outcomes(c, opens)
  PROVE  /\ Typed(c, o)
         /\ Served(c, o) \/ Denied(c, o) \/ Missing(c, o) \/ Rejected(c, o)
<1>1. /\ good \in BOOLEAN /\ sent[c] \in Nat /\ live[c] \in BOOLEAN
      /\ <<>> \in Seq(Int) /\ Len(<<>>) = 0 /\ 0 \in Nat
      /\ <<Bad>> \in Seq(Int) /\ Len(<<Bad>>) = 1 /\ <<Bad>>[1] = Bad /\ 1 \in Nat
  <2>1. good \in BOOLEAN /\ sent[c] \in Nat /\ live[c] \in BOOLEAN
    BY DEF TypeOK
  <2>2. <<>> \in Seq(Int) /\ Len(<<>>) = 0 /\ 0 \in Nat
    BY EmptySeq
  <2>3. <<Bad>> \in Seq(Int) /\ Len(<<Bad>>) = 1 /\ <<Bad>>[1] = Bad /\ 1 \in Nat
    BY DEF Bad
  <2> QED BY <2>1, <2>2, <2>3
<1>2. CASE o = Outcome(Failed, FALSE, sent[c], live[c], FALSE)
  <2>1. Missing(c, o)
    BY <1>1, <1>2 DEF Missing, Outcome, Failed
  <2>2. Typed(c, o)
    BY <1>1, <1>2 DEF Typed, Outcome, Failed
  <2> QED BY <2>1, <2>2
<1>3. ASSUME good, NEW r \in Batches(c),
             o = Outcome(r, TRUE, sent[c] + Len(r.docs), r.id = c, TRUE)
      PROVE  Typed(c, o) /\ Served(c, o)
  <2>1. /\ o.reply = r /\ o.good = TRUE /\ o.sent = sent[c] + Len(r.docs)
        /\ o.live = (r.id = c) /\ o.accepted = TRUE
    BY <1>3 DEF Outcome
  <2>2. /\ r.ok = TRUE /\ r.id \in {c, NoCursor} /\ r.docs \in Seq(Int) /\ Len(r.docs) \in Nat
        /\ \A i \in 1 .. Len(r.docs) : r.docs[i] = sent[c] + i
        /\ Len(r.docs) = 0 => sent[c] = Docs[c] \/ EmptyBatches
    BY BatchIs
  <2>3. Served(c, o)
    BY <1>3, <2>1, <2>2 DEF Served
  <2>4. (r.id = c) \in BOOLEAN /\ sent[c] + Len(r.docs) \in Nat
    BY <1>1, <2>2
  <2>5. Typed(c, o)
    BY <1>1, <2>1, <2>2, <2>4 DEF Typed
  <2> QED BY <2>3, <2>5
<1>4. ASSUME good, NEW l \in {FALSE, live[c]}, o = Outcome(Failed, TRUE, sent[c], l, TRUE)
      PROVE  Typed(c, o) /\ Denied(c, o)
  <2>1. Denied(c, o)
    BY <1>1, <1>4 DEF Denied, Outcome, Failed
  <2>2. Typed(c, o)
    BY <1>1, <1>4 DEF Typed, Outcome, Failed
  <2> QED BY <2>1, <2>2
<1>5. ASSUME good,
             o = Outcome([ok |-> TRUE, id |-> c, docs |-> <<Bad>>], FALSE, sent[c], live[c], FALSE)
      PROVE  Typed(c, o) /\ Rejected(c, o)
  <2>1. /\ o.reply.ok = TRUE /\ o.reply.id = c /\ o.reply.docs = <<Bad>> /\ o.good = FALSE
        /\ o.sent = sent[c] /\ o.live = live[c] /\ o.accepted = FALSE
    BY <1>5 DEF Outcome
  <2>2. Rejected(c, o)
    BY <1>1, <1>5, <2>1 DEF Rejected
  <2>3. Typed(c, o)
    BY <1>1, <2>1 DEF Typed
  <2> QED BY <2>2, <2>3
<1> QED BY <1>2, <1>3, <1>4, <1>5 DEF Outcomes

\* What is kept of the outcome.
LEMMA Adopted ==
  ASSUME TypeOK, NEW c \in Ranges, NEW o, Typed(c, o), Adopt(c, o)
  PROVE  /\ good' = o.good /\ good' \in BOOLEAN
         /\ ok' \in [Ranges -> BOOLEAN] /\ id' \in [Ranges -> Ranges \cup {NoCursor}]
         /\ batch' \in [Ranges -> Seq(Int)] /\ accepted' \in [Ranges -> BOOLEAN]
         /\ sent' \in [Ranges -> Nat] /\ live' \in [Ranges -> BOOLEAN]
         /\ refused' \in [Ranges -> BOOLEAN]
         /\ \A d \in Ranges : d # c =>
              /\ ok'[d] = ok[d] /\ id'[d] = id[d] /\ batch'[d] = batch[d]
              /\ accepted'[d] = accepted[d] /\ sent'[d] = sent[d] /\ live'[d] = live[d]
              /\ refused'[d] = refused[d]
         /\ ok'[c] = o.reply.ok /\ id'[c] = o.reply.id /\ batch'[c] = o.reply.docs
         /\ accepted'[c] = o.accepted /\ sent'[c] = o.sent /\ live'[c] = o.live
         /\ o.live /\ o.accepted /\ ~o.reply.ok => refused'[c]
<1>1. /\ good' = o.good /\ good' \in BOOLEAN
      /\ ok' = [ok EXCEPT ![c] = o.reply.ok] /\ id' = [id EXCEPT ![c] = o.reply.id]
      /\ batch' = [batch EXCEPT ![c] = o.reply.docs]
      /\ accepted' = [accepted EXCEPT ![c] = o.accepted]
      /\ sent' = [sent EXCEPT ![c] = o.sent] /\ live' = [live EXCEPT ![c] = o.live]
      /\ refused' = [refused EXCEPT ![c] = @ \/ (o.live /\ o.accepted /\ ~o.reply.ok)]
  BY DEF Adopt, Typed
<1>2. /\ ok' \in [Ranges -> BOOLEAN] /\ ok'[c] = o.reply.ok
      /\ \A d \in Ranges : d # c => ok'[d] = ok[d]
  BY <1>1 DEF TypeOK, Typed
<1>3. /\ id' \in [Ranges -> Ranges \cup {NoCursor}] /\ id'[c] = o.reply.id
      /\ \A d \in Ranges : d # c => id'[d] = id[d]
  BY <1>1 DEF TypeOK, Typed
<1>4. /\ batch' \in [Ranges -> Seq(Int)] /\ batch'[c] = o.reply.docs
      /\ \A d \in Ranges : d # c => batch'[d] = batch[d]
  BY <1>1 DEF TypeOK, Typed
<1>5. /\ accepted' \in [Ranges -> BOOLEAN] /\ accepted'[c] = o.accepted
      /\ \A d \in Ranges : d # c => accepted'[d] = accepted[d]
  BY <1>1 DEF TypeOK, Typed
<1>6. /\ sent' \in [Ranges -> Nat] /\ sent'[c] = o.sent
      /\ \A d \in Ranges : d # c => sent'[d] = sent[d]
  BY <1>1 DEF TypeOK, Typed
<1>7. /\ live' \in [Ranges -> BOOLEAN] /\ live'[c] = o.live
      /\ \A d \in Ranges : d # c => live'[d] = live[d]
  BY <1>1 DEF TypeOK, Typed
<1>8. /\ refused' \in [Ranges -> BOOLEAN]
      /\ o.live /\ o.accepted /\ ~o.reply.ok => refused'[c]
      /\ \A d \in Ranges : d # c => refused'[d] = refused[d]
  <2> DEFINE r == refused[c] \/ (o.live /\ o.accepted /\ ~o.reply.ok)
  <2>1. refused' = [refused EXCEPT ![c] = r] /\ r \in BOOLEAN
    BY <1>1 DEF TypeOK, Typed
  <2> HIDE DEF r
  <2>2. /\ refused' \in [Ranges -> BOOLEAN] /\ refused'[c] = r
        /\ \A d \in Ranges : d # c => refused'[d] = refused[d]
    BY <2>1 DEF TypeOK
  <2> QED BY <2>2 DEF r
<1> QED BY <1>1, <1>2, <1>3, <1>4, <1>5, <1>6, <1>7, <1>8

-----------------------------------------------------------------------------
(* The steps. *)

\* What belongs to another range does not change, and a stream that has failed
\* stays so.
Quiet(d) ==
  /\ good' => good
  /\ sent'[d] = sent[d] /\ live'[d] = live[d] /\ refused'[d] = refused[d]
  /\ reaped'[d] = reaped[d] /\ copies'[d] = copies[d] /\ found'[d] = found[d]
  /\ ok'[d] = ok[d] /\ id'[d] = id[d] /\ batch'[d] = batch[d]
  /\ offset'[d] = offset[d] /\ accepted'[d] = accepted[d]
  /\ iter'[d] = iter[d] /\ seen'[d] = seen[d]

LEMMA QuietKeeps ==
  ASSUME NEW d \in Ranges, Quiet(d), Local(d)
  PROVE  Local(d)'
<1>1. size(d)' = size(d) /\ \A i : Doc(d, i)' = Doc(d, i)
  BY DEF Quiet, size, Doc
<1>2. Stocked(d)'
  BY <1>1 DEF Quiet, Local, Stocked
<1>3. Reading(d)'
  BY <1>1 DEF Quiet, Local, Reading
<1>4. Ended(d)'
  BY DEF Quiet, Local, Ended
<1>5. Held(d)'
  BY DEF Quiet, Local, Held
<1>6. Fresh(d)'
  BY DEF Quiet, Local, Fresh
<1> QED BY <1>2, <1>3, <1>4, <1>5, <1>6 DEF Local

\* A range that gets an outcome, at the end of what it has.
LEMMA Restocked ==
  ASSUME TypeOK, NEW c \in Ranges, NEW o, Typed(c, o),
         Served(c, o) \/ Denied(c, o) \/ Missing(c, o) \/ Rejected(c, o),
         Local(c), offset'[c] = size(c),
         good' = o.good, ok'[c] = o.reply.ok, id'[c] = o.reply.id, batch'[c] = o.reply.docs,
         accepted'[c] = o.accepted, sent'[c] = o.sent, live'[c] = o.live,
         o.live /\ o.accepted /\ ~o.reply.ok => refused'[c], reaped' = reaped
  PROVE  /\ good' => good
         /\ Stocked(c)' /\ Ended(c)'
         /\ \A i \in 1 .. size(c) : Doc(c, i)' = Doc(c, i)
         /\ id'[c] # NoCursor /\ good' => id'[c] = c /\ (live'[c] \/ reaped'[c])
         /\ id'[c] = NoCursor /\ good' => ~live'[c] \/ refused'[c]
<1>1. /\ good' => good
      /\ id'[c] # NoCursor /\ good' => id'[c] = c /\ (live'[c] \/ reaped'[c])
      /\ id'[c] = NoCursor /\ good' => ~live'[c] \/ refused'[c]
  BY CursorAssumption DEF Typed, Served, Denied, Missing, Rejected
<1>2. Ended(c)'
  <2>1. CASE Served(c, o)
    <3>1. sent[c] \in Nat
      BY DEF TypeOK
    <3>2. Len(batch'[c]) = 0 => sent'[c] = sent[c]
      BY <2>1, <3>1 DEF Served
    <3> QED BY <2>1, <3>2 DEF Ended, Served
  <2>2. CASE Denied(c, o) \/ Missing(c, o) \/ Rejected(c, o)
    BY <2>2 DEF Ended, Denied, Missing, Rejected
  <2> QED BY <2>1, <2>2
<1>3. /\ sent[c] \in Nat /\ size(c) \in {sent[c], sent[c] + 1} /\ o.sent \in Nat
      /\ Len(o.reply.docs) \in Nat /\ size(c)' = size(c) + Len(o.reply.docs)
      /\ good => size(c) = sent[c]
  BY DEF TypeOK, Typed, Local, Stocked, size
<1>4. CASE Served(c, o)
  <2>1. size(c) = sent[c] /\ sent'[c] = sent[c] + Len(batch'[c]) /\ size(c)' = sent'[c]
    BY <1>3, <1>4 DEF Served
  <2>2. \A i \in 1 .. Len(batch'[c]) : batch'[c][i] = Doc(c, offset[c] + i)'
    BY <1>3, <1>4, <2>1 DEF Served, Doc
  <2>3. \A i \in 1 .. size(c) : Doc(c, i)' = Doc(c, i)
    BY <1>3, <2>1 DEF Doc
  <2>4. Stocked(c)'
    BY <1>3, <2>1, <2>2 DEF Stocked
  <2> QED BY <1>1, <1>2, <2>3, <2>4
<1>5. CASE Denied(c, o) \/ Missing(c, o)
  <2>1. Len(batch'[c]) = 0 /\ sent'[c] = sent[c] /\ size(c)' = size(c)
    BY <1>3, <1>5 DEF Denied, Missing
  <2>2. good' \/ accepted'[c] => good
    BY <1>5 DEF Denied, Missing
  <2>3. Stocked(c)'
    BY <1>3, <2>1, <2>2 DEF Stocked
  <2>4. \A i \in 1 .. size(c) : Doc(c, i)' = Doc(c, i)
    BY <2>1 DEF Doc
  <2> QED BY <1>1, <1>2, <2>3, <2>4
<1>6. CASE Rejected(c, o)
  <2>1. /\ sent'[c] = sent[c] /\ size(c) = sent[c] /\ size(c)' = sent[c] + 1
        /\ Len(batch'[c]) = 1 /\ batch'[c][1] = Bad
        /\ good' = FALSE /\ accepted'[c] = FALSE
    BY <1>3, <1>6 DEF Rejected
  <2>2. \A i \in 1 .. Len(batch'[c]) : batch'[c][i] = Doc(c, offset[c] + i)'
    BY <1>3, <2>1 DEF Doc
  <2>3. Stocked(c)'
    BY <2>1, <2>2 DEF Stocked
  <2>4. \A i \in 1 .. size(c) : Doc(c, i)' = Doc(c, i)
    BY <2>1 DEF Doc
  <2> QED BY <1>1, <1>2, <2>3, <2>4
<1> QED BY <1>4, <1>5, <1>6

LEMMA OpenStep ==
  ASSUME IInv, NEW c \in Ranges, NEW name \in {"none", "collection"}, Open(c, name)
  PROVE  IInv'
<1>1. PICK o \in Outcomes(c, TRUE), exceptions \in BOOLEAN :
        /\ Adopt(c, o)
        /\ copies' = [copies EXCEPT ![c] = IF exceptions /\ good /\ ~o.good THEN 0 ELSE 1]
  BY DEF Open
<1>2. /\ ~found[c] /\ found' = [found EXCEPT ![c] = TRUE]
      /\ colName' = [colName EXCEPT ![c] = name]
      /\ UNCHANGED <<offset, postSave, iter, seen>>
  BY DEF Open
<1>3. TypeOK /\ Local(c)
  BY DEF IInv
<1>4. Typed(c, o) /\ (Served(c, o) \/ Denied(c, o) \/ Missing(c, o) \/ Rejected(c, o))
  BY <1>3, OutcomeIs
<1>5. reaped' = reaped
  BY <1>1 DEF Adopt
<1>6. /\ good' = o.good /\ good' \in BOOLEAN
      /\ ok' \in [Ranges -> BOOLEAN] /\ id' \in [Ranges -> Ranges \cup {NoCursor}]
      /\ batch' \in [Ranges -> Seq(Int)] /\ accepted' \in [Ranges -> BOOLEAN]
      /\ sent' \in [Ranges -> Nat] /\ live' \in [Ranges -> BOOLEAN]
      /\ refused' \in [Ranges -> BOOLEAN]
      /\ \A d \in Ranges : d # c =>
           /\ ok'[d] = ok[d] /\ id'[d] = id[d] /\ batch'[d] = batch[d]
           /\ accepted'[d] = accepted[d] /\ sent'[d] = sent[d] /\ live'[d] = live[d]
           /\ refused'[d] = refused[d]
      /\ ok'[c] = o.reply.ok /\ id'[c] = o.reply.id /\ batch'[c] = o.reply.docs
      /\ accepted'[c] = o.accepted /\ sent'[c] = o.sent /\ live'[c] = o.live
      /\ o.live /\ o.accepted /\ ~o.reply.ok => refused'[c]
  BY <1>1, <1>3, <1>4, Adopted
<1>7. /\ copies' \in [Ranges -> Nat] /\ copies'[c] \in {0, 1}
      /\ copies'[c] = 0 => good' = FALSE
      /\ \A d \in Ranges : d # c => copies'[d] = copies[d]
  <2> DEFINE n == IF exceptions /\ good /\ ~o.good THEN 0 ELSE 1
  <2>1. n \in {0, 1} /\ n \in Nat /\ (n = 0 => good' = FALSE)
    <3>1. CASE exceptions /\ good /\ ~o.good
      <4>1. good' = FALSE
        BY <1>6, <3>1
      <4>2. n = 0 /\ 0 \in Nat
        BY <3>1
      <4> HIDE DEF n
      <4> QED BY <4>1, <4>2
    <3>2. CASE ~(exceptions /\ good /\ ~o.good)
      BY <3>2
    <3> QED BY <3>1, <3>2
  <2>2. copies' = [copies EXCEPT ![c] = n] /\ copies \in [Ranges -> Nat]
    BY <1>1, <1>3 DEF TypeOK
  <2> HIDE DEF n
  <2> QED BY <2>1, <2>2
<1>8. /\ found' \in [Ranges -> BOOLEAN] /\ found'[c]
      /\ \A d \in Ranges : d # c => found'[d] = found[d]
      /\ colName' \in [Ranges -> {"none", "collection"}]
  BY <1>2, <1>3 DEF TypeOK
<1>9. TypeOK'
  BY <1>2, <1>3, <1>5, <1>6, <1>7, <1>8 DEF TypeOK
<1>10. /\ copies[c] = 0 /\ sent[c] = 0 /\ offset[c] = 0 /\ iter[c].index = 0 /\ ~iter[c].input
       /\ ~accepted[c]
  BY <1>2, <1>3 DEF Local, Fresh
<1>11. size(c) = 0 /\ offset'[c] = size(c)
  <2>1. offset[c] = 0 /\ Len(batch[c]) = 0 /\ offset'[c] = 0
    BY <1>2, <1>3 DEF Local, Fresh
  <2>2. 0 + 0 = 0
    OBVIOUS
  <2>3. size(c) = 0
    BY <2>1, <2>2 DEF size
  <2> QED BY <2>1, <2>3
<1>12. /\ good' => good
       /\ Stocked(c)' /\ Ended(c)'
       /\ id'[c] # NoCursor /\ good' => id'[c] = c /\ (live'[c] \/ reaped'[c])
       /\ id'[c] = NoCursor /\ good' => ~live'[c] \/ refused'[c]
  BY <1>3, <1>4, <1>5, <1>6, <1>11, Restocked
<1>13. \A d \in Ranges : d # c => Quiet(d)
  BY <1>2, <1>5, <1>6, <1>7, <1>8, <1>12 DEF Quiet
<1>14. Reading(c)'
  <2>1. offset'[c] = 0 /\ size(c)' \in Nat
    <3>1. Len(batch'[c]) \in Nat
      BY <1>6, LenProperties
    <3>2. offset'[c] = 0
      BY <1>2, <1>10
    <3>3. \A n \in Nat : 0 + n \in Nat
      OBVIOUS
    <3>4. size(c)' \in Nat
      BY <3>1, <3>2, <3>3 DEF size
    <3> QED BY <3>2, <3>4
  <2>2. Len(seen'[c]) = 0 /\ iter'[c].index = 0 /\ ~iter'[c].input
    BY <1>2, <1>3, <1>10 DEF Local, Reading
  <2>3. 0 <= size(c)' /\ \A i \in 1 .. Len(seen'[c]) : FALSE
    <3>1. \A n \in Nat : 0 <= n
      OBVIOUS
    <3>2. \A i \in 1 .. 0 : FALSE
      OBVIOUS
    <3> QED BY <2>1, <2>2, <3>1, <3>2
  <2>4. ~(iter'[c].index > 0)
    BY <2>2
  <2> QED BY <2>2, <2>3, <2>4 DEF Reading
<1>15. Held(c)'
  BY <1>7, <1>12 DEF Held
<1>16. Fresh(c)'
  BY <1>8 DEF Fresh
<1> QED BY <1>3, <1>9, <1>12, <1>13, <1>14, <1>15, <1>16, QuietKeeps DEF IInv, Local

LEMMA CopyStep ==
  ASSUME IInv, NEW c \in Ranges, CopyRange(c)
  PROVE  IInv'
<1>1. /\ copies[c] > 0 /\ copies[c] \in Nat /\ copies' = [copies EXCEPT ![c] = @ + 1]
      /\ UNCHANGED <<good, server, found, data, iter, seen>>
  <2>1. copies[c] \in Nat
    BY DEF IInv, TypeOK
  <2>2. copies[c] \in 1 .. MaxCopies - 1 /\ MaxCopies \in Nat
    BY CursorAssumption DEF CopyRange
  <2> QED BY <2>1, <2>2 DEF CopyRange
<1>2. /\ copies' \in [Ranges -> Nat] /\ copies'[c] > 0
      /\ \A d \in Ranges : d # c => copies'[d] = copies[d]
  <2>1. \A n \in Nat : n + 1 \in Nat /\ n + 1 > 0
    OBVIOUS
  <2>2. copies \in [Ranges -> Nat]
    BY DEF IInv, TypeOK
  <2>3. copies[c] + 1 \in Nat /\ copies[c] + 1 > 0
    BY <1>1, <2>1
  <2> QED BY <1>1, <2>2, <2>3
<1>3. TypeOK'
  BY <1>1, <1>2 DEF IInv, TypeOK, server, data
<1>4. \A d \in Ranges : d # c => Quiet(d)
  BY <1>1, <1>2 DEF Quiet, server, data
<1>5. size(c)' = size(c) /\ \A i : Doc(c, i)' = Doc(c, i)
  BY <1>1 DEF size, Doc, server, data
<1>6. Stocked(c)'
  BY <1>1, <1>5 DEF IInv, Local, Stocked, server, data
<1>7. Reading(c)'
  BY <1>1, <1>2, <1>5 DEF IInv, Local, Reading, server, data
<1>8. Ended(c)' /\ Held(c)'
  BY <1>1, <1>2 DEF IInv, Local, Ended, Held, server, data
<1>9. Fresh(c)'
  <2>1. copies[c] # 0
    BY <1>1
  <2> QED BY <1>1, <2>1 DEF IInv, Local, Fresh, server, data
<1> QED BY <1>3, <1>4, <1>6, <1>7, <1>8, <1>9, QuietKeeps DEF IInv, Local

LEMMA DropStep ==
  ASSUME IInv, NEW c \in Ranges, Drop(c)
  PROVE  IInv'
<1>1. /\ copies[c] > 0 /\ copies[c] \in Nat /\ copies' = [copies EXCEPT ![c] = @ - 1]
      /\ iter' = [iter EXCEPT ![c].input = @ /\ copies[c] > 1]
      /\ UNCHANGED <<sent, reaped, found, data, seen>>
  BY DEF Drop, killCursor, IInv, TypeOK
<1>2. /\ copies' \in [Ranges -> Nat] /\ copies'[c] = copies[c] - 1
      /\ \A d \in Ranges : d # c => copies'[d] = copies[d]
  <2>1. \A n \in Nat : n > 0 => n - 1 \in Nat
    OBVIOUS
  <2>2. copies \in [Ranges -> Nat]
    BY DEF IInv, TypeOK
  <2>3. copies[c] - 1 \in Nat
    BY <1>1, <2>1
  <2> QED BY <1>1, <2>2, <2>3
<1>3. /\ iter' \in [Ranges -> [index : Nat, input : BOOLEAN]]
      /\ iter'[c].index = iter[c].index
      /\ copies'[c] > 0 => iter'[c].input = iter[c].input
      /\ iter'[c].input => iter[c].input
      /\ \A d \in Ranges : d # c => iter'[d] = iter[d]
  <2> DEFINE x == iter[c].input /\ copies[c] > 1
  <2>1. iter[c].input \in BOOLEAN /\ iter[c].index \in Nat
    BY DEF IInv, TypeOK
  <2>2. x \in BOOLEAN /\ (x => iter[c].input) /\ (copies'[c] > 0 => x = iter[c].input)
    BY <1>1, <1>2, <2>1
  <2>3. iter' = [iter EXCEPT ![c].input = x]
    BY <1>1
  <2> HIDE DEF x
  <2>4. iter'[c] = [index |-> iter[c].index, input |-> x]
        /\ \A d \in Ranges : d # c => iter'[d] = iter[d]
    BY <2>3 DEF IInv, TypeOK
  <2>5. iter' \in [Ranges -> [index : Nat, input : BOOLEAN]]
    BY <2>1, <2>2, <2>3 DEF IInv, TypeOK
  <2> QED BY <2>2, <2>4, <2>5
<1>4. /\ live' \in [Ranges -> BOOLEAN] /\ refused' \in [Ranges -> BOOLEAN] /\ good' \in BOOLEAN
      /\ good' => good
      /\ \A d \in Ranges : d # c => live'[d] = live[d] /\ refused'[d] = refused[d]
      /\ copies'[c] > 0 => live'[c] = live[c] /\ refused'[c] = refused[c]
      /\ copies'[c] = 0 /\ good' => ~live'[c] \/ refused'[c]
  <2>1. CASE copies[c] = 1 /\ id[c] # NoCursor /\ good
    <3>1. \/ live' = [live EXCEPT ![c] = FALSE] /\ UNCHANGED <<good, refused>>
          \/ refused' = [refused EXCEPT ![c] = TRUE] /\ UNCHANGED <<good, live>>
          \/ good' = FALSE /\ UNCHANGED <<live, refused>>
      BY <2>1 DEF Drop, killCursor
    <3>2. ~(copies'[c] > 0)
      BY <1>2, <2>1
    <3> QED BY <2>1, <3>1, <3>2 DEF IInv, TypeOK
  <2>2. CASE ~(copies[c] = 1 /\ id[c] # NoCursor /\ good)
    <3>1. UNCHANGED <<good, live, refused>>
      BY <2>2 DEF Drop, killCursor
    <3>2. copies'[c] = 0 => copies[c] = 1
      BY <1>1, <1>2
    <3>3. copies'[c] = 0 /\ good' => ~live[c] \/ refused[c]
      BY <1>1, <2>2, <3>1, <3>2 DEF IInv, Local, Held
    <3> QED BY <3>1, <3>3 DEF IInv, TypeOK
  <2> QED BY <2>1, <2>2
<1>5. TypeOK'
  BY <1>1, <1>2, <1>3, <1>4 DEF IInv, TypeOK, data
<1>6. \A d \in Ranges : d # c => Quiet(d)
  BY <1>1, <1>2, <1>3, <1>4 DEF Quiet, data
<1>7. size(c)' = size(c) /\ \A i : Doc(c, i)' = Doc(c, i)
  BY <1>1 DEF size, Doc, data
<1>8. Stocked(c)'
  BY <1>1, <1>4, <1>7 DEF IInv, Local, Stocked, data
<1>9. Reading(c)'
  BY <1>1, <1>3, <1>7 DEF IInv, Local, Reading, data
<1>10. Ended(c)'
  BY <1>1 DEF IInv, Local, Ended, data
<1>11. Held(c)'
  BY <1>1, <1>4 DEF IInv, Local, Held, data
<1>12. Fresh(c)'
  <2>1. copies[c] # 0
    BY <1>1
  <2> QED BY <1>1, <2>1 DEF IInv, Local, Fresh
<1> QED BY <1>5, <1>6, <1>8, <1>9, <1>10, <1>11, <1>12, QuietKeeps DEF IInv, Local

LEMMA BeginStep ==
  ASSUME IInv, NEW c \in Ranges, Begin(c)
  PROVE  IInv'
<1>1. /\ copies[c] > 0 /\ offset[c] = 0 /\ iter[c].index = 0 /\ ~iter[c].input
      /\ ok[c] /\ size(c) # 0
      /\ UNCHANGED <<good, server, copies, found, data, seen>>
  BY DEF Begin
<1>2. iter' = [iter EXCEPT ![c] = [index |-> 0, input |-> TRUE]]
  BY DEF Begin
<1>3. /\ iter' \in [Ranges -> [index : Nat, input : BOOLEAN]]
      /\ iter'[c].index = 0 /\ iter'[c].input
      /\ \A d \in Ranges : d # c => iter'[d] = iter[d]
  BY <1>2 DEF IInv, TypeOK
<1>4. TypeOK'
  BY <1>1, <1>3 DEF IInv, TypeOK, server, data
<1>5. \A d \in Ranges : d # c => Quiet(d)
  BY <1>1, <1>3 DEF Quiet, server, data
<1>6. size(c)' = size(c) /\ \A i : Doc(c, i)' = Doc(c, i)
  BY <1>1 DEF size, Doc, server, data
<1>7. Stocked(c)' /\ Ended(c)' /\ Held(c)'
  BY <1>1, <1>6 DEF IInv, Local, Stocked, Ended, Held, server, data
<1>8. 0 < size(c)
  <2>1. offset[c] \in Nat /\ Len(batch[c]) \in Nat
    BY LenProperties DEF IInv, TypeOK
  <2> QED BY <1>1, <2>1 DEF size
<1>9. Reading(c)'
  BY <1>1, <1>3, <1>6, <1>8 DEF IInv, Local, Reading, data
<1>10. Fresh(c)'
  <2>1. copies[c] # 0
    BY <1>1
  <2> QED BY <1>1, <2>1 DEF IInv, Local, Fresh
<1> QED BY <1>4, <1>5, <1>7, <1>9, <1>10, QuietKeeps DEF IInv, Local

LEMMA ReapStep ==
  ASSUME IInv, NEW c \in Ranges, Reap(c)
  PROVE  IInv'
<1>1. /\ live[c]
      /\ live' = [live EXCEPT ![c] = FALSE] /\ reaped' = [reaped EXCEPT ![c] = TRUE]
      /\ UNCHANGED <<good, sent, refused, copies, found, data, iter, seen>>
  BY DEF Reap
<1>2. /\ live' \in [Ranges -> BOOLEAN] /\ reaped' \in [Ranges -> BOOLEAN]
      /\ ~live'[c] /\ reaped'[c]
      /\ \A d \in Ranges : d # c => live'[d] = live[d] /\ reaped'[d] = reaped[d]
  BY <1>1 DEF IInv, TypeOK
<1>3. TypeOK'
  BY <1>1, <1>2 DEF IInv, TypeOK, data
<1>4. \A d \in Ranges : d # c => Quiet(d)
  BY <1>1, <1>2 DEF Quiet, data
<1>5. size(c)' = size(c) /\ \A i : Doc(c, i)' = Doc(c, i)
  BY <1>1 DEF size, Doc, data
<1>6. Stocked(c)' /\ Ended(c)' /\ Reading(c)'
  BY <1>1, <1>5 DEF IInv, Local, Stocked, Ended, Reading, data
<1>7. Held(c)'
  BY <1>1, <1>2 DEF IInv, Local, Held, data
<1>8. Fresh(c)'
  BY <1>1, <1>2 DEF IInv, Local, Fresh, data
<1> QED BY <1>3, <1>4, <1>6, <1>7, <1>8, QuietKeeps DEF IInv, Local

\* The document that a round of a loop hands to the user is the next one,
\* whether it is read before or after the batch is replaced.
LEMMA StepReads ==
  ASSUME IInv, NEW c \in Ranges, Step(c)
  PROVE  seen' = [seen EXCEPT ![c] = Append(@, Doc(c, iter[c].index + 1))]
<1> DEFINE index == iter[c].index
           n     == Len(batch[c])
<1>1. /\ index \in Nat /\ offset[c] \in Nat /\ n \in Nat
      /\ offset[c] <= index /\ index < offset[c] + n
  <2>1. index \in Nat /\ offset[c] \in Nat /\ batch[c] \in Seq(Int)
    BY DEF IInv, TypeOK
  <2>2. offset[c] <= index /\ index < offset[c] + n
    BY DEF Step, IInv, Local, Reading, size
  <2> QED BY <2>1, <2>2, LenProperties
<1>2. batch[c][index - offset[c] + 1] = Doc(c, index + 1)
  <2>1. /\ index - offset[c] + 1 \in 1 .. n
        /\ offset[c] + (index - offset[c] + 1) = index + 1
    BY <1>1
  <2> QED BY <2>1 DEF IInv, Local, Stocked
<1>3. get(offset[c], batch[c], postSave[c], index) = Doc(c, index + 1)
  <2>1. index - offset[c] # -1 /\ index - offset[c] \in 0 .. n - 1
    BY <1>1
  <2> QED BY <1>2, <2>1 DEF get
<1>4. CASE size(c) = index + 1
  <2>1. /\ offset' = [offset EXCEPT ![c] = size(c)]
        /\ postSave' = [postSave EXCEPT ![c] = get(0, batch[c], OutOfBounds, n - 1)]
    BY <1>4 DEF Step, checkAvailable
  <2>2. offset'[c] = index + 1 /\ postSave'[c] = get(0, batch[c], OutOfBounds, n - 1)
    BY <1>4, <2>1 DEF IInv, TypeOK
  <2>3. n - 1 = index - offset[c] /\ n - 1 - 0 \in 0 .. n - 1 /\ n - 1 - 0 # -1
        /\ n - 1 - 0 + 1 = index - offset[c] + 1
    BY <1>1, <1>4 DEF size
  <2>4. get(0, batch[c], OutOfBounds, n - 1) = Doc(c, index + 1)
    BY <1>2, <2>3 DEF get
  <2>5. index - offset'[c] = -1
    BY <1>1, <2>2
  <2>6. get(offset'[c], batch'[c], postSave'[c], index) = Doc(c, index + 1)
    BY <2>2, <2>4, <2>5 DEF get
  <2> QED BY <1>3, <2>6 DEF Step
<1>5. CASE size(c) # index + 1
  <2>1. UNCHANGED <<offset, batch, postSave>>
    BY <1>5 DEF Step, checkAvailable, data
  <2>2. get(offset'[c], batch'[c], postSave'[c], index) = Doc(c, index + 1)
    BY <1>3, <2>1
  <2> QED BY <1>3, <2>2 DEF Step
<1> QED BY <1>4, <1>5

LEMMA SeenGrows ==
  ASSUME IInv, NEW c \in Ranges, Step(c)
  PROVE  /\ seen' \in [Ranges -> Seq(Int)]
         /\ \A d \in Ranges : d # c => seen'[d] = seen[d]
         /\ Len(seen'[c]) = iter[c].index + 1 /\ iter[c].index \in Nat
         /\ \A i \in 1 .. iter[c].index + 1 : seen'[c][i] = Doc(c, i)
<1> DEFINE x == Doc(c, iter[c].index + 1)
<1>1. seen' = [seen EXCEPT ![c] = Append(@, x)]
  BY StepReads
<1>2. seen \in [Ranges -> Seq(Int)] /\ iter[c].index \in Nat /\ x \in Int
  BY DEF IInv, TypeOK, Doc, Bad
<1>3. /\ Len(seen[c]) = iter[c].index
      /\ \A i \in 1 .. Len(seen[c]) : seen[c][i] = Doc(c, i)
  BY DEF IInv, Local, Reading
<1> DEFINE s == Append(seen[c], x)
<1>4. /\ s \in Seq(Int) /\ Len(s) = Len(seen[c]) + 1
      /\ \A i \in 1 .. Len(seen[c]) : s[i] = seen[c][i]
      /\ s[Len(seen[c]) + 1] = x
  BY <1>2, AppendProperties
<1>5. seen' = [seen EXCEPT ![c] = s]
  BY <1>1
<1> HIDE DEF s
<1>6. /\ seen' \in [Ranges -> Seq(Int)] /\ seen'[c] = s
      /\ \A d \in Ranges : d # c => seen'[d] = seen[d]
  BY <1>2, <1>4, <1>5
<1>7. \A i \in 1 .. iter[c].index + 1 : i \in 1 .. iter[c].index \/ i = iter[c].index + 1
  BY <1>2
<1>8. \A i \in 1 .. iter[c].index + 1 : s[i] = Doc(c, i)
  BY <1>3, <1>4, <1>7
<1> QED BY <1>2, <1>3, <1>4, <1>6, <1>8

\* The iterator after a round of a loop.
LEMMA Advanced ==
  ASSUME IInv, NEW c \in Ranges, Step(c)
  PROVE  /\ iter' \in [Ranges -> [index : Nat, input : BOOLEAN]]
         /\ iter'[c].index = iter[c].index + 1
         /\ iter'[c].input <=> iter[c].index + 1 # size(c)'
         /\ \A d \in Ranges : d # c => iter'[d] = iter[d]
<1> DEFINE more == iter[c].index + 1 # offset'[c] + Len(batch'[c])
           new  == [index |-> iter[c].index + 1, input |-> more]
<1>1. iter[c].index \in Nat /\ iter \in [Ranges -> [index : Nat, input : BOOLEAN]]
  BY DEF IInv, TypeOK
<1>2. iter' = [iter EXCEPT ![c] = new]
  BY DEF Step
<1>3. new \in [index : Nat, input : BOOLEAN] /\ new.index = iter[c].index + 1
      /\ (new.input <=> iter[c].index + 1 # size(c)')
  <2>1. more \in BOOLEAN /\ (more <=> iter[c].index + 1 # size(c)')
    BY DEF size
  <2>2. iter[c].index + 1 \in Nat
    BY <1>1
  <2> HIDE DEF more
  <2> QED BY <2>1, <2>2
<1> HIDE DEF new
<1> QED BY <1>1, <1>2, <1>3

\* A round in the middle of a batch.
LEMMA StepWithin ==
  ASSUME IInv, NEW c \in Ranges, Step(c), size(c) # iter[c].index + 1
  PROVE  IInv'
<1>1. /\ copies[c] > 0 /\ iter[c].input
      /\ UNCHANGED <<good, server, data, copies, found>>
  BY DEF Step, checkAvailable
<1>2. /\ seen' \in [Ranges -> Seq(Int)]
      /\ \A d \in Ranges : d # c => seen'[d] = seen[d]
      /\ Len(seen'[c]) = iter[c].index + 1 /\ iter[c].index \in Nat
      /\ \A i \in 1 .. iter[c].index + 1 : seen'[c][i] = Doc(c, i)
  BY SeenGrows
<1>3. /\ iter' \in [Ranges -> [index : Nat, input : BOOLEAN]]
      /\ iter'[c].index = iter[c].index + 1
      /\ iter'[c].input <=> iter[c].index + 1 # size(c)'
      /\ \A d \in Ranges : d # c => iter'[d] = iter[d]
  BY Advanced
<1>4. TypeOK'
  BY <1>1, <1>2, <1>3 DEF IInv, TypeOK, server, data
<1>5. \A d \in Ranges : d # c => Quiet(d)
  BY <1>1, <1>2, <1>3 DEF Quiet, server, data
<1>6. size(c)' = size(c) /\ \A i : Doc(c, i)' = Doc(c, i)
  BY <1>1 DEF size, Doc, server, data
<1>7. Stocked(c)' /\ Ended(c)' /\ Held(c)'
  BY <1>1, <1>6 DEF IInv, Local, Stocked, Ended, Held, server, data
<1>8. /\ offset[c] <= iter[c].index + 1 /\ iter[c].index + 1 < size(c)
  <2>1. offset[c] \in Nat /\ Len(batch[c]) \in Nat
    BY LenProperties DEF IInv, TypeOK
  <2>2. offset[c] <= iter[c].index /\ iter[c].index < size(c)
    BY <1>1 DEF IInv, Local, Reading
  <2>3. size(c) \in Nat
    BY <2>1 DEF size
  <2> QED BY <1>2, <2>1, <2>2, <2>3
<1>9. Reading(c)'
  <2>1. iter'[c].input /\ iter'[c].index <= size(c)
    <3>1. offset[c] \in Nat /\ Len(batch[c]) \in Nat
      BY LenProperties DEF IInv, TypeOK
    <3>2. size(c) \in Nat
      BY <3>1 DEF size
    <3> QED BY <1>2, <1>3, <1>6, <1>8, <3>2
  <2> QED BY <1>1, <1>2, <1>3, <1>6, <1>8, <2>1 DEF Reading, data
<1>10. Fresh(c)'
  <2>1. copies[c] # 0
    BY <1>1
  <2> QED BY <1>1, <2>1 DEF IInv, Local, Fresh
<1> QED BY <1>4, <1>5, <1>7, <1>9, <1>10, QuietKeeps DEF IInv, Local

\* A round that uses the last document of a batch and asks for more.
LEMMA StepMore ==
  ASSUME IInv, NEW c \in Ranges, Step(c), size(c) = iter[c].index + 1
  PROVE  IInv'
<1>1. PICK o \in Outcomes(c, FALSE) : Adopt(c, o)
  BY DEF Step, checkAvailable
<1>2. /\ copies[c] > 0 /\ iter[c].input
      /\ offset' = [offset EXCEPT ![c] = size(c)]
      /\ postSave' = [postSave EXCEPT ![c] = get(0, batch[c], OutOfBounds, Len(batch[c]) - 1)]
      /\ UNCHANGED <<copies, found, colName>>
  BY DEF Step, checkAvailable
<1>3. TypeOK /\ Local(c)
  BY DEF IInv
<1>4. Typed(c, o) /\ (Served(c, o) \/ Denied(c, o) \/ Missing(c, o) \/ Rejected(c, o))
  BY <1>3, OutcomeIs
<1>5. reaped' = reaped
  BY <1>1 DEF Adopt
<1>6. /\ good' = o.good /\ good' \in BOOLEAN
      /\ ok' \in [Ranges -> BOOLEAN] /\ id' \in [Ranges -> Ranges \cup {NoCursor}]
      /\ batch' \in [Ranges -> Seq(Int)] /\ accepted' \in [Ranges -> BOOLEAN]
      /\ sent' \in [Ranges -> Nat] /\ live' \in [Ranges -> BOOLEAN]
      /\ refused' \in [Ranges -> BOOLEAN]
      /\ \A d \in Ranges : d # c =>
           /\ ok'[d] = ok[d] /\ id'[d] = id[d] /\ batch'[d] = batch[d]
           /\ accepted'[d] = accepted[d] /\ sent'[d] = sent[d] /\ live'[d] = live[d]
           /\ refused'[d] = refused[d]
      /\ ok'[c] = o.reply.ok /\ id'[c] = o.reply.id /\ batch'[c] = o.reply.docs
      /\ accepted'[c] = o.accepted /\ sent'[c] = o.sent /\ live'[c] = o.live
      /\ o.live /\ o.accepted /\ ~o.reply.ok => refused'[c]
  BY <1>1, <1>3, <1>4, Adopted
<1>7. /\ seen' \in [Ranges -> Seq(Int)]
      /\ \A d \in Ranges : d # c => seen'[d] = seen[d]
      /\ Len(seen'[c]) = iter[c].index + 1 /\ iter[c].index \in Nat
      /\ \A i \in 1 .. iter[c].index + 1 : seen'[c][i] = Doc(c, i)
  BY SeenGrows
<1>8. /\ iter' \in [Ranges -> [index : Nat, input : BOOLEAN]]
      /\ iter'[c].index = iter[c].index + 1
      /\ iter'[c].input <=> iter[c].index + 1 # size(c)'
      /\ \A d \in Ranges : d # c => iter'[d] = iter[d]
  BY Advanced
<1>9. /\ offset' \in [Ranges -> Nat] /\ offset'[c] = size(c) /\ size(c) \in Nat
      /\ \A d \in Ranges : d # c => offset'[d] = offset[d]
  <2>1. size(c) \in Nat /\ offset \in [Ranges -> Nat]
    BY <1>7 DEF IInv, TypeOK
  <2> QED BY <1>2, <2>1
<1>10. postSave' \in [Ranges -> Int]
  <2> DEFINE p == get(0, batch[c], OutOfBounds, Len(batch[c]) - 1)
  <2>1. p \in Int
    <3>1. batch[c] \in Seq(Int) /\ Len(batch[c]) \in Nat
      BY LenProperties DEF IInv, TypeOK
    <3>2. Len(batch[c]) - 1 - 0 \in 0 .. Len(batch[c]) - 1 =>
            Len(batch[c]) - 1 - 0 + 1 \in 1 .. Len(batch[c])
      BY <3>1
    <3>3. OutOfBounds \in Int
      BY DEF OutOfBounds
    <3> QED BY <3>1, <3>2, <3>3, ElementOfSeq DEF get
  <2> HIDE DEF p
  <2> QED BY <1>2, <2>1 DEF IInv, TypeOK, p
<1>11. TypeOK'
  <2>1. colName' = colName /\ copies' = copies /\ found' = found
    BY <1>2
  <2> QED BY <1>3, <1>5, <1>6, <1>7, <1>8, <1>9, <1>10, <2>1 DEF TypeOK
<1>12. /\ good' => good
       /\ Stocked(c)' /\ Ended(c)'
       /\ \A i \in 1 .. size(c) : Doc(c, i)' = Doc(c, i)
       /\ id'[c] # NoCursor /\ good' => id'[c] = c /\ (live'[c] \/ reaped'[c])
       /\ id'[c] = NoCursor /\ good' => ~live'[c] \/ refused'[c]
  BY <1>3, <1>4, <1>5, <1>6, <1>9, Restocked
<1>13. \A d \in Ranges : d # c => Quiet(d)
  BY <1>2, <1>5, <1>6, <1>7, <1>8, <1>9, <1>12 DEF Quiet
<1>14. /\ size(c)' = size(c) + Len(batch'[c]) /\ Len(batch'[c]) \in Nat
  <2>1. Len(batch'[c]) \in Nat
    BY <1>6, LenProperties
  <2> QED BY <1>9, <2>1 DEF size
<1>15. Reading(c)'
  <2>1. iter'[c].index = size(c) /\ offset'[c] = size(c)
    BY <1>8, <1>9
  <2>2. size(c) <= size(c)' /\ (size(c) # size(c)' => size(c) < size(c)')
        /\ (size(c) = size(c)' => Len(batch'[c]) = 0)
    BY <1>9, <1>14
  <2>3. Len(seen'[c]) = iter'[c].index /\ iter'[c].index <= size(c)'
    BY <1>7, <1>8, <2>1, <2>2
  <2>4. \A i \in 1 .. Len(seen'[c]) : seen'[c][i] = Doc(c, i)'
    BY <1>7, <1>12
  <2>5. iter'[c].input => offset'[c] <= iter'[c].index /\ iter'[c].index < size(c)'
    BY <1>8, <1>9, <2>1, <2>2
  <2>6. ~iter'[c].input => iter'[c].index = size(c)' /\ Len(batch'[c]) = 0
    BY <1>8, <2>1, <2>2
  <2> QED BY <2>3, <2>4, <2>5, <2>6 DEF Reading
<1>16. Held(c)'
  <2>1. copies'[c] > 0 /\ copies'[c] # 0
    BY <1>2
  <2> QED BY <1>12, <2>1 DEF Held
<1>17. Fresh(c)'
  <2>1. copies[c] # 0
    BY <1>2
  <2>2. found[c] /\ found' = found
    BY <1>2, <1>3, <2>1 DEF Local, Fresh
  <2> QED BY <2>2 DEF Fresh
<1> QED BY <1>3, <1>11, <1>12, <1>13, <1>15, <1>16, <1>17, QuietKeeps DEF IInv, Local

-----------------------------------------------------------------------------
LEMMA Initially == Init => IInv
<1> SUFFICES ASSUME Init PROVE IInv
  OBVIOUS
<1>1. TypeOK
  <2>1. <<>> \in Seq(Int) /\ OutOfBounds \in Int
    BY EmptySeq DEF OutOfBounds
  <2> QED BY <2>1 DEF Init, TypeOK
<1>2. ASSUME NEW c \in Ranges
      PROVE  /\ good = TRUE /\ sent[c] = 0 /\ ~live[c] /\ copies[c] = 0 /\ ~found[c]
             /\ batch[c] = <<>> /\ offset[c] = 0 /\ ~accepted[c] /\ seen[c] = <<>>
             /\ iter[c].index = 0 /\ ~iter[c].input
  BY <1>2 DEF Init
<1>3. Len(<<>>) = 0 /\ 0 + 0 = 0 /\ 0 <= 0 /\ ~(0 > 0) /\ \A i \in 1 .. 0 : FALSE
  OBVIOUS
<1>4. ASSUME NEW c \in Ranges
      PROVE  Local(c)
  <2>1. size(c) = 0 /\ Len(batch[c]) = 0 /\ Len(seen[c]) = 0
    BY <1>2, <1>3 DEF size
  <2>2. Stocked(c)
    BY <1>2, <1>3, <2>1 DEF Stocked
  <2>3. Reading(c)
    BY <1>2, <1>3, <2>1 DEF Reading
  <2>4. Ended(c) /\ Held(c) /\ Fresh(c)
    BY <1>2, <1>3, <2>1 DEF Ended, Held, Fresh
  <2> QED BY <2>2, <2>3, <2>4 DEF Local
<1> QED BY <1>1, <1>4 DEF IInv

LEMMA NextStep == IInv /\ [Next]_vars => IInv'
<1> SUFFICES ASSUME IInv, [Next]_vars PROVE IInv'
  OBVIOUS
<1>1. ASSUME NEW c \in Ranges, Find(c) PROVE IInv'
  BY <1>1, OpenStep DEF Find
<1>2. ASSUME NEW c \in Ranges, ListCollections(c) PROVE IInv'
  BY <1>2, OpenStep DEF ListCollections
<1>3. ASSUME NEW c \in Ranges, CopyRange(c) PROVE IInv'
  BY <1>3, CopyStep
<1>4. ASSUME NEW c \in Ranges, Drop(c) PROVE IInv'
  BY <1>4, DropStep
<1>5. ASSUME NEW c \in Ranges, Begin(c) PROVE IInv'
  BY <1>5, BeginStep
<1>6. ASSUME NEW c \in Ranges, Step(c) PROVE IInv'
  BY <1>6, StepWithin, StepMore
<1>7. ASSUME NEW c \in Ranges, Reap(c) PROVE IInv'
  BY <1>7, ReapStep
<1>8. CASE UNCHANGED vars
  <2>1. \A d \in Ranges : Quiet(d)
    BY <1>8 DEF vars, server, data, Quiet
  <2>2. TypeOK'
    BY <1>8 DEF vars, server, data, IInv, TypeOK
  <2> QED BY <2>1, <2>2, QuietKeeps DEF IInv
<1> QED BY <1>1, <1>2, <1>3, <1>4, <1>5, <1>6, <1>7, <1>8 DEF Next, Done

-----------------------------------------------------------------------------
(* The theorems. *)

\* Every variable keeps its type; a cursor id is the range's own or none.
THEOREM TypeCorrect == Spec => []TypeOK
<1>1. IInv => TypeOK
  BY DEF IInv
<1> QED BY Initially, NextStep, <1>1, PTL DEF Spec

\* A loop sees the documents in order, each once and none skipped where
\* batches meet, with either form of increment, for every result and every
\* division of it into batches; then perhaps those of a rejected reply.
THEOREM InOrder == Spec => []SeenInOrder
<1>1. ASSUME IInv, NEW c \in Ranges
      PROVE  \E k \in 0 .. Len(seen[c]) :
               seen[c] = [i \in 1 .. Len(seen[c]) |-> IF i <= k THEN i ELSE Bad]
  <2> DEFINE n == Len(seen[c])
             k == IF sent[c] <= n THEN sent[c] ELSE n
  <2>1. seen[c] \in Seq(Int) /\ n \in Nat /\ sent[c] \in Nat
    BY <1>1, LenProperties DEF IInv, TypeOK
  <2>2. k \in 0 .. n /\ \A i \in 1 .. n : i <= sent[c] <=> i <= k
    BY <2>1
  <2>3. \A i \in 1 .. n : seen[c][i] = Doc(c, i)
    BY <1>1 DEF IInv, Local, Reading
  <2>4. seen[c] \in [1 .. n -> Int]
    BY <2>1, LenProperties
  <2> HIDE DEF n, k
  <2>5. seen[c] = [i \in 1 .. n |-> seen[c][i]]
    BY <2>4
  <2>6. \A i \in 1 .. n : seen[c][i] = IF i <= k THEN i ELSE Bad
    BY <2>2, <2>3 DEF Doc
  <2>7. seen[c] = [i \in 1 .. n |-> IF i <= k THEN i ELSE Bad]
    BY <2>5, <2>6
  <2> QED BY <2>2, <2>7 DEF n
<1>2. IInv => SeenInOrder
  BY <1>1 DEF SeenInOrder
<1> QED BY Initially, NextStep, <1>2, PTL DEF Spec

\* A loop that ended on a range which reports success, from a reply that was
\* accepted, saw the whole result, unless the server sends an empty batch of a
\* cursor that it keeps open.
THEOREM CompleteWhenOk == ~EmptyBatches => (Spec => []OkEndIsComplete)
<1> SUFFICES ASSUME ~EmptyBatches PROVE Spec => []OkEndIsComplete
  OBVIOUS
<1>1. ASSUME IInv, NEW c \in Ranges, copies[c] > 0, ok[c], accepted[c], ~iter[c].input,
             iter[c].index > 0
      PROVE  Len(seen[c]) = Docs[c]
  <2>1. Len(seen[c]) = size(c) /\ Len(batch[c]) = 0
    BY <1>1 DEF IInv, Local, Reading
  <2>2. size(c) = sent[c]
    BY <1>1 DEF IInv, Local, Stocked
  <2>3. sent[c] = Docs[c]
    BY <1>1, <2>1 DEF IInv, Local, Ended
  <2> QED BY <2>1, <2>2, <2>3
<1>2. IInv => OkEndIsComplete
  BY <1>1 DEF OkEndIsComplete
<1> QED BY Initially, NextStep, <1>2, PTL DEF Spec

\* A range that is gone leaves no cursor open on a connection that works, but
\* one whose getMore or killCursors the server refused: however many copies it
\* had and wherever the reading stopped.
THEOREM NoneLeft == Spec => []NoCursorLeft
<1>1. IInv => NoCursorLeft
  BY DEF IInv, Local, Held, NoCursorLeft
<1> QED BY Initially, NextStep, <1>1, PTL DEF Spec

\* A range in use that holds a cursor's id holds its own, and nobody but the
\* server has closed that cursor: neither a copy of the range that was
\* destroyed nor any other range.
THEOREM HoldsItsOwn == Spec => []IdIsLive
<1>1. IInv => IdIsLive
  BY DEF IInv, Local, Held, IdIsLive
<1> QED BY Initially, NextStep, <1>1, PTL DEF Spec

===============================================================================
