-------------------------------- MODULE Cursor --------------------------------
(***************************************************************************)
(* Collection::find(), DB::listCollections() and the range they return:    *)
(* CursorData, its iterator, the getMore and killCursors commands it sends *)
(* behind the user's back, and the cursors they act on at the server.      *)
(* Several ranges share one connection.  A command is one step: the        *)
(* connection is used by one thread, which blocks until the reply is read  *)
(* or has failed.                                                          *)
(*                                                                         *)
(* A document of range c is its position 1, 2, ... in c's result.          *)
(*                                                                         *)
(* An operator whose comment begins with "Mistaken" is a variant of the    *)
(* one after it that no behaviour uses: a plausible mistake, which a       *)
(* property has to notice when it takes the place of the original.         *)
(***************************************************************************)
EXTENDS Integers, Sequences

CONSTANTS
  Ranges,       \* the ranges, also the identities of their server cursors
  NoCursor,     \* the cursor id 0
  Docs,         \* number of documents of each range's result
  MaxBatch,     \* most documents the server puts in a batch
  MaxCopies,    \* bound: copies of a range alive at once
  Listings,     \* is listCollections() called?
  EmptyBatches, \* may the server send an empty batch of a live cursor?
  Faults        \* what goes wrong: a subset of AllFaults

\* "error": the server refuses a command.  "reap": it times a cursor out.
\* "lost": the connection dies before the reply.  "rejected": the reply is
\* parsed, then found not to be the right one (checksum, id or size).
AllFaults == {"error", "reap", "lost", "rejected"}

ASSUME CursorAssumption ==
  /\ NoCursor \notin Ranges
  /\ Docs \in [Ranges -> Nat]
  /\ MaxBatch \in Nat \ {0} /\ MaxCopies \in Nat \ {0}
  /\ Listings \in BOOLEAN /\ EmptyBatches \in BOOLEAN
  /\ Faults \subseteq AllFaults

Bad         == 0    \* a document of a reply that was not accepted
OutOfBounds == -1   \* an access outside the batch: undefined behaviour

VARIABLES
  good,                 \* the connection's stream state
  sent, live,           \* the server: documents sent, cursor open?
  reaped, refused,      \* was it timed out? was a command on it refused?
  copies,               \* copies of the range alive: 0 before find and after
  found,                \* was the range asked for?
  colName,              \* CursorData: the collection named in its commands
  ok, id, batch,        \* the last reply's ok, cursor id and batch
  offset, postSave,     \* documents of earlier batches, the last one of them
  accepted,             \* did the last reply pass recvMessage()?  (history)
  iter,                 \* the range's iterator: [index, input]
  seen                  \* the documents the user was handed (history)

server == <<sent, live, reaped, refused>>
data   == <<colName, ok, id, batch, offset, postSave, accepted>>
vars   == <<good, server, copies, found, data, iter, seen>>

-----------------------------------------------------------------------------
(* The server's answer to a find or a getMore, as read by recvMessage(). *)

\* A response that nothing was read into, and an error's.
Failed == [ok |-> FALSE, id |-> NoCursor, docs |-> <<>>]

\* The next batch, and whether the cursor stays open: always while documents
\* remain, perhaps when it was filled by the last one.
Batches(c) ==
  LET left == Docs[c] - sent[c]
  IN  {r \in [ok : {TRUE}, id : {c, NoCursor},
              docs : {[i \in 1 .. k |-> sent[c] + i] : k \in 0 .. MaxBatch}] :
         /\ Len(r.docs) <= left
         /\ r.docs = <<>> => left = 0 \/ EmptyBatches
         /\ r.id = NoCursor => Len(r.docs) = left
         /\ r.id = c /\ left = 0 => EmptyBatches}

Outcome(r, g, n, l, a) ==
  [reply |-> r, good |-> g, sent |-> n, live |-> l, accepted |-> a]

\* A getMore or killCursors on the range's cursor is one that the server acts
\* on: it names a collection, and the cursor is open.
Usable(c) == colName[c] # "none" /\ id[c] = c /\ live[c]

\* What sendMessage() and recvMessage() of a command on a cursor may do: the
\* response the caller goes on with (an untouched one when nothing was read),
\* the stream, and the server's side.  "opens" is a command that makes the
\* cursor.  A server that refuses a getMore may keep the cursor.
Outcomes(c, opens) ==
  IF ~good THEN {Outcome(Failed, FALSE, sent[c], live[c], FALSE)}
  ELSE {Outcome(r, TRUE, sent[c] + Len(r.docs), r.id = c, TRUE) :
          r \in {b \in Batches(c) : opens \/ Usable(c)}}
    \cup {Outcome(Failed, TRUE, sent[c], l, TRUE) :
            l \in {x \in {FALSE, live[c]} :
                    \/ "error" \in Faults
                    \/ ~opens /\ ~Usable(c) /\ x = live[c]}}
    \cup {Outcome(Failed, FALSE, sent[c], live[c], FALSE) : f \in Faults \cap {"lost"}}
    \cup {Outcome([ok |-> TRUE, id |-> c, docs |-> <<Bad>>], FALSE, sent[c], live[c], FALSE) :
            f \in Faults \cap {"rejected"}}

-----------------------------------------------------------------------------
(* CursorData. *)

size(c) == offset[c] + Len(batch[c])

\* The caller's use of an outcome: swap(findResult, response) moves the reply's
\* status, cursor and batch into the CursorData.
Adopt(c, o) ==
  /\ ok' = [ok EXCEPT ![c] = o.reply.ok]
  /\ id' = [id EXCEPT ![c] = o.reply.id]
  /\ batch' = [batch EXCEPT ![c] = o.reply.docs]
  /\ accepted' = [accepted EXCEPT ![c] = o.accepted]
  /\ good' = o.good
  /\ sent' = [sent EXCEPT ![c] = o.sent] /\ live' = [live EXCEPT ![c] = o.live]
  /\ refused' = [refused EXCEPT ![c] = @ \/ (o.live /\ o.accepted /\ ~o.reply.ok)]
  /\ UNCHANGED reaped

\* Mistaken: the document before the batch is looked up in the batch.
getUnsaved(o, b, p, pos) == IF b # <<>> /\ pos - o = -1 THEN b[1]
                            ELSE IF pos - o \in 0 .. Len(b) - 1 THEN b[pos - o + 1]
                            ELSE OutOfBounds

\* get(pos), on the CursorData with this offset, batch and postSave.
get(o, b, p, pos) == IF pos - o = -1 THEN p
                     ELSE IF pos - o \in 0 .. Len(b) - 1 THEN b[pos - o + 1]
                     ELSE OutOfBounds

\* Mistaken: the first batch is taken for all there is.
checkAvailableOnce(c, index) == index \in Nat /\ UNCHANGED <<good, server, data>>

\* Mistaken: getMore is sent until it works.
checkAvailableRetry(c, index) ==
  IF size(c) = index
    THEN /\ offset' = [offset EXCEPT ![c] = size(c)]
         /\ postSave' = [postSave EXCEPT ![c] =
                           get(0, batch[c], OutOfBounds, Len(batch[c]) - 1)]
         /\ UNCHANGED colName
         /\ \E o \in Outcomes(c, FALSE) : o.reply.ok /\ Adopt(c, o)
    ELSE UNCHANGED <<good, server, data>>

\* checkAvailable(index): past the last document of the batch, keep that one
\* and send getMore, whatever the cursor's id.  back() of an empty batch is
\* undefined.
checkAvailable(c, index) ==
  IF size(c) = index
    THEN /\ offset' = [offset EXCEPT ![c] = size(c)]
         /\ postSave' = [postSave EXCEPT ![c] =
                           get(0, batch[c], OutOfBounds, Len(batch[c]) - 1)]
         /\ UNCHANGED colName
         /\ \E o \in Outcomes(c, FALSE) : Adopt(c, o)
    ELSE UNCHANGED <<good, server, data>>

-----------------------------------------------------------------------------
(* The program's steps. *)

Init ==
  /\ good = TRUE
  /\ sent = [c \in Ranges |-> 0] /\ live = [c \in Ranges |-> FALSE]
  /\ reaped = [c \in Ranges |-> FALSE] /\ refused = [c \in Ranges |-> FALSE]
  /\ copies = [c \in Ranges |-> 0] /\ found = [c \in Ranges |-> FALSE]
  /\ colName = [c \in Ranges |-> "none"]
  /\ ok = [c \in Ranges |-> FALSE] /\ id = [c \in Ranges |-> NoCursor]
  /\ batch = [c \in Ranges |-> <<>>]
  /\ offset = [c \in Ranges |-> 0]
  /\ postSave = [c \in Ranges |-> OutOfBounds]
  /\ accepted = [c \in Ranges |-> FALSE]
  /\ iter = [c \in Ranges |-> [index |-> 0, input |-> FALSE]]
  /\ seen = [c \in Ranges |-> <<>>]

\* A command that makes a range: the server opens a cursor and the first batch
\* is read into the new CursorData.  With serverErrorAreExceptions a reply that
\* was not accepted is thrown and no range exists; a request that could not be
\* sent returns a range all the same.
Open(c, name) ==
  /\ ~found[c]
  /\ found' = [found EXCEPT ![c] = TRUE]
  /\ colName' = [colName EXCEPT ![c] = name]
  /\ \E o \in Outcomes(c, TRUE), exceptions \in BOOLEAN :
       /\ Adopt(c, o)
       /\ copies' = [copies EXCEPT ![c] =
                       IF exceptions /\ good /\ ~o.good THEN 0 ELSE 1]
  /\ UNCHANGED <<offset, postSave, iter, seen>>

\* Collection::find().
Find(c) == Open(c, "collection")

\* DB::listCollections(): a ListCollectionResult is made with no collection name.
ListCollections(c) == Listings /\ Open(c, "none")

\* A Range is copied: the copies share the CursorData.
CopyRange(c) ==
  /\ copies[c] \in 1 .. MaxCopies - 1
  /\ copies' = [copies EXCEPT ![c] = @ + 1]
  /\ UNCHANGED <<good, server, found, data, iter, seen>>

\* Mistaken: a copy that was destroyed is destroyed again.
DropAgain(c) ==
  /\ found[c]
  /\ copies' = [copies EXCEPT ![c] = @ - 1]
  /\ iter' = [iter EXCEPT ![c].input = @ /\ copies[c] > 1]
  /\ UNCHANGED <<good, server, found, data, seen>>

\* Mistaken: the cursor is killed only when the whole first batch was read.
DropSkips(c) ==
  /\ copies[c] > 0
  /\ copies' = [copies EXCEPT ![c] = @ - 1]
  /\ IF copies[c] = 1 /\ id[c] # NoCursor /\ good /\ offset[c] > 0
       THEN live' = [live EXCEPT ![id[c]] = FALSE]
       ELSE UNCHANGED live
  /\ iter' = [iter EXCEPT ![c].input = @ /\ copies[c] > 1]
  /\ UNCHANGED <<good, sent, reaped, refused, found, data, seen>>

\* Mistaken: every copy kills the cursor.
DropKills(c) ==
  /\ copies[c] > 0
  /\ copies' = [copies EXCEPT ![c] = @ - 1]
  /\ IF id[c] # NoCursor /\ good
       THEN live' = [live EXCEPT ![id[c]] = FALSE]
       ELSE UNCHANGED live
  /\ iter' = [iter EXCEPT ![c].input = @ /\ copies[c] > 1]
  /\ UNCHANGED <<good, sent, reaped, refused, found, data, seen>>

\* killCursor(): what the server answers is read, and not looked at.  The server
\* closes the cursor or refuses, or the exchange fails.
killCursor(c) ==
  \/ /\ Usable(c)
     /\ live' = [live EXCEPT ![c] = FALSE] /\ UNCHANGED <<good, refused>>
  \/ /\ ~Usable(c) \/ "error" \in Faults
     /\ refused' = [refused EXCEPT ![c] = TRUE] /\ UNCHANGED <<good, live>>
  \/ /\ Faults \cap {"lost", "rejected"} # {}
     /\ good' = FALSE /\ UNCHANGED <<live, refused>>

\* A Range is destroyed; the last copy takes the CursorData with it, and
\* ~CursorData() sends killCursors for an id that is not 0.
Drop(c) ==
  /\ copies[c] > 0
  /\ copies' = [copies EXCEPT ![c] = @ - 1]
  /\ IF copies[c] = 1 /\ id[c] # NoCursor /\ good
       THEN killCursor(c)
       ELSE UNCHANGED <<good, live, refused>>
  /\ iter' = [iter EXCEPT ![c].input = @ /\ copies[c] > 1]
  /\ UNCHANGED <<sent, reaped, found, data, seen>>

\* Range::begin().  An input iterator: a range is not begun again once its
\* first batch is gone.
Begin(c) ==
  /\ copies[c] > 0 /\ offset[c] = 0 /\ iter[c].index = 0 /\ ~iter[c].input
  /\ ok[c] /\ size(c) # 0
  /\ iter' = [iter EXCEPT ![c] = [index |-> 0, input |-> ok[c] /\ size(c) # 0]]
  /\ UNCHANGED <<good, server, copies, found, data, seen>>

\* One round of a loop over the range: the document at the iterator is used
\* and the iterator moved, in either order.  "*it, ++it" reads the batch
\* before checkAvailable(); "*it++" reads through the copy of the iterator
\* after it, when the batch may already be the next one.
Step(c) ==
  /\ copies[c] > 0 /\ iter[c].input
  /\ LET index == iter[c].index IN
       /\ checkAvailable(c, index + 1)
       /\ iter' = [iter EXCEPT ![c] =
                     [index |-> index + 1,
                      input |-> index + 1 # offset'[c] + Len(batch'[c])]]
       /\ \/ seen' = [seen EXCEPT ![c] =
                        Append(@, get(offset[c], batch[c], postSave[c], index))]
          \/ seen' = [seen EXCEPT ![c] =
                        Append(@, get(offset'[c], batch'[c], postSave'[c], index))]
  /\ UNCHANGED <<copies, found>>

\* The server closes an idle cursor (noCursorTimeout is not set).
Reap(c) ==
  /\ "reap" \in Faults /\ live[c]
  /\ live' = [live EXCEPT ![c] = FALSE] /\ reaped' = [reaped EXCEPT ![c] = TRUE]
  /\ UNCHANGED <<good, sent, refused, copies, found, data, iter, seen>>

\* Every range was asked for and destroyed.
Done == /\ \A c \in Ranges : found[c] /\ copies[c] = 0
        /\ UNCHANGED vars

Next == \/ \E c \in Ranges : \/ Find(c) \/ ListCollections(c) \/ CopyRange(c) \/ Drop(c)
                            \/ Begin(c) \/ Step(c) \/ Reap(c)
        \/ Done

Spec == Init /\ [][Next]_vars

\* A loop over a range runs to its end: nothing else the program does takes
\* the thread away for ever.
FairSpec == Spec /\ \A c \in Ranges : WF_vars(Step(c))

-----------------------------------------------------------------------------
(* Properties. *)

TypeOK ==
  /\ good \in BOOLEAN
  /\ sent \in [Ranges -> Nat] /\ live \in [Ranges -> BOOLEAN]
  /\ reaped \in [Ranges -> BOOLEAN] /\ refused \in [Ranges -> BOOLEAN]
  /\ copies \in [Ranges -> Nat] /\ found \in [Ranges -> BOOLEAN]
  /\ colName \in [Ranges -> {"none", "collection"}]
  /\ ok \in [Ranges -> BOOLEAN] /\ id \in [Ranges -> Ranges \cup {NoCursor}]
  /\ batch \in [Ranges -> Seq(Int)]
  /\ offset \in [Ranges -> Nat] /\ postSave \in [Ranges -> Int]
  /\ accepted \in [Ranges -> BOOLEAN]
  /\ iter \in [Ranges -> [index : Nat, input : BOOLEAN]]
  /\ seen \in [Ranges -> Seq(Int)]

\* A loop sees the documents of the result in order, each once, none skipped
\* where one batch ends and the next begins, whichever form of increment it
\* uses and whatever other ranges do on the connection; after them perhaps
\* those of a reply that was parsed and then rejected, and never anything else.
SeenInOrder ==
  \A c \in Ranges : \E k \in 0 .. Len(seen[c]) :
    seen[c] = [i \in 1 .. Len(seen[c]) |-> IF i <= k THEN i ELSE Bad]

\* A loop that ends on a range which reports success saw every document, if
\* what the range reports is a reply that was accepted.
OkEndIsComplete ==
  \A c \in Ranges :
    copies[c] > 0 /\ ok[c] /\ accepted[c] /\ ~iter[c].input /\ iter[c].index > 0
      => Len(seen[c]) = Docs[c]

\* A loop that was run to its end saw every document there is.
LoopSeesAll ==
  \A c \in Ranges :
    copies[c] > 0 /\ ~iter[c].input /\ iter[c].index > 0 => Len(seen[c]) = Docs[c]

\* A range that was read to its end, without any failure, reports success.
CompleteIsOk ==
  \A c \in Ranges :
    copies[c] > 0 /\ good /\ ~iter[c].input /\ Len(seen[c]) = Docs[c] /\ Docs[c] > 0
      => ok[c]

\* A range that is gone leaves no cursor open at the server, as long as the
\* connection works, unless the server refused a command on it and kept it: it
\* was exhausted, killed, or closed by the server.
NoCursorLeft ==
  \A c \in Ranges : found[c] /\ copies[c] = 0 /\ good => ~live[c] \/ refused[c]

\* A range in use that still holds a cursor's id holds its own cursor's, and
\* unless the server timed it out that cursor is open: no copy that went away,
\* and no other range, closed it.
IdIsLive ==
  \A c \in Ranges :
    copies[c] > 0 /\ id[c] # NoCursor /\ good
      => id[c] = c /\ (live[c] \/ reaped[c])

\* Every loop ends, whatever the server and the connection do.
LoopsEnd == \A c \in Ranges : iter[c].input ~> ~iter[c].input

===============================================================================
