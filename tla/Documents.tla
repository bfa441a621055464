------------------------------- MODULE Documents -------------------------------
(***************************************************************************)
(* insert(), remove(), countDocuments() and the three forms of             *)
(* findAndModify on the documents of a collection: what a call is written  *)
(* as, what the server makes of that, and what the call returns.  One      *)
(* thread uses the connection and waits for each answer.                   *)
(*                                                                         *)
(* An operator whose comment begins with "Mistaken" is a variant of the    *)
(* one after it that no behaviour uses: a plausible mistake, which a       *)
(* property has to notice when it takes the place of the original.         *)
(***************************************************************************)
EXTENDS Updates, FiniteSets

CONSTANTS
  Ids,                      \* the ids documents may have
  Fields,                   \* the fields documents may have
  ArrayFields, DateFields,  \* those that do not hold numbers
  Start,                    \* the collections there may be to begin with
  Records,                  \* what the program stores,
  Filters, Searches,        \* the filters it counts and those it selects with,
  UpdateExpressions,        \* and its updates: all of them sequences
  Pages,                    \* the pairs of limit and skip it counts with
  Options,                  \* what it asks for: returnNew, upsert and a sort
  MaxCalls,                 \* bound: calls made
  Faults                    \* what goes wrong: a subset of AllFaults

\* "error": the server refuses a command, or a statement of one.  "lost": the
\* connection dies before the reply.
AllFaults == {"error", "lost"}

Server == INSTANCE MongoServer

\* A field holds an array of numbers, a date or a number.
Holds(field, value) ==
  CASE field \in ArrayFields -> value \in Seq(Int)
    [] field \in DateFields -> value \in {"date", "timestamp"}
    [] OTHER -> value \in Int

\* An object of the program's types, and a collection of them.
IsDocument(doc) ==
  /\ doc = [f \in DOMAIN doc |-> doc[f]] /\ DOMAIN doc \subseteq Fields
  /\ \A f \in DOMAIN doc : Holds(f, doc[f])

IsCollection(collection) ==
  /\ DOMAIN collection \subseteq Ids /\ IsFiniteSet(DOMAIN collection)
  /\ \A id \in DOMAIN collection : IsDocument(collection[id])

\* An Access is of one of the fields.  What a filter for equality looks for, an
\* upsert stores.
IsFilter(e) ==
  /\ WellFormed(e)
  /\ \A i \in DOMAIN e : e[i].op = "Access" => e[i].field \in Fields

IsSearch(e) ==
  /\ IsFilter(e)
  /\ \A i \in DOMAIN e : e[i].op = "Access" /\ e[e[i].arg].op = "Eq" => Holds(e[i].field, e[e[i].arg].arg)

\* What an update gives to a field is what the field may hold, values to add to
\* an array or to look for there, or the name of a field of the same type.
Takes(op, field, arg) ==
  CASE op = "CurrentDate" -> field \in DateFields /\ arg \in {"bool", "SetDate", "SetTimeStamp"}
    [] op \in {"Inc", "Mul", "Min", "Max"} -> field \notin ArrayFields \cup DateFields /\ arg \in Int
    [] op \in {"Set", "SetOnInsert"} -> Holds(field, arg)
    [] op = "Rename" -> /\ arg \in Fields
                        /\ (arg \in ArrayFields) = (field \in ArrayFields)
                        /\ (arg \in DateFields) = (field \in DateFields)
    [] op = "Unset" -> TRUE
    [] op \in {"PopFront", "PopBack"} -> field \in ArrayFields
    [] op = "PullAll" -> field \in ArrayFields /\ arg \in Seq(Int)
    [] op = "Pull" -> /\ field \in ArrayFields
                      /\ arg.op \in {"Value", "Eq", "Ne", "Gt", "Gte", "Lt", "Lte", "In", "Nin", "Mod",
                                     "AllClear", "AllSet", "AnyClear", "AnySet"}
    [] op \in {"AddToSet", "Push"} ->
         /\ field \in ArrayFields
         /\ \/ arg.op = "Value" /\ arg.arg \in Int
            \/ arg.op = "Each" /\ arg.arg \in Seq(Int)
            \/ op = "Push" /\ arg.op \in {"Position", "Slice", "Sort"} /\ arg.arg[1] \in Seq(Int)
         /\ arg.op \in {"Position", "Slice"} => arg.arg[2] \in Int
         /\ arg.op = "Sort" => arg.arg[2] \in DOMAIN SortOrder

IsUpdate(u) ==
  /\ u.op \in UpdateOps
  /\ \A i \in DOMAIN u.on : u.on[i].field \in Fields /\ Takes(u.op, u.on[i].field, u.on[i].arg)
  \* No two Accesses of an update are of one field, or rename to one.
  /\ \A i, j \in DOMAIN u.on : u.on[i].field = u.on[j].field => i = j
  /\ u.op = "Rename" => \A i, j \in DOMAIN u.on : u.on[i].arg = u.on[j].arg => i = j

ASSUME DocumentsAssumption ==
  /\ Pages \subseteq Nat \X Nat /\ MaxCalls \in Nat
  /\ Faults \subseteq AllFaults
  /\ Options \subseteq BOOLEAN \X BOOLEAN \X Seq((Fields \ (ArrayFields \cup DateFields)) \X DOMAIN SortOrder)

\* Fields are not named like operators, and hold what their type says.
ASSUME TypesAssumption ==
  /\ Fields \cap (Server!ConditionKeys \cup Server!Logic \cup Server!UpdateKeys) = {}
  /\ ArrayFields \cap DateFields = {}
  /\ \A d \in Start : IsCollection(d)
  /\ \A i \in DOMAIN Records : IsDocument(Records[i])
  /\ \A i \in DOMAIN Filters : IsFilter(Filters[i])
  /\ \A i \in DOMAIN Searches : IsSearch(Searches[i])
  /\ \A i \in DOMAIN UpdateExpressions : IsUpdate(UpdateExpressions[i])

Uninitialised == -1   \* an n that nothing was read into, or that is not there

VARIABLES
  docs,      \* the server's documents: a function from ids
  good,      \* the stream's state
  call,      \* the call the program is in, in a set
  message,   \* the command on its way, in a set
  reply,     \* the answer on its way, in a set
  inserted,  \* InsertResult: the ids collected while the message is written
  result,    \* what the last call returned, in a set
  calls      \* number of calls made

vars == <<docs, good, call, message, reply, inserted, result, calls>>

-----------------------------------------------------------------------------
(* How calls are written. *)

Fresh == Ids \ DOMAIN docs

\* Inserter: the documents with their ids, those of the program's objects or,
\* if they have none, new ones.
Inserter(c) ==
  [insert |-> TRUE, ordered |-> c.ordered,
   documents |-> [i \in DOMAIN c.ids |-> [_id |-> c.ids[i], doc |-> c.documents[i]]]]

\* Mistaken: the ids are collected when the size is computed, too.
CollectedTwice(c) == c.ids \o c.ids

\* The ids that getSizeBson() and writeBson() leave in the result.
Collected(c) == c.ids

\* Remover: the statements, each with its limit.
Remover(c) ==
  [delete |-> TRUE, ordered |-> c.ordered,
   deletes |-> [i \in DOMAIN c.statements |-> RemoveStatement(c.statements[i])]]

\* A limit or skip that is not set is not written: to the server that is 0.
Counter(c) == [count |-> TRUE, query |-> Written(c.filter), limit |-> c.limit, skip |-> c.skip]

\* A Sort is written as a document whose members are in order: pairs, here.
SerializeSort(sort) == [i \in DOMAIN sort |-> <<sort[i][1], SortOrder[sort[i][2]]>>]

\* The command of findAndReplaceOne(), findAndUpdateOne() and findAndRemoveOne();
\* the member returnNew is written as "new".  Members that are not written are
\* to the server what they are here: no sort, and FALSE.
FindAndModify(c) ==
  LET removing == c.command = "findAndRemoveOne"
  IN  [findAndModify |-> TRUE, query |-> Written(c.filter), sort |-> SerializeSort(c.sort),
       remove |-> removing,
       update |-> CASE c.command = "findAndReplaceOne" -> c.replace
                    [] c.command = "findAndUpdateOne" -> WrittenUpdate(c.update)
                    [] removing -> <<>>,
       new    |-> ~removing /\ c.returnNew,
       upsert |-> ~removing /\ c.upsert]

Message(c) ==
  CASE c.command = "insert" -> Inserter(c)
    [] c.command = "remove" -> Remover(c)
    [] c.command = "countDocuments" -> Counter(c)
    [] OTHER -> FindAndModify(c)

-----------------------------------------------------------------------------
(* The program's steps. *)

Init ==
  /\ docs \in Start
  /\ good = TRUE /\ calls = 0
  /\ call = {} /\ message = {} /\ reply = {} /\ inserted = <<>> /\ result = {}

\* A call begins: the message is written, and sent if the stream is good.
Begin(c) ==
  /\ call = {} /\ calls < MaxCalls
  /\ calls' = calls + 1
  /\ call' = {c} /\ result' = {}
  /\ message' = IF good THEN {Message(c)} ELSE {}
  /\ inserted' = IF c.command = "insert" THEN Collected(c) ELSE <<>>
  /\ UNCHANGED <<docs, good, reply>>

\* insert(): of one document or two of a kind, with ids of their own or none.
insert ==
  \E ids \in UNION {[1 .. n -> Ids] : n \in 1 .. 2}, own, ordered \in BOOLEAN, r \in DOMAIN Records :
    /\ own \/ \A i \in DOMAIN ids : ids[i] \in Fresh /\ \A j \in 1 .. i - 1 : ids[j] # ids[i]
    /\ Begin([command |-> "insert", ids |-> ids, ordered |-> ordered,
              documents |-> [i \in DOMAIN ids |-> Records[r]]])

\* remove(): one Query or two.
remove ==
  \E f, g \in DOMAIN Searches, n \in 1 .. 2, ordered \in BOOLEAN, how \in {"All", "One"} :
    Begin([command |-> "remove", ordered |-> ordered,
           statements |-> SubSeq(<<[filter |-> Searches[f], remove |-> how],
                                   [filter |-> Searches[g], remove |-> "All"]>>, 1, n)])

countDocuments ==
  \E f \in DOMAIN Filters, page \in Pages :
    Begin([command |-> "countDocuments", filter |-> Filters[f], limit |-> page[1], skip |-> page[2]])

findAndRemoveOne ==
  \E f \in DOMAIN Searches, options \in Options :
    Begin([command |-> "findAndRemoveOne", filter |-> Searches[f], sort |-> options[3]])

findAndReplaceOne ==
  \E f \in DOMAIN Searches, r \in DOMAIN Records, options \in Options :
    Begin([command |-> "findAndReplaceOne", filter |-> Searches[f], replace |-> Records[r],
           returnNew |-> options[1], upsert |-> options[2], sort |-> options[3]])

findAndUpdateOne ==
  \E f \in DOMAIN Searches, u \in DOMAIN UpdateExpressions, options \in Options :
    Begin([command |-> "findAndUpdateOne", filter |-> Searches[f], update |-> UpdateExpressions[u],
           returnNew |-> options[1], upsert |-> options[2], sort |-> options[3]])

\* Mistaken: the answer stays to be read by the next call.
ReturnUnread ==
  /\ reply # {} /\ call # {} /\ call' = {}
  /\ \E c \in call, r \in reply :
       result' = {[call |-> c, ok |-> r.ok, inserted |-> inserted,
                   n |-> r.n, writeErrors |-> r.writeErrors, value |-> r.value, last |-> r.last,
                   stored |-> r.stored]}
  /\ inserted' = <<>>
  /\ UNCHANGED <<docs, good, message, reply, calls>>

\* The command's use of the answer: ok and the members of the reply are read
\* into the response, a ModifyResult, CountResult or FAModifyResult.  A refusal
\* has no others: n is what it was, uninitialised, and lastErrorObject says that
\* nothing was updated.
Return ==
  /\ reply # {} /\ reply' = {} /\ call' = {}
  /\ \E c \in call, r \in reply :
       result' = {[call |-> c, ok |-> r.ok, inserted |-> inserted,
                   n |-> r.n, writeErrors |-> r.writeErrors, value |-> r.value, last |-> r.last,
                   stored |-> r.stored]}
  /\ inserted' = <<>>
  /\ UNCHANGED <<docs, good, message, calls>>

\* It cannot be sent, or no answer arrives.
Fail ==
  /\ ~good /\ call # {} /\ call' = {}
  /\ message = {} /\ reply = {}
  /\ \E c \in call :
       result' = {[call |-> c, ok |-> FALSE, inserted |-> inserted,
                   n |-> Uninitialised, writeErrors |-> {}, value |-> {},
                   last |-> Server!LastError(FALSE, {}), stored |-> {}]}
  /\ inserted' = <<>>
  /\ UNCHANGED <<docs, good, message, reply, calls>>

-----------------------------------------------------------------------------
(* The server and the network. *)

Outcomes(m) ==
  CASE "insert" \in DOMAIN m -> Server!Insert(docs, m)
    [] "delete" \in DOMAIN m ->
         UNION {Server!Delete(docs, m, bad) :
                  bad \in {{}} \cup IF "error" \in Faults THEN SUBSET DOMAIN m.deletes ELSE {}}
    [] "count" \in DOMAIN m -> Server!Count(docs, m)
    [] "findAndModify" \in DOMAIN m -> Server!FindAndModify(docs, m, Fresh)

Serve ==
  /\ message # {} /\ message' = {}
  /\ \E m \in message : \E o \in Outcomes(m) :
       /\ docs' = o.docs
       /\ reply' = {[ok |-> TRUE, n |-> o.n, writeErrors |-> o.writeErrors,
                     value |-> o.value, last |-> o.last, stored |-> o.stored]}
  /\ UNCHANGED <<good, call, inserted, result, calls>>

Refuse ==
  /\ "error" \in Faults /\ message # {} /\ message' = {}
  /\ reply' = {[ok |-> FALSE, n |-> Uninitialised, writeErrors |-> {}, value |-> {},
                last |-> Server!LastError(FALSE, {}), stored |-> {}]}
  /\ UNCHANGED <<docs, good, call, inserted, result, calls>>

\* The connection is lost, and what is on its way with it.
Lose ==
  /\ "lost" \in Faults /\ good /\ good' = FALSE
  /\ message' = {} /\ reply' = {}
  /\ UNCHANGED <<docs, call, inserted, result, calls>>

\* The program has made its calls.
Done == calls = MaxCalls /\ call = {} /\ UNCHANGED vars

Next == \/ insert \/ remove \/ countDocuments
        \/ findAndRemoveOne \/ findAndReplaceOne \/ findAndUpdateOne
        \/ Return \/ Fail \/ Serve \/ Refuse \/ Lose \/ Done

Spec == Init /\ [][Next]_vars

-----------------------------------------------------------------------------
(* Properties. *)

\* Everything has its type: documents hold what their fields may, and at most
\* one command or answer is on its way, for a call that waits for it.
TypeOK ==
  /\ IsCollection(docs)
  /\ good \in BOOLEAN /\ calls \in 0 .. MaxCalls
  /\ Cardinality(call) <= 1 /\ Cardinality(result) <= 1
  /\ Cardinality(message) + Cardinality(reply) <= Cardinality(call)
  /\ \A i \in DOMAIN inserted : inserted[i] \in Ids

\* What insert() tells of an answer it got is enough to know what is stored: of
\* the ids it lists, in the order of the documents, those are stored that no
\* write error names and, if the insert is ordered, that come before the first
\* of them; n counts them.  With ids that are not the library's own, any of
\* them may have been there before.
InsertedTellsStored ==
  \A r \in result : r.call.command = "insert" /\ r.ok =>
    LET stored == {i \in DOMAIN r.inserted :
                     /\ i \notin r.writeErrors
                     /\ r.call.ordered => \A e \in r.writeErrors : i < e}
    IN  /\ stored = r.stored /\ r.n = Cardinality(stored)
        /\ \A i \in stored :
             r.inserted[i] \in DOMAIN docs /\ docs[r.inserted[i]] = r.call.documents[i]

\* The call that may still be carried out, what came of it if it was, and what
\* the last call returned.
Pending  == IF message = {} THEN {} ELSE call
Told(r)  == [n |-> r.n, value |-> r.value, last |-> r.last, stored |-> r.stored]
Finished == {Told(r) : r \in {x \in reply : x.ok}}
Returned == {IF r.ok THEN [ok |-> TRUE, result |-> Told(r)] ELSE [ok |-> FALSE] : r \in result}

Promise == INSTANCE DocumentSet WITH
  pending <- Pending, done <- Finished, returned <- Returned

\* Every call does to the documents, and returns, what the types its filter and
\* its update are composed of promise, at most once, whatever is lost.  Push with
\* Sort is an exception to "as the comments say": it puts the whole array in
\* order, as test/IntegrationConnectionMongoTest.cpp:2830 expects, where
\* MongoUpdate.h:437 speaks of the values that are added only.
ImplementsDocumentSet == Promise!Spec

===============================================================================
