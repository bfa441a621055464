------------------------------ MODULE DocumentSet ------------------------------
(***************************************************************************)
(* What the documents of a collection become by the calls of a program,    *)
(* in the terms of the program: what filters and updates mean is what the  *)
(* comments of MongoQuery.h and MongoUpdate.h say of their types, and the  *)
(* rest what the documentation and the tests say of the calls.  A call is  *)
(* carried out at most once; it returns that it worked and what came of    *)
(* it, or not.  Push with Sort is an exception: see Added.                 *)
(*                                                                         *)
(* An expression is the sequence of its parts, as in Queries; the argument *)
(* of a part may be the place of another.  Nothing is said of how calls    *)
(* are written, or of the order in which a server goes about them.         *)
(***************************************************************************)
EXTENDS Integers, SequencesExt, FiniteSets

CONSTANTS
  ArrayFields, DateFields,    \* the fields that do not hold numbers
  ConditionOps, FilterOps     \* what expressions are composed of

VARIABLES
  docs,      \* the documents there are: a function from ids
  pending,   \* the call that may still be carried out, in a set
  done,      \* what came of the call that was carried out, in a set
  returned   \* what the last call returned, in a set

vars == <<docs, pending, done, returned>>

-----------------------------------------------------------------------------
(* Filters. *)

Has(d, field) == field \in DOMAIN d

\* What a condition speaks of: the value, or any value of an array.
Some(d, field) ==
  IF ~Has(d, field) THEN {}
  ELSE IF field \in ArrayFields THEN Range(d[field]) ELSE {d[field]}

\* "An element has a specific Type".
IsType(d, field, type) ==
  /\ Has(d, field)
  /\ CASE type = "Array" -> field \in ArrayFields
       [] type = "Int32" -> field \notin ArrayFields \cup DateFields
       [] type = "Date" -> field \in DateFields /\ d[field] = "date"
       [] type = "Timestamp" -> field \in DateFields /\ d[field] = "timestamp"

Bit(v, i) == (v \div 2 ^ i) % 2 = 1

\* The bits of a mask.  Bound: 8 bits are enough for the numbers in use.
Mask(m) == {i \in 0 .. 7 : Bit(m, i)}

\* An array "has an element that matches multiple conditions".
Element(v, e) ==
  /\ "$eq" \in DOMAIN e => v = e["$eq"]
  /\ "$ne" \in DOMAIN e => v # e["$ne"]
  /\ "$gt" \in DOMAIN e => v > e["$gt"]
  /\ "$gte" \in DOMAIN e => v >= e["$gte"]
  /\ "$lt" \in DOMAIN e => v < e["$lt"]
  /\ "$lte" \in DOMAIN e => v <= e["$lte"]

\* Does a condition hold of a value?
Suits(v, c) ==
  CASE c.op = "Eq"  -> v = c.arg   [] c.op = "Ne"  -> v # c.arg
    [] c.op = "Gt"  -> v > c.arg   [] c.op = "Gte" -> v >= c.arg
    [] c.op = "Lt"  -> v < c.arg   [] c.op = "Lte" -> v <= c.arg
    [] c.op = "In"  -> v \in Range(c.arg)
    [] c.op = "Nin" -> v \notin Range(c.arg)
    [] c.op = "Mod" -> v % c.arg[1] = c.arg[2]
    [] c.op = "AllClear" -> \A i \in Mask(c.arg) : ~Bit(v, i)
    [] c.op = "AllSet"   -> \A i \in Mask(c.arg) : Bit(v, i)
    [] c.op = "AnyClear" -> \E i \in Mask(c.arg) : ~Bit(v, i)
    [] c.op = "AnySet"   -> \E i \in Mask(c.arg) : Bit(v, i)

\* Does a condition hold of a field of a document?  Of no elements, no array has
\* all: that is the server's manual.
Fits(d, field, c) ==
  LET some == Some(d, field) IN
  CASE c.op = "Ne"  -> c.arg \notin some
    [] c.op = "Nin" -> some \cap Range(c.arg) = {}
    [] c.op = "Exists" -> Has(d, field) <=> c.arg
    [] c.op = "Type" -> IsType(d, field, c.arg)
    [] c.op = "All" -> c.arg # <<>> /\ Range(c.arg) \subseteq some
    [] c.op = "ElemMatch" -> \E v \in some : Element(v, c.arg)
    [] c.op = "Size" -> field \in ArrayFields /\ Has(d, field) /\ Len(d[field]) = c.arg
    [] OTHER -> \E v \in some : Suits(v, c)

\* Which conditions of an expression hold of the field?
Fitting(d, field, e) ==
  LET fits[i \in {j \in DOMAIN e : e[j].op \in ConditionOps}] ==
        IF e[i].op = "Not" THEN ~fits[e[i].arg] ELSE Fits(d, field, e[i])
  IN  fits

\* Is a document one that the expression finds?
Wanted(d, e) ==
  LET wanted[i \in {j \in DOMAIN e : e[j].op \in FilterOps}] ==
        \/ e[i].op = "Any"
        \/ e[i].op = "Access" /\ Fitting(d, e[i].field, e)[e[i].arg]
        \/ e[i].op = "And" /\ \A k \in DOMAIN e[i].arg : wanted[e[i].arg[k]]
        \/ e[i].op = "Or"  /\ \E k \in DOMAIN e[i].arg : wanted[e[i].arg[k]]
        \/ e[i].op = "Nor" /\ ~(\E k \in DOMAIN e[i].arg : wanted[e[i].arg[k]])
  IN  wanted[Len(e)]

\* The document that an expression asks for, if it asks for the value of a field.
Asked(e) ==
  LET whole == e[Len(e)]
      equal == whole.op = "Access" /\ e[whole.arg].op = "Eq"
  IN  [f \in IF equal THEN {whole.field} ELSE {} |-> e[whole.arg].arg]

Found(e) == {id \in DOMAIN docs : Wanted(docs[id], e)}

-----------------------------------------------------------------------------
(* Updates: the document "e" that an update makes of "d". *)

Times(s, v) == Cardinality({i \in DOMAIN s : s[i] = v})

\* The array "t" has the values of "s", in order.
Sorted(s, t, order) ==
  /\ \A v \in Range(s) \cup Range(t) : Times(t, v) = Times(s, v)
  /\ \A i, j \in DOMAIN t : i < j => IF order = "Ascending" THEN t[i] <= t[j] ELSE t[i] >= t[j]

\* What an array becomes by adding values to it.  With Sort the whole of it is
\* put in order, as the test FindAndUpdateUsingSort has it; not as the comment of
\* Sort (MongoUpdate.h:437) says, which "sorts the input vector before adding".
Added(old, how, after) ==
  CASE how.op = "Value" -> after = Append(old, how.arg)
    [] how.op = "Each"  -> after = old \o how.arg
    [] how.op = "Position" ->    \* "added into the array at a specific position"
         LET p == how.arg[2]
             q == IF p >= Len(old) THEN Len(old) ELSE IF p >= 0 THEN p
                  ELSE IF -p > Len(old) THEN 0 ELSE Len(old) + p
         IN  after = SubSeq(old, 1, q) \o how.arg[1] \o SubSeq(old, q + 1, Len(old))
    [] how.op = "Slice" ->       \* the first, or the last, so many of them
         LET all == old \o how.arg[1]
             n   == how.arg[2]
         IN  after = IF n >= Len(all) \/ -n >= Len(all) THEN all
                     ELSE IF n >= 0 THEN SubSeq(all, 1, n)
                     ELSE SubSeq(all, Len(all) + n + 1, Len(all))
    [] how.op = "Sort" -> Sorted(old \o how.arg[1], after, how.arg[2])

\* The values that an array did not have are behind those it had, once each.
Joined(old, values, after) ==
  /\ Len(after) >= Len(old) /\ \A i \in DOMAIN old : after[i] = old[i]
  /\ Range(after) = Range(old) \cup Range(values)
  /\ \A i \in Len(old) + 1 .. Len(after) : \A j \in 1 .. i - 1 : after[j] # after[i]

\* The values of an array that are not dropped stay, in their order.
Rest(before, dropped, after) ==
  LET P == {i \in DOMAIN before : before[i] \notin dropped}
  IN  /\ Len(after) = Cardinality(P)
      /\ \A i \in P : after[Cardinality({j \in P : j <= i})] = before[i]

\* The values of a field before and after; "has" and "had" whether there is one.
Becomes(op, arg, had, before, has, after) ==
  LET array == IF had THEN before ELSE <<>> IN
  CASE op = "CurrentDate" -> has /\ after = IF arg = "SetTimeStamp" THEN "timestamp" ELSE "date"
    [] op = "Inc" -> has /\ after = (IF had THEN before ELSE 0) + arg
    [] op = "Mul" -> has /\ after = (IF had THEN before ELSE 0) * arg
    [] op = "Min" -> has /\ after = IF had /\ before <= arg THEN before ELSE arg
    [] op = "Max" -> has /\ after = IF had /\ before >= arg THEN before ELSE arg
    [] op = "Set" -> has /\ after = arg
    [] op = "Unset" -> ~has
    [] op = "AddToSet" -> has /\ Joined(array, IF arg.op = "Each" THEN arg.arg ELSE <<arg.arg>>, after)
    [] op = "Push" -> has /\ Added(array, arg, after)
    [] op = "PopFront" -> has = had /\ (had => after = IF before = <<>> THEN <<>> ELSE Tail(before))
    [] op = "PopBack" -> has = had /\ (had => after = IF before = <<>> THEN <<>> ELSE Front(before))
    [] op = "Pull" ->
         LET dropped == {v \in Range(before) : IF arg.op = "Value" THEN v = arg.arg ELSE Suits(v, arg)}
         IN  has = had /\ (had => Rest(before, dropped, after))
    [] op = "PullAll" -> has = had /\ (had => Rest(before, Range(arg), after))

\* "upserted": the document was not there before.
Changed(d, e, u, upserted) ==
  LET fields == {u.on[i].field : i \in DOMAIN u.on}
      same(f) == Has(d, f) = Has(e, f) /\ (Has(d, f) => d[f] = e[f])
      value(x, f) == IF Has(x, f) THEN x[f] ELSE <<>>
  IN  CASE u.op = "Rename" ->
             LET renamed == {i \in DOMAIN u.on : Has(d, u.on[i].field)}
                 new == {u.on[i].arg : i \in renamed}
             IN  /\ DOMAIN e = (DOMAIN d \ fields) \cup new
                 /\ \A i \in renamed : e[u.on[i].arg] = d[u.on[i].field]
                 /\ \A f \in DOMAIN e \ new : same(f)
        [] u.op = "SetOnInsert" /\ ~upserted -> e = d
        [] OTHER ->
             /\ \A f \in (DOMAIN d \cup DOMAIN e) \ fields : same(f)
             /\ \A i \in DOMAIN u.on :
                  LET f == u.on[i].field
                  IN  Becomes(IF u.op = "SetOnInsert" THEN "Set" ELSE u.op, u.on[i].arg,
                              Has(d, f), value(d, f), Has(e, f), value(e, f))

-----------------------------------------------------------------------------
(* Calls.  What comes of one: the number of documents it was about; of a     *)
(* findAndModify, the document it returns and the lastErrorObject; and those *)
(* of an insert that were stored.                                            *)

Result(n, value, last, stored) == [n |-> n, value |-> value, last |-> last, stored |-> stored]

Inserted(c, after, r) ==
  LET taken(i) == c.ids[i] \in DOMAIN docs \/ \E j \in r.stored : j < i /\ c.ids[j] = c.ids[i]
      all == DOMAIN c.ids
  IN  /\ r.n = Cardinality(r.stored) /\ r.value = {}
      /\ DOMAIN after = DOMAIN docs \cup {c.ids[i] : i \in r.stored}
      /\ \A id \in DOMAIN docs : after[id] = docs[id]
      /\ \A i \in r.stored : ~taken(i) /\ after[c.ids[i]] = c.documents[i]
      /\ \/ r.stored = {i \in all : ~taken(i)} /\ ~c.ordered
         \/ c.ordered /\ \A i \in all : i \in r.stored <=> \A j \in 1 .. i : ~taken(j)

\* "A record is matched if any query object matches the record"; of those a
\* query for One matches, it removes one.  A statement may fail.
Removed(c, after, r) ==
  LET gone == DOMAIN docs \ DOMAIN after
      for(q) == Found(q.filter)
      Q == DOMAIN c.statements
  IN  /\ r.n = Cardinality(gone) /\ r.value = {} /\ r.stored = {}
      /\ DOMAIN after \subseteq DOMAIN docs /\ \A id \in DOMAIN after : after[id] = docs[id]
      /\ \E failed \in SUBSET Q, by \in [gone -> Q] :
           /\ c.ordered => \A i \in failed, j \in Q : j > i => j \in failed
           /\ \A id \in gone : by[id] \notin failed /\ id \in for(c.statements[by[id]])
           /\ \A i \in Q \ failed :
                IF c.statements[i].remove = "All"
                  THEN for(c.statements[i]) \cap DOMAIN after = {}
                  ELSE /\ \A x, y \in gone : by[x] = i /\ by[y] = i => x = y
                       /\ (\A id \in gone : by[id] # i) => for(c.statements[i]) \cap DOMAIN after = {}

\* The document "id" was, and is, and what that returns.  Nothing is said of n,
\* which the response does not have.
Modified(c, after, r, id) ==
  LET was == {docs[x] : x \in {id} \cap DOMAIN docs}
      is  == {after[x] : x \in {id} \cap DOMAIN after}
  IN  /\ \A x \in (DOMAIN docs \cup DOMAIN after) \ {id} :
           x \in DOMAIN docs \cap DOMAIN after /\ after[x] = docs[x]
      /\ r.stored = {}
      /\ r.last.updatedExisting <=> id \in DOMAIN docs \cap DOMAIN after
      /\ r.last.upserted = {id} \ DOMAIN docs
      /\ r.value = IF c.command # "findAndRemoveOne" /\ c.returnNew THEN is ELSE was

\* Is a document further up in a sort?  Nothing is said of those of which only
\* one has the field that decides.
Above(d, e, sort) ==
  \E i \in DOMAIN sort :
    LET f == sort[i][1]
        same(g) == Has(d, g) = Has(e, g) /\ (Has(d, g) => d[g] = e[g])
    IN  /\ Has(d, f) /\ Has(e, f)
        /\ IF sort[i][2] = "Ascending" THEN d[f] < e[f] ELSE d[f] > e[f]
        /\ \A j \in 1 .. i - 1 : same(sort[j][1])

\* "Operation will be applied to the top of the sort".
FoundAndModified(c, after, r) ==
  IF Found(c.filter) # {} THEN
    \E id \in {x \in Found(c.filter) : \A y \in Found(c.filter) : ~Above(docs[y], docs[x], c.sort)} :
      /\ Modified(c, after, r, id)
      /\ CASE c.command = "findAndRemoveOne" -> id \notin DOMAIN after
           [] c.command = "findAndReplaceOne" -> id \in DOMAIN after /\ after[id] = c.replace
           [] c.command = "findAndUpdateOne" ->
                id \in DOMAIN after /\ Changed(docs[id], after[id], c.update, FALSE)
  ELSE IF c.command # "findAndRemoveOne" /\ c.upsert THEN
    \* "If zero records were matched performs an insert."
    \E id \in DOMAIN after \ DOMAIN docs :
      /\ Modified(c, after, r, id)
      /\ c.command = "findAndReplaceOne" => after[id] = c.replace
      /\ c.command = "findAndUpdateOne" =>
           Changed(Asked(c.filter), after[id], c.update, TRUE)
  ELSE /\ after = docs /\ r.value = {} /\ r.stored = {}
       /\ ~r.last.updatedExisting /\ r.last.upserted = {}

Accomplishes(c, after, r) ==
  CASE c.command = "insert" -> Inserted(c, after, r)
    [] c.command = "remove" -> Removed(c, after, r)
    [] c.command = "countDocuments" ->
         LET all == Cardinality(Found(c.filter)) IN
         /\ after = docs
         /\ r.n = IF all <= c.skip THEN 0
                  ELSE IF c.limit = 0 \/ all - c.skip <= c.limit THEN all - c.skip
                  ELSE c.limit
         /\ r.value = {} /\ r.stored = {}
    [] OTHER -> FoundAndModified(c, after, r)

-----------------------------------------------------------------------------
\* A call begins, with any of the arguments it may have; one that cannot be sent
\* is never carried out.
Call ==
  /\ pending = {} /\ done = {}
  /\ Cardinality(pending') <= 1 /\ returned' = {}
  /\ UNCHANGED <<docs, done>>

Perform ==
  /\ pending # {} /\ pending' = {}
  /\ Cardinality(done') = 1
  /\ \A c \in pending, r \in done' : Accomplishes(c, docs', r)
  /\ UNCHANGED returned

\* It returns what came of it, or that it failed, whatever came of it.
Return ==
  /\ pending' = {} /\ done' = {}
  /\ \/ returned' = {[ok |-> TRUE, result |-> r] : r \in done} /\ done # {}
     \/ returned' = {[ok |-> FALSE]}
  /\ UNCHANGED docs

\* The request or its answer is lost.
Lose ==
  /\ pending' = {} /\ done' = {} /\ UNCHANGED <<docs, returned>>

Init == pending = {} /\ done = {} /\ returned = {}

Next == Call \/ Perform \/ Return \/ Lose

Spec == Init /\ [][Next]_vars

===============================================================================
