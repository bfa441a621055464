------------------------------ MODULE MongoServer ------------------------------
(***************************************************************************)
(* What a MongoDB server makes of the documents that filters, updates and  *)
(* commands are written as, as far as this library writes them.  It knows  *)
(* nothing of the types of the program: only names of members and values.  *)
(*                                                                         *)
(* A filter comes as the sequence of the documents it consists of, as they *)
(* are written (see Queries): a member that is a document is its place.    *)
(* A stored document is a function from its fields to values, a collection *)
(* one from ids to documents.  Every outcome of a command is a record of   *)
(* the collection it leaves and the members of its reply; "stored" are the *)
(* documents of an insert that the collection took (history).              *)
(***************************************************************************)
EXTENDS Integers, SequencesExt

CONSTANTS ArrayFields, DateFields   \* the fields that do not hold numbers

Has(doc, field) == field \in DOMAIN doc

\* The values a condition is tried on: those of an array, or the field's own.
Values(doc, field) ==
  IF ~Has(doc, field) THEN {}
  ELSE IF field \in ArrayFields THEN Range(doc[field]) ELSE {doc[field]}

TypeNumber(doc, field) ==
  IF field \in ArrayFields THEN 4
  ELSE IF field \in DateFields THEN (IF doc[field] = "date" THEN 9 ELSE 17) ELSE 16

\* Bound: the bits looked at, enough for the numbers in use.
Places == 0 .. 7

Bits(v) == {i \in Places : (v \div 2 ^ i) % 2 = 1}

\* Does a value compare with the argument as the operator says?
Compares(key, arg, v) ==
  CASE key = "$eq" -> v = arg    [] key = "$ne" -> v # arg
    [] key = "$gt" -> v > arg    [] key = "$gte" -> v >= arg
    [] key = "$lt" -> v < arg    [] key = "$lte" -> v <= arg
    [] key = "$in" -> v \in Range(arg)
    [] key = "$nin" -> v \notin Range(arg)
    [] key = "$mod" -> v % arg[1] = arg[2]
    [] key = "$bitsAllSet" -> Bits(arg) \subseteq Bits(v)
    [] key = "$bitsAnySet" -> Bits(arg) \cap Bits(v) # {}
    [] key = "$bitsAllClear" -> Bits(arg) \cap Bits(v) = {}
    [] key = "$bitsAnyClear" -> ~(Bits(arg) \subseteq Bits(v))

\* Does a field of a document meet what one member of a condition asks for?
Meets(doc, field, key, arg) ==
  CASE key = "$ne" -> arg \notin Values(doc, field)
    [] key = "$nin" -> \A v \in Values(doc, field) : v \notin Range(arg)
    [] key = "$exists" -> Has(doc, field) = arg
    [] key = "$type" -> Has(doc, field) /\ TypeNumber(doc, field) = arg
    [] key = "$all" -> arg # <<>> /\ \A a \in Range(arg) : a \in Values(doc, field)
    [] key = "$size" -> field \in ArrayFields /\ Has(doc, field) /\ Len(doc[field]) = arg
    [] key = "$elemMatch" ->
         \E v \in Values(doc, field) : \A k \in DOMAIN arg : Compares(k, arg[k], v)
    [] OTHER -> \E v \in Values(doc, field) : Compares(key, arg, v)

ConditionKeys == {"$eq", "$ne", "$gt", "$gte", "$lt", "$lte", "$in", "$nin", "$not", "$exists",
  "$type", "$mod", "$all", "$elemMatch", "$size",
  "$bitsAllClear", "$bitsAllSet", "$bitsAnyClear", "$bitsAnySet"}

\* The places of a filter's conditions.
Conditions(filter) == {i \in DOMAIN filter : DOMAIN filter[i] \cap ConditionKeys # {}}

\* Which conditions of a filter does the field of a document meet?
Met(doc, field, filter) ==
  LET met[i \in Conditions(filter)] ==
        \A key \in DOMAIN filter[i] :
          IF key = "$not" THEN ~met[filter[i][key]] ELSE Meets(doc, field, key, filter[i][key])
  IN  met

Logic == {"$and", "$or", "$nor"}

\* Does a document match the filter?
Matches(doc, filter) ==
  LET matches[i \in DOMAIN filter \ Conditions(filter)] ==
        \A key \in DOMAIN filter[i] :
          LET arg == filter[i][key] IN
          IF key = "$and" THEN \A k \in DOMAIN arg : matches[arg[k]]
          ELSE IF key = "$or" THEN \E k \in DOMAIN arg : matches[arg[k]]
          ELSE IF key = "$nor" THEN \A k \in DOMAIN arg : ~matches[arg[k]]
          ELSE Met(doc, key, filter)[arg]
  IN  matches[Len(filter)]

Matching(docs, filter) == {id \in DOMAIN docs : Matches(docs[id], filter)}

-----------------------------------------------------------------------------
(* Updates. *)

Member(document, key, default) ==
  IF key \in DOMAIN document THEN document[key] ELSE default

\* The values to add: those of $each, or the one that is there itself.
Given(arg) == Member(arg, "$each", <<Member(arg, "value", 0)>>)

\* In ascending order, or descending if it is -1.
SortedBy(s, order) ==
  LET sorted[n \in 0 .. Len(s)] ==
        IF n = 0 THEN <<>>
        ELSE LET t == sorted[n - 1]
                 p == Cardinality({i \in DOMAIN t : t[i] * order <= s[n] * order})
             IN  SubSeq(t, 1, p) \o <<s[n]>> \o SubSeq(t, p + 1, Len(t))
  IN  sorted[Len(s)]

\* Without the values that are dropped.
Kept(s, dropped) ==
  LET kept[n \in 0 .. Len(s)] ==
        IF n = 0 THEN <<>>
        ELSE IF s[n] \in dropped THEN kept[n - 1] ELSE Append(kept[n - 1], s[n])
  IN  kept[Len(s)]

\* With the values that are not there yet.
AddedToSet(s, values) ==
  LET added[n \in 0 .. Len(values)] ==
        IF n = 0 THEN s
        ELSE IF values[n] \in Range(added[n - 1]) THEN added[n - 1]
        ELSE Append(added[n - 1], values[n])
  IN  added[Len(values)]

\* $push: the values go in at the position, counted from the end if negative;
\* then the array is sorted, then sliced.
Pushed(old, arg) ==
  LET position == Member(arg, "$position", Len(old))
      p        == IF position < 0 THEN Max({0, Len(old) + position})
                  ELSE Min({position, Len(old)})
      joined   == SubSeq(old, 1, p) \o Given(arg) \o SubSeq(old, p + 1, Len(old))
      sorted   == IF "$sort" \in DOMAIN arg THEN SortedBy(joined, arg["$sort"]) ELSE joined
      slice    == Member(arg, "$slice", Len(sorted))
  IN  IF slice >= 0 THEN SubSeq(sorted, 1, Min({slice, Len(sorted)}))
      ELSE SubSeq(sorted, Max({1, Len(sorted) + slice + 1}), Len(sorted))

\* Is a value of the array pulled?
Pulled(arg, v) == IF Has(arg, "value") THEN v = arg.value
                  ELSE \A k \in DOMAIN arg : Compares(k, arg[k], v)

\* The new value of a field which the document "has", then "old", or has not.
NewValue(key, arg, has, old) ==
  LET array == IF has THEN old ELSE <<>> IN
  CASE key = "$currentDate" -> IF Member(arg, "$type", "date") = "date" THEN "date" ELSE "timestamp"
    [] key = "$inc" -> IF has THEN old + arg ELSE arg
    [] key = "$mul" -> IF has THEN old * arg ELSE 0
    [] key = "$min" -> IF has THEN Min({old, arg}) ELSE arg
    [] key = "$max" -> IF has THEN Max({old, arg}) ELSE arg
    [] key \in {"$set", "$setOnInsert"} -> arg
    [] key = "$addToSet" -> AddedToSet(array, Given(arg))
    [] key = "$push" -> Pushed(array, arg)
    [] key = "$pop" -> IF array = <<>> THEN array
                       ELSE IF arg = -1 THEN Tail(array) ELSE Front(array)
    [] key = "$pull" -> Kept(array, {v \in Range(array) : Pulled(arg, v)})
    [] key = "$pullAll" -> Kept(array, Range(arg))

UpdateKeys == {"$currentDate", "$inc", "$min", "$max", "$mul", "$rename", "$set",
  "$setOnInsert", "$unset", "$addToSet", "$pop", "$pull", "$push", "$pullAll"}

\* A document after the update; "inserting" if an upsert makes it.
Updated(doc, update, inserting) ==
  LET key    == CHOOSE k \in DOMAIN update : TRUE
      fields == update[key]
      kept   == DOMAIN doc \ DOMAIN fields
      new    == CASE key = "$setOnInsert" /\ ~inserting -> {}
                  [] key \in {"$pop", "$pull", "$pullAll"} -> DOMAIN fields \cap DOMAIN doc
                  [] OTHER -> DOMAIN fields
  IN  CASE key = "$unset" -> [f \in kept |-> doc[f]]
        [] key = "$rename" ->
             LET moved == {f \in DOMAIN fields : f \in DOMAIN doc}
                 from(t) == CHOOSE f \in moved : fields[f] = t
                 targets == {fields[f] : f \in moved}
             IN  [f \in (DOMAIN doc \ moved) \cup targets |->
                    IF f \in targets THEN doc[from(f)] ELSE doc[f]]
        [] OTHER -> [f \in DOMAIN doc \cup new |->
                       IF f \in new
                         THEN NewValue(key, fields[f], Has(doc, f), Member(doc, f, 0))
                         ELSE doc[f]]

\* An upsert begins with the values its filter asks for.
FromFilter(filter) ==
  LET root == filter[Len(filter)]
  IN  [f \in {g \in DOMAIN root \ Logic : "$eq" \in DOMAIN filter[root[g]]} |-> filter[root[f]]["$eq"]]

-----------------------------------------------------------------------------
(* Commands. *)

\* lastErrorObject, as far as it is read: whether a document was updated, and the
\* id of one that an upsert stored, in a set.
LastError(updatedExisting, upserted) ==
  [updatedExisting |-> updatedExisting, upserted |-> upserted]

Outcome(docs, n, writeErrors, value, stored) ==
  [docs |-> docs, n |-> n, writeErrors |-> writeErrors, value |-> value,
   last |-> LastError(FALSE, {}), stored |-> stored]

\* The answer to a findAndModify has no n of its own.
NoCount == -1

Modification(docs, value, last) ==
  [docs |-> docs, n |-> NoCount, writeErrors |-> {}, value |-> value,
   last |-> last, stored |-> {}]

With(docs, id, doc) == [i \in DOMAIN docs \cup {id} |-> IF i = id THEN doc ELSE docs[i]]
Without(docs, ids)  == [i \in DOMAIN docs \ ids |-> docs[i]]

\* In order, a command goes on after an error only if it is not "ordered".
Stopped(m, o) == m.ordered /\ o.writeErrors # {}

\* The documents are taken one after the other, unless an id is there already.
Insert(docs, m) ==
  LET after[i \in 0 .. Len(m.documents)] ==
        IF i = 0 THEN Outcome(docs, 0, {}, {}, {})
        ELSE LET o == after[i - 1]
                 d == m.documents[i]
             IN  IF Stopped(m, o) THEN o
                 ELSE IF d._id \in DOMAIN o.docs
                   THEN Outcome(o.docs, o.n, o.writeErrors \cup {i}, {}, o.stored)
                   ELSE Outcome(With(o.docs, d._id, d.doc), o.n + 1, o.writeErrors, {}, o.stored \cup {i})
  IN  {after[Len(m.documents)]}

\* What a statement may remove.
Removable(docs, statement) ==
  LET matching == Matching(docs, statement.q)
  IN  IF statement.limit = 0 \/ matching = {} THEN {matching} ELSE {{id} : id \in matching}

\* The statements are carried out one after the other; any in "bad" fails.
Delete(docs, m, bad) ==
  LET one(o, i) ==
        IF Stopped(m, o) THEN {o}
        ELSE IF i \in bad THEN {Outcome(o.docs, o.n, o.writeErrors \cup {i}, {}, {})}
        ELSE {Outcome(Without(o.docs, ids), o.n + Cardinality(ids), o.writeErrors, {}, {}) :
                ids \in Removable(o.docs, m.deletes[i])}
      after[i \in 0 .. Len(m.deletes)] ==
        IF i = 0 THEN {Outcome(docs, 0, {}, {}, {})}
        ELSE UNION {one(o, i) : o \in after[i - 1]}
  IN  after[Len(m.deletes)]

\* "skip" of the documents are passed over, then "limit" counted: all, if 0.
Count(docs, m) ==
  LET rest == Max({0, Cardinality(Matching(docs, m.query)) - m.skip})
  IN  {Outcome(docs, IF m.limit = 0 THEN rest ELSE Min({m.limit, rest}), {}, {}, {})}

\* In the order of a sort no value comes before a number.
Lower(d, e, field) == Has(e, field) /\ (Has(d, field) => d[field] < e[field])

Precedes(d, e, sort) ==
  \E i \in DOMAIN sort :
    /\ \A j \in 1 .. i - 1 : ~Lower(d, e, sort[j][1]) /\ ~Lower(e, d, sort[j][1])
    /\ IF sort[i][2] = 1 THEN Lower(d, e, sort[i][1]) ELSE Lower(e, d, sort[i][1])

First(docs, ids, sort) == {id \in ids : \A x \in ids : ~Precedes(docs[x], docs[id], sort)}

\* The update of a findAndModify consists of operators, or is a replacement; the
\* value returned is the document before, or after if the command says "new".
FindAndModify(docs, m, freshIds) ==
  LET matching == Matching(docs, m.query)
      new(doc, inserting) ==
        IF DOMAIN m.update \subseteq UpdateKeys /\ DOMAIN m.update # {}
          THEN Updated(doc, m.update, inserting) ELSE m.update
  IN  IF matching # {}
        THEN {IF m.remove
                THEN Modification(Without(docs, {id}), {docs[id]}, LastError(FALSE, {}))
              ELSE LET doc == new(docs[id], FALSE)
                   IN  Modification(With(docs, id, doc), {IF m.new THEN doc ELSE docs[id]},
                                    LastError(TRUE, {})) : id \in First(docs, matching, m.sort)}
      ELSE IF m.upsert
        THEN LET doc == new(FromFilter(m.query), TRUE)
             IN  {Modification(With(docs, id, doc), {d \in {doc} : m.new}, LastError(FALSE, {id})) :
                    id \in freshIds}
      ELSE {Modification(docs, {}, LastError(FALSE, {}))}

===============================================================================
