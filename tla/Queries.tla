-------------------------------- MODULE Queries --------------------------------
(***************************************************************************)
(* The types of MongoQuery.h that a program composes filters from, as the  *)
(* documents they are written as: a class template is an operator on the   *)
(* value its constructor takes, its traits say under which names the       *)
(* members are written.  A document is a function from names to values.    *)
(*                                                                         *)
(* What a program composes is an expression, the sequence of its parts: an *)
(* operator's name with its argument, and for an Access the field it is    *)
(* on.  Where the argument is a part itself it is given by its place,      *)
(* which is before that of the part it belongs to; the last is the whole.  *)
(* What is written is a sequence as well, with the document of each part   *)
(* in its place, so that serializing is one step for each part.            *)
(*                                                                         *)
(* An operator whose comment begins with "Mistaken" is a variant of the    *)
(* one after it that nothing uses: a plausible mistake, which a property   *)
(* has to notice when it takes the place of the original.                  *)
(***************************************************************************)
EXTENDS Integers, Sequences

\* A document with one member.
Doc(name, value) == [n \in {name} |-> value]

-----------------------------------------------------------------------------
(* Comparisons. *)

Eq(init)  == Doc("$eq", init)
Ne(init)  == Doc("$ne", init)
Gt(init)  == Doc("$gt", init)
Gte(init) == Doc("$gte", init)
Lt(init)  == Doc("$lt", init)
Lte(init) == Doc("$lte", init)
In(init)  == Doc("$in", init)
Nin(init) == Doc("$nin", init)

(* Logic.  The arguments are written as an array: of places, here. *)

And(args) == Doc("$and", args)
Or(args)  == Doc("$or", args)

Nor(args) == Doc("$nor", args)
Not(init) == Doc("$not", init)

(* Elements and their values.  A type is written as its number. *)

BsonType == [Array |-> 4, Date |-> 9, Int32 |-> 16, Timestamp |-> 17]

Exists(init) == Doc("$exists", init)
Type(type)   == Doc("$type", BsonType[type])
Mod(init)    == Doc("$mod", <<init[1], init[2]>>)

(* Arrays.  The members of Elements are optional and written if they are set. *)

All(init)       == Doc("$all", init)
ElementNames    == {"$eq", "$ne", "$gt", "$gte", "$lt", "$lte"}
Elements(init)  == init
ElemMatch(init) == Doc("$elemMatch", Elements(init))
Size(init)      == Doc("$size", init)

(* Bits. *)

AllClear(init) == Doc("$bitsAllClear", init)
AllSet(init)   == Doc("$bitsAllSet", init)
AnyClear(init) == Doc("$bitsAnyClear", init)
AnySet(init)   == Doc("$bitsAnySet", init)

-----------------------------------------------------------------------------
\* ThorsMongo_CreateFieldAccess: the operator is the value of the field.
Access(field, value) == Doc(field, value)

\* The filter that finds everything has no members.
AnyFilter == <<>>

\* The kinds of parts: conditions on a field, and filters.
ConditionOps == {"Eq", "Ne", "Gt", "Gte", "Lt", "Lte", "In", "Nin", "Not", "Exists", "Type",
  "Mod", "All", "ElemMatch", "Size", "AllClear", "AllSet", "AnyClear", "AnySet"}
FilterOps == {"Any", "Access", "And", "Or", "Nor"}

\* The traits: what a part is written as.
Part(e) ==
  CASE e.op = "Access" -> Access(e.field, e.arg)
    [] e.op = "Any" -> AnyFilter
    [] e.op = "And" -> And(e.arg) [] e.op = "Or" -> Or(e.arg)
    [] e.op = "Nor" -> Nor(e.arg) [] e.op = "Not" -> Not(e.arg)
    [] e.op = "Eq"  -> Eq(e.arg)  [] e.op = "Ne"  -> Ne(e.arg)
    [] e.op = "Gt"  -> Gt(e.arg)  [] e.op = "Gte" -> Gte(e.arg)
    [] e.op = "Lt"  -> Lt(e.arg)  [] e.op = "Lte" -> Lte(e.arg)
    [] e.op = "In"  -> In(e.arg)  [] e.op = "Nin" -> Nin(e.arg)
    [] e.op = "Exists" -> Exists(e.arg) [] e.op = "Type" -> Type(e.arg)
    [] e.op = "Mod" -> Mod(e.arg) [] e.op = "All" -> All(e.arg)
    [] e.op = "ElemMatch" -> ElemMatch(e.arg) [] e.op = "Size" -> Size(e.arg)
    [] e.op = "AllClear" -> AllClear(e.arg) [] e.op = "AllSet" -> AllSet(e.arg)
    [] e.op = "AnyClear" -> AnyClear(e.arg) [] e.op = "AnySet" -> AnySet(e.arg)

Written(e) == [i \in DOMAIN e |-> Part(e[i])]

\* What the server takes of all that the types let a program compose: the argument
\* of a logical operator is a filter, and that of Not and of an Access a condition.
WellFormed(e) ==
  LET part(i, ops, n) == i \in 1 .. n - 1 /\ e[i].op \in ops
  IN  /\ Len(e) \in Nat \ {0} /\ DOMAIN e = 1 .. Len(e) /\ e[Len(e)].op \in FilterOps
      /\ \A i \in DOMAIN e :
           /\ e[i].op \in ConditionOps \cup FilterOps
           /\ e[i].op \in {"Access", "Not"} => part(e[i].arg, ConditionOps, i)
           /\ e[i].op \in {"And", "Or", "Nor"} =>
                \A k \in DOMAIN e[i].arg : part(e[i].arg[k], FilterOps, i)
           /\ e[i].op = "Exists" => e[i].arg \in BOOLEAN
           /\ e[i].op = "Type" => e[i].arg \in DOMAIN BsonType
           /\ e[i].op = "ElemMatch" => DOMAIN e[i].arg \subseteq ElementNames

-----------------------------------------------------------------------------
(* A statement of remove(). *)

\* Mistaken: One is written as no limit and All as a limit.
RemoveStatementSwapped(q) ==
  [q |-> Written(q.filter), limit |-> IF q.remove = "One" THEN 0 ELSE 1]

\* Query: a filter and how many of the documents that match are removed.
RemoveStatement(q) ==
  [q |-> Written(q.filter), limit |-> IF q.remove = "One" THEN 1 ELSE 0]

===============================================================================
