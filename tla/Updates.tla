-------------------------------- MODULE Updates --------------------------------
(***************************************************************************)
(* The types of MongoUpdate.h that a program composes updates from, as the *)
(* documents they are written as: see Queries.                             *)
(*                                                                         *)
(* An update is the operator's name with the field and the argument of     *)
(* each Access it is applied to.  An argument of Push or AddToSet may be   *)
(* an Each, Position, Slice or Sort, one of Pull a condition.              *)
(***************************************************************************)
EXTENDS Queries

-----------------------------------------------------------------------------
(* What an Access of an update is made with. *)

SetDate      == Doc("$type", "date")
SetTimeStamp == Doc("$type", "timestamp")

SortOrder == [Ascending |-> 1, Descending |-> -1]

\* The values to add, and how.
Extended(values, name, value) == [n \in {"$each", name} |-> IF n = name THEN value ELSE values]

Each(init)     == Doc("$each", init)
Position(init) == Extended(init[1], "$position", init[2])
Slice(init)    == Extended(init[1], "$slice", init[2])
Sort(init)     == Extended(init[1], "$sort", SortOrder[init[2]])

-----------------------------------------------------------------------------
(* The operators. *)

CurrentDate(fields) == Doc("$currentDate", fields)
Inc(fields)         == Doc("$inc", fields)
Min(fields)         == Doc("$min", fields)
Max(fields)         == Doc("$max", fields)
Mul(fields)         == Doc("$mul", fields)
Rename(fields)      == Doc("$rename", fields)
Set(fields)         == Doc("$set", fields)
SetOnInsert(fields) == Doc("$setOnInsert", fields)
Unset(fields)       == Doc("$unset", fields)
AddToSet(fields)    == Doc("$addToSet", fields)
PopFront(fields)    == Doc("$pop", fields)
PopBack(fields)     == Doc("$pop", fields)
Pull(fields)        == Doc("$pull", fields)
Push(fields)        == Doc("$push", fields)
PullAll(fields)     == Doc("$pullAll", fields)

UpdateOps == {"CurrentDate", "Inc", "Min", "Max", "Mul", "Rename", "Set", "SetOnInsert", "Unset",
  "AddToSet", "PopFront", "PopBack", "Pull", "Push", "PullAll"}

\* A value where there may also be a document, which has its own type in BSON.
Plain(value) == [value |-> value]

\* The value a field's Access is given: by the operator's constructor for those
\* that take no argument.
Param(op, arg) ==
  CASE op = "CurrentDate" -> (CASE arg = "bool" -> Plain(TRUE) [] arg = "SetDate" -> SetDate
                                [] arg = "SetTimeStamp" -> SetTimeStamp)
    [] op = "Unset" -> ""
    [] op = "PopFront" -> -1
    [] op = "PopBack" -> 1
    [] op \in {"Push", "AddToSet"} ->
         (CASE arg.op = "Value" -> Plain(arg.arg)
            [] arg.op = "Each" -> Each(arg.arg)
            [] arg.op = "Position" -> Position(arg.arg)
            [] arg.op = "Slice" -> Slice(arg.arg)
            [] arg.op = "Sort" -> Sort(arg.arg))
    [] op = "Pull" -> IF arg.op = "Value" THEN Plain(arg.arg) ELSE Part(arg)
    [] OTHER -> arg

\* Actions: the members of all Accesses are written into one document.
Actions(u) ==
  [field \in {u.on[i].field : i \in DOMAIN u.on} |->
     Param(u.op, u.on[CHOOSE i \in DOMAIN u.on : u.on[i].field = field].arg)]

WrittenUpdate(u) ==
  LET fields == Actions(u)
  IN  CASE u.op = "CurrentDate" -> CurrentDate(fields)
        [] u.op = "Inc" -> Inc(fields) [] u.op = "Min" -> Min(fields)
        [] u.op = "Max" -> Max(fields) [] u.op = "Mul" -> Mul(fields)
        [] u.op = "Rename" -> Rename(fields) [] u.op = "Set" -> Set(fields)
        [] u.op = "SetOnInsert" -> SetOnInsert(fields) [] u.op = "Unset" -> Unset(fields)
        [] u.op = "AddToSet" -> AddToSet(fields)
        [] u.op = "PopFront" -> PopFront(fields) [] u.op = "PopBack" -> PopBack(fields)
        [] u.op = "Pull" -> Pull(fields) [] u.op = "Push" -> Push(fields)
        [] u.op = "PullAll" -> PullAll(fields)

===============================================================================
