------------------------------ MODULE MCDocuments ------------------------------
(***************************************************************************)
(* Documents of at most three fields and the update's two more, with every *)
(* operator of MongoQuery.h in a filter that is counted, and every one of  *)
(* MongoUpdate.h in an update.                                             *)
(***************************************************************************)
EXTENDS Documents, TLC

A(field, op, arg) == <<[op |-> op, arg |-> arg], [op |-> "Access", field |-> field, arg |-> 1]>>
Not1(field, op, arg) == <<[op |-> op, arg |-> arg], [op |-> "Not", arg |-> 1],
                          [op |-> "Access", field |-> field, arg |-> 2]>>

\* A part that is "by" places further down.
Moved(part, by) ==
  IF part.op \in {"Access", "Not"} THEN [part EXCEPT !.arg = @ + by]
  ELSE IF part.op \in {"And", "Or", "Nor"} THEN [part EXCEPT !.arg = [k \in DOMAIN @ |-> @[k] + by]]
  ELSE part

\* An operator on one or two expressions.
C1(op, e) == Append(e, [op |-> op, arg |-> <<Len(e)>>])
C(op, e, f) ==
  e \o [i \in DOMAIN f |-> Moved(f[i], Len(e))] \o
  <<[op |-> op, arg |-> <<Len(e), Len(e) + Len(f)>>]>>

Arrays == {"food"}
Dates  == {"bDay"}

Young == "age" :> 1 @@ "food" :> <<2, 1>>
Old   == "age" :> 2 @@ "food" :> <<1, 1, 3>> @@ "bDay" :> "date"

Stored == {<<>>, "a" :> Young, "a" :> Young @@ "b" :> Old}

New == <<Young, "age" :> 3>>

Comparisons ==
  <<A("age", "Eq", 1), A("age", "Ne", 1), A("age", "Gt", 1), A("age", "Gte", 2),
    A("age", "Lt", 2), A("age", "Lte", 1), A("age", "In", <<1, 3>>), A("age", "Nin", <<1, 3>>),
    A("age", "Mod", <<2, 1>>), A("bDay", "Exists", TRUE), A("bDay", "Exists", FALSE),
    A("bDay", "Type", "Date"), A("bDay", "Type", "Timestamp"), A("food", "Type", "Array"),
    A("age", "Type", "Int32"), A("age", "AllClear", 2), A("age", "AllSet", 3),
    A("age", "AnyClear", 3), A("age", "AnySet", 2)>>

OnArrays ==
  <<A("food", "Eq", 2), A("food", "Ne", 2), A("food", "Gt", 2), A("food", "All", <<1, 2>>),
    A("food", "Size", 3), A("food", "In", <<3>>),
    A("food", "ElemMatch", "$gt" :> 1 @@ "$lt" :> 3), A("food", "ElemMatch", "$ne" :> 1 @@ "$lte" :> 2),
    A("food", "ElemMatch", "$gte" :> 3)>>

Composed ==
  <<C("And", A("food", "Gt", 1), A("food", "Lt", 3)),
    C("Or", A("age", "Eq", 1), A("food", "Size", 3)),
    C("Nor", A("age", "Eq", 1), A("food", "Size", 3)),
    Not1("age", "Gt", 1), Not1("food", "ElemMatch", [n \in {"$gt"} |-> 1]),
    C("And", C("Or", A("age", "Lt", 2), A("age", "Gt", 2)), C1("Nor", A("food", "Eq", 3))),
    <<[op |-> "Any"]>>>>

AllFilters == Comparisons \o OnArrays \o Composed

SearchFor == <<A("age", "Eq", 1), A("food", "Gt", 1)>>

AllOrNext == {<<0, 0>>, <<1, 1>>}

NoneOrBoth ==
  {<<FALSE, FALSE, <<>>>>, <<TRUE, TRUE, <<>>>>,
   <<FALSE, FALSE, <<<<"was", "Ascending">>, <<"age", "Descending">>>>>>}

On(field, arg) == [field |-> field, arg |-> arg]
U(op, field, arg) == [op |-> op, on |-> <<On(field, arg)>>]
V(arg)            == [op |-> "Value", arg |-> arg]

Numbers ==
  <<U("Inc", "age", 1), U("Mul", "age", 2), U("Min", "age", 1), U("Max", "age", 2),
    U("Set", "age", 3), U("SetOnInsert", "age", 3), U("Rename", "age", "was"), U("Unset", "age", ""),
    U("CurrentDate", "bDay", "bool"), U("CurrentDate", "bDay", "SetDate"),
    U("CurrentDate", "bDay", "SetTimeStamp"),
    [op |-> "Set", on |-> <<On("age", 0), On("was", 2)>>],
    [op |-> "SetOnInsert", on |-> <<On("age", 0), On("was", 2)>>]>>

OfArrays ==
  <<U("AddToSet", "food", V(2)), U("AddToSet", "food", [op |-> "Each", arg |-> <<3, 2, 3>>]),
    U("PopFront", "food", ""), U("PopBack", "food", ""), U("Pull", "food", V(1)),
    U("Pull", "food", [op |-> "Lt", arg |-> 2]), U("PullAll", "food", <<1, 2>>),
    U("Push", "food", V(2)), U("Push", "food", [op |-> "Each", arg |-> <<3, 0>>]),
    U("Push", "food", [op |-> "Position", arg |-> <<<<0, 3>>, 1>>]),
    U("Push", "food", [op |-> "Position", arg |-> <<<<0, 3>>, -1>>]),
    U("Push", "food", [op |-> "Slice", arg |-> <<<<0>>, 2>>]),
    U("Push", "food", [op |-> "Slice", arg |-> <<<<0>>, -2>>]),
    U("Push", "food", [op |-> "Sort", arg |-> <<<<2, 0>>, "Ascending">>]),
    U("Push", "food", [op |-> "Sort", arg |-> <<<<0, 2>>, "Descending">>])>>

AllUpdates == Numbers \o OfArrays

===============================================================================
