---------------------------- MODULE ExpressionsProofs ----------------------------
(***************************************************************************)
(* What the server makes of the filters and updates that Queries and       *)
(* Updates write, for all documents, filters and updates: a document       *)
(* matches what is written of a filter if, and only if, the filter wants   *)
(* it, and what is written of an update changes it as the types of the     *)
(* update promise.                                                         *)
(***************************************************************************)
EXTENDS Documents, FiniteSetTheorems, FunctionTheorems, SequenceTheorems,
        WellFoundedInduction, TLAPS

-----------------------------------------------------------------------------
(* Recursive functions.  A definition of one is what it says of itself, because *)
(* there is such a function: the same argument for each, as the step of a       *)
(* recursion cannot be a parameter of a lemma.                                  *)

\* A set of numbers that is not empty has a least.
LEMMA LeastNat ==
  ASSUME NEW T, T \subseteq Nat, T # {}
  PROVE  \E k \in T : \A j \in T : k <= j
<1> DEFINE R == {pair \in Nat \X Nat : pair[1] < pair[2]}
<1>1. IsWellFoundedOn(R, Nat)
  BY NatLessThanWellFounded DEF OpToRel
<1>2. PICK k \in T : \A j \in T : ~(<<j, k>> \in R)
  <2> HIDE DEF R
  <2> QED BY <1>1, WFMin
<1>3. \A j \in T : ~(j < k)
  BY <1>2
<1> QED BY <1>3

\* Induction up to a bound, over a set.
LEMMA UpTo ==
  ASSUME NEW n \in Nat, NEW T, 0 \in T, \A i \in 0 .. n - 1 : i \in T => i + 1 \in T
  PROVE  \A i \in 0 .. n : i \in T
<1> DEFINE B == {i \in 0 .. n : i \notin T}
<1>1. SUFFICES ASSUME B # {} PROVE FALSE
  OBVIOUS
<1>2. PICK k \in B : \A j \in B : k <= j
  <2>1. B \subseteq Nat
    OBVIOUS
  <2> HIDE DEF B
  <2> QED BY <1>1, <2>1, LeastNat
<1>3. k - 1 \in 0 .. n - 1 /\ k - 1 \notin B /\ (k - 1) + 1 = k
  BY <1>2
<1> QED BY <1>2, <1>3

\* What is kept of an array is kept one value after the other.
LEMMA KeptIs ==
  ASSUME NEW s, Len(s) \in Nat, NEW dropped
  PROVE  \E f : /\ Server!Kept(s, dropped) = f[Len(s)] /\ f[0] = <<>>
                /\ \A i \in 1 .. Len(s) :
                     f[i] = IF s[i] \in dropped THEN f[i - 1] ELSE Append(f[i - 1], s[i])
<1> DEFINE n == Len(s)
           Step(t, i) == IF s[i] \in dropped THEN t ELSE Append(t, s[i])
           Is(f, k) == f = [i \in 0 .. k |-> IF i = 0 THEN <<>> ELSE Step(f[i - 1], i)]
           T == {k \in 0 .. n : \E f : Is(f, k)}
<1>1. Server!Kept(s, dropped) = (CHOOSE f : Is(f, n))[n]
  BY DEF Server!Kept
<1> HIDE DEF Step
<1>2. 0 \in T
  <2> DEFINE f0 == [i \in 0 .. 0 |-> <<>>]
  <2>1. Is(f0, 0)
    OBVIOUS
  <2> HIDE DEF Is, f0
  <2>2. 0 \in 0 .. n
    OBVIOUS
  <2> QED BY <2>1, <2>2
<1>3. ASSUME NEW k \in 0 .. n - 1, k \in T
      PROVE  k + 1 \in T
  <2>1. PICK f : Is(f, k)
    BY <1>3
  <2> DEFINE g == [i \in 0 .. k + 1 |-> IF i = k + 1 THEN Step(f[k], k + 1) ELSE f[i]]
  <2>2. Is(g, k + 1)
    <3>1. \A i \in 0 .. k + 1 : g[i] = IF i = 0 THEN <<>> ELSE Step(g[i - 1], i)
      BY <2>1
    <3> QED BY <3>1
  <2> HIDE DEF Is, g
  <2>3. k + 1 \in 0 .. n
    OBVIOUS
  <2> QED BY <2>2, <2>3
<1>4. \E f : Is(f, n)
  <2> HIDE DEF Is
  <2>1. \A k \in 0 .. n : k \in T
    <3> HIDE DEF T
    <3> QED BY <1>2, <1>3, UpTo
  <2> QED BY <2>1
<1>5. Is(CHOOSE f : Is(f, n), n)
  <2> HIDE DEF Is
  <2> QED BY <1>4
<1> DEFINE h == CHOOSE f : Is(f, n)
<1>6. h[0] = <<>> /\ \A i \in 1 .. n : h[i] = Step(h[i - 1], i)
  <2> HIDE DEF h
  <2>1. Is(h, n)
    BY <1>5 DEF h
  <2> QED BY <2>1
<1> QED BY <1>1, <1>6 DEF Step

\* The server counts like everyone.
LEMMA ServerCounts == \A S : Server!Cardinality(S) = Cardinality(S)
BY DEF Server!Cardinality, Cardinality, Server!IsFiniteSet, IsFiniteSet

\* One more value in a sorted array.
Placed(t, v, order) ==
  LET p == Server!Cardinality({i \in DOMAIN t : t[i] * order <= v * order})
  IN  SubSeq(t, 1, p) \o <<v>> \o SubSeq(t, p + 1, Len(t))

\* "f" adds to "s" the first so many of the values.
AddedSteps(f, s, values) ==
  /\ f[0] = s
  /\ \A i \in 1 .. Len(values) :
       f[i] = IF values[i] \in Server!Range(f[i - 1]) THEN f[i - 1] ELSE Append(f[i - 1], values[i])

\* $addToSet takes the values one after the other.
LEMMA AddedToSetIs ==
  ASSUME NEW s, NEW values, Len(values) \in Nat
  PROVE  \E f : Server!AddedToSet(s, values) = f[Len(values)] /\ AddedSteps(f, s, values)
<1> DEFINE n == Len(values)
           Base == s
           Step(t, i) == IF values[i] \in Server!Range(t) THEN t ELSE Append(t, values[i])
           Is(f, k) == f = [i \in 0 .. k |-> IF i = 0 THEN Base ELSE Step(f[i - 1], i)]
           T == {k \in 0 .. n : \E f : Is(f, k)}
<1>1. Server!AddedToSet(s, values) = (CHOOSE f : Is(f, n))[n]
  BY DEF Server!AddedToSet
<1> HIDE DEF Step, Base
<1>2. 0 \in T
  <2> DEFINE f0 == [i \in 0 .. 0 |-> Base]
  <2>1. Is(f0, 0)
    <3>1. \A i \in 0 .. 0 : f0[i] = IF i = 0 THEN Base ELSE Step(f0[i - 1], i)
      OBVIOUS
    <3> QED BY <3>1
  <2> HIDE DEF Is, f0
  <2>2. 0 \in 0 .. n
    OBVIOUS
  <2> QED BY <2>1, <2>2
<1>3. ASSUME NEW k \in 0 .. n - 1, k \in T
      PROVE  k + 1 \in T
  <2>1. PICK f : Is(f, k)
    BY <1>3
  <2> DEFINE g == [i \in 0 .. k + 1 |-> IF i = k + 1 THEN Step(f[k], k + 1) ELSE f[i]]
  <2>2. Is(g, k + 1)
    <3>1. \A i \in 0 .. k + 1 : g[i] = IF i = 0 THEN Base ELSE Step(g[i - 1], i)
      BY <2>1
    <3> QED BY <3>1
  <2> HIDE DEF Is, g
  <2>3. k + 1 \in 0 .. n
    OBVIOUS
  <2> QED BY <2>2, <2>3
<1>4. \E f : Is(f, n)
  <2> HIDE DEF Is
  <2>1. \A k \in 0 .. n : k \in T
    <3> HIDE DEF T
    <3> QED BY <1>2, <1>3, UpTo
  <2> QED BY <2>1
<1>5. Is(CHOOSE f : Is(f, n), n)
  <2> HIDE DEF Is
  <2> QED BY <1>4
<1> DEFINE h == CHOOSE f : Is(f, n)
<1>6. h[0] = Base /\ \A i \in 1 .. n : h[i] = Step(h[i - 1], i)
  <2> HIDE DEF h
  <2>1. Is(h, n)
    BY <1>5 DEF h
  <2>2. n \in Nat
    OBVIOUS
  <2> HIDE DEF n
  <2>3. h[0] = Base
    BY <2>1, <2>2
  <2>4. \A i \in 1 .. n : h[i] = Step(h[i - 1], i)
    BY <2>1, <2>2
  <2> QED BY <2>3, <2>4
<1> QED BY <1>1, <1>6 DEF Step, Base, AddedSteps

\* The sort puts one value after the other in its place.
LEMMA SortedByIs ==
  ASSUME NEW s, Len(s) \in Nat, NEW order
  PROVE  \E f : /\ Server!SortedBy(s, order) = f[Len(s)] /\ f[0] = <<>>
                /\ \A i \in 1 .. Len(s) : f[i] = Placed(f[i - 1], s[i], order)
<1> DEFINE n == Len(s)
           Base == <<>>
           Step(t, i) == Placed(t, s[i], order)
           Is(f, k) == f = [i \in 0 .. k |-> IF i = 0 THEN Base ELSE Step(f[i - 1], i)]
           T == {k \in 0 .. n : \E f : Is(f, k)}
<1>1. Server!SortedBy(s, order) = (CHOOSE f : Is(f, n))[n]
  BY DEF Server!SortedBy, Placed
<1> HIDE DEF Step, Base
<1>2. 0 \in T
  <2> DEFINE f0 == [i \in 0 .. 0 |-> Base]
  <2>1. Is(f0, 0)
    <3>1. \A i \in 0 .. 0 : f0[i] = IF i = 0 THEN Base ELSE Step(f0[i - 1], i)
      OBVIOUS
    <3> QED BY <3>1
  <2> HIDE DEF Is, f0
  <2>2. 0 \in 0 .. n
    OBVIOUS
  <2> QED BY <2>1, <2>2
<1>3. ASSUME NEW k \in 0 .. n - 1, k \in T
      PROVE  k + 1 \in T
  <2>1. PICK f : Is(f, k)
    BY <1>3
  <2> DEFINE g == [i \in 0 .. k + 1 |-> IF i = k + 1 THEN Step(f[k], k + 1) ELSE f[i]]
  <2>2. Is(g, k + 1)
    <3>1. \A i \in 0 .. k + 1 : g[i] = IF i = 0 THEN Base ELSE Step(g[i - 1], i)
      BY <2>1
    <3> QED BY <3>1
  <2> HIDE DEF Is, g
  <2>3. k + 1 \in 0 .. n
    OBVIOUS
  <2> QED BY <2>2, <2>3
<1>4. \E f : Is(f, n)
  <2> HIDE DEF Is
  <2>1. \A k \in 0 .. n : k \in T
    <3> HIDE DEF T
    <3> QED BY <1>2, <1>3, UpTo
  <2> QED BY <2>1
<1>5. Is(CHOOSE f : Is(f, n), n)
  <2> HIDE DEF Is
  <2> QED BY <1>4
<1> DEFINE h == CHOOSE f : Is(f, n)
<1>6. h[0] = Base /\ \A i \in 1 .. n : h[i] = Step(h[i - 1], i)
  <2> HIDE DEF h
  <2>1. Is(h, n)
    BY <1>5 DEF h
  <2>2. n \in Nat
    OBVIOUS
  <2> HIDE DEF n
  <2>3. h[0] = Base
    BY <2>1, <2>2
  <2>4. \A i \in 1 .. n : h[i] = Step(h[i - 1], i)
    BY <2>1, <2>2
  <2> QED BY <2>3, <2>4
<1> QED BY <1>1, <1>6 DEF Step, Base

-----------------------------------------------------------------------------
(* Filters. *)

\* The values that the server tries are those the condition speaks of.
LEMMA SomeIsValues ==
  ASSUME NEW d, NEW field
  PROVE  Server!Values(d, field) = Promise!Some(d, field)
BY DEF Server!Values, Promise!Some, Server!Has, Promise!Has, Server!Range, Promise!Range

\* The server and DocumentSet speak of the same values of an array.
LEMMA RangeIs == \A f : Server!Range(f) = Promise!Range(f) /\ Promise!Range(f) = {f[x] : x \in DOMAIN f}
BY DEF Server!Range, Promise!Range

\* Bits are compared alike.
LEMMA BitsAre ==
  ASSUME NEW arg, NEW v
  PROVE  /\ (Server!Bits(arg) \subseteq Server!Bits(v)) <=> \A i \in Promise!Mask(arg) : Promise!Bit(v, i)
         /\ (Server!Bits(arg) \cap Server!Bits(v) = {}) <=> \A i \in Promise!Mask(arg) : ~Promise!Bit(v, i)
<1>1. Server!Bits(arg) = Promise!Mask(arg)
  BY DEF Server!Bits, Promise!Mask, Promise!Bit, Server!Places
<1>2. \A i \in Promise!Mask(arg) : i \in Server!Bits(v) <=> Promise!Bit(v, i)
  BY DEF Server!Bits, Promise!Mask, Promise!Bit, Server!Places
<1> QED BY <1>1, <1>2

\* The conditions on single values.
ValueOps == {"Eq", "Ne", "Gt", "Gte", "Lt", "Lte", "In", "Nin", "Mod", "AllClear", "AllSet", "AnyClear", "AnySet"}

\* The names conditions are written under, and what with.
Key == [Eq |-> "$eq", Ne |-> "$ne", Gt |-> "$gt", Gte |-> "$gte", Lt |-> "$lt", Lte |-> "$lte",
        In |-> "$in", Nin |-> "$nin", Mod |-> "$mod", AllClear |-> "$bitsAllClear",
        AllSet |-> "$bitsAllSet", AnyClear |-> "$bitsAnyClear", AnySet |-> "$bitsAnySet",
        Exists |-> "$exists", Type |-> "$type", All |-> "$all", ElemMatch |-> "$elemMatch",
        Size |-> "$size", Not |-> "$not"]

Argument(c) == CASE c.op = "Mod" -> <<c.arg[1], c.arg[2]>>
                 [] c.op = "Type" -> BsonType[c.arg]
                 [] OTHER -> c.arg

\* A condition is written as its name with its argument.
LEMMA PartIs ==
  ASSUME NEW c, c.op \in ConditionOps
  PROVE  Part(c) = Doc(Key[c.op], Argument(c))
<1> USE DEF Part, Key, Argument, ConditionOps
<1>1. CASE c.op \in {"Eq", "Ne", "Gt", "Gte", "Lt", "Lte"}
  BY <1>1 DEF Eq, Ne, Gt, Gte, Lt, Lte
<1>2. CASE c.op \in {"In", "Nin", "Not", "Exists", "Type", "Mod"}
  BY <1>2 DEF In, Nin, Not, Exists, Type, Mod
<1>3. CASE c.op \in {"All", "ElemMatch", "Size", "AllClear", "AllSet", "AnyClear", "AnySet"}
  BY <1>3 DEF All, ElemMatch, Elements, Size, AllClear, AllSet, AnyClear, AnySet
<1> QED BY <1>1, <1>2, <1>3

\* A written comparison holds of the values that the condition it is written for suits.
LEMMA ValueMeans ==
  ASSUME NEW c, c.op \in ValueOps, NEW v
  PROVE  Promise!Suits(v, c) \in BOOLEAN /\ (Server!Compares(Key[c.op], Argument(c), v) <=> Promise!Suits(v, c))
<1> USE DEF Server!Compares, Promise!Suits, Key, Argument
<1>1. CASE c.op = "Eq"
  BY <1>1
<1>2. CASE c.op = "Ne"
  BY <1>2
<1>3. CASE c.op = "Gt"
  BY <1>3
<1>4. CASE c.op = "Gte"
  BY <1>4
<1>5. CASE c.op = "Lt"
  BY <1>5
<1>6. CASE c.op = "Lte"
  BY <1>6
<1>7. CASE c.op = "In"
  BY <1>7, RangeIs
<1>8. CASE c.op = "Nin"
  BY <1>8, RangeIs
<1>9. CASE c.op = "Mod"
  BY <1>9
<1>10. CASE c.op = "AllClear"
  BY <1>10, BitsAre
<1>11. CASE c.op = "AllSet"
  BY <1>11, BitsAre
<1>12. CASE c.op = "AnyClear"
  BY <1>12, BitsAre
<1>13. CASE c.op = "AnySet"
  BY <1>13, BitsAre
<1> QED BY <1>1, <1>2, <1>3, <1>4, <1>5, <1>6, <1>7, <1>8, <1>9, <1>10, <1>11, <1>12, <1>13 DEF ValueOps

\* ElemMatch: the comparisons of a written element are those of the element.
LEMMA ElementMeans ==
  ASSUME NEW e, DOMAIN e \subseteq ElementNames, NEW v
  PROVE  (\A k \in DOMAIN e : Server!Compares(k, e[k], v)) <=> Promise!Element(v, e)
BY DEF Server!Compares, Promise!Element, ElementNames

\* A field meets a written condition if, and only if, it fits the condition.
LEMMA ConditionMeans ==
  ASSUME NEW d, IsDocument(d), NEW field, NEW c, c.op \in ConditionOps \ {"Not"},
         c.op = "Exists" => c.arg \in BOOLEAN, c.op = "Type" => c.arg \in DOMAIN BsonType,
         c.op = "ElemMatch" => DOMAIN c.arg \subseteq ElementNames
  PROVE  /\ Promise!Fits(d, field, c) \in BOOLEAN
         /\ Server!Meets(d, field, Key[c.op], Argument(c)) <=> Promise!Fits(d, field, c)
<1> DEFINE some == Promise!Some(d, field)
<1>1. some = Server!Values(d, field) /\ Server!Has(d, field) = Promise!Has(d, field)
  BY SomeIsValues DEF Server!Has, Promise!Has
<1> USE DEF Server!Meets, Promise!Fits
<1> HIDE DEF some
<1>2. CASE c.op \in ValueOps \ {"Ne", "Nin"}
  <2>1. \A v : Server!Compares(Key[c.op], Argument(c), v) <=> Promise!Suits(v, c)
    BY <1>2, ValueMeans
  <2>2. Key[c.op] \notin {"$ne", "$nin", "$exists", "$type", "$all", "$size", "$elemMatch"}
    BY <1>2 DEF Key, ValueOps
  <2>3. Server!Meets(d, field, Key[c.op], Argument(c)) <=> \E v \in some : Server!Compares(Key[c.op], Argument(c), v)
    BY <1>1, <2>2
  <2>4. Promise!Fits(d, field, c) = \E v \in some : Promise!Suits(v, c)
    BY <1>2 DEF some, ValueOps
  <2> QED BY <2>1, <2>3, <2>4
<1>3. CASE c.op = "Ne"
  BY <1>1, <1>3 DEF Key, Argument, some
<1>7. CASE c.op = "Nin"
  BY <1>1, <1>7, RangeIs DEF Key, Argument, some
<1>8. CASE c.op = "All"
  BY <1>1, <1>8, RangeIs DEF Key, Argument, some
<1>9. CASE c.op = "Exists"
  BY <1>1, <1>9 DEF Key, Argument, Promise!Has
<1>4. CASE c.op = "Size"
  BY <1>1, <1>4 DEF Key, Argument
<1>5. CASE c.op = "ElemMatch"
  <2>1. \A v : (\A k \in DOMAIN c.arg : Server!Compares(k, c.arg[k], v)) <=> Promise!Element(v, c.arg)
    BY <1>5, ElementMeans
  <2> QED BY <1>1, <1>5, <2>1 DEF Key, Argument, some
<1>6. CASE c.op = "Type"
  <2>1. c.arg \in {"Array", "Int32", "Date", "Timestamp"}
    BY <1>6 DEF BsonType
  <2>2. Server!Has(d, field) /\ field \in DateFields /\ field \notin ArrayFields => d[field] \in {"date", "timestamp"}
    BY DEF Server!Has, IsDocument, Holds
  <2>3. BsonType["Array"] = 4 /\ BsonType["Int32"] = 16 /\ BsonType["Date"] = 9 /\ BsonType["Timestamp"] = 17
    BY DEF BsonType
  <2>4. Promise!IsType(d, field, c.arg) \in BOOLEAN /\ (Promise!IsType(d, field, c.arg) <=> Server!Has(d, field) /\ Server!TypeNumber(d, field) = BsonType[c.arg])
    <3> USE <1>1, <2>2, <2>3, TypesAssumption DEF Promise!IsType, Server!TypeNumber
    <3>1. CASE c.arg = "Array"
      BY <3>1
    <3>2. CASE c.arg = "Int32"
      BY <3>2
    <3>3. CASE c.arg = "Date"
      BY <3>3
    <3>4. CASE c.arg = "Timestamp"
      BY <3>4
    <3> QED BY <2>1, <3>1, <3>2, <3>3, <3>4
  <2> QED BY <1>6, <2>4 DEF Key, Argument
<1> QED BY <1>2, <1>3, <1>4, <1>5, <1>6, <1>7, <1>8, <1>9 DEF ConditionOps, ValueOps

\* The conditions among the parts are the conditions among what is written.
LEMMA ConditionsAre ==
  ASSUME NEW e, IsFilter(e)
  PROVE  /\ Server!Conditions(Written(e)) = {j \in DOMAIN e : e[j].op \in ConditionOps}
         /\ DOMAIN Written(e) \ Server!Conditions(Written(e)) = {j \in DOMAIN e : e[j].op \in FilterOps}
<1>1. DOMAIN Written(e) = DOMAIN e /\ \A i \in DOMAIN e : Written(e)[i] = Part(e[i])
  BY DEF Written
<1>2. ASSUME NEW i \in DOMAIN e, e[i].op \in ConditionOps
      PROVE  DOMAIN Part(e[i]) \cap Server!ConditionKeys # {}
  <2>1. DOMAIN Part(e[i]) = {Key[e[i].op]}
    BY <1>2, PartIs DEF Doc
  <2>2. Key[e[i].op] \in Server!ConditionKeys
    BY <1>2 DEF Key, ConditionOps, Server!ConditionKeys
  <2> QED BY <2>1, <2>2
<1>3. ASSUME NEW i \in DOMAIN e, e[i].op \in FilterOps
      PROVE  DOMAIN Part(e[i]) \cap Server!ConditionKeys = {}
  <2>1. CASE e[i].op = "Access"
    <3>1. DOMAIN Part(e[i]) = {e[i].field} /\ e[i].field \in Fields
      BY <2>1 DEF Part, Access, Doc, IsFilter
    <3> QED BY <3>1, TypesAssumption
  <2>2. CASE e[i].op = "Any"
    BY <2>2 DEF Part, AnyFilter
  <2>3. CASE e[i].op \in {"And", "Or", "Nor"}
    <3>1. DOMAIN Part(e[i]) \subseteq {"$and", "$or", "$nor"}
      BY <2>3 DEF Part, And, Or, Nor, Doc
    <3> QED BY <3>1 DEF Server!ConditionKeys
  <2> QED BY <1>3, <2>1, <2>2, <2>3 DEF FilterOps
<1>4. ConditionOps \cap FilterOps = {}
  BY DEF ConditionOps, FilterOps
<1>5. \A i \in DOMAIN e : e[i].op \in ConditionOps \cup FilterOps
  BY DEF IsFilter, WellFormed
<1> QED BY <1>1, <1>2, <1>3, <1>4, <1>5 DEF Server!Conditions

\* A document meets the conditions that are written as it fits those composed.
LEMMA FittingIsMet ==
  ASSUME NEW d, IsDocument(d), NEW field, NEW e, IsFilter(e)
  PROVE  /\ Server!Met(d, field, Written(e)) = Promise!Fitting(d, field, e)
<1> DEFINE C == {j \in DOMAIN e : e[j].op \in ConditionOps}
           P(i, f) == \A key \in DOMAIN Written(e)[i] :
                        IF key = "$not" THEN ~f[Written(e)[i][key]]
                        ELSE Server!Meets(d, field, key, Written(e)[i][key])
           Q(i, f) == IF e[i].op = "Not" THEN ~f[e[i].arg] ELSE Promise!Fits(d, field, e[i])
<1>1. Server!Met(d, field, Written(e)) = CHOOSE f : f = [i \in C |-> P(i, f)]
  BY ConditionsAre DEF Server!Met
<1>2. Promise!Fitting(d, field, e) = CHOOSE f : f = [i \in C |-> Q(i, f)]
  BY DEF Promise!Fitting
<1>3. ASSUME NEW f, NEW i \in C
      PROVE  P(i, f) \in BOOLEAN /\ Q(i, f) \in BOOLEAN /\ P(i, f) = Q(i, f)
  <2>1. Written(e)[i] = Doc(Key[e[i].op], Argument(e[i]))
    BY PartIs DEF Written
  <2>2. P(i, f) <=> IF Key[e[i].op] = "$not" THEN ~f[Argument(e[i])]
                    ELSE Server!Meets(d, field, Key[e[i].op], Argument(e[i]))
    BY <2>1 DEF Doc
  <2>5. P(i, f) \in BOOLEAN
    OBVIOUS
  <2>3. CASE e[i].op = "Not"
    <3>1. Q(i, f) \in BOOLEAN
      BY <2>3
    <3>2. P(i, f) <=> Q(i, f)
      <4>1. Key[e[i].op] = "$not" /\ Argument(e[i]) = e[i].arg
        BY <2>3 DEF Key, Argument
      <4>2. Q(i, f) <=> ~f[e[i].arg]
        BY <2>3
      <4> HIDE DEF P, Q
      <4> QED BY <2>2, <4>1, <4>2
    <3> HIDE DEF P, Q
    <3> QED BY <2>5, <3>1, <3>2
  <2>4. CASE e[i].op # "Not"
    <3>1. /\ e[i].op = "Exists" => e[i].arg \in BOOLEAN
          /\ e[i].op = "Type" => e[i].arg \in DOMAIN BsonType
          /\ e[i].op = "ElemMatch" => DOMAIN e[i].arg \subseteq ElementNames
      BY DEF IsFilter, WellFormed
    <3>2. /\ Promise!Fits(d, field, e[i]) \in BOOLEAN
          /\ Server!Meets(d, field, Key[e[i].op], Argument(e[i])) <=> Promise!Fits(d, field, e[i])
      <4> DEFINE c == e[i]
      <4>1. c.op \in ConditionOps \ {"Not"}
        BY <2>4
      <4> HIDE DEF c
      <4>2. /\ Promise!Fits(d, field, c) \in BOOLEAN
            /\ Server!Meets(d, field, Key[c.op], Argument(c)) <=> Promise!Fits(d, field, c)
        BY <3>1, <4>1, ConditionMeans DEF c
      <4> QED BY <4>2 DEF c
    <3>3. Key[e[i].op] # "$not"
      BY <2>4 DEF Key, ConditionOps
    <3>4. Q(i, f) = Promise!Fits(d, field, e[i])
      BY <2>4
    <3> HIDE DEF P, Q
    <3> QED BY <2>2, <2>5, <3>2, <3>3, <3>4
  <2> QED BY <2>3, <2>4
<1> HIDE DEF P, Q, C
<1>4. \A f : f = [i \in C |-> P(i, f)] <=> f = [i \in C |-> Q(i, f)]
  BY <1>3
<1>5. (CHOOSE f : f = [i \in C |-> P(i, f)]) = (CHOOSE f : f = [i \in C |-> Q(i, f)])
  BY <1>4, Zenon
<1> QED BY <1>1, <1>2, <1>5

\* A document matches what is written of an expression if that wants it.
THEOREM MatchesIsWanted ==
  ASSUME NEW d, IsDocument(d), NEW e, IsFilter(e)
  PROVE  Server!Matches(d, Written(e)) = Promise!Wanted(d, e)
<1> DEFINE F == {j \in DOMAIN e : e[j].op \in FilterOps}
           W == Written(e)
           One(i, f, key, arg) ==
             IF key = "$and" THEN \A k \in DOMAIN arg : f[arg[k]]
             ELSE IF key = "$or" THEN \E k \in DOMAIN arg : f[arg[k]]
             ELSE IF key = "$nor" THEN \A k \in DOMAIN arg : ~f[arg[k]]
             ELSE Server!Met(d, key, Written(e))[arg]
           P(i, f) == \A key \in DOMAIN Written(e)[i] : One(i, f, key, Written(e)[i][key])
           Q(i, f) == \/ e[i].op = "Any"
                      \/ e[i].op = "Access" /\ Promise!Fitting(d, e[i].field, e)[e[i].arg]
                      \/ e[i].op = "And" /\ \A k \in DOMAIN e[i].arg : f[e[i].arg[k]]
                      \/ e[i].op = "Or"  /\ \E k \in DOMAIN e[i].arg : f[e[i].arg[k]]
                      \/ e[i].op = "Nor" /\ ~(\E k \in DOMAIN e[i].arg : f[e[i].arg[k]])
<1>1. Server!Matches(d, Written(e)) = (CHOOSE f : f = [i \in F |-> P(i, f)])[Len(e)]
  <2>1. Len(Written(e)) = Len(e)
    <3>1. Len(e) \in Nat /\ DOMAIN e = 1 .. Len(e)
      BY DEF IsFilter, WellFormed
    <3> QED BY <3>1 DEF Written
  <2> QED BY <2>1, ConditionsAre DEF Server!Matches
<1>2. Promise!Wanted(d, e) = (CHOOSE f : f = [i \in F |-> Q(i, f)])[Len(e)]
  BY DEF Promise!Wanted
<1>3. ASSUME NEW f, NEW i \in F
      PROVE  P(i, f) = Q(i, f)
  <2>1. Written(e)[i] = Part(e[i])
    BY DEF Written
  <2>2. P(i, f) \in BOOLEAN
    OBVIOUS
  <2>3. CASE e[i].op = "Any"
    BY <2>1, <2>3 DEF Part, AnyFilter
  <2>4. CASE e[i].op = "Access"
    <3>1. e[i].field \in Fields /\ e[i].field \notin Server!Logic
      BY <2>4, TypesAssumption DEF IsFilter
    <3>2. Written(e)[i] = Doc(e[i].field, e[i].arg)
      BY <2>1, <2>4 DEF Part, Access
    <3>3. P(i, f) <=> Server!Met(d, e[i].field, Written(e))[e[i].arg]
      BY <3>1, <3>2 DEF Doc, Server!Logic
    <3>4. P(i, f) <=> Promise!Fitting(d, e[i].field, e)[e[i].arg]
      BY <3>3, FittingIsMet
    <3>5. Q(i, f) \in BOOLEAN /\ (Q(i, f) <=> Promise!Fitting(d, e[i].field, e)[e[i].arg])
      BY <2>4
    <3> HIDE DEF P, Q
    <3> QED BY <2>2, <3>4, <3>5
  <2>5. CASE e[i].op \in {"And", "Or", "Nor"}
    <3> DEFINE key == IF e[i].op = "And" THEN "$and" ELSE IF e[i].op = "Or" THEN "$or" ELSE "$nor"
    <3>1. Written(e)[i] = Doc(key, e[i].arg)
      BY <2>1, <2>5 DEF Part, And, Or, Nor
    <3>2. P(i, f) <=> One(i, f, key, e[i].arg)
      <4> HIDE DEF key, One
      <4> QED BY <3>1 DEF Doc
    <3>3. Q(i, f) \in BOOLEAN /\ (One(i, f, key, e[i].arg) <=> Q(i, f))
      BY <2>5
    <3> HIDE DEF P, Q, One, key
    <3> QED BY <2>2, <3>2, <3>3
  <2> QED BY <2>3, <2>4, <2>5 DEF FilterOps
<1> HIDE DEF P, Q, F
<1>4. \A f : f = [i \in F |-> P(i, f)] <=> f = [i \in F |-> Q(i, f)]
  BY <1>3
<1>5. (CHOOSE f : f = [i \in F |-> P(i, f)]) = (CHOOSE f : f = [i \in F |-> Q(i, f)])
  BY <1>4, Zenon
<1> QED BY <1>1, <1>2, <1>5

\* Which conditions hold is settled condition by condition: one of Not by that it
\* is around, which comes before it, and so every other by itself.
LEMMA FittingIs ==
  ASSUME NEW d, NEW field, NEW e, IsFilter(e)
  PROVE  \A i \in DOMAIN e : e[i].op \in ConditionOps =>
           Promise!Fitting(d, field, e)[i] =
             IF e[i].op = "Not" THEN ~Promise!Fitting(d, field, e)[e[i].arg]
             ELSE Promise!Fits(d, field, e[i])
<1> DEFINE C == {j \in DOMAIN e : e[j].op \in ConditionOps}
           n == Len(e)
           Q(i, f) == IF e[i].op = "Not" THEN ~f[e[i].arg] ELSE Promise!Fits(d, field, e[i])
           To(k) == {i \in C : i <= k}
           Is(f, k) == f = [i \in To(k) |-> Q(i, f)]
           T == {k \in 0 .. n : \E f : Is(f, k)}
           h == CHOOSE f : f = [i \in C |-> Q(i, f)]
<1>1. Promise!Fitting(d, field, e) = h
  BY DEF Promise!Fitting
<1>2. n \in Nat /\ C \subseteq 1 .. n
  BY DEF IsFilter, WellFormed
<1>3. ASSUME NEW k \in Nat, NEW i \in To(k + 1), NEW f, NEW g, \A j \in To(k) : f[j] = g[j]
      PROVE  Q(i, f) = Q(i, g)
  <2>1. CASE e[i].op = "Not"
    <3>1. e[i].arg \in To(k)
      BY <1>2, <2>1 DEF IsFilter, WellFormed
    <3> QED BY <1>3, <2>1, <3>1
  <2> QED BY <2>1
<1> HIDE DEF Q
<1>4. 0 \in T
  <2> DEFINE f0 == [i \in To(0) |-> FALSE]
  <2>1. To(0) = {}
    BY <1>2
  <2>2. Is(f0, 0)
    BY <2>1
  <2> HIDE DEF Is, f0
  <2>3. 0 \in 0 .. n
    BY <1>2
  <2> QED BY <2>2, <2>3
<1>5. ASSUME NEW k \in 0 .. n - 1, k \in T
      PROVE  k + 1 \in T
  <2>1. PICK f : Is(f, k)
    BY <1>5
  <2> DEFINE g == [i \in To(k + 1) |-> Q(i, f)]
  <2>2. \A i \in To(k) : i \in To(k + 1) /\ g[i] = f[i]
    <3>1. \A i \in To(k) : i \in To(k + 1)
      BY <1>2
    <3>2. \A i \in To(k) : f[i] = Q(i, f)
      BY <2>1
    <3> QED BY <3>1, <3>2
  <2>3. \A i \in To(k + 1) : Q(i, f) = Q(i, g)
    <3> HIDE DEF To, g
    <3> QED BY <1>3, <2>2
  <2>4. Is(g, k + 1)
    <3> HIDE DEF To
    <3> QED BY <2>3
  <2> HIDE DEF Is, g
  <2>5. k + 1 \in 0 .. n
    BY <1>2
  <2> QED BY <2>4, <2>5
<1>6. \E f : Is(f, n)
  <2> HIDE DEF Is
  <2>1. \A k \in 0 .. n : k \in T
    <3> HIDE DEF T
    <3> QED BY <1>2, <1>4, <1>5, UpTo
  <2> QED BY <1>2, <2>1
<1>7. \E f : f = [i \in C |-> Q(i, f)]
  <2>1. To(n) = C
    BY <1>2
  <2> HIDE DEF To, C
  <2> QED BY <1>6, <2>1
<1>8. h = [i \in C |-> Q(i, h)]
  <2> HIDE DEF C
  <2> QED BY <1>7
<1>9. \A i \in C : h[i] = Q(i, h)
  <2> HIDE DEF h, C
  <2> QED BY <1>8
<1> HIDE DEF h
<1> QED BY <1>1, <1>9 DEF Q

\* Whether a document is wanted is settled part by part as well: what a filter
\* says of its parts is said of filters and conditions that come before it.
THEOREM WantedIs ==
  ASSUME NEW d, NEW e, IsFilter(e)
  PROVE  \E w : /\ Promise!Wanted(d, e) = w[Len(e)]
                /\ \A i \in DOMAIN e : e[i].op \in FilterOps =>
                     w[i] = \/ e[i].op = "Any"
                            \/ e[i].op = "Access" /\ Promise!Fitting(d, e[i].field, e)[e[i].arg]
                            \/ e[i].op = "And" /\ \A k \in DOMAIN e[i].arg : w[e[i].arg[k]]
                            \/ e[i].op = "Or"  /\ \E k \in DOMAIN e[i].arg : w[e[i].arg[k]]
                            \/ e[i].op = "Nor" /\ ~(\E k \in DOMAIN e[i].arg : w[e[i].arg[k]])
<1> DEFINE F == {j \in DOMAIN e : e[j].op \in FilterOps}
           n == Len(e)
           Q(i, f) == \/ e[i].op = "Any"
                      \/ e[i].op = "Access" /\ Promise!Fitting(d, e[i].field, e)[e[i].arg]
                      \/ e[i].op = "And" /\ \A k \in DOMAIN e[i].arg : f[e[i].arg[k]]
                      \/ e[i].op = "Or"  /\ \E k \in DOMAIN e[i].arg : f[e[i].arg[k]]
                      \/ e[i].op = "Nor" /\ ~(\E k \in DOMAIN e[i].arg : f[e[i].arg[k]])
           To(k) == {i \in F : i <= k}
           Is(f, k) == f = [i \in To(k) |-> Q(i, f)]
           T == {k \in 0 .. n : \E f : Is(f, k)}
           h == CHOOSE f : f = [i \in F |-> Q(i, f)]
<1>1. Promise!Wanted(d, e) = h[n]
  BY DEF Promise!Wanted
<1>2. n \in Nat /\ F \subseteq 1 .. n
  BY DEF IsFilter, WellFormed
<1>3. ASSUME NEW k \in Nat, NEW i \in To(k + 1), NEW f, NEW g, \A j \in To(k) : f[j] = g[j]
      PROVE  Q(i, f) = Q(i, g)
  <2>1. CASE e[i].op \in {"And", "Or", "Nor"}
    <3>1. \A j \in DOMAIN e[i].arg : e[i].arg[j] \in To(k)
      BY <1>2, <2>1 DEF IsFilter, WellFormed
    <3>2. \A j \in DOMAIN e[i].arg : f[e[i].arg[j]] = g[e[i].arg[j]]
      <4> HIDE DEF To
      <4> QED BY <1>3, <3>1
    <3> QED BY <2>1, <3>2
  <2> QED BY <2>1
<1> HIDE DEF Q
<1>4. 0 \in T
  <2> DEFINE f0 == [i \in To(0) |-> FALSE]
  <2>1. To(0) = {}
    BY <1>2
  <2>2. Is(f0, 0)
    BY <2>1
  <2> HIDE DEF Is, f0
  <2>3. 0 \in 0 .. n
    BY <1>2
  <2> QED BY <2>2, <2>3
<1>5. ASSUME NEW k \in 0 .. n - 1, k \in T
      PROVE  k + 1 \in T
  <2>1. PICK f : Is(f, k)
    BY <1>5
  <2> DEFINE g == [i \in To(k + 1) |-> Q(i, f)]
  <2>2. \A i \in To(k) : i \in To(k + 1) /\ g[i] = f[i]
    <3>1. \A i \in To(k) : i \in To(k + 1)
      BY <1>2
    <3>2. \A i \in To(k) : f[i] = Q(i, f)
      BY <2>1
    <3> QED BY <3>1, <3>2
  <2>3. \A i \in To(k + 1) : Q(i, f) = Q(i, g)
    <3> HIDE DEF To, g
    <3> QED BY <1>3, <2>2
  <2>4. Is(g, k + 1)
    <3> HIDE DEF To
    <3> QED BY <2>3
  <2> HIDE DEF Is, g
  <2>5. k + 1 \in 0 .. n
    BY <1>2
  <2> QED BY <2>4, <2>5
<1>6. \E f : Is(f, n)
  <2> HIDE DEF Is
  <2>1. \A k \in 0 .. n : k \in T
    <3> HIDE DEF T
    <3> QED BY <1>2, <1>4, <1>5, UpTo
  <2> QED BY <1>2, <2>1
<1>7. \E f : f = [i \in F |-> Q(i, f)]
  <2>1. To(n) = F
    BY <1>2
  <2> HIDE DEF To, F
  <2> QED BY <1>6, <2>1
<1>8. h = [i \in F |-> Q(i, h)]
  <2> HIDE DEF F
  <2> QED BY <1>7
<1>9. \A i \in F : h[i] = Q(i, h)
  <2> HIDE DEF h, F
  <2> QED BY <1>8
<1> HIDE DEF h
<1> QED BY <1>1, <1>9 DEF Q

-----------------------------------------------------------------------------
(* Arrays: values that are dropped, added, sorted, or put in at a position. *)

\* DocumentSet counts like everyone.
LEMMA PromiseCounts == \A S : Promise!Cardinality(S) = Cardinality(S)
BY DEF Promise!Cardinality, Cardinality, Promise!IsFiniteSet, IsFiniteSet

\* Counting the members of a set of places from the first.
LEMMA CountUpTo ==
  ASSUME NEW n \in Nat, NEW P, P \subseteq 1 .. n
  PROVE  LET C(i) == Cardinality({j \in P : j <= i})
         IN  /\ C(0) = 0 /\ C(n) = Cardinality(P)
             /\ \A i \in 0 .. n : C(i) \in 0 .. i
             /\ \A i \in 0 .. n - 1 : C(i + 1) = IF i + 1 \in P THEN C(i) + 1 ELSE C(i)
             /\ \A i, k \in 0 .. n : i <= k => C(i) <= C(k)
<1> DEFINE Q(i) == {j \in P : j <= i}
           C(i) == Cardinality(Q(i))
<1>0. \A j \in P : j \in Nat /\ 1 <= j /\ j <= n
  OBVIOUS
<1>1. \A i \in 0 .. n : Q(i) \subseteq 1 .. i /\ IsFiniteSet(Q(i)) /\ C(i) \in 0 .. i
  <2>1. SUFFICES ASSUME NEW i \in 0 .. n
                 PROVE  Q(i) \subseteq 1 .. i /\ IsFiniteSet(Q(i)) /\ C(i) \in 0 .. i
    OBVIOUS
  <2>2. Q(i) \in SUBSET (1 .. i)
    <3>1. i \in Nat
      OBVIOUS
    <3>2. \A j \in Q(i) : j \in Nat /\ 1 <= j /\ j <= i
      BY <1>0
    <3> HIDE DEF Q
    <3> QED BY <3>1, <3>2
  <2>3. IsFiniteSet(1 .. i) /\ Cardinality(1 .. i) = i
    BY FS_Interval
  <2> HIDE DEF Q
  <2>4. IsFiniteSet(Q(i)) /\ Cardinality(Q(i)) <= i
    BY <2>2, <2>3, FS_Subset
  <2>5. Cardinality(Q(i)) \in Nat
    BY <2>4, FS_CardinalityType
  <2> QED BY <2>2, <2>4, <2>5
<1>2. \A i \in 0 .. n - 1 : C(i + 1) = IF i + 1 \in P THEN C(i) + 1 ELSE C(i)
  <2>1. SUFFICES ASSUME NEW i \in 0 .. n - 1
                 PROVE  C(i + 1) = IF i + 1 \in P THEN C(i) + 1 ELSE C(i)
    OBVIOUS
  <2>2. Q(i + 1) = IF i + 1 \in P THEN Q(i) \cup {i + 1} ELSE Q(i)
    <3>1. \A j \in P : j <= i + 1 <=> (j <= i \/ j = i + 1)
      BY <1>0
    <3>2. i + 1 <= i + 1
      OBVIOUS
    <3>3. \A j : j \in Q(i + 1) <=> j \in P /\ j <= i + 1
      OBVIOUS
    <3>4. \A j : j \in Q(i) <=> j \in P /\ j <= i
      OBVIOUS
    <3> HIDE DEF Q
    <3> QED BY <3>1, <3>2, <3>3, <3>4
  <2>3. IsFiniteSet(Q(i)) /\ i + 1 \notin Q(i)
    <3>1. i + 1 \notin Q(i)
      OBVIOUS
    <3>2. i \in 0 .. n
      OBVIOUS
    <3> HIDE DEF Q
    <3> QED BY <1>1, <3>1, <3>2
  <2> HIDE DEF Q
  <2>4. Cardinality(Q(i) \cup {i + 1}) = Cardinality(Q(i)) + 1
    BY <2>3, FS_AddElement
  <2> QED BY <2>2, <2>4
<1>3. \A i, k \in 0 .. n : i <= k => C(i) <= C(k)
  <2>1. SUFFICES ASSUME NEW i \in 0 .. n, NEW k \in 0 .. n, i <= k PROVE C(i) <= C(k)
    OBVIOUS
  <2>2. Q(i) \in SUBSET Q(k)
    <3>1. \A j \in P : j <= i => j <= k
      BY <1>0, <2>1
    <3> QED BY <3>1
  <2>3. IsFiniteSet(Q(k))
    BY <1>1
  <2> HIDE DEF Q
  <2> QED BY <2>2, <2>3, FS_Subset
<1>4. C(0) = 0
  BY <1>1
<1>5. Q(n) = P
  BY <1>0
<1> QED BY <1>1, <1>2, <1>3, <1>4, <1>5

\* What is not dropped is kept in order.
LEMMA KeptMeans ==
  ASSUME NEW s \in Seq(Int), NEW dropped
  PROVE  Server!Kept(s, dropped) \in Seq(Int) /\ Promise!Rest(s, dropped, Server!Kept(s, dropped))
<1> DEFINE n == Len(s)
           P == {i \in DOMAIN s : s[i] \notin dropped}
           C(i) == Cardinality({j \in P : j <= i})
<1>1. n \in Nat /\ P \subseteq 1 .. n /\ \A i \in 1 .. n : s[i] \in Int
  OBVIOUS
<1>2. PICK f : /\ Server!Kept(s, dropped) = f[Len(s)] /\ f[0] = <<>>
               /\ \A i \in 1 .. Len(s) :
                    f[i] = IF s[i] \in dropped THEN f[i - 1] ELSE Append(f[i - 1], s[i])
  BY <1>1, KeptIs
<1>3. /\ C(0) = 0 /\ C(n) = Cardinality(P)
      /\ \A i \in 0 .. n : C(i) \in 0 .. i
      /\ \A i \in 0 .. n - 1 : C(i + 1) = IF i + 1 \in P THEN C(i) + 1 ELSE C(i)
      /\ \A i, k \in 0 .. n : i <= k => C(i) <= C(k)
  <2> HIDE DEF n, P
  <2> QED BY <1>1, CountUpTo
<1> DEFINE T == {k \in 0 .. n : /\ f[k] \in Seq(Int) /\ Len(f[k]) = C(k)
                                /\ \A i \in P : i <= k => f[k][C(i)] = s[i]}
<1>4. 0 \in T
  <2>1. \A i \in P : ~(i <= 0)
    BY <1>1
  <2>2. 0 \in 0 .. n
    BY <1>1
  <2> HIDE DEF C, P, n
  <2>3. f[0] \in Seq(Int) /\ Len(f[0]) = 0
    BY <1>2
  <2>4. C(0) = 0
    BY <1>3
  <2> QED BY <2>1, <2>2, <2>3, <2>4
<1>5. ASSUME NEW k \in 0 .. n - 1, k \in T
      PROVE  k + 1 \in T
  <2>1. /\ f[k] \in Seq(Int) /\ Len(f[k]) = C(k) /\ C(k) \in Nat
        /\ \A i \in P : i <= k => f[k][C(i)] = s[i]
        /\ k + 1 \in 1 .. n /\ k \in 0 .. n /\ k + 1 \in 0 .. n /\ (k + 1) - 1 = k
    BY <1>3, <1>5
  <2>2. f[k + 1] = IF s[k + 1] \in dropped THEN f[k] ELSE Append(f[k], s[k + 1])
    BY <1>2, <2>1
  <2>3. k + 1 \in P <=> s[k + 1] \notin dropped
    BY <2>1
  <2>4. C(k + 1) = IF k + 1 \in P THEN C(k) + 1 ELSE C(k)
    BY <1>3
  <2>5. \A i \in P : i <= k => C(i) <= C(k) /\ C(i) \in Nat /\ C(i) >= 1
    <3>1. SUFFICES ASSUME NEW i \in P, i <= k PROVE C(i) <= C(k) /\ C(i) \in Nat /\ C(i) >= 1
      OBVIOUS
    <3>2. i - 1 \in 0 .. n - 1 /\ i \in 0 .. n /\ (i - 1) + 1 = i /\ i - 1 \in 0 .. n
      BY <1>1
    <3>3. C(i) = C(i - 1) + 1 /\ C(i - 1) \in Nat
      <4> HIDE DEF C, P, n
      <4> QED BY <1>3, <3>2
    <3> HIDE DEF C, P, n
    <3> QED BY <1>3, <2>1, <3>1, <3>2, <3>3
  <2> HIDE DEF C
  <2>6. CASE s[k + 1] \in dropped
    <3>1. \A i \in P : i <= k + 1 => i <= k
      BY <1>1, <2>3, <2>6
    <3> HIDE DEF P, n
    <3> QED BY <2>1, <2>2, <2>3, <2>4, <2>6, <3>1
  <2>7. CASE s[k + 1] \notin dropped
    <3>1. \A i \in P : i <= k + 1 => i <= k \/ i = k + 1
      BY <1>1
    <3>2. s[k + 1] \in Int
      BY <1>1, <2>1
    <3>3. f[k + 1] = Append(f[k], s[k + 1]) /\ C(k + 1) = C(k) + 1
      BY <2>2, <2>3, <2>4, <2>7
    <3> HIDE DEF P, n
    <3>4. f[k + 1] \in Seq(Int) /\ Len(f[k + 1]) = C(k + 1)
      BY <2>1, <3>2, <3>3
    <3>5. \A i \in P : i <= k + 1 => f[k + 1][C(i)] = s[i]
      BY <2>1, <2>5, <3>1, <3>2, <3>3
    <3> QED BY <2>1, <3>4, <3>5
  <2> QED BY <2>6, <2>7
<1>6. n \in T
  <2>1. \A k \in 0 .. n : k \in T
    <3> HIDE DEF T
    <3> QED BY <1>1, <1>4, <1>5, UpTo
  <2>2. n \in 0 .. n
    BY <1>1
  <2> HIDE DEF T
  <2> QED BY <2>1, <2>2
<1>7. \A i \in P : Promise!Cardinality({j \in P : j <= i}) = C(i)
  BY PromiseCounts
<1>8. Promise!Cardinality(P) = C(n)
  BY <1>3, PromiseCounts
<1>9. Promise!Rest(s, dropped, f[n]) <=>
        Len(f[n]) = Promise!Cardinality(P) /\ \A i \in P : f[n][Promise!Cardinality({j \in P : j <= i})] = s[i]
  BY DEF Promise!Rest
<1>10. /\ f[n] \in Seq(Int) /\ Len(f[n]) = C(n)
       /\ \A i \in P : f[n][C(i)] = s[i]
  <2>1. \A i \in P : i <= n
    BY <1>1
  <2> HIDE DEF C, P, n
  <2> QED BY <1>6, <2>1
<1> HIDE DEF C, P
<1> QED BY <1>2, <1>7, <1>8, <1>9, <1>10

\* The values that are added go behind, each once.
LEMMA AddedMeans ==
  ASSUME NEW s \in Seq(Int), NEW values \in Seq(Int)
  PROVE  /\ Server!AddedToSet(s, values) \in Seq(Int)
         /\ Promise!Joined(s, values, Server!AddedToSet(s, values))
<1> DEFINE n == Len(values)
           Had(v) == \E i \in DOMAIN s : s[i] = v
           Given(k, v) == \E i \in 1 .. k : values[i] = v
           Joins(t, k) ==
             /\ t \in Seq(Int) /\ Len(t) >= Len(s)
             /\ \A i \in 1 .. Len(s) : t[i] = s[i]
             /\ \A i \in 1 .. Len(t) : Had(t[i]) \/ Given(k, t[i])
             /\ \A v : Had(v) \/ Given(k, v) => \E i \in 1 .. Len(t) : t[i] = v
             /\ \A i \in Len(s) + 1 .. Len(t) : \A j \in 1 .. i - 1 : t[j] # t[i]
<1>0. Len(values) \in Nat
  OBVIOUS
<1>1. PICK f : Server!AddedToSet(s, values) = f[Len(values)] /\ AddedSteps(f, s, values)
  BY <1>0, AddedToSetIs
<1> USE DEF AddedSteps
<1> DEFINE T == {k \in 0 .. n : Joins(f[k], k)}
<1>2. 0 \in T
  <2>1. \A v : ~Given(0, v)
    OBVIOUS
  <2>2. Joins(s, 0)
    <3> HIDE DEF Given
    <3> QED BY <2>1
  <2> HIDE DEF Joins
  <2> QED BY <1>1, <2>2
<1>3. ASSUME NEW k \in 0 .. n - 1, k \in T
      PROVE  k + 1 \in T
  <2> DEFINE t == f[k]
             v == values[k + 1]
  <2>0. n \in Nat /\ k \in Nat /\ k + 1 \in 1 .. n /\ k + 1 \in 0 .. n /\ (k + 1) - 1 = k
    OBVIOUS
  <2>8. Joins(t, k)
    BY <1>3
  <2>9. v \in Int
    BY <2>0
  <2>1. Joins(t, k) /\ k + 1 \in 1 .. n /\ k + 1 \in 0 .. n /\ (k + 1) - 1 = k /\ v \in Int
    BY <2>0, <2>8, <2>9
  <2>2. f[k + 1] = IF v \in Server!Range(t) THEN t ELSE Append(t, v)
    BY <1>1, <2>1
  <2>3. \A w : Given(k + 1, w) <=> Given(k, w) \/ w = v
    <3>1. \A i : i \in 1 .. k + 1 <=> i \in 1 .. k \/ i = k + 1
      BY <2>0
    <3> HIDE DEF n
    <3> QED BY <3>1
  <2>4. t \in Seq(Int) /\ Len(t) \in Nat
    BY <2>1
  <2>5. v \in Server!Range(t) <=> \E i \in 1 .. Len(t) : t[i] = v
    <3>1. DOMAIN t = 1 .. Len(t)
      BY <2>4
    <3> HIDE DEF t, v
    <3> QED BY <3>1 DEF Server!Range
  <2> HIDE DEF t, v, Given, Had
  <2>6. CASE v \in Server!Range(t)
    <3>1. Joins(t, k + 1)
      BY <2>1, <2>3, <2>5, <2>6
    <3> HIDE DEF Joins
    <3> QED BY <2>1, <2>2, <2>6, <3>1
  <2>7. CASE v \notin Server!Range(t)
    <3> DEFINE w == Append(t, v)
    <3>1. /\ w \in Seq(Int) /\ Len(w) = Len(t) + 1 /\ w[Len(t) + 1] = v
          /\ \A i \in 1 .. Len(t) : w[i] = t[i]
      BY <2>1, <2>4
    <3> HIDE DEF w
    <3>2. /\ Len(w) >= Len(s)
          /\ \A i \in 1 .. Len(s) : w[i] = s[i]
      BY <2>1, <2>4, <3>1
    <3>3. \A i \in 1 .. Len(w) : i \in 1 .. Len(t) \/ i = Len(t) + 1
      BY <2>4, <3>1
    <3>4. \A i \in 1 .. Len(w) : Had(w[i]) \/ Given(k + 1, w[i])
      BY <2>1, <2>3, <3>1, <3>3
    <3>5. ASSUME NEW x, Had(x) \/ Given(k + 1, x)
          PROVE  \E i \in 1 .. Len(w) : w[i] = x
      <4>1. CASE x = v
        <5>1. Len(t) + 1 \in 1 .. Len(w)
          BY <2>4, <3>1
        <5> QED BY <3>1, <4>1, <5>1
      <4>2. CASE x # v
        <5>1. PICK i \in 1 .. Len(t) : t[i] = x
          BY <2>1, <2>3, <3>5, <4>2
        <5>2. i \in 1 .. Len(w)
          BY <2>4, <3>1
        <5> QED BY <3>1, <5>1, <5>2
      <4> QED BY <4>1, <4>2
    <3>6. ASSUME NEW i \in Len(s) + 1 .. Len(w), NEW j \in 1 .. i - 1
          PROVE  w[j] # w[i]
      <4>1. Len(s) \in Nat
        OBVIOUS
      <4>2. j \in 1 .. Len(t)
        BY <2>4, <3>1, <4>1
      <4>3. CASE i = Len(t) + 1
        BY <2>5, <2>7, <3>1, <4>2, <4>3
      <4>4. CASE i # Len(t) + 1
        <5>1. i \in Len(s) + 1 .. Len(t) /\ i \in 1 .. Len(t)
          <6>1. i \in Int /\ i >= Len(s) + 1 /\ i <= Len(w)
            BY <2>4, <3>1, <4>1
          <6>2. i <= Len(t)
            <7>1. i \in 1 .. Len(w)
              BY <2>4, <3>1, <4>1
            <7>2. i \in 1 .. Len(t)
              BY <3>3, <4>4, <7>1
            <7> QED BY <7>2
          <6>3. i >= 1
            BY <4>1, <6>1
          <6> HIDE DEF w
          <6> QED BY <2>4, <4>1, <6>1, <6>2, <6>3
        <5> QED BY <2>1, <3>1, <4>2, <5>1
      <4> QED BY <4>3, <4>4
    <3>7. Joins(w, k + 1)
      BY <3>1, <3>2, <3>4, <3>5, <3>6
    <3> HIDE DEF Joins
    <3> QED BY <2>1, <2>2, <2>7, <3>7 DEF w
  <2> QED BY <2>6, <2>7
<1>4. Joins(f[n], n)
  <2>1. n \in Nat /\ n \in 0 .. n
    OBVIOUS
  <2>2. \A k \in 0 .. n : k \in T
    <3> HIDE DEF T, n
    <3> QED BY <1>2, <1>3, <2>1, UpTo
  <2> HIDE DEF Joins
  <2> QED BY <2>1, <2>2
<1> DEFINE t == f[n]
<1>5. Joins(t, n)
  BY <1>4
<1>6. Promise!Joined(s, values, t)
  <2> HIDE DEF t
  <2>1. DOMAIN s = 1 .. Len(s) /\ DOMAIN t = 1 .. Len(t) /\ DOMAIN values = 1 .. n
    BY <1>5
  <2>2. Promise!Range(t) = Promise!Range(s) \cup Promise!Range(values)
    <3>1. \A v : v \in Promise!Range(t) <=> \E i \in 1 .. Len(t) : t[i] = v
      BY <2>1, RangeIs
    <3>2. \A v : v \in Promise!Range(s) <=> Had(v)
      BY <2>1, RangeIs
    <3>3. \A v : v \in Promise!Range(values) <=> Given(n, v)
      BY <2>1, RangeIs
    <3> HIDE DEF Had, Given, n
    <3>4. \A v : (\E i \in 1 .. Len(t) : t[i] = v) <=> Had(v) \/ Given(n, v)
      BY <1>5
    <3> QED BY <3>1, <3>2, <3>3, <3>4
  <2> HIDE DEF Had, Given, n
  <2> QED BY <1>5, <2>1, <2>2 DEF Promise!Joined
<1> QED BY <1>1, <1>5, <1>6

\* "t" is in order, and "x" occurs at these places of it.
Ascends(t, order) == \A i, j \in 1 .. Len(t) : i < j => t[i] * order <= t[j] * order

Occurs(t, x) == {i \in 1 .. Len(t) : t[i] = x}

\* "w" is "t" with "v" put in behind the first "p".
PutIn(t, p, v, w) ==
  /\ w \in Seq(Int) /\ Len(w) = Len(t) + 1 /\ w[p + 1] = v
  /\ \A i \in 1 .. p : w[i] = t[i]
  /\ \A i \in p + 1 .. Len(t) : w[i + 1] = t[i]

\* An initial piece of the places of a sequence ends at its cardinality.
LEMMA InitialPiece ==
  ASSUME NEW n \in Nat, NEW D, D \subseteq 1 .. n,
         \A i \in D : \A j \in 1 .. i : j \in D
  PROVE  Cardinality(D) \in 0 .. n /\ D = 1 .. Cardinality(D)
<1> DEFINE B == {j \in 1 .. n + 1 : j \notin D}
<1>1. B \subseteq Nat /\ B # {}
  <2>1. n + 1 \in 1 .. n + 1
    OBVIOUS
  <2>2. n + 1 \notin 1 .. n
    OBVIOUS
  <2>3. n + 1 \in B
    BY <2>1, <2>2
  <2>4. B \subseteq Nat
    OBVIOUS
  <2> QED BY <2>3, <2>4
<1>2. PICK k \in B : \A j \in B : k <= j
  <2> HIDE DEF B
  <2> QED BY <1>1, LeastNat
<1>3. D = 1 .. k - 1
  <2>0. k \in 1 .. n + 1 /\ k \notin D
    BY <1>2
  <2>1. ASSUME NEW j \in 1 .. k - 1 PROVE j \in D
    <3>1. j \in 1 .. n + 1 /\ ~(k <= j)
      BY <2>0, <2>1
    <3> QED BY <1>2, <3>1
  <2>2. ASSUME NEW j \in D PROVE j \in 1 .. k - 1
    <3>1. j \in 1 .. n
      OBVIOUS
    <3>2. ~(k <= j)
      <4>1. k <= j => k \in 1 .. j
        BY <2>0, <3>1
      <4> QED BY <2>0, <4>1
    <3> QED BY <2>0, <3>1, <3>2
  <2> QED BY <2>1, <2>2
<1>4. k - 1 \in 0 .. n
  BY <1>2
<1>5. Cardinality(1 .. k - 1) = k - 1
  <2>1. Cardinality(1 .. k - 1) = IF 1 > k - 1 THEN 0 ELSE (k - 1) - 1 + 1
    BY <1>4, FS_Interval
  <2> QED BY <1>4, <2>1
<1> QED BY <1>3, <1>4, <1>5

\* Putting a value between the two pieces of a sequence.
LEMMA PuttingIn ==
  ASSUME NEW t \in Seq(Int), NEW v \in Int, NEW p \in 0 .. Len(t)
  PROVE  PutIn(t, p, v, SubSeq(t, 1, p) \o <<v>> \o SubSeq(t, p + 1, Len(t)))
<1> DEFINE n == Len(t)
           a == SubSeq(t, 1, p)
           b == SubSeq(t, p + 1, n)
           c == a \o <<v>>
           w == c \o b
<1>0. n \in Nat /\ p \in Nat /\ p <= n
  OBVIOUS
<1>1. a \in Seq(Int) /\ Len(a) = p /\ \A i \in 1 .. p : a[i] = t[i]
  BY <1>0
<1>2. b \in Seq(Int) /\ Len(b) = n - p /\ \A i \in 1 .. n - p : b[i] = t[p + i]
  <2>1. \A i \in p + 1 .. n : i \in 1 .. n
    BY <1>0
  <2>2. b \in Seq(Int) /\ Len(b) = n - p
    BY <1>0, <2>1
  <2>3. ASSUME NEW i \in 1 .. n - p PROVE b[i] = t[p + i]
    BY <1>0
  <2> QED BY <2>2, <2>3
<1> HIDE DEF a, b
<1>3. c \in Seq(Int) /\ Len(c) = p + 1 /\ c[p + 1] = v /\ \A i \in 1 .. p : c[i] = t[i]
  BY <1>0, <1>1
<1> HIDE DEF c
<1>4. /\ w \in Seq(Int) /\ Len(w) = n + 1
      /\ \A i \in 1 .. p + 1 : w[i] = c[i]
      /\ \A i \in 1 .. n - p : w[(p + 1) + i] = b[i]
  <2>0. /\ w \in Seq(Int) /\ Len(w) = Len(c) + Len(b)
        /\ \A i \in 1 .. Len(c) + Len(b) : w[i] = IF i <= Len(c) THEN c[i] ELSE b[i - Len(c)]
    BY <1>2, <1>3, ConcatProperties
  <2> HIDE DEF w
  <2>1. w \in Seq(Int) /\ Len(w) = n + 1
    BY <1>0, <1>2, <1>3, <2>0
  <2>4. Len(c) = p + 1 /\ Len(b) = n - p
    BY <1>2, <1>3
  <2> HIDE DEF n
  <2>2. ASSUME NEW i \in 1 .. p + 1 PROVE w[i] = c[i]
    <3>1. i \in 1 .. (p + 1) + (n - p) /\ i <= p + 1
      BY <1>0
    <3> QED BY <2>0, <2>4, <3>1
  <2>3. ASSUME NEW i \in 1 .. n - p PROVE w[(p + 1) + i] = b[i]
    <3> DEFINE k == (p + 1) + i
    <3>1. k \in 1 .. (p + 1) + (n - p) /\ ~(k <= p + 1) /\ k - (p + 1) = i
      BY <1>0
    <3> HIDE DEF k
    <3>2. w[k] = b[k - (p + 1)]
      BY <2>0, <2>4, <3>1
    <3> QED BY <3>1, <3>2 DEF k
  <2> QED BY <2>1, <2>2, <2>3
<1> HIDE DEF w, n
<1>5. \A i \in 1 .. p : w[i] = t[i]
  BY <1>0, <1>3, <1>4
<1>6. w[p + 1] = v
  BY <1>0, <1>3, <1>4
<1>7. ASSUME NEW i \in p + 1 .. n PROVE w[i + 1] = t[i]
  <2>1. i - p \in 1 .. n - p /\ (p + 1) + (i - p) = i + 1 /\ p + (i - p) = i
    BY <1>0
  <2> QED BY <1>2, <1>4, <2>1
<1>8. w \in Seq(Int) /\ Len(w) = Len(t) + 1 /\ \A i \in p + 1 .. Len(t) : w[i + 1] = t[i]
  BY <1>4, <1>7 DEF n
<1>9. PutIn(t, p, v, w)
  BY <1>5, <1>6, <1>8 DEF PutIn
<1> QED BY <1>9 DEF w, c, a, b, n

\* A value is put into a sorted array where it belongs.
LEMMA PlacedMeans ==
  ASSUME NEW t \in Seq(Int), NEW v \in Int, NEW order \in {1, -1}, Ascends(t, order)
  PROVE  \E p \in 0 .. Len(t) : PutIn(t, p, v, Placed(t, v, order)) /\ Ascends(Placed(t, v, order), order)
<1> DEFINE n == Len(t)
           D == {i \in DOMAIN t : t[i] * order <= v * order}
           p == Cardinality(D)
           w == SubSeq(t, 1, p) \o <<v>> \o SubSeq(t, p + 1, n)
           key(a) == a * order
<1>0. n \in Nat /\ DOMAIN t = 1 .. n
  OBVIOUS
<1>1. \A a \in Int : key(a) \in Int
  OBVIOUS
<1>2. p \in 0 .. n /\ D = 1 .. p
  <2>1. ASSUME NEW i \in D, NEW j \in 1 .. i PROVE j \in D
    <3>1. i \in 1 .. n /\ j \in 1 .. n /\ (j < i \/ j = i)
      OBVIOUS
    <3>2. key(t[i]) \in Int /\ key(t[j]) \in Int /\ key(v) \in Int
      BY <3>1, <1>1
    <3>3. key(t[j]) <= key(t[i])
      BY <3>1, <3>2 DEF Ascends
    <3>4. key(t[i]) <= key(v)
      OBVIOUS
    <3>5. key(t[j]) <= key(v)
      <4> HIDE DEF key
      <4> QED BY <3>2, <3>3, <3>4
    <3> QED BY <1>0, <3>1, <3>5
  <2>2. D \subseteq 1 .. n
    BY <1>0
  <2> HIDE DEF D, n
  <2> QED BY <1>0, <2>1, <2>2, InitialPiece
<1>3. Placed(t, v, order) = w
  BY ServerCounts DEF Placed
<1>4. \A i \in 1 .. p : key(t[i]) <= key(v)
  BY <1>2
<1>5. \A i \in p + 1 .. n : key(v) <= key(t[i])
  <2>1. SUFFICES ASSUME NEW i \in p + 1 .. n PROVE key(v) <= key(t[i])
    OBVIOUS
  <2>2. i \in 1 .. n /\ i \notin 1 .. p
    BY <1>0, <1>2
  <2>3. ~(key(t[i]) <= key(v))
    BY <1>0, <1>2, <2>2
  <2>4. key(t[i]) \in Int /\ key(v) \in Int
    BY <2>2
  <2> HIDE DEF key
  <2> QED BY <2>3, <2>4
<1> HIDE DEF D, p
<1>6. PutIn(t, p, v, w)
  <2>1. p \in 0 .. n
    BY <1>2
  <2> QED BY <2>1, PuttingIn
<1> HIDE DEF w
<1>7. Ascends(w, order)
  <2>1. SUFFICES ASSUME NEW i \in 1 .. n + 1, NEW j \in 1 .. n + 1, i < j
                 PROVE  key(w[i]) <= key(w[j])
    BY <1>6 DEF Ascends, PutIn
  <2>2. \A a \in 1 .. n + 1 : \/ a \in 1 .. p /\ w[a] = t[a]
                              \/ a = p + 1 /\ w[a] = v
                              \/ a - 1 \in p + 1 .. n /\ w[a] = t[a - 1]
    <3>1. SUFFICES ASSUME NEW a \in 1 .. n + 1
                   PROVE  \/ a \in 1 .. p /\ w[a] = t[a]
                          \/ a = p + 1 /\ w[a] = v
                          \/ a - 1 \in p + 1 .. n /\ w[a] = t[a - 1]
      OBVIOUS
    <3>2. a \in 1 .. p \/ a = p + 1 \/ (a - 1 \in p + 1 .. n /\ (a - 1) + 1 = a)
      BY <1>0, <1>2
    <3> QED BY <1>6, <3>2 DEF PutIn
  <2>3. \A a \in 1 .. n : key(t[a]) \in Int
    BY <1>1
  <2>4. \A a, b \in 1 .. n : a < b => key(t[a]) <= key(t[b])
    BY DEF Ascends
  <2>5. key(v) \in Int /\ p \in Nat /\ p <= n /\ n \in Nat /\ i \in Nat /\ j \in Nat /\ i < j
    BY <1>1, <1>2, <2>1
  <2>6. \A a \in 1 .. p : a \in 1 .. n
    BY <2>5
  <2>7. \A a \in p + 1 .. n : a \in 1 .. n
    BY <2>5
  <2> HIDE DEF key, n
  <2>8. CASE i \in 1 .. p /\ w[i] = t[i]
    <3>1. CASE j \in 1 .. p /\ w[j] = t[j]
      BY <2>1, <2>4, <2>6, <2>8, <3>1
    <3>2. CASE j = p + 1 /\ w[j] = v
      BY <1>4, <2>8, <3>2
    <3>3. CASE j - 1 \in p + 1 .. n /\ w[j] = t[j - 1]
      <4>1. i < j - 1
        BY <2>5, <2>8, <3>3
      <4> QED BY <2>4, <2>6, <2>7, <2>8, <3>3, <4>1
    <3> QED BY <2>2, <3>1, <3>2, <3>3
  <2>9. CASE i = p + 1 /\ w[i] = v
    <3>1. j - 1 \in p + 1 .. n /\ w[j] = t[j - 1]
      <4>1. j \notin 1 .. p /\ j # p + 1
        BY <2>5, <2>9
      <4> QED BY <2>2, <4>1
    <3> QED BY <1>5, <2>9, <3>1
  <2>10. CASE i - 1 \in p + 1 .. n /\ w[i] = t[i - 1]
    <3>1. j - 1 \in p + 1 .. n /\ w[j] = t[j - 1]
      <4>1. j \notin 1 .. p /\ j # p + 1
        BY <2>5, <2>10
      <4> QED BY <2>2, <4>1
    <3>2. i - 1 < j - 1
      BY <2>5
    <3> QED BY <2>4, <2>7, <2>10, <3>1, <3>2
  <2> QED BY <2>2, <2>8, <2>9, <2>10
<1> QED BY <1>2, <1>3, <1>6, <1>7

\* It then occurs once more.
LEMMA PutInOccurs ==
  ASSUME NEW t \in Seq(Int), NEW p \in 0 .. Len(t), NEW v \in Int, NEW w, PutIn(t, p, v, w), NEW x
  PROVE  /\ IsFiniteSet(Occurs(t, x)) /\ IsFiniteSet(Occurs(w, x))
         /\ Cardinality(Occurs(w, x)) = IF x = v THEN Cardinality(Occurs(t, x)) + 1 ELSE Cardinality(Occurs(t, x))
<1> DEFINE n == Len(t)
           S == Occurs(t, x)
           T == Occurs(w, x) \ {p + 1}
           move == [i \in S |-> IF i <= p THEN i ELSE i + 1]
<1>0. n \in Nat /\ p \in Nat /\ p <= n
  OBVIOUS
<1>1. IsFiniteSet(S) /\ IsFiniteSet(Occurs(w, x))
  <2>1. S \subseteq 1 .. n /\ Occurs(w, x) \subseteq 1 .. n + 1
    BY DEF Occurs, PutIn
  <2>2. IsFiniteSet(1 .. n) /\ IsFiniteSet(1 .. n + 1)
    BY <1>0, FS_Interval
  <2> HIDE DEF S
  <2> QED BY <2>1, <2>2, FS_Subset
<1>2. \A i \in S : i \in 1 .. n /\ t[i] = x
  BY DEF Occurs
<1>3. move \in [S -> T]
  <2>1. SUFFICES ASSUME NEW i \in S PROVE move[i] \in T
    OBVIOUS
  <2>2. CASE i <= p
    <3>1. i \in 1 .. p /\ i \in 1 .. n + 1 /\ i # p + 1
      BY <1>0, <1>2, <2>2
    <3>2. w[i] = x
      <4>1. t[i] = x
        BY <1>2
      <4>2. w[i] = t[i]
        BY <3>1 DEF PutIn
      <4> QED BY <4>1, <4>2
    <3> QED BY <2>2, <3>1, <3>2 DEF Occurs, PutIn
  <2>3. CASE ~(i <= p)
    <3>1. i \in p + 1 .. n /\ i + 1 \in 1 .. n + 1 /\ i + 1 # p + 1
      BY <1>0, <1>2, <2>3
    <3>2. w[i + 1] = x
      <4>1. t[i] = x
        BY <1>2
      <4>2. w[i + 1] = t[i]
        BY <3>1 DEF PutIn
      <4> QED BY <4>1, <4>2
    <3> QED BY <2>3, <3>1, <3>2 DEF Occurs, PutIn
  <2> QED BY <2>2, <2>3
<1>4. \A a, b \in S : move[a] = move[b] => a = b
  BY <1>0, <1>2
<1>5. \A b \in T : \E a \in S : move[a] = b
  <2>1. SUFFICES ASSUME NEW b \in T PROVE \E a \in S : move[a] = b
    OBVIOUS
  <2>2. b \in 1 .. n + 1 /\ w[b] = x /\ b # p + 1
    BY DEF Occurs, PutIn
  <2>3. CASE b <= p
    <3>1. b \in 1 .. p /\ b \in 1 .. n
      BY <1>0, <2>2, <2>3
    <3>2. b \in S
      BY <2>2, <3>1 DEF PutIn, Occurs
    <3> QED BY <2>3, <3>2
  <2>4. CASE ~(b <= p)
    <3>1. b - 1 \in p + 1 .. n /\ b - 1 \in 1 .. n /\ (b - 1) + 1 = b /\ ~(b - 1 <= p)
      BY <1>0, <2>2, <2>4
    <3>2. w[(b - 1) + 1] = t[b - 1]
      BY <3>1 DEF PutIn
    <3>3. t[b - 1] = x
      BY <2>2, <3>1, <3>2
    <3>4. b - 1 \in S
      BY <3>1, <3>3 DEF Occurs
    <3>5. move[b - 1] = b
      BY <3>1, <3>4
    <3> HIDE DEF S, move
    <3> QED BY <3>4, <3>5
  <2> QED BY <2>3, <2>4
<1>6. move \in Bijection(S, T)
  <2> HIDE DEF S, T, move
  <2> QED BY <1>3, <1>4, <1>5, Fun_IsBij
<1>7. IsFiniteSet(T) /\ Cardinality(T) = Cardinality(S)
  <2> HIDE DEF S, T, move
  <2> QED BY <1>1, <1>6, FS_Bijection DEF ExistsBijection
<1>8. p + 1 \in Occurs(w, x) <=> x = v
  <2>1. p + 1 \in 1 .. n + 1
    BY <1>0
  <2> QED BY <2>1 DEF Occurs, PutIn
<1>9. CASE x = v
  <2>1. Occurs(w, x) = T \cup {p + 1} /\ p + 1 \notin T
    BY <1>8, <1>9
  <2> HIDE DEF S, T
  <2>2. Cardinality(T \cup {p + 1}) = Cardinality(T) + 1
    BY <1>7, <2>1, FS_AddElement
  <2> QED BY <1>1, <1>7, <1>9, <2>1, <2>2 DEF S
<1>10. CASE x # v
  <2>1. Occurs(w, x) = T
    BY <1>8, <1>10
  <2> HIDE DEF T
  <2> QED BY <1>1, <1>7, <1>10, <2>1
<1> QED BY <1>9, <1>10

\* Sorting keeps the values and puts them in order.
LEMMA SortedMeans ==
  ASSUME NEW s \in Seq(Int), NEW how \in {"Ascending", "Descending"}
  PROVE  /\ Server!SortedBy(s, SortOrder[how]) \in Seq(Int)
         /\ Promise!Sorted(s, Server!SortedBy(s, SortOrder[how]), how)
<1> DEFINE n == Len(s)
           order == SortOrder[how]
           First(k, x) == {i \in 1 .. k : s[i] = x}
           Good(t, k) == /\ t \in Seq(Int) /\ Len(t) = k /\ Ascends(t, order)
                         /\ \A x : Cardinality(Occurs(t, x)) = Cardinality(First(k, x))
<1>0. n \in Nat /\ Len(s) \in Nat
  OBVIOUS
<1>1. order \in {1, -1} /\ (how = "Ascending" => order = 1) /\ (how = "Descending" => order = -1)
  BY DEF SortOrder
<1>2. PICK f : /\ Server!SortedBy(s, order) = f[Len(s)] /\ f[0] = <<>>
               /\ \A i \in 1 .. Len(s) : f[i] = Placed(f[i - 1], s[i], order)
  <2> HIDE DEF order
  <2> QED BY <1>0, SortedByIs
<1> HIDE DEF order
<1> DEFINE T == {k \in 0 .. n : Good(f[k], k)}
<1>3. 0 \in T
  <2>1. \A x : First(0, x) = {} /\ Occurs(<<>>, x) = {}
    BY DEF Occurs
  <2>2. <<>> \in Seq(Int) /\ Len(<<>>) = 0 /\ Ascends(<<>>, order)
    BY DEF Ascends
  <2>3. Good(<<>>, 0)
    <3> HIDE DEF First
    <3> QED BY <2>1, <2>2
  <2> HIDE DEF Good
  <2> QED BY <1>0, <1>2, <2>3
<1>4. ASSUME NEW k \in 0 .. n - 1, k \in T
      PROVE  k + 1 \in T
  <2> DEFINE t == f[k]
             v == s[k + 1]
             w == f[k + 1]
  <2>0. k \in Nat /\ k + 1 \in 1 .. n /\ k + 1 \in 0 .. n /\ (k + 1) - 1 = k
    BY <1>0
  <2>1. Good(t, k)
    BY <1>4
  <2>2. v \in Int
    BY <2>0
  <2>3. w = Placed(t, v, order)
    BY <1>2, <2>0
  <2>4. t \in Seq(Int) /\ Len(t) = k /\ Ascends(t, order)
    BY <2>1
  <2> HIDE DEF t, v, w
  <2>5. PICK p \in 0 .. Len(t) : PutIn(t, p, v, w) /\ Ascends(w, order)
    BY <1>1, <2>2, <2>3, <2>4, PlacedMeans
  <2>6. w \in Seq(Int) /\ Len(w) = k + 1
    BY <2>4, <2>5 DEF PutIn
  <2>7. ASSUME NEW x PROVE Cardinality(Occurs(w, x)) = Cardinality(First(k + 1, x))
    <3>1. /\ IsFiniteSet(Occurs(t, x)) /\ IsFiniteSet(Occurs(w, x))
          /\ Cardinality(Occurs(w, x)) = IF x = v THEN Cardinality(Occurs(t, x)) + 1 ELSE Cardinality(Occurs(t, x))
      BY <2>2, <2>4, <2>5, PutInOccurs
    <3>2. IsFiniteSet(First(k, x)) /\ k + 1 \notin First(k, x)
      <4>1. First(k, x) \subseteq 1 .. k /\ k + 1 \notin 1 .. k
        BY <2>0
      <4>2. IsFiniteSet(1 .. k)
        BY <2>0, FS_Interval
      <4> HIDE DEF First
      <4> QED BY <4>1, <4>2, FS_Subset
    <3>3. Cardinality(Occurs(t, x)) = Cardinality(First(k, x))
      BY <2>1
    <3>4. First(k + 1, x) = IF x = v THEN First(k, x) \cup {k + 1} ELSE First(k, x)
      <4>1. \A i : i \in 1 .. k + 1 <=> i \in 1 .. k \/ i = k + 1
        BY <2>0
      <4> QED BY <4>1 DEF v
    <3> HIDE DEF First
    <3>5. Cardinality(First(k, x) \cup {k + 1}) = Cardinality(First(k, x)) + 1
      BY <3>2, FS_AddElement
    <3> QED BY <3>1, <3>3, <3>4, <3>5
  <2>8. Good(w, k + 1)
    BY <2>5, <2>6, <2>7
  <2> HIDE DEF Good
  <2> QED BY <2>0, <2>8 DEF w
<1>5. Good(f[n], n)
  <2>1. n \in 0 .. n
    BY <1>0
  <2>2. \A k \in 0 .. n : k \in T
    <3> HIDE DEF T, n
    <3> QED BY <1>0, <1>3, <1>4, UpTo
  <2> HIDE DEF Good
  <2> QED BY <2>1, <2>2
<1> DEFINE t == f[n]
<1>6. t \in Seq(Int) /\ Len(t) = n /\ Ascends(t, order) /\ DOMAIN t = 1 .. n /\ DOMAIN s = 1 .. n
  BY <1>5
<1> HIDE DEF t
<1>7. ASSUME NEW x PROVE Promise!Times(t, x) = Promise!Times(s, x)
  <2>1. Occurs(t, x) = {i \in DOMAIN t : t[i] = x} /\ First(n, x) = {i \in DOMAIN s : s[i] = x}
    BY <1>6 DEF Occurs
  <2>2. Cardinality(Occurs(t, x)) = Cardinality(First(n, x))
    BY <1>5 DEF t
  <2> HIDE DEF First
  <2> QED BY <2>1, <2>2, PromiseCounts DEF Promise!Times
<1>8. ASSUME NEW i \in DOMAIN t, NEW j \in DOMAIN t, i < j
      PROVE  IF how = "Ascending" THEN t[i] <= t[j] ELSE t[i] >= t[j]
  <2>1. t[i] \in Int /\ t[j] \in Int /\ t[i] * order <= t[j] * order
    BY <1>6, <1>8 DEF Ascends
  <2> DEFINE a == t[i]
             b == t[j]
  <2>2. a \in Int /\ b \in Int /\ a * order <= b * order
    BY <2>1
  <2> HIDE DEF a, b
  <2>3. IF how = "Ascending" THEN a <= b ELSE a >= b
    <3>1. CASE how = "Ascending"
      <4>1. a * 1 <= b * 1
        BY <1>1, <2>2, <3>1
      <4> QED BY <2>2, <3>1, <4>1
    <3>2. CASE how = "Descending"
      <4>1. a * (-1) <= b * (-1)
        BY <1>1, <2>2, <3>2
      <4> QED BY <2>2, <3>2, <4>1
    <3> QED BY <3>1, <3>2
  <2> QED BY <2>3 DEF a, b
<1>9. Promise!Sorted(s, t, how)
  BY <1>7, <1>8 DEF Promise!Sorted
<1> QED BY <1>2, <1>6, <1>9 DEF t, order

\* The less and the greater of two numbers.
LEMMA MinMaxIs ==
  \A a, b \in Int : /\ Server!Min({a, b}) = IF a <= b THEN a ELSE b
                    /\ Server!Max({a, b}) = IF a >= b THEN a ELSE b
<1>1. SUFFICES ASSUME NEW a \in Int, NEW b \in Int
               PROVE  /\ Server!Min({a, b}) = IF a <= b THEN a ELSE b
                      /\ Server!Max({a, b}) = IF a >= b THEN a ELSE b
  OBVIOUS
<1>2. Server!Min({a, b}) = IF a <= b THEN a ELSE b
  BY DEF Server!Min
<1>3. Server!Max({a, b}) = IF a >= b THEN a ELSE b
  BY DEF Server!Max
<1> QED BY <1>2, <1>3

\* A sequence is its piece from its first to its last value.
LEMMA WholeSequence ==
  ASSUME NEW s \in Seq(Int)
  PROVE  SubSeq(s, 1, Len(s)) = s
OBVIOUS

\* A piece of a sequence of numbers is one.
LEMMA PieceIsSequence ==
  ASSUME NEW s \in Seq(Int), NEW a \in Int, NEW b \in Int, a >= 1, b <= Len(s)
  PROVE  SubSeq(s, a, b) \in Seq(Int)
<1>1. Len(s) \in Nat
  OBVIOUS
<1>2. \A i \in a .. b : s[i] \in Int
  OBVIOUS
<1> QED BY <1>1, <1>2

\* The steps of $push.
PutAt(old, p, values) == SubSeq(old, 1, p) \o values \o SubSeq(old, p + 1, Len(old))

Cut(all, slice) ==
  IF slice >= 0 THEN SubSeq(all, 1, Server!Min({slice, Len(all)}))
  ELSE SubSeq(all, Server!Max({1, Len(all) + slice + 1}), Len(all))

\* Behind the last value is the end of the array.
LEMMA AtTheEnd ==
  ASSUME NEW old \in Seq(Int), NEW values \in Seq(Int)
  PROVE  PutAt(old, Len(old), values) = old \o values /\ old \o values \in Seq(Int)
<1> DEFINE none == SubSeq(old, Len(old) + 1, Len(old))
           both == old \o values
<1>1. none = <<>>
  OBVIOUS
<1>2. both \in Seq(Int)
  BY ConcatProperties
<1>3. PutAt(old, Len(old), values) = both \o none
  BY WholeSequence DEF PutAt
<1> HIDE DEF none, both
<1>4. both \o <<>> = both
  BY <1>2, ConcatEmptySeq
<1> QED BY <1>1, <1>2, <1>3, <1>4 DEF both

\* What values are put into stays an array of numbers.
LEMMA PutAtIs ==
  ASSUME NEW old \in Seq(Int), NEW p \in 0 .. Len(old), NEW values \in Seq(Int)
  PROVE  PutAt(old, p, values) \in Seq(Int)
<1> DEFINE a == SubSeq(old, 1, p)
           b == SubSeq(old, p + 1, Len(old))
<1>0. Len(old) \in Nat /\ p \in Nat /\ p <= Len(old)
  OBVIOUS
<1>1. a \in Seq(Int) /\ b \in Seq(Int)
  BY <1>0, PieceIsSequence
<1> HIDE DEF a, b
<1>2. a \o values \in Seq(Int)
  BY <1>1, ConcatProperties
<1>3. (a \o values) \o b \in Seq(Int)
  BY <1>1, <1>2, ConcatProperties
<1> QED BY <1>3 DEF PutAt, a, b

\* The cut leaves the first, or the last, so many values, or all of them.
LEMMA CutIs ==
  ASSUME NEW all \in Seq(Int), NEW n \in Int
  PROVE  /\ Cut(all, n) \in Seq(Int)
         /\ Cut(all, n) = IF n >= Len(all) \/ -n >= Len(all) THEN all
                          ELSE IF n >= 0 THEN SubSeq(all, 1, n)
                          ELSE SubSeq(all, Len(all) + n + 1, Len(all))
         /\ Cut(all, Len(all)) = all
<1> DEFINE l == Len(all)
           m == l + n + 1
           Piece(a, b) == SubSeq(all, a, b)
<1>0. l \in Nat /\ m \in Int /\ Piece(1, l) = all
  BY WholeSequence
<1>1. Server!Min({n, l}) = IF n <= l THEN n ELSE l
  BY <1>0, MinMaxIs
<1>2. Server!Max({1, m}) = IF 1 >= m THEN 1 ELSE m
  <2> HIDE DEF m
  <2>1. 1 \in Int
    OBVIOUS
  <2> QED BY <1>0, <2>1, MinMaxIs
<1>3. Server!Min({l, l}) = l
  BY <1>0, MinMaxIs
<1>4. \A k : Cut(all, k) = IF k >= 0 THEN Piece(1, Server!Min({k, l})) ELSE Piece(Server!Max({1, l + k + 1}), l)
  BY DEF Cut
<1>5. \A a, b \in Int : a >= 1 /\ b <= l => Piece(a, b) \in Seq(Int)
  BY PieceIsSequence
<1>6. Cut(all, l) = all
  <2> HIDE DEF l, Piece, m
  <2>1. l >= 0
    BY <1>0
  <2>2. Cut(all, l) = Piece(1, Server!Min({l, l}))
    BY <1>4, <2>1
  <2> QED BY <1>0, <1>3, <2>2
<1>7. Cut(all, n) = IF n >= 0 THEN Piece(1, IF n <= l THEN n ELSE l) ELSE Piece(IF 1 >= m THEN 1 ELSE m, l)
  <2> HIDE DEF l, Piece
  <2> QED BY <1>1, <1>2, <1>4
<1>8. (1 >= m) <=> (-n >= l)
  BY <1>0
<1>14. l \in Int /\ n \in Int
  BY <1>0
<1> HIDE DEF l, Piece
<1>9. n <= l /\ n >= l => n = l
  BY <1>14
<1>10. n >= 0 /\ -n >= l => n = 0 /\ l = 0
  BY <1>0
<1>11. ~(n >= 0) => ~(n >= l)
  BY <1>0
<1> HIDE DEF m
<1>12. Cut(all, n) = IF n >= l \/ -n >= l THEN all ELSE IF n >= 0 THEN Piece(1, n) ELSE Piece(m, l)
  <2>1. CASE n >= l
    <3>1. n >= 0
      BY <1>11, <2>1
    <3>2. Cut(all, n) = Piece(1, l)
      BY <1>7, <1>9, <2>1, <3>1
    <3> QED BY <1>0, <2>1, <3>2
  <2>2. CASE ~(n >= l)
    <3>1. CASE n >= 0
      <4>1. n <= l
        BY <1>0, <2>2
      <4>2. ~(-n >= l)
        BY <1>0, <1>10, <2>2, <3>1
      <4> QED BY <1>7, <2>2, <3>1, <4>1, <4>2
    <3>2. CASE ~(n >= 0)
      BY <1>0, <1>7, <1>8, <2>2, <3>2
    <3> QED BY <3>1, <3>2
  <2> QED BY <2>1, <2>2
<1>13. Cut(all, n) \in Seq(Int)
  <2>1. n >= 0 /\ ~(n >= l) => Piece(1, n) \in Seq(Int)
    BY <1>0, <1>5
  <2>2. ~(1 >= m) => Piece(m, l) \in Seq(Int)
    BY <1>0, <1>5
  <2> QED BY <1>8, <1>12, <2>1, <2>2
<1> QED BY <1>6, <1>12, <1>13 DEF l, Piece, m

\* A cut at the length leaves all of them.
LEMMA CutAtEnd ==
  ASSUME NEW all \in Seq(Int)
  PROVE  Cut(all, Len(all)) = all
<1>1. 0 \in Int
  OBVIOUS
<1> QED BY <1>1, CutIs

\* What $push does, by the members it is given.
LEMMA PushedIs ==
  ASSUME NEW old \in Seq(Int), NEW arg
  PROVE  LET p == IF "$position" \in DOMAIN arg
                    THEN IF arg["$position"] < 0 THEN Server!Max({0, Len(old) + arg["$position"]})
                         ELSE Server!Min({arg["$position"], Len(old)})
                    ELSE Len(old)
             g == IF "$each" \in DOMAIN arg THEN arg["$each"] ELSE <<IF "value" \in DOMAIN arg THEN arg["value"] ELSE 0>>
             j == PutAt(old, p, g)
             s == IF "$sort" \in DOMAIN arg THEN Server!SortedBy(j, arg["$sort"]) ELSE j
         IN  Server!Pushed(old, arg) = Cut(s, IF "$slice" \in DOMAIN arg THEN arg["$slice"] ELSE Len(s))
<1>1. Len(old) \in Nat /\ Server!Min({Len(old), Len(old)}) = Len(old) /\ ~(Len(old) < 0)
  <2>1. Len(old) \in Nat
    OBVIOUS
  <2> QED BY <2>1, MinMaxIs
<1> DEFINE l == Len(old)
           position == Server!Member(arg, "$position", l)
           p == IF position < 0 THEN Server!Max({0, l + position}) ELSE Server!Min({position, l})
           q == IF "$position" \in DOMAIN arg
                  THEN IF arg["$position"] < 0 THEN Server!Max({0, l + arg["$position"]})
                       ELSE Server!Min({arg["$position"], l})
                  ELSE l
           g == Server!Given(arg)
           h == IF "$each" \in DOMAIN arg THEN arg["$each"] ELSE <<IF "value" \in DOMAIN arg THEN arg["value"] ELSE 0>>
           Sort1(j) == IF "$sort" \in DOMAIN arg THEN Server!SortedBy(j, arg["$sort"]) ELSE j
<1>2. p = q
  <2> HIDE DEF l
  <2>1. CASE "$position" \in DOMAIN arg
    BY <2>1 DEF Server!Member
  <2>2. CASE "$position" \notin DOMAIN arg
    <3>1. position = l /\ ~(l < 0)
      BY <1>1, <2>2 DEF Server!Member, l
    <3>2. p = Server!Min({l, l})
      BY <3>1
    <3> QED BY <1>1, <2>2, <3>2 DEF l
  <2> QED BY <2>1, <2>2
<1>3. g = h
  BY DEF Server!Given, Server!Member
<1>4. Server!Pushed(old, arg) =
        LET s == Sort1(PutAt(old, p, g)) IN Cut(s, Server!Member(arg, "$slice", Len(s)))
  BY DEF Server!Pushed, PutAt, Cut
<1> HIDE DEF p, g, l, Sort1
<1>5. \A s : Server!Member(arg, "$slice", Len(s)) = IF "$slice" \in DOMAIN arg THEN arg["$slice"] ELSE Len(s)
  BY DEF Server!Member
<1> HIDE DEF q, h
<1>6. Server!Pushed(old, arg) =
        LET s == Sort1(PutAt(old, q, h)) IN Cut(s, IF "$slice" \in DOMAIN arg THEN arg["$slice"] ELSE Len(s))
  BY <1>2, <1>3, <1>4, <1>5
<1> QED BY <1>6 DEF q, h, l, Sort1

\* How values are pushed on an array is what the types of the argument say.
LEMMA PushMeans ==
  ASSUME NEW old \in Seq(Int), NEW field, NEW how, Takes("Push", field, how)
  PROVE  LET w == Server!Pushed(old, Param("Push", how))
         IN  w \in Seq(Int) /\ Promise!Added(old, how, w)
<1> DEFINE arg == Param("Push", how)
           w == Server!Pushed(old, arg)
           l == Len(old)
           \* The steps, as PushedIs has them.
           p == IF "$position" \in DOMAIN arg
                  THEN IF arg["$position"] < 0 THEN Server!Max({0, l + arg["$position"]})
                       ELSE Server!Min({arg["$position"], l})
                  ELSE l
           g == IF "$each" \in DOMAIN arg THEN arg["$each"] ELSE <<IF "value" \in DOMAIN arg THEN arg["value"] ELSE 0>>
           j == PutAt(old, p, g)
           s == IF "$sort" \in DOMAIN arg THEN Server!SortedBy(j, arg["$sort"]) ELSE j
<1>0. l \in Nat
  OBVIOUS
<1>1. w = Cut(s, IF "$slice" \in DOMAIN arg THEN arg["$slice"] ELSE Len(s))
  BY PushedIs
<1>2. \/ how.op = "Value" /\ how.arg \in Int
      \/ how.op = "Each" /\ how.arg \in Seq(Int)
      \/ how.op = "Position" /\ how.arg[1] \in Seq(Int) /\ how.arg[2] \in Int
      \/ how.op = "Slice" /\ how.arg[1] \in Seq(Int) /\ how.arg[2] \in Int
      \/ how.op = "Sort" /\ how.arg[1] \in Seq(Int) /\ how.arg[2] \in DOMAIN SortOrder
  BY DEF Takes
<1> HIDE DEF w
<1>3. CASE how.op = "Value" /\ how.arg \in Int
  <2> DEFINE g0 == <<how.arg>>
  <2>1. arg = [value |-> how.arg]
    BY <1>3 DEF Param, Plain
  <2>2. p = l /\ g = g0 /\ s = j /\ "$slice" \notin DOMAIN arg
    BY <2>1
  <2>3. g0 \in Seq(Int) /\ old \o g0 = Append(old, how.arg)
    BY <1>3
  <2> HIDE DEF g0, p, g, l, arg
  <2>4. j = old \o g0 /\ j \in Seq(Int)
    BY <2>2, <2>3, AtTheEnd DEF l
  <2> HIDE DEF j, s
  <2>5. w = j
    BY <1>1, <2>2, <2>4, CutAtEnd
  <2> QED BY <1>3, <2>3, <2>4, <2>5 DEF Promise!Added, arg, w
<1>4. CASE how.op = "Each" /\ how.arg \in Seq(Int)
  <2> DEFINE g0 == how.arg
  <2>1. arg = Doc("$each", how.arg)
    BY <1>4 DEF Param, Each
  <2>2. p = l /\ g = g0 /\ s = j /\ "$slice" \notin DOMAIN arg
    BY <2>1 DEF Doc
  <2>3. g0 \in Seq(Int)
    BY <1>4
  <2> HIDE DEF g0, p, g, l, arg
  <2>4. j = old \o g0 /\ j \in Seq(Int)
    BY <2>2, <2>3, AtTheEnd DEF l
  <2> HIDE DEF j, s
  <2>5. w = j
    BY <1>1, <2>2, <2>4, CutAtEnd
  <2> QED BY <1>4, <2>4, <2>5 DEF Promise!Added, arg, w, g0
<1>5. CASE how.op = "Position" /\ how.arg[1] \in Seq(Int) /\ how.arg[2] \in Int
  <2> DEFINE g0 == how.arg[1]
             n == how.arg[2]
             q == IF n >= l THEN l ELSE IF n >= 0 THEN n ELSE IF -n > l THEN 0 ELSE l + n
  <2>1. arg = Extended(how.arg[1], "$position", how.arg[2])
    BY <1>5 DEF Param, Position
  <2>2. /\ "$position" \in DOMAIN arg /\ arg["$position"] = n
        /\ g = g0 /\ s = j /\ "$slice" \notin DOMAIN arg
    BY <2>1 DEF Extended
  <2>3. g0 \in Seq(Int) /\ n \in Int
    BY <1>5
  <2> HIDE DEF g0, g, n, arg
  <2>4. p = q /\ q \in 0 .. l
    <3>1. Server!Min({n, l}) = IF n <= l THEN n ELSE l
      BY <1>0, <2>3, MinMaxIs
    <3>2. Server!Max({0, l + n}) = IF 0 >= l + n THEN 0 ELSE l + n
      <4> DEFINE m == l + n
      <4>1. m \in Int /\ 0 \in Int
        BY <1>0, <2>3
      <4> HIDE DEF m
      <4>2. Server!Max({0, m}) = IF 0 >= m THEN 0 ELSE m
        BY <4>1, MinMaxIs
      <4> QED BY <4>2 DEF m
    <3>3. p = IF n < 0 THEN IF 0 >= l + n THEN 0 ELSE l + n ELSE IF n <= l THEN n ELSE l
      BY <2>2, <3>1, <3>2
    <3> HIDE DEF p, l
    <3> QED BY <1>0, <2>3, <3>3
  <2>5. j \in Seq(Int) /\ j = SubSeq(old, 1, q) \o g0 \o SubSeq(old, q + 1, l)
    <3> HIDE DEF p, q
    <3> QED BY <2>2, <2>3, <2>4, PutAtIs DEF PutAt
  <2> HIDE DEF p, l, j
  <2>6. w = j
    BY <1>1, <2>2, <2>5, CutAtEnd
  <2>7. Promise!Added(old, how, w) <=> w = SubSeq(old, 1, q) \o g0 \o SubSeq(old, q + 1, l)
    BY <1>5 DEF Promise!Added, g0, n, l
  <2> QED BY <2>5, <2>6, <2>7 DEF arg, w
<1>6. CASE how.op = "Slice" /\ how.arg[1] \in Seq(Int) /\ how.arg[2] \in Int
  <2> DEFINE g0 == how.arg[1]
             n == how.arg[2]
  <2>1. arg = Extended(how.arg[1], "$slice", how.arg[2])
    BY <1>6 DEF Param, Slice
  <2>2. p = l /\ g = g0 /\ s = j /\ "$slice" \in DOMAIN arg /\ arg["$slice"] = n
    BY <2>1 DEF Extended
  <2>3. g0 \in Seq(Int) /\ n \in Int
    BY <1>6
  <2> HIDE DEF g0, p, g, l, n, arg
  <2>4. j = old \o g0 /\ j \in Seq(Int)
    BY <2>2, <2>3, AtTheEnd DEF l
  <2> HIDE DEF j, s
  <2>5. w = Cut(j, n)
    BY <1>1, <2>2
  <2>6. w \in Seq(Int) /\ w = IF n >= Len(j) \/ -n >= Len(j) THEN j
                              ELSE IF n >= 0 THEN SubSeq(j, 1, n)
                              ELSE SubSeq(j, Len(j) + n + 1, Len(j))
    BY <2>3, <2>4, <2>5, CutIs
  <2>7. Promise!Added(old, how, w) <=>
          LET all == old \o g0
          IN  w = IF n >= Len(all) \/ -n >= Len(all) THEN all
                  ELSE IF n >= 0 THEN SubSeq(all, 1, n)
                  ELSE SubSeq(all, Len(all) + n + 1, Len(all))
    BY <1>6 DEF Promise!Added, g0, n
  <2>8. Promise!Added(old, how, w)
    BY <2>4, <2>6, <2>7, Zenon
  <2> QED BY <2>6, <2>8 DEF arg, w
<1>7. CASE how.op = "Sort" /\ how.arg[1] \in Seq(Int) /\ how.arg[2] \in DOMAIN SortOrder
  <2> DEFINE g0 == how.arg[1]
             n == how.arg[2]
  <2>1. arg = Extended(how.arg[1], "$sort", SortOrder[how.arg[2]])
    BY <1>7 DEF Param, Sort
  <2>2. p = l /\ g = g0 /\ "$sort" \in DOMAIN arg /\ arg["$sort"] = SortOrder[n] /\ "$slice" \notin DOMAIN arg
    BY <2>1 DEF Extended
  <2>3. g0 \in Seq(Int) /\ n \in {"Ascending", "Descending"}
    BY <1>7 DEF SortOrder
  <2> HIDE DEF g0, p, g, l, n, arg
  <2>4. j = old \o g0 /\ j \in Seq(Int)
    BY <2>2, <2>3, AtTheEnd DEF l
  <2>5. s = Server!SortedBy(j, SortOrder[n])
    BY <2>2
  <2> HIDE DEF j, s
  <2>6. s \in Seq(Int) /\ Promise!Sorted(j, s, n)
    BY <2>3, <2>4, <2>5, SortedMeans
  <2>7. w = s
    BY <1>1, <2>2, <2>6, CutAtEnd
  <2>8. Promise!Added(old, how, w) <=> Promise!Sorted(old \o g0, w, n)
    BY <1>7 DEF Promise!Added, g0, n
  <2> QED BY <2>4, <2>6, <2>7, <2>8 DEF arg, w
<1> HIDE DEF w
<1> QED BY <1>2, <1>3, <1>4, <1>5, <1>6, <1>7 DEF w

-----------------------------------------------------------------------------
(* Updates. *)

\* The names updates are written under.
UpdateKey(op) ==
  CASE op = "CurrentDate" -> "$currentDate" [] op = "Inc" -> "$inc"
    [] op = "Min" -> "$min" [] op = "Max" -> "$max" [] op = "Mul" -> "$mul"
    [] op = "Rename" -> "$rename" [] op = "Set" -> "$set" [] op = "SetOnInsert" -> "$setOnInsert"
    [] op = "Unset" -> "$unset" [] op = "AddToSet" -> "$addToSet"
    [] op = "PopFront" -> "$pop" [] op = "PopBack" -> "$pop"
    [] op = "Pull" -> "$pull" [] op = "Push" -> "$push" [] op = "PullAll" -> "$pullAll"

\* An array without its first value, or its last.
LEMMA EndsCutOff ==
  ASSUME NEW s \in Seq(Int), s # <<>>
  PROVE  /\ Tail(s) \in Seq(Int)
         /\ Server!Front(s) = Promise!Front(s) /\ Server!Front(s) \in Seq(Int)
<1>1. Len(s) \in Nat /\ Len(s) - 1 \in Int
  OBVIOUS
<1>2. Server!Front(s) = SubSeq(s, 1, Len(s) - 1) /\ Promise!Front(s) = SubSeq(s, 1, Len(s) - 1)
  BY DEF Server!Front, Promise!Front
<1>3. SubSeq(s, 1, Len(s) - 1) \in Seq(Int)
  BY <1>1, PieceIsSequence
<1>4. Tail(s) \in Seq(Int)
  OBVIOUS
<1> QED BY <1>2, <1>3, <1>4

\* Every operator gives a field a value of its type, the one that is promised.
LEMMA NewValueMeans ==
  ASSUME NEW op \in UpdateOps \ {"Rename", "Unset"}, NEW field, NEW arg, Takes(op, field, arg),
         NEW had \in BOOLEAN, NEW old, NEW before,
         had => old = before /\ Holds(field, before),
         op \in {"PopFront", "PopBack", "Pull", "PullAll"} => had
  PROVE  LET v == Server!NewValue(UpdateKey(op), Param(op, arg), had, old)
         IN  /\ Holds(field, v)
             /\ Promise!Becomes(IF op = "SetOnInsert" THEN "Set" ELSE op, arg, had, before, TRUE, v)
<1> DEFINE v == Server!NewValue(UpdateKey(op), Param(op, arg), had, old)
           array == IF had THEN before ELSE <<>>
<1>1. CASE op = "CurrentDate"
  <2>1. field \in DateFields /\ field \notin ArrayFields /\ arg \in {"bool", "SetDate", "SetTimeStamp"}
    BY <1>1, TypesAssumption DEF Takes
  <2>2. v = IF Server!Member(Param(op, arg), "$type", "date") = "date" THEN "date" ELSE "timestamp"
    BY <1>1 DEF Server!NewValue, UpdateKey
  <2>3. v = IF arg = "SetTimeStamp" THEN "timestamp" ELSE "date"
    <3>1. CASE arg = "bool"
      BY <1>1, <2>2, <3>1 DEF Server!Member, Param, Plain
    <3>2. CASE arg = "SetDate"
      BY <1>1, <2>2, <3>2 DEF Server!Member, Param, SetDate, Doc
    <3>3. CASE arg = "SetTimeStamp"
      BY <1>1, <2>2, <3>3 DEF Server!Member, Param, SetTimeStamp, Doc
    <3> QED BY <2>1, <3>1, <3>2, <3>3
  <2> QED BY <1>1, <2>1, <2>3 DEF Holds, Promise!Becomes
<1>2. CASE op \in {"Inc", "Mul", "Min", "Max"}
  <2>1. field \notin ArrayFields \cup DateFields /\ arg \in Int
    BY <1>2 DEF Takes
  <2>2. \A x : Holds(field, x) <=> x \in Int
    BY <2>1 DEF Holds
  <2>3. had => old = before /\ before \in Int
    BY <2>2
  <2>4. Param(op, arg) = arg
    BY <1>2 DEF Param
  <2>5. \A a, b \in Int : a + b \in Int /\ a * b \in Int
    OBVIOUS
  <2>6. CASE op = "Inc"
    <3>1. v = IF had THEN before + arg ELSE arg
      BY <2>3, <2>4, <2>6 DEF Server!NewValue, UpdateKey
    <3>2. v = (IF had THEN before ELSE 0) + arg /\ v \in Int
      BY <2>1, <2>3, <3>1
    <3> QED BY <2>2, <2>6, <3>2 DEF Promise!Becomes
  <2>7. CASE op = "Mul"
    <3>1. v = IF had THEN before * arg ELSE 0
      BY <2>3, <2>4, <2>7 DEF Server!NewValue, UpdateKey
    <3>2. 0 * arg = 0
      BY <2>1
    <3>3. v = (IF had THEN before ELSE 0) * arg /\ v \in Int
      BY <2>1, <2>3, <2>5, <3>1, <3>2
    <3> QED BY <2>2, <2>7, <3>3 DEF Promise!Becomes
  <2>8. CASE op = "Min"
    <3>1. v = IF had THEN Server!Min({before, arg}) ELSE arg
      BY <2>3, <2>4, <2>8 DEF Server!NewValue, UpdateKey
    <3>2. had => Server!Min({before, arg}) = IF before <= arg THEN before ELSE arg
      BY <2>1, <2>3, MinMaxIs
    <3> QED BY <2>1, <2>2, <2>3, <2>8, <3>1, <3>2 DEF Promise!Becomes
  <2>9. CASE op = "Max"
    <3>1. v = IF had THEN Server!Max({before, arg}) ELSE arg
      BY <2>3, <2>4, <2>9 DEF Server!NewValue, UpdateKey
    <3>2. had => Server!Max({before, arg}) = IF before >= arg THEN before ELSE arg
      BY <2>1, <2>3, MinMaxIs
    <3> QED BY <2>1, <2>2, <2>3, <2>9, <3>1, <3>2 DEF Promise!Becomes
  <2> QED BY <1>2, <2>6, <2>7, <2>8, <2>9
<1>3. CASE op \in {"Set", "SetOnInsert"}
  <2>1. Holds(field, arg)
    BY <1>3 DEF Takes
  <2>2. v = arg
    BY <1>3 DEF Server!NewValue, UpdateKey, Param
  <2> QED BY <1>3, <2>1, <2>2 DEF Promise!Becomes
<1>4. CASE op \in {"AddToSet", "Push", "PopFront", "PopBack", "Pull", "PullAll"}
  <2>1. field \in ArrayFields /\ (\A x : Holds(field, x) <=> x \in Seq(Int))
    <3>1. field \in ArrayFields
      BY <1>4 DEF Takes
    <3> QED BY <3>1, TypesAssumption DEF Holds
  <2>2. array \in Seq(Int) /\ (had => before = array) /\ array = IF had THEN old ELSE <<>>
    <3>1. <<>> \in Seq(Int)
      OBVIOUS
    <3> QED BY <2>1, <3>1
  <2>10. (op # "AddToSet" /\ op # "Push") => before = array
    BY <1>4, <2>2
  <2>11. array = IF had THEN before ELSE <<>>
    OBVIOUS
  <2> DEFINE a == Param(op, arg)
  <2> HIDE DEF array, v, a
  <2>3. CASE op = "AddToSet"
    <3> DEFINE values == IF arg.op = "Each" THEN arg.arg ELSE <<arg.arg>>
    <3>1. v = Server!AddedToSet(array, Server!Given(a))
      BY <2>2, <2>3 DEF v, a, Server!NewValue, UpdateKey
    <3>2. (arg.op = "Value" /\ arg.arg \in Int) \/ (arg.op = "Each" /\ arg.arg \in Seq(Int))
      BY <2>3 DEF Takes
    <3>3. Server!Given(a) = values /\ values \in Seq(Int)
      <4>1. CASE arg.op = "Value" /\ arg.arg \in Int
        <5>1. a = [value |-> arg.arg]
          BY <2>3, <4>1 DEF a, Param, Plain
        <5>2. Server!Given(a) = <<arg.arg>>
          BY <5>1 DEF Server!Given, Server!Member
        <5> QED BY <4>1, <5>2
      <4>2. CASE arg.op = "Each" /\ arg.arg \in Seq(Int)
        <5>1. a = Doc("$each", arg.arg)
          BY <2>3, <4>2 DEF a, Param, Each
        <5>2. Server!Given(a) = arg.arg
          BY <5>1 DEF Server!Given, Server!Member, Doc
        <5> QED BY <4>2, <5>2
      <4> QED BY <3>2, <4>1, <4>2
    <3>4. v \in Seq(Int) /\ Promise!Joined(array, values, v)
      <4> HIDE DEF values
      <4> QED BY <2>2, <3>1, <3>3, AddedMeans
    <3>5. Promise!Becomes("AddToSet", arg, had, before, TRUE, v)
      BY <2>11, <3>4 DEF Promise!Becomes
    <3> QED BY <2>1, <2>3, <3>4, <3>5 DEF v
  <2>4. CASE op = "Push"
    <3>1. v = Server!Pushed(array, Param("Push", arg))
      BY <2>2, <2>4 DEF v, Server!NewValue, UpdateKey
    <3>2. v \in Seq(Int) /\ Promise!Added(array, arg, v)
      BY <2>2, <2>4, <3>1, PushMeans
    <3>3. Promise!Becomes("Push", arg, had, before, TRUE, v)
      BY <2>11, <3>2 DEF Promise!Becomes
    <3> QED BY <2>1, <2>4, <3>2, <3>3 DEF v
  <2>5. CASE op = "PopFront"
    <3>1. v = IF array = <<>> THEN <<>> ELSE Tail(array)
      BY <2>2, <2>5 DEF v, Server!NewValue, UpdateKey, Param
    <3>2. v \in Seq(Int)
      BY <2>2, <3>1, EndsCutOff
    <3>3. Promise!Becomes("PopFront", arg, had, before, TRUE, v)
      BY <2>5, <2>10, <3>1 DEF Promise!Becomes
    <3> QED BY <2>1, <2>5, <3>2, <3>3 DEF v
  <2>6. CASE op = "PopBack"
    <3>1. v = IF array = <<>> THEN <<>> ELSE Server!Front(array)
      BY <2>2, <2>6 DEF v, Server!NewValue, UpdateKey, Param
    <3>2. v \in Seq(Int)
      BY <2>2, <3>1, EndsCutOff
    <3>3. v = IF array = <<>> THEN <<>> ELSE Promise!Front(array)
      BY <2>2, <3>1, EndsCutOff
    <3>4. Promise!Becomes("PopBack", arg, had, before, TRUE, v)
      BY <2>6, <2>10, <3>3 DEF Promise!Becomes
    <3> QED BY <2>1, <2>6, <3>2, <3>4 DEF v
  <2>7. CASE op = "Pull"
    <3> DEFINE dropped == {x \in Promise!Range(array) : IF arg.op = "Value" THEN x = arg.arg ELSE Promise!Suits(x, arg)}
    <3>1. v = Server!Kept(array, {x \in Server!Range(array) : Server!Pulled(a, x)})
      BY <2>2, <2>7 DEF v, a, Server!NewValue, UpdateKey
    <3>2. ASSUME NEW x PROVE Server!Pulled(a, x) <=> IF arg.op = "Value" THEN x = arg.arg ELSE Promise!Suits(x, arg)
      <4>1. CASE arg.op = "Value"
        <5>1. a = [value |-> arg.arg]
          BY <2>7, <4>1 DEF a, Param, Plain
        <5> QED BY <4>1, <5>1 DEF Server!Pulled, Server!Has
      <4>2. CASE arg.op # "Value"
        <5>1. arg.op \in ValueOps
          BY <2>7, <4>2 DEF Takes, ValueOps
        <5>2. arg.op \in ConditionOps
          BY <5>1 DEF ValueOps, ConditionOps
        <5>3. a = Doc(Key[arg.op], Argument(arg))
          BY <2>7, <4>2, <5>2, PartIs DEF a, Param
        <5>4. Key[arg.op] # "value"
          BY <5>1 DEF Key, ValueOps
        <5>5. Server!Pulled(a, x) <=> Server!Compares(Key[arg.op], Argument(arg), x)
          BY <5>3, <5>4 DEF Server!Pulled, Server!Has, Doc
        <5>6. Promise!Suits(x, arg) \in BOOLEAN /\ (Server!Compares(Key[arg.op], Argument(arg), x) <=> Promise!Suits(x, arg))
          BY <5>1, ValueMeans
        <5> QED BY <4>2, <5>5, <5>6
      <4> QED BY <4>1, <4>2
    <3>3. v = Server!Kept(array, dropped)
      BY <3>1, <3>2, RangeIs
    <3> HIDE DEF dropped
    <3>4. v \in Seq(Int) /\ Promise!Rest(array, dropped, v)
      BY <2>2, <3>3, KeptMeans
    <3>5. Promise!Becomes("Pull", arg, had, before, TRUE, v)
      BY <2>7, <2>10, <3>4 DEF Promise!Becomes, dropped
    <3> QED BY <2>1, <2>7, <3>4, <3>5 DEF v
  <2>8. CASE op = "PullAll"
    <3> DEFINE dropped == Promise!Range(arg)
    <3>1. v = Server!Kept(array, dropped)
      BY <2>2, <2>8, RangeIs DEF v, Server!NewValue, UpdateKey, Param
    <3> HIDE DEF dropped
    <3>2. v \in Seq(Int) /\ Promise!Rest(array, dropped, v)
      BY <2>2, <3>1, KeptMeans
    <3>3. Promise!Becomes("PullAll", arg, had, before, TRUE, v)
      BY <2>8, <2>10, <3>2 DEF Promise!Becomes, dropped
    <3> QED BY <2>1, <2>8, <3>2, <3>3 DEF v
  <2> QED BY <1>4, <2>3, <2>4, <2>5, <2>6, <2>7, <2>8
<1> QED BY <1>1, <1>2, <1>3, <1>4 DEF UpdateOps

\* An update is written as a document of one member.
LEMMA WrittenUpdateIs ==
  ASSUME NEW u, IsUpdate(u)
  PROVE  /\ WrittenUpdate(u) = Doc(UpdateKey(u.op), Actions(u))
         /\ DOMAIN Actions(u) = {u.on[i].field : i \in DOMAIN u.on}
         /\ \A i \in DOMAIN u.on : Actions(u)[u.on[i].field] = Param(u.op, u.on[i].arg)
         /\ DOMAIN WrittenUpdate(u) = {UpdateKey(u.op)} /\ UpdateKey(u.op) \in Server!UpdateKeys
<1>1. u.op \in UpdateOps
  BY DEF IsUpdate
<1>2. WrittenUpdate(u) = Doc(UpdateKey(u.op), Actions(u))
  <2> DEFINE A == Actions(u)
  <2> HIDE DEF A
  <2>1. CASE u.op \in {"CurrentDate", "Inc", "Min", "Max", "Mul"}
    BY <2>1 DEF WrittenUpdate, UpdateKey, CurrentDate, Inc, Min, Max, Mul, A
  <2>2. CASE u.op \in {"Rename", "Set", "SetOnInsert", "Unset", "AddToSet"}
    BY <2>2 DEF WrittenUpdate, UpdateKey, Rename, Set, SetOnInsert, Unset, AddToSet, A
  <2>3. CASE u.op \in {"PopFront", "PopBack", "Pull", "Push", "PullAll"}
    BY <2>3 DEF WrittenUpdate, UpdateKey, PopFront, PopBack, Pull, Push, PullAll, A
  <2> QED BY <1>1, <2>1, <2>2, <2>3 DEF UpdateOps
<1>3. DOMAIN Actions(u) = {u.on[i].field : i \in DOMAIN u.on}
  BY DEF Actions
<1>4. ASSUME NEW i \in DOMAIN u.on PROVE Actions(u)[u.on[i].field] = Param(u.op, u.on[i].arg)
  <2> DEFINE k == CHOOSE j \in DOMAIN u.on : u.on[j].field = u.on[i].field
  <2>1. k \in DOMAIN u.on /\ u.on[k].field = u.on[i].field
    OBVIOUS
  <2>2. Actions(u)[u.on[i].field] = Param(u.op, u.on[k].arg)
    BY DEF Actions
  <2> HIDE DEF k
  <2>3. k = i
    BY <2>1 DEF IsUpdate
  <2> QED BY <2>2, <2>3
<1>5. DOMAIN WrittenUpdate(u) = {UpdateKey(u.op)}
  BY <1>2 DEF Doc
<1>6. UpdateKey(u.op) \in Server!UpdateKeys
  BY <1>1 DEF UpdateKey, UpdateOps, Server!UpdateKeys
<1> QED BY <1>2, <1>3, <1>4, <1>5, <1>6

\* What the server makes of an update.
Renaming(d, A) ==
  LET moved == {f \in DOMAIN A : f \in DOMAIN d}
      from(t) == CHOOSE f \in moved : A[f] = t
      targets == {A[f] : f \in moved}
  IN  [f \in (DOMAIN d \ moved) \cup targets |-> IF f \in targets THEN d[from(f)] ELSE d[f]]

Applying(d, key, A, inserting) ==
  LET new == CASE key = "$setOnInsert" /\ ~inserting -> {}
               [] key \in {"$pop", "$pull", "$pullAll"} -> DOMAIN A \cap DOMAIN d
               [] OTHER -> DOMAIN A
  IN  [f \in DOMAIN d \cup new |->
         IF f \in new THEN Server!NewValue(key, A[f], Server!Has(d, f), Server!Member(d, f, 0)) ELSE d[f]]

\* An update, by its key and what it does to the fields: $rename, or new values.
UpdatedBy(d, key, A, inserting) ==
  CASE key = "$unset" -> [f \in DOMAIN d \ DOMAIN A |-> d[f]]
    [] key = "$rename" -> Renaming(d, A)
    [] OTHER -> Applying(d, key, A, inserting)

\* The server applies what the update is written as.
LEMMA UpdatedIs ==
  ASSUME NEW d, NEW key, NEW A, NEW inserting
  PROVE  Server!Updated(d, Doc(key, A), inserting) = UpdatedBy(d, key, A, inserting)
<1>1. (CHOOSE k \in DOMAIN Doc(key, A) : TRUE) = key /\ Doc(key, A)[key] = A
  BY DEF Doc
<1> DEFINE Body(k, F) == CASE k = "$unset" -> [f \in DOMAIN d \ DOMAIN F |-> d[f]]
                           [] k = "$rename" -> Renaming(d, F)
                           [] OTHER -> Applying(d, k, F, inserting)
<1>2. \A x : Server!Updated(d, x, inserting) = Body(CHOOSE k \in DOMAIN x : TRUE, x[CHOOSE k \in DOMAIN x : TRUE])
  BY DEF Server!Updated, Renaming, Applying
<1>3. Server!Updated(d, Doc(key, A), inserting) = Body(key, A)
  <2> HIDE DEF Body
  <2> QED BY <1>1, <1>2
<1> QED BY <1>3 DEF UpdatedBy

\* An update that gives fields new values changes the document as is promised.
LEMMA ApplyingMeans ==
  ASSUME NEW d, IsDocument(d), NEW u, IsUpdate(u), NEW inserting \in BOOLEAN,
         u.op \notin {"Rename", "Unset"}
  PROVE  LET e == Applying(d, UpdateKey(u.op), Actions(u), inserting)
         IN  IsDocument(e) /\ Promise!Changed(d, e, u, inserting)
<1> DEFINE A == Actions(u)
           key == UpdateKey(u.op)
           e == Applying(d, key, A, inserting)
           new == CASE key = "$setOnInsert" /\ ~inserting -> {}
                    [] key \in {"$pop", "$pull", "$pullAll"} -> DOMAIN A \cap DOMAIN d
                    [] OTHER -> DOMAIN A
           fields == {u.on[i].field : i \in DOMAIN u.on}
<1>1. /\ e = [f \in DOMAIN d \cup new |->
                IF f \in new THEN Server!NewValue(key, A[f], Server!Has(d, f), Server!Member(d, f, 0)) ELSE d[f]]
  BY DEF Applying
<1>2. DOMAIN A = fields /\ \A i \in DOMAIN u.on : A[u.on[i].field] = Param(u.op, u.on[i].arg)
  BY WrittenUpdateIs
<1>3. u.op \in UpdateOps \ {"Rename", "Unset"}
  BY DEF IsUpdate
<1>4. /\ key = "$setOnInsert" <=> u.op = "SetOnInsert"
      /\ key \in {"$pop", "$pull", "$pullAll"} <=> u.op \in {"PopFront", "PopBack", "Pull", "PullAll"}
  BY <1>3 DEF UpdateKey, UpdateOps
<1>5. new = IF u.op = "SetOnInsert" /\ ~inserting THEN {}
            ELSE IF u.op \in {"PopFront", "PopBack", "Pull", "PullAll"} THEN fields \cap DOMAIN d
            ELSE fields
  <2> HIDE DEF A, key, fields
  <2> QED BY <1>2, <1>4
<1> HIDE DEF e, A, new
<1>6. ASSUME NEW i \in DOMAIN u.on, u.on[i].field \in new
      PROVE  /\ Holds(u.on[i].field, e[u.on[i].field])
             /\ Promise!Becomes(IF u.op = "SetOnInsert" THEN "Set" ELSE u.op, u.on[i].arg,
                                Promise!Has(d, u.on[i].field),
                                IF Promise!Has(d, u.on[i].field) THEN d[u.on[i].field] ELSE <<>>, TRUE, e[u.on[i].field])
  <2> DEFINE f == u.on[i].field
             arg == u.on[i].arg
             had == Promise!Has(d, f)
             old == Server!Member(d, f, 0)
             before == IF had THEN d[f] ELSE <<>>
             op == u.op
  <2>1. e[f] = Server!NewValue(key, Param(op, arg), had, old)
    <3>1. Server!Has(d, f) = had
      BY DEF Server!Has, Promise!Has
    <3>2. A[f] = Param(op, arg)
      BY <1>2
    <3>3. e[f] = Server!NewValue(key, A[f], Server!Has(d, f), old)
      <4> HIDE DEF key, f, old
      <4> QED BY <1>1, <1>6 DEF f, old
    <3> QED BY <3>1, <3>2, <3>3
  <2>2. Takes(op, f, arg)
    BY DEF IsUpdate
  <2>3. had \in BOOLEAN /\ (had => old = before /\ Holds(f, before))
    BY DEF Promise!Has, Server!Member, IsDocument
  <2>4. op \in {"PopFront", "PopBack", "Pull", "PullAll"} => had
    BY <1>5, <1>6 DEF Promise!Has
  <2> HIDE DEF f, arg, had, old, before, op, key
  <2>5. op \in UpdateOps \ {"Rename", "Unset"} /\ key = UpdateKey(op)
    BY <1>3 DEF op, key
  <2>6. Holds(f, e[f]) /\ Promise!Becomes(IF op = "SetOnInsert" THEN "Set" ELSE op, arg, had, before, TRUE, e[f])
    BY <2>1, <2>2, <2>3, <2>4, <2>5, NewValueMeans
  <2> QED BY <2>6 DEF f, arg, had, before, op
<1>7. \A f \in DOMAIN d \ new : e[f] = d[f]
  <2> HIDE DEF key
  <2> QED BY <1>1
<1>8. DOMAIN e = DOMAIN d \cup new /\ new \subseteq fields /\ e = [f \in DOMAIN e |-> e[f]]
  <2> HIDE DEF key, fields
  <2> QED BY <1>1, <1>5
<1>9. IsDocument(e)
  <2>1. ASSUME NEW f \in DOMAIN e PROVE f \in Fields /\ Holds(f, e[f])
    <3>1. CASE f \in new
      <4>1. PICK i \in DOMAIN u.on : u.on[i].field = f
        BY <1>8, <3>1
      <4>2. f \in Fields
        BY <4>1 DEF IsUpdate
      <4> QED BY <1>6, <3>1, <4>1, <4>2
    <3>2. CASE f \notin new
      <4>1. f \in DOMAIN d
        BY <1>8, <3>2
      <4> QED BY <1>7, <3>2, <4>1 DEF IsDocument
    <3> QED BY <3>1, <3>2
  <2> QED BY <1>8, <2>1 DEF IsDocument
<1>10. Promise!Changed(d, e, u, inserting)
  <2>1. CASE u.op = "SetOnInsert" /\ ~inserting
    <3>1. new = {}
      BY <1>5, <2>1
    <3>2. DOMAIN e = DOMAIN d /\ \A f \in DOMAIN d : e[f] = d[f]
      BY <1>7, <1>8, <3>1
    <3>3. d = [f \in DOMAIN d |-> d[f]]
      BY DEF IsDocument
    <3>4. e = d
      BY <1>8, <3>2, <3>3
    <3> QED BY <2>1, <3>4 DEF Promise!Changed
  <2>2. CASE ~(u.op = "SetOnInsert" /\ ~inserting)
    <3>1. ASSUME NEW f \in (DOMAIN d \cup DOMAIN e) \ fields
          PROVE  Promise!Has(d, f) = Promise!Has(e, f) /\ (Promise!Has(d, f) => d[f] = e[f])
      <4>1. f \notin new /\ (f \in DOMAIN d <=> f \in DOMAIN e)
        BY <1>8
      <4> QED BY <1>7, <4>1 DEF Promise!Has
    <3>2. ASSUME NEW i \in DOMAIN u.on
          PROVE  LET f == u.on[i].field
                     value(x, g) == IF Promise!Has(x, g) THEN x[g] ELSE <<>>
                 IN  Promise!Becomes(IF u.op = "SetOnInsert" THEN "Set" ELSE u.op, u.on[i].arg,
                                     Promise!Has(d, f), value(d, f), Promise!Has(e, f), value(e, f))
      <4> DEFINE f == u.on[i].field
      <4>1. CASE f \in new
        <5>1. Promise!Has(e, f) = TRUE
          BY <1>8, <4>1 DEF Promise!Has
        <5> QED BY <1>6, <4>1, <5>1
      <4>2. CASE f \notin new
        <5>1. f \in fields
          OBVIOUS
        <5>2. u.op \in {"PopFront", "PopBack", "Pull", "PullAll"} /\ f \notin DOMAIN d
          BY <1>5, <2>2, <4>2, <5>1
        <5>3. Promise!Has(e, f) = FALSE /\ Promise!Has(d, f) = FALSE
          BY <1>8, <4>2, <5>2 DEF Promise!Has
        <5>4. \A arg, x, y : Promise!Becomes(u.op, arg, FALSE, x, FALSE, y)
          <6>1. CASE u.op = "PopFront"
            BY <6>1 DEF Promise!Becomes
          <6>2. CASE u.op = "PopBack"
            BY <6>2 DEF Promise!Becomes
          <6>3. CASE u.op = "Pull"
            BY <6>3 DEF Promise!Becomes
          <6>4. CASE u.op = "PullAll"
            BY <6>4 DEF Promise!Becomes
          <6> QED BY <5>2, <6>1, <6>2, <6>3, <6>4
        <5>5. u.op # "SetOnInsert"
          BY <5>2
        <5> QED BY <5>3, <5>4, <5>5
      <4> QED BY <4>1, <4>2
    <3> QED BY <1>3, <2>2, <3>1, <3>2 DEF Promise!Changed
  <2> QED BY <2>1, <2>2
<1> QED BY <1>9, <1>10 DEF e, A

\* So does one that renames fields.
LEMMA RenamingMeans ==
  ASSUME NEW d, IsDocument(d), NEW u, IsUpdate(u), NEW inserting \in BOOLEAN, u.op = "Rename"
  PROVE  LET e == Renaming(d, Actions(u))
         IN  IsDocument(e) /\ Promise!Changed(d, e, u, inserting)
<1> DEFINE A == Actions(u)
           e == Renaming(d, A)
           moved == {f \in DOMAIN A : f \in DOMAIN d}
           from(t) == CHOOSE f \in moved : A[f] = t
           targets == {A[f] : f \in moved}
           fields == {u.on[i].field : i \in DOMAIN u.on}
           renamed == {i \in DOMAIN u.on : Promise!Has(d, u.on[i].field)}
           new == {u.on[i].arg : i \in renamed}
<1>1. e = [f \in (DOMAIN d \ moved) \cup targets |-> IF f \in targets THEN d[from(f)] ELSE d[f]]
  BY DEF Renaming
<1>2. DOMAIN A = fields /\ \A i \in DOMAIN u.on : A[u.on[i].field] = u.on[i].arg
  BY WrittenUpdateIs DEF Param
<1> HIDE DEF e, A
<1>3. ASSUME NEW f \in moved PROVE from(A[f]) = f
  <2>1. ASSUME NEW g \in moved, A[g] = A[f] PROVE g = f
    <3>1. PICK i \in DOMAIN u.on : u.on[i].field = f
      BY <1>2
    <3>2. PICK j \in DOMAIN u.on : u.on[j].field = g
      BY <1>2
    <3>3. u.on[i].arg = u.on[j].arg
      BY <1>2, <2>1, <3>1, <3>2
    <3>4. i = j
      BY <3>3 DEF IsUpdate
    <3> QED BY <3>1, <3>2, <3>4
  <2> HIDE DEF moved
  <2> QED BY <2>1
<1>4. new = targets
  <2>1. ASSUME NEW i \in renamed PROVE u.on[i].field \in moved /\ u.on[i].arg = A[u.on[i].field]
    BY <1>2 DEF Promise!Has
  <2>2. ASSUME NEW f \in moved PROVE \E i \in renamed : u.on[i].arg = A[f]
    BY <1>2 DEF Promise!Has
  <2> HIDE DEF renamed, moved
  <2> QED BY <2>1, <2>2
<1>5. DOMAIN d \ moved = DOMAIN d \ fields
  BY <1>2
<1>6. ASSUME NEW f \in moved PROVE A[f] \in targets /\ e[A[f]] = d[f]
  <2> HIDE DEF from, moved
  <2> QED BY <1>1, <1>3
<1>7. DOMAIN e = (DOMAIN d \ fields) \cup new
  BY <1>1, <1>4, <1>5
<1>8. ASSUME NEW i \in renamed PROVE u.on[i].field \in moved /\ e[u.on[i].arg] = d[u.on[i].field]
  <2>1. u.on[i].field \in moved /\ A[u.on[i].field] = u.on[i].arg
    BY <1>2 DEF Promise!Has
  <2> HIDE DEF moved
  <2> QED BY <1>6, <2>1
<1>9. ASSUME NEW f \in DOMAIN e \ new PROVE f \in DOMAIN d /\ e[f] = d[f]
  <2>1. f \in DOMAIN d /\ f \notin moved /\ f \notin targets
    BY <1>1, <1>4
  <2> HIDE DEF moved, targets, from
  <2> QED BY <1>1, <2>1
<1>10. IsDocument(e)
  <2>1. e = [f \in DOMAIN e |-> e[f]]
    <3> HIDE DEF moved, targets, from
    <3> QED BY <1>1
  <2>2. ASSUME NEW f \in DOMAIN e PROVE f \in Fields /\ Holds(f, e[f])
    <3>1. CASE f \in new
      <4>1. PICK i \in renamed : u.on[i].arg = f
        BY <3>1
      <4> DEFINE g == u.on[i].field
      <4>2. Takes("Rename", g, f)
        BY <4>1 DEF IsUpdate
      <4>3. g \in DOMAIN d /\ e[f] = d[g]
        BY <1>8, <4>1
      <4> HIDE DEF g
      <4>4. Holds(g, d[g])
        BY <4>3 DEF IsDocument
      <4>5. f \in Fields /\ (f \in ArrayFields <=> g \in ArrayFields) /\ (f \in DateFields <=> g \in DateFields)
        BY <4>2 DEF Takes
      <4>6. Holds(f, d[g])
        BY <4>4, <4>5, TypesAssumption DEF Holds
      <4> QED BY <4>3, <4>5, <4>6
    <3>2. CASE f \notin new
      BY <1>9, <3>2 DEF IsDocument
    <3> QED BY <3>1, <3>2
  <2> QED BY <2>1, <2>2 DEF IsDocument
<1>11. Promise!Changed(d, e, u, inserting)
  <2>1. \A f \in DOMAIN e \ new : Promise!Has(d, f) = Promise!Has(e, f) /\ (Promise!Has(d, f) => d[f] = e[f])
    BY <1>9 DEF Promise!Has
  <2>2. \A i \in renamed : e[u.on[i].arg] = d[u.on[i].field]
    BY <1>8
  <2> HIDE DEF targets, from, moved
  <2> QED BY <1>7, <2>1, <2>2 DEF Promise!Changed
<1> QED BY <1>10, <1>11 DEF e, A

\* An update makes a document of a document, and the one that is promised.
THEOREM UpdateMeans ==
  ASSUME NEW d, IsDocument(d), NEW u, IsUpdate(u), NEW inserting \in BOOLEAN
  PROVE  LET e == Server!Updated(d, WrittenUpdate(u), inserting)
         IN  IsDocument(e) /\ Promise!Changed(d, e, u, inserting)
<1> DEFINE A == Actions(u)
           key == UpdateKey(u.op)
           e == Server!Updated(d, WrittenUpdate(u), inserting)
<1>1. e = CASE key = "$unset" -> [f \in DOMAIN d \ DOMAIN A |-> d[f]]
            [] key = "$rename" -> Renaming(d, A)
            [] OTHER -> Applying(d, key, A, inserting)
  <2>1. WrittenUpdate(u) = Doc(key, A)
    BY WrittenUpdateIs
  <2> HIDE DEF key, A
  <2>2. e = UpdatedBy(d, key, A, inserting)
    BY <2>1, UpdatedIs
  <2> QED BY <2>2 DEF UpdatedBy
<1>2. u.op \in UpdateOps
  BY DEF IsUpdate
<1>3. (key = "$unset" <=> u.op = "Unset") /\ (key = "$rename" <=> u.op = "Rename")
  BY <1>2 DEF UpdateKey, UpdateOps
<1> HIDE DEF e, key
<1>4. CASE u.op = "Unset"
  <2> DEFINE fields == {u.on[i].field : i \in DOMAIN u.on}
  <2>1. e = [f \in DOMAIN d \ fields |-> d[f]]
    BY <1>1, <1>3, <1>4, WrittenUpdateIs
  <2>2. IsDocument(e)
    BY <2>1 DEF IsDocument
  <2>3. \A f \in (DOMAIN d \cup DOMAIN e) \ fields : Promise!Has(d, f) = Promise!Has(e, f) /\ (Promise!Has(d, f) => d[f] = e[f])
    BY <2>1 DEF Promise!Has
  <2>4. \A i \in DOMAIN u.on : Promise!Has(e, u.on[i].field) = FALSE
    BY <2>1 DEF Promise!Has
  <2>5. \A arg, had, x, y : Promise!Becomes("Unset", arg, had, x, FALSE, y)
    BY DEF Promise!Becomes
  <2>6. Promise!Changed(d, e, u, inserting)
    BY <1>4, <2>3, <2>4, <2>5 DEF Promise!Changed
  <2> QED BY <2>2, <2>6 DEF e
<1>5. CASE u.op = "Rename"
  <2>1. e = Renaming(d, A)
    BY <1>1, <1>3, <1>5
  <2> QED BY <1>5, <2>1, RenamingMeans DEF e
<1>6. CASE u.op \notin {"Unset", "Rename"}
  <2>1. e = Applying(d, key, A, inserting)
    BY <1>1, <1>3, <1>6
  <2> QED BY <1>6, <2>1, ApplyingMeans DEF e, key
<1> QED BY <1>4, <1>5, <1>6

===============================================================================
