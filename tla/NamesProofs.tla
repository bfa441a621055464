------------------------------ MODULE NamesProofs ------------------------------
(***************************************************************************)
(* Proofs about Names, for all names, collections and programs: what is    *)
(* put together is taken apart as it was, if no database's name has two    *)
(* colons in a row, a colon at its end, or a dot; then every request       *)
(* reaches the collection it is meant for, and concerns are shared by      *)
(* name, as NamedStore promises.                                           *)
(***************************************************************************)
EXTENDS Names, SequenceTheorems, WellFoundedInduction, TLAPS

\* Taking a part in front of a separator, and the part behind it.
LEMMA TakeApart ==
  ASSUME NEW S, NEW d \in Seq(S), NEW c \in Seq(S), NEW m \in Seq(S)
  PROVE  LET n == d \o m \o c
         IN  /\ n \in Seq(S) /\ Len(n) = Len(d) + Len(m) + Len(c)
             /\ \A i \in 1 .. Len(d) : n[i] = d[i]
             /\ \A i \in 1 .. Len(m) : n[Len(d) + i] = m[i]
             /\ SubSeq(n, 1, Len(d)) = d
             /\ SubSeq(n, Len(d) + Len(m) + 1, Len(n)) = c
<1> DEFINE n == d \o m \o c
           k == Len(d) + Len(m)
<1>1. /\ Len(d) \in Nat /\ Len(m) \in Nat /\ Len(c) \in Nat /\ k \in Nat
  BY LenProperties
<1>2. d \o m \in Seq(S) /\ Len(d \o m) = k
  BY ConcatProperties
<1>3. n \in Seq(S) /\ Len(n) = k + Len(c)
  BY <1>2, ConcatProperties
<1>4. \A i \in 1 .. k : n[i] = (d \o m)[i]
  BY <1>1, <1>2, ConcatProperties
<1>5. \A i \in 1 .. Len(d) : n[i] = d[i]
  BY <1>1, <1>4, ConcatProperties
<1>6. \A i \in 1 .. Len(m) : n[Len(d) + i] = m[i]
  <2> SUFFICES ASSUME NEW i \in 1 .. Len(m)
               PROVE  n[Len(d) + i] = m[i]
    OBVIOUS
  <2>1. Len(d) + i \in 1 .. k /\ ~(Len(d) + i <= Len(d)) /\ (Len(d) + i) - Len(d) = i
    BY <1>1
  <2>2. n[Len(d) + i] = (d \o m)[Len(d) + i]
    BY <1>4, <2>1
  <2> QED BY <2>1, <2>2, ConcatProperties
<1>7. \A i \in 1 .. Len(c) : n[k + i] = c[i]
  <2> SUFFICES ASSUME NEW i \in 1 .. Len(c)
               PROVE  n[k + i] = c[i]
    OBVIOUS
  <2>1. k + i \in 1 .. k + Len(c) /\ ~(k + i <= k) /\ (k + i) - k = i
    BY <1>1
  <2> QED BY <1>2, <2>1, ConcatProperties
<1>8. SubSeq(n, 1, Len(d)) = d
  <2>1. \A i \in 1 .. Len(d) : n[i] \in S
    BY <1>5, ElementOfSeq
  <2>2. /\ SubSeq(n, 1, Len(d)) \in Seq(S)
        /\ Len(SubSeq(n, 1, Len(d))) = Len(d)
        /\ \A i \in 1 .. Len(d) : SubSeq(n, 1, Len(d))[i] = n[i]
    BY <1>1, <2>1, SubSeqProperties
  <2> QED BY <1>5, <2>2, SeqEqual
<1>9. SubSeq(n, k + 1, Len(n)) = c
  <2>1. \A i \in k + 1 .. Len(n) : n[i] \in S
    <3> TAKE i \in k + 1 .. Len(n)
    <3>1. i - k \in 1 .. Len(c) /\ k + (i - k) = i
      BY <1>1, <1>3
    <3>2. n[i] = c[i - k]
      BY <3>1, <1>7
    <3> QED BY <3>1, <3>2, ElementOfSeq
  <2>2. /\ SubSeq(n, k + 1, Len(n)) \in Seq(S)
        /\ Len(SubSeq(n, k + 1, Len(n))) = Len(c)
        /\ \A i \in 1 .. Len(c) : SubSeq(n, k + 1, Len(n))[i] = n[k + i]
    <3>1. k + 1 \in Int /\ Len(n) \in Int /\ Len(n) - (k + 1) + 1 = Len(c)
      BY <1>1, <1>3
    <3>2. \A i \in 1 .. Len(c) : k + 1 + i - 1 = k + i
      BY <1>1
    <3> HIDE DEF n, k
    <3> QED BY <3>1, <3>2, <1>1, <2>1, SubSeqProperties
  <2> QED BY <1>7, <2>2, SeqEqual
<1> HIDE DEF n
<1> QED BY <1>1, <1>3, <1>5, <1>6, <1>8, <1>9 DEF n

\* A Collection's string gives back the two names it was made of.
LEMMA SplitCombined ==
  ASSUME NEW d \in Seq(Chars), NEW c \in Seq(Chars), Plain(d)
  PROVE  dbName(Combined(d, c)) = d /\ colName(Combined(d, c)) = c
<1> DEFINE n == Combined(d, c)
           m == <<Colon, Colon>>
<1>1. m \in Seq(Chars) /\ Len(m) = 2 /\ m[1] = Colon /\ m[2] = Colon
  BY NamesAssumption
<1>2. /\ n \in Seq(Chars) /\ Len(n) = Len(d) + 2 + Len(c)
      /\ \A i \in 1 .. Len(d) : n[i] = d[i]
      /\ n[Len(d) + 1] = Colon /\ n[Len(d) + 2] = Colon
      /\ SubSeq(n, 1, Len(d)) = d
      /\ SubSeq(n, Len(d) + 2 + 1, Len(n)) = c
  BY <1>1, TakeApart DEF Combined
<1>3. Len(d) \in Nat /\ Len(c) \in Nat
  BY LenProperties
<1> HIDE DEF n
<1>4. Len(d) + 1 \in Separators(n)
  BY <1>2, <1>3 DEF Separators
<1>5. \A j \in Separators(n) : Len(d) + 1 <= j
  <2> SUFFICES ASSUME NEW j \in 1 .. Len(d), n[j] = Colon, n[j + 1] = Colon
               PROVE  FALSE
    BY <1>2, <1>3 DEF Separators
  <2>1. CASE j = Len(d)
    BY <2>1, <1>2, <1>3 DEF Plain
  <2>2. CASE j < Len(d)
    BY <2>2, <1>2, <1>3 DEF Plain
  <2> QED BY <1>3, <2>1, <2>2
<1>6. find(n) = Len(d) + 1
  <2>1. find(n) \in Separators(n) /\ find(n) <= Len(d) + 1
    BY <1>4, <1>5 DEF find
  <2>2. find(n) \in Nat
    BY <2>1 DEF Separators
  <2> QED BY <1>3, <1>5, <2>1, <2>2
<1> QED BY <1>2, <1>3, <1>6 DEF dbName, colName, n

\* The server takes apart what renameCollection puts together.
LEMMA SplitDotted ==
  ASSUME NEW d \in Seq(Chars), NEW c \in Seq(Chars), Plain(d)
  PROVE  Undotted(Dotted(d, c)) = <<d, c>>
<1> DEFINE n == Dotted(d, c)
           m == <<Dot>>
           first == CHOOSE i \in Dots(n) : \A j \in Dots(n) : i <= j
<1>1. m \in Seq(Chars) /\ Len(m) = 1 /\ m[1] = Dot
  BY NamesAssumption
<1>2. /\ n \in Seq(Chars) /\ Len(n) = Len(d) + 1 + Len(c)
      /\ \A i \in 1 .. Len(d) : n[i] = d[i]
      /\ n[Len(d) + 1] = Dot
      /\ SubSeq(n, 1, Len(d)) = d
      /\ SubSeq(n, Len(d) + 1 + 1, Len(n)) = c
  BY <1>1, TakeApart DEF Dotted
<1>3. Len(d) \in Nat /\ Len(c) \in Nat
  BY LenProperties
<1> HIDE DEF n
<1>4. Len(d) + 1 \in Dots(n)
  BY <1>2, <1>3 DEF Dots
<1>5. \A j \in Dots(n) : Len(d) + 1 <= j
  BY <1>2, <1>3 DEF Dots, Plain
<1>6. first = Len(d) + 1
  <2>1. first \in Dots(n) /\ first <= Len(d) + 1
    BY <1>4, <1>5
  <2>2. first \in Nat
    BY <2>1 DEF Dots
  <2> HIDE DEF first
  <2> QED BY <1>3, <1>5, <2>1, <2>2
<1>7. Undotted(n) = <<SubSeq(n, 1, first - 1), SubSeq(n, first + 1, Len(n))>>
  BY DEF Undotted
<1> HIDE DEF first
<1> QED BY <1>2, <1>3, <1>6, <1>7 DEF n

-----------------------------------------------------------------------------
(* The types. *)

\* A set of numbers that is not empty has a least.
LEMMA SmallestNat ==
  ASSUME NEW T, T \subseteq Nat, T # {}
  PROVE  \E x \in T : \A y \in T : x <= y
<1> DEFINE less == {s \in Nat \X Nat : s[1] < s[2]}
<1>1. IsWellFoundedOn(less, Nat)
  BY NatLessThanWellFounded DEF OpToRel
<1>2. PICK x \in T : \A y \in T : <<y, x>> \notin less
  BY <1>1, WFMin
<1>3. ASSUME NEW y \in T, ~(x <= y)
      PROVE  FALSE
  <2>1. x \in Nat /\ y \in Nat /\ y < x
    BY <1>3
  <2>2. <<y, x>> \in less
    BY <2>1
  <2> HIDE DEF less
  <2> QED BY <1>2, <2>2
<1> HIDE DEF less
<1> QED BY <1>3

\* Whatever the names, what a Collection's string is split into are strings.
LEMMA SplitTyped ==
  ASSUME NEW d \in Seq(Chars), NEW c \in Seq(Chars)
  PROVE  /\ Combined(d, c) \in Seq(Chars)
         /\ dbName(Combined(d, c)) \in Seq(Chars)
         /\ colName(Combined(d, c)) \in Seq(Chars)
<1> DEFINE n == Combined(d, c)
           m == <<Colon, Colon>>
<1>1. m \in Seq(Chars) /\ Len(m) = 2 /\ m[1] = Colon /\ m[2] = Colon
  BY NamesAssumption
<1>2. /\ n \in Seq(Chars) /\ Len(n) = Len(d) + 2 + Len(c)
      /\ n[Len(d) + 1] = Colon /\ n[Len(d) + 2] = Colon
  BY <1>1, TakeApart DEF Combined
<1>3. Len(d) \in Nat /\ Len(c) \in Nat /\ Len(n) \in Nat
  BY <1>2, LenProperties
<1> HIDE DEF n
<1>4. Len(d) + 1 \in Separators(n)
  BY <1>2, <1>3 DEF Separators
<1>5. Separators(n) \subseteq Nat
  BY DEF Separators
<1>6. \E i \in Separators(n) : \A j \in Separators(n) : i <= j
  BY <1>4, <1>5, SmallestNat
<1>7. find(n) \in 1 .. Len(n) - 1
  BY <1>6 DEF find, Separators
<1>8. \A i \in 1 .. Len(n) : n[i] \in Chars
  BY <1>2, ElementOfSeq
<1>9. dbName(n) \in Seq(Chars)
  <2>1. 1 \in Int /\ find(n) - 1 \in Int /\ \A i \in 1 .. find(n) - 1 : n[i] \in Chars
    BY <1>3, <1>7, <1>8
  <2> QED BY <2>1, SubSeqProperties DEF dbName
<1>10. colName(n) \in Seq(Chars)
  <2>1. find(n) + 2 \in Int /\ Len(n) \in Int /\ \A i \in find(n) + 2 .. Len(n) : n[i] \in Chars
    BY <1>3, <1>7, <1>8
  <2> QED BY <2>1, SubSeqProperties DEF colName
<1> QED BY <1>2, <1>9, <1>10 DEF n

\* Each Collection's string is made of the names it was made with.
NameKept == name = [h \in Handles |-> Combined(opened[h][1], opened[h][2])]

LEMMA NameTyped ==
  ASSUME ObjectsOK, NameKept, NEW h \in Handles
  PROVE  /\ opened[h] \in Pairs /\ opened[h] = <<opened[h][1], opened[h][2]>>
         /\ opened[h][1] \in DBNames /\ opened[h][2] \in ColNames
         /\ opened[h][1] \in Seq(Chars) /\ opened[h][2] \in Seq(Chars)
         /\ name[h] = Combined(opened[h][1], opened[h][2])
         /\ dbName(name[h]) \in Seq(Chars) /\ colName(name[h]) \in Seq(Chars)
<1>1. opened[h] \in Pairs /\ opened[h] = <<opened[h][1], opened[h][2]>>
  BY DEF ObjectsOK, Pairs
<1>2. opened[h][1] \in DBNames /\ opened[h][2] \in ColNames
  BY <1>1 DEF Pairs
<1>3. opened[h][1] \in Seq(Chars) /\ opened[h][2] \in Seq(Chars)
  BY <1>2, NamesAssumption
<1>4. name[h] = Combined(opened[h][1], opened[h][2])
  BY DEF NameKept
<1> QED BY <1>1, <1>2, <1>3, <1>4, SplitTyped

\* What a command does to the exchange, whatever it is.
LEMMA SendKeeps ==
  ASSUME ExchangeOK, NEW q, NEW op, Send(q, op),
         q.documents \subseteq Documents, q.update \subseteq Documents
  PROVE  ExchangeOK'
<1>1. steps' \in 0 .. MaxSteps
  BY NamesAssumption DEF Send, Step, ExchangeOK
<1>2. CASE good
  BY <1>1, <1>2 DEF Send, Step, ExchangeOK
<1>3. CASE ~good
  BY <1>1, <1>3 DEF Send, Step, ExchangeOK
<1> QED BY <1>2, <1>3

\* A step that sends nothing and waits for nothing.
LEMMA StepKeeps ==
  ASSUME ExchangeOK, Step, UNCHANGED exchange
  PROVE  ExchangeOK'
BY NamesAssumption DEF Step, ExchangeOK, exchange

LEMMA ExchangedTyped ==
  ASSUME NEW m, \A n \in DOMAIN m : m[n] \in ConcernOf, NEW key, NEW k \in Kinds,
         NEW e \in Exchanged(m, key, k)
  PROVE  /\ DOMAIN e = DOMAIN m \cup {key}
         /\ \A n \in DOMAIN e : e[n] \in ConcernOf
<1>1. /\ DOMAIN Touched(m, key) = DOMAIN m \cup {key}
      /\ \A n \in DOMAIN Touched(m, key) : Touched(m, key)[n] \in ConcernOf
  BY DEF Touched, Entry, Default, ConcernOf
<1>2. CASE e = Touched(m, key)
  BY <1>1, <1>2
<1>3. ASSUME NEW v \in Concerns, e = [Touched(m, key) EXCEPT ![key] = [@ EXCEPT ![k] = v]]
      PROVE  /\ DOMAIN e = DOMAIN m \cup {key}
             /\ \A n \in DOMAIN e : e[n] \in ConcernOf
  BY <1>1, <1>3 DEF ConcernOf
<1> QED BY <1>2, <1>3 DEF Exchanged

\* The server puts nothing into its collections but the documents it is given.
LEMMA AppliedTyped ==
  ASSUME NEW s, \A p \in DOMAIN s : s[p] \subseteq Documents,
         NEW op, op.documents \subseteq Documents, op.update \subseteq Documents
  PROVE  \A p \in DOMAIN Applied(op, s) : Applied(op, s)[p] \subseteq Documents
<1>1. Held(s, op.on) \subseteq Documents
  BY DEF Held
<1>2. ASSUME NEW documents, documents \subseteq Documents, NEW p
      PROVE  \A r \in DOMAIN With(s, p, documents) : With(s, p, documents)[r] \subseteq Documents
  BY <1>2 DEF With
<1>3. ASSUME NEW p
      PROVE  \A r \in DOMAIN Without(s, p) : Without(s, p)[r] \subseteq Documents
  BY DEF Without
<1>4. ASSUME NEW p, NEW r
      PROVE  \A x \in DOMAIN With(Without(s, p), r, Held(s, op.on)) :
               With(Without(s, p), r, Held(s, op.on))[x] \subseteq Documents
  BY <1>1, <1>3 DEF With
<1>5. CASE op.command = "insert"
  <2>1. Applied(op, s) = With(s, op.on, Held(s, op.on) \cup op.documents)
    BY <1>5 DEF Applied
  <2> QED BY <1>1, <1>2, <2>1
<1>6. CASE op.command = "create"
  <2>1. Applied(op, s) = With(s, op.on, {})
    BY <1>6 DEF Applied
  <2> QED BY <1>2, <2>1
<1>7. CASE op.command = "drop"
  <2>1. Applied(op, s) = Without(s, op.on)
    BY <1>7 DEF Applied
  <2> QED BY <1>3, <2>1
<1>8. CASE op.command = "renameCollection"
  <2>1. Applied(op, s) = With(Without(s, op.on), op.to, Held(s, op.on))
    BY <1>8 DEF Applied
  <2> QED BY <1>4, <2>1
<1>9. CASE op.command \in {"delete", "findAndModify"}
  <2>1. Applied(op, s) \in {s, With(s, op.on, (Held(s, op.on) \ op.documents) \cup op.update)}
    BY <1>9 DEF Applied
  <2> QED BY <1>1, <1>2, <2>1
<1>10. CASE op.command \notin {"insert", "create", "drop", "renameCollection", "delete", "findAndModify"}
  <2>1. Applied(op, s) = s
    BY <1>10 DEF Applied
  <2> QED BY <2>1
<1> QED BY <1>5, <1>6, <1>7, <1>8, <1>9, <1>10

\* A command that leaves objects, ranges and concerns alone keeps the types.
LEMMA PlainCommandKeeps ==
  ASSUME TypeOK, UNCHANGED <<objects, cursors, settings>>, NEW q, NEW op, Send(q, op),
         q.documents \subseteq Documents, q.update \subseteq Documents
  PROVE  TypeOK'
<1>1. ObjectsOK' /\ CursorsOK' /\ SettingsOK'
  BY DEF TypeOK, ObjectsOK, CursorsOK, SettingsOK, objects, cursors, settings
<1>2. ExchangeOK'
  BY SendKeeps DEF TypeOK
<1> QED BY <1>1, <1>2 DEF TypeOK

LEMMA OnCollectionKeeps ==
  ASSUME TypeOK, NEW h, NEW command, NEW documents, NEW update,
         documents \subseteq Documents, update \subseteq Documents,
         OnCollection(h, command, documents, update)
  PROVE  TypeOK'
BY PlainCommandKeeps DEF OnCollection, Message

\* One step of each kind keeps the types.
LEMMA TypeStep == TypeOK /\ NameKept /\ [Next]_vars => TypeOK'
<1> SUFFICES ASSUME TypeOK, NameKept, [Next]_vars
             PROVE  TypeOK'
  OBVIOUS
<1> USE DEF TypeOK
<1>1. CASE OpenCollection
  <2>1. PICK h \in Handles, p \in Pairs :
          /\ opened' = [opened EXCEPT ![h] = p]
          /\ name' = [name EXCEPT ![h] = Combined(p[1], p[2])]
    BY <1>1 DEF OpenCollection
  <2>2. Combined(p[1], p[2]) \in Seq(Chars)
    BY SplitTyped, NamesAssumption DEF Pairs
  <2>3. ObjectsOK'
    BY <2>1, <2>2 DEF ObjectsOK
  <2>4. CursorsOK' /\ SettingsOK' /\ ExchangeOK'
    BY <1>1 DEF OpenCollection, CursorsOK, SettingsOK, ExchangeOK, cursors, settings, exchange
  <2> QED BY <2>3, <2>4
<1>2. CASE ServerConcern
  <2>1. SettingsOK'
    BY <1>2 DEF ServerConcern, SettingsOK, ConcernOf
  <2>2. ObjectsOK' /\ CursorsOK'
    BY <1>2 DEF ServerConcern, ObjectsOK, CursorsOK, objects, cursors
  <2> QED BY <1>2, <2>1, <2>2, StepKeeps DEF ServerConcern
<1>3. CASE DBConcern
  <2>1. PICK d \in DBNames, k \in Kinds :
          told' = Entry(databases, d)[k] /\ databases' \in Exchanged(databases, d, k)
    BY <1>3 DEF DBConcern
  <2>2. told' \in Concerns \cup {Unset}
    BY <2>1 DEF SettingsOK, Entry, Default, ConcernOf
  <2>3. /\ DOMAIN databases' = DOMAIN databases \cup {d}
        /\ \A n \in DOMAIN databases' : databases'[n] \in ConcernOf
    BY <2>1, ExchangedTyped DEF SettingsOK
  <2>4. SettingsOK'
    BY <1>3, <2>1, <2>2, <2>3 DEF DBConcern, SettingsOK
  <2>5. ObjectsOK' /\ CursorsOK'
    BY <1>3 DEF DBConcern, ObjectsOK, CursorsOK, objects, cursors
  <2> QED BY <1>3, <2>4, <2>5, StepKeeps DEF DBConcern
<1>4. CASE CollectionConcern
  <2>1. PICK h \in Handles, k \in Kinds :
          /\ told' = Entry(collections, name[h])[k]
          /\ collections' \in Exchanged(collections, name[h], k)
    BY <1>4 DEF CollectionConcern
  <2>2. told' \in Concerns \cup {Unset}
    BY <2>1 DEF SettingsOK, Entry, Default, ConcernOf
  <2>3. /\ DOMAIN collections' = DOMAIN collections \cup {name[h]}
        /\ \A n \in DOMAIN collections' : collections'[n] \in ConcernOf
    BY <2>1, ExchangedTyped DEF SettingsOK
  <2>4. SettingsOK'
    BY <1>4, <2>1, <2>2, <2>3 DEF CollectionConcern, SettingsOK, ObjectsOK
  <2>5. ObjectsOK' /\ CursorsOK'
    BY <1>4 DEF CollectionConcern, ObjectsOK, CursorsOK, objects, cursors
  <2> QED BY <1>4, <2>4, <2>5, StepKeeps DEF CollectionConcern
<1>5. CASE insert \/ remove
  <2>1. PICK h \in Handles, d \in Documents :
          OnCollection(h, "insert", {d}, {}) \/ OnCollection(h, "delete", {d}, {})
    BY <1>5 DEF insert, remove
  <2>2. {d} \subseteq Documents /\ {} \subseteq Documents
    OBVIOUS
  <2> HIDE DEF TypeOK
  <2> QED BY <2>1, <2>2, OnCollectionKeeps
<1>6. CASE findAndModify
  <2>1. PICK h \in Handles, d \in Documents, update \in {{}} \cup {{e} : e \in Documents} :
          OnCollection(h, "findAndModify", {d}, update)
    BY <1>6 DEF findAndModify
  <2>2. {d} \subseteq Documents /\ update \subseteq Documents
    OBVIOUS
  <2> HIDE DEF TypeOK
  <2> QED BY <2>1, <2>2, OnCollectionKeeps
<1>7. CASE countDocuments \/ distinct \/ drop
  <2>1. PICK h \in Handles :
          \/ OnCollection(h, "count", Documents, {}) \/ OnCollection(h, "distinct", Documents, {})
          \/ OnCollection(h, "drop", {}, {})
    BY <1>7 DEF countDocuments, distinct, drop
  <2> HIDE DEF TypeOK
  <2> QED BY <2>1, OnCollectionKeeps
<1>8. CASE rename
  <2>1. UNCHANGED <<objects, cursors, settings>>
    BY <1>8 DEF rename
  <2>2. PICK h \in Handles, c \in ColNames :
          Send(RenameCollection(dbName(name[h]), colName(name[h]), c),
               Operation("renameCollection", opened[h], <<opened[h][1], c>>, {}, {}))
    BY <1>8 DEF rename
  <2>3. ASSUME NEW d, NEW from, NEW to
        PROVE  /\ RenameCollection(d, from, to).documents = {}
               /\ RenameCollection(d, from, to).update = {}
    BY DEF RenameCollection, Message
  <2> HIDE DEF TypeOK
  <2> QED BY <2>1, <2>2, <2>3, PlainCommandKeeps
<1>9. CASE createCollection \/ listCollections \/ listDatabases
  <2>1. UNCHANGED <<objects, cursors, settings>>
    BY <1>9 DEF createCollection, listCollections, listDatabases
  <2>2. PICK command, d, c, op : Send(Message(command, d, c, <<>>, {}, {}), op)
    BY <1>9 DEF createCollection, listCollections, listDatabases
  <2>3. /\ Message(command, d, c, <<>>, {}, {}).documents = {}
        /\ Message(command, d, c, <<>>, {}, {}).update = {}
    BY DEF Message
  <2> HIDE DEF TypeOK
  <2> QED BY <2>1, <2>2, <2>3, PlainCommandKeeps
<1>10. CASE getMore
  <2>1. UNCHANGED <<objects, cursors, settings>>
    BY <1>10 DEF getMore
  <2>2. PICK d, c, op : Send(Message("getMore", d, c, <<>>, Documents, {}), op)
    BY <1>10 DEF getMore
  <2>3. /\ Message("getMore", d, c, <<>>, Documents, {}).documents = Documents
        /\ Message("getMore", d, c, <<>>, Documents, {}).update = {}
    BY DEF Message
  <2> HIDE DEF TypeOK
  <2> QED BY <2>1, <2>2, <2>3, PlainCommandKeeps
<1>11. CASE findDocuments
  <2>1. PICK h \in Handles, r \in Ranges :
          LET n == <<dbName(name[h]), colName(name[h])>>
          IN  /\ Send(Message("find", n[1], n[2], <<>>, Documents, {}),
                      Operation("find", opened[h], Nowhere, Documents, {}))
              /\ rangeOf' = IF good THEN [rangeOf EXCEPT ![r] = {opened[h]}] ELSE rangeOf
              /\ ranges' = IF good THEN [ranges EXCEPT ![r] = {n}] ELSE ranges
    BY <1>11 DEF findDocuments
  <2>2. CursorsOK'
    BY <2>1, NameTyped DEF CursorsOK
  <2>3. ExchangeOK'
    BY <2>1, SendKeeps DEF Message
  <2>4. ObjectsOK' /\ SettingsOK'
    BY <1>11 DEF findDocuments, ObjectsOK, SettingsOK, objects, settings
  <2> QED BY <2>2, <2>3, <2>4
<1>12. CASE killCursor
  <2>1. CursorsOK'
    BY <1>12 DEF killCursor, CursorsOK
  <2>2. ExchangeOK'
    BY <1>12, SendKeeps DEF killCursor, Message
  <2>3. ObjectsOK' /\ SettingsOK'
    BY <1>12 DEF killCursor, ObjectsOK, SettingsOK, objects, settings
  <2> QED BY <2>1, <2>2, <2>3
<1>13. CASE Forget
  <2>1. CursorsOK'
    BY <1>13 DEF Forget, CursorsOK
  <2>2. ObjectsOK' /\ SettingsOK' /\ ExchangeOK'
    BY <1>13 DEF Forget, ObjectsOK, SettingsOK, ExchangeOK, objects, settings, exchange
  <2> QED BY <2>1, <2>2
<1>14. CASE Serve
  <2>1. PICK q \in toServer : \E o \in Outcomes(Understood(q), store) :
          store' = o.store /\ toClient' = {o.reply}
    BY <1>14 DEF Serve
  <2>2. PICK o \in Outcomes(Understood(q), store) : store' = o.store /\ toClient' = {o.reply}
    BY <2>1
  <2>3. o.store \in {store, Applied(Understood(q), store)}
    BY DEF Outcomes
  <2>4. /\ Understood(q).documents \subseteq Documents
        /\ Understood(q).update \subseteq Documents
    BY DEF Understood, Operation, ExchangeOK
  <2>5. \A p \in DOMAIN store' : store'[p] \subseteq Documents
    BY <2>2, <2>3, <2>4, AppliedTyped DEF ExchangeOK
  <2>6. ExchangeOK'
    BY <1>14, <2>1, <2>2, <2>5 DEF Serve, ExchangeOK
  <2>7. ObjectsOK' /\ CursorsOK' /\ SettingsOK'
    BY <1>14 DEF Serve, ObjectsOK, CursorsOK, SettingsOK, objects, cursors, settings
  <2> QED BY <2>6, <2>7
<1>15. CASE Receive \/ Lose
  <2>1. ExchangeOK'
    BY <1>15 DEF Receive, Lose, ExchangeOK
  <2>2. ObjectsOK' /\ CursorsOK' /\ SettingsOK'
    BY <1>15 DEF Receive, Lose, ObjectsOK, CursorsOK, SettingsOK, objects, cursors, settings
  <2> QED BY <2>1, <2>2
<1>16. CASE UNCHANGED vars
  BY <1>16 DEF vars, objects, cursors, settings, exchange,
               ObjectsOK, CursorsOK, SettingsOK, ExchangeOK
<1> QED
  BY <1>1, <1>2, <1>3, <1>4, <1>5, <1>6, <1>7, <1>8, <1>9, <1>10, <1>11, <1>12,
     <1>13, <1>14, <1>15, <1>16 DEF Next, Concerning, Command

LEMMA NameStep == ObjectsOK /\ NameKept /\ [Next]_vars => NameKept'
<1> SUFFICES ASSUME ObjectsOK, NameKept, [Next]_vars
             PROVE  NameKept'
  OBVIOUS
<1>1. CASE OpenCollection
  BY <1>1 DEF OpenCollection, ObjectsOK, NameKept
<1>2. CASE UNCHANGED objects
  BY <1>2 DEF objects, NameKept
<1>3. Concerning => UNCHANGED objects
  BY DEF Concerning, ServerConcern, DBConcern, CollectionConcern
<1>4. insert \/ remove \/ findAndModify \/ countDocuments \/ distinct \/ drop => UNCHANGED objects
  BY DEF insert, remove, findAndModify, countDocuments, distinct, drop, OnCollection
<1>5. rename \/ createCollection \/ listCollections \/ listDatabases => UNCHANGED objects
  BY DEF rename, createCollection, listCollections, listDatabases
<1>6. findDocuments \/ getMore \/ killCursor => UNCHANGED objects
  BY DEF findDocuments, getMore, killCursor
<1>7. Forget \/ Serve \/ Receive \/ Lose \/ UNCHANGED vars => UNCHANGED objects
  BY DEF Forget, Serve, Receive, Lose, vars
<1> QED BY <1>1, <1>2, <1>3, <1>4, <1>5, <1>6, <1>7 DEF Next, Command

\* Init gives every variable its type, and each Collection its string.
LEMMA TypeInit == Init => TypeOK /\ NameKept
<1> SUFFICES ASSUME Init
             PROVE  TypeOK /\ NameKept
  OBVIOUS
<1>1. NameKept
  BY DEF Init, NameKept
<1>2. ObjectsOK
  <2>1. \A h \in Handles : Combined(opened[h][1], opened[h][2]) \in Seq(Chars)
    BY SplitTyped, NamesAssumption DEF Init, Pairs
  <2> QED BY <2>1 DEF Init, ObjectsOK
<1>3. CursorsOK /\ SettingsOK
  BY DEF Init, CursorsOK, SettingsOK, ConcernOf
<1>4. ExchangeOK
  BY NamesAssumption DEF Init, ExchangeOK
<1> QED BY <1>1, <1>2, <1>3, <1>4 DEF TypeOK

\* Whatever the names, the objects, ranges, concerns and messages keep their
\* types, and there is one operation at a time (ThorsMongo.h).
THEOREM TypeCorrect == Spec => [](TypeOK /\ NameKept)
<1>1. Init => TypeOK /\ NameKept
  BY TypeInit
<1>2. TypeOK /\ NameKept /\ [Next]_vars => TypeOK' /\ NameKept'
  BY TypeStep, NameStep DEF TypeOK
<1> QED BY <1>1, <1>2, PTL DEF Spec

-----------------------------------------------------------------------------
(* Requests reach what they are meant for. *)

LEMMA NameSplit ==
  ASSUME PlainNames, ObjectsOK, NameKept, NEW h \in Handles
  PROVE  <<dbName(name[h]), colName(name[h])>> = opened[h]
<1>1. Plain(opened[h][1])
  BY NameTyped DEF PlainNames
<1> QED BY <1>1, NameTyped, SplitCombined

LEMMA MessageUnderstood ==
  ASSUME NEW command, command # "renameCollection",
         NEW d, NEW c, NEW documents, NEW update
  PROVE  Understood(Message(command, d, c, <<>>, documents, update))
           = Operation(command, <<d, c>>, Nowhere, documents, update)
BY DEF Understood, Message

LEMMA RenameUnderstood ==
  ASSUME NEW d \in Seq(Chars), Plain(d), NEW from \in Seq(Chars), NEW to \in Seq(Chars)
  PROVE  Understood(RenameCollection(d, from, to))
           = Operation("renameCollection", <<d, from>>, <<d, to>>, {}, {})
BY SplitDotted DEF Understood, RenameCollection, Message

\* A range's data has the names of the collection it was found in.
RangesKept == ranges = rangeOf

\* How each command's request is made: it is understood as what was called for.
SentAsMeant == \E q, op : Send(q, op) /\ Understood(q) = op

LEMMA OnCollectionMeant ==
  ASSUME PlainNames, ObjectsOK, NameKept, NEW h \in Handles, NEW command,
         command # "renameCollection", NEW documents, NEW update,
         OnCollection(h, command, documents, update)
  PROVE  SentAsMeant
<1> DEFINE q == Message(command, dbName(name[h]), colName(name[h]), <<>>, documents, update)
           op == Operation(command, opened[h], Nowhere, documents, update)
<1>1. Send(q, op)
  BY DEF OnCollection
<1>2. Understood(q) = op
  <2>1. Understood(q) = Operation(command, <<dbName(name[h]), colName(name[h])>>,
                                  Nowhere, documents, update)
    BY MessageUnderstood
  <2>2. <<dbName(name[h]), colName(name[h])>> = opened[h]
    BY NameSplit
  <2> QED BY <2>1, <2>2
<1> HIDE DEF q, op
<1> QED BY <1>1, <1>2 DEF SentAsMeant

LEMMA CommandMeant ==
  ASSUME PlainNames, ObjectsOK, CursorsOK, NameKept, RangesKept, Command
  PROVE  SentAsMeant
<1>1. CASE insert \/ remove \/ findAndModify
  <2>1. \/ \E h \in Handles, d \in Documents : OnCollection(h, "insert", {d}, {})
        \/ \E h \in Handles, d \in Documents : OnCollection(h, "delete", {d}, {})
        \/ \E h \in Handles, d \in Documents, update \in {{}} \cup {{e} : e \in Documents} :
             OnCollection(h, "findAndModify", {d}, update)
    BY <1>1 DEF insert, remove, findAndModify
  <2> QED BY <2>1, OnCollectionMeant
<1>2. CASE countDocuments \/ distinct \/ drop
  <2>1. \E h \in Handles : \/ OnCollection(h, "count", Documents, {})
                          \/ OnCollection(h, "distinct", Documents, {})
                          \/ OnCollection(h, "drop", {}, {})
    BY <1>2 DEF countDocuments, distinct, drop
  <2> QED BY <2>1, OnCollectionMeant
<1>3. CASE rename
  <2>1. PICK h \in Handles, c \in ColNames :
          Send(RenameCollection(dbName(name[h]), colName(name[h]), c),
               Operation("renameCollection", opened[h], <<opened[h][1], c>>, {}, {}))
    BY <1>3 DEF rename
  <2>2. /\ dbName(name[h]) = opened[h][1] /\ colName(name[h]) = opened[h][2]
        /\ opened[h] = <<opened[h][1], opened[h][2]>>
    BY NameSplit, NameTyped
  <2>3. Understood(RenameCollection(opened[h][1], opened[h][2], c))
          = Operation("renameCollection", opened[h], <<opened[h][1], c>>, {}, {})
    BY <2>2, NameTyped, RenameUnderstood, NamesAssumption DEF PlainNames
  <2> QED BY <2>1, <2>2, <2>3 DEF SentAsMeant
<1>4. CASE createCollection \/ listCollections \/ listDatabases
  <2>1. PICK command, d, c :
          /\ command \in {"create", "listCollections", "listDatabases"}
          /\ Send(Message(command, d, c, <<>>, {}, {}),
                  Operation(command, <<d, c>>, Nowhere, {}, {}))
    <3> DEFINE Sent(command, d, c) == Send(Message(command, d, c, <<>>, {}, {}),
                                           Operation(command, <<d, c>>, Nowhere, {}, {}))
    <3>1. \/ \E d, c : Sent("create", d, c)
          \/ \E d : Sent("listCollections", d, <<>>)
          \/ Sent("listDatabases", Admin, <<>>)
      BY <1>4 DEF createCollection, listCollections, listDatabases
    <3> HIDE DEF Sent
    <3>2. \E command, d, c :
            command \in {"create", "listCollections", "listDatabases"} /\ Sent(command, d, c)
      BY <3>1
    <3> QED BY <3>2 DEF Sent
  <2> QED BY <2>1, MessageUnderstood DEF SentAsMeant
<1>5. CASE findDocuments
  <2>1. PICK h \in Handles :
          Send(Message("find", dbName(name[h]), colName(name[h]), <<>>, Documents, {}),
               Operation("find", opened[h], Nowhere, Documents, {}))
    BY <1>5 DEF findDocuments
  <2>2. <<dbName(name[h]), colName(name[h])>> = opened[h]
    BY NameSplit
  <2>3. Understood(Message("find", dbName(name[h]), colName(name[h]), <<>>, Documents, {}))
          = Operation("find", <<dbName(name[h]), colName(name[h])>>, Nowhere, Documents, {})
    BY MessageUnderstood
  <2> QED BY <2>1, <2>2, <2>3 DEF SentAsMeant
<1>6. ASSUME NEW r \in Ranges, NEW p \in rangeOf[r], NEW n \in ranges[r]
      PROVE  n = p /\ p = <<p[1], p[2]>>
  BY DEF RangesKept, CursorsOK, Pairs
<1>7. CASE getMore
  <2>1. PICK r \in Ranges : \E p \in rangeOf[r], n \in ranges[r] :
          Send(Message("getMore", n[1], n[2], <<>>, Documents, {}),
               Operation("getMore", p, Nowhere, Documents, {}))
    BY <1>7 DEF getMore
  <2>2. PICK p \in rangeOf[r], n \in ranges[r] :
          Send(Message("getMore", n[1], n[2], <<>>, Documents, {}),
               Operation("getMore", p, Nowhere, Documents, {}))
    BY <2>1
  <2>3. n = p /\ p = <<p[1], p[2]>>
    BY <1>6
  <2> QED BY <2>2, <2>3, MessageUnderstood DEF SentAsMeant
<1>8. CASE killCursor
  <2>1. PICK r \in Ranges : \E p \in rangeOf[r], n \in ranges[r] :
          Send(Message("killCursors", n[1], n[2], <<>>, {}, {}),
               Operation("killCursors", p, Nowhere, {}, {}))
    BY <1>8 DEF killCursor
  <2>2. PICK p \in rangeOf[r], n \in ranges[r] :
          Send(Message("killCursors", n[1], n[2], <<>>, {}, {}),
               Operation("killCursors", p, Nowhere, {}, {}))
    BY <2>1
  <2>3. n = p /\ p = <<p[1], p[2]>>
    BY <1>6
  <2> QED BY <2>2, <2>3, MessageUnderstood DEF SentAsMeant
<1> QED BY <1>1, <1>2, <1>3, <1>4, <1>5, <1>7, <1>8 DEF Command

\* The inductive invariant: the names are kept, by handles and by ranges.
IInv == TypeOK /\ NameKept /\ RangesKept /\ ReachesNamed

LEMMA RangesStep ==
  ASSUME PlainNames, ObjectsOK, CursorsOK, NameKept, RangesKept, [Next]_vars
  PROVE  RangesKept'
<1>1. CASE findDocuments
  <2>1. PICK h \in Handles, r \in Ranges :
          LET n == <<dbName(name[h]), colName(name[h])>>
          IN  /\ rangeOf' = IF good THEN [rangeOf EXCEPT ![r] = {opened[h]}] ELSE rangeOf
              /\ ranges' = IF good THEN [ranges EXCEPT ![r] = {n}] ELSE ranges
    BY <1>1 DEF findDocuments
  <2>2. <<dbName(name[h]), colName(name[h])>> = opened[h]
    BY NameSplit
  <2> QED BY <2>1, <2>2 DEF RangesKept
<1>2. CASE killCursor \/ Forget
  BY <1>2 DEF killCursor, Forget, RangesKept
<1>3. CASE UNCHANGED cursors
  BY <1>3 DEF cursors, RangesKept
<1>4. OpenCollection \/ Concerning => UNCHANGED cursors
  BY DEF OpenCollection, Concerning, ServerConcern, DBConcern, CollectionConcern
<1>5. insert \/ remove \/ findAndModify \/ countDocuments \/ distinct \/ drop => UNCHANGED cursors
  BY DEF insert, remove, findAndModify, countDocuments, distinct, drop, OnCollection
<1>6. rename \/ createCollection \/ listCollections \/ listDatabases \/ getMore => UNCHANGED cursors
  BY DEF rename, createCollection, listCollections, listDatabases, getMore
<1>7. Serve \/ Receive \/ Lose \/ UNCHANGED vars => UNCHANGED cursors
  BY DEF Serve, Receive, Lose, vars
<1> QED BY <1>1, <1>2, <1>3, <1>4, <1>5, <1>6, <1>7 DEF Next, Command

LEMMA ReachesStep ==
  ASSUME PlainNames, IInv, [Next]_vars
  PROVE  ReachesNamed'
<1>1. CASE Command
  <2>1. PICK q, op : Send(q, op) /\ Understood(q) = op
    BY <1>1, CommandMeant DEF IInv, TypeOK, SentAsMeant
  <2>2. CASE good
    BY <2>1, <2>2 DEF Send, ReachesNamed
  <2>3. CASE ~good
    BY <2>1, <2>3 DEF Send, ReachesNamed, IInv
  <2> QED BY <2>2, <2>3
<1>2. CASE Serve \/ Lose
  BY <1>2 DEF Serve, Lose, ReachesNamed
<1>3. CASE Receive
  BY <1>3 DEF Receive, ReachesNamed, IInv, TypeOK, ExchangeOK
<1>4. CASE UNCHANGED exchange
  BY <1>4 DEF exchange, ReachesNamed, IInv
<1>5. OpenCollection \/ Concerning \/ Forget \/ UNCHANGED vars => UNCHANGED exchange
  BY DEF OpenCollection, Concerning, ServerConcern, DBConcern, CollectionConcern, Forget, vars
<1> QED BY <1>1, <1>2, <1>3, <1>4, <1>5 DEF Next

LEMMA IInvInit == Init => IInv
<1>1. Init => RangesKept /\ ReachesNamed
  BY DEF Init, RangesKept, ReachesNamed
<1> QED BY <1>1, TypeInit DEF IInv

LEMMA IInvStep ==
  ASSUME PlainNames
  PROVE  IInv /\ [Next]_vars => IInv'
<1> SUFFICES ASSUME IInv, [Next]_vars
             PROVE  IInv'
  OBVIOUS
<1>1. TypeOK' /\ NameKept'
  BY TypeStep, NameStep DEF IInv, TypeOK
<1>2. RangesKept'
  BY RangesStep DEF IInv, TypeOK
<1> QED BY <1>1, <1>2, ReachesStep DEF IInv

\* For all names of databases without two colons in a row, a colon at the end
\* or a dot, and any names of collections, every request reaches the database
\* and collection that the program named (dbName(), colName(), ThorsMongo.h).
THEOREM NamedReached ==
  ASSUME PlainNames
  PROVE  Spec => []ReachesNamed
<1>1. Init => IInv
  BY IInvInit
<1>2. IInv /\ [Next]_vars => IInv'
  BY IInvStep
<1>3. IInv => ReachesNamed
  BY DEF IInv
<1> QED BY <1>1, <1>2, <1>3, PTL DEF Spec

-----------------------------------------------------------------------------
(* Names implements NamedStore, for all names that can be told apart: each  *)
(* step of the library, the server or the connection is one that the        *)
(* promise allows, or leaves what it speaks of as it is.                    *)

\* The concerns as the promise sees them.
Settings == [s \in {<<>>} \cup {<<d>> : d \in DBNames} \cup Pairs |-> ConcernsOf(s)]

\* Handles of different names have different strings.
LEMMA CombinedOnce ==
  ASSUME PlainNames, NEW p \in Pairs, NEW q \in Pairs,
         Combined(p[1], p[2]) = Combined(q[1], q[2])
  PROVE  p = q
<1>1. /\ p = <<p[1], p[2]>> /\ q = <<q[1], q[2]>>
      /\ p[1] \in DBNames /\ p[2] \in ColNames /\ q[1] \in DBNames /\ q[2] \in ColNames
  BY DEF Pairs
<1>2. /\ p[1] \in Seq(Chars) /\ p[2] \in Seq(Chars) /\ q[1] \in Seq(Chars) /\ q[2] \in Seq(Chars)
      /\ Plain(p[1]) /\ Plain(q[1])
  BY <1>1, NamesAssumption DEF PlainNames
<1>3. p[1] = q[1]
  BY <1>2, SplitCombined
<1>4. p[2] = q[2]
  BY <1>2, SplitCombined
<1> QED BY <1>1, <1>3, <1>4

\* What is kept for the server, a database and a collection.
LEMMA SettingsAre ==
  /\ Settings[<<>>] = concern
  /\ \A d \in DBNames : Settings[<<d>>] = Entry(databases, d)
  /\ \A p \in Pairs : Settings[p] = Entry(collections, Combined(p[1], p[2]))
<1>1. Settings[<<>>] = concern
  BY DEF Settings, ConcernsOf
<1>2. ASSUME NEW d \in DBNames
      PROVE  Settings[<<d>>] = Entry(databases, d)
  <2>1. Len(<<d>>) = 1 /\ <<d>>[1] = d
    OBVIOUS
  <2>2. ConcernsOf(<<d>>) = Entry(databases, d)
    BY <2>1 DEF ConcernsOf
  <2> QED BY <2>2 DEF Settings
<1>3. ASSUME NEW p \in Pairs
      PROVE  Settings[p] = Entry(collections, Combined(p[1], p[2]))
  <2>1. Len(p) = 2
    BY DEF Pairs
  <2>2. ConcernsOf(p) = Entry(collections, Combined(p[1], p[2]))
    BY <2>1 DEF ConcernsOf
  <2> QED BY <2>2 DEF Settings
<1> QED BY <1>1, <1>2, <1>3

\* The same, after a step.
LEMMA SettingsAreNext ==
  /\ Settings'[<<>>] = concern'
  /\ \A d \in DBNames : Settings'[<<d>>] = Entry(databases', d)
  /\ \A p \in Pairs : Settings'[p] = Entry(collections', Combined(p[1], p[2]))
<1>1. Settings'[<<>>] = concern'
  BY DEF Settings, ConcernsOf
<1>2. ASSUME NEW d \in DBNames
      PROVE  Settings'[<<d>>] = Entry(databases', d)
  <2>1. Len(<<d>>) = 1 /\ <<d>>[1] = d
    OBVIOUS
  <2>2. ConcernsOf(<<d>>)' = Entry(databases', d)
    BY <2>1 DEF ConcernsOf
  <2> QED BY <2>2 DEF Settings
<1>3. ASSUME NEW p \in Pairs
      PROVE  Settings'[p] = Entry(collections', Combined(p[1], p[2]))
  <2>1. Len(p) = 2
    BY DEF Pairs
  <2>2. ConcernsOf(p)' = Entry(collections', Combined(p[1], p[2]))
    BY <2>1 DEF ConcernsOf
  <2> QED BY <2>2 DEF Settings
<1> QED BY <1>1, <1>2, <1>3

\* Which subjects there are; no two of different kinds are the same.
LEMMA SubjectsDiffer ==
  ASSUME NEW d \in DBNames, NEW p \in Pairs
  PROVE  <<>> # <<d>> /\ <<>> # p /\ <<d>> # p
<1>1. Len(<<>>) = 0 /\ Len(<<d>>) = 1 /\ Len(p) = 2
  BY DEF Pairs
<1> QED BY <1>1

\* A getter or setter changes nothing but the entry it is used on.
LEMMA EntryExchanged ==
  ASSUME NEW m, \A n \in DOMAIN m : m[n] \in ConcernOf, NEW key, NEW k \in Kinds,
         NEW e \in Exchanged(m, key, k)
  PROVE  /\ \A n : n # key => Entry(e, n) = Entry(m, n)
         /\ \/ Entry(e, key) = Entry(m, key)
            \/ \E v \in Concerns : Entry(e, key) = [Entry(m, key) EXCEPT ![k] = v]
<1> DEFINE t == Touched(m, key)
<1>1. /\ DOMAIN t = DOMAIN m \cup {key}
      /\ \A n \in DOMAIN t : t[n] = Entry(m, n)
  BY DEF Touched
<1>2. \A n : Entry(t, n) = Entry(m, n)
  BY <1>1 DEF Entry
<1>3. CASE e = t
  BY <1>2, <1>3
<1>4. ASSUME NEW v \in Concerns, e = [t EXCEPT ![key] = [@ EXCEPT ![k] = v]]
      PROVE  /\ \A n : n # key => Entry(e, n) = Entry(m, n)
             /\ Entry(e, key) = [Entry(m, key) EXCEPT ![k] = v]
  <2>1. DOMAIN e = DOMAIN t /\ e[key] = [t[key] EXCEPT ![k] = v]
    BY <1>1, <1>4
  <2>2. \A n \in DOMAIN t : n # key => e[n] = t[n]
    BY <1>4
  <2> HIDE DEF t
  <2> QED BY <1>1, <2>1, <2>2 DEF Entry
<1> QED BY <1>3, <1>4 DEF Exchanged

-----------------------------------------------------------------------------
(* Each step is one of the promise. *)

\* The server is the same to both.
LEMMA SameServer ==
  /\ Promise!Refused = Refused
  /\ \A op, s : Promise!Outcomes(op, s) = Outcomes(op, s)
BY DEF Outcomes, Applicable, Applied, Listed, Held, With, Without, Refused,
       Promise!Outcomes, Promise!Applicable, Promise!Applied, Promise!Listed, Promise!Held,
       Promise!With, Promise!Without, Promise!Refused

LEMMA ConcernStep ==
  ASSUME PlainNames, TypeOK, NameKept, Concerning
  PROVE  Promise!Concern
<1>1. UNCHANGED <<opened, rangeOf, store, called, toClient, response>>
  BY DEF Concerning, ServerConcern, DBConcern, CollectionConcern, objects, cursors, exchange
<1>2. SUFFICES \E s \in Promise!Subjects, k \in Kinds :
                 /\ told' = Settings[s][k]
                 /\ \/ Settings' = Settings
                    \/ \E v \in Concerns : Settings' = [Settings EXCEPT ![s] = [@ EXCEPT ![k] = v]]
  BY <1>1 DEF Promise!Concern, Settings, Promise!Subjects, Promise!Pairs, Pairs
<1>3. /\ <<>> \in Promise!Subjects /\ \A d \in DBNames : <<d>> \in Promise!Subjects
      /\ Pairs \subseteq Promise!Subjects
  BY DEF Promise!Subjects, Promise!Pairs, Pairs
<1> DEFINE Same(s) == \A t \in Promise!Subjects : t # s => Settings'[t] = Settings[t]
<1>4. ASSUME NEW s \in Promise!Subjects, NEW k \in Kinds, told' = Settings[s][k], Same(s),
             \/ Settings'[s] = Settings[s]
             \/ \E v \in Concerns : Settings'[s] = [Settings[s] EXCEPT ![k] = v]
      PROVE  \E r \in Promise!Subjects, j \in Kinds :
                 /\ told' = Settings[r][j]
                 /\ \/ Settings' = Settings
                    \/ \E v \in Concerns : Settings' = [Settings EXCEPT ![r] = [@ EXCEPT ![j] = v]]
  <2>1. /\ Settings = [t \in Promise!Subjects |-> Settings[t]]
        /\ Settings' = [t \in Promise!Subjects |-> Settings'[t]]
    BY DEF Settings, Promise!Subjects, Promise!Pairs, Pairs
  <2> DEFINE Changed(r, j) ==
               \/ Settings' = Settings
               \/ \E v \in Concerns : Settings' = [Settings EXCEPT ![r] = [@ EXCEPT ![j] = v]]
  <2>2. ASSUME Settings'[s] = Settings[s]
        PROVE  Settings' = Settings
    BY <1>4, <2>1, <2>2
  <2>3. ASSUME NEW v \in Concerns, Settings'[s] = [Settings[s] EXCEPT ![k] = v]
        PROVE  Settings' = [Settings EXCEPT ![s] = [@ EXCEPT ![k] = v]]
    BY <1>4, <2>1, <2>3
  <2>4. Changed(s, k)
    BY <1>4, <2>2, <2>3
  <2> HIDE DEF Changed
  <2>5. \E r \in Promise!Subjects, j \in Kinds : told' = Settings[r][j] /\ Changed(r, j)
    BY <1>4, <2>4
  <2> QED BY <2>5 DEF Changed
<1>5. CASE ServerConcern
  <2>1. PICK k \in Kinds : /\ told' = concern[k]
                           /\ concern' = concern \/ \E v \in Concerns : concern' = [concern EXCEPT ![k] = v]
    BY <1>5 DEF ServerConcern
  <2>2. databases' = databases /\ collections' = collections
    BY <1>5 DEF ServerConcern
  <2>3. Same(<<>>)
    BY <2>2, SettingsAre, SettingsAreNext DEF Promise!Subjects, Promise!Pairs, Pairs
  <2>4. Settings[<<>>] = concern /\ Settings'[<<>>] = concern'
    BY SettingsAre, SettingsAreNext
  <2> HIDE DEF Same
  <2> QED BY <1>3, <1>4, <2>1, <2>3, <2>4
<1>6. CASE DBConcern
  <2>1. PICK d \in DBNames, k \in Kinds :
          told' = Entry(databases, d)[k] /\ databases' \in Exchanged(databases, d, k)
    BY <1>6 DEF DBConcern
  <2>2. concern' = concern /\ collections' = collections
    BY <1>6 DEF DBConcern
  <2>3. /\ \A n : n # d => Entry(databases', n) = Entry(databases, n)
        /\ \/ Entry(databases', d) = Entry(databases, d)
           \/ \E v \in Concerns : Entry(databases', d) = [Entry(databases, d) EXCEPT ![k] = v]
    BY <2>1, EntryExchanged DEF TypeOK, SettingsOK
  <2>4. Same(<<d>>)
    BY <2>2, <2>3, SettingsAre, SettingsAreNext DEF Promise!Subjects, Promise!Pairs, Pairs
  <2>5. Settings[<<d>>] = Entry(databases, d) /\ Settings'[<<d>>] = Entry(databases', d)
    BY SettingsAre, SettingsAreNext
  <2> HIDE DEF Same
  <2> QED BY <1>3, <1>4, <2>1, <2>3, <2>4, <2>5
<1>7. CASE CollectionConcern
  <2>1. PICK h \in Handles, k \in Kinds :
          /\ told' = Entry(collections, name[h])[k]
          /\ collections' \in Exchanged(collections, name[h], k)
    BY <1>7 DEF CollectionConcern
  <2>2. concern' = concern /\ databases' = databases
    BY <1>7 DEF CollectionConcern
  <2> DEFINE p == opened[h]
           key == name[h]
  <2>3. p \in Pairs /\ key = Combined(p[1], p[2])
    BY NameTyped DEF TypeOK
  <2>0. told' = Entry(collections, key)[k] /\ collections' \in Exchanged(collections, key, k)
    BY <2>1
  <2> HIDE DEF key
  <2>4. /\ \A n : n # key => Entry(collections', n) = Entry(collections, n)
        /\ \/ Entry(collections', key) = Entry(collections, key)
           \/ \E v \in Concerns :
                Entry(collections', key) = [Entry(collections, key) EXCEPT ![k] = v]
    BY <2>0, EntryExchanged DEF TypeOK, SettingsOK
  <2> HIDE DEF p
  <2>5. \A q \in Pairs : q # p => Combined(q[1], q[2]) # key
    BY <2>3, CombinedOnce
  <2>6. Same(p)
    BY <2>2, <2>4, <2>5, SettingsAre, SettingsAreNext DEF Promise!Subjects, Promise!Pairs, Pairs
  <2>7. Settings[p] = Entry(collections, key) /\ Settings'[p] = Entry(collections', key)
    BY <2>3, SettingsAre, SettingsAreNext
  <2> HIDE DEF Same
  <2> QED BY <1>3, <1>4, <2>0, <2>3, <2>4, <2>6, <2>7
<1> QED BY <1>5, <1>6, <1>7 DEF Concerning

\* A command sends an operation of the promise, or fails at once; a find
\* begins its range, and killCursors ends one.
CalledFor(op) ==
  /\ \E q : Send(q, op)
  /\ op \in Promise!Operations
  /\ \/ UNCHANGED rangeOf
     \/ /\ good /\ op.command = "find"
        /\ \E r \in Ranges : rangeOf[r] = {} /\ rangeOf' = [rangeOf EXCEPT ![r] = {op.on}]
     \/ /\ good /\ op.command = "killCursors"
        /\ \E r \in Ranges : rangeOf[r] = {op.on} /\ rangeOf' = [rangeOf EXCEPT ![r] = {}]
  /\ UNCHANGED <<opened, Settings, told>>

LEMMA SettingsKept ==
  ASSUME UNCHANGED settings
  PROVE  UNCHANGED <<Settings, told>>
BY DEF settings, Settings, ConcernsOf, Entry

\* The operations on a collection the program has a handle for.
LEMMA HandleOperations ==
  ASSUME NEW h \in Handles
  PROVE  /\ \A command \in {"insert", "delete", "findAndModify", "find", "count", "distinct"},
              documents \in SUBSET Documents, update \in SUBSET Documents :
              Operation(command, opened[h], Nowhere, documents, update) \in Promise!Operations
         /\ Operation("drop", opened[h], Nowhere, {}, {}) \in Promise!Operations
         /\ \A c \in ColNames : Operation("renameCollection", opened[h], <<opened[h][1], c>>, {}, {})
                                \in Promise!Operations
<1>1. Promise!OnCollection(opened[h]) \subseteq Promise!Operations
  BY DEF Promise!Operations
<1>2. /\ \A command, on, to, documents, update :
           Promise!Operation(command, on, to, documents, update)
             = Operation(command, on, to, documents, update)
      /\ Promise!Nowhere = Nowhere
  BY DEF Promise!Operation, Operation, Promise!Nowhere, Nowhere
<1>3. ASSUME NEW p
      PROVE  /\ \A command \in {"insert", "delete", "findAndModify", "find", "count", "distinct"},
                  documents \in SUBSET Documents, update \in SUBSET Documents :
                  Promise!Operation(command, p, Promise!Nowhere, documents, update)
                    \in Promise!OnCollection(p)
             /\ Promise!Operation("drop", p, Promise!Nowhere, {}, {}) \in Promise!OnCollection(p)
             /\ \A c \in ColNames : Promise!Operation("renameCollection", p, <<p[1], c>>, {}, {})
                                    \in Promise!OnCollection(p)
  BY DEF Promise!OnCollection
<1> QED BY <1>1, <1>2, <1>3

LEMMA OtherOperations ==
  /\ \A d \in DBNames : Operation("listCollections", <<d, <<>>>>, Nowhere, {}, {}) \in Promise!Operations
  /\ \A d \in DBNames, c \in ColNames :
       Operation("create", <<d, c>>, Nowhere, {}, {}) \in Promise!Operations
  /\ Operation("listDatabases", <<Admin, <<>>>>, Nowhere, {}, {}) \in Promise!Operations
  /\ \A r \in Ranges : \A p \in rangeOf[r] :
       /\ Operation("getMore", p, Nowhere, Documents, {}) \in Promise!Operations
       /\ Operation("killCursors", p, Nowhere, {}, {}) \in Promise!Operations
<1>1. /\ \A command, on, to, documents, update :
           Promise!Operation(command, on, to, documents, update)
             = Operation(command, on, to, documents, update)
      /\ Promise!Nowhere = Nowhere
  BY DEF Promise!Operation, Operation, Promise!Nowhere, Nowhere
<1> DEFINE collectionOps == UNION {Promise!OnCollection(opened[h]) : h \in Handles}
           databaseOps == UNION {Promise!OnDB(d) : d \in DBNames}
           found == UNION {rangeOf[r] : r \in Ranges}
           rangeOps == UNION {Promise!OnRange(p) : p \in found}
<1>2. /\ \A d \in DBNames : Promise!OnDB(d) \subseteq Promise!Operations
      /\ Promise!OnServer \subseteq Promise!Operations
      /\ \A r \in Ranges : \A p \in rangeOf[r] : Promise!OnRange(p) \subseteq Promise!Operations
  <2>1. Promise!Operations = collectionOps \cup databaseOps \cup Promise!OnServer \cup rangeOps
    BY Zenon DEF Promise!Operations
  <2>2. \A d \in DBNames : Promise!OnDB(d) \subseteq databaseOps
    OBVIOUS
  <2>3. \A r \in Ranges : \A p \in rangeOf[r] : p \in found
    OBVIOUS
  <2> HIDE DEF found
  <2>4. \A p \in found : Promise!OnRange(p) \subseteq rangeOps
    OBVIOUS
  <2> HIDE DEF collectionOps, databaseOps, rangeOps
  <2> QED BY <2>1, <2>2, <2>3, <2>4
<1> HIDE DEF collectionOps, databaseOps, found, rangeOps
<1>4. ASSUME NEW d
      PROVE  /\ Promise!Operation("listCollections", <<d, <<>>>>, Promise!Nowhere, {}, {})
                  \in Promise!OnDB(d)
             /\ \A c \in ColNames :
                  Promise!Operation("create", <<d, c>>, Promise!Nowhere, {}, {}) \in Promise!OnDB(d)
  BY DEF Promise!OnDB
<1>5. Promise!Operation("listDatabases", <<Admin, <<>>>>, Promise!Nowhere, {}, {}) \in Promise!OnServer
  BY DEF Promise!OnServer
<1>6. ASSUME NEW p
      PROVE  /\ Promise!Operation("getMore", p, Promise!Nowhere, Documents, {}) \in Promise!OnRange(p)
             /\ Promise!Operation("killCursors", p, Promise!Nowhere, {}, {}) \in Promise!OnRange(p)
  BY DEF Promise!OnRange
<1> QED BY <1>1, <1>2, <1>4, <1>5, <1>6

LEMMA CommandCallsFor ==
  ASSUME TypeOK, Command
  PROVE  \E op : CalledFor(op)
<1>1. UNCHANGED <<objects, settings>>
  BY DEF Command, insert, remove, findAndModify, countDocuments, distinct, drop, rename,
         createCollection, listCollections, listDatabases, findDocuments, getMore, killCursor,
         OnCollection
<1>2. UNCHANGED <<opened, Settings, told>>
  BY <1>1, SettingsKept DEF objects
<1>3. ASSUME NEW op, \E q : Send(q, op), op \in Promise!Operations, UNCHANGED rangeOf
      PROVE  \E o : CalledFor(o)
  BY <1>2, <1>3 DEF CalledFor
<1>4. ASSUME NEW h \in Handles, NEW command \in {"insert", "delete", "findAndModify", "count", "distinct"},
             NEW documents \in SUBSET Documents, NEW update \in SUBSET Documents,
             OnCollection(h, command, documents, update)
      PROVE  \E o : CalledFor(o)
  <2>1. Operation(command, opened[h], Nowhere, documents, update) \in Promise!Operations
    BY HandleOperations
  <2> QED BY <1>3, <1>4, <2>1 DEF OnCollection, cursors
<1>5. CASE insert \/ remove \/ findAndModify
  <2>1. PICK h \in Handles, command \in {"insert", "delete", "findAndModify"}, d \in Documents,
             update \in {{}} \cup {{e} : e \in Documents} : OnCollection(h, command, {d}, update)
    BY <1>5 DEF insert, remove, findAndModify
  <2>2. {d} \in SUBSET Documents /\ update \in SUBSET Documents
    OBVIOUS
  <2> QED BY <1>4, <2>1, <2>2
<1>6. CASE countDocuments \/ distinct
  <2>1. PICK h \in Handles, command \in {"count", "distinct"} :
          OnCollection(h, command, Documents, {})
    BY <1>6 DEF countDocuments, distinct
  <2> QED BY <1>4, <2>1
<1>7. CASE drop
  <2>1. PICK h \in Handles : OnCollection(h, "drop", {}, {})
    BY <1>7 DEF drop
  <2>2. Operation("drop", opened[h], Nowhere, {}, {}) \in Promise!Operations
    BY HandleOperations
  <2> QED BY <1>3, <2>1, <2>2 DEF OnCollection, cursors
<1>8. CASE rename
  <2>1. PICK h \in Handles, c \in ColNames :
          \E q : Send(q, Operation("renameCollection", opened[h], <<opened[h][1], c>>, {}, {}))
    BY <1>8 DEF rename
  <2>2. Operation("renameCollection", opened[h], <<opened[h][1], c>>, {}, {}) \in Promise!Operations
    BY HandleOperations
  <2> QED BY <1>3, <1>8, <2>1, <2>2 DEF rename, cursors
<1>9. CASE createCollection \/ listCollections \/ listDatabases
  <2>1. PICK op : (\E q : Send(q, op)) /\ op \in Promise!Operations
    BY <1>9, OtherOperations DEF createCollection, listCollections, listDatabases
  <2>2. UNCHANGED rangeOf
    BY <1>9 DEF createCollection, listCollections, listDatabases, cursors
  <2> QED BY <1>3, <2>1, <2>2
<1>10. CASE getMore
  <2>1. PICK r \in Ranges : \E p \in rangeOf[r] :
          \E q : Send(q, Operation("getMore", p, Nowhere, Documents, {}))
    BY <1>10 DEF getMore
  <2>2. PICK p \in rangeOf[r] : \E q : Send(q, Operation("getMore", p, Nowhere, Documents, {}))
    BY <2>1
  <2> QED BY <1>3, <1>10, <2>2, OtherOperations DEF getMore, cursors
<1>11. CASE findDocuments
  <2>1. PICK h \in Handles, r \in Ranges :
          /\ rangeOf[r] = {}
          /\ \E q : Send(q, Operation("find", opened[h], Nowhere, Documents, {}))
          /\ rangeOf' = IF good THEN [rangeOf EXCEPT ![r] = {opened[h]}] ELSE rangeOf
    BY <1>11 DEF findDocuments
  <2> DEFINE op == Operation("find", opened[h], Nowhere, Documents, {})
  <2>2. op \in Promise!Operations
    BY HandleOperations
  <2>3. op.command = "find" /\ op.on = opened[h]
    BY DEF Operation
  <2> HIDE DEF op
  <2> QED BY <1>2, <2>1, <2>2, <2>3 DEF CalledFor, op
<1>12. CASE killCursor
  <2>0. PICK r \in Ranges : \E p \in rangeOf[r] :
          /\ good /\ \E q : Send(q, Operation("killCursors", p, Nowhere, {}, {}))
          /\ rangeOf' = [rangeOf EXCEPT ![r] = {}]
    BY <1>12 DEF killCursor
  <2>1. PICK p \in rangeOf[r] :
          /\ good /\ \E q : Send(q, Operation("killCursors", p, Nowhere, {}, {}))
          /\ rangeOf' = [rangeOf EXCEPT ![r] = {}]
    BY <2>0
  <2>2. rangeOf[r] = {p}
    BY <2>1 DEF TypeOK, CursorsOK
  <2> DEFINE op == Operation("killCursors", p, Nowhere, {}, {})
  <2>3. op \in Promise!Operations
    BY <2>1, OtherOperations
  <2>4. op.command = "killCursors" /\ op.on = p
    BY DEF Operation
  <2> HIDE DEF op
  <2> QED BY <1>2, <2>1, <2>2, <2>3, <2>4 DEF CalledFor, op
<1> QED BY <1>5, <1>6, <1>7, <1>8, <1>9, <1>10, <1>11, <1>12 DEF Command

LEMMA CommandStep ==
  ASSUME TypeOK, Command
  PROVE  Promise!Call \/ Promise!Fail
<1>1. PICK op : CalledFor(op)
  BY CommandCallsFor
<1>2. PICK q : Send(q, op)
  BY <1>1 DEF CalledFor
<1>3. UNCHANGED <<opened, Settings, told, store, toClient>> /\ called = {}
  BY <1>1, <1>2 DEF CalledFor, Send, Step
<1>4. CASE good
  <2>1. called' = {op} /\ UNCHANGED response
    BY <1>2, <1>4 DEF Send
  <2> QED BY <1>1, <1>3, <2>1
          DEF CalledFor, Promise!Call, Settings
<1>5. CASE ~good
  <2>1. response' = Promise!Refused /\ called' = {} /\ toClient' = {} /\ UNCHANGED rangeOf
    BY <1>1, <1>2, <1>3, <1>5, SameServer DEF CalledFor, Send, TypeOK, ExchangeOK
  <2> QED BY <1>3, <2>1 DEF Promise!Fail, Settings
<1> QED BY <1>4, <1>5

\* The server carries out what the program called for.
LEMMA ServeStep ==
  ASSUME IInv, Serve
  PROVE  Promise!Execute
<1>0. PICK q \in toServer : \E o \in Outcomes(Understood(q), store) :
        store' = o.store /\ toClient' = {o.reply}
  BY DEF Serve
<1>1. PICK o \in Outcomes(Understood(q), store) : store' = o.store /\ toClient' = {o.reply}
  BY <1>0
<1>2. toClient = {} /\ Understood(q) \in called
  BY DEF IInv, TypeOK, ExchangeOK, ReachesNamed
<1>3. UNCHANGED <<opened, rangeOf, called, response>> /\ UNCHANGED settings
  BY DEF Serve, objects, cursors
<1>4. UNCHANGED <<Settings, told>>
  BY <1>3, SettingsKept
<1>5. o \in Promise!Outcomes(Understood(q), store)
  BY SameServer
<1> QED BY <1>1, <1>2, <1>3, <1>4, <1>5 DEF Promise!Execute, Settings

\* The steps that neither send nor serve.
LEMMA OtherStep ==
  ASSUME OpenCollection \/ Forget \/ Receive \/ Lose \/ UNCHANGED vars
  PROVE  Promise!Open \/ Promise!Forget \/ Promise!Return \/ Promise!Fail \/ UNCHANGED Promise!vars
<1>1. UNCHANGED <<Settings, told>>
  <2>1. UNCHANGED settings
    BY DEF OpenCollection, Forget, Receive, Lose, vars
  <2> QED BY <2>1, SettingsKept
<1>2. CASE OpenCollection
  BY <1>1, <1>2 DEF OpenCollection, cursors, exchange, Pairs, Promise!Pairs, Promise!Open, Settings
<1>3. CASE Forget
  BY <1>1, <1>3 DEF Forget, objects, exchange, Promise!Forget, Settings
<1>4. CASE Receive
  BY <1>1, <1>4 DEF Receive, objects, cursors, Promise!Return, Settings
<1>5. CASE Lose
  BY <1>1, <1>5, SameServer DEF Lose, objects, cursors, Promise!Fail, Settings
<1>6. CASE UNCHANGED vars
  BY <1>1, <1>6 DEF vars, objects, cursors, exchange, Promise!vars, Settings
<1> QED BY <1>2, <1>3, <1>4, <1>5, <1>6

LEMMA PromiseInit == Init => Promise!Init
<1> SUFFICES ASSUME Init
             PROVE  Promise!Init
  OBVIOUS
<1>1. \A s \in Promise!Subjects : Settings[s] = [k \in Kinds |-> Unset]
  <2>1. \A d \in DBNames : Entry(databases, d) = [k \in Kinds |-> Unset]
    BY DEF Init, Entry, Default
  <2>2. \A n : Entry(collections, n) = [k \in Kinds |-> Unset]
    BY DEF Init, Entry, Default
  <2> QED BY <2>1, <2>2, SettingsAre DEF Init, Promise!Subjects, Promise!Pairs, Pairs
<1>2. Settings = [s \in Promise!Subjects |-> [k \in Kinds |-> Unset]]
  BY <1>1 DEF Settings, Promise!Subjects, Promise!Pairs, Pairs
<1> QED BY <1>2, SameServer DEF Init, Promise!Init, Promise!Pairs, Pairs, Settings

\* For all names that can be told apart, and any program, server and loss of
\* the connection, the handles keep what NamedStore promises: operations are
\* carried out on the collection named, at most once, and a concern is what was
\* last set for that name (the commands, the getters and setters, ThorsMongo.h).
THEOREM Implements ==
  ASSUME PlainNames
  PROVE  Spec => ImplementsNamedStore
<1>1. Init => Promise!Init
  BY PromiseInit
<1>2. IInv /\ [Next]_vars => [Promise!Next]_(Promise!vars)
  <2> SUFFICES ASSUME IInv, [Next]_vars
               PROVE  Promise!Next \/ UNCHANGED Promise!vars
    OBVIOUS
  <2>1. Concerning => Promise!Concern
    BY ConcernStep DEF IInv
  <2>2. Command => Promise!Call \/ Promise!Fail
    BY CommandStep DEF IInv
  <2> QED BY <2>1, <2>2, ServeStep, OtherStep DEF Next, Promise!Next
<1>3. Init => IInv
  BY IInvInit
<1>4. IInv /\ [Next]_vars => IInv'
  BY IInvStep
<1> QED BY <1>1, <1>2, <1>3, <1>4, PTL DEF Spec, ImplementsNamedStore, Promise!Spec

===============================================================================
