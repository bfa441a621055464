------------------------------ MODULE DocumentsProofs ------------------------------
(***************************************************************************)
(* Proofs about Documents, for all ids, fields, collections, filters and   *)
(* updates: what each command does to the collection, what a call may rely *)
(* on while it waits, and that all of it is what DocumentSet promises.     *)
(***************************************************************************)
EXTENDS ExpressionsProofs

-----------------------------------------------------------------------------
(* insert(). *)

\* One more document of an insert.
InsertedOne(o, i, m) ==
  IF Server!Stopped(m, o) THEN o
  ELSE IF m.documents[i]._id \in DOMAIN o.docs
    THEN Server!Outcome(o.docs, o.n, o.writeErrors \cup {i}, {}, o.stored)
    ELSE Server!Outcome(Server!With(o.docs, m.documents[i]._id, m.documents[i].doc), o.n + 1,
                        o.writeErrors, {}, o.stored \cup {i})

\* An insert takes the documents one after the other.
LEMMA InsertIs ==
  ASSUME NEW collection, NEW m, Len(m.documents) \in Nat
  PROVE  \E f : /\ Server!Insert(collection, m) = {f[Len(m.documents)]} /\ f[0] = Server!Outcome(collection, 0, {}, {}, {})
                /\ \A i \in 1 .. Len(m.documents) : f[i] = InsertedOne(f[i - 1], i, m)
<1> DEFINE n == Len(m.documents)
           Base == Server!Outcome(collection, 0, {}, {}, {})
           Step(t, i) == InsertedOne(t, i, m)
           Is(f, k) == f = [i \in 0 .. k |-> IF i = 0 THEN Base ELSE Step(f[i - 1], i)]
           T == {k \in 0 .. n : \E f : Is(f, k)}
<1>1. Server!Insert(collection, m) = {(CHOOSE f : Is(f, n))[n]}
  BY DEF Server!Insert, InsertedOne
<1> HIDE DEF Step, Base
<1>2. 0 \in T
  <2> DEFINE f0 == [i \in 0 .. 0 |-> Base]
  <2>1. Is(f0, 0)
    <3>1. \A i \in 0 .. 0 : f0[i] = IF i = 0 THEN Base ELSE Step(f0[i - 1], i)
      OBVIOUS
    <3> QED BY <3>1
  <2> HIDE DEF Is, f0
  <2>2. 0 \in 0 .. n
    OBVIOUS
  <2> QED BY <2>1, <2>2
<1>3. ASSUME NEW k \in 0 .. n - 1, k \in T
      PROVE  k + 1 \in T
  <2>1. PICK f : Is(f, k)
    BY <1>3
  <2> DEFINE g == [i \in 0 .. k + 1 |-> IF i = k + 1 THEN Step(f[k], k + 1) ELSE f[i]]
  <2>2. Is(g, k + 1)
    <3>1. \A i \in 0 .. k + 1 : g[i] = IF i = 0 THEN Base ELSE Step(g[i - 1], i)
      BY <2>1
    <3> QED BY <3>1
  <2> HIDE DEF Is, g
  <2>3. k + 1 \in 0 .. n
    OBVIOUS
  <2> QED BY <2>2, <2>3
<1>4. \E f : Is(f, n)
  <2> HIDE DEF Is
  <2>1. \A k \in 0 .. n : k \in T
    <3> HIDE DEF T
    <3> QED BY <1>2, <1>3, UpTo
  <2> QED BY <2>1
<1>5. Is(CHOOSE f : Is(f, n), n)
  <2> HIDE DEF Is
  <2> QED BY <1>4
<1> DEFINE h == CHOOSE f : Is(f, n)
<1>6. h[0] = Base /\ \A i \in 1 .. n : h[i] = Step(h[i - 1], i)
  <2> HIDE DEF h
  <2>1. Is(h, n)
    BY <1>5 DEF h
  <2>2. n \in Nat
    OBVIOUS
  <2> HIDE DEF n
  <2>3. h[0] = Base
    BY <2>1, <2>2
  <2>4. \A i \in 1 .. n : h[i] = Step(h[i - 1], i)
    BY <2>1, <2>2
  <2> QED BY <2>3, <2>4
<1> QED BY <1>1, <1>6 DEF Step, Base

\* Calls as the program makes them.
IsInsert(c) ==
  /\ c.command = "insert" /\ c.ordered \in BOOLEAN
  /\ \E n \in Nat : DOMAIN c.ids = 1 .. n /\ DOMAIN c.documents = 1 .. n
  /\ \A i \in DOMAIN c.ids : c.ids[i] \in Ids /\ IsDocument(c.documents[i])

\* An id is there already when its turn comes.
Taken(c, stored, k) == c.ids[k] \in DOMAIN docs \/ \E j \in stored : j < k /\ c.ids[j] = c.ids[k]

\* An insert after the first "i" of its documents.
InsertedSoFar(c, o, i) ==
  /\ o.stored \subseteq 1 .. i /\ o.value = {}
  /\ IsFiniteSet(o.stored) /\ o.n = Cardinality(o.stored)
  /\ IsCollection(o.docs)
  /\ DOMAIN o.docs = DOMAIN docs \cup {c.ids[k] : k \in o.stored}
  /\ \A id \in DOMAIN docs : o.docs[id] = docs[id]
  /\ \A k \in o.stored : ~Taken(c, o.stored, k) /\ o.docs[c.ids[k]] = c.documents[k]
  /\ ~c.ordered => \A k \in 1 .. i : (k \in o.stored <=> ~Taken(c, o.stored, k))
                                     /\ (k \in o.writeErrors <=> k \notin o.stored)
  /\ c.ordered => \/ o.writeErrors = {} /\ o.stored = 1 .. i
                  \/ \E e \in 1 .. i : o.writeErrors = {e} /\ o.stored = 1 .. e - 1 /\ Taken(c, o.stored, e)
  /\ o.writeErrors \subseteq 1 .. i

\* One more document is inserted.
LEMMA InsertStep ==
  ASSUME NEW c, IsInsert(c), NEW n \in Nat, DOMAIN c.ids = 1 .. n, NEW m, m.ordered = c.ordered,
         NEW i \in 0 .. n - 1, NEW o, InsertedSoFar(c, o, i),
         m.documents[i + 1]._id = c.ids[i + 1], m.documents[i + 1].doc = c.documents[i + 1]
  PROVE  InsertedSoFar(c, InsertedOne(o, i + 1, m), i + 1)
<1> DEFINE k == i + 1
           id == c.ids[k]
           S == o.stored
           w == InsertedOne(o, k, m)
<1>0. i \in Nat /\ k \in Nat /\ k \in 1 .. n /\ id \in Ids /\ IsDocument(c.documents[k])
  BY DEF IsInsert
<1>1. \A j : j \in 1 .. k <=> j \in 1 .. i \/ j = k
  BY <1>0
<1>2. c.ordered \in BOOLEAN
  BY DEF IsInsert
<1>3. S \subseteq 1 .. i /\ o.writeErrors \subseteq 1 .. i /\ k \notin S
  <2>1. k \notin 1 .. i
    BY <1>0
  <2> QED BY <2>1 DEF InsertedSoFar
<1>4. w = IF c.ordered /\ o.writeErrors # {} THEN o
          ELSE IF id \in DOMAIN o.docs
            THEN Server!Outcome(o.docs, o.n, o.writeErrors \cup {k}, {}, S)
            ELSE Server!Outcome(Server!With(o.docs, id, c.documents[k]), o.n + 1, o.writeErrors, {}, S \cup {k})
  BY DEF InsertedOne, Server!Stopped
<1>5. id \in DOMAIN o.docs <=> Taken(c, S, k)
  <2>1. \A j \in S : j < k
    BY <1>0, <1>3
  <2> QED BY <2>1 DEF InsertedSoFar, Taken
<1>6. \A j \in 1 .. i : Taken(c, S \cup {k}, j) <=> Taken(c, S, j)
  <2>1. \A j \in 1 .. i : ~(k < j)
    BY <1>0
  <2> QED BY <2>1 DEF Taken
<1>7. Taken(c, S \cup {k}, k) <=> Taken(c, S, k)
  BY <1>0 DEF Taken
<1> HIDE DEF w, k, id, S
<1>8. CASE c.ordered /\ o.writeErrors # {}
  <2>1. w = o
    BY <1>4, <1>8
  <2>2. \E e \in 1 .. k : o.writeErrors = {e} /\ S = 1 .. e - 1 /\ Taken(c, S, e)
    BY <1>1, <1>8 DEF InsertedSoFar, S
  <2>3. S \subseteq 1 .. k /\ o.writeErrors \subseteq 1 .. k
    BY <1>1, <1>3
  <2> QED BY <1>8, <2>1, <2>2, <2>3 DEF InsertedSoFar, S, w, k
<1>9. CASE ~(c.ordered /\ o.writeErrors # {}) /\ id \in DOMAIN o.docs
  <2>1. /\ w.docs = o.docs /\ w.n = o.n /\ w.writeErrors = o.writeErrors \cup {k}
        /\ w.value = {} /\ w.stored = S
    BY <1>4, <1>9 DEF Server!Outcome
  <2>2. S \subseteq 1 .. k /\ w.writeErrors \subseteq 1 .. k
    BY <1>1, <1>3, <2>1
  <2>3. ~c.ordered => \A j \in 1 .. k : (j \in w.stored <=> ~Taken(c, w.stored, j))
                                        /\ (j \in w.writeErrors <=> j \notin w.stored)
    BY <1>1, <1>3, <1>5, <1>9, <2>1 DEF InsertedSoFar, S
  <2>4. c.ordered => \E e \in 1 .. k : w.writeErrors = {e} /\ w.stored = 1 .. e - 1 /\ Taken(c, w.stored, e)
    <3>1. SUFFICES ASSUME c.ordered PROVE w.writeErrors = {k} /\ w.stored = 1 .. k - 1 /\ Taken(c, w.stored, k)
      BY <1>1
    <3>2. o.writeErrors = {} /\ S = 1 .. i
      BY <1>9, <3>1 DEF InsertedSoFar, S
    <3>3. k - 1 = i
      BY <1>0 DEF k
    <3> QED BY <1>5, <1>9, <2>1, <3>2, <3>3
  <2>5. /\ IsFiniteSet(w.stored) /\ w.n = Cardinality(w.stored)
        /\ IsCollection(w.docs)
        /\ DOMAIN w.docs = DOMAIN docs \cup {c.ids[j] : j \in w.stored}
        /\ \A x \in DOMAIN docs : w.docs[x] = docs[x]
        /\ \A j \in w.stored : ~Taken(c, w.stored, j) /\ w.docs[c.ids[j]] = c.documents[j]
    BY <2>1 DEF InsertedSoFar, S
  <2>6. InsertedSoFar(c, w, k)
    BY <2>1, <2>2, <2>3, <2>4, <2>5 DEF InsertedSoFar
  <2> QED BY <2>6 DEF w, k
<1>10. CASE ~(c.ordered /\ o.writeErrors # {}) /\ id \notin DOMAIN o.docs
  <2>1. /\ w.docs = Server!With(o.docs, id, c.documents[k]) /\ w.n = o.n + 1 /\ w.writeErrors = o.writeErrors
        /\ w.value = {} /\ w.stored = S \cup {k}
    BY <1>4, <1>10 DEF Server!Outcome
  <2>2. /\ DOMAIN w.docs = DOMAIN o.docs \cup {id} /\ w.docs[id] = c.documents[k]
        /\ \A x \in DOMAIN o.docs : w.docs[x] = o.docs[x]
    BY <1>10, <2>1 DEF Server!With
  <2>3. w.stored \subseteq 1 .. k /\ w.writeErrors \subseteq 1 .. k
    BY <1>1, <1>3, <2>1
  <2>4. IsFiniteSet(w.stored) /\ w.n = Cardinality(w.stored)
    <3>1. IsFiniteSet(S) /\ o.n = Cardinality(S)
      BY DEF InsertedSoFar, S
    <3>2. IsFiniteSet(S \cup {k}) /\ Cardinality(S \cup {k}) = Cardinality(S) + 1
      BY <1>3, <3>1, FS_AddElement
    <3> QED BY <2>1, <3>1, <3>2
  <2>5. IsCollection(w.docs)
    <3>1. IsCollection(o.docs)
      BY DEF InsertedSoFar
    <3>2. IsFiniteSet(DOMAIN o.docs \cup {id})
      <4>1. IsFiniteSet(DOMAIN o.docs)
        BY <3>1 DEF IsCollection
      <4> QED BY <4>1, FS_AddElement
    <3>3. IsDocument(c.documents[k]) /\ id \in Ids
      BY <1>0
    <3>4. \A x \in DOMAIN w.docs : IsDocument(w.docs[x])
      BY <2>2, <3>1, <3>3 DEF IsCollection
    <3> QED BY <2>2, <3>1, <3>2, <3>3, <3>4 DEF IsCollection
  <2>6. DOMAIN w.docs = DOMAIN docs \cup {c.ids[j] : j \in w.stored}
    <3>1. DOMAIN o.docs = DOMAIN docs \cup {c.ids[j] : j \in S}
      BY DEF InsertedSoFar, S
    <3> QED BY <2>1, <2>2, <3>1 DEF id
  <2>7. \A x \in DOMAIN docs : w.docs[x] = docs[x]
    BY <2>2 DEF InsertedSoFar
  <2>8. ASSUME NEW j \in w.stored PROVE ~Taken(c, w.stored, j) /\ w.docs[c.ids[j]] = c.documents[j]
    <3>1. CASE j = k
      BY <1>5, <1>7, <1>10, <2>1, <2>2, <3>1 DEF id
    <3>2. CASE j # k
      <4>1. j \in S /\ j \in 1 .. i
        BY <1>3, <2>1, <3>2
      <4>2. ~Taken(c, S, j) /\ o.docs[c.ids[j]] = c.documents[j] /\ c.ids[j] \in DOMAIN o.docs
        BY <4>1 DEF InsertedSoFar, S
      <4> QED BY <1>6, <2>1, <2>2, <4>1, <4>2
    <3> QED BY <3>1, <3>2
  <2>9. ~c.ordered => \A j \in 1 .. k : (j \in w.stored <=> ~Taken(c, w.stored, j))
                                        /\ (j \in w.writeErrors <=> j \notin w.stored)
    <3>1. SUFFICES ASSUME ~c.ordered, NEW j \in 1 .. k
                   PROVE  (j \in w.stored <=> ~Taken(c, w.stored, j)) /\ (j \in w.writeErrors <=> j \notin w.stored)
      OBVIOUS
    <3>2. CASE j = k
      <4>1. j \notin o.writeErrors
        <5>1. k \notin 1 .. i
          BY <1>0 DEF k
        <5> QED BY <1>3, <3>2, <5>1
      <4> QED BY <2>1, <2>8, <3>2, <4>1
    <3>3. CASE j # k
      <4>1. j \in 1 .. i
        BY <1>1, <3>3
      <4>2. (j \in S <=> ~Taken(c, S, j)) /\ (j \in o.writeErrors <=> j \notin S)
        BY <3>1, <4>1 DEF InsertedSoFar, S
      <4> QED BY <1>6, <2>1, <3>3, <4>1, <4>2
    <3> QED BY <3>2, <3>3
  <2>10. c.ordered => w.writeErrors = {} /\ w.stored = 1 .. k
    <3>1. SUFFICES ASSUME c.ordered PROVE w.writeErrors = {} /\ w.stored = 1 .. k
      OBVIOUS
    <3>2. o.writeErrors = {} /\ S = 1 .. i
      BY <1>10, <3>1 DEF InsertedSoFar, S
    <3> QED BY <1>1, <2>1, <3>2
  <2>11. InsertedSoFar(c, w, k)
    BY <2>1, <2>3, <2>4, <2>5, <2>6, <2>7, <2>8, <2>9, <2>10 DEF InsertedSoFar
  <2> QED BY <2>11 DEF w, k
<1> QED BY <1>2, <1>8, <1>9, <1>10

\* An insert does what is promised, and what it tells is enough to know what is
\* stored.
LEMMA InsertMeans ==
  ASSUME IsCollection(docs), NEW c, IsInsert(c), NEW o \in Server!Insert(docs, Inserter(c))
  PROVE  /\ \E n \in Nat : DOMAIN c.ids = 1 .. n /\ InsertedSoFar(c, o, n)
<1>1. PICK n \in Nat : DOMAIN c.ids = 1 .. n
  BY DEF IsInsert
<1> DEFINE m == Inserter(c)
<1>2. m.ordered = c.ordered /\ \A i \in 1 .. n : m.documents[i]._id = c.ids[i] /\ m.documents[i].doc = c.documents[i]
  BY <1>1 DEF Inserter
<1>3. Len(m.documents) = n
  BY <1>1 DEF Inserter
<1> HIDE DEF m
<1>4. PICK f : /\ Server!Insert(docs, m) = {f[n]} /\ f[0] = Server!Outcome(docs, 0, {}, {}, {})
               /\ \A i \in 1 .. n : f[i] = InsertedOne(f[i - 1], i, m)
  <2>1. PICK f : /\ Server!Insert(docs, m) = {f[Len(m.documents)]} /\ f[0] = Server!Outcome(docs, 0, {}, {}, {})
                 /\ \A i \in 1 .. Len(m.documents) : f[i] = InsertedOne(f[i - 1], i, m)
    BY <1>3, InsertIs
  <2> QED BY <1>3, <2>1
<1> DEFINE T == {i \in 0 .. n : InsertedSoFar(c, f[i], i)}
<1>5. 0 \in T
  <2>1. f[0] = Server!Outcome(docs, 0, {}, {}, {})
    BY <1>4
  <2>2. IsFiniteSet({}) /\ Cardinality({}) = 0
    BY FS_EmptySet
  <2>3. f[0].docs = docs /\ f[0].n = 0 /\ f[0].writeErrors = {} /\ f[0].value = {} /\ f[0].stored = {}
    BY <2>1 DEF Server!Outcome
  <2>4. 1 .. 0 = {}
    OBVIOUS
  <2>5. InsertedSoFar(c, f[0], 0)
    BY <2>2, <2>3, <2>4 DEF InsertedSoFar
  <2> QED BY <2>5
<1>6. ASSUME NEW i \in 0 .. n - 1, i \in T PROVE i + 1 \in T
  <2>1. i + 1 \in 1 .. n /\ (i + 1) - 1 = i /\ i + 1 \in 0 .. n
    OBVIOUS
  <2>2. f[i + 1] = InsertedOne(f[i], i + 1, m)
    BY <1>4, <2>1
  <2>3. InsertedSoFar(c, f[i], i)
    BY <1>6
  <2> DEFINE o1 == f[i]
  <2> HIDE DEF o1
  <2>4. InsertedSoFar(c, InsertedOne(o1, i + 1, m), i + 1)
    BY <1>1, <1>2, <2>1, <2>3, InsertStep DEF o1
  <2> QED BY <2>1, <2>2, <2>4 DEF o1
<1>7. n \in T
  <2>1. n \in 0 .. n
    OBVIOUS
  <2> HIDE DEF T
  <2>2. \A i \in 0 .. n : i \in T
    BY <1>5, <1>6, UpTo
  <2> QED BY <2>1, <2>2
<1> QED BY <1>1, <1>4, <1>7 DEF m

\* What an answer to an insert tells, of the collection that is left.
Tells(c, r, collection) ==
  LET stored == {i \in DOMAIN c.ids :
                   /\ i \notin r.writeErrors
                   /\ c.ordered => \A e \in r.writeErrors : i < e}
  IN  /\ stored = r.stored /\ r.n = Cardinality(stored)
      /\ \A i \in stored : c.ids[i] \in DOMAIN collection /\ collection[c.ids[i]] = c.documents[i]

\* What the answer tells is what is promised, and what is stored.
LEMMA InsertTells ==
  ASSUME NEW c, IsInsert(c), NEW n \in Nat, DOMAIN c.ids = 1 .. n, NEW o, InsertedSoFar(c, o, n)
  PROVE  /\ Tells(c, o, o.docs)
         /\ Promise!Inserted(c, o.docs, Promise!Result(o.n, o.value, o.last, o.stored))
<1> DEFINE stored == {i \in DOMAIN c.ids :
                        /\ i \notin o.writeErrors
                        /\ c.ordered => \A e \in o.writeErrors : i < e}
           r == Promise!Result(o.n, o.value, o.last, o.stored)
<1>1. c.ordered \in BOOLEAN
  BY DEF IsInsert
<1>2. o.stored \subseteq 1 .. n
  BY DEF InsertedSoFar
<1>3. c.ordered => \/ o.writeErrors = {} /\ o.stored = 1 .. n
                   \/ \E e \in 1 .. n : o.writeErrors = {e} /\ o.stored = 1 .. e - 1 /\ Taken(c, o.stored, e)
  BY DEF InsertedSoFar
<1>4. ~c.ordered => \A k \in 1 .. n : (k \in o.stored <=> ~Taken(c, o.stored, k))
                                      /\ (k \in o.writeErrors <=> k \notin o.stored)
  BY DEF InsertedSoFar
<1>5. \A k \in o.stored : ~Taken(c, o.stored, k) /\ o.docs[c.ids[k]] = c.documents[k]
  BY DEF InsertedSoFar
<1>6. stored = o.stored
  <2>1. CASE c.ordered /\ o.writeErrors = {} /\ o.stored = 1 .. n
    BY <2>1
  <2>2. CASE c.ordered /\ \E e \in 1 .. n : o.writeErrors = {e} /\ o.stored = 1 .. e - 1
    <3>1. PICK e \in 1 .. n : o.writeErrors = {e} /\ o.stored = 1 .. e - 1
      BY <2>2
    <3>2. stored = {i \in 1 .. n : i < e}
      BY <2>2, <3>1
    <3>3. {i \in 1 .. n : i < e} = 1 .. e - 1
      OBVIOUS
    <3> QED BY <3>1, <3>2, <3>3
  <2>3. CASE ~c.ordered
    <3>1. stored = {i \in 1 .. n : i \notin o.writeErrors}
      BY <2>3
    <3> QED BY <1>2, <1>4, <2>3, <3>1
  <2> QED BY <1>3, <2>1, <2>2, <2>3
<1>7. Tells(c, o, o.docs)
  <2>1. o.n = Cardinality(o.stored)
    BY DEF InsertedSoFar
  <2>2. \A i \in o.stored : c.ids[i] \in DOMAIN o.docs
    BY DEF InsertedSoFar
  <2> QED BY <1>5, <1>6, <2>1, <2>2 DEF Tells
<1>8. Promise!Inserted(c, o.docs, r)
  <2>1. r.n = o.n /\ r.value = {} /\ r.stored = o.stored
    BY DEF Promise!Result, InsertedSoFar
  <2> HIDE DEF r
  <2>2. r.n = Promise!Cardinality(r.stored)
    BY <2>1, PromiseCounts DEF InsertedSoFar
  <2>3. /\ DOMAIN o.docs = DOMAIN docs \cup {c.ids[i] : i \in r.stored}
        /\ \A id \in DOMAIN docs : o.docs[id] = docs[id]
    BY <2>1 DEF InsertedSoFar
  <2>4. ~c.ordered => r.stored = {i \in DOMAIN c.ids : ~Taken(c, r.stored, i)}
    BY <1>2, <1>4, <2>1
  <2>5. c.ordered => \A i \in DOMAIN c.ids : i \in r.stored <=> \A j \in 1 .. i : ~Taken(c, r.stored, j)
    <3>1. SUFFICES ASSUME c.ordered, NEW i \in 1 .. n
                   PROVE  i \in r.stored <=> \A j \in 1 .. i : ~Taken(c, r.stored, j)
      OBVIOUS
    <3>0. i \in 1 .. i
      OBVIOUS
    <3>2. CASE o.stored = 1 .. n
      <4>1. \A j \in 1 .. i : j \in o.stored
        BY <3>2
      <4> QED BY <1>5, <2>1, <3>2, <4>1
    <3>3. CASE \E e \in 1 .. n : o.stored = 1 .. e - 1 /\ Taken(c, o.stored, e)
      <4>1. PICK e \in 1 .. n : o.stored = 1 .. e - 1 /\ Taken(c, o.stored, e)
        BY <3>3
      <4>2. CASE i < e
        <5>1. \A j \in 1 .. i : j \in o.stored
          BY <4>1, <4>2
        <5> QED BY <1>5, <2>1, <3>0, <5>1
      <4>3. CASE ~(i < e)
        <5>1. e \in 1 .. i /\ i \notin o.stored
          BY <4>1, <4>3
        <5> QED BY <2>1, <4>1, <5>1
      <4> QED BY <4>2, <4>3
    <3> QED BY <1>3, <3>1, <3>2, <3>3
  <2> USE DEF Taken
  <2>6. \A i \in r.stored : ~Taken(c, r.stored, i) /\ o.docs[c.ids[i]] = c.documents[i]
    BY <1>5, <2>1
  <2> QED BY <1>1, <2>1, <2>2, <2>3, <2>4, <2>5, <2>6 DEF Promise!Inserted
<1> QED BY <1>7, <1>8

-----------------------------------------------------------------------------
(* remove(). *)

\* One more statement of a remove.
DeletedOne(o, i, m, bad) ==
  IF Server!Stopped(m, o) THEN {o}
  ELSE IF i \in bad THEN {Server!Outcome(o.docs, o.n, o.writeErrors \cup {i}, {}, {})}
  ELSE {Server!Outcome(Server!Without(o.docs, ids), o.n + Server!Cardinality(ids), o.writeErrors, {}, {}) :
          ids \in Server!Removable(o.docs, m.deletes[i])}

\* "f" are the outcomes after the first so many statements.
DeletedSteps(f, collection, m, bad) ==
  /\ f[0] = {Server!Outcome(collection, 0, {}, {}, {})}
  /\ \A i \in 1 .. Len(m.deletes) : f[i] = UNION {DeletedOne(o, i, m, bad) : o \in f[i - 1]}

\* A remove carries out the statements one after the other.
LEMMA DeleteIs ==
  ASSUME NEW collection, NEW m, Len(m.deletes) \in Nat, NEW bad
  PROVE  \E f : Server!Delete(collection, m, bad) = f[Len(m.deletes)] /\ DeletedSteps(f, collection, m, bad)
<1> DEFINE n == Len(m.deletes)
           Base == {Server!Outcome(collection, 0, {}, {}, {})}
           Step(t, i) == UNION {DeletedOne(o, i, m, bad) : o \in t}
           Is(f, k) == f = [i \in 0 .. k |-> IF i = 0 THEN Base ELSE Step(f[i - 1], i)]
           T == {k \in 0 .. n : \E f : Is(f, k)}
<1>1. Server!Delete(collection, m, bad) = (CHOOSE f : Is(f, n))[n]
  BY DEF Server!Delete, DeletedOne
<1> HIDE DEF Step, Base
<1>2. 0 \in T
  <2> DEFINE f0 == [i \in 0 .. 0 |-> Base]
  <2>1. Is(f0, 0)
    <3>1. \A i \in 0 .. 0 : f0[i] = IF i = 0 THEN Base ELSE Step(f0[i - 1], i)
      OBVIOUS
    <3> QED BY <3>1
  <2> HIDE DEF Is, f0
  <2>2. 0 \in 0 .. n
    OBVIOUS
  <2> QED BY <2>1, <2>2
<1>3. ASSUME NEW k \in 0 .. n - 1, k \in T
      PROVE  k + 1 \in T
  <2>1. PICK f : Is(f, k)
    BY <1>3
  <2> DEFINE g == [i \in 0 .. k + 1 |-> IF i = k + 1 THEN Step(f[k], k + 1) ELSE f[i]]
  <2>2. Is(g, k + 1)
    <3>1. \A i \in 0 .. k + 1 : g[i] = IF i = 0 THEN Base ELSE Step(g[i - 1], i)
      BY <2>1
    <3> QED BY <3>1
  <2> HIDE DEF Is, g
  <2>3. k + 1 \in 0 .. n
    OBVIOUS
  <2> QED BY <2>2, <2>3
<1>4. \E f : Is(f, n)
  <2> HIDE DEF Is
  <2>1. \A k \in 0 .. n : k \in T
    <3> HIDE DEF T
    <3> QED BY <1>2, <1>3, UpTo
  <2> QED BY <2>1
<1>5. Is(CHOOSE f : Is(f, n), n)
  <2> HIDE DEF Is
  <2> QED BY <1>4
<1> DEFINE h == CHOOSE f : Is(f, n)
<1>6. h[0] = Base /\ \A i \in 1 .. n : h[i] = Step(h[i - 1], i)
  <2> HIDE DEF h
  <2>1. Is(h, n)
    BY <1>5 DEF h
  <2>2. n \in Nat
    OBVIOUS
  <2> HIDE DEF n
  <2>3. h[0] = Base
    BY <2>1, <2>2
  <2>4. \A i \in 1 .. n : h[i] = Step(h[i - 1], i)
    BY <2>1, <2>2
  <2> QED BY <2>3, <2>4
<1> QED BY <1>1, <1>6 DEF Step, Base, DeletedSteps

IsRemove(c) ==
  /\ c.command = "remove" /\ c.ordered \in BOOLEAN
  /\ \E n \in Nat : DOMAIN c.statements = 1 .. n
  /\ \A i \in DOMAIN c.statements : IsFilter(c.statements[i].filter) /\ c.statements[i].remove \in {"All", "One"}

\* The server finds what is wanted.
LEMMA MatchingIsFound ==
  ASSUME NEW collection, IsCollection(collection), NEW e, IsFilter(e)
  PROVE  Server!Matching(collection, Written(e)) = {id \in DOMAIN collection : Promise!Wanted(collection[id], e)}
<1>1. \A id \in DOMAIN collection : Server!Matches(collection[id], Written(e)) = Promise!Wanted(collection[id], e)
  BY MatchesIsWanted DEF IsCollection
<1> QED BY <1>1 DEF Server!Matching

\* A remove after the first "i" of its statements: those that failed or were
\* not begun, and which of them removed a document.
RemovedBy(c, o, i, failed, by) ==
  LET gone == DOMAIN docs \ DOMAIN o.docs
  IN  /\ failed \subseteq 1 .. i /\ by \in [gone -> 1 .. i]
      /\ c.ordered => /\ \A a \in failed, b \in 1 .. i : b > a => b \in failed
                      /\ failed # {} => o.writeErrors # {}
      /\ \A id \in gone : by[id] \notin failed /\ id \in Promise!Found(c.statements[by[id]].filter)
      /\ \A k \in (1 .. i) \ failed :
           /\ c.statements[k].remove = "All" => Promise!Found(c.statements[k].filter) \cap DOMAIN o.docs = {}
           /\ c.statements[k].remove # "All" =>
                /\ \A x, y \in gone : by[x] = k /\ by[y] = k => x = y
                /\ (\A id \in gone : by[id] # k) => Promise!Found(c.statements[k].filter) \cap DOMAIN o.docs = {}

\* A remove after the first "i" of its statements, of which "failed" failed: a
\* document that is gone was removed by a statement that looked for it.
RemovedSoFar(c, o, i) ==
  /\ IsCollection(o.docs) /\ DOMAIN o.docs \subseteq DOMAIN docs
  /\ \A id \in DOMAIN o.docs : o.docs[id] = docs[id]
  /\ o.n = Cardinality(DOMAIN docs \ DOMAIN o.docs) /\ o.value = {} /\ o.stored = {}
  /\ \E failed, by : RemovedBy(c, o, i, failed, by)

\* One more statement is carried out, or fails, or is left out.
LEMMA RemoveStep ==
  ASSUME IsCollection(docs), NEW c, IsRemove(c), NEW n \in Nat, DOMAIN c.statements = 1 .. n,
         NEW m, m.ordered = c.ordered, NEW bad,
         NEW i \in 0 .. n - 1, NEW o, RemovedSoFar(c, o, i),
         m.deletes[i + 1] = RemoveStatement(c.statements[i + 1]),
         NEW w \in DeletedOne(o, i + 1, m, bad)
  PROVE  RemovedSoFar(c, w, i + 1)
<1> DEFINE k == i + 1
           st == c.statements[k]
           gone == DOMAIN docs \ DOMAIN o.docs
<1>0. i \in Nat /\ k \in Nat /\ k \in 1 .. n /\ IsFilter(st.filter) /\ st.remove \in {"All", "One"} /\ c.ordered \in BOOLEAN
  BY DEF IsRemove
<1>1. (\A j : j \in 1 .. k <=> j \in 1 .. i \/ j = k) /\ k \notin 1 .. i /\ \A j \in 1 .. i : ~(j > k) /\ k > j
  BY <1>0
<1>2. /\ IsCollection(o.docs) /\ DOMAIN o.docs \subseteq DOMAIN docs
      /\ \A id \in DOMAIN o.docs : o.docs[id] = docs[id]
      /\ o.n = Cardinality(gone) /\ o.value = {} /\ o.stored = {}
  BY DEF RemovedSoFar
<1>3. PICK failed, by : RemovedBy(c, o, i, failed, by)
  BY DEF RemovedSoFar
<1>4. /\ c.ordered /\ o.writeErrors # {} => w = o
      /\ ~(c.ordered /\ o.writeErrors # {}) /\ k \in bad => w = Server!Outcome(o.docs, o.n, o.writeErrors \cup {k}, {}, {})
      /\ ~(c.ordered /\ o.writeErrors # {}) /\ k \notin bad =>
           \E ids \in Server!Removable(o.docs, m.deletes[k]) :
             w = Server!Outcome(Server!Without(o.docs, ids), o.n + Server!Cardinality(ids), o.writeErrors, {}, {})
  BY DEF DeletedOne, Server!Stopped
<1>5. /\ failed \subseteq 1 .. i /\ by \in [gone -> 1 .. i]
      /\ c.ordered => /\ \A a \in failed, b \in 1 .. i : b > a => b \in failed
                      /\ failed # {} => o.writeErrors # {}
      /\ \A id \in gone : by[id] \notin failed /\ id \in Promise!Found(c.statements[by[id]].filter)
      /\ \A j \in (1 .. i) \ failed :
           /\ c.statements[j].remove = "All" => Promise!Found(c.statements[j].filter) \cap DOMAIN o.docs = {}
           /\ c.statements[j].remove # "All" =>
                /\ \A x, y \in gone : by[x] = j /\ by[y] = j => x = y
                /\ (\A id \in gone : by[id] # j) => Promise!Found(c.statements[j].filter) \cap DOMAIN o.docs = {}
  BY <1>3 DEF RemovedBy
<1> HIDE DEF k
\* The statement fails, or is not begun.
<1>6. ASSUME w.docs = o.docs, w.n = o.n, w.value = {}, w.stored = {}, w.writeErrors # {}
      PROVE  RemovedSoFar(c, w, k)
  <2> DEFINE failed1 == failed \cup {k}
  <2>1. failed1 \subseteq 1 .. k /\ by \in [gone -> 1 .. k] /\ \A id \in gone : by[id] \in 1 .. i
    BY <1>1, <1>5
  <2>2. c.ordered => \A a \in failed1, b \in 1 .. k : b > a => b \in failed1
    BY <1>1, <1>5
  <2>3. \A id \in gone : by[id] \notin failed1
    BY <1>1, <1>5, <2>1
  <2>4. (1 .. k) \ failed1 = (1 .. i) \ failed
    BY <1>1
  <2> HIDE DEF failed1
  <2>5. RemovedBy(c, w, k, failed1, by)
    BY <1>5, <1>6, <2>1, <2>2, <2>3, <2>4 DEF RemovedBy
  <2> QED BY <1>2, <1>6, <2>5 DEF RemovedSoFar
<1>7. CASE c.ordered /\ o.writeErrors # {}
  BY <1>2, <1>4, <1>6, <1>7 DEF k
<1>8. CASE ~(c.ordered /\ o.writeErrors # {}) /\ k \in bad
  <2>1. w.docs = o.docs /\ w.n = o.n /\ w.value = {} /\ w.stored = {} /\ w.writeErrors # {}
    <3>1. w = Server!Outcome(o.docs, o.n, o.writeErrors \cup {k}, {}, {})
      BY <1>4, <1>8
    <3>2. o.writeErrors \cup {k} # {}
      OBVIOUS
    <3> QED BY <3>1, <3>2 DEF Server!Outcome
  <2> QED BY <1>6, <2>1 DEF k
<1>9. CASE ~(c.ordered /\ o.writeErrors # {}) /\ k \notin bad
  <2> DEFINE found == {id \in DOMAIN o.docs : id \in Promise!Found(st.filter)}
  <2>1. PICK ids \in Server!Removable(o.docs, m.deletes[k]) :
          w = Server!Outcome(Server!Without(o.docs, ids), o.n + Server!Cardinality(ids), o.writeErrors, {}, {})
    BY <1>4, <1>9
  <2>2. Server!Matching(o.docs, Written(st.filter)) = found
    <3>1. Server!Matching(o.docs, Written(st.filter)) = {id \in DOMAIN o.docs : Promise!Wanted(o.docs[id], st.filter)}
      <4> HIDE DEF st
      <4> QED BY <1>0, <1>2, MatchingIsFound
    <3>2. \A id \in DOMAIN o.docs : Promise!Wanted(o.docs[id], st.filter) <=> id \in Promise!Found(st.filter)
      BY <1>2 DEF Promise!Found
    <3> HIDE DEF st
    <3> QED BY <3>1, <3>2
  <2>3. m.deletes[k].q = Written(st.filter) /\ m.deletes[k].limit = IF st.remove = "One" THEN 1 ELSE 0
    BY DEF RemoveStatement, k
  <2> HIDE DEF st, found
  <2>4. /\ ids \subseteq found
        /\ st.remove = "All" => ids = found
        /\ st.remove # "All" => (ids = {} /\ found = {}) \/ \E id \in found : ids = {id}
    BY <1>0, <2>1, <2>2, <2>3 DEF Server!Removable
  <2>5. found \subseteq DOMAIN o.docs /\ found \subseteq Promise!Found(st.filter)
    BY DEF found
  <2> DEFINE gone1 == DOMAIN docs \ DOMAIN w.docs
             by1 == [id \in gone \cup ids |-> IF id \in ids THEN k ELSE by[id]]
  <2>6. /\ DOMAIN w.docs = DOMAIN o.docs \ ids /\ \A id \in DOMAIN w.docs : w.docs[id] = o.docs[id]
        /\ w.n = o.n + Cardinality(ids) /\ w.value = {} /\ w.stored = {} /\ w.writeErrors = o.writeErrors
    <3>1. w.docs = Server!Without(o.docs, ids) /\ w.n = o.n + Server!Cardinality(ids)
          /\ w.value = {} /\ w.stored = {} /\ w.writeErrors = o.writeErrors
      BY <2>1 DEF Server!Outcome
    <3> QED BY <3>1, ServerCounts DEF Server!Without
  <2>7. gone1 = gone \cup ids /\ gone \cap ids = {}
    BY <1>2, <2>4, <2>5, <2>6
  <2> HIDE DEF gone, gone1
  <2>8. w.n = Cardinality(gone1)
    <3>1. IsFiniteSet(DOMAIN docs)
      BY DEF IsCollection
    <3>2. gone \subseteq DOMAIN docs /\ ids \subseteq DOMAIN docs
      BY <1>2, <2>4, <2>5 DEF gone
    <3>3. IsFiniteSet(gone) /\ IsFiniteSet(ids)
      BY <3>1, <3>2, FS_Subset
    <3>4. Cardinality(gone \cup ids) = Cardinality(gone) + Cardinality(ids) - Cardinality(gone \cap ids)
      BY <3>3, FS_Union
    <3>5. Cardinality({}) = 0 /\ Cardinality(gone) \in Nat /\ Cardinality(ids) \in Nat
      BY <3>3, FS_EmptySet, FS_CardinalityType
    <3>6. Cardinality(gone1) = Cardinality(gone) + Cardinality(ids) - 0
      BY <2>7, <3>4, <3>5
    <3>7. w.n = Cardinality(gone) + Cardinality(ids)
      BY <1>2, <2>6
    <3> QED BY <3>5, <3>6, <3>7
  <2>9. IsCollection(w.docs)
    <3>1. IsFiniteSet(DOMAIN w.docs)
      BY <1>2, <2>6, FS_Subset DEF IsCollection
    <3> QED BY <1>2, <2>6, <3>1 DEF IsCollection
  <2>10. RemovedBy(c, w, k, failed, by1)
    <3>1. \A id \in ids : by1[id] = k
      BY <2>7
    <3>2. \A id \in gone : id \notin ids /\ by1[id] = by[id] /\ by[id] \in 1 .. i
      BY <1>5, <2>7
    <3>3. by1 \in [gone1 -> 1 .. k]
      BY <1>1, <2>7, <3>1, <3>2
    <3> HIDE DEF by1
    <3>4. c.ordered => /\ \A a \in failed, b \in 1 .. k : b > a => b \in failed
                       /\ failed # {} => w.writeErrors # {}
      <4>1. c.ordered => failed = {}
        BY <1>5, <1>9
      <4> QED BY <4>1
    <3>5. \A id \in gone1 : by1[id] \notin failed /\ id \in Promise!Found(c.statements[by1[id]].filter)
      <4>1. \A id \in ids : k \notin failed /\ id \in Promise!Found(c.statements[k].filter)
        BY <1>1, <1>5, <2>4, <2>5 DEF st
      <4> QED BY <1>5, <2>7, <3>1, <3>2, <4>1
    <3>6. ASSUME NEW j \in (1 .. k) \ failed
          PROVE  /\ c.statements[j].remove = "All" => Promise!Found(c.statements[j].filter) \cap DOMAIN w.docs = {}
                 /\ c.statements[j].remove # "All" =>
                      /\ \A x, y \in gone1 : by1[x] = j /\ by1[y] = j => x = y
                      /\ (\A id \in gone1 : by1[id] # j) => Promise!Found(c.statements[j].filter) \cap DOMAIN w.docs = {}
      <4>1. CASE j = k
        <5>1. found \ ids = Promise!Found(st.filter) \cap DOMAIN w.docs
          BY <2>6 DEF found
        <5>2. \A x \in gone1 : by1[x] = k <=> x \in ids
          BY <1>1, <2>7, <3>1, <3>2
        <5>3. st.remove # "All" => /\ \A x, y \in ids : x = y
                                   /\ ids = {} => found \ ids = {}
          BY <2>4
        <5>4. st.remove = "All" => found \ ids = {}
          BY <2>4
        <5>5. ids \subseteq gone1
          BY <2>7
        <5> QED BY <4>1, <5>1, <5>2, <5>3, <5>4, <5>5 DEF st
      <4>2. CASE j # k
        <5>1. j \in (1 .. i) \ failed
          BY <1>1, <4>2
        <5>2. DOMAIN w.docs \subseteq DOMAIN o.docs
          BY <2>6
        <5>3. \A x \in gone1 : by1[x] = j => x \in gone /\ by[x] = j
          BY <2>7, <3>1, <3>2, <4>2
        <5>4. gone \subseteq gone1 /\ \A x \in gone : by1[x] = by[x]
          BY <2>7, <3>2
        <5>5. /\ c.statements[j].remove = "All" => Promise!Found(c.statements[j].filter) \cap DOMAIN o.docs = {}
              /\ c.statements[j].remove # "All" =>
                   /\ \A x, y \in gone : by[x] = j /\ by[y] = j => x = y
                   /\ (\A id \in gone : by[id] # j) => Promise!Found(c.statements[j].filter) \cap DOMAIN o.docs = {}
          BY <1>5, <5>1
        <5> QED BY <5>2, <5>3, <5>4, <5>5
      <4> QED BY <4>1, <4>2
    <3>7. failed \subseteq 1 .. k
      BY <1>1, <1>5
    <3> QED BY <3>3, <3>4, <3>5, <3>6, <3>7 DEF RemovedBy, gone1
  <2>11. DOMAIN w.docs \subseteq DOMAIN docs /\ \A id \in DOMAIN w.docs : w.docs[id] = docs[id]
    BY <1>2, <2>6
  <2>12. RemovedSoFar(c, w, k)
    BY <2>6, <2>8, <2>9, <2>10, <2>11 DEF RemovedSoFar, gone1
  <2> QED BY <2>12 DEF k
<1> QED BY <1>0, <1>7, <1>8, <1>9

\* A remove does what is promised.
LEMMA RemoveMeans ==
  ASSUME IsCollection(docs), NEW c, IsRemove(c), NEW bad, NEW o \in Server!Delete(docs, Remover(c), bad)
  PROVE  IsCollection(o.docs) /\ Promise!Removed(c, o.docs, Promise!Result(o.n, o.value, o.last, o.stored))
<1>1. PICK n \in Nat : DOMAIN c.statements = 1 .. n
  BY DEF IsRemove
<1> DEFINE m == Remover(c)
<1>2. m.ordered = c.ordered /\ \A i \in 1 .. n : m.deletes[i] = RemoveStatement(c.statements[i])
  BY <1>1 DEF Remover
<1>3. Len(m.deletes) = n
  BY <1>1 DEF Remover
<1> HIDE DEF m
<1>4. PICK f : /\ Server!Delete(docs, m, bad) = f[n] /\ f[0] = {Server!Outcome(docs, 0, {}, {}, {})}
               /\ \A i \in 1 .. n : f[i] = UNION {DeletedOne(x, i, m, bad) : x \in f[i - 1]}
  <2>1. PICK f : Server!Delete(docs, m, bad) = f[Len(m.deletes)] /\ DeletedSteps(f, docs, m, bad)
    BY <1>3, DeleteIs
  <2> QED BY <1>3, <2>1 DEF DeletedSteps
<1> DEFINE T == {i \in 0 .. n : \A x \in f[i] : RemovedSoFar(c, x, i)}
<1>5. 0 \in T
  <2> DEFINE x == Server!Outcome(docs, 0, {}, {}, {})
  <2>1. x.docs = docs /\ x.n = 0 /\ x.value = {} /\ x.stored = {}
    BY DEF Server!Outcome
  <2> HIDE DEF x
  <2>2. DOMAIN docs \ DOMAIN x.docs = {} /\ Cardinality({}) = 0 /\ 1 .. 0 = {}
    BY <2>1, FS_EmptySet
  <2> DEFINE by == [id \in {} |-> 0]
  <2>3. RemovedBy(c, x, 0, {}, by)
    <3>1. by \in [{} -> {}]
      OBVIOUS
    <3> HIDE DEF by
    <3> QED BY <2>2, <3>1 DEF RemovedBy
  <2>4. RemovedSoFar(c, x, 0)
    <3> HIDE DEF by
    <3> QED BY <2>1, <2>2, <2>3 DEF RemovedSoFar
  <2> QED BY <1>4, <2>4 DEF x
<1>6. ASSUME NEW i \in 0 .. n - 1, i \in T PROVE i + 1 \in T
  <2>1. i + 1 \in 1 .. n /\ (i + 1) - 1 = i /\ i + 1 \in 0 .. n
    OBVIOUS
  <2>2. f[i + 1] = UNION {DeletedOne(x, i + 1, m, bad) : x \in f[i]}
    BY <1>4, <2>1
  <2>3. ASSUME NEW x \in f[i], NEW w \in DeletedOne(x, i + 1, m, bad)
        PROVE  RemovedSoFar(c, w, i + 1)
    <3>1. RemovedSoFar(c, x, i)
      BY <1>6
    <3>2. m.deletes[i + 1] = RemoveStatement(c.statements[i + 1])
      BY <1>2, <2>1
    <3> QED BY <1>1, <1>2, <3>1, <3>2, RemoveStep
  <2> QED BY <2>1, <2>2, <2>3
<1>7. RemovedSoFar(c, o, n)
  <2>1. n \in 0 .. n
    OBVIOUS
  <2>2. \A i \in 0 .. n : i \in T
    <3> HIDE DEF T
    <3> QED BY <1>5, <1>6, UpTo
  <2> QED BY <1>4, <2>1, <2>2 DEF m
<1> DEFINE r == Promise!Result(o.n, o.value, o.last, o.stored)
           gone == DOMAIN docs \ DOMAIN o.docs
<1>8. r.n = o.n /\ r.value = {} /\ r.stored = {}
  BY <1>7 DEF Promise!Result, RemovedSoFar
<1> HIDE DEF r
<1>9. r.n = Promise!Cardinality(gone)
  BY <1>7, <1>8, PromiseCounts DEF RemovedSoFar
<1>10. PICK failed, by : RemovedBy(c, o, n, failed, by)
  BY <1>7 DEF RemovedSoFar
<1>11. \E failed1 \in SUBSET DOMAIN c.statements, by1 \in [gone -> DOMAIN c.statements] :
         /\ c.ordered => \A i \in failed1, j \in DOMAIN c.statements : j > i => j \in failed1
         /\ \A id \in gone : by1[id] \notin failed1 /\ id \in Promise!Found(c.statements[by1[id]].filter)
         /\ \A i \in DOMAIN c.statements \ failed1 :
              IF c.statements[i].remove = "All"
                THEN Promise!Found(c.statements[i].filter) \cap DOMAIN o.docs = {}
                ELSE /\ \A x, y \in gone : by1[x] = i /\ by1[y] = i => x = y
                     /\ (\A id \in gone : by1[id] # i) => Promise!Found(c.statements[i].filter) \cap DOMAIN o.docs = {}
  <2>1. failed \in SUBSET DOMAIN c.statements /\ by \in [gone -> DOMAIN c.statements]
    BY <1>1, <1>10 DEF RemovedBy
  <2> USE <2>1
  <2> WITNESS failed \in SUBSET DOMAIN c.statements, by \in [gone -> DOMAIN c.statements]
  <2> QED BY <1>1, <1>10 DEF RemovedBy
<1>12. IsCollection(o.docs) /\ DOMAIN o.docs \subseteq DOMAIN docs /\ \A id \in DOMAIN o.docs : o.docs[id] = docs[id]
  BY <1>7 DEF RemovedSoFar
<1>13. Promise!Removed(c, o.docs, r)
  BY <1>8, <1>9, <1>11, <1>12 DEF Promise!Removed
<1> QED BY <1>12, <1>13 DEF r

-----------------------------------------------------------------------------
(* countDocuments(). *)

\* So does a count.
LEMMA CountMeans ==
  ASSUME IsCollection(docs), NEW c, IsFilter(c.filter), c.limit \in Nat, c.skip \in Nat,
         NEW o \in Server!Count(docs, Counter(c))
  PROVE  LET r == Promise!Result(o.n, o.value, o.last, o.stored)
             all == Promise!Cardinality(Promise!Found(c.filter))
         IN  /\ o.docs = docs
             /\ r.n = IF all <= c.skip THEN 0
                      ELSE IF c.limit = 0 \/ all - c.skip <= c.limit THEN all - c.skip
                      ELSE c.limit
             /\ r.value = {} /\ r.stored = {}
<1> DEFINE found == Promise!Found(c.filter)
           all == Cardinality(found)
           rest == Server!Max({0, all - c.skip})
           n == IF c.limit = 0 THEN rest ELSE Server!Min({c.limit, rest})
<1>1. Server!Matching(docs, Written(c.filter)) = found
  BY MatchingIsFound DEF Promise!Found
<1>2. found \subseteq DOMAIN docs
  BY DEF Promise!Found
<1> HIDE DEF found
<1>3. all \in Nat
  BY <1>2, FS_Subset, FS_CardinalityType DEF IsCollection
<1>4. o = Server!Outcome(docs, n, {}, {}, {})
  <2>1. /\ Counter(c).query = Written(c.filter) /\ Counter(c).limit = c.limit /\ Counter(c).skip = c.skip
    BY DEF Counter
  <2>2. Server!Cardinality(Server!Matching(docs, Counter(c).query)) = all
    BY <1>1, <2>1, ServerCounts
  <2> HIDE DEF all
  <2> QED BY <2>1, <2>2 DEF Server!Count
<1> HIDE DEF all
<1>5. n = IF all <= c.skip THEN 0
          ELSE IF c.limit = 0 \/ all - c.skip <= c.limit THEN all - c.skip
          ELSE c.limit
  <2> DEFINE d == all - c.skip
  <2>1. d \in Int /\ (all <= c.skip <=> d <= 0)
    BY <1>3
  <2> HIDE DEF d
  <2>2. Server!Max({0, d}) = IF 0 >= d THEN 0 ELSE d
    <3>1. 0 \in Int
      OBVIOUS
    <3> QED BY <2>1, <3>1, MinMaxIs
  <2>3. rest = Server!Max({0, d})
    BY DEF d
  <2> HIDE DEF rest
  <2>4. rest \in Nat /\ rest = IF d <= 0 THEN 0 ELSE d
    BY <2>1, <2>2, <2>3
  <2>5. Server!Min({c.limit, rest}) = IF c.limit <= rest THEN c.limit ELSE rest
    BY <2>4, MinMaxIs
  <2> DEFINE lim == c.limit
  <2>6. lim \in Nat /\ n = IF lim = 0 THEN rest ELSE IF lim <= rest THEN lim ELSE rest
    BY <2>5
  <2> HIDE DEF n, lim
  <2>7. n = IF d <= 0 THEN 0 ELSE IF lim = 0 \/ d <= lim THEN d ELSE lim
    BY <2>1, <2>4, <2>6
  <2> QED BY <2>1, <2>7 DEF d, lim
<1> HIDE DEF n
<1>6. o.docs = docs /\ o.n = n /\ o.value = {} /\ o.stored = {}
  BY <1>4 DEF Server!Outcome
<1>7. Promise!Cardinality(found) = all
  BY PromiseCounts DEF all
<1> QED BY <1>5, <1>6, <1>7 DEF found, Promise!Result

-----------------------------------------------------------------------------
(* findAndRemoveOne(), findAndReplaceOne() and findAndUpdateOne(). *)

IsModify(c) ==
  /\ c.command \in {"findAndRemoveOne", "findAndReplaceOne", "findAndUpdateOne"}
  /\ IsSearch(c.filter)
  /\ \E n \in Nat : DOMAIN c.sort = 1 .. n
  /\ \A i \in DOMAIN c.sort : c.sort[i][1] \in Fields \ (ArrayFields \cup DateFields) /\ c.sort[i][2] \in DOMAIN SortOrder
  /\ c.command # "findAndRemoveOne" => c.returnNew \in BOOLEAN /\ c.upsert \in BOOLEAN
  /\ c.command = "findAndReplaceOne" => IsDocument(c.replace)
  /\ c.command = "findAndUpdateOne" => IsUpdate(c.update)

\* Of two documents of which one is above the other in a sort, the server takes
\* that before.
LEMMA AbovePrecedes ==
  ASSUME NEW c, IsModify(c), NEW d, IsDocument(d), NEW e, IsDocument(e), Promise!Above(d, e, c.sort)
  PROVE  Server!Precedes(d, e, SerializeSort(c.sort))
<1> DEFINE s == SerializeSort(c.sort)
<1>1. PICK n \in Nat : DOMAIN c.sort = 1 .. n
  BY DEF IsModify
<1>2. DOMAIN s = 1 .. n /\ \A i \in 1 .. n : s[i][1] = c.sort[i][1] /\ s[i][2] = SortOrder[c.sort[i][2]]
  BY <1>1 DEF SerializeSort
<1>3. PICK i \in 1 .. n :
        /\ Promise!Has(d, c.sort[i][1]) /\ Promise!Has(e, c.sort[i][1])
        /\ IF c.sort[i][2] = "Ascending" THEN d[c.sort[i][1]] < e[c.sort[i][1]] ELSE d[c.sort[i][1]] > e[c.sort[i][1]]
        /\ \A j \in 1 .. i - 1 : /\ Promise!Has(d, c.sort[j][1]) = Promise!Has(e, c.sort[j][1])
                                 /\ Promise!Has(d, c.sort[j][1]) => d[c.sort[j][1]] = e[c.sort[j][1]]
  BY <1>1 DEF Promise!Above
<1>4. ASSUME NEW x, IsDocument(x), NEW j \in 1 .. n, c.sort[j][1] \in DOMAIN x PROVE x[c.sort[j][1]] \in Int
  BY <1>1, <1>4 DEF IsModify, IsDocument, Holds
<1>5. ASSUME NEW j \in 1 .. i - 1
      PROVE  ~Server!Lower(d, e, s[j][1]) /\ ~Server!Lower(e, d, s[j][1])
  <2> DEFINE f == c.sort[j][1]
  <2>1. j \in 1 .. n
    OBVIOUS
  <2>2. s[j][1] = f
    BY <1>2, <2>1
  <2>3. (f \in DOMAIN d <=> f \in DOMAIN e) /\ (f \in DOMAIN d => d[f] = e[f])
    BY <1>3 DEF Promise!Has
  <2>4. f \in DOMAIN d => d[f] \in Int
    BY <1>4, <2>1
  <2>5. f \in DOMAIN d => ~(d[f] < e[f]) /\ ~(e[f] < d[f])
    BY <2>3, <2>4
  <2> HIDE DEF f, s
  <2> QED BY <2>2, <2>3, <2>5 DEF Server!Lower, Server!Has
<1>6. IF s[i][2] = 1 THEN Server!Lower(d, e, s[i][1]) ELSE Server!Lower(e, d, s[i][1])
  <2> DEFINE f == c.sort[i][1]
  <2>1. s[i][1] = f /\ s[i][2] = SortOrder[c.sort[i][2]]
    BY <1>2
  <2>2. c.sort[i][2] \in {"Ascending", "Descending"}
    BY <1>1 DEF IsModify, SortOrder
  <2>3. SortOrder["Ascending"] = 1 /\ SortOrder["Descending"] = -1
    BY DEF SortOrder
  <2>4. f \in DOMAIN d /\ f \in DOMAIN e /\ d[f] \in Int /\ e[f] \in Int
    BY <1>3, <1>4 DEF Promise!Has
  <2>5. IF c.sort[i][2] = "Ascending" THEN d[f] < e[f] ELSE d[f] > e[f]
    BY <1>3
  <2> HIDE DEF f, s
  <2>6. CASE c.sort[i][2] = "Ascending"
    BY <2>1, <2>3, <2>4, <2>5, <2>6 DEF Server!Lower, Server!Has
  <2>7. CASE c.sort[i][2] = "Descending"
    BY <2>1, <2>3, <2>4, <2>5, <2>7 DEF Server!Lower, Server!Has
  <2> QED BY <2>2, <2>6, <2>7
<1> HIDE DEF s
<1>7. Server!Precedes(d, e, s)
  BY <1>2, <1>5, <1>6 DEF Server!Precedes
<1> QED BY <1>7 DEF s

\* An upsert begins with the document its filter asks for.
LEMMA FromFilterMeans ==
  ASSUME NEW e, IsSearch(e)
  PROVE  Server!FromFilter(Written(e)) = Promise!Asked(e) /\ IsDocument(Promise!Asked(e))
<1> DEFINE n == Len(e)
           W == Written(e)
           root == W[n]
           G == {g \in DOMAIN root \ Server!Logic : "$eq" \in DOMAIN W[root[g]]}
           whole == e[n]
           equal == whole.op = "Access" /\ e[whole.arg].op = "Eq"
<1>1. /\ n \in Nat \ {0} /\ DOMAIN e = 1 .. n /\ whole.op \in FilterOps
      /\ whole.op = "Access" => whole.arg \in 1 .. n - 1 /\ e[whole.arg].op \in ConditionOps /\ whole.field \in Fields
  BY DEF IsSearch, IsFilter, WellFormed
<1>2. Len(W) = n /\ DOMAIN W = 1 .. n /\ \A i \in 1 .. n : W[i] = Part(e[i])
  BY <1>1 DEF Written
<1>3. Server!FromFilter(W) = [f \in G |-> W[root[f]]["$eq"]]
  BY <1>2 DEF Server!FromFilter
<1>4. Promise!Asked(e) = [f \in IF equal THEN {whole.field} ELSE {} |-> e[whole.arg].arg]
  BY DEF Promise!Asked
<1> HIDE DEF n, W
<1>5. root = Part(whole)
  BY <1>1, <1>2
<1>6. CASE equal
  <2> DEFINE place == whole.arg
             field == whole.field
  <2>1. root = Doc(field, place)
    BY <1>5, <1>6 DEF Part, Access
  <2>2. W[place] = Doc("$eq", e[place].arg)
    <3>1. place \in 1 .. n
      BY <1>1, <1>6
    <3> QED BY <1>2, <1>6, <3>1 DEF Part, Eq
  <2>3. field \in Fields /\ field \notin Server!Logic
    BY <1>1, <1>6, TypesAssumption
  <2>4. DOMAIN root = {field} /\ root[field] = place /\ "$eq" \in DOMAIN W[place] /\ W[place]["$eq"] = e[place].arg
    BY <2>1, <2>2 DEF Doc
  <2>5. Holds(field, e[place].arg)
    <3>1. n \in DOMAIN e
      BY <1>1
    <3> QED BY <1>6, <3>1 DEF IsSearch
  <2> HIDE DEF root, place, field
  <2>6. G = {field}
    BY <2>3, <2>4
  <2>7. Server!FromFilter(W) = [f \in {field} |-> e[place].arg]
    BY <1>3, <2>4, <2>6
  <2>8. Promise!Asked(e) = [f \in {field} |-> e[place].arg]
    BY <1>4, <1>6 DEF place, field
  <2>9. IsDocument([f \in {field} |-> e[place].arg])
    BY <2>3, <2>5 DEF IsDocument
  <2> QED BY <2>7, <2>8, <2>9 DEF W
<1>7. CASE ~equal
  <2>1. G = {}
    <3>1. CASE whole.op = "Access"
      <4> DEFINE place == whole.arg
                 field == whole.field
      <4>1. root = Doc(field, place)
        BY <1>5, <3>1 DEF Part, Access
      <4>2. e[place].op \in ConditionOps \ {"Eq"} /\ place \in 1 .. n
        BY <1>1, <1>7, <3>1
      <4>3. W[place] = Doc(Key[e[place].op], Argument(e[place]))
        <5>1. W[place] = Part(e[place])
          BY <1>2, <4>2
        <5> QED BY <4>2, <5>1, PartIs
      <4>4. Key[e[place].op] # "$eq"
        BY <4>2 DEF Key, ConditionOps
      <4>5. DOMAIN root = {field} /\ root[field] = place /\ "$eq" \notin DOMAIN W[place]
        BY <4>1, <4>3, <4>4 DEF Doc
      <4> HIDE DEF root, place, field
      <4> QED BY <4>5
    <3>2. CASE whole.op = "Any"
      <4>1. DOMAIN root = {}
        BY <1>5, <3>2 DEF Part, AnyFilter
      <4> HIDE DEF root
      <4> QED BY <4>1
    <3>3. CASE whole.op \in {"And", "Or", "Nor"}
      <4>1. DOMAIN root \subseteq Server!Logic
        BY <1>5, <3>3 DEF Part, And, Or, Nor, Doc, Server!Logic
      <4> HIDE DEF root
      <4> QED BY <4>1
    <3> QED BY <1>1, <3>1, <3>2, <3>3 DEF FilterOps
  <2>2. Server!FromFilter(W) = [f \in {} |-> 0]
    <3> HIDE DEF G
    <3> QED BY <1>3, <2>1
  <2>3. Promise!Asked(e) = [f \in {} |-> 0]
    BY <1>4, <1>7
  <2>4. IsDocument([f \in {} |-> 0])
    BY DEF IsDocument
  <2> QED BY <2>2, <2>3, <2>4 DEF W
<1> QED BY <1>6, <1>7

\* The document that a findAndModify makes of another.
Made(c, d, inserting) ==
  IF c.command = "findAndReplaceOne" THEN c.replace
  ELSE Server!Updated(d, WrittenUpdate(c.update), inserting)

\* The document made is one of the program's types, and what the update promises.
LEMMA MadeIs ==
  ASSUME NEW c, IsModify(c), c.command # "findAndRemoveOne", NEW d, IsDocument(d), NEW inserting \in BOOLEAN
  PROVE  /\ IsDocument(Made(c, d, inserting))
         /\ c.command = "findAndUpdateOne" => Promise!Changed(d, Made(c, d, inserting), c.update, inserting)
<1>1. CASE c.command = "findAndReplaceOne"
  BY <1>1 DEF IsModify, Made
<1>2. CASE c.command = "findAndUpdateOne"
  <2>1. IsUpdate(c.update)
    BY <1>2 DEF IsModify
  <2> QED BY <1>2, <2>1, UpdateMeans DEF Made
<1> QED BY <1>1, <1>2 DEF IsModify

\* The members of the command.
LEMMA CommandIs ==
  ASSUME NEW c, IsModify(c)
  PROVE  LET m == FindAndModify(c)
         IN  /\ m.query = Written(c.filter) /\ m.sort = SerializeSort(c.sort)
             /\ m.remove \in BOOLEAN /\ (m.remove <=> c.command = "findAndRemoveOne")
             /\ c.command = "findAndRemoveOne" => m.upsert = FALSE
             /\ c.command # "findAndRemoveOne" =>
                  /\ m.new = c.returnNew /\ m.upsert = c.upsert
                  /\ \A d, inserting :
                       (IF DOMAIN m.update \subseteq Server!UpdateKeys /\ DOMAIN m.update # {}
                          THEN Server!Updated(d, m.update, inserting) ELSE m.update) = Made(c, d, inserting)
<1> DEFINE m == FindAndModify(c)
<1>1. /\ m.query = Written(c.filter) /\ m.sort = SerializeSort(c.sort)
      /\ m.remove \in BOOLEAN /\ (m.remove <=> c.command = "findAndRemoveOne")
      /\ c.command = "findAndRemoveOne" => m.upsert = FALSE
  BY DEF FindAndModify
<1>2. ASSUME c.command # "findAndRemoveOne"
      PROVE  m.new = c.returnNew /\ m.upsert = c.upsert
  <2>1. c.returnNew \in BOOLEAN /\ c.upsert \in BOOLEAN
    BY <1>2 DEF IsModify
  <2> QED BY <1>2, <2>1 DEF FindAndModify
<1>3. ASSUME c.command # "findAndRemoveOne", NEW d, NEW inserting
      PROVE  (IF DOMAIN m.update \subseteq Server!UpdateKeys /\ DOMAIN m.update # {}
                THEN Server!Updated(d, m.update, inserting) ELSE m.update) = Made(c, d, inserting)
  <2>1. CASE c.command = "findAndReplaceOne"
    <3>1. m.update = c.replace
      BY <2>1 DEF FindAndModify
    <3>2. DOMAIN c.replace \subseteq Fields
      BY <2>1 DEF IsModify, IsDocument
    <3>3. ~(DOMAIN m.update \subseteq Server!UpdateKeys /\ DOMAIN m.update # {})
      BY <3>1, <3>2, TypesAssumption
    <3> HIDE DEF m
    <3> QED BY <2>1, <3>1, <3>3 DEF Made
  <2>2. CASE c.command = "findAndUpdateOne"
    <3>1. m.update = WrittenUpdate(c.update)
      BY <2>2 DEF FindAndModify
    <3>2. DOMAIN WrittenUpdate(c.update) = {UpdateKey(c.update.op)} /\ UpdateKey(c.update.op) \in Server!UpdateKeys
      <4>1. IsUpdate(c.update)
        BY <2>2 DEF IsModify
      <4> QED BY <4>1, WrittenUpdateIs
    <3>3. DOMAIN m.update \subseteq Server!UpdateKeys /\ DOMAIN m.update # {}
      BY <3>1, <3>2
    <3> HIDE DEF m
    <3> QED BY <2>2, <3>1, <3>3 DEF Made
  <2> QED BY <1>3, <2>1, <2>2 DEF IsModify
<1> HIDE DEF m
<1> QED BY <1>1, <1>2, <1>3 DEF m

\* What the server makes of the command.
Modifications(c) ==
  LET found == Promise!Found(c.filter)
      doc(id) == Made(c, docs[id], FALSE)
      new == Made(c, Promise!Asked(c.filter), TRUE)
      removing == c.command = "findAndRemoveOne"
  IN  IF found # {}
        THEN {IF removing THEN Server!Modification(Server!Without(docs, {id}),
                                                   {docs[id]}, Server!LastError(FALSE, {}))
              ELSE Server!Modification(Server!With(docs, id, doc(id)),
                                  {IF c.returnNew THEN doc(id) ELSE docs[id]}, Server!LastError(TRUE, {})) :
                id \in Server!First(docs, found, SerializeSort(c.sort))}
      ELSE IF ~removing /\ c.upsert
        THEN {Server!Modification(Server!With(docs, id, new), {x \in {new} : c.returnNew}, Server!LastError(FALSE, {id})) : id \in Fresh}
      ELSE {Server!Modification(docs, {}, Server!LastError(FALSE, {}))}

\* The server makes of the command what Modifications() says.
LEMMA FindAndModifyIs ==
  ASSUME IsCollection(docs), NEW c, IsModify(c)
  PROVE  Server!FindAndModify(docs, FindAndModify(c), Fresh) = Modifications(c)
<1> DEFINE m == FindAndModify(c)
           new(d, inserting) == IF DOMAIN m.update \subseteq Server!UpdateKeys /\ DOMAIN m.update # {}
                                  THEN Server!Updated(d, m.update, inserting) ELSE m.update
           found == Promise!Found(c.filter)
           removing == c.command = "findAndRemoveOne"
           U == Server!FromFilter(m.query)
           F == Server!First(docs, found, SerializeSort(c.sort))
<1>1. Server!Matching(docs, m.query) = found
  <2>1. IsFilter(c.filter)
    BY DEF IsModify, IsSearch
  <2>2. Server!Matching(docs, Written(c.filter)) = {id \in DOMAIN docs : Promise!Wanted(docs[id], c.filter)}
    BY <2>1, MatchingIsFound
  <2> QED BY <2>2, CommandIs DEF Promise!Found
<1>2. U = Promise!Asked(c.filter)
  BY CommandIs, FromFilterMeans DEF IsModify
<1>3. m.remove \in BOOLEAN /\ (m.remove <=> removing) /\ m.sort = SerializeSort(c.sort)
  BY CommandIs
<1>4. ~removing => m.new = c.returnNew /\ m.upsert = c.upsert /\ \A d, inserting : new(d, inserting) = Made(c, d, inserting)
  BY CommandIs
<1>5. removing => m.upsert = FALSE
  BY CommandIs
<1>6. Server!FindAndModify(docs, m, Fresh) =
        IF found # {}
          THEN {IF m.remove THEN Server!Modification(Server!Without(docs, {id}),
                                                     {docs[id]}, Server!LastError(FALSE, {}))
                ELSE Server!Modification(Server!With(docs, id, new(docs[id], FALSE)),
                                    {IF m.new THEN new(docs[id], FALSE) ELSE docs[id]}, Server!LastError(TRUE, {})) : id \in F}
        ELSE IF m.upsert
          THEN {Server!Modification(Server!With(docs, id, new(U, TRUE)),
                                    {d \in {new(U, TRUE)} : m.new}, Server!LastError(FALSE, {id})) : id \in Fresh}
        ELSE {Server!Modification(docs, {}, Server!LastError(FALSE, {}))}
  <2> HIDE DEF m, found
  <2> QED BY <1>1, <1>3 DEF Server!FindAndModify
<1> HIDE DEF m, new, found, removing, U, F
<1>7. Modifications(c) =
        IF found # {}
          THEN {IF removing THEN Server!Modification(Server!Without(docs, {id}),
                                                     {docs[id]}, Server!LastError(FALSE, {}))
                ELSE Server!Modification(Server!With(docs, id, Made(c, docs[id], FALSE)),
                                    {IF c.returnNew THEN Made(c, docs[id], FALSE) ELSE docs[id]}, Server!LastError(TRUE, {})) : id \in F}
        ELSE IF ~removing /\ c.upsert
          THEN {Server!Modification(Server!With(docs, id, Made(c, Promise!Asked(c.filter), TRUE)),
                               {x \in {Made(c, Promise!Asked(c.filter), TRUE)} : c.returnNew}, Server!LastError(FALSE, {id})) : id \in Fresh}
        ELSE {Server!Modification(docs, {}, Server!LastError(FALSE, {}))}
  BY DEF Modifications, found, removing, F
<1>8. Server!FindAndModify(docs, m, Fresh) = Modifications(c)
  <2>1. CASE removing /\ found # {}
    <3>1. Server!FindAndModify(docs, m, Fresh) = {Server!Modification(Server!Without(docs, {id}),
                                                                      {docs[id]}, Server!LastError(FALSE, {})) : id \in F}
      BY <1>3, <1>6, <2>1
    <3>2. Modifications(c) = {Server!Modification(Server!Without(docs, {id}),
                                                  {docs[id]}, Server!LastError(FALSE, {})) : id \in F}
      BY <1>7, <2>1
    <3> QED BY <3>1, <3>2
  <2>2. CASE ~removing /\ found # {}
    <3>1. \A id : new(docs[id], FALSE) = Made(c, docs[id], FALSE)
      BY <1>4, <2>2
    <3>2. Server!FindAndModify(docs, m, Fresh) =
            {Server!Modification(Server!With(docs, id, new(docs[id], FALSE)),
                            {IF m.new THEN new(docs[id], FALSE) ELSE docs[id]}, Server!LastError(TRUE, {})) : id \in F}
      BY <1>3, <1>6, <2>2
    <3>3. Modifications(c) =
            {Server!Modification(Server!With(docs, id, Made(c, docs[id], FALSE)),
                            {IF c.returnNew THEN Made(c, docs[id], FALSE) ELSE docs[id]}, Server!LastError(TRUE, {})) : id \in F}
      BY <1>7, <2>2
    <3> DEFINE one(id) == Server!Modification(Server!With(docs, id, new(docs[id], FALSE)),
                                         {IF m.new THEN new(docs[id], FALSE) ELSE docs[id]}, Server!LastError(TRUE, {}))
               other(id) == Server!Modification(Server!With(docs, id, Made(c, docs[id], FALSE)),
                                           {IF c.returnNew THEN Made(c, docs[id], FALSE) ELSE docs[id]}, Server!LastError(TRUE, {}))
    <3>4. ASSUME NEW id PROVE one(id) = other(id)
      <4>1. new(docs[id], FALSE) = Made(c, docs[id], FALSE) /\ m.new = c.returnNew
        BY <1>4, <2>2, <3>1
      <4> QED BY <4>1
    <3>5. Server!FindAndModify(docs, m, Fresh) = {one(id) : id \in F} /\ Modifications(c) = {other(id) : id \in F}
      BY <3>2, <3>3
    <3> HIDE DEF one, other
    <3> QED BY <3>4, <3>5
  <2>3. CASE ~removing /\ found = {} /\ c.upsert
    <3>1. new(U, TRUE) = Made(c, Promise!Asked(c.filter), TRUE)
      BY <1>2, <1>4, <2>3
    <3> QED BY <1>4, <1>6, <1>7, <2>3, <3>1
  <2>4. CASE found = {} /\ (removing \/ ~c.upsert)
    <3>1. m.upsert = FALSE \/ (~removing /\ m.upsert = c.upsert /\ ~c.upsert)
      BY <1>4, <1>5, <2>4
    <3> QED BY <1>6, <1>7, <2>4, <3>1
  <2> QED BY <2>1, <2>2, <2>3, <2>4
<1> QED BY <1>8 DEF m

\* A findAndModify does what is promised.
LEMMA ModifyMeans ==
  ASSUME IsCollection(docs), NEW c, IsModify(c), NEW o \in Server!FindAndModify(docs, FindAndModify(c), Fresh)
  PROVE  /\ IsCollection(o.docs)
         /\ Promise!FoundAndModified(c, o.docs, Promise!Result(o.n, o.value, o.last, o.stored))
<1> DEFINE found == Promise!Found(c.filter)
           removing == c.command = "findAndRemoveOne"
           r == Promise!Result(o.n, o.value, o.last, o.stored)
           F == Server!First(docs, found, SerializeSort(c.sort))
<1>0. o \in Modifications(c)
  BY FindAndModifyIs
<1>1. r.n = o.n /\ r.value = o.value /\ r.last = o.last /\ r.stored = o.stored
  BY DEF Promise!Result
<1>2. found \subseteq DOMAIN docs /\ IsFiniteSet(DOMAIN docs) /\ DOMAIN docs \subseteq Ids
      /\ \A id \in DOMAIN docs : IsDocument(docs[id])
  BY DEF Promise!Found, IsCollection
<1>3. \A id \in F : id \in found /\ \A y \in found : ~Promise!Above(docs[y], docs[id], c.sort)
  <2> HIDE DEF found
  <2>1. ASSUME NEW id \in F, NEW y \in found PROVE ~Promise!Above(docs[y], docs[id], c.sort)
    <3>1. id \in found /\ ~Server!Precedes(docs[y], docs[id], SerializeSort(c.sort))
      BY DEF Server!First
    <3>2. IsDocument(docs[y]) /\ IsDocument(docs[id])
      BY <1>2, <3>1
    <3> QED BY <3>1, <3>2, AbovePrecedes
  <2> QED BY <2>1 DEF Server!First
<1>4. c.command \in {"findAndRemoveOne", "findAndReplaceOne", "findAndUpdateOne"}
      /\ (~removing => c.returnNew \in BOOLEAN /\ c.upsert \in BOOLEAN)
  BY DEF IsModify
<1> HIDE DEF found, r, F
\* Documents that are put into the collection.
<1>5. ASSUME NEW id \in Ids, NEW doc, IsDocument(doc),
             o.docs = Server!With(docs, id, doc)
      PROVE  /\ IsCollection(o.docs)
             /\ DOMAIN o.docs = DOMAIN docs \cup {id} /\ o.docs[id] = doc
             /\ \A x \in DOMAIN docs \ {id} : o.docs[x] = docs[x]
  <2>1. /\ DOMAIN o.docs = DOMAIN docs \cup {id} /\ o.docs[id] = doc
        /\ \A x \in DOMAIN docs \ {id} : o.docs[x] = docs[x]
    BY <1>5 DEF Server!With
  <2>2. IsFiniteSet(DOMAIN o.docs)
    BY <1>2, <2>1, FS_AddElement
  <2> QED BY <1>2, <1>5, <2>1, <2>2 DEF IsCollection
<1>6. CASE found # {} /\ removing
  <2>1. PICK id \in F : o = Server!Modification(Server!Without(docs, {id}), {docs[id]}, Server!LastError(FALSE, {}))
    BY <1>0, <1>6 DEF Modifications, found, removing, F
  <2>2. o.docs = Server!Without(docs, {id}) /\ o.value = {docs[id]} /\ o.stored = {}
        /\ o.last.updatedExisting = FALSE /\ o.last.upserted = {}
    BY <2>1 DEF Server!Modification, Server!LastError
  <2>3. DOMAIN o.docs = DOMAIN docs \ {id} /\ \A x \in DOMAIN docs \ {id} : o.docs[x] = docs[x]
    BY <2>2 DEF Server!Without
  <2>4. id \in DOMAIN docs
    BY <1>2, <1>3
  <2>5. IsCollection(o.docs)
    <3>1. IsFiniteSet(DOMAIN o.docs)
      BY <1>2, <2>3, FS_Subset
    <3> QED BY <1>2, <2>3, <3>1 DEF IsCollection
  <2>6. Promise!Modified(c, o.docs, r, id)
    <3>1. id \in DOMAIN docs \cap DOMAIN o.docs <=> FALSE
      BY <2>3
    <3>2. {id} \ DOMAIN docs = {}
      BY <2>4
    <3>3. (r.last.updatedExisting <=> id \in DOMAIN docs \cap DOMAIN o.docs) /\ r.last.upserted = {id} \ DOMAIN docs
      BY <1>1, <2>2, <3>1, <3>2
    <3> QED BY <1>1, <1>6, <2>2, <2>3, <2>4, <3>3 DEF Promise!Modified
  <2>7. Promise!FoundAndModified(c, o.docs, r)
    BY <1>3, <1>6, <2>3, <2>6 DEF Promise!FoundAndModified, found
  <2> QED BY <2>5, <2>7 DEF r
<1>7. CASE found # {} /\ ~removing
  <2>1. PICK id \in F : o = Server!Modification(Server!With(docs, id, Made(c, docs[id], FALSE)),
                                {IF c.returnNew THEN Made(c, docs[id], FALSE) ELSE docs[id]}, Server!LastError(TRUE, {}))
    BY <1>0, <1>7 DEF Modifications, found, removing, F
  <2> DEFINE doc == Made(c, docs[id], FALSE)
  <2>2. o.docs = Server!With(docs, id, doc) /\ o.value = {IF c.returnNew THEN doc ELSE docs[id]} /\ o.stored = {}
        /\ o.last.updatedExisting = TRUE /\ o.last.upserted = {}
    BY <2>1 DEF Server!Modification, Server!LastError
  <2>3. id \in DOMAIN docs /\ id \in Ids /\ IsDocument(docs[id])
    BY <1>2, <1>3
  <2>4. IsDocument(doc) /\ (c.command = "findAndUpdateOne" => Promise!Changed(docs[id], doc, c.update, FALSE))
        /\ (c.command = "findAndReplaceOne" => doc = c.replace)
    <3>1. FALSE \in BOOLEAN
      OBVIOUS
    <3> QED BY <1>7, <2>3, <3>1, MadeIs DEF Made
  <2> HIDE DEF doc
  <2>5. /\ IsCollection(o.docs)
        /\ DOMAIN o.docs = DOMAIN docs \cup {id} /\ o.docs[id] = doc
        /\ \A x \in DOMAIN docs \ {id} : o.docs[x] = docs[x]
    BY <1>5, <2>2, <2>3, <2>4
  <2>6. Promise!Modified(c, o.docs, r, id)
    <3>1. {docs[x] : x \in {id} \cap DOMAIN docs} = {docs[id]} /\ {o.docs[x] : x \in {id} \cap DOMAIN o.docs} = {doc}
      BY <2>3, <2>5
    <3>2. r.stored = {} /\ r.value = IF c.returnNew THEN {doc} ELSE {docs[id]}
      BY <1>1, <2>2
    <3>3. \A x \in (DOMAIN docs \cup DOMAIN o.docs) \ {id} : x \in DOMAIN docs \cap DOMAIN o.docs /\ o.docs[x] = docs[x]
      BY <2>5
    <3>4. (id \in DOMAIN docs \cap DOMAIN o.docs <=> TRUE) /\ {id} \ DOMAIN docs = {}
      BY <2>3, <2>5
    <3>5. (r.last.updatedExisting <=> id \in DOMAIN docs \cap DOMAIN o.docs) /\ r.last.upserted = {id} \ DOMAIN docs
      BY <1>1, <2>2, <3>4
    <3> QED BY <1>7, <3>1, <3>2, <3>3, <3>5 DEF Promise!Modified
  <2>7. Promise!FoundAndModified(c, o.docs, r)
    <3>1. id \in {x \in found : \A y \in found : ~Promise!Above(docs[y], docs[x], c.sort)}
      BY <1>3
    <3>2. CASE c.command = "findAndReplaceOne"
      <4>1. id \in DOMAIN o.docs /\ o.docs[id] = c.replace
        BY <2>4, <2>5, <3>2
      <4> QED BY <1>7, <2>6, <3>1, <3>2, <4>1 DEF Promise!FoundAndModified, found
    <3>3. CASE c.command = "findAndUpdateOne"
      <4>1. id \in DOMAIN o.docs /\ Promise!Changed(docs[id], o.docs[id], c.update, FALSE)
        BY <2>4, <2>5, <3>3
      <4> QED BY <1>7, <2>6, <3>1, <3>3, <4>1 DEF Promise!FoundAndModified, found
    <3> QED BY <1>4, <1>7, <3>2, <3>3
  <2> QED BY <2>5, <2>7 DEF r
<1>8. CASE found = {} /\ ~removing /\ c.upsert
  <2> DEFINE doc == Made(c, Promise!Asked(c.filter), TRUE)
  <2>1. PICK id \in Fresh : o = Server!Modification(Server!With(docs, id, doc), {x \in {doc} : c.returnNew}, Server!LastError(FALSE, {id}))
    BY <1>0, <1>8 DEF Modifications, found, removing
  <2>2. o.docs = Server!With(docs, id, doc) /\ o.value = {x \in {doc} : c.returnNew} /\ o.stored = {}
        /\ o.last.updatedExisting = FALSE /\ o.last.upserted = {id}
    BY <2>1 DEF Server!Modification, Server!LastError
  <2>3. id \notin DOMAIN docs /\ id \in Ids
    BY DEF Fresh
  <2>4. IsDocument(doc) /\ (c.command = "findAndUpdateOne" => Promise!Changed(Promise!Asked(c.filter), doc, c.update, TRUE))
        /\ (c.command = "findAndReplaceOne" => doc = c.replace)
    <3>1. TRUE \in BOOLEAN /\ IsDocument(Promise!Asked(c.filter))
      BY FromFilterMeans DEF IsModify
    <3> QED BY <1>8, <3>1, MadeIs DEF Made
  <2> HIDE DEF doc
  <2>5. /\ IsCollection(o.docs)
        /\ DOMAIN o.docs = DOMAIN docs \cup {id} /\ o.docs[id] = doc
        /\ \A x \in DOMAIN docs \ {id} : o.docs[x] = docs[x]
    BY <1>5, <2>2, <2>3, <2>4
  <2>6. Promise!Modified(c, o.docs, r, id)
    <3>1. {docs[x] : x \in {id} \cap DOMAIN docs} = {} /\ {o.docs[x] : x \in {id} \cap DOMAIN o.docs} = {doc}
      BY <2>3, <2>5
    <3>2. r.stored = {} /\ r.value = IF c.returnNew THEN {doc} ELSE {}
      BY <1>1, <2>2
    <3>3. \A x \in (DOMAIN docs \cup DOMAIN o.docs) \ {id} : x \in DOMAIN docs \cap DOMAIN o.docs /\ o.docs[x] = docs[x]
      BY <2>5
    <3>4. (id \in DOMAIN docs \cap DOMAIN o.docs <=> FALSE) /\ {id} \ DOMAIN docs = {id}
      BY <2>3
    <3>5. (r.last.updatedExisting <=> id \in DOMAIN docs \cap DOMAIN o.docs) /\ r.last.upserted = {id} \ DOMAIN docs
      BY <1>1, <2>2, <3>4
    <3> QED BY <1>8, <3>1, <3>2, <3>3, <3>5 DEF Promise!Modified
  <2>7. id \in DOMAIN o.docs \ DOMAIN docs
    BY <2>3, <2>5
  <2>8. Promise!FoundAndModified(c, o.docs, r)
    BY <1>8, <2>4, <2>5, <2>6, <2>7 DEF Promise!FoundAndModified, found
  <2> QED BY <2>5, <2>8 DEF r
<1>9. CASE found = {} /\ ~(~removing /\ c.upsert)
  <2>1. o = Server!Modification(docs, {}, Server!LastError(FALSE, {}))
    BY <1>0, <1>9 DEF Modifications, found, removing
  <2>2. o.docs = docs /\ o.value = {} /\ o.stored = {} /\ o.last.updatedExisting = FALSE /\ o.last.upserted = {}
    BY <2>1 DEF Server!Modification, Server!LastError
  <2>3. Promise!FoundAndModified(c, o.docs, r)
    BY <1>1, <1>9, <2>2 DEF Promise!FoundAndModified, found
  <2> QED BY <2>2, <2>3 DEF r
<1> QED BY <1>6, <1>7, <1>8, <1>9

-----------------------------------------------------------------------------
(* Programs, the server and the network. *)

IsCount(c) ==
  c.command = "countDocuments" /\ IsFilter(c.filter) /\ c.limit \in Nat /\ c.skip \in Nat

\* A call as the program makes it.
IsCall(c) == IsInsert(c) \/ IsRemove(c) \/ IsCount(c) \/ IsModify(c)

\* Of a call that the program is in, no more than its own command or the answer
\* to that is on its way; an answer to an insert tells what the collection holds.
Waiting ==
  \A c \in call :
    /\ call = {c} /\ IsCall(c) /\ result = {}
    /\ inserted = IF c.command = "insert" THEN c.ids ELSE <<>>
    /\ message \subseteq {Message(c)}
    /\ \A r \in reply :
         /\ reply = {r} /\ message = {} /\ r.ok \in BOOLEAN
         /\ c.command = "insert" /\ r.ok => Tells(c, r, docs)

\* Nothing is on its way when the program is in no call.
Idle == call = {} => message = {} /\ reply = {} /\ inserted = <<>>

\* What the last call returned of an insert tells what the collection still holds.
ReturnedTells ==
  \A r \in result :
    /\ result = {r}
    /\ r.call.command = "insert" /\ r.ok => r.inserted = r.call.ids /\ Tells(r.call, r, docs)

\* The inductive invariant.  InsertedTellsStored alone is not: what the program is
\* told depends on the answer that is on its way, and that on the ids collected
\* for the call that is waiting for it.
IInv ==
  /\ IsCollection(docs) /\ good \in BOOLEAN /\ calls \in 0 .. MaxCalls
  /\ Waiting /\ Idle /\ ReturnedTells

\* It holds when the program starts.
LEMMA InitHolds == Init => IInv
<1> SUFFICES ASSUME Init PROVE IInv
  OBVIOUS
<1>1. IsCollection(docs)
  BY TypesAssumption DEF Init
<1>2. good \in BOOLEAN /\ calls \in 0 .. MaxCalls
  BY DocumentsAssumption DEF Init
<1>3. Waiting /\ Idle /\ ReturnedTells
  BY DEF Init, Waiting, Idle, ReturnedTells
<1> QED BY <1>1, <1>2, <1>3 DEF IInv

\* The calls that the program makes are of the kinds that the lemmas are about.
Programs == insert \/ remove \/ countDocuments \/ findAndRemoveOne \/ findAndReplaceOne \/ findAndUpdateOne

\* The options of a findAndModify have their types.
LEMMA OptionsAre ==
  ASSUME NEW o \in Options
  PROVE  /\ o[1] \in BOOLEAN /\ o[2] \in BOOLEAN
         /\ \E n \in Nat : DOMAIN o[3] = 1 .. n
         /\ \A i \in DOMAIN o[3] : o[3][i][1] \in Fields \ (ArrayFields \cup DateFields) /\ o[3][i][2] \in DOMAIN SortOrder
<1> DEFINE A == Fields \ (ArrayFields \cup DateFields)
           B == DOMAIN SortOrder
<1>1. o \in BOOLEAN \X BOOLEAN \X Seq(A \X B)
  BY DocumentsAssumption
<1> HIDE DEF A, B
<1>2. o[1] \in BOOLEAN /\ o[2] \in BOOLEAN /\ o[3] \in Seq(A \X B)
  BY <1>1
<1>3. Len(o[3]) \in Nat /\ DOMAIN o[3] = 1 .. Len(o[3]) /\ \A i \in DOMAIN o[3] : o[3][i] \in A \X B
  BY <1>2
<1>4. \A i \in DOMAIN o[3] : o[3][i][1] \in A /\ o[3][i][2] \in B
  BY <1>3
<1> QED BY <1>2, <1>3, <1>4 DEF A, B

\* Each call the program makes is of a kind that the lemmas are about.
LEMMA ProgramsCall ==
  ASSUME Programs
  PROVE  \E c : IsCall(c) /\ Begin(c)
<1>1. CASE insert
  <2>1. PICK ids \in UNION {[1 .. n -> Ids] : n \in 1 .. 2}, own \in BOOLEAN, ordered \in BOOLEAN, r \in DOMAIN Records :
          Begin([command |-> "insert", ids |-> ids, ordered |-> ordered,
                 documents |-> [i \in DOMAIN ids |-> Records[r]]])
    BY <1>1 DEF insert
  <2> DEFINE c == [command |-> "insert", ids |-> ids, ordered |-> ordered,
                   documents |-> [i \in DOMAIN ids |-> Records[r]]]
  <2>2. PICK n \in 1 .. 2 : ids \in [1 .. n -> Ids]
    OBVIOUS
  <2>3. c.command = "insert" /\ c.ordered \in BOOLEAN /\ c.ids = ids /\ c.documents = [i \in DOMAIN ids |-> Records[r]]
    OBVIOUS
  <2>4. Begin(c)
    BY <2>1
  <2>5. IsDocument(Records[r])
    BY TypesAssumption
  <2>6. n \in Nat /\ DOMAIN c.ids = 1 .. n /\ DOMAIN c.documents = 1 .. n
    BY <2>2, <2>3
  <2>7. \A i \in DOMAIN c.ids : c.ids[i] \in Ids /\ IsDocument(c.documents[i])
    BY <2>2, <2>3, <2>5
  <2> HIDE DEF c
  <2> QED BY <2>3, <2>4, <2>6, <2>7 DEF IsCall, IsInsert
<1>2. CASE remove
  <2>1. PICK f \in DOMAIN Searches, g \in DOMAIN Searches, n \in 1 .. 2, ordered \in BOOLEAN, how \in {"All", "One"} :
          Begin([command |-> "remove", ordered |-> ordered,
                 statements |-> SubSeq(<<[filter |-> Searches[f], remove |-> how],
                                         [filter |-> Searches[g], remove |-> "All"]>>, 1, n)])
    BY <1>2 DEF remove
  <2> DEFINE a == [filter |-> Searches[f], remove |-> how]
             b == [filter |-> Searches[g], remove |-> "All"]
             s == SubSeq(<<a, b>>, 1, n)
             c == [command |-> "remove", ordered |-> ordered, statements |-> s]
  <2>2. IsFilter(a.filter) /\ IsFilter(b.filter) /\ a.remove \in {"All", "One"} /\ b.remove \in {"All", "One"}
    BY TypesAssumption DEF IsSearch
  <2>3. c.command = "remove" /\ c.ordered \in BOOLEAN /\ c.statements = s
    OBVIOUS
  <2>4. Begin(c)
    BY <2>1
  <2> HIDE DEF a, b
  <2>5. n \in Nat /\ DOMAIN s = 1 .. n /\ \A i \in 1 .. n : s[i] \in {a, b}
    OBVIOUS
  <2> HIDE DEF c, s
  <2> QED BY <2>2, <2>3, <2>4, <2>5 DEF IsCall, IsRemove
<1>3. CASE countDocuments
  <2>1. PICK f \in DOMAIN Filters, page \in Pages :
          Begin([command |-> "countDocuments", filter |-> Filters[f], limit |-> page[1], skip |-> page[2]])
    BY <1>3 DEF countDocuments
  <2> DEFINE c == [command |-> "countDocuments", filter |-> Filters[f], limit |-> page[1], skip |-> page[2]]
  <2>2. page[1] \in Nat /\ page[2] \in Nat
    BY DocumentsAssumption
  <2>3. IsFilter(Filters[f])
    BY TypesAssumption
  <2>4. IsCount(c)
    BY <2>2, <2>3 DEF IsCount
  <2> QED BY <2>1, <2>4 DEF IsCall
<1>4. CASE findAndRemoveOne
  <2>1. PICK f \in DOMAIN Searches, options \in Options :
          Begin([command |-> "findAndRemoveOne", filter |-> Searches[f], sort |-> options[3]])
    BY <1>4 DEF findAndRemoveOne
  <2> DEFINE c == [command |-> "findAndRemoveOne", filter |-> Searches[f], sort |-> options[3]]
  <2>2. c.command = "findAndRemoveOne" /\ c.filter = Searches[f] /\ c.sort = options[3] /\ Begin(c)
    BY <2>1
  <2>3. IsSearch(c.filter)
    BY <2>2, TypesAssumption
  <2> HIDE DEF c
  <2> QED BY <2>2, <2>3, OptionsAre DEF IsCall, IsModify
<1>5. CASE findAndReplaceOne
  <2>1. PICK f \in DOMAIN Searches, r \in DOMAIN Records, options \in Options :
          Begin([command |-> "findAndReplaceOne", filter |-> Searches[f], replace |-> Records[r],
                 returnNew |-> options[1], upsert |-> options[2], sort |-> options[3]])
    BY <1>5 DEF findAndReplaceOne
  <2> DEFINE c == [command |-> "findAndReplaceOne", filter |-> Searches[f], replace |-> Records[r],
                   returnNew |-> options[1], upsert |-> options[2], sort |-> options[3]]
  <2>2. /\ c.command = "findAndReplaceOne" /\ c.filter = Searches[f] /\ c.sort = options[3] /\ Begin(c)
        /\ c.replace = Records[r] /\ c.returnNew = options[1] /\ c.upsert = options[2]
    BY <2>1
  <2>3. IsSearch(c.filter) /\ IsDocument(c.replace)
    BY <2>2, TypesAssumption
  <2> HIDE DEF c
  <2> QED BY <2>2, <2>3, OptionsAre DEF IsCall, IsModify
<1>6. CASE findAndUpdateOne
  <2>1. PICK f \in DOMAIN Searches, u \in DOMAIN UpdateExpressions, options \in Options :
          Begin([command |-> "findAndUpdateOne", filter |-> Searches[f], update |-> UpdateExpressions[u],
                 returnNew |-> options[1], upsert |-> options[2], sort |-> options[3]])
    BY <1>6 DEF findAndUpdateOne
  <2> DEFINE c == [command |-> "findAndUpdateOne", filter |-> Searches[f], update |-> UpdateExpressions[u],
                   returnNew |-> options[1], upsert |-> options[2], sort |-> options[3]]
  <2>2. /\ c.command = "findAndUpdateOne" /\ c.filter = Searches[f] /\ c.sort = options[3] /\ Begin(c)
        /\ c.update = UpdateExpressions[u] /\ c.returnNew = options[1] /\ c.upsert = options[2]
    BY <2>1
  <2>3. IsSearch(c.filter) /\ IsUpdate(c.update)
    BY <2>2, TypesAssumption
  <2> HIDE DEF c
  <2> QED BY <2>2, <2>3, OptionsAre DEF IsCall, IsModify
<1> QED BY <1>1, <1>2, <1>3, <1>4, <1>5, <1>6 DEF Programs

\* Whatever the server makes of the command of a call is what is promised.
LEMMA OutcomeMeans ==
  ASSUME IsCollection(docs), NEW c, IsCall(c), NEW o \in Outcomes(Message(c))
  PROVE  /\ IsCollection(o.docs)
         /\ c.command = "insert" => Tells(c, o, o.docs)
         /\ Promise!Accomplishes(c, o.docs, Promise!Result(o.n, o.value, o.last, o.stored))
<1> DEFINE m == Message(c)
<1>1. CASE IsInsert(c)
  <2>1. c.command = "insert"
    BY <1>1 DEF IsInsert
  <2>2. m = Inserter(c) /\ DOMAIN Inserter(c) = {"insert", "ordered", "documents"}
    BY <2>1 DEF Message, Inserter
  <2>3. Outcomes(m) = Server!Insert(docs, Inserter(c))
    <3> HIDE DEF m
    <3> QED BY <2>2 DEF Outcomes
  <2>4. PICK n \in Nat : DOMAIN c.ids = 1 .. n /\ InsertedSoFar(c, o, n)
    BY <1>1, <2>3, InsertMeans
  <2>5. Tells(c, o, o.docs) /\ Promise!Inserted(c, o.docs, Promise!Result(o.n, o.value, o.last, o.stored))
    BY <1>1, <2>4, InsertTells
  <2>6. IsCollection(o.docs)
    BY <2>4 DEF InsertedSoFar
  <2> QED BY <2>1, <2>5, <2>6 DEF Promise!Accomplishes
<1>2. CASE IsRemove(c)
  <2>1. c.command = "remove"
    BY <1>2 DEF IsRemove
  <2>2. m = Remover(c) /\ DOMAIN Remover(c) = {"delete", "ordered", "deletes"}
    BY <2>1 DEF Message, Remover
  <2>3. Outcomes(m) = UNION {Server!Delete(docs, Remover(c), bad) :
                               bad \in {{}} \cup IF "error" \in Faults THEN SUBSET DOMAIN Remover(c).deletes ELSE {}}
    <3> HIDE DEF m
    <3> QED BY <2>2 DEF Outcomes
  <2>4. \E bad : o \in Server!Delete(docs, Remover(c), bad)
    BY <2>3
  <2>5. IsCollection(o.docs) /\ Promise!Removed(c, o.docs, Promise!Result(o.n, o.value, o.last, o.stored))
    BY <1>2, <2>4, RemoveMeans
  <2> QED BY <2>1, <2>5 DEF Promise!Accomplishes
<1>3. CASE IsCount(c)
  <2>1. c.command = "countDocuments" /\ IsFilter(c.filter) /\ c.limit \in Nat /\ c.skip \in Nat
    BY <1>3 DEF IsCount
  <2>2. m = Counter(c) /\ DOMAIN Counter(c) = {"count", "query", "limit", "skip"}
    BY <2>1 DEF Message, Counter
  <2>3. Outcomes(m) = Server!Count(docs, Counter(c))
    <3> HIDE DEF m
    <3> QED BY <2>2 DEF Outcomes
  <2>4. o \in Server!Count(docs, Counter(c))
    BY <2>3
  <2> DEFINE r == Promise!Result(o.n, o.value, o.last, o.stored)
             all == Promise!Cardinality(Promise!Found(c.filter))
  <2>5. /\ o.docs = docs
        /\ r.n = IF all <= c.skip THEN 0
                 ELSE IF c.limit = 0 \/ all - c.skip <= c.limit THEN all - c.skip
                 ELSE c.limit
        /\ r.value = {} /\ r.stored = {}
    BY <2>1, <2>4, CountMeans
  <2> HIDE DEF r
  <2>6. Promise!Accomplishes(c, o.docs, r)
    BY <2>1, <2>5 DEF Promise!Accomplishes
  <2> QED BY <2>1, <2>5, <2>6 DEF r
<1>4. CASE IsModify(c)
  <2>1. c.command \in {"findAndRemoveOne", "findAndReplaceOne", "findAndUpdateOne"}
    BY <1>4 DEF IsModify
  <2>2. m = FindAndModify(c)
    BY <2>1 DEF Message
  <2>3. DOMAIN FindAndModify(c) = {"findAndModify", "query", "sort", "remove", "update", "new", "upsert"}
    BY DEF FindAndModify
  <2>4. Outcomes(m) = Server!FindAndModify(docs, FindAndModify(c), Fresh)
    <3> HIDE DEF m
    <3> QED BY <2>2, <2>3 DEF Outcomes
  <2>5. IsCollection(o.docs) /\ Promise!FoundAndModified(c, o.docs, Promise!Result(o.n, o.value, o.last, o.stored))
    BY <1>4, <2>4, ModifyMeans
  <2> QED BY <2>1, <2>5 DEF Promise!Accomplishes
<1> QED BY <1>1, <1>2, <1>3, <1>4 DEF IsCall

\* What the server's step does.
LEMMA ServeMeans ==
  ASSUME IInv, Serve
  PROVE  \E c, o : /\ call = {c} /\ IsCall(c) /\ message = {Message(c)} /\ reply = {}
                   /\ docs' = o.docs /\ message' = {}
                   /\ reply' = {[ok |-> TRUE, n |-> o.n, writeErrors |-> o.writeErrors,
                                 value |-> o.value, last |-> o.last, stored |-> o.stored]}
                   /\ IsCollection(o.docs)
                   /\ c.command = "insert" => Tells(c, o, o.docs)
                   /\ Promise!Accomplishes(c, o.docs, Promise!Result(o.n, o.value, o.last, o.stored))
<1>0. PICK m \in message : \E o \in Outcomes(m) :
        /\ docs' = o.docs
        /\ reply' = {[ok |-> TRUE, n |-> o.n, writeErrors |-> o.writeErrors,
                      value |-> o.value, last |-> o.last, stored |-> o.stored]}
  BY DEF Serve
<1>1. PICK o \in Outcomes(m) :
        /\ docs' = o.docs
        /\ reply' = {[ok |-> TRUE, n |-> o.n, writeErrors |-> o.writeErrors,
                      value |-> o.value, last |-> o.last, stored |-> o.stored]}
  BY <1>0
<1>2. PICK c \in call : TRUE
  BY <1>0 DEF IInv, Idle
<1>3. call = {c} /\ IsCall(c) /\ message \subseteq {Message(c)} /\ \A r \in reply : message = {}
  BY <1>2 DEF IInv, Waiting
<1>4. message = {Message(c)} /\ m = Message(c) /\ reply = {}
  BY <1>0, <1>3
<1>5. IsCollection(docs) /\ message' = {}
  BY DEF IInv, Serve
<1>6. /\ IsCollection(o.docs)
      /\ c.command = "insert" => Tells(c, o, o.docs)
      /\ Promise!Accomplishes(c, o.docs, Promise!Result(o.n, o.value, o.last, o.stored))
  BY <1>1, <1>3, <1>4, <1>5, OutcomeMeans
<1> QED BY <1>1, <1>3, <1>4, <1>5, <1>6

\* Every step keeps the invariant.
LEMMA InvStep == IInv /\ [Next]_vars => IInv'
<1> SUFFICES ASSUME IInv, [Next]_vars PROVE IInv'
  OBVIOUS
<1> USE DEF IInv
<1>1. CASE Programs
  <2>1. PICK c : IsCall(c) /\ Begin(c)
    BY <1>1, ProgramsCall
  <2>2. call = {} /\ message = {} /\ reply = {}
    BY <2>1 DEF Begin, Idle
  <2>3. /\ calls' = calls + 1 /\ calls < MaxCalls /\ docs' = docs /\ good' = good
        /\ call' = {c} /\ result' = {} /\ reply' = {} /\ message' \subseteq {Message(c)}
    BY <2>1, <2>2 DEF Begin
  <2>4. inserted' = IF c.command = "insert" THEN c.ids ELSE <<>>
    BY <2>1 DEF Begin, Collected
  <2>5. calls' \in 0 .. MaxCalls
    BY <2>3, DocumentsAssumption
  <2>6. Waiting'
    BY <2>1, <2>3, <2>4 DEF Waiting
  <2>7. Idle' /\ ReturnedTells'
    BY <2>3 DEF Idle, ReturnedTells
  <2> QED BY <2>3, <2>5, <2>6, <2>7
<1>2. CASE Return
  <2>1. PICK c \in call, r \in reply :
          result' = {[call |-> c, ok |-> r.ok, inserted |-> inserted,
                      n |-> r.n, writeErrors |-> r.writeErrors, value |-> r.value, last |-> r.last,
                      stored |-> r.stored]}
    BY <1>2 DEF Return
  <2>2. /\ message = {} /\ inserted = (IF c.command = "insert" THEN c.ids ELSE <<>>)
        /\ c.command = "insert" /\ r.ok => Tells(c, r, docs)
    BY <2>1 DEF Waiting
  <2>3. /\ call' = {} /\ reply' = {} /\ message' = message /\ inserted' = <<>> /\ docs' = docs
        /\ good' = good /\ calls' = calls
    BY <1>2 DEF Return
  <2>4. Waiting' /\ Idle'
    BY <2>2, <2>3 DEF Waiting, Idle
  <2>5. ReturnedTells'
    <3> DEFINE s == [call |-> c, ok |-> r.ok, inserted |-> inserted,
                     n |-> r.n, writeErrors |-> r.writeErrors, value |-> r.value, last |-> r.last, stored |-> r.stored]
    <3>1. s.call = c /\ s.ok = r.ok /\ s.inserted = inserted /\ s.n = r.n /\ s.writeErrors = r.writeErrors /\ s.stored = r.stored
      OBVIOUS
    <3> HIDE DEF s
    <3>2. c.command = "insert" /\ r.ok => Tells(c, s, docs)
      BY <2>2, <3>1 DEF Tells
    <3>3. result' = {s}
      BY <2>1 DEF s
    <3>4. s.call.command = "insert" /\ s.ok => s.inserted = s.call.ids /\ Tells(s.call, s, docs')
      BY <2>2, <2>3, <3>1, <3>2
    <3> QED BY <3>3, <3>4 DEF ReturnedTells
  <2> QED BY <2>3, <2>4, <2>5
<1>3. CASE Fail
  <2>1. PICK c \in call :
          result' = {[call |-> c, ok |-> FALSE, inserted |-> inserted,
                      n |-> Uninitialised, writeErrors |-> {}, value |-> {},
                      last |-> Server!LastError(FALSE, {}), stored |-> {}]}
    BY <1>3 DEF Fail
  <2>2. /\ call' = {} /\ reply' = {} /\ message' = {} /\ inserted' = <<>> /\ docs' = docs
        /\ good' = good /\ calls' = calls
    BY <1>3 DEF Fail
  <2>3. Waiting' /\ Idle'
    BY <2>2 DEF Waiting, Idle
  <2>4. ReturnedTells'
    <3> DEFINE s == [call |-> c, ok |-> FALSE, inserted |-> inserted,
                     n |-> Uninitialised, writeErrors |-> {}, value |-> {},
                      last |-> Server!LastError(FALSE, {}), stored |-> {}]
    <3>1. s.ok = FALSE /\ result' = {s}
      BY <2>1
    <3> HIDE DEF s
    <3> QED BY <3>1 DEF ReturnedTells
  <2> QED BY <2>2, <2>3, <2>4
<1>4. CASE Serve
  <2>1. PICK c, o : /\ call = {c} /\ IsCall(c)
                    /\ docs' = o.docs /\ message' = {}
                    /\ reply' = {[ok |-> TRUE, n |-> o.n, writeErrors |-> o.writeErrors,
                                  value |-> o.value, last |-> o.last, stored |-> o.stored]}
                    /\ IsCollection(o.docs)
                    /\ c.command = "insert" => Tells(c, o, o.docs)
    BY <1>4, ServeMeans
  <2>2. good' = good /\ call' = call /\ inserted' = inserted /\ result' = result /\ calls' = calls
    BY <1>4 DEF Serve
  <2>3. result = {} /\ inserted = IF c.command = "insert" THEN c.ids ELSE <<>>
    BY <2>1 DEF Waiting
  <2> DEFINE r == [ok |-> TRUE, n |-> o.n, writeErrors |-> o.writeErrors, value |-> o.value, last |-> o.last, stored |-> o.stored]
  <2>4. r.ok = TRUE /\ r.n = o.n /\ r.writeErrors = o.writeErrors /\ r.stored = o.stored /\ reply' = {r}
    BY <2>1
  <2> HIDE DEF r
  <2>5. c.command = "insert" => Tells(c, r, docs')
    BY <2>1, <2>4 DEF Tells
  <2>6. Waiting'
    BY <2>1, <2>2, <2>3, <2>4, <2>5 DEF Waiting
  <2>7. Idle' /\ ReturnedTells'
    BY <2>1, <2>2, <2>3 DEF Idle, ReturnedTells
  <2> QED BY <2>1, <2>2, <2>6, <2>7
<1>5. CASE Refuse
  <2> DEFINE r == [ok |-> FALSE, n |-> Uninitialised, writeErrors |-> {}, value |-> {},
                      last |-> Server!LastError(FALSE, {}), stored |-> {}]
  <2>1. /\ docs' = docs /\ good' = good /\ call' = call /\ inserted' = inserted /\ result' = result /\ calls' = calls
        /\ message # {} /\ message' = {} /\ reply' = {r}
    BY <1>5 DEF Refuse
  <2>2. r.ok = FALSE
    OBVIOUS
  <2> HIDE DEF r
  <2>3. call # {}
    BY <2>1 DEF Idle
  <2>4. Waiting'
    BY <2>1, <2>2 DEF Waiting
  <2>5. Idle' /\ ReturnedTells'
    BY <2>1, <2>3 DEF Idle, ReturnedTells
  <2> QED BY <2>1, <2>4, <2>5
<1>6. CASE Lose
  <2>1. /\ docs' = docs /\ good' = FALSE /\ call' = call /\ inserted' = inserted /\ result' = result /\ calls' = calls
        /\ message' = {} /\ reply' = {}
    BY <1>6 DEF Lose
  <2>2. Waiting' /\ Idle' /\ ReturnedTells'
    BY <2>1 DEF Waiting, Idle, ReturnedTells
  <2> QED BY <2>1, <2>2
<1>7. CASE UNCHANGED vars
  BY <1>7 DEF vars, Waiting, Idle, ReturnedTells
<1> QED BY <1>1, <1>2, <1>3, <1>4, <1>5, <1>6, <1>7 DEF Next, Done, Programs

\* The invariant holds in every behaviour: of a call no more is on its way than its
\* own command or the answer to that.
THEOREM DocumentsInvariant == Spec => []IInv
<1> QED BY InitHolds, InvStep, PTL DEF Spec

\* It says what the properties say.
LEMMA InvGives == IInv => TypeOK /\ InsertedTellsStored
<1> SUFFICES ASSUME IInv PROVE TypeOK /\ InsertedTellsStored
  OBVIOUS
<1> USE DEF IInv
<1>1. Cardinality({}) = 0 /\ \A x : Cardinality({x}) = 1
  BY FS_EmptySet, FS_Singleton
<1>2. call = {} \/ \E c : call = {c}
  BY DEF Waiting
<1>3. result = {} \/ \E r : result = {r}
  BY DEF ReturnedTells
<1>4. Cardinality(message) + Cardinality(reply) <= Cardinality(call)
  <2>1. CASE call = {}
    <3>1. Cardinality(message) = 0 /\ Cardinality(reply) = 0 /\ Cardinality(call) = 0
      BY <1>1, <2>1 DEF Idle
    <3> QED BY <3>1
  <2>2. CASE call # {}
    <3>1. PICK c : call = {c}
      BY <1>2, <2>2
    <3>2. /\ message \subseteq {Message(c)}
          /\ reply = {} \/ (message = {} /\ \E r : reply = {r})
      BY <3>1 DEF Waiting
    <3>3. message = {} \/ message = {Message(c)}
      BY <3>2
    <3>4. CASE reply = {}
      <4>1. Cardinality(message) \in {0, 1} /\ Cardinality(reply) = 0 /\ Cardinality(call) = 1
        BY <1>1, <3>1, <3>3, <3>4
      <4> QED BY <4>1
    <3>5. CASE message = {} /\ \E r : reply = {r}
      <4>1. Cardinality(message) = 0 /\ Cardinality(reply) = 1 /\ Cardinality(call) = 1
        BY <1>1, <3>1, <3>5
      <4> QED BY <4>1
    <3> QED BY <3>2, <3>4, <3>5
  <2> QED BY <2>1, <2>2
<1>5. \A i \in DOMAIN inserted : inserted[i] \in Ids
  <2>1. CASE call = {}
    BY <2>1 DEF Idle
  <2>2. CASE call # {}
    <3>1. PICK c : call = {c} /\ IsCall(c) /\ inserted = (IF c.command = "insert" THEN c.ids ELSE <<>>)
      BY <1>2, <2>2 DEF Waiting
    <3>2. c.command = "insert" => IsInsert(c)
      BY <3>1 DEF IsCall, IsRemove, IsCount, IsModify
    <3> QED BY <3>1, <3>2 DEF IsInsert
  <2> QED BY <2>1, <2>2
<1>6. Cardinality(call) <= 1 /\ Cardinality(result) <= 1
  <2>1. Cardinality(call) \in {0, 1} /\ Cardinality(result) \in {0, 1}
    BY <1>1, <1>2, <1>3
  <2> QED BY <2>1
<1>7. TypeOK
  BY <1>4, <1>5, <1>6 DEF TypeOK
<1>8. InsertedTellsStored
  <2> SUFFICES ASSUME NEW r \in result, r.call.command = "insert", r.ok
      PROVE  LET stored == {i \in DOMAIN r.inserted :
                              /\ i \notin r.writeErrors
                              /\ r.call.ordered => \A e \in r.writeErrors : i < e}
             IN  /\ stored = r.stored /\ r.n = Cardinality(stored)
                 /\ \A i \in stored :
                      r.inserted[i] \in DOMAIN docs /\ docs[r.inserted[i]] = r.call.documents[i]
    BY DEF InsertedTellsStored
  <2>1. r.inserted = r.call.ids /\ Tells(r.call, r, docs)
    BY DEF ReturnedTells
  <2> QED BY <2>1 DEF Tells
<1> QED BY <1>7, <1>8

\* Whatever programs insert, remove and update, documents hold what their fields
\* may (the types of MongoQuery.h and MongoUpdate.h respect those of the fields),
\* and at most one command or answer is on its way.
THEOREM TypeCorrect == Spec => []TypeOK
<1> QED BY DocumentsInvariant, InvGives, PTL

\* What insert() tells of its answer (the ids collected while it is written, n and
\* the write errors) is enough to know what is stored, for all collections,
\* documents and ids, ordered or not.
THEOREM InsertedIsStored == Spec => []InsertedTellsStored
<1> QED BY DocumentsInvariant, InvGives, PTL

-----------------------------------------------------------------------------
(* Documents implements DocumentSet. *)

\* The steps of DocumentSet by these names.
LEMMA PromisedSteps ==
  /\ Promise!Init <=> Pending = {} /\ Finished = {} /\ Returned = {}
  /\ Promise!Call <=> /\ Pending = {} /\ Finished = {} /\ Promise!Cardinality(Pending') <= 1 /\ Returned' = {}
                      /\ docs' = docs /\ Finished' = Finished
  /\ Promise!Perform <=> /\ Pending # {} /\ Pending' = {} /\ Promise!Cardinality(Finished') = 1
                         /\ \A c \in Pending, r \in Finished' : Promise!Accomplishes(c, docs', r)
                         /\ Returned' = Returned
  /\ Promise!Return <=> /\ Pending' = {} /\ Finished' = {}
                        /\ \/ Returned' = {[ok |-> TRUE, result |-> r] : r \in Finished} /\ Finished # {}
                           \/ Returned' = {[ok |-> FALSE]}
                        /\ docs' = docs
  /\ Promise!Lose <=> Pending' = {} /\ Finished' = {} /\ docs' = docs /\ Returned' = Returned
BY DEF Promise!Init, Promise!Call, Promise!Perform, Promise!Return, Promise!Lose,
       Pending, Finished, Returned

\* Every step is one that DocumentSet allows, or changes nothing of what it speaks of.
LEMMA StepPromised == IInv /\ IInv' /\ [Next]_vars => [Promise!Next]_(Promise!vars)
<1> SUFFICES ASSUME IInv, IInv', [Next]_vars PROVE Promise!Next \/ UNCHANGED Promise!vars
  OBVIOUS
<1>0. Promise!Cardinality({}) = 0 /\ \A x : Promise!Cardinality({x}) = 1
  BY PromiseCounts, FS_EmptySet, FS_Singleton
<1> USE DEF IInv
<1>1. CASE Programs
  <2>1. PICK c : IsCall(c) /\ Begin(c)
    BY <1>1, ProgramsCall
  <2>2. call = {} /\ message = {} /\ reply = {}
    BY <2>1 DEF Begin, Idle
  <2>3. docs' = docs /\ call' = {c} /\ result' = {} /\ reply' = {}
    BY <2>1, <2>2 DEF Begin
  <2>4. Pending = {} /\ Finished = {} /\ Finished' = {} /\ Returned' = {}
    BY <2>2, <2>3 DEF Pending, Finished, Returned
  <2>5. Promise!Cardinality(Pending') <= 1
    <3>1. Pending' = {} \/ Pending' = {c}
      BY <2>3 DEF Pending
    <3>2. Promise!Cardinality(Pending') \in {0, 1}
      BY <1>0, <3>1
    <3> QED BY <3>2
  <2>6. Promise!Call
    BY <2>3, <2>4, <2>5, PromisedSteps
  <2> QED BY <2>6 DEF Promise!Next
<1>2. CASE Return
  <2>1. PICK c \in call, r \in reply :
          result' = {[call |-> c, ok |-> r.ok, inserted |-> inserted,
                      n |-> r.n, writeErrors |-> r.writeErrors, value |-> r.value, last |-> r.last,
                      stored |-> r.stored]}
    BY <1>2 DEF Return
  <2>2. message = {} /\ reply = {r} /\ r.ok \in BOOLEAN
    BY <2>1 DEF Waiting
  <2>3. reply' = {} /\ message' = message /\ docs' = docs
    BY <1>2 DEF Return
  <2>4. Pending' = {} /\ Finished' = {}
    BY <2>2, <2>3 DEF Pending, Finished
  <2> DEFINE s == [call |-> c, ok |-> r.ok, inserted |-> inserted,
                   n |-> r.n, writeErrors |-> r.writeErrors, value |-> r.value, last |-> r.last, stored |-> r.stored]
             v == Told(r)
  <2>5. result' = {s} /\ s.ok = r.ok /\ v = Told(s)
    BY <2>1 DEF Told
  <2> HIDE DEF s
  <2>6. Returned' = {IF r.ok THEN [ok |-> TRUE, result |-> v] ELSE [ok |-> FALSE]}
    BY <2>5 DEF Returned
  <2>7. r.ok => Finished = {v}
    BY <2>2 DEF Finished
  <2> HIDE DEF v
  <2>8. CASE r.ok
    <3>1. Returned' = {[ok |-> TRUE, result |-> x] : x \in Finished} /\ Finished # {}
      BY <2>6, <2>7, <2>8
    <3>2. Promise!Return
      BY <2>3, <2>4, <3>1, PromisedSteps
    <3> QED BY <3>2 DEF Promise!Next
  <2>9. CASE ~r.ok
    <3>1. Returned' = {[ok |-> FALSE]}
      BY <2>6, <2>9
    <3>2. Promise!Return
      BY <2>3, <2>4, <3>1, PromisedSteps
    <3> QED BY <3>2 DEF Promise!Next
  <2> QED BY <2>8, <2>9
<1>3. CASE Fail
  <2>1. PICK c \in call :
          result' = {[call |-> c, ok |-> FALSE, inserted |-> inserted,
                      n |-> Uninitialised, writeErrors |-> {}, value |-> {},
                      last |-> Server!LastError(FALSE, {}), stored |-> {}]}
    BY <1>3 DEF Fail
  <2>2. reply' = {} /\ message' = {} /\ docs' = docs
    BY <1>3 DEF Fail
  <2>3. Pending' = {} /\ Finished' = {}
    BY <2>2 DEF Pending, Finished
  <2>4. Returned' = {[ok |-> FALSE]}
    <3> DEFINE s == [call |-> c, ok |-> FALSE, inserted |-> inserted,
                     n |-> Uninitialised, writeErrors |-> {}, value |-> {},
                      last |-> Server!LastError(FALSE, {}), stored |-> {}]
    <3>1. result' = {s} /\ s.ok = FALSE
      BY <2>1
    <3> HIDE DEF s
    <3> QED BY <3>1 DEF Returned
  <2>5. Promise!Return
    BY <2>2, <2>3, <2>4, PromisedSteps
  <2> QED BY <2>5 DEF Promise!Next
<1>4. CASE Serve
  <2>1. PICK c, o : /\ call = {c} /\ message = {Message(c)}
                    /\ docs' = o.docs /\ message' = {}
                    /\ reply' = {[ok |-> TRUE, n |-> o.n, writeErrors |-> o.writeErrors,
                                  value |-> o.value, last |-> o.last, stored |-> o.stored]}
                    /\ Promise!Accomplishes(c, o.docs, Promise!Result(o.n, o.value, o.last, o.stored))
    BY <1>4, ServeMeans
  <2>2. result' = result
    BY <1>4 DEF Serve
  <2>3. Pending = {c} /\ Pending' = {} /\ Returned' = Returned
    BY <2>1, <2>2 DEF Pending, Returned
  <2> DEFINE v == Promise!Result(o.n, o.value, o.last, o.stored)
             s == [ok |-> TRUE, n |-> o.n, writeErrors |-> o.writeErrors, value |-> o.value, last |-> o.last, stored |-> o.stored]
  <2>4. v = Told(s) /\ s.ok = TRUE /\ reply' = {s}
    BY <2>1 DEF Promise!Result, Told
  <2> HIDE DEF v, s
  <2>5. Finished' = {v}
    BY <2>4 DEF Finished
  <2>6. Promise!Accomplishes(c, docs', v)
    BY <2>1 DEF v
  <2>7. Promise!Perform
    BY <1>0, <2>3, <2>5, <2>6, PromisedSteps
  <2> QED BY <2>7 DEF Promise!Next
<1>5. CASE Refuse
  <2> DEFINE s == [ok |-> FALSE, n |-> Uninitialised, writeErrors |-> {}, value |-> {},
                   last |-> Server!LastError(FALSE, {}), stored |-> {}]
  <2>1. docs' = docs /\ result' = result /\ message' = {} /\ reply' = {s} /\ s.ok = FALSE
    BY <1>5 DEF Refuse
  <2> HIDE DEF s
  <2>2. Pending' = {} /\ Finished' = {} /\ Returned' = Returned
    BY <2>1 DEF Pending, Finished, Returned
  <2>3. Promise!Lose
    BY <2>1, <2>2, PromisedSteps
  <2> QED BY <2>3 DEF Promise!Next
<1>6. CASE Lose
  <2>1. docs' = docs /\ result' = result /\ message' = {} /\ reply' = {}
    BY <1>6 DEF Lose
  <2>2. Pending' = {} /\ Finished' = {} /\ Returned' = Returned
    BY <2>1 DEF Pending, Finished, Returned
  <2>3. Promise!Lose
    BY <2>1, <2>2, PromisedSteps
  <2> QED BY <2>3 DEF Promise!Next
<1>7. CASE UNCHANGED vars
  <2>1. docs' = docs /\ message' = message /\ call' = call /\ reply' = reply /\ result' = result
    BY <1>7 DEF vars
  <2> QED BY <2>1 DEF Promise!vars, Pending, Finished, Returned
<1> QED BY <1>1, <1>2, <1>3, <1>4, <1>5, <1>6, <1>7 DEF Next, Done, Programs

\* insert(), remove(), countDocuments() and the three findAndModify calls do to the
\* documents, and return, what the types of the filter and the update promise, at
\* most once, whatever is lost: for all documents, filters and updates.
THEOREM KeepsPromise == Spec => ImplementsDocumentSet
<1>1. Init => Promise!Init
  <2> SUFFICES ASSUME Init PROVE Promise!Init
    OBVIOUS
  <2>1. Pending = {} /\ Finished = {} /\ Returned = {}
    BY DEF Init, Pending, Finished, Returned
  <2> QED BY <2>1, PromisedSteps
<1>2. IInv /\ IInv' /\ [Next]_vars => [Promise!Next]_(Promise!vars)
  BY StepPromised
<1> QED BY <1>1, <1>2, DocumentsInvariant, PTL DEF Spec, ImplementsDocumentSet, Promise!Spec

===============================================================================
