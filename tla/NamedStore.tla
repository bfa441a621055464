------------------------------ MODULE NamedStore ------------------------------
(***************************************************************************)
(* What the handles of ThorsMongo promise a program: an operation on a     *)
(* collection is carried out on exactly the database and collection the    *)
(* program named when it made the handle, at most once, and a concern set  *)
(* for a server, a database or a collection is the one found there until   *)
(* another is set, whichever handle of that name is asked.  Names are      *)
(* values here; nothing is said of how they are put together.              *)
(***************************************************************************)
EXTENDS DocumentStore

CONSTANTS
  DBNames, ColNames,  \* the names the program uses
  Documents, Concerns, Unset, Kinds,
  Handles, Ranges,    \* the Collection objects, and the results of find()
  Admin, NoName       \* the database for administration, and no name

VARIABLES
  opened,     \* the names each handle was made with
  rangeOf,    \* the collection each range in use was found in, in a set
  concerns,   \* by subject and kind
  told,       \* the concern the program was told last
  store,      \* the server's collections
  called,     \* the operation the program waits for, in a set
  answered,   \* the server's answer to it, in a set
  response    \* what the last operation returned

vars == <<opened, rangeOf, concerns, told, store, called, answered, response>>

Pairs == DBNames \X ColNames

\* What a concern may be set for: the server, a database, a collection.
Subjects == {<<>>} \cup {<<d>> : d \in DBNames} \cup Pairs

Operation(command, on, to, documents, update) ==
  [command |-> command, on |-> on, to |-> to, documents |-> documents, update |-> update]

Nowhere == <<NoName, NoName>>

\* The operations on a collection, a database, the server, and a range.
OnCollection(p) ==
  {Operation(command, p, Nowhere, documents, update) :
     command \in {"insert", "delete", "findAndModify", "find", "count", "distinct"},
     documents \in SUBSET Documents, update \in SUBSET Documents}
  \cup {Operation("drop", p, Nowhere, {}, {})}
  \cup {Operation("renameCollection", p, <<p[1], c>>, {}, {}) : c \in ColNames}

OnDB(d) ==
  {Operation("listCollections", <<d, NoName>>, Nowhere, {}, {})}
  \cup {Operation("create", <<d, c>>, Nowhere, {}, {}) : c \in ColNames}

OnServer == {Operation("listDatabases", <<Admin, NoName>>, Nowhere, {}, {})}

OnRange(p) ==
  {Operation("getMore", p, Nowhere, Documents, {}), Operation("killCursors", p, Nowhere, {}, {})}

Operations ==
  (UNION {OnCollection(opened[h]) : h \in Handles})
  \cup (UNION {OnDB(d) : d \in DBNames})
  \cup OnServer
  \cup (UNION {OnRange(p) : p \in UNION {rangeOf[r] : r \in Ranges}})

-----------------------------------------------------------------------------
Init ==
  /\ opened \in [Handles -> Pairs]
  /\ rangeOf = [r \in Ranges |-> {}]
  /\ concerns = [s \in Subjects |-> [k \in Kinds |-> Unset]]
  /\ told = Unset
  /\ store = [p \in {} |-> {}]
  /\ called = {} /\ answered = {} /\ response = Refused

Open ==
  /\ \E h \in Handles, p \in Pairs : opened' = [opened EXCEPT ![h] = p]
  /\ UNCHANGED <<rangeOf, concerns, told, store, called, answered, response>>

\* A concern is read, or exchanged for another.
Concern ==
  /\ \E s \in Subjects, k \in Kinds :
       /\ told' = concerns[s][k]
       /\ \/ UNCHANGED concerns
          \/ \E v \in Concerns : concerns' = [concerns EXCEPT ![s] = [@ EXCEPT ![k] = v]]
  /\ UNCHANGED <<opened, rangeOf, store, called, answered, response>>

\* A range begins or ends with an operation on its collection.
Call ==
  /\ called = {}
  /\ \E op \in Operations :
       /\ called' = {op}
       /\ \/ UNCHANGED rangeOf
          \/ /\ op.command = "find"
             /\ \E r \in Ranges : rangeOf[r] = {} /\ rangeOf' = [rangeOf EXCEPT ![r] = {op.on}]
          \/ /\ op.command = "killCursors"
             /\ \E r \in Ranges : rangeOf[r] = {op.on} /\ rangeOf' = [rangeOf EXCEPT ![r] = {}]
  /\ UNCHANGED <<opened, concerns, told, store, answered, response>>

Execute ==
  /\ answered = {}
  /\ \E op \in called : \E o \in Outcomes(op, store) :
       store' = o.store /\ answered' = {o.reply}
  /\ UNCHANGED <<opened, rangeOf, concerns, told, called, response>>

Return ==
  /\ \E r \in answered : response' = r
  /\ called' = {} /\ answered' = {}
  /\ UNCHANGED <<opened, rangeOf, concerns, told, store>>

\* An operation may fail, carried out or not, without an answer.
Fail ==
  /\ response' = Refused /\ called' = {} /\ answered' = {}
  /\ UNCHANGED <<opened, rangeOf, concerns, told, store>>

\* A range ends without telling the server.
Forget ==
  /\ \E r \in Ranges : rangeOf' = [rangeOf EXCEPT ![r] = {}]
  /\ UNCHANGED <<opened, concerns, told, store, called, answered, response>>

Next == Open \/ Concern \/ Call \/ Execute \/ Return \/ Fail \/ Forget

Spec == Init /\ [][Next]_vars

===============================================================================
