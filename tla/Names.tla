--------------------------------- MODULE Names ---------------------------------
(***************************************************************************)
(* DB and Collection objects, the commands sent through them and the       *)
(* concerns kept for them.  A Collection keeps one string for the names of *)
(* its database and its own, from which every command takes the two apart  *)
(* again; read and write concerns are kept by that string, too.            *)
(*                                                                         *)
(* A name is a sequence of characters, of which only those that separate   *)
(* names are told from others.  One thread uses one connection; when a     *)
(* command fails it fails for good (see Commands).                         *)
(*                                                                         *)
(* An operator whose comment begins with "Mistaken" is a variant of the    *)
(* one after it that no behaviour uses: a plausible mistake, which a       *)
(* property has to notice when it takes the place of the original.         *)
(***************************************************************************)
EXTENDS Integers, Sequences, DocumentStore

CONSTANTS
  Chars, Colon, Dot,  \* the characters of names, and two of them
  DBNames, ColNames,  \* the names the program uses
  Admin,              \* the name of the database for administration
  Documents,          \* the documents of a collection
  Kinds, Concerns,    \* read and write, and what a concern may be set to
  Unset,              \* the concern that was never set
  Handles, Ranges,    \* the Collection objects, and the results of find()
  MaxSteps            \* bound: commands and concerns the program uses

ASSUME NamesAssumption ==
  /\ Colon \in Chars /\ Dot \in Chars /\ Colon # Dot
  /\ DBNames \subseteq Seq(Chars) /\ ColNames \subseteq Seq(Chars)
  /\ Admin \in Seq(Chars)
  /\ Unset \notin Concerns /\ MaxSteps \in Nat

VARIABLES
  opened,       \* the names each Collection was made with
  name,         \* the string it keeps
  rangeOf,      \* the collection each range in use was found in, in a set
  ranges,       \* the names its data keeps, in a set
  concern,      \* the concerns of the ThorsMongo object
  databases, collections, \* std::map: those of databases and collections
  told,         \* the concern the program was told last
  good,         \* the stream's state
  called,       \* the operation the program waits for, in a set
  toServer, toClient,     \* its request or the reply, on its way, in a set
  store,        \* the server's collections
  response,     \* what the last command returned
  steps

objects == <<opened, name>>
cursors == <<rangeOf, ranges>>
settings == <<concern, databases, collections, told>>
exchange == <<good, called, toServer, toClient, store, response>>
vars == <<objects, cursors, settings, exchange, steps>>

-----------------------------------------------------------------------------
(* Names. *)

\* The string a Collection keeps.
Combined(d, c) == d \o <<Colon, Colon>> \o c

\* Where two colons stand.
Separators(n) == {i \in 1 .. Len(n) - 1 : n[i] = Colon /\ n[i + 1] = Colon}

\* Mistaken: it finds the last.
rfind(n) == CHOOSE i \in Separators(n) : \A j \in Separators(n) : j <= i

\* find("::")
find(n) == CHOOSE i \in Separators(n) : \A j \in Separators(n) : i <= j

dbName(n) == SubSeq(n, 1, find(n) - 1)
colName(n) == SubSeq(n, find(n) + 2, Len(n))

\* What renameCollection writes, and how the server reads it: a database's
\* name has no dot.
Dotted(d, c) == d \o <<Dot>> \o c

Dots(n) == {i \in 1 .. Len(n) : n[i] = Dot}

Undotted(n) ==
  LET dot == CHOOSE i \in Dots(n) : \A j \in Dots(n) : i <= j
  IN  <<SubSeq(n, 1, dot - 1), SubSeq(n, dot + 1, Len(n))>>

Pairs == DBNames \X ColNames
Operation(command, on, to, documents, update) ==
  [command |-> command, on |-> on, to |-> to, documents |-> documents, update |-> update]
Nowhere == <<<<>>, <<>>>>

\* A request has the names as they are sent.
Message(command, db, collection, to, documents, update) ==
  [command |-> command, db |-> db, collection |-> collection, to |-> to,
   documents |-> documents, update |-> update]

\* What the server takes a request for.
Understood(q) ==
  IF q.command = "renameCollection"
    THEN Operation(q.command, Undotted(q.collection), Undotted(q.to), {}, {})
    ELSE Operation(q.command, <<q.db, q.collection>>, Nowhere, q.documents, q.update)

-----------------------------------------------------------------------------
(* Objects and concerns. *)

Init ==
  /\ opened \in [Handles -> Pairs]
  /\ name = [h \in Handles |-> Combined(opened[h][1], opened[h][2])]
  /\ rangeOf = [r \in Ranges |-> {}] /\ ranges = [r \in Ranges |-> {}]
  /\ concern = [k \in Kinds |-> Unset]
  /\ databases = [n \in {} |-> {}] /\ collections = [n \in {} |-> {}]
  /\ told = Unset
  /\ good = TRUE
  /\ called = {} /\ toServer = {} /\ toClient = {}
  /\ store = [p \in {} |-> {}]
  /\ response = Refused
  /\ steps = 0

\* A Collection is made: mongo[d][c].  DB objects are the names in DBNames.
OpenCollection ==
  /\ called = {}
  /\ \E h \in Handles, p \in Pairs :
       /\ opened' = [opened EXCEPT ![h] = p]
       /\ name' = [name EXCEPT ![h] = Combined(p[1], p[2])]
  /\ UNCHANGED <<cursors, settings, exchange, steps>>

Default == [k \in Kinds |-> Unset]

Entry(m, key) == IF key \in DOMAIN m THEN m[key] ELSE Default

\* Mistaken: an entry that is there is made anew.
Renewed(m, key) == [n \in DOMAIN m \cup {key} |-> IF n = key THEN Default ELSE m[n]]

\* std::map::operator[] puts a default entry where there is none.
Touched(m, key) == [n \in DOMAIN m \cup {key} |-> Entry(m, n)]

\* A getter, or a setter, which is std::exchange(), on a map's entry.
Exchanged(m, key, k) ==
  {Touched(m, key)}
  \cup {[Touched(m, key) EXCEPT ![key] = [@ EXCEPT ![k] = v]] : v \in Concerns}

\* The program's next step; it waits for the reply to a command.
Step == called = {} /\ steps < MaxSteps /\ steps' = steps + 1

ServerConcern ==
  /\ Step
  /\ \E k \in Kinds :
       /\ told' = concern[k]
       /\ \/ UNCHANGED concern
          \/ \E v \in Concerns : concern' = [concern EXCEPT ![k] = v]
  /\ UNCHANGED <<databases, collections, objects, cursors, exchange>>

DBConcern ==
  /\ Step
  /\ \E d \in DBNames, k \in Kinds :
       /\ told' = Entry(databases, d)[k]
       /\ databases' \in Exchanged(databases, d, k)
  /\ UNCHANGED <<concern, collections, objects, cursors, exchange>>

CollectionConcern ==
  /\ Step
  /\ \E h \in Handles, k \in Kinds :
       /\ told' = Entry(collections, name[h])[k]
       /\ collections' \in Exchanged(collections, name[h], k)
  /\ UNCHANGED <<concern, databases, objects, cursors, exchange>>

-----------------------------------------------------------------------------
(* Commands.  Each makes its message, sends it, and waits. *)

\* Mistaken: the program need not wait for the last reply.
SendAhead(q, op) ==
  /\ steps < MaxSteps /\ steps' = steps + 1 /\ good
  /\ called' = {op} /\ toServer' = toServer \cup {q}
  /\ UNCHANGED <<good, toClient, store, response>>

\* A command that cannot be sent returns the response it began with.
Send(q, op) ==
  /\ Step
  /\ IF good
       THEN called' = {op} /\ toServer' = {q} /\ UNCHANGED response
       ELSE response' = Refused /\ UNCHANGED <<called, toServer>>
  /\ UNCHANGED <<good, toClient, store>>

\* A command on a collection that keeps no range.
OnCollection(h, command, documents, update) ==
  /\ Send(Message(command, dbName(name[h]), colName(name[h]), <<>>, documents, update),
          Operation(command, opened[h], Nowhere, documents, update))
  /\ UNCHANGED <<objects, cursors, settings>>

insert == \E h \in Handles, d \in Documents : OnCollection(h, "insert", {d}, {})

remove == \E h \in Handles, d \in Documents : OnCollection(h, "delete", {d}, {})

\* findAndReplaceOne(), findAndUpdateOne() and, with no update, findAndRemoveOne().
findAndModify ==
  \E h \in Handles, d \in Documents, update \in {{}} \cup {{e} : e \in Documents} :
    OnCollection(h, "findAndModify", {d}, update)

countDocuments == \E h \in Handles : OnCollection(h, "count", Documents, {})

distinct == \E h \in Handles : OnCollection(h, "distinct", Documents, {})

drop == \E h \in Handles : OnCollection(h, "drop", {}, {})

RenameCollection(d, from, to) ==
  Message("renameCollection", Admin, Dotted(d, from), Dotted(d, to), {}, {})

\* The object keeps the name it has.
rename ==
  /\ \E h \in Handles, c \in ColNames :
       Send(RenameCollection(dbName(name[h]), colName(name[h]), c),
            Operation("renameCollection", opened[h], <<opened[h][1], c>>, {}, {}))
  /\ UNCHANGED <<objects, cursors, settings>>

createCollection ==
  /\ \E d \in DBNames, c \in ColNames :
       Send(Message("create", d, c, <<>>, {}, {}), Operation("create", <<d, c>>, Nowhere, {}, {}))
  /\ UNCHANGED <<objects, cursors, settings>>

listCollections ==
  /\ \E d \in DBNames :
       Send(Message("listCollections", d, <<>>, <<>>, {}, {}),
            Operation("listCollections", <<d, <<>>>>, Nowhere, {}, {}))
  /\ UNCHANGED <<objects, cursors, settings>>

listDatabases ==
  /\ Send(Message("listDatabases", Admin, <<>>, <<>>, {}, {}),
          Operation("listDatabases", <<Admin, <<>>>>, Nowhere, {}, {}))
  /\ UNCHANGED <<objects, cursors, settings>>

\* find(): the range's data copies the names; they are all it knows of the
\* collection when it fetches more, or ends.
findDocuments ==
  /\ \E h \in Handles, r \in Ranges :
       LET n == <<dbName(name[h]), colName(name[h])>>
       IN  /\ rangeOf[r] = {}
           /\ Send(Message("find", n[1], n[2], <<>>, Documents, {}),
                   Operation("find", opened[h], Nowhere, Documents, {}))
           /\ rangeOf' = IF good THEN [rangeOf EXCEPT ![r] = {opened[h]}] ELSE rangeOf
           /\ ranges' = IF good THEN [ranges EXCEPT ![r] = {n}] ELSE ranges
  /\ UNCHANGED <<objects, settings>>

getMore ==
  /\ \E r \in Ranges : \E p \in rangeOf[r], n \in ranges[r] :
       Send(Message("getMore", n[1], n[2], <<>>, Documents, {}),
            Operation("getMore", p, Nowhere, Documents, {}))
  /\ UNCHANGED <<objects, cursors, settings>>

\* ~CursorData(), with a cursor.
killCursor ==
  /\ good
  /\ \E r \in Ranges : \E p \in rangeOf[r], n \in ranges[r] :
       /\ Send(Message("killCursors", n[1], n[2], <<>>, {}, {}),
               Operation("killCursors", p, Nowhere, {}, {}))
       /\ rangeOf' = [rangeOf EXCEPT ![r] = {}] /\ ranges' = [ranges EXCEPT ![r] = {}]
  /\ UNCHANGED <<objects, settings>>

\* ~CursorData(), without a cursor, or when the message cannot be sent.
Forget ==
  /\ called = {}
  /\ \E r \in Ranges :
       rangeOf' = [rangeOf EXCEPT ![r] = {}] /\ ranges' = [ranges EXCEPT ![r] = {}]
  /\ UNCHANGED <<objects, settings, exchange, steps>>

-----------------------------------------------------------------------------
(* The server, the reply, and a connection that is lost. *)

Serve ==
  /\ \E q \in toServer : \E o \in Outcomes(Understood(q), store) :
       store' = o.store /\ toClient' = {o.reply}
  /\ toServer' = {}
  /\ UNCHANGED <<good, called, response, objects, cursors, settings, steps>>

Receive ==
  /\ \E r \in toClient : response' = r
  /\ called' = {} /\ toClient' = {}
  /\ UNCHANGED <<good, toServer, store, objects, cursors, settings, steps>>

\* The reply never comes, or is not accepted.
Lose ==
  /\ called # {}
  /\ good' = FALSE /\ response' = Refused
  /\ called' = {} /\ toServer' = {} /\ toClient' = {}
  /\ UNCHANGED <<store, objects, cursors, settings, steps>>

Concerning == ServerConcern \/ DBConcern \/ CollectionConcern

Command ==
  \/ insert \/ remove \/ findAndModify \/ countDocuments \/ distinct
  \/ drop \/ rename \/ createCollection \/ listCollections \/ listDatabases
  \/ findDocuments \/ getMore \/ killCursor

Next == OpenCollection \/ Concerning \/ Command \/ Forget \/ Serve \/ Receive \/ Lose

Spec == Init /\ [][Next]_vars

-----------------------------------------------------------------------------
(* Properties. *)

\* The names the code is made for: splitting finds the end of a database's
\* name, and the server the dot behind it.
Plain(d) ==
  /\ \A i \in 1 .. Len(d) : d[i] # Dot
  /\ \A i \in 1 .. Len(d) - 1 : d[i] # Colon \/ d[i + 1] # Colon
  /\ d # <<>> => d[Len(d)] # Colon

PlainNames == \A d \in DBNames : Plain(d)

ConcernOf == [Kinds -> Concerns \cup {Unset}]

ObjectsOK == opened \in [Handles -> Pairs] /\ name \in [Handles -> Seq(Chars)]

CursorsOK ==
  /\ rangeOf \in [Ranges -> SUBSET Pairs]
  /\ \A r \in Ranges : \A p, q \in rangeOf[r] : p = q
  /\ ranges \in [Ranges -> SUBSET (Seq(Chars) \X Seq(Chars))]

SettingsOK ==
  /\ concern \in ConcernOf /\ told \in Concerns \cup {Unset}
  /\ DOMAIN databases \subseteq DBNames /\ DOMAIN collections \subseteq Seq(Chars)
  /\ \A d \in DOMAIN databases : databases[d] \in ConcernOf
  /\ \A n \in DOMAIN collections : collections[n] \in ConcernOf

\* One operation at a time, its request or its reply on the way.
ExchangeOK ==
  /\ good \in BOOLEAN /\ steps \in 0 .. MaxSteps
  /\ \A p \in DOMAIN store : store[p] \subseteq Documents
  /\ \A q \in toServer : q.documents \subseteq Documents /\ q.update \subseteq Documents
  /\ \A p, q \in called : p = q
  /\ \A p, q \in toServer : p = q
  /\ \A p, q \in toClient : p = q
  /\ toServer # {} => called # {} /\ toClient = {}
  /\ toClient # {} => called # {}

TypeOK == ObjectsOK /\ CursorsOK /\ SettingsOK /\ ExchangeOK

\* Whatever the names, every request on its way is understood by the server
\* as the operation, on the database and collection, that the program called
\* for; a range's later requests reach the collection it was found in.
ReachesNamed == {Understood(q) : q \in toServer} \subseteq called

\* The concerns as the promise speaks of them.
ConcernsOf(s) ==
  CASE Len(s) = 0 -> concern
    [] Len(s) = 1 -> Entry(databases, s[1])
    [] Len(s) = 2 -> Entry(collections, Combined(s[1], s[2]))

Promise == INSTANCE NamedStore WITH
  NoName <- <<>>,
  concerns <- [s \in {<<>>} \cup {<<d>> : d \in DBNames} \cup Pairs |-> ConcernsOf(s)],
  answered <- toClient

\* Handles made with the same names stand for the same collection and share
\* its concerns, those made with different names share nothing, and each
\* operation is carried out where it was called for, at most once.
ImplementsNamedStore == Promise!Spec

===============================================================================
