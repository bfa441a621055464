---------------------------- MODULE DocumentStore ----------------------------
(***************************************************************************)
(* The server's side of a command, as far as a client relies on it: the    *)
(* collections, named by a pair of database and collection, and what an    *)
(* operation makes of them.  A store is a function from the pairs that     *)
(* exist to sets of documents.                                             *)
(*                                                                         *)
(* An operation is a record of its command, the collection it is on, the   *)
(* one it renames that to, the documents it inserts or matches, and those  *)
(* it puts in their place.                                                 *)
(***************************************************************************)

Held(s, p) == IF p \in DOMAIN s THEN s[p] ELSE {}

With(s, p, documents) ==
  [q \in DOMAIN s \cup {p} |-> IF q = p THEN documents ELSE s[q]]

Without(s, p) == [q \in DOMAIN s \ {p} |-> s[q]]

\* Only these mind whether the collection is there.
Applicable(op, s) ==
  /\ op.command = "create" => op.on \notin DOMAIN s
  /\ op.command \in {"drop", "renameCollection"} => op.on \in DOMAIN s

\* A document is replaced only if it was found.
Applied(op, s) ==
  LET held == Held(s, op.on) IN
  CASE op.command = "insert" -> With(s, op.on, held \cup op.documents)
    [] op.command = "create" -> With(s, op.on, {})
    [] op.command = "drop" -> Without(s, op.on)
    [] op.command = "renameCollection" -> With(Without(s, op.on), op.to, held)
    [] op.command \in {"delete", "findAndModify"} /\ held \cap op.documents # {} ->
         With(s, op.on, (held \ op.documents) \cup op.update)
    [] OTHER -> s

\* The names in a listing of collections, or of databases.
Listed(op, s) ==
  CASE op.command = "listCollections" -> {p[2] : p \in {q \in DOMAIN s : q[1] = op.on[1]}}
    [] op.command = "listDatabases" -> {p[1] : p \in DOMAIN s}
    [] OTHER -> {}

Refused == [ok |-> FALSE, documents |-> {}, names |-> {}]

\* The server applies an operation and answers, or refuses it, as it may for
\* reasons of its own: rights, options such as dropTarget, cursors timed out.
Outcomes(op, s) ==
  {[store |-> s, reply |-> Refused]}
  \cup IF Applicable(op, s)
         THEN {[store |-> Applied(op, s),
                reply |-> [ok |-> TRUE, documents |-> Held(s, op.on) \cap op.documents,
                           names |-> Listed(op, s)]]}
         ELSE {}

==============================================================================
