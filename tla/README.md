# ThorsMongo in TLA+

ThorsMongo is a MongoDB client library in C++: BSON documents over a socket,
wrapped in OP_MSG messages, with checksums, compression, SCRAM authentication,
commands and cursors. These modules model what happens between a call of the
library and the server and are checked by TLC on small instances; most of what
is checked of each is also proved by TLAPS, for all instances.

All paths below are relative to `src/ThorsMongo/` of the repository.

## The system

| component | state it keeps | operations | depends on |
|---|---|---|---|
| read side of `ConnectionBufferMongo` | `inMessageSize`, the get area, `inCount`, `underflowNeeds` | `underflow()`, `xsgetn()`, `seekoff()` | the socket; snappy; CRC-32C |
| write side of `ConnectionBufferMongo` | `outMessageSize`, `outMessagePlaced`, the put area, `useCompressionOnWrite` | `overflow()`, `xsputn()`, `sync()` | the socket; snappy; CRC-32C |
| `ConnectionMongo` | the iostream's state, one for both directions | what iostream has; move | the buffer |
| `MessageHandler` | the connection; the static counter of message ids | `sendMessage()`, `recvMessage()`, `setCompression()` | the connection |
| authentication | the registered mechanisms | `handShake()`, `authenticteHandShake()`, `ScramSha256::authenticate()` | the message handler; ThorsCrypto |
| `ThorsMongo`, `DB`, `Collection` | shared maps of read and write concerns, the combined name `db::collection` | the commands: insert, remove, findAndModify, count, distinct, admin, list databases | the message handler |
| find, listCollections, cursors | `CursorData`: the last reply, `offset`, `postSave`; `Range` and its iterator share it | `find()`, `begin()`, `++`, `*`, `checkAvailable()`, `getMore()`, `~CursorData()` | the message handler |
| queries and updates | none: types composed at compile time | BSON traits, `Actions` | ThorsSerializer; read by the server |
| configuration, results | property bags | BSON traits | ThorsSerializer |

How they interact: a command prints itself to the connection's stream
(`sendMessage`), the buffer collects the bytes until the message is as long as
its first four bytes say and `sync()` sends it; `recvMessage()` reads the block
and the document, for which the buffer pulls a message off the socket, and
checks id, size, op code and checksum. A failed check fails the stream, which
is what later commands find. Everything on one connection is sequential; what
is concurrent is the server, the network, and other connections, with which
only the counter of message ids is shared. Cursors call back: an iterator's
increment sends `getMore`, a range's destructor sends `killCursors`.

What is hard here:

* messages cut at any byte by the socket, in a buffer that must know where each
  one begins, with non-blocking and blocking reads mixed (`underflow()`);
* sizes that are unsigned differences of pointers and of lengths;
* failure in the middle: of a message written, of a message read, between a
  request and its reply, between two exchanges of the handshake;
* what the stream's single state bit has to carry: after an exchange whose
  outcome is unknown nothing later may be executed or believed;
* ids that come from a shared counter and wrap around;
* the boundary between two batches of a cursor, with two forms of increment,
  shared by copies of the range; a cursor's life at the server;
* filters and updates that are typed in the program and names and values on the
  wire, where nothing but agreement with the server says what they mean; results
  that tell of a partial success.

`PROJECT.json` lists these hazards one by one with their lines and the
properties that would notice them going wrong, and those that no property
covers yet, with the reason.

What makes each part correct, in a sentence: the reader sees the server's bytes
in order, verified, and all of them; the socket gets whole messages and the
program knows which; a reply is believed only by the call it answers, and a
command is executed at most once; a client is ready only if authenticated and
compresses only what was agreed; a loop over a result sees every document once
and leaves no cursor behind; a filter or an update does what its type says, and
the result of a call is enough to know what was done.

## The modules

| module | models | abstract specification |
|---|---|---|
| `ReadBuffer` | the read side of the buffer | `ReplyStream` |
| `ReadBufferProofs` | theorems about `ReadBuffer` | |
| `WriteBuffer` | the write side, and `sendMessage()` feeding it | |
| `WriteBufferProofs` | theorems about `WriteBuffer` | |
| `Commands` | `sendMessage()`, `recvMessage()` and the commands, on several connections | `RemoteCall` |
| `CommandsProofs` | theorems about `Commands` | |
| `Authenticate` | the handshake | |
| `AuthenticateProofs` | theorems about `Authenticate` | |
| `Cursor` | find, listCollections, getMore, killCursors and the ranges | |
| `CursorProofs` | theorems about `Cursor` | |
| `Names` | `DB` and `Collection` handles, the commands sent through them, the concerns kept for them | `NamedStore` |
| `DocumentStore` | the server's collections, for both of these (external) | |
| `NamesProofs` | theorems about `Names` | |
| `Queries`, `Updates` | the types of `MongoQuery.h` and `MongoUpdate.h`, as what they are written as | |
| `Documents` | insert, remove, countDocuments, findAndModify on the documents of a collection | `DocumentSet` |
| `MongoServer` | what a server makes of filters, updates and commands (external) | |
| `ExpressionsProofs` | theorems about `Queries` and `Updates`, as `MongoServer` reads them | |
| `DocumentsProofs` | theorems about `Documents` | |
| `MC...` | each of these with small constants | |

In every module an operator whose comment begins with "Mistaken" is a variant
of the operator after it that no behaviour uses, with the same parameters: a
plausible mistake. Each property was seen to fail when the variant takes the
place of the original, which shows that the property depends on that code.

### ReadBuffer

A byte is its position in the stream of uncompressed replies, so a correct
reader sees 0, 1, 2, ... with the checksum's places taken by `Zero`. Other
codes are bytes that the server did not send. `gptr` and `egptr` are offsets
from `eback()`, `sock` counts the bytes taken from the socket.

A call of `xsgetn()` (with the `underflow()` in it) is split at its socket
reads: `Refuse` and `Call` are its entry, `NextHeader` reads the next header,
`Inflate` reads and decompresses the rest of a compressed message,
`FillRefused`, `FillComplete` and `Fill` are the second half of `underflow()`,
`Copy` is its return. The checksum that `underflow()` XORs into the end of the
buffer is in `Verified`. What a read of the socket may return is in
`BlockingRead` and `TryRead`; `Cuts` says where the server may close,
`PartialArrivals` whether a non-blocking read may return a part of a message.

The reader asks for what `recvMessage()` and the BSON parser ask for: the
block, pieces of the document, the checksum. A reader with wrong bytes in its
hands may ask for anything (`Requests`).

External: that a checksum matches exactly when all bytes are the server's, and
that snappy restores intact data and, of a torn message, may restore a part.

### WriteBuffer

A byte is a message and a place in it; what the bytes of a message's block hold
is `Header`, of which the size is read (`SizeIn`, `Number`). `Xsputn`, `Sputc`
(with the `overflow()` they call) and `Sync` are the buffer; `Write`, `Flush`
and `SetCompression` its use by the message handler. `Size` is what the header
announces, `Written` what the serializer then writes. `Places` is the loop of
`xsputn()` over the size field: it passes each byte to `overflow()` as a `char`,
taken to be signed, and the byte 0xFF (`Eof`), which then is `eof()`, is
accepted without being placed. `sputc()` passes an unsigned value and places
every byte. `Transmit` is `writeToStream()`, whose result `sync()` ignores: the
socket may fail after any number of bytes of a message (`torn`), and takes
nothing after that. `ReadFails` is the other direction of the same stream.
`wrapped` remembers that an unsigned size was computed below zero, `overread`
that bytes past the end of a write were read. `FlushChecks` is the library:
`std::ostream::flush()` builds a sentry in the current standard and does not
reach `sync()` on a failed stream; older libraries do.

### Commands and RemoteCall

A connection is used by a thread of its own: `Number` (the header of
`sendMessage()`, with the id from the shared counter), `Send` or `SendFails`,
`Receive` or `ReceiveFails`, and the return of the command with its response,
or by exception. `Flags` are the message flags the user of each connection may
set. `Execute` is the server, `Close` the network. `results`, `executed` and the
`call` of requests and replies are history; the program only knows message ids.

`RemoteCall` is what a program may rely on: a command is executed at most once
and in order, "ok" means that it was executed, and nothing is executed after a
call that failed.

### Authenticate

One action per exchange (`HandShake`, `Start`, `Proof`, `Finish`), then what may
be done with the message handler: `Command`, and a second handshake after a
failed one (`Again`). The server's side is what it supports, offers, agreed to,
and how far its conversation is.

### Cursor

`CursorData` is `ok`, `id`, `batch`, `offset`, `postSave`; a `Range` is counted
by `copies`, its iterator is `iter`. `Step` is a round of a loop, in the two
forms `*it, ++it` and `*it++`, which read the batch before and after
`checkAvailable()`. Commands are single steps: one thread uses the connection.
Of the server: the documents sent, whether the cursor is open, whether it timed
it out, whether it refused a command on it; one that refuses a getMore may keep
the cursor. `killCursor` is the message that the last copy of a range sends when
it goes (`Drop`). The reply's outcome is what `Commands` says of a command, with
the documents added. `Find` and `ListCollections` make a range; they differ in
the collection named in the commands that follow (`colName`), which is none for
a listing.

### Names, NamedStore and DocumentStore

A `Collection` keeps one string, the database's name, `::` and its own name,
and takes the two apart again for every command (`Combined`, `dbName`,
`colName`). A name is a sequence of characters, of which a colon, a dot and
"any other" are told apart. Every command has its action: it makes its message
as the code does (`Message`, `RenameCollection`), sends it and waits (`Send`).
`Serve` is the server, which reads names out of the message (`Understood`) and
does to its collections what `DocumentStore` says, or refuses; `Receive` is the
answer, `Lose` a connection that fails, for good. `findDocuments` starts a
range, whose data keeps a copy of the names; handles may be made again for
other collections, or the collection renamed, while ranges are in use.
`ServerConcern`, `DBConcern` and `CollectionConcern` are the getters and
setters, with the map entries they create on the way (`Touched`).

`NamedStore` is the promise: there, names are values, a handle stands for a pair
of them, an operation is carried out on that pair at most once, and a concern
belongs to the server, to a database or to a collection by name. The refinement
forgets the strings and reads the concerns out of the maps (`ConcernsOf`).

### Queries, Updates, Documents and DocumentSet

`Queries` and `Updates` have an operator for each class template, which gives
the document it is written as: the key its traits name, and the members in it.
What a program composes is the sequence of its parts; a part that is the
argument of another comes before it and is named by its place (`WellFormed`).
Nothing is lost by that, as the types of a filter form a tree, and what is
written, `Written`, is one step for each part, as is what the server makes of it
(`Matches`): functions on places, where operators on trees would have to be
recursive and could not be proved about. `WrittenUpdate` is the same for an
update; `Actions` puts the members of several accesses into one document.

`Documents` has an action for each call, which makes its message (`Message`),
sends it and waits; `inserted` is what the serializer leaves in the result of an
insert while it writes. `Serve` lets `MongoServer` read the message. It knows
keys and values and nothing of types: what it makes of them is from the
protocol, and external.

`TypesAssumption` says what the program's types stand for: a field holds
numbers, an array of them or a date, in documents, in what an update gives to it
and in what a filter for equality looks for where an upsert may store it; no
field is named like an operator; no two accesses of an update are of one field
(where they are, the code writes a key twice, below). `AddToSet` takes a value
or `Each`: `MongoUtil.h:82-83` can also write `$position`, `$slice` and `$sort`
for it, and `test/MacroTests.cpp:512` and `:528` do, but a server refuses these
beside `$addToSet`. Of filters, `Not` around a whole filter
(`test/MacroTests.cpp:292`) and an access of a value without an operator are
left out: the first a server refuses, the second is `Eq` to it.

An insert, a removal and an update return `n` and write errors; findAndModify
returns the document and `lastErrorObject`, that is whether an existing document
was updated, and the id of one that was inserted.

`DocumentSet` is the promise. There a filter is a predicate on documents and an
update a relation between a document and the next (`Wanted`, `Changed`), said
as the comments in the two headers do; a call is carried out at most once. One
comment is not followed: `MongoUpdate.h:437` has `Push` with `Sort` order the
values that are added; the promise is that the whole array is put in order, as
a server does and `test/IntegrationConnectionMongoTest.cpp:2830` expects.
Neither module was made from the other: an operator written under another's
key, an argument in the wrong place, a limit or a sort the wrong way round make
them disagree. Results of refused calls are left open, as `ok` is all a program
may go by then.

## The runs

Eight runs have to hold and four show that the code does not do what its
comments or documents say.

| run | instance | states | shows |
|---|---|---|---|
| `ReadBuffer_whole` | 3 replies, one compressed, two with checksums; non-blocking reads return all or nothing; closes anywhere but inside compressed data | 365 | bytes in order, verified, all delivered; failure only on a close; implements `ReplyStream` |
| `ReadBuffer_partial` | 4 replies, three with checksums, one compressed, one of an unknown kind; reads cut at any byte; closes anywhere | 1 902 621 | the frame is never lost, pointers stay in the message, `tellg()` is exact, a zero check vouches for the message |
| `ReadBuffer_overwrite` | plain replies, partial arrivals | violation | a topped-up read overwrites itself |
| `ReadBuffer_short` | plain replies, partial arrivals | violation | with every byte so far correct, a read comes back short on a healthy connection |
| `WriteBuffer_messages` | 6 messages: exact with checksum; too few, exact or too many bytes; in single bytes; too small a size; two with a byte 0xFF in the size; a socket that fails anywhere | 5 265 | whole messages only, but for a torn last one; success reported for exactly those; a good first message is sent; nothing undefined |
| `Commands_calls` | 2 connections, 2 calls each, 4 message ids, one of the users sets any flag, every fault | 267 416 | every call returns; no reply is taken for another's; nothing executed after a failure; in step; implements `RemoteCall` |
| `Cursor_faults` | 2 ranges of 3 and 2 documents, found or listed, batches of at most 2, 2 copies, every fault | 74 063 | documents in order, complete when it says so, no cursor left, loops end |
| `Cursor_complete` | the same, no faults, no listings | violation | a range read to its end reports failure |
| `Cursor_listing` | the same, no faults, listings | violation | a listing longer than a batch ends with the batch |
| `Names_commands` | one handle, made again at will, 2 databases and 3 collections with colons and dots in their names, 3 steps of the program | 654 420 | requests reach what they name; implements `NamedStore` |
| `Authenticate_handshake` | any list of up to 2 mechanisms, any compressions, 2 uses afterwards, every fault | 4 556 | ready means authenticated; failure is final; compression only as agreed |
| `Documents_calls` | 2 calls on up to 3 documents with numbers, a date and an array; 35 filters with every operator, 28 updates with every operator, limits, skips, sorts, upserts; refusals of a call or of a statement, a connection that is lost | 456 272 | calls do what their types promise, at most once; an insert's result tells what is stored |

### Bounds, and why they are enough

* `ReadBuffer`: the sizes keep the order of the real ones (header < block <
  message, a checksum shorter than the block). Three replies are one to be in,
  one before and one after; of sizes 10, 9 and 8, so that every length of read
  within a document occurs. `ReadBuffer_partial` has them of sizes 7, 9, 7 and 6:
  where a longer message follows a shorter one, what a topped-up read leaves of
  the earlier message in the buffer may be the zero of its checksum, which is
  then handed out in the middle of the later one. `MaxRequest` is longer than
  any message, so that refusals occur. The proofs remove these bounds for all of
  the safety properties.
* `WriteBuffer`: a size field of 2 and a block of 4 bytes, so that every way of
  cutting a message into writes is tried, within and after the size field. Bytes
  hold 0 to 3, so that 3 stands for 0xFF. The six messages are what may go wrong
  with one followed by another, and any of them may be the first; of the two with
  3 in the size, one is misread as a size that fits in the buffer, the other as
  one that does not. The proofs remove the bounds for messages written as
  `sendMessage()` writes them.
* `Commands`: there are as many ids as calls, so that none is used twice, and the
  run says nothing of what comes after 2^32 messages. With fewer ids `OwnAnswer`
  fails where several replies are allowed, as the second reply is accepted by the
  next call with the same id; the code relies on ids in flight being different.
  For calls of one reply the proofs show that any number of ids will do, even one.
* `Cursor`: three documents in batches of two are a first batch, one that is
  fetched, and a boundary in the middle; the range with two ends exactly at the
  end of a batch. The proofs remove the bounds.
* `Names`: a database's name with a single colon inside, collections whose
  names begin with the separator, end with it, or hold a dot, are the ways in
  which splitting can go wrong; a range, a renaming and a command, or two
  concerns and one of them read again, take three steps. One handle is enough,
  as handles of one name share everything and a handle is only its string. The
  proofs remove the bounds. `PlainNames`, asserted in `MCNames`, is not a bound
  but what the code relies on (below).
* `Authenticate`: lists of two mechanisms, one of them registered, have it
  first, last, missing, twice. The proofs remove the bounds.
* `Documents`: a second call finds what the first left, with an answer, without
  one or refused; three ids are two documents and a new one, or a clash. Two
  documents that differ in every field, one of which lacks a field, make every
  operator of a filter true and false. Every operator occurs on its own, logical
  ones around others two levels deep. Updates and removals search with a filter
  on a number and one on an array, as what a filter finds is settled by counting.
  Masks are of 8 bits (`Places`, `Mask`), and the numbers of the run smaller. The
  proofs remove the bounds but this one.

`ReadBuffer_whole` leaves out two things on purpose, because the code does not
handle them: partial arrivals (`ReadBuffer_overwrite` and `ReadBuffer_short`
show what happens) and a close within compressed data (below).
`WriteBuffer_messages` writes single bytes only of a message that is as long as
announced (below), and messages with 0xFF in the size never up to the size that
is read instead (`NotMisread`, below). `Cursor_faults` leaves out empty batches
of live cursors, which the code takes for the end of the result (below).

### Fairness

* `ReadBuffer`: `WF_vars(Next)`. There is one thread; each of its steps is a
  socket read that returns because the server sent the bytes or closed.
  `EventuallyAll` is about runs in which the connection stays open.
* `Commands`: weak fairness of the part of a thread inside a command, for each
  connection, and of the server. Nothing makes a program start a command or a
  connection close.
* `Authenticate`: weak fairness of the exchanges; nothing makes the program use
  the handler afterwards.
* `Cursor`: weak fairness of a loop's rounds, not of copies, drops or timeouts.
* `Documents`, `Names`, `WriteBuffer`: none; what they promise is safety. That
  calls return is `CommandReturns` of `Commands`.

`LoopsEnd` and `CommandReturns` depend on the server answering or closing: the
code has no timeouts. `CommandReturns` is about calls without `moreToCome`, to
which no reply comes; such a call waits until the connection closes.

## The proofs

Every module with actions is proved about, each from an inductive invariant,
`IInv`, that TLC had checked before; what the bytes are that `ReadBuffer` hands
out takes three more, which rest on it. A theorem that needs more than the
assumptions its module makes of the constants says so before `Spec`.

`ReadBufferProofs` proves for every value of the constants that satisfy the
assumptions in `ReadBuffer` (sizes ordered as in the protocol, every message
within the reserved space, `Start` and `WireStart` the running sums), for
partial and whole arrivals, closes anywhere, and any reader:

| theorem | property |
|---|---|
| `TypeCorrect` | `TypeOK` |
| `GetAreaBounded` | `GetAreaInMessage` |
| `Framing` | `Framed` |
| `Position` | `PositionIsDelivered` |

All four follow from one inductive invariant, `IInv`. `Framed` is the one that
is far from inductive: it speaks of an open connection and an idle buffer, but
the next header is read in the middle of a call, while `gptr` is still at the
end of the old message, so the invariant says for each `pc` how `sock`, `egptr`
and `inMsg` are related, that a message in the buffer is `inMsg` and has its
size, that a compressed one is there entirely, and that the header state is
reached only when the message was consumed (`MessageInBuffer`,
`CallInProgress`). That the unsigned subtractions of the code do not wrap is
part of it. There is one lemma per group of actions and a theorem `Invariance`
that combines them.

What the bytes are, in the second half of the same module:

| theorem | property | assumes |
|---|---|---|
| `CheckVouches` | `ZeroCheckMeansIntact` | |
| `GotAsSent` | `DeliveredAsSent` | `WholeArrivals`: non-blocking reads return all or nothing, no close within compressed data |
| `OnlyWhenCut` | `FailsOnlyWhenCut` | `WholeArrivals` |
| `NoneUnverified` | `NoRawChecksum` | `WholeArrivals` |
| `Implements` | `ImplementsReplyStream` | `WholeArrivals`, and `NoneOther`: no message of an unknown kind |

For the first, `ContentInv` says where the message in the buffer begins
(`Placed`), that what was handed out of it is still there (`Handed`), because
nothing is stored below `egptr`, and that a complete message with a zero check
is right up to the checksum (`Sealed`). That two messages do not overlap
(`StartsIncrease`) is the one induction, by the least counterexample. For the
second, `Intact` says that all that was retrieved is the server's, and a
complete message verified. The others add that the reads follow the message's
parts (`Aligned`, from what a correct reader asks for, which is why no read is
refused) and that, while the connection is open, the get area holds nothing
before a read or all of the message, and after `underflow()` what the read needs
(`Supplied`): the one way for a read to come back short is then a closed
connection. Without `WholeArrivals` the code does not keep `DeliveredAsSent` and
`FailsOnlyWhenCut`, as `ReadBuffer_overwrite` and `ReadBuffer_short` show, nor
then `ReplyStream`.

`NamesProofs` proves for all sets of names over any
alphabet, any number of handles, ranges, documents, concerns and steps:

| theorem | states | assumes |
|---|---|---|
| `TypeCorrect` | `TypeOK`: types, and one operation at a time | |
| `NamedReached` | `ReachesNamed` | `PlainNames` |
| `Implements` | `ImplementsNamedStore` | `PlainNames` |

The argument rests on `SplitCombined`: if a database's name has no two colons in
a row and none at its end, the first `::` of the combined string is the one that
was put there, so taking it apart gives back both names, and no two pairs make
the same string (`CombinedOnce`); `SplitDotted` is the same for the dot of a
renaming. The inductive invariant `IInv` is `TypeOK`, that a handle's string is
made of the names it was opened with (`NameKept`), that the names a range keeps
are those it was found with, though its handle may have moved on
(`RangesKept`), and `ReachesNamed`: with that, what the server understands is
the operation called for, and `Serve` is the promise's `Execute`. A command on a
failed stream is `Fail`. For the concerns, a getter or setter changes one entry
as seen through `Entry` and no other (`EntryExchanged`), which by `CombinedOnce`
is one subject of the promise.

`WriteBufferProofs`, for all sizes, messages, capacities and socket failures:

| theorem | property | assumes |
|---|---|---|
| `TypeCorrect` | `TypeOK` | |
| `FailedForGood` | `FailureIsFinal` | |
| `WholeMessages` | `OnlyWholeMessages` | `SendMessageOnly`, `NotMisread` |
| `ReportedAsSent` | `SentIsOnWire` | `SendMessageOnly`, `NotMisread` |
| `Defined` | `NothingUndefined` | `SendMessageOnly`, `NotMisread` |

`SendMessageOnly` says that a message's first write is its whole block, as in
`sendMessage()`, and that a failed stream is not synced. `NotMisread` is about
messages that have 0xFF in the size: as many bytes are never written as the size
says that is read instead. A message of which as many are written as announced
keeps to that, since the size that is read has no such byte. Without the two the
theorems do not hold in general (below). While the stream is good the buffer is
empty, `Holding` or `Misheld`: the put area is as long as the header says, and
everything up to `pptr` is the message's, or it is of a size that is not written
up to, and `sync()` fails. Which it is, is `SizeRead`: a size without 0xFF is
placed byte by byte (`PlacedInOrder`, by the first byte that is not), and
`Number` depends on these bytes alone (`NumberSame`). So what `sync()` finds
complete is the message (`SealedIsWhole`), and what is on the wire is known by
its first byte, which tells messages apart (`WholeOnce`, `PrefixOnce`).
`Carried` says for each thing on the wire which message it is, in which order,
and that only the last may be the beginning of one.

`CommandsProofs`, for any number of connections, calls and ids, any flags but
where said, and all faults:

| theorem | property | assumes |
|---|---|---|
| `TypeCorrect` | `TypeOK` | |
| `FailedForGood` | `FailureIsFinal` | |
| `AnsweredByOwn` | `OwnAnswer` | `OneReply` |
| `KeptInStep` | `InStep` | `OneReply` |
| `Implements` | `ImplementsRemoteCall` | `OneReply` |

`OneReply` says that nobody sets `exhaustAllowed`. Then a good connection holds
at most one request or reply, and it is that of the call that waits (`OneInv`):
the order of the connection makes the answers right, and message ids only
confirm it. Where several replies are allowed, the ids are all there is, and
when ids are used again `OwnAnswer` can fail; `Commands_calls` checks that case
with enough of them. `FailureIsFinal` holds in any case, because a stream that
failed is never good again and everything executed was sent on a good one.

`CursorProofs`, for any ranges, results, batches, copies and faults:

| theorem | property | assumes |
|---|---|---|
| `TypeCorrect` | `TypeOK` | |
| `InOrder` | `SeenInOrder` | |
| `CompleteWhenOk` | `OkEndIsComplete` | `~EmptyBatches` |
| `NoneLeft` | `NoCursorLeft` | |
| `HoldsItsOwn` | `IdIsLive` | |

The invariant is one about each range, as ranges touch only their own data and
the stream. `Stocked`: `offset` and the batch together are what the server sent,
and at most one document more, of a reply that was rejected and failed the
stream, so that none can follow it. `Reading`: the iterator points into the
batch whenever it may be read (`StepReads`). `Held`: who holds an id holds that
of a cursor nobody else closed, and who holds none has none, unless it was
refused. That a boundary between batches skips and repeats nothing is
`Restocked`.

`AuthenticateProofs`, for any mechanisms, offers, compressions and failures:
`TypeCorrect` (`TypeOK`), `Authenticated` (`ReadyIsAuthenticated`),
`HandshakeFirst` (`CommandsFollowHandshake`), `Compressed`
(`CompressedIsAgreed`) and `ThrownForEver` (the action property
`ThrownIsFinal`). The invariant relates the client's place in the handshake to
how far the server's conversation is and which messages it has handled.

`ExpressionsProofs` and `DocumentsProofs`, for all documents, filters and
updates of the kinds that `TypesAssumption` names, of any size and composed to
any depth, any number of calls, and all faults:

| theorem | states |
|---|---|
| `MatchesIsWanted` | the server finds a document by what is written of a filter exactly if the filter's types say so |
| `WantedIs` | the promise for a composed filter is what it says of its parts, which come before it |
| `UpdateMeans` | what the server makes of a document by what is written of an update is a document, and the one the update's types promise |
| `DocumentsInvariant` | the inductive invariant |
| `TypeCorrect` | `TypeOK` |
| `InsertedIsStored` | `InsertedTellsStored` |
| `KeepsPromise` | `ImplementsDocumentSet` |

The first is the agreement between three readings of a filter: the keys the
traits write, what the server takes these for, and what the comments say of the
types. For a condition this is one case for each operator (`ConditionMeans`,
`ElementMeans`, `ValueMeans`). For a composed filter both sides are functions on
places that say of a place what it has to do with earlier ones. `WantedIs` and
`FittingIs` show that there are such functions, by adding one place after the
other, and so that `Wanted` means what its definition says; and as the server's
definition and the promise's say the same of every place (`FittingIsMet`), they
are the same function.

For updates the server computes (`Kept` drops values from an array, `SortedBy`
sorts by inserting, `AddedToSet` adds what is missing) and the promise describes
the outcome (`Rest`, `Sorted`, `Joined`). Each of these is an argument about how
far the computation has come (`KeptMeans`, `SortedMeans`, `AddedMeans`), with
`Times` for what a sort must not lose. The one form of induction is `UpTo`, over
a set of numbers, from the least number that is not in it: the library's
induction takes an operator, which the provers cannot put in. `PushMeans` has
positions from the front and the back and slices at both ends, including those
outside the array. `RenamingMeans` and `ApplyingMeans` are about several
accesses at once, which do not disturb each other because no two are of one
field.

The calls follow: `InsertMeans`, `RemoveMeans`, `CountMeans` and `ModifyMeans`
say that each outcome the server may choose is one that the promise allows, by
induction over the statements where there are several; `ServeMeans` combines
them. `InsertedTellsStored` is not inductive: what is returned comes from the
answer on its way and from ids collected when the message was written. So the
invariant says that message, ids and answer are those of the call that waits
(`Waiting`), that nothing is on its way otherwise (`Idle`), and that the answer,
and then the result, tells of the collection as it is (`Told`), which only the
next call may change. In the refinement the six calls are the promise's `Call`,
`Serve` is `Perform`, `Return` and `Fail` are its `Return`, a refusal and a loss
on the way are its `Lose`, and the rest does not show.

Only model-checked: what `SendMessageOnly`, `NotMisread`, `OneReply` and
`~EmptyBatches` leave out, and liveness (`EventuallyAll`, `CommandReturns`,
`LoopsEnd`, `HandshakeEnds`), which the prover cannot do. Masks of more than 8
bits are neither checked nor proved about.

## What the code does otherwise than it says

The four violation runs are described under "findings" in `PROJECT.json`. Met
while modelling, without a run of their own:

* `ConnectionBufferMongo.cpp:88` and `:100`: the reads of a compressed message
  are not checked. If the connection closes within it, the rest of a
  zero-filled vector is decompressed. With a checksum the message is rejected,
  without one it is not.
* `ConnectionBufferMongo.cpp:288`, `:302`: a size field written in single bytes
  is accounted for in `outMessagePlaced` but not in `pptr()`, as `setp()` begins
  at `pbase()` again, so what follows overwrites it. Written together with too
  long a body it makes a message of the right length with wrong bytes.
  `sendMessage()` writes the block in one.
* `ConnectionBufferMongo.cpp:275-277`, `:322`: a message with a byte 0xFF in its
  size, of 255 or 511 bytes for example, gets another size and is never sent,
  although `:313` says of `xsputn()` that the characters are written "as if by
  repeated calls to sputc()", which places such a byte. `FirstIsSent` excepts these
  messages. If as many bytes were written for one as the misread size says, it
  would be sent with bytes in the wrong places; the loop may also read past a write
  that ends in such bytes. The serializer writes as many as it announced, and the
  block is longer than its size field.
* `ConnectionBufferMongo.cpp:368`: `sync()` ignores what `writeToStream()`
  returns; a message that the socket did not take is reported as sent, and the
  failure shows when its reply does not come (`SentIsOnWire`, `CommandReturns`).
* `MessageHandler.cpp:24-74`: with `handleChecksum` false the size still counts
  a checksum, which is still written; no caller of the library asks for that.
* `ConnectionBufferMongo.h:54` announces that `sync()` sends what was written;
  of an empty buffer it computes sizes below zero before it finds that there is
  nothing to send (`NothingUndefined` shows that the commands do not get there).
* `ThorsMongoInsert.tpp:119`: every command waits for a reply whatever the flags
  of its request, which a user may set; to one with `moreToCome` the server
  sends none (`MongoUtil.h:115`), and the command waits until the connection
  closes. `CommandReturns` holds for requests without that flag.
* `ThorsMongo.h:175`: the combined name of a collection "is unique" only if
  database names are plain: `a:` and `b` make the same string as `a` and `:b`,
  which is taken apart as the second.
* `ThorsMongo.h:76-87`, `:91`: the concerns of the server, the databases and the
  collections are kept but no command reads them; what is sent comes from the
  command's own configuration.
* `Collection::rename()` leaves the handle with the old name; later commands
  through it go to a collection of that name.
* `MongoUtil.h:117`: `exhaustAllowed` lets the server answer a getMore several
  times; one reply is read, and the next command fails on the second.
* `ThorsMongoInsert.h:33-35`: the ids reported by an insert are those it
  serialized, also when the message could not be sent, and to check the write
  errors is not enough for an ordered insert, which stops at the first: the
  documents after it are not stored either (`InsertedTellsStored` says what is
  enough). `src/Documentation/Insert.md:48` has an id there for each object
  inserted, and the examples at `Insert.md:56` and `Delete.md:41` check `ok`
  alone, which is 1 when write errors are all that went wrong.
* `MongoCursor.h:147`: an empty batch ends the loop, also one of a cursor that
  is open and has more to give, as it is after a find with a batch size of 0
  (`src/Documentation/Find.md:26`).
* `ThorsMongoCommon.h:284`, `ThorsMongoCount.h:41`: `n` has no initial value and
  a refusal does not set it.
* `MongoUpdate.h:437`: the comment has the values sorted before they are added;
  the server sorts the whole array, and so do the test and the model.
* `MongoUpdate.h:109`, `:172`: the arguments of `Inc` and `Mul` are unsigned, so
  what the comment at `MongoUpdate.h:156` shows, a factor of 2.6, cannot be written.
* `MongoActions.h:25`: `Actions` of one field twice write its key twice.
* `ThorsMongoFindAndModify.tpp`: a tuple of updates is written as an array,
  which a server takes for an aggregation pipeline.
* `WriteConcern.h:69`: a value that begins with a quote is compared with the
  word without one, so the text `"majority"` is refused.
* `Find.md:46`: the status of a range is that of the last reply parsed, also
  when that reply was then rejected.

## Not modelled

* Read preferences of handles: declared and never defined.
* Names that are not plain, as above: what then happens depends on the names.
* Moving connections and message handlers. No connection of the library is
  moved once it is in use.
* A range begun again after its first batch; object lifetimes in general.
* Of queries and updates: `RegEx` and `Text`, whose meaning is a server's
  collation or index, tuples of updates, fields within fields, projections.
  Options that only the server looks at: hints, collations, variables, time
  limits, comments.
* `distinct()` and `listDatabases()` but for their names (`Names`) and their
  exchange (`Commands`): a list is returned as it is.
* ThorsSerializer, ThorsSocket, ThorsCrypto, snappy and CRC-32C are external.
* The client information in the hello (pure I/O); the serializers of levels and
  acknowledgments, which copy a word or a number; the examples.

## Plan

Done: the modules above, with `ReplyStream`, `RemoteCall`, `NamedStore` and
`DocumentSet` as what they promise, and the proofs listed.

Left, should the code or the need change:

1. a `Client` that composes `Authenticate`, `Commands` and `Cursor` on one
   connection. Each has the stream's state in it and the worst the others may do
   to it, so that no property of them waits for the composition;
2. the second `begin()` of a range, and moves, once the library defines them;
3. in `Documents`, several calls on one connection by way of ranges, so that what
   a find returns is what its filter wants;
4. tuples of updates and fields within fields, once it is settled what a server
   is to make of the first.
