------------------------------ MODULE WriteBuffer ------------------------------
(***************************************************************************)
(* The write side of ConnectionBufferMongo, and MessageHandler's           *)
(* sendMessage() that feeds it: a message is queued in the buffer, whose   *)
(* size is taken from the first bytes written, and sync() sends it whole,  *)
(* with its checksum, compressed or not.                                   *)
(*                                                                         *)
(* A byte is the pair of the message it belongs to and its place in it;    *)
(* what the bytes of the block hold, of which the size is read, is in      *)
(* Header.  char is taken to be signed.  Pointers are offsets from         *)
(* pbase().                                                                *)
(*                                                                         *)
(* An operator whose comment begins with "Mistaken" is a variant of the    *)
(* one after it that no behaviour uses: a plausible mistake, which a       *)
(* property has to notice when it takes the place of the original.         *)
(***************************************************************************)
EXTENDS Integers, Sequences, SequencesExt

CONSTANTS
  SizeField,     \* kSizeUInt32, 4: the bytes that hold a message's size
  HeaderSize,    \* kSizeOpMsgHeaderSize, 16
  BlockSize,     \* kSizeOpMsgBlock, 21
  ChecksumSize,  \* 4
  Smallest,      \* kSizeSmallestPossibleMessage, 26
  N,             \* number of messages the program sends
  Eof,           \* 255: the byte that is traits::eof() when passed as a char
  Header,        \* the bytes of each message's block
  Size,          \* the size they begin with (calcSize)
  Written,       \* the numbers of bytes that may be written for it
  Checksummed,   \* its checksumPresent flag
  Capacity,      \* the most that reserveOutputSize() provides
  SingleBytes,   \* the messages whose first bytes may be written one at a time
  SocketFails,   \* may the socket fail while a message is sent?
  FlushChecks    \* does the library's flush() skip a stream that has failed?

Messages == 1 .. N

\* The number in a field of SizeField bytes, the lowest of them first.
Number(f) ==
  LET upTo[n \in 0 .. SizeField] ==
        IF n = 0 THEN 0 ELSE upTo[n - 1] * (Eof + 1) + f[SizeField - n]
  IN  upTo[SizeField]

\* What a byte holds.  No size is read behind the block.
Value(b) == IF b[1] \in Messages /\ b[2] \in 0 .. BlockSize - 1 THEN Header[b[1]][b[2]] ELSE 0

\* Where overflow() takes the bytes of the size from that are still missing when
\* the next n of the message are written, one after the other: one that looks
\* like eof() it accepts, but does not place.
Places(m, placed, from, n) ==
  {at \in [placed .. SizeField - 1 -> from .. from + n - 1] :
     /\ \A i, j \in DOMAIN at : i < j => at[i] < at[j]
     /\ {at[i] : i \in DOMAIN at} = {k \in from .. at[SizeField - 1] : Value(<<m, k>>) # Eof}}

ASSUME SizesAssumption ==
  /\ SizeField \in Nat \ {0} /\ HeaderSize \in Nat /\ BlockSize \in Nat
  /\ SizeField <= HeaderSize /\ HeaderSize < BlockSize
  /\ ChecksumSize \in Nat \ {0}
  /\ Smallest \in Nat /\ Smallest > BlockSize
  /\ SocketFails \in BOOLEAN /\ FlushChecks \in BOOLEAN

ASSUME MessagesAssumption ==
  /\ N \in Nat /\ SingleBytes \subseteq Messages
  /\ Eof \in Nat /\ Header \in [Messages -> [0 .. BlockSize - 1 -> 0 .. Eof]]
  /\ Size \in [Messages -> Nat] /\ Written \in [Messages -> SUBSET Nat]
  /\ Checksummed \in [Messages -> BOOLEAN]
  /\ Capacity \in Nat /\ SizeField <= Capacity
  /\ \A m \in Messages :
       /\ Size[m] = Number(Header[m])
       /\ Written[m] # {} /\ \A n \in Written[m] : n >= Smallest
       /\ Checksummed[m] => Size[m] >= BlockSize + ChecksumSize
       \* The block has enough bytes that are placed: messageResponseId is 0.
       /\ Places(m, 0, 0, BlockSize) # {}

Garbage == <<0, 0>>          \* a byte of the buffer that was never written
Sum(m)  == <<m, -1>>         \* a byte of the checksum over message m's bytes
BadSum  == <<0, -1>>         \* a byte of the checksum over anything else

VARIABLES
  outMessageSize, outMessagePlaced,
  pptr, epptr,
  out,            \* the buffer's content
  compression,    \* useCompressionOnWrite
  bad,            \* the ostream's state: a failed stream takes no more writes
  msg, pos,       \* the message being sent, and how much of it was written
  result,         \* what sendMessage() returned for each message
  wire,           \* what the socket took of each message
  torn,           \* the message the socket failed in, or 0
  wrapped,        \* an unsigned size was computed below zero (undefined)
  overread        \* bytes past the end of a write were read (undefined)

buffer == <<outMessageSize, outMessagePlaced, pptr, epptr, out>>
undefined == <<wrapped, overread>>
vars   == <<buffer, compression, bad, msg, pos, result, wire, torn, undefined>>

-----------------------------------------------------------------------------
\* n bytes of the message, from place "from" on, stored at "at".
Put(b, at, from, n) ==
  [i \in DOMAIN b |-> IF at <= i /\ i < at + n THEN <<msg, from + (i - at)>> ELSE b[i]]

Intact(b, m, first, last) == \A i \in first .. last : b[i] = <<m, i>>

\* The size that overflow() copies from the first bytes of the buffer.
SizeIn(b) == Number([i \in 0 .. SizeField - 1 |-> Value(b[i])])

\* messageBlock->flags, as sync() finds it in the buffer.
FlagsIn(b) == IF \E m \in Messages : Intact(b, m, HeaderSize, BlockSize - 1)
                THEN {Checksummed[m] : m \in {x \in Messages : Intact(b, x, HeaderSize, BlockSize - 1)}}
                ELSE BOOLEAN

-----------------------------------------------------------------------------
Init ==
  /\ outMessageSize = 0 /\ outMessagePlaced = 0 /\ pptr = 0 /\ epptr = 0
  /\ out = [i \in 0 .. Capacity - 1 |-> Garbage]
  /\ compression = "None" /\ bad = FALSE
  /\ msg \in Messages /\ pos = 0   \* the first that the program sends
  /\ result = [m \in Messages |-> "none"]
  /\ wire = <<>> /\ torn = 0
  /\ wrapped = FALSE /\ overread = FALSE

\* The bytes of a write that overflow() places: those of the size field that
\* are still missing.
ToPlace == IF outMessageSize = 0 THEN SizeField - outMessagePlaced ELSE 0

\* Mistaken: the bytes of the size field are counted with every write.
CopyInCounts(b, p, n, taken) ==
  /\ out' = Put(b, p + taken, pos + taken, n - taken)
  /\ pptr' = p + n + SizeField

\* What overflow() did not take of a write is copied behind what it took, from
\* p on.
CopyIn(b, p, n, taken) ==
  /\ out' = Put(b, p + taken, pos + taken, n - taken)
  /\ pptr' = p + n

\* Mistaken: a write that fills the put area is refused.
StoreBelow(b, p, e, n, taken) ==
  /\ epptr' = e
  /\ \/ n < e - p /\ CopyIn(b, p, n, taken) /\ UNCHANGED bad
     \/ n >= e - p /\ out' = b /\ pptr' = p /\ bad' = TRUE

\* The write fits in the put area, or stores nothing more and fails.
Store(b, p, e, n, taken) ==
  /\ epptr' = e
  /\ \/ n <= e - p /\ CopyIn(b, p, n, taken) /\ UNCHANGED bad
     \/ n > e - p /\ out' = b /\ pptr' = p /\ bad' = TRUE

\* overflow() has placed the last byte of the size.
Sized(size) == outMessageSize' = size /\ outMessagePlaced' = SizeField

\* xsputn() of the next n bytes.  The size field goes through overflow(), one
\* byte at a time, also if the write has not that many: what comes then is not
\* defined, and not followed further.  The put area becomes a whole message of
\* that size, from pbase() on, unless it is too small to be one or
\* reserveOutputSize() throws.  The rest is copied behind the bytes that
\* overflow() took, as many as it placed or more.
Xsputn(n) ==
  /\ \/ /\ ToPlace = 0
        /\ Store(out, pptr, epptr, n, 0)
        /\ UNCHANGED <<outMessageSize, outMessagePlaced, overread>>
     \/ /\ ToPlace > 0
        /\ \E at \in Places(msg, outMessagePlaced, pos, n) :
             LET placed == [i \in DOMAIN out |-> IF i \in DOMAIN at THEN <<msg, at[i]>> ELSE out[i]]
                 size   == SizeIn(placed)
             IN  /\ Sized(size)
                 /\ \/ /\ size \in Smallest .. Capacity
                       /\ Store(placed, 0, size, n, at[SizeField - 1] - pos + 1)
                    \/ /\ size \notin Smallest .. Capacity
                       /\ out' = placed /\ bad' = TRUE /\ UNCHANGED <<pptr, epptr>>
        /\ UNCHANGED overread
     \/ /\ ToPlace > 0 /\ Places(msg, outMessagePlaced, pos, n) = {}
        /\ overread' = TRUE /\ bad' = TRUE
        /\ UNCHANGED buffer
  /\ pos' = pos + n
  /\ UNCHANGED <<compression, msg, result, wire, torn, wrapped>>

\* sputc() of the next byte: into the put area or, when it is empty, through
\* overflow(), as an unsigned char, so that no byte looks like eof().
Sputc ==
  /\ \/ /\ pptr # epptr
        /\ out' = Put(out, pptr, pos, 1) /\ pptr' = pptr + 1
        /\ UNCHANGED <<outMessageSize, outMessagePlaced, epptr, bad>>
     \/ /\ pptr = epptr /\ outMessageSize # 0
        /\ bad' = TRUE
        /\ UNCHANGED buffer
     \/ /\ pptr = epptr /\ outMessageSize = 0
        /\ out' = Put(out, outMessagePlaced, pos, 1)
        /\ \/ /\ outMessagePlaced + 1 < SizeField
              /\ outMessagePlaced' = outMessagePlaced + 1
              /\ UNCHANGED <<outMessageSize, pptr, epptr, bad>>
           \/ /\ outMessagePlaced + 1 = SizeField
              /\ LET size == SizeIn(out')
                 IN  /\ Sized(size)
                     /\ \/ /\ size \in Smallest .. Capacity
                           /\ pptr' = 0 /\ epptr' = size /\ UNCHANGED bad
                        \/ /\ size \notin Smallest .. Capacity
                           /\ bad' = TRUE /\ UNCHANGED <<pptr, epptr>>
  /\ pos' = pos + 1
  /\ UNCHANGED <<compression, msg, result, wire, torn, undefined>>

\* Mistaken: the fields of the block are written one by one.
WriteFields ==
  /\ msg \in Messages /\ ~bad
  /\ \E length \in Written[msg] : \E n \in 1 .. length - pos : Xsputn(n)

\* sendMessage() writes the block, then the document and the checksum in pieces.
\* The serializer may write fewer or more bytes than it said it would.
Write ==
  /\ msg \in Messages /\ ~bad
  /\ \E length \in Written[msg] :
       \/ pos = 0 /\ Xsputn(BlockSize)
       \/ pos > 0 /\ \E n \in 1 .. length - pos : Xsputn(n)
       \/ pos < length /\ (msg \in SingleBytes \/ pos >= BlockSize) /\ Sputc

\* The bytes that sync() sends: the buffer with the checksum written over the
\* end, if the flag is set.
Sealed(flag) ==
  LET sum == IF \E m \in Messages : Intact(out, m, 0, pptr - ChecksumSize - 1)
               THEN Sum(CHOOSE m \in Messages : Intact(out, m, 0, pptr - ChecksumSize - 1))
               ELSE BadSum
  IN  [i \in 1 .. pptr |-> IF flag /\ i > pptr - ChecksumSize THEN sum ELSE out[i - 1]]

\* writeToStream(), whose result sync() ignores: the socket takes everything or,
\* when it fails, the beginning, and nothing after that.
Transmit(sealed) ==
  \/ /\ torn = 0 /\ sealed # <<>>
     /\ wire' = Append(wire, [bytes |-> sealed, compressed |-> compression = "Snappy"])
     /\ UNCHANGED torn
  \/ /\ torn = 0 /\ sealed # <<>> /\ SocketFails
     /\ torn' = msg
     /\ \E k \in 0 .. Len(sealed) - 1 :
          wire' = IF k = 0 THEN wire
                  ELSE Append(wire, [bytes |-> SubSeq(sealed, 1, k),
                                     compressed |-> compression = "Snappy"])
  \/ (torn # 0 \/ sealed = <<>>) /\ UNCHANGED <<wire, torn>>

\* Mistaken: whatever was written is sent.
SyncIncomplete ==
  /\ \E flag \in FlagsIn(out) : Transmit(Sealed(flag))
  /\ outMessageSize' = 0 /\ outMessagePlaced' = 0 /\ pptr' = 0 /\ epptr' = 0
  /\ UNCHANGED <<out, bad, undefined>>

\* sync().  Before the message is complete it fails.  Otherwise everything is
\* sent and the buffer reset; the sizes of what is summed and compressed are
\* unsigned differences.
Sync ==
  \/ /\ pptr # epptr
     /\ bad' = TRUE
     /\ UNCHANGED <<buffer, wire, torn, undefined>>
  \/ /\ pptr = epptr
     /\ \E flag \in FlagsIn(out) :
          /\ wrapped' = (\/ wrapped
                         \/ flag /\ outMessageSize < ChecksumSize
                         \/ compression = "Snappy" /\ pptr < HeaderSize)
          /\ Transmit(Sealed(flag))
     /\ outMessageSize' = 0 /\ outMessagePlaced' = 0 /\ pptr' = 0 /\ epptr' = 0
     /\ UNCHANGED <<out, bad, overread>>

\* Mistaken: the result is taken before the flush.
FlushEarlyResult ==
  /\ msg \in Messages
  /\ bad \/ pos \in Written[msg]
  /\ IF bad /\ FlushChecks THEN UNCHANGED <<buffer, bad, wire, torn, undefined>> ELSE Sync
  /\ result' = [result EXCEPT ![msg] = IF bad THEN "failed" ELSE "sent"]
  /\ msg' = msg + 1 /\ pos' = 0
  /\ UNCHANGED compression

\* Mistaken: the failure is reported, and the stream cleared and reset.
FlushClears ==
  /\ msg \in Messages
  /\ bad \/ pos \in Written[msg]
  /\ IF bad THEN /\ bad' = FALSE
                 /\ outMessageSize' = 0 /\ outMessagePlaced' = 0 /\ pptr' = 0 /\ epptr' = 0
                 /\ UNCHANGED <<out, wire, torn, undefined>>
            ELSE Sync
  /\ result' = [result EXCEPT ![msg] = IF bad \/ bad' THEN "failed" ELSE "sent"]
  /\ msg' = msg + 1 /\ pos' = 0
  /\ UNCHANGED compression

\* Mistaken: the buffer is synced although the stream has failed.
FlushAlways ==
  /\ msg \in Messages
  /\ bad \/ pos \in Written[msg]
  /\ Sync
  /\ result' = [result EXCEPT ![msg] = IF bad' THEN "failed" ELSE "sent"]
  /\ msg' = msg + 1 /\ pos' = 0
  /\ UNCHANGED compression

\* The end of sendMessage(): flush(), whether or not the writes succeeded, and
\* the stream's state is the result.
Flush ==
  /\ msg \in Messages
  /\ bad \/ pos \in Written[msg]
  /\ IF bad /\ FlushChecks THEN UNCHANGED <<buffer, bad, wire, torn, undefined>> ELSE Sync
  /\ result' = [result EXCEPT ![msg] = IF bad' THEN "failed" ELSE "sent"]
  /\ msg' = msg + 1 /\ pos' = 0
  /\ UNCHANGED compression

\* MessageHandler::setCompression(), between messages, once snappy is agreed.
SetCompression ==
  /\ compression = "None" /\ pos = 0 /\ ~bad
  /\ compression' = "Snappy"
  /\ UNCHANGED <<buffer, bad, msg, pos, result, wire, torn, undefined>>

\* The reply to an earlier message could not be read, or was not accepted: the
\* connection is one iostream, with one state for both directions.
ReadFails ==
  /\ pos = 0 /\ ~bad /\ \E m \in Messages : result[m] = "sent"
  /\ bad' = TRUE
  /\ UNCHANGED <<buffer, compression, msg, pos, result, wire, torn, undefined>>

Done == msg = N + 1 /\ UNCHANGED vars

Next == Write \/ Flush \/ SetCompression \/ ReadFails \/ Done

Spec == Init /\ [][Next]_vars

-----------------------------------------------------------------------------
(* Properties. *)

TypeOK ==
  /\ outMessageSize \in Nat /\ outMessagePlaced \in 0 .. SizeField
  /\ pptr \in 0 .. Capacity /\ epptr \in 0 .. Capacity
  /\ out \in [0 .. Capacity - 1 -> (0 .. N) \X Int]
  /\ compression \in {"None", "Snappy"} /\ bad \in BOOLEAN
  /\ msg \in 1 .. N + 1 /\ pos \in Nat
  /\ result \in [Messages -> {"none", "sent", "failed"}]
  /\ wire \in Seq([bytes : Seq((0 .. N) \X Int), compressed : BOOLEAN])
  /\ torn \in 0 .. N
  /\ wrapped \in BOOLEAN /\ overread \in BOOLEAN

\* What a complete message looks like to the server.
Whole(m) ==
  [i \in 1 .. Size[m] |->
     IF Checksummed[m] /\ i > Size[m] - ChecksumSize THEN Sum(m) ELSE <<m, i - 1>>]

\* The socket carries whole messages only, each as long as its header says,
\* with its bytes in place and a checksum that covers them; none is sent twice
\* or out of order, and none after the stream has failed.  If the socket fails,
\* the last thing on it may be the beginning of such a message.
OnlyWholeMessages ==
  \A i \in 1 .. Len(wire) : \E m \in Messages :
    /\ \/ wire[i].bytes = Whole(m)
       \/ m = torn /\ i = Len(wire) /\ IsPrefix(wire[i].bytes, Whole(m))
    /\ result[m] = "sent"
    /\ \A j \in 1 .. i - 1 : \A k \in Messages : wire[j].bytes = Whole(k) => k < m

\* sendMessage() reports success exactly for what went out, and for what the
\* socket lost from the message on in which it failed.
SentIsOnWire ==
  \A m \in Messages :
    LET onWire == \E i \in 1 .. Len(wire) : wire[i].bytes = Whole(m)
    IN  IF torn = 0 \/ m < torn THEN result[m] = "sent" <=> onWire ELSE ~onWire

\* Once a message could not be sent, no later one is.
FailureIsFinal ==
  \A m, k \in Messages : m < k /\ result[m] = "failed" => result[k] # "sent"

\* No message makes the buffer compute a size below zero, as sync() of an empty
\* buffer would, or read past the bytes it is given, as xsputn() of less than a
\* size field would.
NothingUndefined == ~wrapped /\ ~overread

\* The first message of a connection is sent if as many bytes are written for it
\* as its header says, and not more than the buffer can hold, in pieces of any
\* size behind the block.  A byte of the size that looks like eof() is an
\* exception: xsputn() of such a block misreads the size, and the message is
\* refused.
FirstIsSent ==
  \A m \in Messages :
    /\ \A k \in Messages : k < m => result[k] = "none"
    /\ m \notin SingleBytes /\ \A i \in 0 .. SizeField - 1 : Header[m][i] # Eof
    /\ Written[m] = {Size[m]} /\ Size[m] \in Smallest .. Capacity
    => result[m] # "failed"

===============================================================================
