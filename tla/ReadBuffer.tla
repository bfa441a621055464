------------------------------ MODULE ReadBuffer ------------------------------
(***************************************************************************)
(* The read side of ConnectionBufferMongo: the stream buffer between the   *)
(* socket and the reader of the server's replies (MessageHandler and the   *)
(* BSON parser).  underflow() pulls whole or partial messages off the      *)
(* socket into one message-sized buffer, decompresses them, verifies the   *)
(* checksum in place; xsgetn() hands the bytes to the reader.              *)
(*                                                                         *)
(* A byte is its position in the uncompressed stream of replies, so a      *)
(* correct reader sees 0, 1, 2, ...  The negative codes are bytes that the *)
(* server never sent or that the buffer computed.  Pointers are offsets    *)
(* from eback().  A call is split at its socket reads, the points where    *)
(* the rest of the world acts.                                             *)
(*                                                                         *)
(* An operator whose comment begins with "Mistaken" is a variant of the    *)
(* one after it that no behaviour uses: a plausible mistake, which a       *)
(* property has to notice when it takes the place of the original.         *)
(***************************************************************************)
EXTENDS Integers, Sequences

CONSTANTS
  HeaderSize,         \* kSizeOpMsgHeaderSize, 16 in the code
  BlockSize,          \* kSizeOpMsgBlock, 21: header, flags and kind
  CompressedHeader,   \* kSizeOpCompressedMessage, 9
  ChecksumSize,       \* kSizeUInt32, 4
  N,                  \* number of replies the server sends
  Kind,               \* how each reply travels: "msg", "snappy" or "other"
  Checksummed,        \* does the reply carry a checksum?
  Size, WireSize,     \* size of each reply uncompressed and on the wire
  Start, WireStart,   \* where each reply begins, uncompressed and on the wire
  MaxSize,            \* capacity that reserveInputSize() has been asked for
  MaxRequest,         \* bound: longest read of a reader that got bad bytes
  PartialArrivals,    \* may a non-blocking read return a part of the message?
  Cuts                \* the positions on the wire where the server may close

Replies == 1 .. N

ASSUME SizesAssumption ==
  /\ HeaderSize \in Nat \ {0} /\ CompressedHeader \in Nat \ {0}
  /\ BlockSize \in Nat /\ BlockSize > HeaderSize
  /\ ChecksumSize \in Nat \ {0}
  /\ MaxSize \in Nat /\ MaxRequest \in Nat
  /\ PartialArrivals \in BOOLEAN /\ Cuts \subseteq Nat

ASSUME RepliesAssumption ==
  /\ N \in Nat \ {0}
  /\ Kind \in [Replies -> {"msg", "snappy", "other"}]
  /\ Checksummed \in [Replies -> BOOLEAN]
  /\ Size \in [Replies -> Nat] /\ WireSize \in [Replies -> Nat]
  /\ \A m \in Replies :
       /\ Size[m] >= BlockSize + ChecksumSize /\ Size[m] <= MaxSize
       /\ Kind[m] = "msg" => WireSize[m] = Size[m]
       /\ Kind[m] = "snappy" => WireSize[m] > HeaderSize + CompressedHeader
       /\ Kind[m] = "other" => WireSize[m] >= HeaderSize

\* Start and WireStart are the running sums of the sizes.
ASSUME StartsAssumption ==
  /\ Start \in [1 .. N + 1 -> Nat] /\ WireStart \in [1 .. N + 1 -> Nat]
  /\ Start[1] = 0 /\ WireStart[1] = 0
  /\ \A m \in Replies : /\ Start[m + 1] = Start[m] + Size[m]
                        /\ WireStart[m + 1] = WireStart[m] + WireSize[m]

Garbage  == -1    \* uninitialised, or produced by decompressing a torn message
Zero     == -2    \* a checksum byte after a successful verification
Mismatch == -3    \* a checksum byte after a failed one

VARIABLES
  inMessageSize,    \* size of the message in the buffer, 0 for none
  gptr, egptr,      \* next byte to hand out, end of the retrieved bytes
  buf,              \* the buffer's content
  inCount,          \* the base class's count of bytes of earlier messages
  sock,             \* bytes taken from the socket
  open,             \* the connection, as the last socket read reported it
  failed,           \* the istream's failbit: no later read is attempted
  pc, count, needs, \* the call in progress, its size, and underflowNeeds
  inMsg,            \* the reply whose header was parsed last (0: none)
  delivered         \* the bytes the reader has been given

vars == <<inMessageSize, gptr, egptr, buf, inCount, sock, open, failed,
          pc, count, needs, inMsg, delivered>>

-----------------------------------------------------------------------------
(* The socket: what a read of n bytes may return, as [n, open]. *)

\* getMessageData: all the bytes, or fewer when the connection closes.
BlockingRead(n) ==
  {r \in [n : 0 .. n, open : BOOLEAN] :
     /\ sock + r.n <= WireStart[N + 1]
     /\ IF open THEN \/ r.n = n /\ r.open
                     \/ sock + r.n \in Cuts /\ r.n < n /\ ~r.open
                ELSE r.n = 0 /\ ~r.open}

\* tryGetMessageData: whatever has arrived.
TryRead(n) ==
  {r \in [n : 0 .. n, open : BOOLEAN] :
     /\ sock + r.n <= WireStart[N + 1]
     /\ IF open THEN \/ r.open /\ (PartialArrivals \/ r.n \in {0, n})
                     \/ sock + r.n \in Cuts /\ ~r.open
                ELSE r.n = 0 /\ ~r.open}

-----------------------------------------------------------------------------
(* The buffer. *)

messageLeft   == inMessageSize - gptr
availableData == egptr - gptr
missingData   == inMessageSize - egptr

\* Wire bytes are copied to offset "at": the bytes from position "from" on.
Stored(b, at, from, n) ==
  [i \in DOMAIN b |-> IF at <= i /\ i < at + n THEN from + (i - at) ELSE b[i]]

\* Position in the uncompressed stream of the next byte on the wire, for a
\* message that travels uncompressed.
NextOnWire == Start[inMsg] + (sock - WireStart[inMsg])

IntactBytes(b, m, first, last) == \A i \in first .. last : b[i] = Start[m] + i

\* messageBlock->flags, read from the buffer: arbitrary if it holds bad bytes.
ChecksumFlag(b) ==
  IF IntactBytes(b, inMsg, HeaderSize, BlockSize - 1)
    THEN {Checksummed[inMsg]} ELSE BOOLEAN

\* Mistaken: the check value is put back one byte early.
VerifiedEarly(b) ==
  LET check == IF IntactBytes(b, inMsg, 0, inMessageSize - 1) THEN Zero ELSE Mismatch
  IN  [i \in DOMAIN b |->
         IF inMessageSize - ChecksumSize <= i + 1 /\ i + 1 < inMessageSize THEN check ELSE b[i]]

\* Mistaken: the checksum covers the block only.
VerifiedBlock(b) ==
  LET check == IF IntactBytes(b, inMsg, 0, BlockSize - 1) THEN Zero ELSE Mismatch
  IN  [i \in DOMAIN b |->
         IF inMessageSize - ChecksumSize <= i /\ i < inMessageSize THEN check ELSE b[i]]

\* The checksum of the message is XORed into its last bytes.
Verified(b) ==
  LET check == IF IntactBytes(b, inMsg, 0, inMessageSize - 1) THEN Zero ELSE Mismatch
  IN  [i \in DOMAIN b |->
         IF inMessageSize - ChecksumSize <= i /\ i < inMessageSize THEN check ELSE b[i]]

\* Mistaken: newDataCount is added to egptr, not extraData.
RetrievedTwice(b, e) ==
  /\ egptr' = e + availableData /\ buf' = b
  /\ pc' = "copy"

\* Mistaken: the checksum is verified only if the buffer was not empty before.
RetrievedUnverified(b, e) ==
  /\ egptr' = e
  /\ \E flag \in ChecksumFlag(b) :
       buf' = IF e = inMessageSize /\ flag /\ gptr # 0 THEN Verified(b) ELSE b
  /\ pc' = "copy"

\* The end of underflow(): the get area now ends at e and, when the message is
\* complete, its checksum is verified.
Retrieved(b, e) ==
  /\ egptr' = e
  /\ \E flag \in ChecksumFlag(b) :
       buf' = IF e = inMessageSize /\ flag THEN Verified(b) ELSE b
  /\ pc' = "copy"

\* underflow() returned eof: xsgetn() returns 0 and the istream sets failbit.
Eof == failed' = TRUE /\ pc' = "idle"

-----------------------------------------------------------------------------
(* The reader: MessageHandler::recvMessage and the BSON parser. *)

\* The bytes so far are the server's, checksums replaced by a zero check.
Correct(d) ==
  \A i \in 1 .. Len(d) :
    \/ d[i] = i - 1
    \/ /\ d[i] = Zero
       /\ \E m \in Replies : /\ Checksummed[m]
                             /\ i - 1 >= Start[m + 1] - ChecksumSize
                             /\ i - 1 < Start[m + 1]

\* The sizes it may ask for next: the block in one read, the document in
\* pieces, the checksum in one read.  With bad bytes it may ask for anything.
Requests ==
  LET pos == Len(delivered) IN
  IF Correct(delivered)
    THEN {n \in 1 .. MaxSize : \E m \in Replies :
            LET bodyEnd == Start[m + 1] - (IF Checksummed[m] THEN ChecksumSize ELSE 0)
            IN  \/ pos = Start[m] /\ n = BlockSize
                \/ pos >= Start[m] + BlockSize /\ pos + n <= bodyEnd
                \/ Checksummed[m] /\ pos = bodyEnd /\ n = ChecksumSize}
    ELSE {n \in 1 .. MaxRequest : pos < Start[N + 1]}

-----------------------------------------------------------------------------
Init ==
  /\ inMessageSize = 0 /\ gptr = 0 /\ egptr = 0
  /\ buf = [i \in 0 .. MaxSize - 1 |-> Garbage]
  /\ inCount = 0 /\ sock = 0 /\ open = TRUE /\ failed = FALSE
  /\ pc = "idle" /\ count = 0 /\ needs = 1
  /\ inMsg = 0 /\ delivered = <<>>

\* Mistaken: a read up to the end of the message is refused, too.
RefuseLast(n) ==
  /\ messageLeft # 0 /\ n >= messageLeft
  /\ Eof
  /\ UNCHANGED <<inMessageSize, gptr, egptr, buf, inCount, sock, open, count,
                 needs, inMsg, delivered>>

\* Mistaken: underflowNeeds is computed the wrong way round.
CallSwapped(n) ==
  /\ messageLeft = 0 \/ n <= messageLeft
  /\ count' = n
  /\ IF availableData < n
       THEN /\ needs' = availableData - n
            /\ pc' = IF gptr # egptr THEN "copy"
                     ELSE IF gptr = inMessageSize THEN "header" ELSE "fill"
       ELSE UNCHANGED needs /\ pc' = "copy"
  /\ UNCHANGED <<inMessageSize, gptr, egptr, buf, inCount, sock, open, failed,
                 inMsg, delivered>>

\* xsgetn() is entered.  A read that crosses the message's end is refused;
\* one the buffer can serve is copied; one that finds some bytes, but too few,
\* calls underflow(), which does nothing because gptr is not at egptr.
Refuse(n) ==
  /\ messageLeft # 0 /\ n > messageLeft
  /\ Eof
  /\ UNCHANGED <<inMessageSize, gptr, egptr, buf, inCount, sock, open, count,
                 needs, inMsg, delivered>>

Call(n) ==
  /\ messageLeft = 0 \/ n <= messageLeft
  /\ count' = n
  /\ IF availableData < n
       THEN /\ needs' = n - availableData
            /\ pc' = IF gptr # egptr THEN "copy"
                     ELSE IF gptr = inMessageSize THEN "header" ELSE "fill"
       ELSE UNCHANGED needs /\ pc' = "copy"
  /\ UNCHANGED <<inMessageSize, gptr, egptr, buf, inCount, sock, open, failed,
                 inMsg, delivered>>

Xsgetn == /\ pc = "idle" /\ ~failed
          /\ \E n \in Requests : Refuse(n) \/ Call(n)

\* underflow() between two messages: the buffer is emptied and the next
\* header read, blocking.  What follows depends on its opCode.  (Framed: the
\* socket is at the start of a reply, so the bytes read are a header.)
NextHeader ==
  /\ pc = "header"
  /\ inCount' = inCount + inMessageSize
  /\ gptr' = 0
  /\ \E r \in BlockingRead(HeaderSize) :
       /\ sock' = sock + r.n /\ open' = r.open
       /\ \/ /\ r.n # HeaderSize
             /\ Eof
             /\ inMessageSize' = 0 /\ egptr' = 0
             /\ UNCHANGED <<buf, inMsg>>
          \/ /\ r.n = HeaderSize
             /\ \E m \in Replies :
                  /\ sock = WireStart[m]
                  /\ inMsg' = m
                  /\ buf' = Stored(buf, 0, Start[m], HeaderSize)
                  /\ \/ /\ Kind[m] = "msg"
                        /\ inMessageSize' = Size[m] /\ egptr' = HeaderSize
                        /\ pc' = "fill" /\ UNCHANGED failed
                     \/ /\ Kind[m] = "snappy"
                        /\ inMessageSize' = 0 /\ egptr' = 0
                        /\ pc' = "inflate" /\ UNCHANGED failed
                     \/ /\ Kind[m] = "other"
                        /\ inMessageSize' = 0 /\ egptr' = 0
                        /\ Eof
  /\ UNCHANGED <<count, needs, delivered>>

\* Mistaken: decompressed over the header.
InflatedOver(b, torn) ==
  [i \in DOMAIN b |-> IF i < torn - HeaderSize THEN Start[inMsg] + HeaderSize + i
                      ELSE IF i < Size[inMsg] THEN Garbage ELSE b[i]]

\* The buffer after decompression of data that is intact up to "torn".
Inflated(b, torn) ==
  [i \in DOMAIN b |-> IF i < torn THEN Start[inMsg] + i
                      ELSE IF i < Size[inMsg] THEN Garbage ELSE b[i]]

\* A compressed message: the rest of its header and all its data are read,
\* whatever the two reads return, and decompressed into the buffer.  If the
\* data was cut short, what remains of it (the vector is zero filled) may
\* still decompress, to other bytes from some place on.
Inflate ==
  /\ pc = "inflate"
  /\ \E r \in BlockingRead(WireSize[inMsg] - HeaderSize) :
       /\ sock' = sock + r.n /\ open' = r.open
       /\ \/ /\ r.n < WireSize[inMsg] - HeaderSize
             /\ Eof
             /\ UNCHANGED <<inMessageSize, egptr, buf>>
          \/ \E torn \in HeaderSize .. Size[inMsg] :
               /\ torn = Size[inMsg] <=> r.n = WireSize[inMsg] - HeaderSize
               /\ r.n > CompressedHeader
               /\ inMessageSize' = Size[inMsg] /\ egptr' = Size[inMsg]
               /\ buf' = Inflated(buf, torn)
               /\ pc' = "fill" /\ UNCHANGED failed
  /\ UNCHANGED <<gptr, inCount, count, needs, inMsg, delivered>>

\* Mistaken: nor all that it still holds.
FillRefusedEarly ==
  /\ pc = "fill" /\ needs >= messageLeft
  /\ Eof
  /\ UNCHANGED <<inMessageSize, gptr, egptr, buf, inCount, sock, open, count,
                 needs, inMsg, delivered>>

\* The read may not want more than the message still holds.
FillRefused ==
  /\ pc = "fill" /\ needs > messageLeft
  /\ Eof
  /\ UNCHANGED <<inMessageSize, gptr, egptr, buf, inCount, sock, open, count,
                 needs, inMsg, delivered>>

\* The whole message is in the buffer (it was compressed).
FillComplete ==
  /\ pc = "fill" /\ needs <= messageLeft /\ missingData = 0
  /\ Retrieved(buf, egptr)
  /\ UNCHANGED <<inMessageSize, gptr, inCount, sock, open, failed, count,
                 needs, inMsg, delivered>>

\* A non-blocking read of all that is missing, then, if the request is still
\* not met and the connection is open, a blocking read of the rest of the
\* request.  Both reads store at egptr, which moves only at the end.
\* newDataCount is what this call of underflow() has read: all from gptr on.
Fill ==
  /\ pc = "fill" /\ needs <= messageLeft /\ missingData # 0
  /\ \E r \in TryRead(missingData) :
       LET b == Stored(buf, egptr, NextOnWire, r.n) IN
       \/ /\ availableData + r.n >= needs
          /\ Retrieved(b, egptr + r.n)
          /\ sock' = sock + r.n /\ open' = r.open
          /\ UNCHANGED failed
       \/ /\ availableData + r.n < needs /\ ~r.open
          /\ buf' = b /\ sock' = sock + r.n /\ open' = FALSE
          /\ Eof
          /\ UNCHANGED egptr
       \/ /\ availableData + r.n < needs /\ r.open
          /\ \E top \in BlockingRead(needs - availableData - r.n) :
               LET b2 == Stored(b, egptr, NextOnWire + r.n, top.n) IN
               /\ sock' = sock + r.n + top.n /\ open' = top.open
               /\ \/ /\ availableData + r.n + top.n = needs
                     /\ Retrieved(b2, egptr + r.n + top.n)
                     /\ UNCHANGED failed
                  \/ /\ availableData + r.n + top.n < needs
                     /\ buf' = b2
                     /\ Eof
                     /\ UNCHANGED egptr
  /\ UNCHANGED <<inMessageSize, gptr, inCount, count, needs, inMsg, delivered>>

\* Mistaken: gbump(count) after a copy that was shorter.
CopyCounts ==
  /\ pc = "copy"
  /\ LET readable == IF count < availableData THEN count ELSE availableData IN
       /\ delivered' = delivered \o [i \in 1 .. readable |-> buf[gptr + i - 1]]
       /\ gptr' = gptr + count
       /\ failed' = (readable < count)
  /\ needs' = 1 /\ count' = 0
  /\ pc' = "idle"
  /\ UNCHANGED <<inMessageSize, egptr, buf, inCount, sock, open, inMsg>>

\* xsgetn() copies what the buffer holds, at most count bytes, and resets
\* underflowNeeds.  A short count makes istream::read() set failbit.
Copy ==
  /\ pc = "copy"
  /\ LET readable == IF count < availableData THEN count ELSE availableData IN
       /\ delivered' = delivered \o [i \in 1 .. readable |-> buf[gptr + i - 1]]
       /\ gptr' = gptr + readable
       /\ failed' = (readable < count)
  /\ needs' = 1 /\ count' = 0
  /\ pc' = "idle"
  /\ UNCHANGED <<inMessageSize, egptr, buf, inCount, sock, open, inMsg>>

\* Every reply was read, or the stream has failed for good.
Done == /\ pc = "idle"
        /\ failed \/ Requests = {}
        /\ UNCHANGED vars

Next == Xsgetn \/ NextHeader \/ Inflate \/ FillRefused \/ FillComplete \/ Fill
        \/ Copy \/ Done

Spec == Init /\ [][Next]_vars

\* The thread that reads keeps running, and a blocking read of bytes that the
\* server sends, or that a close cuts off, returns.
FairSpec == Spec /\ WF_vars(Next)

-----------------------------------------------------------------------------
(* Properties. *)

TypeOK ==
  /\ inMessageSize \in Nat /\ gptr \in Nat /\ egptr \in Nat
  /\ buf \in [0 .. MaxSize - 1 -> Int]
  /\ inCount \in Nat /\ sock \in Nat
  /\ open \in BOOLEAN /\ failed \in BOOLEAN
  /\ pc \in {"idle", "header", "inflate", "fill", "copy"}
  /\ count \in Nat /\ needs \in Nat
  /\ inMsg \in 0 .. N
  /\ delivered \in Seq(Int)

\* The get area never leaves the message: underflow() and xsgetn() together
\* keep gptr <= egptr <= inMessageSize, whatever the socket returns.
GetAreaInMessage ==
  gptr <= egptr /\ egptr <= inMessageSize /\ inMessageSize <= MaxSize

\* The buffer and the socket agree on where messages begin: while the
\* connection is open, the socket has supplied exactly the retrieved part of
\* the current message and all of the earlier ones.
Framed ==
  open /\ pc # "inflate" /\ ~failed =>
    sock = IF inMessageSize = 0 THEN WireStart[inMsg + 1]
           ELSE IF Kind[inMsg] = "snappy" THEN WireStart[inMsg + 1]
           ELSE WireStart[inMsg] + egptr

\* tellg(), inCount + gptr, is the number of bytes handed to the reader:
\* recvMessage() compares differences of it with the header's messageSize.
PositionIsDelivered == inCount + gptr = Len(delivered)

\* A zero check vouches for the message: a reader that got the flags of a
\* message as they were sent, and a zero where its checksum ends, got everything
\* before the checksum as it was sent, however its reads were cut, and whatever
\* an earlier message, its own zeroed checksum included, left in the buffer.
ZeroCheckMeansIntact ==
  \A m \in Replies :
    LET asSent(first, last) ==
          \A i \in first .. last : delivered[Start[m] + i + 1] = Start[m] + i
    IN  /\ Checksummed[m] /\ Start[m + 1] <= Len(delivered)
        /\ asSent(HeaderSize, BlockSize - 1)
        /\ delivered[Start[m + 1]] = Zero
        => asSent(0, Size[m] - ChecksumSize - 1)

\* A message with a checksum is not handed out to its end unverified: no
\* checksum byte reaches a correct reader as it was on the wire, except in the
\* read that fails.
NoRawChecksum ==
  Correct(delivered) /\ ~failed =>
    \A m \in Replies : Checksummed[m] =>
      \A i \in Start[m + 1] - ChecksumSize + 1 .. Start[m + 1] :
        i <= Len(delivered) => delivered[i] = Zero

\* Bytes reach the reader in the order and with the values the server sent.
DeliveredAsSent == Correct(delivered)

\* A read comes back short or empty only for a reason the reader can act on:
\* the server closed the connection or sent a message of an unknown kind.
FailsOnlyWhenCut == failed /\ open => inMsg # 0 /\ Kind[inMsg] = "other"

\* A reader that was given the right bytes is never stopped short on a
\* connection that is open: xsgetn() waits for what a read is missing also when
\* the buffer holds a part of it.  (A reader with bad bytes may ask for more
\* than the message holds, which is refused.)
CorrectReadIsFilled ==
  failed /\ open /\ Correct(delivered) => inMsg # 0 /\ Kind[inMsg] = "other"

\* While the server stays connected, the reader gets every byte of every reply:
\* no call hangs, polls for ever or gives up on a message that is on its way.
EventuallyAll == []open => <>(Len(delivered) = Start[N + 1])

\* The buffer implements the stream of replies: the reader cannot tell how the
\* socket cut the messages, nor that they were buffered and verified.
Content ==
  [p \in 0 .. Start[N + 1] - 1 |->
     IF \E m \in Replies : /\ Checksummed[m]
                           /\ Start[m + 1] - ChecksumSize <= p /\ p < Start[m + 1]
       THEN Zero ELSE p]

Abstract == INSTANCE ReplyStream
ImplementsReplyStream == Abstract!Spec

===============================================================================
