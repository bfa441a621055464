-------------------------- MODULE ReadBufferProofs --------------------------
(***************************************************************************)
(* For every number, kind and size of replies and every way the socket may *)
(* cut them: the get area stays inside the message, the buffer and the     *)
(* socket agree on where messages begin, and tellg() counts exactly the    *)
(* bytes handed out.  A zero check vouches for its message, and where      *)
(* messages arrive whole, the reader gets the stream of replies.           *)
(***************************************************************************)
EXTENDS ReadBuffer, SequenceTheorems, WellFoundedInduction, TLAPS

\* The message in the buffer is the reply parsed last, and a decompressed one
\* is there in full.
MessageInBuffer ==
  inMessageSize # 0 =>
    /\ inMsg \in Replies /\ inMessageSize = Size[inMsg]
    /\ Kind[inMsg] \in {"msg", "snappy"}
    /\ Kind[inMsg] = "snappy" => egptr = inMessageSize

\* What each step of a call may rely on: the stream has not failed, and a new
\* message is begun only when the last byte of the previous one was handed out.
CallInProgress ==
  /\ pc # "idle" => ~failed
  /\ pc = "header" => gptr = inMessageSize
  /\ pc = "fill" => inMessageSize # 0
  /\ pc = "inflate" =>
       /\ inMessageSize = 0 /\ gptr = 0 /\ egptr = 0
       /\ inMsg \in Replies /\ Kind[inMsg] = "snappy"
       /\ open => sock = WireStart[inMsg] + HeaderSize

IInv == /\ TypeOK /\ GetAreaInMessage /\ Framed /\ PositionIsDelivered
        /\ MessageInBuffer /\ CallInProgress

-----------------------------------------------------------------------------
\* What the operators on the buffer return.

\* Copying wire bytes into the buffer keeps it a buffer of bytes.
LEMMA StoredType ==
  ASSUME NEW b \in [0 .. MaxSize - 1 -> Int], NEW at \in Int, NEW from \in Int,
         NEW n \in Int
  PROVE  Stored(b, at, from, n) \in [0 .. MaxSize - 1 -> Int]
BY DEF Stored

\* So does writing the verification's result over the checksum.
LEMMA VerifiedType ==
  ASSUME NEW b \in [0 .. MaxSize - 1 -> Int]
  PROVE  Verified(b) \in [0 .. MaxSize - 1 -> Int]
BY DEF Verified, Zero, Mismatch

\* The end of underflow() moves egptr and changes the buffer's bytes only.
LEMMA RetrievedType ==
  ASSUME NEW b \in [0 .. MaxSize - 1 -> Int], NEW e, Retrieved(b, e)
  PROVE  egptr' = e /\ pc' = "copy" /\ buf' \in [0 .. MaxSize - 1 -> Int]
BY VerifiedType DEF Retrieved

\* The sizes of a reply, from the assumptions on the constants.
LEMMA ReplySizes ==
  ASSUME NEW m \in Replies
  PROVE  /\ Size[m] \in Nat /\ Size[m] > HeaderSize /\ Size[m] <= MaxSize
         /\ Start[m] \in Nat /\ WireStart[m] \in Nat /\ WireSize[m] \in Nat
         /\ WireStart[m + 1] = WireStart[m] + WireSize[m]
         /\ Kind[m] = "msg" => WireSize[m] = Size[m]
         /\ Kind[m] = "snappy" => WireSize[m] > HeaderSize
<1>1. N \in Nat /\ m \in 1 .. N /\ m \in 1 .. N + 1
  BY RepliesAssumption DEF Replies
<1>2. Size[m] \in Nat /\ WireSize[m] \in Nat /\ Start[m] \in Nat /\ WireStart[m] \in Nat
  BY <1>1, RepliesAssumption, StartsAssumption
<1>3. /\ Size[m] >= BlockSize + ChecksumSize /\ Size[m] <= MaxSize
      /\ Kind[m] = "msg" => WireSize[m] = Size[m]
      /\ Kind[m] = "snappy" => WireSize[m] > HeaderSize + CompressedHeader
  BY RepliesAssumption
<1>4. WireStart[m + 1] = WireStart[m] + WireSize[m]
  BY StartsAssumption
<1>5. QED BY <1>2, <1>3, <1>4, SizesAssumption

-----------------------------------------------------------------------------
LEMMA InitIInv == Init => IInv
<1> SUFFICES ASSUME Init PROVE IInv
  OBVIOUS
<1>1. buf \in [0 .. MaxSize - 1 -> Int]
  BY DEF Init, Garbage
<1>2. delivered \in Seq(Int) /\ Len(delivered) = 0
  BY DEF Init
<1>3. inMsg \in 0 .. N
  BY RepliesAssumption DEF Init
<1>4. TypeOK
  BY <1>1, <1>2, <1>3 DEF Init, TypeOK
<1>5. PositionIsDelivered
  BY <1>2 DEF Init, PositionIsDelivered
<1>6. GetAreaInMessage /\ Framed /\ MessageInBuffer /\ CallInProgress
  BY SizesAssumption, StartsAssumption
     DEF Init, GetAreaInMessage, Framed, MessageInBuffer, CallInProgress
<1>7. QED BY <1>4, <1>5, <1>6 DEF IInv

\* Entering xsgetn() moves no byte: only the call's own state changes.
LEMMA XsgetnIInv == IInv /\ Xsgetn => IInv'
<1> SUFFICES ASSUME IInv, Xsgetn PROVE IInv'
  OBVIOUS
<1>1. PICK n \in Nat : Refuse(n) \/ Call(n)
  BY SizesAssumption DEF Xsgetn, Requests
<1>2. UNCHANGED <<inMessageSize, gptr, egptr, buf, inCount, sock, open, inMsg, delivered>>
  BY <1>1 DEF Refuse, Call
<1>3. CASE Refuse(n)
  BY <1>2, <1>3 DEF Refuse, Eof, IInv, TypeOK, GetAreaInMessage, Framed,
     PositionIsDelivered, MessageInBuffer, CallInProgress
<1>4. CASE Call(n)
  <2>1. pc = "idle" /\ ~failed /\ failed' = failed
    BY <1>4 DEF Xsgetn, Call
  <2>2. count' \in Nat /\ needs' \in Nat
    BY <1>4 DEF Call, IInv, TypeOK, availableData, GetAreaInMessage
  <2>3. pc' \in {"copy", "header", "fill"}
    BY <1>4 DEF Call
  <2>4. pc' = "header" => gptr = inMessageSize
    BY <1>4 DEF Call
  <2>5. pc' = "fill" => inMessageSize # 0
    BY <1>4 DEF Call, IInv, TypeOK, GetAreaInMessage
  <2>6. QED
    BY <1>2, <2>1, <2>2, <2>3, <2>4, <2>5 DEF IInv, TypeOK, GetAreaInMessage, Framed,
       PositionIsDelivered, MessageInBuffer, CallInProgress
<1>5. QED BY <1>1, <1>3, <1>4

\* A new header: the bytes of the finished message move from gptr to inCount,
\* and the socket is one header into the next reply.
LEMMA NextHeaderIInv == IInv /\ NextHeader => IInv'
<1> SUFFICES ASSUME IInv, NextHeader PROVE IInv'
  OBVIOUS
<1>1. /\ pc = "header" /\ gptr = inMessageSize /\ ~failed
      /\ UNCHANGED <<count, needs, delivered>>
      /\ inCount' = inCount + inMessageSize /\ gptr' = 0
  BY DEF NextHeader, IInv, CallInProgress
<1>2. inCount' \in Nat /\ PositionIsDelivered'
  BY <1>1 DEF IInv, TypeOK, PositionIsDelivered
<1>3. PICK r \in BlockingRead(HeaderSize) :
       /\ sock' = sock + r.n /\ open' = r.open
       /\ \/ /\ r.n # HeaderSize
             /\ Eof
             /\ inMessageSize' = 0 /\ egptr' = 0
             /\ UNCHANGED <<buf, inMsg>>
          \/ /\ r.n = HeaderSize
             /\ \E m \in Replies :
                  /\ sock = WireStart[m]
                  /\ inMsg' = m
                  /\ buf' = Stored(buf, 0, Start[m], HeaderSize)
                  /\ \/ /\ Kind[m] = "msg"
                        /\ inMessageSize' = Size[m] /\ egptr' = HeaderSize
                        /\ pc' = "fill" /\ UNCHANGED failed
                     \/ /\ Kind[m] = "snappy"
                        /\ inMessageSize' = 0 /\ egptr' = 0
                        /\ pc' = "inflate" /\ UNCHANGED failed
                     \/ /\ Kind[m] = "other"
                        /\ inMessageSize' = 0 /\ egptr' = 0
                        /\ Eof
  BY DEF NextHeader
<1>4. r.n \in Nat /\ r.open \in BOOLEAN
  BY SizesAssumption DEF BlockingRead
<1>5. sock' \in Nat /\ open' \in BOOLEAN
  BY <1>3, <1>4 DEF IInv, TypeOK
<1>6. CASE r.n # HeaderSize
  <2>0. /\ failed' = TRUE /\ pc' = "idle" /\ inMessageSize' = 0 /\ egptr' = 0
        /\ buf' = buf /\ inMsg' = inMsg
    BY <1>3, <1>6 DEF Eof
  <2>1. TypeOK'
    BY <1>1, <1>2, <1>5, <2>0 DEF IInv, TypeOK
  <2>2. (GetAreaInMessage /\ Framed /\ MessageInBuffer /\ CallInProgress)'
    BY <1>1, <2>0, SizesAssumption
       DEF GetAreaInMessage, Framed, MessageInBuffer, CallInProgress
  <2>3. QED BY <1>2, <2>1, <2>2 DEF IInv
<1>7. CASE r.n = HeaderSize
  <2>1. PICK m \in Replies :
          /\ sock = WireStart[m]
          /\ inMsg' = m
          /\ buf' = Stored(buf, 0, Start[m], HeaderSize)
          /\ \/ /\ Kind[m] = "msg"
                /\ inMessageSize' = Size[m] /\ egptr' = HeaderSize
                /\ pc' = "fill" /\ UNCHANGED failed
             \/ /\ Kind[m] = "snappy"
                /\ inMessageSize' = 0 /\ egptr' = 0
                /\ pc' = "inflate" /\ UNCHANGED failed
             \/ /\ Kind[m] = "other"
                /\ inMessageSize' = 0 /\ egptr' = 0
                /\ Eof
    BY <1>3, <1>7
  <2>2. sock' = WireStart[m] + HeaderSize
    BY <1>3, <1>7, <2>1
  <2>3. buf' \in [0 .. MaxSize - 1 -> Int]
    <3>1. Start[m] \in Int /\ 0 \in Int /\ HeaderSize \in Int
      BY ReplySizes, SizesAssumption
    <3>2. buf \in [0 .. MaxSize - 1 -> Int]
      BY DEF IInv, TypeOK
    <3>3. QED BY <2>1, <3>1, <3>2, StoredType
  <2>4. m \in 0 .. N /\ inMsg' \in 0 .. N
    BY <2>1, RepliesAssumption DEF Replies
  <2>5. CASE Kind[m] = "msg"
    <3>1. /\ inMessageSize' = Size[m] /\ egptr' = HeaderSize
          /\ pc' = "fill" /\ failed' = failed
      BY <2>1, <2>5
    <3>2. Size[m] \in Nat /\ Size[m] > HeaderSize /\ Size[m] <= MaxSize
      BY ReplySizes
    <3>3. TypeOK'
      BY <1>1, <1>2, <1>5, <2>1, <2>3, <2>4, <3>1, <3>2, SizesAssumption DEF IInv, TypeOK
    <3>4. (GetAreaInMessage /\ Framed)'
      BY <1>1, <2>1, <2>2, <2>5, <3>1, <3>2, SizesAssumption DEF GetAreaInMessage, Framed
    <3>5. (MessageInBuffer /\ CallInProgress)'
      BY <1>1, <2>1, <2>5, <3>1, <3>2, SizesAssumption DEF MessageInBuffer, CallInProgress
    <3>6. QED BY <1>2, <3>3, <3>4, <3>5 DEF IInv
  <2>6. CASE Kind[m] = "snappy"
    <3>1. /\ inMessageSize' = 0 /\ egptr' = 0 /\ pc' = "inflate" /\ failed' = failed
      BY <2>1, <2>6
    <3>2. TypeOK'
      BY <1>1, <1>2, <1>5, <2>1, <2>3, <2>4, <3>1 DEF IInv, TypeOK
    <3>3. (GetAreaInMessage /\ Framed /\ MessageInBuffer /\ CallInProgress)'
      BY <1>1, <2>1, <2>2, <2>6, <3>1, SizesAssumption
         DEF GetAreaInMessage, Framed, MessageInBuffer, CallInProgress
    <3>4. QED BY <1>2, <3>2, <3>3 DEF IInv
  <2>7. CASE Kind[m] = "other"
    <3>1. /\ inMessageSize' = 0 /\ egptr' = 0 /\ pc' = "idle" /\ failed' = TRUE
      BY <2>1, <2>7 DEF Eof
    <3>2. TypeOK'
      BY <1>1, <1>2, <1>5, <2>1, <2>3, <2>4, <3>1 DEF IInv, TypeOK
    <3>3. (GetAreaInMessage /\ Framed /\ MessageInBuffer /\ CallInProgress)'
      BY <1>1, <3>1, SizesAssumption
         DEF GetAreaInMessage, Framed, MessageInBuffer, CallInProgress
    <3>4. QED BY <1>2, <3>2, <3>3 DEF IInv
  <2>8. QED BY <2>1, <2>5, <2>6, <2>7
<1>8. QED BY <1>6, <1>7

\* A decompressed message fills the buffer at once; the socket has supplied
\* all of it, or is closed.
LEMMA InflateIInv == IInv /\ Inflate => IInv'
<1> SUFFICES ASSUME IInv, Inflate PROVE IInv'
  OBVIOUS
<1>1. /\ pc = "inflate" /\ gptr = 0 /\ inMessageSize = 0 /\ ~failed
      /\ inMsg \in Replies /\ Kind[inMsg] = "snappy"
      /\ open => sock = WireStart[inMsg] + HeaderSize
      /\ UNCHANGED <<gptr, inCount, count, needs, inMsg, delivered>>
  BY DEF Inflate, Inflated, IInv, CallInProgress
<1>2. /\ Size[inMsg] \in Nat /\ Size[inMsg] > HeaderSize /\ Size[inMsg] <= MaxSize
      /\ WireStart[inMsg + 1] = WireStart[inMsg] + WireSize[inMsg]
      /\ WireSize[inMsg] \in Nat /\ WireSize[inMsg] > HeaderSize
      /\ Start[inMsg] \in Nat /\ WireStart[inMsg] \in Nat
  BY <1>1, ReplySizes
<1>3. PICK r \in BlockingRead(WireSize[inMsg] - HeaderSize) :
       /\ sock' = sock + r.n /\ open' = r.open
       /\ \/ /\ r.n < WireSize[inMsg] - HeaderSize
             /\ Eof
             /\ UNCHANGED <<inMessageSize, egptr, buf>>
          \/ \E torn \in HeaderSize .. Size[inMsg] :
               /\ torn = Size[inMsg] <=> r.n = WireSize[inMsg] - HeaderSize
               /\ r.n > CompressedHeader
               /\ inMessageSize' = Size[inMsg] /\ egptr' = Size[inMsg]
               /\ buf' = [i \in DOMAIN buf |->
                            IF i < torn THEN Start[inMsg] + i
                            ELSE IF i < Size[inMsg] THEN Garbage ELSE buf[i]]
               /\ pc' = "fill" /\ UNCHANGED failed
  BY DEF Inflate, Inflated
<1>4. /\ r.n \in Nat /\ r.open \in BOOLEAN
      /\ r.open => open /\ r.n = WireSize[inMsg] - HeaderSize
  BY <1>2, SizesAssumption DEF BlockingRead
<1>5. sock' \in Nat /\ open' \in BOOLEAN
  BY <1>3, <1>4 DEF IInv, TypeOK
<1>6. PositionIsDelivered'
  BY <1>1 DEF IInv, PositionIsDelivered
<1>7. CASE Eof /\ UNCHANGED <<inMessageSize, egptr, buf>>
  <2>1. TypeOK'
    BY <1>1, <1>5, <1>7 DEF Eof, IInv, TypeOK
  <2>2. (GetAreaInMessage /\ Framed /\ MessageInBuffer /\ CallInProgress)'
    BY <1>1, <1>7
       DEF Eof, IInv, GetAreaInMessage, Framed, MessageInBuffer, CallInProgress
  <2>3. QED BY <1>6, <2>1, <2>2 DEF IInv
<1>8. ASSUME NEW torn \in HeaderSize .. Size[inMsg],
             inMessageSize' = Size[inMsg], egptr' = Size[inMsg],
             buf' = [i \in DOMAIN buf |->
                       IF i < torn THEN Start[inMsg] + i
                       ELSE IF i < Size[inMsg] THEN Garbage ELSE buf[i]],
             pc' = "fill", UNCHANGED failed
      PROVE  IInv'
  <2>1. buf' \in [0 .. MaxSize - 1 -> Int]
    BY <1>2, <1>8 DEF IInv, TypeOK, Garbage
  <2>2. TypeOK'
    BY <1>1, <1>2, <1>5, <1>8, <2>1 DEF IInv, TypeOK
  <2>3. GetAreaInMessage'
    BY <1>1, <1>2, <1>8 DEF GetAreaInMessage
  <2>4. open' => sock' = WireStart[inMsg + 1]
    <3>1. sock \in Nat /\ HeaderSize \in Nat
      BY SizesAssumption DEF IInv, TypeOK
    <3>2. ASSUME open' PROVE sock = WireStart[inMsg] + HeaderSize
                             /\ r.n = WireSize[inMsg] - HeaderSize
      BY <1>1, <1>3, <1>4, <3>2
    <3>3. QED BY <1>2, <1>3, <1>4, <3>1, <3>2
  <2>5. Framed'
    BY <1>1, <1>2, <1>8, <2>4, SizesAssumption DEF Framed
  <2>6. (MessageInBuffer /\ CallInProgress)'
    BY <1>1, <1>2, <1>8, SizesAssumption DEF MessageInBuffer, CallInProgress
  <2>7. QED BY <1>6, <2>2, <2>3, <2>5, <2>6 DEF IInv
<1>9. QED BY <1>3, <1>7, <1>8

\* The failure paths of underflow() and its path without a socket read move
\* neither the socket nor a pointer.
LEMMA FillRefusedIInv == IInv /\ FillRefused => IInv'
BY DEF FillRefused, Eof, IInv, TypeOK, GetAreaInMessage, Framed,
   PositionIsDelivered, MessageInBuffer, CallInProgress

LEMMA FillCompleteIInv == IInv /\ FillComplete => IInv'
<1> SUFFICES ASSUME IInv, FillComplete PROVE IInv'
  OBVIOUS
<1>1. egptr' = egptr /\ pc' = "copy" /\ buf' \in [0 .. MaxSize - 1 -> Int]
  BY RetrievedType DEF FillComplete, IInv, TypeOK
<1>2. QED
  BY <1>1 DEF FillComplete, IInv, TypeOK, GetAreaInMessage, Framed,
     PositionIsDelivered, MessageInBuffer, CallInProgress

\* The reads of a partly retrieved message: egptr and the socket advance by
\* the same number of bytes, and never past the message's end.
LEMMA FillIInv == IInv /\ Fill => IInv'
<1> SUFFICES ASSUME IInv, Fill PROVE IInv'
  OBVIOUS
<1> DEFINE Moved(n, o) == /\ sock' = sock + n /\ open' = o
                          /\ egptr' = egptr + n /\ pc' = "copy" /\ failed' = failed
<1>1. /\ pc = "fill" /\ needs <= inMessageSize - gptr /\ inMessageSize - egptr # 0
      /\ inMessageSize # 0
      /\ UNCHANGED <<inMessageSize, gptr, inCount, count, needs, inMsg, delivered>>
  BY DEF Fill, IInv, CallInProgress, messageLeft, missingData
<1>2. /\ inMsg \in Replies /\ Kind[inMsg] = "msg"
      /\ inMessageSize = Size[inMsg]
      /\ Start[inMsg] \in Nat /\ WireStart[inMsg] \in Nat
  BY <1>1, ReplySizes DEF IInv, TypeOK, MessageInBuffer
<1>3. NextOnWire \in Int
  BY <1>2 DEF NextOnWire, IInv, TypeOK
<1>4. /\ gptr \in Nat /\ egptr \in Nat /\ inMessageSize \in Nat /\ needs \in Nat
      /\ sock \in Nat /\ gptr <= egptr /\ egptr <= inMessageSize
      /\ open \in BOOLEAN /\ failed \in BOOLEAN
  BY DEF IInv, TypeOK, GetAreaInMessage
<1>5. PositionIsDelivered'
  BY <1>1 DEF IInv, PositionIsDelivered
<1>6. ASSUME NEW n \in Nat, NEW o \in BOOLEAN, Moved(n, o), o => open,
             egptr + n <= inMessageSize, buf' \in [0 .. MaxSize - 1 -> Int]
      PROVE  IInv'
  <2>1. TypeOK'
    BY <1>1, <1>4, <1>6 DEF IInv, TypeOK
  <2>2. GetAreaInMessage'
    BY <1>1, <1>4, <1>6 DEF IInv, GetAreaInMessage
  <2>3. Framed'
    <3>1. ASSUME o, ~failed PROVE sock = WireStart[inMsg] + egptr
      BY <1>1, <1>2, <1>6, <3>1 DEF IInv, Framed
    <3>2. ASSUME o, ~failed PROVE sock' = WireStart[inMsg] + egptr'
      BY SMTT(20), <1>2, <1>4, <1>6, <3>1, <3>2
    <3>3. QED BY <1>1, <1>2, <1>6, <3>2 DEF Framed
  <2>4. (MessageInBuffer /\ CallInProgress)'
    BY <1>1, <1>2, <1>6 DEF IInv, MessageInBuffer, CallInProgress
  <2>5. QED BY <1>5, <2>1, <2>2, <2>3, <2>4 DEF IInv
<1>7. ASSUME NEW n \in Nat, NEW o \in BOOLEAN, sock' = sock + n, open' = o, Eof,
             egptr' = egptr, buf' \in [0 .. MaxSize - 1 -> Int]
      PROVE  IInv'
  <2>1. TypeOK'
    BY <1>1, <1>4, <1>7 DEF Eof, IInv, TypeOK
  <2>2. (GetAreaInMessage /\ Framed /\ MessageInBuffer /\ CallInProgress)'
    BY <1>1, <1>7 DEF Eof, IInv, GetAreaInMessage, Framed, MessageInBuffer, CallInProgress
  <2>3. QED BY <1>5, <2>1, <2>2 DEF IInv
<1>8. PICK r \in TryRead(missingData) :
       LET b == Stored(buf, egptr, NextOnWire, r.n) IN
       \/ /\ availableData + r.n >= needs
          /\ Retrieved(b, egptr + r.n)
          /\ sock' = sock + r.n /\ open' = r.open
          /\ UNCHANGED failed
       \/ /\ availableData + r.n < needs /\ ~r.open
          /\ buf' = b /\ sock' = sock + r.n /\ open' = FALSE
          /\ Eof
          /\ UNCHANGED egptr
       \/ /\ availableData + r.n < needs /\ r.open
          /\ \E top \in BlockingRead(needs - availableData - r.n) :
               LET b2 == Stored(b, egptr, NextOnWire + r.n, top.n) IN
               /\ sock' = sock + r.n + top.n /\ open' = top.open
               /\ \/ /\ availableData + r.n + top.n = needs
                     /\ Retrieved(b2, egptr + r.n + top.n)
                     /\ UNCHANGED failed
                  \/ /\ availableData + r.n + top.n < needs
                     /\ buf' = b2
                     /\ Eof
                     /\ UNCHANGED egptr
  BY DEF Fill
<1> DEFINE b == Stored(buf, egptr, NextOnWire, r.n)
<1>9. /\ r.n \in Nat /\ r.open \in BOOLEAN /\ r.n <= inMessageSize - egptr
      /\ r.open => open
  BY <1>4 DEF TryRead, missingData
<1>10. b \in [0 .. MaxSize - 1 -> Int]
  BY <1>3, <1>4, <1>9, StoredType DEF IInv, TypeOK
<1>11. CASE availableData + r.n >= needs
  <2>1. Retrieved(b, egptr + r.n) /\ sock' = sock + r.n /\ open' = r.open /\ failed' = failed
    BY <1>4, <1>8, <1>9, <1>11 DEF availableData
  <2>2. egptr' = egptr + r.n /\ pc' = "copy" /\ buf' \in [0 .. MaxSize - 1 -> Int]
    BY <1>10, <2>1, RetrievedType
  <2>3. egptr + r.n <= inMessageSize
    BY <1>4, <1>9
  <2>4. QED BY <1>6, <1>9, <2>1, <2>2, <2>3
<1>12. CASE availableData + r.n < needs /\ ~r.open
  <2>1. buf' = b /\ sock' = sock + r.n /\ open' = FALSE /\ Eof /\ egptr' = egptr
    BY <1>4, <1>8, <1>9, <1>12 DEF availableData
  <2>2. QED BY <1>7, <1>9, <1>10, <2>1
<1>13. CASE availableData + r.n < needs /\ r.open
  <2> DEFINE want == needs - availableData - r.n
  <2>1. PICK top \in BlockingRead(want) :
          LET b2 == Stored(b, egptr, NextOnWire + r.n, top.n) IN
          /\ sock' = sock + r.n + top.n /\ open' = top.open
          /\ \/ /\ availableData + r.n + top.n = needs
                /\ Retrieved(b2, egptr + r.n + top.n)
                /\ UNCHANGED failed
             \/ /\ availableData + r.n + top.n < needs
                /\ buf' = b2
                /\ Eof
                /\ UNCHANGED egptr
    <3>1. ~(availableData + r.n >= needs)
      BY <1>4, <1>9, <1>13 DEF availableData
    <3>2. QED BY <1>8, <1>13, <3>1
  <2> DEFINE b2 == Stored(b, egptr, NextOnWire + r.n, top.n)
  <2>2. want \in Nat
    BY <1>4, <1>9, <1>13 DEF availableData
  <2> HIDE DEF want
  <2>3. top.n \in Nat /\ top.open \in BOOLEAN /\ (top.open => open)
    BY <2>2 DEF BlockingRead
  <2>4. /\ r.n + top.n \in Nat /\ sock' = sock + (r.n + top.n)
        /\ egptr + r.n + top.n = egptr + (r.n + top.n)
    BY <1>4, <1>9, <2>1, <2>3
  <2>5. b2 \in [0 .. MaxSize - 1 -> Int]
    BY <1>3, <1>4, <1>9, <1>10, <2>3, StoredType
  <2>6. CASE availableData + r.n + top.n = needs /\ Retrieved(b2, egptr + r.n + top.n)
             /\ UNCHANGED failed
    <3>1. /\ egptr' = egptr + (r.n + top.n) /\ pc' = "copy"
          /\ buf' \in [0 .. MaxSize - 1 -> Int]
      BY <2>4, <2>5, <2>6, RetrievedType
    <3>2. egptr + (r.n + top.n) <= inMessageSize
      BY <1>1, <1>4, <1>9, <2>3, <2>6 DEF availableData
    <3>3. QED BY <1>6, <2>1, <2>3, <2>4, <2>6, <3>1, <3>2
  <2>7. CASE buf' = b2 /\ Eof /\ UNCHANGED egptr
    BY <1>7, <2>1, <2>3, <2>4, <2>5, <2>7
  <2>8. QED BY <2>1, <2>6, <2>7
<1>14. QED BY <1>4, <1>9, <1>11, <1>12, <1>13 DEF availableData

\* Copying to the reader moves gptr by the number of bytes copied.
LEMMA CopyIInv == IInv /\ Copy => IInv'
<1> SUFFICES ASSUME IInv, Copy PROVE IInv'
  OBVIOUS
<1> DEFINE readable == IF count < availableData THEN count ELSE availableData
<1>1. /\ delivered' = delivered \o [i \in 1 .. readable |-> buf[gptr + i - 1]]
      /\ gptr' = gptr + readable /\ failed' = (readable < count)
      /\ needs' = 1 /\ count' = 0 /\ pc' = "idle" /\ pc = "copy"
      /\ UNCHANGED <<inMessageSize, egptr, buf, inCount, sock, open, inMsg>>
  BY DEF Copy
<1>2. /\ gptr \in Nat /\ egptr \in Nat /\ count \in Nat /\ gptr <= egptr
      /\ egptr <= MaxSize /\ MaxSize \in Nat /\ inMessageSize \in Nat
  BY SizesAssumption DEF IInv, TypeOK, GetAreaInMessage
<1>3. readable \in Nat /\ gptr + readable <= egptr
  BY <1>2 DEF availableData
<1> HIDE DEF readable
<1> DEFINE piece == [i \in 1 .. readable |-> buf[gptr + i - 1]]
<1>4. piece \in Seq(Int) /\ Len(piece) = readable
  <2>1. \A i \in 1 .. readable : gptr + i - 1 \in 0 .. MaxSize - 1
    BY <1>2, <1>3
  <2>2. \A i \in 1 .. readable : buf[gptr + i - 1] \in Int
    BY <2>1 DEF IInv, TypeOK
  <2>3. QED BY <1>3, <2>2
<1>5. delivered' \in Seq(Int) /\ Len(delivered') = Len(delivered) + readable
  <2>1. delivered \in Seq(Int) /\ delivered' = delivered \o piece
    BY <1>1 DEF IInv, TypeOK
  <2> HIDE DEF piece
  <2>2. QED BY <1>4, <2>1
<1>6. PositionIsDelivered'
  <2>1. inCount \in Nat /\ Len(delivered) = inCount + gptr
    BY DEF IInv, TypeOK, PositionIsDelivered
  <2>2. inCount' + gptr' = Len(delivered')
    BY <1>1, <1>2, <1>3, <1>5, <2>1
  <2>3. QED BY <2>2 DEF PositionIsDelivered
<1>7. TypeOK'
  BY <1>1, <1>2, <1>3, <1>5 DEF IInv, TypeOK
<1>8. (GetAreaInMessage /\ MessageInBuffer /\ CallInProgress)'
  BY <1>1, <1>3 DEF IInv, GetAreaInMessage, MessageInBuffer, CallInProgress
<1>9. Framed'
  <2>1. ~failed
    BY <1>1 DEF IInv, CallInProgress
  <2>2. QED BY <1>1, <2>1 DEF IInv, Framed
<1>10. QED BY <1>6, <1>7, <1>8, <1>9 DEF IInv

LEMMA NextIInv == IInv /\ [Next]_vars => IInv'
<1>1. IInv /\ UNCHANGED vars => IInv'
  BY DEF vars, IInv, TypeOK, GetAreaInMessage, Framed, PositionIsDelivered,
     MessageInBuffer, CallInProgress
<1>2. QED
  BY <1>1, XsgetnIInv, NextHeaderIInv, InflateIInv, FillRefusedIInv,
     FillCompleteIInv, FillIInv, CopyIInv DEF Next, Done

\* The strengthened invariant: what the buffer, the socket and the call in
\* progress know of each other at every socket read and copy.
THEOREM Invariance == Spec => []IInv
<1>1. QED BY InitIInv, NextIInv, PTL DEF Spec

\* underflow() and xsgetn() keep every field in its type.
THEOREM TypeCorrect == Spec => []TypeOK
<1>1. QED BY Invariance, PTL DEF IInv

\* However the socket cuts the replies, the get area stays within the message.
THEOREM GetAreaBounded == Spec => []GetAreaInMessage
<1>1. QED BY Invariance, PTL DEF IInv

\* However the socket cuts the replies, the next header is read at the start of
\* the next reply: buffer and socket never lose the message boundaries.
THEOREM Framing == Spec => []Framed
<1>1. QED BY Invariance, PTL DEF IInv

\* recvMessage() measures replies with tellg(): it is the number of bytes read.
THEOREM Position == Spec => []PositionIsDelivered
<1>1. QED BY Invariance, PTL DEF IInv

-----------------------------------------------------------------------------
(* What the bytes are that the buffer hands out. *)

-----------------------------------------------------------------------------
(* The replies do not overlap. *)

LEMMA LeastNat ==
  ASSUME NEW T, T \subseteq Nat, T # {}
  PROVE  \E k \in T : \A j \in T : k <= j
<1> DEFINE R == {pair \in Nat \X Nat : pair[1] < pair[2]}
<1>1. IsWellFoundedOn(R, Nat)
  BY NatLessThanWellFounded DEF OpToRel
<1>2. PICK k \in T : \A j \in T : ~(<<j, k>> \in R)
  <2> HIDE DEF R
  <2> QED BY <1>1, WFMin
<1>3. \A j \in T : ~(j < k)
  BY <1>2
<1> QED BY <1>3

\* The running sums increase, by induction: there is no least message that
\* begins no later than one before it.
LEMMA StartsIncrease ==
  \A k \in 1 .. N + 1 : \A m \in 1 .. k - 1 :
    Start[m] < Start[k] /\ WireStart[m] < WireStart[k]
<1> DEFINE Before(m, k) == Start[m] < Start[k] /\ WireStart[m] < WireStart[k]
           T == {k \in 1 .. N + 1 : \E m \in 1 .. k - 1 : ~Before(m, k)}
<1>1. ASSUME NEW k \in T, \A j \in T : k <= j
      PROVE  FALSE
  <2>1. N \in Nat /\ k \in 1 .. N + 1
    BY RepliesAssumption
  <2>2. PICK m \in 1 .. k - 1 : ~Before(m, k)
    BY <1>1
  <2>3. k - 1 \in Replies /\ k - 1 \in 1 .. N + 1 /\ (k - 1) + 1 = k /\ m \in 1 .. N + 1
    BY <2>1, <2>2 DEF Replies
  <2>4. /\ Start[k] = Start[k - 1] + Size[k - 1]
        /\ WireStart[k] = WireStart[k - 1] + WireSize[k - 1]
    BY <2>3, StartsAssumption
  <2>5. /\ Size[k - 1] \in Nat \ {0} /\ WireSize[k - 1] \in Nat \ {0}
        /\ \A i \in 1 .. N + 1 : Start[i] \in Nat /\ WireStart[i] \in Nat
    <3>1. Kind[k - 1] = "other" => WireSize[k - 1] >= HeaderSize
      BY <2>3, RepliesAssumption
    <3>2. Kind[k - 1] \in {"msg", "snappy", "other"}
      BY <2>3, RepliesAssumption
    <3>3. Size[k - 1] \in Nat \ {0} /\ WireSize[k - 1] \in Nat
      BY <2>3, ReplySizes, SizesAssumption
    <3>4. WireSize[k - 1] # 0
      BY <2>3, <3>1, <3>2, <3>3, ReplySizes, SizesAssumption
    <3>5. \A i \in 1 .. N + 1 : Start[i] \in Nat /\ WireStart[i] \in Nat
      BY StartsAssumption
    <3> QED BY <3>3, <3>4, <3>5
  <2>6. CASE m = k - 1
    BY <2>2, <2>3, <2>4, <2>5, <2>6
  <2>7. CASE m # k - 1
    <3>1. m \in 1 .. (k - 1) - 1
      BY <2>1, <2>2, <2>7
    <3>2. k - 1 \notin T
      BY <1>1, <2>1
    <3>3. Before(m, k - 1)
      BY <2>3, <3>1, <3>2
    <3> QED BY <2>2, <2>3, <2>4, <2>5, <3>3
  <2> QED BY <2>6, <2>7
<1>2. T \subseteq Nat
  BY RepliesAssumption
<1>3. T = {}
  <2> HIDE DEF T
  <2> QED BY <1>1, <1>2, LeastNat
<1> QED BY <1>3

\* A message of which the reader has got the last byte, but had not before,
\* is the one in the buffer.
LEMMA LastByteOf ==
  ASSUME NEW m \in Replies, NEW k \in Replies, Start[k] < Start[m + 1],
         Start[m + 1] <= Start[k + 1]
  PROVE  m = k
<1>1. N \in Nat /\ m \in 1 .. N /\ k \in 1 .. N /\ m + 1 \in 1 .. N + 1 /\ k + 1 \in 1 .. N + 1
  BY RepliesAssumption DEF Replies
<1>2. \A i \in 1 .. N + 1 : Start[i] \in Nat
  BY StartsAssumption
<1>3. CASE m < k
  <2>1. m + 1 = k \/ m + 1 \in 1 .. k - 1
    BY <1>1, <1>3
  <2>2. k \in 1 .. N + 1
    BY <1>1
  <2> QED BY <1>1, <1>2, <2>1, <2>2, StartsIncrease
<1>4. CASE k < m
  <2>1. k + 1 \in 1 .. (m + 1) - 1
    BY <1>1, <1>4
  <2> QED BY <1>1, <1>2, <2>1, StartsIncrease
<1> QED BY <1>1, <1>3, <1>4

\* Nor is there more than one that begins where the socket is.
LEMMA NextOf ==
  ASSUME NEW m \in Replies, NEW k \in 1 .. N + 1, WireStart[m] = WireStart[k]
  PROVE  m = k
<1>1. N \in Nat /\ m \in 1 .. N + 1
  BY RepliesAssumption DEF Replies
<1>2. \A i \in 1 .. N + 1 : WireStart[i] \in Nat
  BY StartsAssumption
<1>3. m \in 1 .. k - 1 \/ k \in 1 .. m - 1 \/ m = k
  BY <1>1
<1> QED BY <1>1, <1>2, <1>3, StartsIncrease

-----------------------------------------------------------------------------

\* The message in the buffer begins where the earlier ones ended.
Placed ==
  ~failed => IF inMessageSize # 0 \/ pc = "inflate"
               THEN inMsg \in Replies /\ inCount = Start[inMsg]
               ELSE inMsg = 0 /\ inCount = 0

\* What was handed out of it, up to its checksum, is still in the buffer.
Handed ==
  ~failed /\ inMessageSize # 0 =>
    \A j \in 0 .. gptr - 1 :
      j < inMessageSize - ChecksumSize => delivered[inCount + j + 1] = buf[j]

\* Of a message that is complete, the last byte is zero only if the rest is
\* right, provided that its flags are.
Sealed ==
  /\ ~failed /\ inMessageSize # 0 /\ egptr = inMessageSize /\ pc # "fill"
  /\ Checksummed[inMsg] /\ IntactBytes(buf, inMsg, HeaderSize, BlockSize - 1)
  /\ buf[inMessageSize - 1] = Zero
  => IntactBytes(buf, inMsg, 0, inMessageSize - ChecksumSize - 1)

ContentInv == Placed /\ Handed /\ Sealed /\ ZeroCheckMeansIntact

-----------------------------------------------------------------------------
\* The message in the buffer, and its parts.
LEMMA PartsOfMessage ==
  ASSUME IInv, inMessageSize # 0
  PROVE  /\ inMsg \in Replies /\ inMessageSize = Size[inMsg]
         /\ Start[inMsg] \in Nat /\ Start[inMsg + 1] = Start[inMsg] + inMessageSize
         /\ inMessageSize \in Nat /\ inMessageSize <= MaxSize
         /\ BlockSize \in Nat /\ HeaderSize \in Nat /\ ChecksumSize \in Nat \ {0}
         /\ BlockSize <= inMessageSize - ChecksumSize
         /\ gptr \in Nat /\ egptr \in Nat /\ gptr <= egptr /\ egptr <= inMessageSize
<1>1. inMsg \in Replies /\ inMessageSize = Size[inMsg]
  BY DEF IInv, MessageInBuffer
<1>2. Start[inMsg + 1] = Start[inMsg] + Size[inMsg] /\ Size[inMsg] >= BlockSize + ChecksumSize
  BY <1>1, RepliesAssumption, StartsAssumption
<1>3. Start[inMsg] \in Nat /\ Size[inMsg] \in Nat /\ Size[inMsg] <= MaxSize
  BY <1>1, ReplySizes
<1> QED BY <1>1, <1>2, <1>3, SizesAssumption DEF IInv, TypeOK, GetAreaInMessage

LEMMA InitContent == Init => ContentInv
<1> SUFFICES ASSUME Init PROVE ContentInv
  OBVIOUS
<1>1. ASSUME NEW m \in Replies PROVE Start[m + 1] \in Nat \ {0}
  <2>1. Start[m + 1] = Start[m] + Size[m]
    BY StartsAssumption
  <2> QED BY <2>1, ReplySizes, SizesAssumption
<1>2. \A m \in Replies : ~(Start[m + 1] <= Len(delivered))
  BY <1>1 DEF Init
<1>3. ZeroCheckMeansIntact
  BY <1>2 DEF ZeroCheckMeansIntact
<1>4. Placed /\ Handed /\ Sealed
  BY DEF Init, Placed, Handed, Sealed
<1> QED BY <1>3, <1>4 DEF ContentInv

\* After a failure only what was handed out before matters.
LEMMA FailedContent ==
  ASSUME ContentInv, failed' = TRUE, delivered' = delivered
  PROVE  ContentInv'
BY DEF ContentInv, Placed, Handed, Sealed, ZeroCheckMeansIntact

LEMMA XsgetnContent == IInv /\ ContentInv /\ Xsgetn => ContentInv'
<1> SUFFICES ASSUME IInv, ContentInv, Xsgetn PROVE ContentInv'
  OBVIOUS
<1>1. PICK n \in Requests : Refuse(n) \/ Call(n)
  BY DEF Xsgetn
<1>2. CASE Refuse(n)
  BY <1>2, FailedContent DEF Refuse, Eof
<1>3. CASE Call(n)
  <2>1. /\ pc = "idle" /\ pc' \in {"copy", "header", "fill"}
        /\ UNCHANGED <<inMessageSize, gptr, egptr, buf, inCount, failed, inMsg, delivered>>
    BY <1>3 DEF Xsgetn, Call
  <2> QED BY <2>1 DEF ContentInv, Placed, Handed, Sealed, ZeroCheckMeansIntact, IntactBytes
<1> QED BY <1>1, <1>2, <1>3

\* The next header is that of the next reply, as the socket is where it begins.
LEMMA NextHeaderPlaced == IInv /\ Placed /\ NextHeader => Placed'
<1> SUFFICES ASSUME IInv, Placed, NextHeader, ~failed' PROVE Placed'
  BY DEF Placed
<1>1. /\ pc = "header" /\ gptr = inMessageSize /\ ~failed
      /\ inCount' = inCount + inMessageSize
  BY DEF NextHeader, IInv, CallInProgress
<1>2. PICK r \in BlockingRead(HeaderSize) :
        /\ r.n = HeaderSize
        /\ \E m \in Replies :
             /\ sock = WireStart[m] /\ inMsg' = m
             /\ \/ inMessageSize' = Size[m] /\ pc' = "fill"
                \/ inMessageSize' = 0 /\ pc' = "inflate"
  BY DEF NextHeader, Eof
<1>3. PICK m \in Replies :
        /\ sock = WireStart[m] /\ inMsg' = m
        /\ \/ inMessageSize' = Size[m] /\ pc' = "fill"
           \/ inMessageSize' = 0 /\ pc' = "inflate"
  BY <1>2
<1>4. open
  BY <1>2, SizesAssumption DEF BlockingRead
<1>5. ASSUME inMessageSize = 0 PROVE inCount' = Start[m]
  <2>1. inMsg = 0 /\ inCount = 0 /\ sock = WireStart[1]
    BY <1>1, <1>4, <1>5, RepliesAssumption, StartsAssumption DEF Placed, IInv, Framed
  <2>2. 1 \in 1 .. N + 1
    BY RepliesAssumption
  <2>3. m = 1
    BY <1>3, <2>1, <2>2, NextOf
  <2> QED BY <1>1, <1>5, <2>1, <2>3, StartsAssumption
<1>6. ASSUME inMessageSize # 0 PROVE inCount' = Start[m]
  <2>1. inMsg \in Replies /\ inCount = Start[inMsg]
    BY <1>1, <1>6 DEF Placed
  <2>2. sock = WireStart[inMsg + 1]
    <3>1. egptr = Size[inMsg] /\ inMessageSize = Size[inMsg]
      BY <1>1, <1>6, PartsOfMessage
    <3>2. Kind[inMsg] = "msg" => WireStart[inMsg + 1] = WireStart[inMsg] + Size[inMsg]
      BY <2>1, ReplySizes
    <3> QED BY <1>1, <1>4, <1>6, <3>1, <3>2 DEF IInv, Framed, MessageInBuffer
  <2>3. inMsg + 1 \in 1 .. N + 1
    BY <2>1, RepliesAssumption DEF Replies
  <2>4. m = inMsg + 1
    BY <1>3, <2>2, <2>3, NextOf
  <2> QED BY <1>1, <1>6, <2>1, <2>4, PartsOfMessage
<1>7. inCount' = Start[m] /\ Size[m] # 0
  BY <1>5, <1>6, ReplySizes, SizesAssumption
<1> QED BY <1>3, <1>7 DEF Placed

LEMMA NextHeaderContent == IInv /\ ContentInv /\ NextHeader => ContentInv'
<1> SUFFICES ASSUME IInv, ContentInv, NextHeader PROVE ContentInv'
  OBVIOUS
<1>1. /\ ~failed /\ delivered' = delivered /\ gptr' = 0
  BY DEF NextHeader, IInv, CallInProgress
<1>2. CASE failed'
  BY <1>1, <1>2, FailedContent DEF NextHeader, Eof
<1>3. CASE ~failed'
  <2>1. inMessageSize' = 0 \/ pc' = "fill"
    BY <1>3 DEF NextHeader, Eof
  <2>2. Placed'
    BY NextHeaderPlaced DEF ContentInv
  <2>3. Handed' /\ Sealed'
    BY <1>1, <2>1 DEF Handed, Sealed
  <2>4. ZeroCheckMeansIntact'
    BY <1>1 DEF ContentInv, ZeroCheckMeansIntact
  <2> QED BY <2>2, <2>3, <2>4 DEF ContentInv
<1> QED BY <1>2, <1>3

LEMMA InflateContent == IInv /\ ContentInv /\ Inflate => ContentInv'
<1> SUFFICES ASSUME IInv, ContentInv, Inflate PROVE ContentInv'
  OBVIOUS
<1>1. /\ pc = "inflate" /\ gptr' = 0 /\ ~failed
      /\ UNCHANGED <<inCount, inMsg, delivered>>
  BY DEF Inflate, IInv, CallInProgress
<1>2. CASE failed'
  BY <1>1, <1>2, FailedContent
<1>3. CASE ~failed'
  <2>1. pc' = "fill" /\ inMessageSize' = Size[inMsg]
    BY <1>3 DEF Inflate, Eof
  <2>2. Placed'
    <3>1. inMsg \in Replies /\ inCount = Start[inMsg]
      BY <1>1 DEF ContentInv, Placed
    <3>2. Size[inMsg] # 0
      BY <3>1, ReplySizes, SizesAssumption
    <3> QED BY <1>1, <2>1, <3>1, <3>2 DEF Placed
  <2>3. Handed' /\ Sealed'
    BY <1>1, <2>1 DEF Handed, Sealed
  <2>4. ZeroCheckMeansIntact'
    BY <1>1 DEF ContentInv, ZeroCheckMeansIntact
  <2> QED BY <2>2, <2>3, <2>4 DEF ContentInv
<1> QED BY <1>2, <1>3

\* The end of underflow(): what was handed out stays, and a message that is
\* now complete is sealed.
LEMMA RetrievedContent ==
  ASSUME IInv, ContentInv, pc = "fill", NEW b \in [0 .. MaxSize - 1 -> Int], NEW e,
         Retrieved(b, e), \A j \in 0 .. gptr - 1 : b[j] = buf[j],
         UNCHANGED <<inMessageSize, gptr, inCount, failed, inMsg, delivered>>
  PROVE  ContentInv'
<1>1. inMessageSize # 0 /\ ~failed /\ pc' = "copy" /\ egptr' = e
  BY DEF IInv, CallInProgress, Retrieved
<1>2. /\ inMsg \in Replies /\ inMessageSize \in Nat /\ inMessageSize <= MaxSize
      /\ BlockSize \in Nat /\ HeaderSize \in Nat /\ ChecksumSize \in Nat \ {0}
      /\ BlockSize <= inMessageSize - ChecksumSize
      /\ gptr \in Nat /\ gptr <= inMessageSize
  BY <1>1, PartsOfMessage
<1>3. DOMAIN b = 0 .. MaxSize - 1
  OBVIOUS
<1>4. \A j \in 0 .. inMessageSize - ChecksumSize - 1 : buf'[j] = b[j]
  <2>1. buf' = b \/ buf' = Verified(b)
    BY DEF Retrieved
  <2>2. ASSUME NEW j \in 0 .. inMessageSize - ChecksumSize - 1
        PROVE  Verified(b)[j] = b[j]
    <3>1. j \in 0 .. MaxSize - 1 /\ ~(inMessageSize - ChecksumSize <= j)
      BY <1>2, SizesAssumption
    <3> QED BY <1>3, <3>1 DEF Verified
  <2> QED BY <2>1, <2>2
<1>5. Placed'
  BY <1>1 DEF ContentInv, Placed
<1>6. Handed'
  <2>1. ASSUME NEW j \in 0 .. gptr - 1, j < inMessageSize - ChecksumSize
        PROVE  delivered[inCount + j + 1] = buf'[j]
    <3>1. delivered[inCount + j + 1] = buf[j]
      BY <1>1, <2>1 DEF ContentInv, Handed
    <3>2. j \in 0 .. inMessageSize - ChecksumSize - 1
      BY <1>2, <2>1
    <3> QED BY <1>4, <2>1, <3>1, <3>2
  <2> QED BY <2>1 DEF Handed
<1>7. Sealed'
  <2> SUFFICES ASSUME e = inMessageSize, Checksummed[inMsg],
                      IntactBytes(buf', inMsg, HeaderSize, BlockSize - 1),
                      buf'[inMessageSize - 1] = Zero
               PROVE  IntactBytes(buf', inMsg, 0, inMessageSize - ChecksumSize - 1)
    BY <1>1 DEF Sealed, IntactBytes
  <2>1. \A j \in HeaderSize .. BlockSize - 1 : j \in 0 .. inMessageSize - ChecksumSize - 1
    BY <1>2
  <2>2. IntactBytes(b, inMsg, HeaderSize, BlockSize - 1)
    BY <1>4, <2>1 DEF IntactBytes
  <2>3. buf' = Verified(b)
    BY <2>2 DEF Retrieved, ChecksumFlag
  <2>4. IntactBytes(b, inMsg, 0, inMessageSize - 1)
    <3>1. /\ inMessageSize - 1 \in 0 .. MaxSize - 1
          /\ inMessageSize - ChecksumSize <= inMessageSize - 1
      BY <1>1, <1>2, SizesAssumption
    <3>2. Verified(b)[inMessageSize - 1] # Mismatch
      BY <2>3 DEF Zero, Mismatch
    <3> QED BY <1>2, <1>3, <3>1, <3>2 DEF Verified
  <2>5. \A j \in 0 .. inMessageSize - ChecksumSize - 1 : j \in 0 .. inMessageSize - 1
    BY <1>2
  <2> QED BY <1>4, <2>4, <2>5 DEF IntactBytes
<1>8. ZeroCheckMeansIntact'
  BY DEF ContentInv, ZeroCheckMeansIntact
<1> QED BY <1>5, <1>6, <1>7, <1>8 DEF ContentInv

LEMMA FillCompleteContent == IInv /\ ContentInv /\ FillComplete => ContentInv'
BY RetrievedContent DEF FillComplete, IInv, TypeOK

\* What the socket gives is stored behind what was handed out.
LEMMA FillContent == IInv /\ ContentInv /\ Fill => ContentInv'
<1> SUFFICES ASSUME IInv, ContentInv, Fill PROVE ContentInv'
  OBVIOUS
<1>1. /\ pc = "fill" /\ UNCHANGED <<inMessageSize, gptr, inCount, inMsg, delivered>>
      /\ inMessageSize # 0 /\ ~failed
  BY DEF Fill, IInv, CallInProgress
<1>2. CASE failed'
  BY <1>1, <1>2, FailedContent
<1>3. CASE ~failed'
  <2> DEFINE Adds(b) == /\ b \in [0 .. MaxSize - 1 -> Int]
                        /\ \A j \in 0 .. gptr - 1 : b[j] = buf[j]
  <2>1. /\ gptr \in Nat /\ egptr \in Nat /\ gptr <= egptr /\ egptr <= MaxSize
        /\ Start[inMsg] \in Nat /\ inMsg \in Replies
    BY <1>1, PartsOfMessage, SizesAssumption
  <2>2. NextOnWire \in Int
    BY <2>1, ReplySizes DEF NextOnWire, IInv, TypeOK
  <2>3. ASSUME NEW b, Adds(b), NEW from \in Int, NEW n \in Int
        PROVE  Adds(Stored(b, egptr, from, n))
    <3>1. Stored(b, egptr, from, n) \in [0 .. MaxSize - 1 -> Int]
      BY <2>1, <2>3, StoredType
    <3>2. \A j \in 0 .. gptr - 1 : j \in 0 .. MaxSize - 1 /\ ~(egptr <= j)
      BY <2>1, SizesAssumption
    <3>3. \A j \in 0 .. gptr - 1 : Stored(b, egptr, from, n)[j] = b[j]
      BY <2>3, <3>2 DEF Stored
    <3> QED BY <2>3, <3>1, <3>3
  <2>4. Adds(buf)
    BY DEF IInv, TypeOK
  <2>5. PICK r \in TryRead(missingData) :
          LET b == Stored(buf, egptr, NextOnWire, r.n) IN
          /\ failed' = failed
          /\ \/ Retrieved(b, egptr + r.n)
             \/ \E top \in BlockingRead(needs - availableData - r.n) :
                  Retrieved(Stored(b, egptr, NextOnWire + r.n, top.n), egptr + r.n + top.n)
    BY <1>3 DEF Fill, Eof
  <2>6. r.n \in Int
    BY <2>1 DEF TryRead, missingData, IInv, TypeOK
  <2> DEFINE b == Stored(buf, egptr, NextOnWire, r.n)
  <2>7. Adds(b)
    BY <2>2, <2>3, <2>4, <2>6
  <2>8. CASE Retrieved(b, egptr + r.n)
    BY <1>1, <2>5, <2>7, <2>8, RetrievedContent
  <2>9. ASSUME NEW top \in BlockingRead(needs - availableData - r.n),
               Retrieved(Stored(b, egptr, NextOnWire + r.n, top.n), egptr + r.n + top.n)
        PROVE  ContentInv'
    <3>1. top.n \in Int /\ NextOnWire + r.n \in Int
      BY <2>1, <2>2, <2>6, <2>9 DEF BlockingRead, IInv, TypeOK, availableData
    <3>2. Adds(Stored(b, egptr, NextOnWire + r.n, top.n))
      BY <2>3, <2>7, <3>1
    <3> QED BY <1>1, <2>5, <2>9, <3>2, RetrievedContent
  <2> QED BY <2>5, <2>8, <2>9
<1> QED BY <1>2, <1>3

\* What is handed out comes from the buffer, and goes behind the rest.
LEMMA CopiedBytes ==
  ASSUME IInv, Copy
  PROVE  \E readable \in Nat :
           /\ readable <= egptr - gptr /\ gptr' = gptr + readable
           /\ Len(delivered') = Len(delivered) + readable
           /\ \A i \in 1 .. Len(delivered) : delivered'[i] = delivered[i]
           /\ \A j \in gptr .. gptr' - 1 : delivered'[inCount + j + 1] = buf[j]
<1> DEFINE readable == IF count < availableData THEN count ELSE availableData
           piece == [i \in 1 .. readable |-> buf[gptr + i - 1]]
<1>1. delivered' = delivered \o piece /\ gptr' = gptr + readable
  BY DEF Copy
<1>2. /\ gptr \in Nat /\ egptr \in Nat /\ gptr <= egptr /\ egptr <= MaxSize /\ MaxSize \in Nat
      /\ count \in Nat /\ inCount \in Nat /\ delivered \in Seq(Int)
      /\ buf \in [0 .. MaxSize - 1 -> Int] /\ inCount + gptr = Len(delivered)
  BY SizesAssumption DEF IInv, TypeOK, GetAreaInMessage, PositionIsDelivered
<1>3. readable \in Nat /\ readable <= egptr - gptr
  BY <1>2 DEF availableData
<1> HIDE DEF readable
<1>4. piece \in Seq(Int) /\ Len(piece) = readable
  <2>1. \A i \in 1 .. readable : gptr + i - 1 \in 0 .. MaxSize - 1
    BY <1>2, <1>3
  <2>2. \A i \in 1 .. readable : buf[gptr + i - 1] \in Int
    BY <1>2, <2>1
  <2> QED BY <1>3, <2>2
<1>5. \A i \in 1 .. readable : piece[i] = buf[gptr + i - 1]
  OBVIOUS
<1> HIDE DEF piece
<1>6. /\ Len(delivered') = Len(delivered) + readable
      /\ \A i \in 1 .. Len(delivered) : delivered'[i] = delivered[i]
      /\ \A i \in 1 .. readable : delivered'[Len(delivered) + i] = piece[i]
  <2>1. /\ Len(delivered \o piece) = Len(delivered) + Len(piece)
        /\ \A i \in 1 .. Len(delivered) + Len(piece) :
             (delivered \o piece)[i] = IF i <= Len(delivered) THEN delivered[i]
                                       ELSE piece[i - Len(delivered)]
    BY <1>2, <1>4, ConcatProperties
  <2>2. Len(delivered) \in Nat
    BY <1>2, LenProperties
  <2>3. \A a, b \in Nat : /\ \A i \in 1 .. a : i \in 1 .. a + b /\ i <= a
                          /\ \A i \in 1 .. b : /\ a + i \in 1 .. a + b /\ ~(a + i <= a)
                                               /\ (a + i) - a = i
    OBVIOUS
  <2> QED BY <1>1, <1>3, <1>4, <2>1, <2>2, <2>3
<1>7. ASSUME NEW j \in gptr .. gptr' - 1
      PROVE  delivered'[inCount + j + 1] = buf[j]
  <2>1. j - gptr + 1 \in 1 .. readable
    BY <1>1, <1>2, <1>3, <1>7
  <2>2. gptr + (j - gptr + 1) - 1 = j /\ Len(delivered) + (j - gptr + 1) = inCount + j + 1
    BY <1>2, <1>7
  <2>3. delivered'[Len(delivered) + (j - gptr + 1)] = buf[gptr + (j - gptr + 1) - 1]
    BY <1>5, <1>6, <2>1
  <2> QED BY <2>2, <2>3
<1> QED BY <1>1, <1>3, <1>6, <1>7

\* The last byte of a message is handed out when the message is complete, and
\* then says what the rest is that was handed out before and with it.
LEMMA CopyContent == IInv /\ ContentInv /\ Copy => ContentInv'
<1> SUFFICES ASSUME IInv, ContentInv, Copy PROVE ContentInv'
  OBVIOUS
<1>1. /\ pc = "copy" /\ pc' = "idle" /\ ~failed
      /\ UNCHANGED <<inMessageSize, egptr, buf, inCount, inMsg>>
  BY DEF Copy, IInv, CallInProgress
<1>2. PICK readable \in Nat :
        /\ readable <= egptr - gptr /\ gptr' = gptr + readable
        /\ Len(delivered') = Len(delivered) + readable
        /\ \A i \in 1 .. Len(delivered) : delivered'[i] = delivered[i]
        /\ \A j \in gptr .. gptr' - 1 : delivered'[inCount + j + 1] = buf[j]
  BY CopiedBytes
<1>3. /\ gptr \in Nat /\ egptr \in Nat /\ gptr <= egptr /\ inCount \in Nat
      /\ egptr <= inMessageSize /\ inMessageSize \in Nat
      /\ inCount + gptr = Len(delivered)
  BY DEF IInv, TypeOK, GetAreaInMessage, PositionIsDelivered
<1>4. Placed'
  BY <1>1 DEF ContentInv, Placed
<1>5. Sealed'
  BY <1>1 DEF ContentInv, Sealed, IntactBytes
<1>6. ASSUME inMessageSize # 0, NEW j \in 0 .. gptr' - 1, j < inMessageSize - ChecksumSize
      PROVE  delivered'[inCount + j + 1] = buf[j]
  <2>1. CASE j < gptr
    <3>1. j \in 0 .. gptr - 1 /\ inCount + j + 1 \in 1 .. Len(delivered)
      BY <1>3, <1>6, <2>1
    <3>2. delivered[inCount + j + 1] = buf[j]
      BY <1>1, <1>6, <3>1 DEF ContentInv, Handed
    <3> QED BY <1>2, <3>1, <3>2
  <2>2. CASE ~(j < gptr)
    <3>1. j \in gptr .. gptr' - 1
      BY <1>2, <1>3, <1>6, <2>2
    <3> QED BY <1>2, <3>1
  <2> QED BY <2>1, <2>2
<1>7. Handed'
  BY <1>1, <1>6 DEF Handed
<1>8. /\ Len(delivered') = inCount + gptr' /\ gptr' \in Nat
      /\ gptr <= gptr' /\ gptr' <= egptr
      /\ Len(delivered) \in Nat /\ Len(delivered') \in Nat
  BY <1>2, <1>3
<1>9. ZeroCheckMeansIntact'
  <2>0. SUFFICES ASSUME NEW m \in Replies, Checksummed[m],
                        Start[m + 1] <= Len(delivered'),
                        \A i \in HeaderSize .. BlockSize - 1 :
                           delivered'[Start[m] + i + 1] = Start[m] + i,
                        delivered'[Start[m + 1]] = Zero,
                        NEW i \in 0 .. Size[m] - ChecksumSize - 1
                 PROVE  delivered'[Start[m] + i + 1] = Start[m] + i
    BY DEF ZeroCheckMeansIntact
  <2>1. /\ m \in Nat /\ Start[m] \in Nat /\ Start[m + 1] = Start[m] + Size[m] /\ Size[m] \in Nat
        /\ BlockSize \in Nat /\ HeaderSize \in Nat /\ ChecksumSize \in Nat \ {0}
        /\ BlockSize <= Size[m] - ChecksumSize /\ Start[m + 1] \in Nat
    <3>1. m \in Nat /\ m + 1 \in 1 .. N + 1
      BY RepliesAssumption DEF Replies
    <3>2. Start[m + 1] \in Nat
      BY <3>1, StartsAssumption
    <3>3. Start[m + 1] = Start[m] + Size[m] /\ BlockSize + ChecksumSize <= Size[m]
      BY StartsAssumption, RepliesAssumption
    <3> QED BY <3>1, <3>2, <3>3, ReplySizes, SizesAssumption
  <2>2. CASE Start[m + 1] <= Len(delivered)
    <3>1. \A k \in 0 .. Size[m] - 1 : Start[m] + k + 1 \in 1 .. Len(delivered)
      <4>1. Start[m] + Size[m] <= Len(delivered)
        BY <2>1, <2>2
      <4>2. \A a, b, c \in Nat : a + b <= c => \A k \in 0 .. b - 1 : a + k + 1 \in 1 .. c
        OBVIOUS
      <4> QED BY <1>8, <2>1, <4>1, <4>2
    <3>2. \A k \in 0 .. Size[m] - 1 : delivered'[Start[m] + k + 1] = delivered[Start[m] + k + 1]
      BY <1>2, <3>1
    <3>3. /\ i \in 0 .. Size[m] - 1 /\ Size[m] - 1 \in 0 .. Size[m] - 1
          /\ \A k \in HeaderSize .. BlockSize - 1 : k \in 0 .. Size[m] - 1
          /\ Start[m] + (Size[m] - 1) + 1 = Start[m + 1]
      BY <2>1
    <3>4. delivered[Start[m + 1]] = Zero
      BY <2>0, <3>2, <3>3
    <3>5. \A k \in HeaderSize .. BlockSize - 1 : delivered[Start[m] + k + 1] = Start[m] + k
      BY <2>0, <3>2, <3>3
    <3>6. delivered[Start[m] + i + 1] = Start[m] + i
      BY <2>0, <2>2, <3>4, <3>5 DEF ContentInv, ZeroCheckMeansIntact
    <3> QED BY <3>2, <3>3, <3>6
  <2>3. CASE ~(Start[m + 1] <= Len(delivered))
    <3>1. inMessageSize # 0
      BY <1>3, <1>8, <2>0, <2>1, <2>3
    <3>2. /\ inMsg \in Replies /\ inCount = Start[inMsg] /\ inMessageSize = Size[inMsg]
          /\ Start[inMsg + 1] = Start[inMsg] + inMessageSize
      BY <1>1, <3>1, PartsOfMessage DEF ContentInv, Placed
    <3>3. Start[inMsg] < Start[m + 1] /\ Start[m + 1] <= Start[inMsg + 1]
      <4>1. Start[m + 1] <= inCount + gptr' /\ ~(Start[m + 1] <= inCount + gptr)
        BY <1>3, <1>8, <2>0, <2>3
      <4>2. gptr' <= inMessageSize
        BY <1>3, <1>8
      <4>3. \A c, g, h, n, end \in Nat :
              end <= c + h /\ ~(end <= c + g) /\ h <= n => c < end /\ end <= c + n
        OBVIOUS
      <4>4. Start[m + 1] \in Nat
        BY <2>1
      <4>5. inCount < Start[m + 1] /\ Start[m + 1] <= inCount + inMessageSize
        BY <1>3, <1>8, <4>1, <4>2, <4>3, <4>4
      <4> QED BY <3>2, <4>5
    <3>4. m = inMsg
      BY <3>2, <3>3, LastByteOf
    <3>5. gptr' = inMessageSize /\ egptr = inMessageSize /\ gptr <= inMessageSize - 1
      <4>1. inCount + inMessageSize <= inCount + gptr'
            /\ ~(inCount + inMessageSize <= inCount + gptr)
        BY <1>3, <1>8, <2>0, <2>3, <3>2, <3>4
      <4>2. \A c, g, h, e, n \in Nat :
              c + n <= c + h /\ ~(c + n <= c + g) /\ h <= e /\ e <= n
                => h = n /\ e = n /\ g <= n - 1
        OBVIOUS
      <4> QED BY <1>3, <1>8, <4>1, <4>2
    <3>6. \A j \in 0 .. inMessageSize - ChecksumSize - 1 : delivered'[Start[m] + j + 1] = buf[j]
      <4>1. \A j \in 0 .. inMessageSize - ChecksumSize - 1 :
              j \in 0 .. gptr' - 1 /\ j < inMessageSize - ChecksumSize
        BY <2>1, <3>2, <3>4, <3>5
      <4> QED BY <1>6, <3>1, <3>2, <3>4, <4>1
    <3>7. IntactBytes(buf, inMsg, HeaderSize, BlockSize - 1)
      <4>1. \A j \in HeaderSize .. BlockSize - 1 : j \in 0 .. inMessageSize - ChecksumSize - 1
        BY <2>1, <3>2, <3>4
      <4> QED BY <2>0, <3>4, <3>6, <4>1 DEF IntactBytes
    <3>8. buf[inMessageSize - 1] = Zero
      <4>1. inMessageSize - 1 \in gptr .. gptr' - 1
        BY <1>3, <3>1, <3>5
      <4>2. inCount + (inMessageSize - 1) + 1 = Start[m + 1]
        <5>1. \A a, b \in Nat : a + (b - 1) + 1 = a + b
          OBVIOUS
        <5> QED BY <1>3, <3>2, <3>4, <5>1
      <4> QED BY <1>2, <2>0, <4>1, <4>2
    <3>9. IntactBytes(buf, inMsg, 0, inMessageSize - ChecksumSize - 1)
      BY <1>1, <2>0, <3>1, <3>4, <3>5, <3>7, <3>8 DEF ContentInv, Sealed
    <3> QED BY <3>2, <3>4, <3>6, <3>9 DEF IntactBytes
  <2> QED BY <2>2, <2>3
<1> QED BY <1>4, <1>5, <1>7, <1>9 DEF ContentInv

LEMMA NextContent == IInv /\ ContentInv /\ [Next]_vars => ContentInv'
<1>1. ContentInv /\ UNCHANGED vars => ContentInv'
  BY DEF vars, ContentInv, Placed, Handed, Sealed, IntactBytes, ZeroCheckMeansIntact
<1>2. ContentInv /\ FillRefused => ContentInv'
  BY FailedContent DEF FillRefused, Eof
<1> QED
  BY <1>1, <1>2, XsgetnContent, NextHeaderContent, InflateContent, FillCompleteContent,
     FillContent, CopyContent DEF Next, Done

\* A zero where the checksum was vouches for all of the message before it,
\* however the replies are cut, torn or checked.
THEOREM CheckVouches == Spec => []ZeroCheckMeansIntact
<1>1. ContentInv => ZeroCheckMeansIntact
  BY DEF ContentInv
<1> QED BY <1>1, InitContent, NextContent, Invariance, PTL DEF Spec

-----------------------------------------------------------------------------
(* What the reader gets where a non-blocking read returns all or nothing,   *)
(* and the connection does not close within compressed data.                *)

WholeArrivals ==
  /\ ~PartialArrivals
  /\ \A m \in Replies : Kind[m] = "snappy" =>
       Cuts \cap (WireStart[m] + HeaderSize .. WireStart[m + 1] - 1) = {}

IsCheck(j) == Checksummed[inMsg] /\ inMessageSize - ChecksumSize <= j

\* All that was retrieved is the server's, and a complete message is verified.
Intact ==
  ~failed /\ inMessageSize # 0 =>
    IF egptr = inMessageSize /\ pc # "fill"
      THEN \A j \in 0 .. inMessageSize - 1 :
             buf[j] = IF IsCheck(j) THEN Zero ELSE Start[inMsg] + j
      ELSE IntactBytes(buf, inMsg, 0, egptr - 1)

SentInv == Placed /\ Intact /\ DeliveredAsSent

LEMMA InitSent == Init => SentInv
BY DEF Init, SentInv, Placed, Intact, DeliveredAsSent, Correct

LEMMA FailedSent ==
  ASSUME SentInv, failed' = TRUE, delivered' = delivered
  PROVE  SentInv'
BY DEF SentInv, Placed, Intact, DeliveredAsSent, Correct

LEMMA XsgetnSent == IInv /\ SentInv /\ Xsgetn => SentInv'
<1> SUFFICES ASSUME IInv, SentInv, Xsgetn PROVE SentInv'
  OBVIOUS
<1>1. PICK n \in Requests : Refuse(n) \/ Call(n)
  BY DEF Xsgetn
<1>2. CASE Refuse(n)
  BY <1>2, FailedSent DEF Refuse, Eof
<1>3. CASE Call(n)
  <2>1. /\ pc = "idle" /\ pc' \in {"copy", "header", "fill"}
        /\ pc' = "fill" => gptr = egptr /\ gptr # inMessageSize
        /\ UNCHANGED <<inMessageSize, gptr, egptr, buf, inCount, failed, inMsg, delivered>>
    BY <1>3 DEF Xsgetn, Call
  <2>2. Placed' /\ DeliveredAsSent'
    BY <2>1 DEF SentInv, Placed, DeliveredAsSent, Correct
  <2>3. Intact'
    BY <2>1 DEF SentInv, Intact, IntactBytes, IsCheck
  <2> QED BY <2>2, <2>3 DEF SentInv
<1> QED BY <1>1, <1>2, <1>3

LEMMA NextHeaderSent == IInv /\ SentInv /\ NextHeader => SentInv'
<1> SUFFICES ASSUME IInv, SentInv, NextHeader PROVE SentInv'
  OBVIOUS
<1>1. pc = "header" /\ ~failed /\ delivered' = delivered
  BY DEF NextHeader, IInv, CallInProgress
<1>2. CASE failed'
  BY <1>1, <1>2, FailedSent DEF NextHeader, Eof
<1>3. CASE ~failed'
  <2>1. PICK m \in Replies :
          /\ inMsg' = m /\ buf' = Stored(buf, 0, Start[m], HeaderSize)
          /\ \/ inMessageSize' = Size[m] /\ egptr' = HeaderSize /\ pc' = "fill"
             \/ inMessageSize' = 0
    BY <1>3 DEF NextHeader, Eof
  <2>2. Placed'
    BY NextHeaderPlaced DEF SentInv
  <2>3. DeliveredAsSent'
    BY <1>1 DEF SentInv, DeliveredAsSent, Correct
  <2>4. Intact'
    <3>1. ASSUME inMessageSize' # 0, NEW j \in 0 .. HeaderSize - 1
          PROVE  buf'[j] = Start[m] + j
      <4>1. j \in 0 .. MaxSize - 1 /\ 0 <= j /\ j < 0 + HeaderSize /\ j - 0 = j
        BY ReplySizes, SizesAssumption
      <4>2. DOMAIN buf = 0 .. MaxSize - 1
        BY DEF IInv, TypeOK
      <4> QED BY <2>1, <4>1, <4>2 DEF Stored
    <3> QED BY <2>1, <3>1 DEF Intact, IntactBytes
  <2> QED BY <2>2, <2>3, <2>4 DEF SentInv
<1> QED BY <1>2, <1>3

\* Compressed data is there to its end, or the connection closed before it.
LEMMA InflateSent == WholeArrivals /\ IInv /\ SentInv /\ Inflate => SentInv'
<1> SUFFICES ASSUME WholeArrivals, IInv, SentInv, Inflate PROVE SentInv'
  OBVIOUS
<1>1. /\ pc = "inflate" /\ gptr' = 0 /\ ~failed
      /\ UNCHANGED <<inCount, inMsg, delivered>>
      /\ inMsg \in Replies /\ Kind[inMsg] = "snappy"
      /\ open => sock = WireStart[inMsg] + HeaderSize
  BY DEF Inflate, IInv, CallInProgress
<1>2. CASE failed'
  BY <1>1, <1>2, FailedSent
<1>3. CASE ~failed'
  <2>1. PICK r \in BlockingRead(WireSize[inMsg] - HeaderSize) :
          \E torn \in HeaderSize .. Size[inMsg] :
            /\ torn = Size[inMsg] <=> r.n = WireSize[inMsg] - HeaderSize
            /\ r.n > CompressedHeader
            /\ inMessageSize' = Size[inMsg] /\ egptr' = Size[inMsg]
            /\ buf' = Inflated(buf, torn)
            /\ pc' = "fill"
    BY <1>3 DEF Inflate, Eof
  <2>2. /\ WireStart[inMsg] \in Nat /\ WireSize[inMsg] \in Nat
        /\ WireStart[inMsg + 1] = WireStart[inMsg] + WireSize[inMsg]
        /\ WireSize[inMsg] > HeaderSize /\ Size[inMsg] \in Nat /\ Size[inMsg] <= MaxSize
        /\ Size[inMsg] # 0 /\ Start[inMsg] \in Nat
    BY <1>1, ReplySizes, SizesAssumption
  <2>3. r.n \in Nat /\ r.n <= WireSize[inMsg] - HeaderSize
    BY <2>2, SizesAssumption DEF BlockingRead
  <2>4. r.n = WireSize[inMsg] - HeaderSize
    <3> SUFFICES ASSUME r.n # WireSize[inMsg] - HeaderSize PROVE FALSE
      OBVIOUS
    <3>1. r.n # 0
      BY <2>1, <2>3, SizesAssumption
    <3>2. sock + r.n \in Cuts /\ sock = WireStart[inMsg] + HeaderSize
      BY <1>1, <3>1 DEF BlockingRead
    <3>3. sock + r.n \in WireStart[inMsg] + HeaderSize .. WireStart[inMsg + 1] - 1
      BY <2>2, <2>3, <3>2, SizesAssumption
    <3> QED BY <1>1, <3>2, <3>3 DEF WholeArrivals
  <2>5. /\ inMessageSize' = Size[inMsg] /\ egptr' = Size[inMsg] /\ pc' = "fill"
        /\ buf' = Inflated(buf, Size[inMsg])
    BY <2>1, <2>4
  <2>6. Placed'
    BY <1>1, <2>2, <2>5 DEF SentInv, Placed
  <2>7. DeliveredAsSent'
    BY <1>1 DEF SentInv, DeliveredAsSent, Correct
  <2>8. Intact'
    <3>1. ASSUME NEW j \in 0 .. Size[inMsg] - 1
          PROVE  buf'[j] = Start[inMsg] + j
      <4>1. j \in 0 .. MaxSize - 1 /\ j < Size[inMsg]
        BY <2>2, SizesAssumption
      <4>2. DOMAIN buf = 0 .. MaxSize - 1
        BY DEF IInv, TypeOK
      <4> QED BY <2>5, <4>1, <4>2 DEF Inflated
    <3> QED BY <1>1, <2>5, <3>1 DEF Intact, IntactBytes
  <2> QED BY <2>6, <2>7, <2>8 DEF SentInv
<1> QED BY <1>2, <1>3

\* The end of underflow(), when all that was retrieved is the server's.
LEMMA RetrievedSent ==
  ASSUME IInv, SentInv, pc = "fill", NEW b \in [0 .. MaxSize - 1 -> Int], NEW e \in Nat,
         Retrieved(b, e), e <= inMessageSize, IntactBytes(b, inMsg, 0, e - 1),
         UNCHANGED <<inMessageSize, inCount, failed, inMsg, delivered>>
  PROVE  SentInv'
<1>1. inMessageSize # 0 /\ ~failed /\ pc' = "copy" /\ egptr' = e
  BY DEF IInv, CallInProgress, Retrieved
<1>2. /\ inMsg \in Replies /\ inMessageSize \in Nat /\ inMessageSize <= MaxSize
      /\ BlockSize \in Nat /\ HeaderSize \in Nat /\ ChecksumSize \in Nat \ {0}
      /\ BlockSize <= inMessageSize - ChecksumSize
  BY <1>1, PartsOfMessage
<1>3. Placed' /\ DeliveredAsSent'
  BY <1>1 DEF SentInv, Placed, DeliveredAsSent, Correct
<1>4. CASE e # inMessageSize
  <2>1. buf' = b
    BY <1>4 DEF Retrieved
  <2> QED BY <1>1, <1>3, <1>4, <2>1 DEF SentInv, Intact, IntactBytes
<1>5. CASE e = inMessageSize
  <2>1. \A j \in HeaderSize .. BlockSize - 1 : j \in 0 .. e - 1
    BY <1>2, <1>5
  <2>2. IntactBytes(b, inMsg, HeaderSize, BlockSize - 1)
    BY <2>1 DEF IntactBytes
  <2>3. buf' = IF Checksummed[inMsg] THEN Verified(b) ELSE b
    BY <1>5, <2>2 DEF Retrieved, ChecksumFlag
  <2>4. ASSUME NEW j \in 0 .. inMessageSize - 1
        PROVE  buf'[j] = IF IsCheck(j) THEN Zero ELSE Start[inMsg] + j
    <3>1. j \in 0 .. MaxSize - 1 /\ j < inMessageSize /\ DOMAIN b = 0 .. MaxSize - 1
      BY <1>2, SizesAssumption
    <3>2. b[j] = Start[inMsg] + j
      BY <1>5 DEF IntactBytes
    <3>3. Verified(b)[j] = IF inMessageSize - ChecksumSize <= j THEN Zero ELSE b[j]
      BY <1>5, <3>1 DEF Verified
    <3> QED BY <2>3, <3>2, <3>3 DEF IsCheck
  <2>5. Intact'
    BY <1>1, <1>5, <2>4 DEF Intact, IsCheck
  <2> QED BY <1>3, <2>5 DEF SentInv
<1> QED BY <1>4, <1>5

LEMMA FillCompleteSent == IInv /\ SentInv /\ FillComplete => SentInv'
<1> SUFFICES ASSUME IInv, SentInv, FillComplete PROVE SentInv'
  OBVIOUS
<1>1. /\ pc = "fill" /\ Retrieved(buf, egptr)
      /\ UNCHANGED <<inMessageSize, inCount, failed, inMsg, delivered>>
  BY DEF FillComplete
<1>2. /\ buf \in [0 .. MaxSize - 1 -> Int] /\ egptr \in Nat /\ egptr <= inMessageSize
      /\ inMessageSize # 0 /\ ~failed
  BY <1>1 DEF IInv, TypeOK, GetAreaInMessage, CallInProgress
<1>3. IntactBytes(buf, inMsg, 0, egptr - 1)
  BY <1>1, <1>2 DEF SentInv, Intact
<1> QED BY <1>1, <1>2, <1>3, RetrievedSent

\* What is stored is what comes next, or nothing.
LEMMA StoredIntact ==
  ASSUME NEW b \in [0 .. MaxSize - 1 -> Int], NEW m \in Replies, NEW at \in Nat,
         NEW n \in Nat, at + n <= MaxSize, IntactBytes(b, m, 0, at - 1),
         NEW from \in Int, n = 0 \/ from = Start[m] + at
  PROVE  IntactBytes(Stored(b, at, from, n), m, 0, (at + n) - 1)
<1> SUFFICES ASSUME NEW j \in 0 .. (at + n) - 1
             PROVE  Stored(b, at, from, n)[j] = Start[m] + j
  BY DEF IntactBytes
<1>1. j \in 0 .. MaxSize - 1 /\ DOMAIN b = 0 .. MaxSize - 1 /\ Start[m] \in Nat
  BY ReplySizes, SizesAssumption
<1>2. CASE j < at
  <2>1. b[j] = Start[m] + j
    BY <1>2 DEF IntactBytes
  <2> QED BY <1>1, <1>2, <2>1 DEF Stored
<1>3. CASE ~(j < at)
  <2>1. at <= j /\ j < at + n /\ n # 0
    BY <1>3
  <2> QED BY <1>1, <2>1 DEF Stored
<1> QED BY <1>2, <1>3

\* A read of all that is missing gives all, nothing, or what came before the
\* connection closed; the second read follows only one that gave nothing.
LEMMA FillSent == WholeArrivals /\ IInv /\ SentInv /\ Fill => SentInv'
<1> SUFFICES ASSUME WholeArrivals, IInv, SentInv, Fill PROVE SentInv'
  OBVIOUS
<1>1. /\ pc = "fill" /\ needs <= inMessageSize - gptr /\ inMessageSize - egptr # 0
      /\ UNCHANGED <<inMessageSize, inCount, inMsg, delivered>>
      /\ inMessageSize # 0 /\ ~failed
  BY DEF Fill, IInv, CallInProgress, messageLeft, missingData
<1>2. CASE failed'
  BY <1>1, <1>2, FailedSent
<1>3. CASE ~failed'
  <2>1. /\ gptr \in Nat /\ egptr \in Nat /\ gptr <= egptr /\ egptr <= inMessageSize
        /\ inMessageSize \in Nat /\ inMessageSize <= MaxSize /\ needs \in Nat
        /\ inMsg \in Replies /\ Start[inMsg] \in Nat /\ Kind[inMsg] = "msg"
        /\ buf \in [0 .. MaxSize - 1 -> Int]
    BY <1>1, PartsOfMessage DEF IInv, TypeOK, MessageInBuffer
  <2>2. NextOnWire \in Int /\ (open => NextOnWire = Start[inMsg] + egptr)
    <3>1. WireStart[inMsg] \in Nat /\ sock \in Nat
      BY <2>1, ReplySizes DEF IInv, TypeOK
    <3>2. open => sock = WireStart[inMsg] + egptr
      BY <1>1, <2>1 DEF IInv, Framed
    <3> QED BY <2>1, <3>1, <3>2 DEF NextOnWire
  <2>3. IntactBytes(buf, inMsg, 0, egptr - 1)
    BY <1>1 DEF SentInv, Intact
  <2>4. PICK r \in TryRead(missingData) :
          LET b == Stored(buf, egptr, NextOnWire, r.n) IN
          /\ failed' = failed
          /\ \/ Retrieved(b, egptr + r.n)
             \/ /\ availableData + r.n < needs /\ r.open
                /\ \E top \in BlockingRead(needs - availableData - r.n) :
                     /\ availableData + r.n + top.n = needs
                     /\ Retrieved(Stored(b, egptr, NextOnWire + r.n, top.n),
                                  egptr + r.n + top.n)
    BY <1>3 DEF Fill, Eof
  <2>5. /\ r.n \in Nat /\ r.n <= inMessageSize - egptr
        /\ open \/ r.n = 0
        /\ r.open => open /\ r.n \in {0, inMessageSize - egptr}
    BY <2>1, <2>4 DEF TryRead, missingData, WholeArrivals
  <2> DEFINE b == Stored(buf, egptr, NextOnWire, r.n)
  <2>6. /\ b \in [0 .. MaxSize - 1 -> Int] /\ IntactBytes(b, inMsg, 0, (egptr + r.n) - 1)
        /\ egptr + r.n \in Nat /\ egptr + r.n <= inMessageSize
    <3>1. egptr + r.n \in Nat /\ egptr + r.n <= inMessageSize /\ egptr + r.n <= MaxSize
      BY <2>1, <2>5, SizesAssumption
    <3>2. b \in [0 .. MaxSize - 1 -> Int]
      BY <2>1, <2>2, <2>5, StoredType
    <3>3. IntactBytes(b, inMsg, 0, (egptr + r.n) - 1)
      BY <2>1, <2>2, <2>3, <2>5, <3>1, StoredIntact
    <3> QED BY <3>1, <3>2, <3>3
  <2> HIDE DEF b
  <2>10. /\ pc = "fill"
        /\ UNCHANGED <<inMessageSize, inCount, failed, inMsg, delivered>>
    BY <1>1, <2>4
  <2>7. CASE Retrieved(b, egptr + r.n)
    <3> DEFINE e == egptr + r.n
    <3>1. /\ e \in Nat /\ e <= inMessageSize
          /\ IntactBytes(b, inMsg, 0, e - 1) /\ Retrieved(b, e)
      BY <2>6, <2>7
    <3> HIDE DEF e
    <3>2. b \in [0 .. MaxSize - 1 -> Int]
      BY <2>6
    <3> QED BY <2>10, <3>1, <3>2, RetrievedSent
  <2>8. ASSUME availableData + r.n < needs, r.open,
               NEW top \in BlockingRead(needs - availableData - r.n),
               availableData + r.n + top.n = needs,
               Retrieved(Stored(b, egptr, NextOnWire + r.n, top.n), egptr + r.n + top.n)
        PROVE  SentInv'
    <3>1. open /\ r.n = 0
      BY <1>1, <2>1, <2>5, <2>8 DEF availableData
    <3>2. top.n \in Nat /\ (egptr - gptr) + top.n = needs
      <4>1. needs - availableData - r.n \in Nat
        BY <2>1, <2>8, <3>1 DEF availableData
      <4> QED BY <2>1, <2>8, <3>1, <4>1 DEF BlockingRead, availableData
    <3>3. egptr + top.n \in Nat /\ egptr + top.n <= inMessageSize /\ egptr + top.n <= MaxSize
      <4>1. \A g, e, t, s, x, n \in Nat :
              n <= s - g /\ (e - g) + t = n /\ s <= x =>
                e + t \in Nat /\ e + t <= s /\ e + t <= x
        OBVIOUS
      <4> QED BY <1>1, <2>1, <3>2, <4>1, SizesAssumption
    <3>4. /\ egptr + r.n = egptr /\ egptr + r.n + top.n = egptr + top.n
          /\ NextOnWire + r.n = NextOnWire
      BY <2>1, <2>2, <3>1, <3>2
    <3>5. IntactBytes(b, inMsg, 0, egptr - 1)
      <4>1. (egptr + r.n) - 1 = egptr - 1
        BY <3>4
      <4>2. IntactBytes(b, inMsg, 0, (egptr + r.n) - 1)
        BY <2>6
      <4> QED BY <4>1, <4>2
    <3> DEFINE b2 == Stored(b, egptr, NextOnWire, top.n)
    <3>6. b2 \in [0 .. MaxSize - 1 -> Int]
      <4>1. b \in [0 .. MaxSize - 1 -> Int]
        BY <2>6
      <4>2. egptr \in Nat /\ NextOnWire \in Int /\ top.n \in Nat
        BY <2>1, <2>2, <3>2
      <4> QED BY <4>1, <4>2, StoredType
    <3>7. IntactBytes(b2, inMsg, 0, (egptr + top.n) - 1)
      BY <2>1, <2>2, <2>6, <3>1, <3>2, <3>3, <3>5, StoredIntact
    <3>8. Retrieved(b2, egptr + top.n)
      BY <2>8, <3>4
    <3> HIDE DEF b2
    <3> DEFINE e == egptr + top.n
    <3>9. /\ e \in Nat /\ e <= inMessageSize
          /\ IntactBytes(b2, inMsg, 0, e - 1) /\ Retrieved(b2, e)
      BY <3>3, <3>7, <3>8
    <3> HIDE DEF e
    <3> QED BY <2>10, <3>6, <3>9, RetrievedSent
  <2>9. \/ Retrieved(b, egptr + r.n)
        \/ /\ availableData + r.n < needs /\ r.open
           /\ \E top \in BlockingRead(needs - availableData - r.n) :
                /\ availableData + r.n + top.n = needs
                /\ Retrieved(Stored(b, egptr, NextOnWire + r.n, top.n), egptr + r.n + top.n)
    BY <2>4 DEF b
  <2> QED BY <2>7, <2>8, <2>9
<1> QED BY <1>2, <1>3

LEMMA CopySent == IInv /\ SentInv /\ Copy => SentInv'
<1> SUFFICES ASSUME IInv, SentInv, Copy PROVE SentInv'
  OBVIOUS
<1>1. /\ pc = "copy" /\ pc' = "idle" /\ ~failed
      /\ UNCHANGED <<inMessageSize, egptr, buf, inCount, inMsg>>
  BY DEF Copy, IInv, CallInProgress
<1>2. PICK readable \in Nat :
        /\ readable <= egptr - gptr /\ gptr' = gptr + readable
        /\ Len(delivered') = Len(delivered) + readable
        /\ \A i \in 1 .. Len(delivered) : delivered'[i] = delivered[i]
        /\ \A j \in gptr .. gptr' - 1 : delivered'[inCount + j + 1] = buf[j]
  BY CopiedBytes
<1>3. /\ gptr \in Nat /\ egptr \in Nat /\ gptr <= egptr /\ inCount \in Nat
      /\ egptr <= inMessageSize /\ inMessageSize \in Nat
      /\ inCount + gptr = Len(delivered) /\ Len(delivered) \in Nat
  BY LenProperties DEF IInv, TypeOK, GetAreaInMessage, PositionIsDelivered
<1>4. Placed' /\ Intact'
  BY <1>1 DEF SentInv, Placed, Intact, IntactBytes, IsCheck
<1>5. ASSUME NEW i \in 1 .. Len(delivered')
      PROVE  \/ delivered'[i] = i - 1
             \/ /\ delivered'[i] = Zero
                /\ \E m \in Replies : /\ Checksummed[m]
                                      /\ i - 1 >= Start[m + 1] - ChecksumSize
                                      /\ i - 1 < Start[m + 1]
  <2>1. CASE i \in 1 .. Len(delivered)
    BY <1>2, <2>1 DEF SentInv, DeliveredAsSent, Correct
  <2>2. CASE i \notin 1 .. Len(delivered)
    <3> DEFINE j == i - 1 - inCount
    <3>1. j \in gptr .. gptr' - 1 /\ inCount + j + 1 = i /\ j \in Nat /\ j < egptr
      BY <1>2, <1>3, <1>5, <2>2
    <3> HIDE DEF j
    <3>2. inMessageSize # 0
      BY <1>3, <3>1
    <3>3. /\ inMsg \in Replies /\ inCount = Start[inMsg]
          /\ Start[inMsg + 1] = inCount + inMessageSize /\ ChecksumSize \in Nat
      BY <1>1, <3>2, PartsOfMessage DEF SentInv, Placed
    <3>4. delivered'[i] = buf[j]
      BY <1>2, <3>1
    <3>5. i - 1 = inCount + j
      BY <1>3, <3>1
    <3>6. CASE egptr = inMessageSize
      <4>1. j \in 0 .. inMessageSize - 1
        BY <1>3, <3>1
      <4>2. buf[j] = IF IsCheck(j) THEN Zero ELSE Start[inMsg] + j
        BY <1>1, <3>2, <3>6, <4>1 DEF SentInv, Intact
      <4>3. IsCheck(j) => /\ Checksummed[inMsg]
                          /\ i - 1 >= Start[inMsg + 1] - ChecksumSize
                          /\ i - 1 < Start[inMsg + 1]
        <5>1. \A c, n, k, l \in Nat : /\ n - k <= l => c + l >= (c + n) - k
                                      /\ l < n => c + l < c + n
          OBVIOUS
        <5>2. j \in Nat /\ j < inMessageSize
          BY <1>3, <3>1
        <5>3. i - 1 < Start[inMsg + 1]
          BY <1>3, <3>3, <3>5, <5>1, <5>2
        <5>4. inMessageSize - ChecksumSize <= j => i - 1 >= Start[inMsg + 1] - ChecksumSize
          BY <1>3, <3>3, <3>5, <5>1, <5>2
        <5> QED BY <5>3, <5>4 DEF IsCheck
      <4> QED BY <3>3, <3>4, <3>5, <4>2, <4>3
    <3>7. CASE egptr # inMessageSize
      <4>1. j \in 0 .. egptr - 1
        BY <1>3, <3>1
      <4>2. buf[j] = Start[inMsg] + j
        BY <1>1, <3>2, <3>7, <4>1 DEF SentInv, Intact, IntactBytes
      <4> QED BY <3>3, <3>4, <3>5, <4>2
    <3> QED BY <3>6, <3>7
  <2> QED BY <2>1, <2>2
<1>6. DeliveredAsSent'
  BY <1>5 DEF DeliveredAsSent, Correct
<1> QED BY <1>4, <1>6 DEF SentInv

LEMMA NextSent == WholeArrivals /\ IInv /\ SentInv /\ [Next]_vars => SentInv'
<1>1. SentInv /\ UNCHANGED vars => SentInv'
  BY DEF vars, SentInv, Placed, Intact, IsCheck, IntactBytes, DeliveredAsSent, Correct
<1>2. SentInv /\ FillRefused => SentInv'
  BY FailedSent DEF FillRefused, Eof
<1> QED
  BY <1>1, <1>2, XsgetnSent, NextHeaderSent, InflateSent, FillCompleteSent, FillSent,
     CopySent DEF Next, Done

\* Every byte the reader gets is the one the server sent at that place, or the
\* zero of a checksum that matched, if messages arrive whole.
THEOREM GotAsSent == WholeArrivals => (Spec => []DeliveredAsSent)
<1> SUFFICES ASSUME WholeArrivals PROVE Spec => []DeliveredAsSent
  OBVIOUS
<1>1. IInv /\ SentInv /\ [Next]_vars => SentInv'
  BY NextSent
<1>2. SentInv => DeliveredAsSent
  BY DEF SentInv
<1> QED BY <1>1, <1>2, InitSent, Invariance, PTL DEF Spec

-----------------------------------------------------------------------------
(* That a read fails only when the connection closes, and that the buffer  *)
(* implements ReplyStream, where messages arrive whole.                    *)

\* Where a correct reader's read may end within the message.
BodySize == inMessageSize - (IF Checksummed[inMsg] THEN ChecksumSize ELSE 0)
EndOfRead(e) == BlockSize <= e /\ (e <= BodySize \/ e = inMessageSize)

\* Reads follow the message's parts, and underflow() is called for all of one.
Aligned ==
  ~failed =>
    /\ pc = "idle" /\ inMessageSize # 0 => EndOfRead(gptr)
    /\ pc \in {"header", "inflate"} => count = BlockSize /\ needs = count
    /\ pc = "fill" => /\ needs = count /\ count # 0 /\ EndOfRead(gptr + count)
                      /\ egptr < gptr + count \/ egptr = inMessageSize
    /\ pc = "copy" => inMessageSize # 0 /\ count # 0 /\ EndOfRead(gptr + count)

\* While the connection is open the get area holds nothing before a read, or
\* all of the message, and after underflow() what the read needs.
Supplied ==
  ~failed /\ open =>
    /\ pc = "idle" => egptr \in {gptr, inMessageSize}
    /\ pc = "copy" => egptr \in {gptr + count, inMessageSize}

StreamInv == SentInv /\ Aligned /\ Supplied /\ FailsOnlyWhenCut /\ NoRawChecksum

\* No message begins within another, and no place is in two of them.
LEMMA NoneWithin ==
  ASSUME NEW m \in Replies, NEW k \in 1 .. N + 1
  PROVE  ~(Start[m] < Start[k] /\ Start[k] < Start[m + 1])
<1>1. N \in Nat /\ m \in 1 .. N + 1 /\ m + 1 \in 1 .. N + 1 /\ m \in Int
  BY RepliesAssumption DEF Replies
<1>2. Start[m] \in Nat /\ Start[m + 1] \in Nat /\ Start[k] \in Nat
  BY <1>1, StartsAssumption
<1>3. k = m \/ k \in 1 .. m - 1 \/ k = m + 1 \/ m + 1 \in 1 .. k - 1
  BY <1>1
<1>4. k \in 1 .. m - 1 => Start[k] < Start[m]
  BY <1>1, StartsIncrease
<1>5. m + 1 \in 1 .. k - 1 => Start[m + 1] < Start[k]
  BY <1>1, StartsIncrease
<1> QED BY <1>2, <1>3, <1>4, <1>5

LEMMA OneWithin ==
  ASSUME NEW m \in Replies, NEW k \in Replies, NEW p \in Int,
         Start[m] < p, p < Start[m + 1], Start[k] < p, p < Start[k + 1]
  PROVE  m = k
<1>1. /\ N \in Nat /\ m \in 1 .. N + 1 /\ m + 1 \in 1 .. N + 1
      /\ k \in 1 .. N + 1 /\ k + 1 \in 1 .. N + 1
  BY RepliesAssumption DEF Replies
<1>2. /\ Start[m] \in Nat /\ Start[m + 1] \in Nat
      /\ Start[k] \in Nat /\ Start[k + 1] \in Nat
  BY <1>1, StartsAssumption
<1>3. m < k => m + 1 = k \/ m + 1 \in 1 .. k - 1
  BY <1>1
<1>4. k < m => k + 1 = m \/ k + 1 \in 1 .. m - 1
  BY <1>1
<1>5. ~(m < k)
  BY <1>1, <1>2, <1>3, StartsIncrease
<1>6. ~(k < m)
  BY <1>1, <1>2, <1>4, StartsIncrease
<1> QED BY <1>1, <1>5, <1>6

LEMMA BodyBounds ==
  ASSUME IInv, inMessageSize # 0
  PROVE  /\ BodySize \in Nat /\ BlockSize <= BodySize /\ BodySize <= inMessageSize
         /\ BlockSize # 0
BY PartsOfMessage, SizesAssumption DEF BodySize

\* What a correct reader asks for between two messages, and within one.
LEMMA AlignedRequest ==
  ASSUME IInv, SentInv, Aligned, pc = "idle", ~failed, NEW n \in Requests
  PROVE  /\ n \in Nat \ {0}
         /\ gptr = inMessageSize => n = BlockSize
         /\ gptr # inMessageSize =>
              n <= inMessageSize - gptr /\ EndOfRead(gptr + n) /\ inMessageSize # 0
<1> DEFINE pos == Len(delivered)
           bodyEnd(m) == Start[m + 1] - (IF Checksummed[m] THEN ChecksumSize ELSE 0)
<1>1. PICK m \in Replies :
        /\ n \in 1 .. MaxSize
        /\ \/ pos = Start[m] /\ n = BlockSize
           \/ pos >= Start[m] + BlockSize /\ pos + n <= bodyEnd(m)
           \/ Checksummed[m] /\ pos = bodyEnd(m) /\ n = ChecksumSize
  BY DEF Requests, SentInv, DeliveredAsSent
<1>2. n \in Nat \ {0}
  BY <1>1, SizesAssumption
<1>3. /\ inCount \in Nat /\ gptr \in Nat /\ gptr <= inMessageSize /\ inMessageSize \in Nat
      /\ pos = inCount + gptr
  BY DEF IInv, TypeOK, GetAreaInMessage, PositionIsDelivered
<1>4. /\ Start[m] \in Nat /\ Start[m + 1] \in Nat /\ bodyEnd(m) <= Start[m + 1]
      /\ bodyEnd(m) \in Int /\ Start[m] + BlockSize <= bodyEnd(m)
      /\ BlockSize \in Nat \ {0} /\ ChecksumSize \in Nat \ {0}
  <2>1. /\ Start[m] \in Nat /\ Start[m + 1] = Start[m] + Size[m] /\ Size[m] \in Nat
        /\ Size[m] >= BlockSize + ChecksumSize
    BY ReplySizes, StartsAssumption, RepliesAssumption
  <2> QED BY <2>1, SizesAssumption
<1>5. \/ pos = Start[m] /\ n = BlockSize
      \/ /\ Start[m] < pos /\ pos < Start[m + 1]
         /\ \/ pos + n <= bodyEnd(m)
            \/ Checksummed[m] /\ pos = bodyEnd(m) /\ n = ChecksumSize
  <2>1. pos \in Nat
    BY <1>3
  <2>2. CASE pos = Start[m] /\ n = BlockSize
    BY <2>2
  <2>3. CASE pos >= Start[m] + BlockSize /\ pos + n <= bodyEnd(m)
    <3> HIDE DEF bodyEnd, pos
    <3> QED BY <1>2, <1>4, <2>1, <2>3
  <2>4. CASE Checksummed[m] /\ pos = bodyEnd(m) /\ n = ChecksumSize
    <3>1. bodyEnd(m) = Start[m + 1] - ChecksumSize
      BY <2>4
    <3> HIDE DEF bodyEnd, pos
    <3> QED BY <1>4, <2>1, <2>4, <3>1
  <2> QED BY <1>1, <2>2, <2>3, <2>4
<1> HIDE DEF pos
<1>6. CASE gptr = inMessageSize
  <2>1. PICK k \in 1 .. N + 1 : pos = Start[k]
    <3>1. CASE inMessageSize = 0
      <4>1. pos = Start[1] /\ 1 \in 1 .. N + 1
        BY <1>3, <1>6, <3>1, StartsAssumption, RepliesAssumption DEF SentInv, Placed
      <4> QED BY <4>1
    <3>2. CASE inMessageSize # 0
      <4>1. /\ inMsg \in Replies /\ inCount = Start[inMsg]
            /\ Start[inMsg + 1] = Start[inMsg] + inMessageSize
        BY <3>2, PartsOfMessage DEF SentInv, Placed
      <4>2. inMsg + 1 \in 1 .. N + 1
        BY <4>1, RepliesAssumption DEF Replies
      <4> QED BY <1>3, <1>6, <4>1, <4>2
    <3> QED BY <3>1, <3>2
  <2>2. ~(Start[m] < pos /\ pos < Start[m + 1])
    BY <2>1, NoneWithin
  <2> QED BY <1>2, <1>5, <1>6, <2>2
<1>7. CASE gptr # inMessageSize
  <2>1. inMessageSize # 0 /\ EndOfRead(gptr)
    BY <1>3, <1>7 DEF Aligned
  <2>2. /\ inMsg \in Replies /\ inCount = Start[inMsg]
        /\ Start[inMsg + 1] = Start[inMsg] + inMessageSize
    BY <2>1, PartsOfMessage DEF SentInv, Placed
  <2>3. BlockSize <= gptr /\ gptr < inMessageSize
    BY <1>3, <1>7, <2>1 DEF EndOfRead
  <2>4. Start[inMsg] < pos /\ pos < Start[inMsg + 1] /\ pos \in Int
    <3>1. \A c, g, s \in Nat : g # 0 /\ g < s => c < c + g /\ c + g < c + s
      OBVIOUS
    <3>2. gptr # 0
      BY <1>3, <1>4, <2>3
    <3> QED BY <1>3, <2>2, <2>3, <3>1, <3>2
  <2>5. pos # Start[m]
    <3>1. m \in 1 .. N + 1
      BY RepliesAssumption DEF Replies
    <3> QED BY <2>2, <2>4, <3>1, NoneWithin
  <2>6. m = inMsg
    BY <1>5, <2>2, <2>4, <2>5, OneWithin
  <2>7. bodyEnd(m) = inCount + BodySize
    <3>1. Start[m + 1] = inCount + inMessageSize
      BY <2>2, <2>6
    <3>2. inCount \in Nat /\ inMessageSize \in Nat /\ ChecksumSize \in Nat
      BY <1>3, <1>4
    <3> QED BY <2>6, <3>1, <3>2 DEF BodySize
  <2>8. BodySize \in Nat /\ BodySize <= inMessageSize
    BY <2>1, BodyBounds
  <2>9. \/ gptr + n <= BodySize
        \/ gptr + n = inMessageSize
    <3>1. CASE pos + n <= bodyEnd(m)
      <4>1. (inCount + gptr) + n <= inCount + BodySize
        BY <1>3, <2>7, <3>1
      <4> QED BY <1>2, <1>3, <2>8, <4>1
    <3>2. CASE Checksummed[m] /\ pos = bodyEnd(m) /\ n = ChecksumSize
      <4>1. inCount + gptr = inCount + BodySize
        BY <1>3, <2>7, <3>2
      <4>2. BodySize = inMessageSize - n
        BY <2>6, <3>2 DEF BodySize
      <4> QED BY <1>2, <1>3, <2>8, <4>1, <4>2
    <3> QED BY <1>5, <2>5, <3>1, <3>2
  <2> QED BY <1>2, <1>3, <1>4, <1>7, <2>1, <2>3, <2>8, <2>9 DEF EndOfRead
<1> QED BY <1>6, <1>7

LEMMA InitStream == Init => StreamInv
<1> SUFFICES ASSUME Init PROVE StreamInv
  OBVIOUS
<1>1. Aligned /\ Supplied /\ FailsOnlyWhenCut
  BY DEF Init, Aligned, Supplied, FailsOnlyWhenCut
<1>2. NoRawChecksum
  <2>1. Len(delivered) = 0
    BY DEF Init
  <2>2. ASSUME NEW m \in Replies,
               NEW i \in Start[m + 1] - ChecksumSize + 1 .. Start[m + 1]
        PROVE  ~(i <= 0)
    <3>1. Start[m] \in Nat /\ Start[m + 1] = Start[m] + Size[m] /\ Size[m] \in Nat
          /\ Size[m] >= BlockSize + ChecksumSize
      BY ReplySizes, StartsAssumption, RepliesAssumption
    <3> QED BY <2>2, <3>1, SizesAssumption
  <2> QED BY <2>1, <2>2 DEF NoRawChecksum
<1> QED BY <1>1, <1>2, InitSent DEF StreamInv

\* A read that fails when the connection is cut, or at a message that is
\* neither kind.
LEMMA FailedStream ==
  ASSUME SentInv', failed',
         open' = FALSE \/ (inMsg' \in Replies /\ Kind[inMsg'] = "other")
  PROVE  StreamInv'
<1>1. open' = FALSE \/ (inMsg' # 0 /\ Kind[inMsg'] = "other")
  BY RepliesAssumption DEF Replies
<1> QED BY <1>1 DEF StreamInv, Aligned, Supplied, FailsOnlyWhenCut, NoRawChecksum

\* A step within a call hands out nothing.
LEMMA WithinCall ==
  ASSUME StreamInv, SentInv', ~failed, failed' = failed, delivered' = delivered,
         Aligned', Supplied'
  PROVE  StreamInv'
BY DEF StreamInv, FailsOnlyWhenCut, NoRawChecksum

\* A blocking read that gets less than it asked for finds the connection closed.
LEMMA ShortRead ==
  ASSUME NEW n \in Nat, NEW r \in BlockingRead(n), r.n # n
  PROVE  r.open = FALSE /\ r.n \in Nat /\ r.n < n
BY DEF BlockingRead

LEMMA XsgetnStream == IInv /\ StreamInv /\ Xsgetn => StreamInv' /\ failed' = failed
<1> SUFFICES ASSUME IInv, StreamInv, Xsgetn PROVE StreamInv' /\ failed' = failed
  OBVIOUS
<1>1. pc = "idle" /\ ~failed
  BY DEF Xsgetn
<1>2. PICK n \in Requests : Refuse(n) \/ Call(n)
  BY DEF Xsgetn
<1>3. /\ n \in Nat \ {0}
      /\ gptr = inMessageSize => n = BlockSize
      /\ gptr # inMessageSize =>
           n <= inMessageSize - gptr /\ EndOfRead(gptr + n) /\ inMessageSize # 0
  BY <1>1, AlignedRequest DEF StreamInv
<1>4. /\ gptr \in Nat /\ egptr \in Nat /\ inMessageSize \in Nat
      /\ gptr <= egptr /\ egptr <= inMessageSize
  BY DEF IInv, TypeOK, GetAreaInMessage
<1>5. Call(n)
  <2>1. CASE gptr = inMessageSize
    BY <1>2, <1>4, <2>1 DEF Refuse, messageLeft
  <2>2. CASE gptr # inMessageSize
    BY <1>2, <1>3, <1>4, <2>2 DEF Refuse, messageLeft
  <2> QED BY <2>1, <2>2
<1>6. /\ count' = n
      /\ UNCHANGED <<inMessageSize, gptr, egptr, open, failed, inMsg, delivered>>
  BY <1>5 DEF Call
<1>7. SentInv'
  BY XsgetnSent DEF StreamInv
<1>8. Aligned' /\ Supplied'
  <2>1. CASE gptr = inMessageSize
    <3>1. needs' = n /\ pc' = "header"
      BY <1>3, <1>4, <1>5, <2>1 DEF Call, availableData
    <3> QED BY <1>3, <1>6, <2>1, <3>1 DEF Aligned, Supplied
  <2>2. CASE gptr # inMessageSize
    <3>1. EndOfRead(gptr + count)'
      BY <1>3, <1>6, <2>2 DEF EndOfRead, BodySize
    <3>2. CASE gptr = egptr
      <4>1. needs' = n /\ pc' = "fill"
        BY <1>3, <1>4, <1>5, <2>2, <3>2 DEF Call, availableData
      <4>2. egptr' < (gptr + count)'
        BY <1>3, <1>4, <1>6, <3>2
      <4> QED BY <1>3, <1>6, <3>1, <4>1, <4>2 DEF Aligned, Supplied
    <3>3. CASE gptr # egptr
      <4>1. pc' = "copy"
        BY <1>5, <3>3 DEF Call
      <4>2. open => egptr = inMessageSize
        BY <1>1, <3>3 DEF StreamInv, Supplied
      <4> QED BY <1>3, <1>6, <2>2, <3>1, <4>1, <4>2 DEF Aligned, Supplied
    <3> QED BY <3>2, <3>3
  <2> QED BY <2>1, <2>2
<1> QED BY <1>1, <1>6, <1>7, <1>8, WithinCall

LEMMA NextHeaderStream == IInv /\ StreamInv /\ NextHeader => StreamInv'
<1> SUFFICES ASSUME IInv, StreamInv, NextHeader PROVE StreamInv'
  OBVIOUS
<1>1. /\ pc = "header" /\ ~failed /\ UNCHANGED <<count, needs, delivered>> /\ gptr' = 0
      /\ count = BlockSize /\ needs = count
  BY DEF NextHeader, IInv, CallInProgress, StreamInv, Aligned
<1>2. SentInv'
  BY NextHeaderSent DEF StreamInv
<1>3. PICK r \in BlockingRead(HeaderSize) :
        /\ open' = r.open
        /\ \/ r.n # HeaderSize /\ failed' = TRUE
           \/ \E m \in Replies :
                /\ inMsg' = m
                /\ \/ /\ inMessageSize' = Size[m] /\ egptr' = HeaderSize
                      /\ pc' = "fill" /\ failed' = failed
                   \/ inMessageSize' = 0 /\ pc' = "inflate" /\ failed' = failed
                   \/ Kind[m] = "other" /\ failed' = TRUE
  BY DEF NextHeader, Eof
<1>4. CASE r.n # HeaderSize /\ failed' = TRUE
  BY <1>2, <1>3, <1>4, ShortRead, FailedStream, SizesAssumption
<1>5. ASSUME NEW m \in Replies, inMsg' = m,
             inMessageSize' = Size[m], egptr' = HeaderSize, pc' = "fill",
             failed' = failed
      PROVE  StreamInv'
  <2>1. /\ Size[m] \in Nat /\ Size[m] >= BlockSize + ChecksumSize
        /\ BlockSize \in Nat \ {0} /\ ChecksumSize \in Nat
    BY RepliesAssumption, SizesAssumption
  <2>2. EndOfRead(gptr + count)'
    BY <1>1, <1>5, <2>1 DEF EndOfRead, BodySize
  <2>3. egptr' < (gptr + count)'
    BY <1>1, <1>5, SizesAssumption
  <2>4. Aligned' /\ Supplied'
    BY <1>1, <1>5, <2>1, <2>2, <2>3 DEF Aligned, Supplied
  <2> QED BY <1>1, <1>2, <1>5, <2>4, WithinCall
<1>6. ASSUME inMessageSize' = 0, pc' = "inflate", failed' = failed
      PROVE  StreamInv'
  <2>1. Aligned' /\ Supplied'
    BY <1>1, <1>6 DEF Aligned, Supplied
  <2> QED BY <1>1, <1>2, <1>6, <2>1, WithinCall
<1>7. ASSUME NEW m \in Replies, inMsg' = m, Kind[m] = "other", failed' = TRUE
      PROVE  StreamInv'
  BY <1>2, <1>7, FailedStream
<1> QED BY <1>3, <1>4, <1>5, <1>6, <1>7

LEMMA InflateStream == WholeArrivals /\ IInv /\ StreamInv /\ Inflate => StreamInv'
<1> SUFFICES ASSUME WholeArrivals, IInv, StreamInv, Inflate PROVE StreamInv'
  OBVIOUS
<1>1. /\ pc = "inflate" /\ ~failed /\ UNCHANGED <<count, needs, delivered, inMsg>>
      /\ gptr = 0 /\ gptr' = gptr /\ inMsg \in Replies /\ Kind[inMsg] = "snappy"
      /\ count = BlockSize /\ needs = count
  BY DEF Inflate, IInv, CallInProgress, StreamInv, Aligned
<1>2. SentInv'
  BY InflateSent DEF StreamInv
<1>3. PICK r \in BlockingRead(WireSize[inMsg] - HeaderSize) :
        /\ open' = r.open
        /\ \/ r.n < WireSize[inMsg] - HeaderSize /\ failed' = TRUE
           \/ /\ inMessageSize' = Size[inMsg] /\ egptr' = Size[inMsg]
              /\ pc' = "fill" /\ failed' = failed
  BY DEF Inflate, Eof
<1>4. CASE r.n < WireSize[inMsg] - HeaderSize /\ failed' = TRUE
  <2>1. WireSize[inMsg] - HeaderSize \in Nat
    BY <1>1, ReplySizes, SizesAssumption
  <2>2. r.n # WireSize[inMsg] - HeaderSize
    BY <1>4, <2>1 DEF BlockingRead
  <2> QED BY <1>2, <1>3, <1>4, <2>1, <2>2, ShortRead, FailedStream
<1>5. CASE /\ inMessageSize' = Size[inMsg] /\ egptr' = Size[inMsg]
           /\ pc' = "fill" /\ failed' = failed
  <2>1. /\ Size[inMsg] \in Nat /\ Size[inMsg] >= BlockSize + ChecksumSize
        /\ BlockSize \in Nat \ {0} /\ ChecksumSize \in Nat
    BY <1>1, RepliesAssumption, SizesAssumption
  <2>2. EndOfRead(gptr + count)'
    BY <1>1, <1>5, <2>1 DEF EndOfRead, BodySize
  <2>3. Aligned' /\ Supplied'
    BY <1>1, <1>5, <2>1, <2>2 DEF Aligned, Supplied
  <2> QED BY <1>1, <1>2, <1>5, <2>3, WithinCall
<1> QED BY <1>3, <1>4, <1>5

\* What underflow() retrieved is what the read needs.
LEMMA RetrievedStream ==
  ASSUME StreamInv, SentInv', ~failed, pc = "fill", pc' = "copy", inMessageSize # 0,
         UNCHANGED <<inMessageSize, gptr, failed, count, inMsg, delivered>>,
         open' => egptr' \in {gptr + count, inMessageSize}
  PROVE  StreamInv'
<1>1. count # 0 /\ EndOfRead(gptr + count)
  BY DEF StreamInv, Aligned
<1>2. EndOfRead(gptr + count)'
  BY <1>1 DEF EndOfRead, BodySize
<1>3. Aligned' /\ Supplied'
  BY <1>1, <1>2 DEF Aligned, Supplied
<1> QED BY <1>3, WithinCall

LEMMA FillCompleteStream == IInv /\ StreamInv /\ FillComplete => StreamInv'
<1> SUFFICES ASSUME IInv, StreamInv, FillComplete PROVE StreamInv'
  OBVIOUS
<1>1. /\ pc = "fill" /\ ~failed /\ inMessageSize # 0
      /\ pc' = "copy" /\ egptr' = egptr /\ missingData = 0
      /\ UNCHANGED <<inMessageSize, gptr, open, failed, count, inMsg, delivered>>
  BY DEF FillComplete, Retrieved, IInv, CallInProgress
<1>2. egptr' = inMessageSize
  BY <1>1 DEF IInv, TypeOK, missingData
<1>3. SentInv'
  BY FillCompleteSent DEF StreamInv
<1> QED BY <1>1, <1>2, <1>3, RetrievedStream

LEMMA NotRefused == IInv /\ StreamInv => ~FillRefused
<1> SUFFICES ASSUME IInv, StreamInv, FillRefused PROVE FALSE
  OBVIOUS
<1>1. /\ pc = "fill" /\ ~failed /\ inMessageSize # 0 /\ needs > inMessageSize - gptr
      /\ gptr \in Nat /\ inMessageSize \in Nat /\ count \in Nat
  BY DEF FillRefused, messageLeft, IInv, TypeOK, CallInProgress
<1>2. needs = count /\ EndOfRead(gptr + count)
  BY <1>1 DEF StreamInv, Aligned
<1>3. BodySize \in Nat /\ BodySize <= inMessageSize
  BY <1>1, BodyBounds
<1>4. gptr + count <= inMessageSize
  BY <1>1, <1>2, <1>3 DEF EndOfRead
<1> QED BY <1>1, <1>2, <1>4

LEMMA FillStream == WholeArrivals /\ IInv /\ StreamInv /\ Fill => StreamInv'
<1> SUFFICES ASSUME WholeArrivals, IInv, StreamInv, Fill PROVE StreamInv'
  OBVIOUS
<1>1. /\ pc = "fill" /\ inMessageSize # 0 /\ ~failed /\ missingData # 0
      /\ UNCHANGED <<inMessageSize, gptr, count, inMsg, delivered>>
  BY DEF Fill, IInv, CallInProgress
<1>2. /\ gptr \in Nat /\ egptr \in Nat /\ gptr <= egptr /\ egptr <= inMessageSize
      /\ inMessageSize \in Nat /\ count \in Nat
  BY DEF IInv, TypeOK, GetAreaInMessage
<1>3. needs = count /\ egptr < gptr + count
  BY <1>1, <1>2 DEF StreamInv, Aligned, missingData
<1>4. SentInv'
  BY FillSent DEF StreamInv
<1>5. PICK r \in TryRead(missingData) :
        \/ /\ availableData + r.n >= needs
           /\ egptr' = egptr + r.n /\ pc' = "copy" /\ open' = r.open /\ failed' = failed
        \/ open' = FALSE /\ failed' = TRUE
        \/ /\ availableData + r.n < needs
           /\ \E top \in BlockingRead(needs - availableData - r.n) :
                /\ open' = top.open
                /\ \/ /\ availableData + r.n + top.n = needs
                      /\ egptr' = egptr + r.n + top.n /\ pc' = "copy" /\ failed' = failed
                   \/ /\ availableData + r.n + top.n < needs
                      /\ failed' = TRUE
  BY DEF Fill, Retrieved, Eof
<1>6. /\ r.n \in Nat /\ r.n <= inMessageSize - egptr
      /\ r.open => r.n \in {0, inMessageSize - egptr}
  BY <1>2, <1>5 DEF TryRead, missingData, WholeArrivals
<1>7. CASE /\ availableData + r.n >= needs
           /\ egptr' = egptr + r.n /\ pc' = "copy" /\ open' = r.open /\ failed' = failed
  <2>1. r.n # 0
    BY <1>2, <1>3, <1>7 DEF availableData
  <2>2. open' => egptr' = inMessageSize
    BY <1>2, <1>6, <1>7, <2>1
  <2> QED BY <1>1, <1>4, <1>7, <2>2, RetrievedStream
<1>8. CASE open' = FALSE /\ failed' = TRUE
  BY <1>4, <1>8, FailedStream
<1>9. ASSUME availableData + r.n < needs,
             NEW top \in BlockingRead(needs - availableData - r.n), open' = top.open,
             \/ /\ availableData + r.n + top.n = needs
                /\ egptr' = egptr + r.n + top.n /\ pc' = "copy" /\ failed' = failed
             \/ /\ availableData + r.n + top.n < needs
                /\ failed' = TRUE
      PROVE  StreamInv'
  <2> DEFINE rest == needs - availableData - r.n
  <2>1. rest \in Nat /\ availableData \in Nat /\ (availableData + r.n) + rest = needs
    BY <1>2, <1>3, <1>6, <1>9 DEF availableData
  <2> HIDE DEF rest
  <2>2. top \in BlockingRead(rest)
    BY <1>9 DEF rest
  <2>3. top.n \in Nat
    BY <2>1, <2>2 DEF BlockingRead
  <2>4. CASE /\ availableData + r.n + top.n = needs
             /\ egptr' = egptr + r.n + top.n /\ pc' = "copy" /\ failed' = failed
    <3>1. egptr' = gptr + count
      BY <1>2, <1>3, <1>6, <2>3, <2>4 DEF availableData
    <3> QED BY <1>1, <1>4, <2>4, <3>1, RetrievedStream
  <2>5. CASE availableData + r.n + top.n < needs /\ failed' = TRUE
    <3>1. top.n # rest
      BY <1>6, <2>1, <2>3, <2>5
    <3>2. top.open = FALSE
      BY <2>1, <2>2, <3>1, ShortRead
    <3> QED BY <1>4, <1>9, <2>5, <3>2, FailedStream
  <2> QED BY <1>9, <2>4, <2>5
<1> QED BY <1>5, <1>7, <1>8, <1>9

\* xsgetn() comes back short exactly when the buffer does not hold enough.
LEMMA CopyLength ==
  ASSUME IInv, Copy
  PROVE  /\ failed' <=> availableData < count
         /\ ~(availableData < count) => gptr' = gptr + count
<1> DEFINE readable == IF count < availableData THEN count ELSE availableData
<1>1. failed' = (readable < count) /\ gptr' = gptr + readable
  BY DEF Copy
<1>2. gptr \in Nat /\ egptr \in Nat /\ gptr <= egptr /\ count \in Nat
  BY DEF IInv, TypeOK, GetAreaInMessage
<1>3. /\ readable < count <=> availableData < count
      /\ ~(availableData < count) => readable = count
  BY <1>2 DEF availableData
<1> HIDE DEF readable
<1>4. failed' <=> readable < count
  BY <1>1
<1> QED BY <1>1, <1>3, <1>4

\* Where the connection is open a copy is as long as it was asked for, and the
\* bytes of a checksum are copied from a verified message.
LEMMA CopyStream == IInv /\ StreamInv /\ Copy => StreamInv'
<1> SUFFICES ASSUME IInv, StreamInv, Copy PROVE StreamInv'
  OBVIOUS
<1>1. /\ pc = "copy" /\ pc' = "idle" /\ ~failed /\ inMessageSize # 0
      /\ UNCHANGED <<inMessageSize, egptr, buf, inCount, inMsg, open>>
      /\ count # 0 /\ EndOfRead(gptr + count)
      /\ open => egptr \in {gptr + count, inMessageSize}
  BY DEF Copy, IInv, CallInProgress, StreamInv, Aligned, Supplied
<1>2. /\ gptr \in Nat /\ egptr \in Nat /\ gptr <= egptr /\ egptr <= inMessageSize
      /\ inMessageSize \in Nat /\ count \in Nat /\ inCount \in Nat
      /\ inCount + gptr = Len(delivered) /\ Len(delivered) \in Nat
  BY LenProperties DEF IInv, TypeOK, GetAreaInMessage, PositionIsDelivered
<1>3. SentInv'
  BY CopySent DEF StreamInv
<1>4. /\ failed' <=> availableData < count
      /\ ~(availableData < count) => gptr' = gptr + count
  BY CopyLength
<1>5. BodySize \in Nat /\ BodySize <= inMessageSize /\ gptr + count <= inMessageSize
  <2>1. BodySize \in Nat /\ BodySize <= inMessageSize
    BY <1>1, BodyBounds
  <2> QED BY <1>1, <1>2, <2>1 DEF EndOfRead
<1>6. CASE availableData < count
  <2>1. failed'
    BY <1>4, <1>6
  <2>2. ~open
    BY <1>1, <1>2, <1>5, <1>6 DEF availableData
  <2> QED BY <1>1, <1>3, <2>1, <2>2, FailedStream DEF IInv, TypeOK
<1>7. CASE ~(availableData < count)
  <2>1. ~failed' /\ gptr' = gptr + count
    BY <1>4, <1>7
  <2>2. EndOfRead(gptr)'
    BY <1>1, <2>1 DEF EndOfRead, BodySize
  <2>3. Aligned' /\ Supplied' /\ FailsOnlyWhenCut'
    BY <1>1, <2>1, <2>2 DEF Aligned, Supplied, FailsOnlyWhenCut
  <2>4. PICK readable \in Nat :
          /\ readable <= egptr - gptr /\ gptr' = gptr + readable
          /\ Len(delivered') = Len(delivered) + readable
          /\ \A i \in 1 .. Len(delivered) : delivered'[i] = delivered[i]
          /\ \A j \in gptr .. gptr' - 1 : delivered'[inCount + j + 1] = buf[j]
    BY CopiedBytes
  <2>5. Correct(delivered)
    BY DEF StreamInv, SentInv, DeliveredAsSent
  <2>6. ASSUME NEW m \in Replies, Checksummed[m],
               NEW i \in Start[m + 1] - ChecksumSize + 1 .. Start[m + 1],
               i <= Len(delivered')
        PROVE  delivered'[i] = Zero
    <3>1. /\ Start[m] \in Nat /\ Start[m + 1] = Start[m] + Size[m] /\ Size[m] \in Nat
          /\ Size[m] >= BlockSize + ChecksumSize
          /\ BlockSize \in Nat \ {0} /\ ChecksumSize \in Nat \ {0}
      BY ReplySizes, StartsAssumption, RepliesAssumption, SizesAssumption
    <3>2. i \in Nat \ {0} /\ Start[m] < i - 1 /\ i - 1 < Start[m + 1]
      BY <2>6, <3>1
    <3>3. CASE i <= Len(delivered)
      <4>1. delivered[i] = Zero
        BY <1>1, <2>5, <2>6, <3>3 DEF StreamInv, NoRawChecksum
      <4> QED BY <1>2, <2>4, <3>2, <3>3, <4>1
    <3>4. CASE ~(i <= Len(delivered))
      <4> DEFINE j == i - 1 - inCount
      <4>1. /\ j \in gptr .. gptr' - 1 /\ inCount + j + 1 = i /\ i - 1 = inCount + j
            /\ j \in Nat /\ j < gptr' /\ j < egptr
        BY <1>2, <2>4, <2>6, <3>2, <3>4
      <4> HIDE DEF j
      <4>2. delivered'[i] = buf[j]
        BY <2>4, <4>1
      <4>3. /\ inMsg \in Replies /\ inCount = Start[inMsg]
            /\ Start[inMsg + 1] = inCount + inMessageSize
        BY <1>1, PartsOfMessage DEF StreamInv, SentInv, Placed
      <4>4. m = inMsg
        <5>1. Start[inMsg] <= i - 1 /\ i - 1 < Start[inMsg + 1]
          <6>1. inCount <= inCount + j /\ inCount + j < inCount + inMessageSize
            BY <1>2, <4>1
          <6> QED BY <4>1, <4>3, <6>1
        <5>2. i - 1 # Start[inMsg]
          <6>1. inMsg \in 1 .. N + 1
            BY <4>3, RepliesAssumption DEF Replies
          <6> QED BY <3>2, <6>1, NoneWithin
        <5>3. Start[inMsg] \in Nat /\ i - 1 \in Int
          BY <1>2, <3>2, <4>3
        <5>4. Start[inMsg] < i - 1
          BY <5>1, <5>2, <5>3
        <5> QED BY <3>2, <4>3, <5>1, <5>3, <5>4, OneWithin
      <4>5. inMessageSize - ChecksumSize <= j
        <5>1. (inCount + inMessageSize) - ChecksumSize <= inCount + j
          BY <2>6, <3>1, <4>1, <4>3, <4>4
        <5> QED BY <1>2, <3>1, <4>1, <5>1
      <4>6. BodySize = inMessageSize - ChecksumSize
        BY <2>6, <4>4 DEF BodySize
      <4>7. egptr = inMessageSize
        <5>1. ~(gptr' <= BodySize)
          BY <1>2, <1>5, <2>1, <4>1, <4>5, <4>6
        <5>2. gptr' = inMessageSize
          BY <1>1, <2>1, <5>1 DEF EndOfRead
        <5> QED BY <1>2, <2>4, <5>2
      <4>8. j \in 0 .. inMessageSize - 1 /\ IsCheck(j)
        BY <1>2, <2>6, <4>1, <4>4, <4>5, <4>7 DEF IsCheck
      <4>9. buf[j] = Zero
        BY <1>1, <4>7, <4>8 DEF StreamInv, SentInv, Intact
      <4> QED BY <4>2, <4>9
    <3> QED BY <3>3, <3>4
  <2>7. NoRawChecksum'
    BY <2>6 DEF NoRawChecksum
  <2> QED BY <1>3, <2>3, <2>7 DEF StreamInv
<1> QED BY <1>6, <1>7

LEMMA NextStream == WholeArrivals /\ IInv /\ StreamInv /\ [Next]_vars => StreamInv'
<1>1. StreamInv /\ UNCHANGED vars => StreamInv'
  <2> SUFFICES ASSUME StreamInv, UNCHANGED vars PROVE StreamInv'
    OBVIOUS
  <2>1. SentInv'
    BY DEF StreamInv, vars, SentInv, Placed, Intact, IsCheck, IntactBytes,
           DeliveredAsSent, Correct
  <2> QED BY <2>1 DEF StreamInv, vars, Aligned, Supplied, EndOfRead, BodySize,
                      FailsOnlyWhenCut, NoRawChecksum, Correct
<1> QED
  BY <1>1, XsgetnStream, NextHeaderStream, InflateStream, NotRefused, FillCompleteStream,
     FillStream, CopyStream DEF Next, Done

\* Where messages arrive whole, a read fails only because the connection was
\* closed or a message was of neither kind.
THEOREM OnlyWhenCut == WholeArrivals => (Spec => []FailsOnlyWhenCut)
<1> SUFFICES ASSUME WholeArrivals PROVE Spec => []FailsOnlyWhenCut
  OBVIOUS
<1>1. IInv /\ StreamInv /\ [Next]_vars => StreamInv'
  BY NextStream
<1>2. StreamInv => FailsOnlyWhenCut
  BY DEF StreamInv
<1> QED BY <1>1, <1>2, InitStream, Invariance, PTL DEF Spec

\* Where messages arrive whole, a reader has no byte of a checksum that was not
\* verified.
THEOREM NoneUnverified == WholeArrivals => (Spec => []NoRawChecksum)
<1> SUFFICES ASSUME WholeArrivals PROVE Spec => []NoRawChecksum
  OBVIOUS
<1>1. IInv /\ StreamInv /\ [Next]_vars => StreamInv'
  BY NextStream
<1>2. StreamInv => NoRawChecksum
  BY DEF StreamInv
<1> QED BY <1>1, <1>2, InitStream, Invariance, PTL DEF Spec

-----------------------------------------------------------------------------
(* The buffer implements the stream of replies. *)

NoneOther == \A m \in Replies : Kind[m] # "other"

\* A failed read is one of a connection that is closed.
LEMMA FailedIsCut ==
  ASSUME NoneOther, IInv', StreamInv', failed'
  PROVE  failed' = TRUE /\ open' = FALSE
<1>1. failed' \in BOOLEAN /\ open' \in BOOLEAN /\ inMsg' \in 0 .. N
  BY DEF IInv, TypeOK
<1>2. inMsg' # 0 => inMsg' \in Replies
  BY <1>1, RepliesAssumption DEF Replies
<1>3. open' => inMsg' # 0 /\ Kind[inMsg'] = "other"
  BY DEF StreamInv, FailsOnlyWhenCut
<1> QED BY <1>1, <1>2, <1>3 DEF NoneOther

\* A step that hands out nothing is a failure, a close, or not to be seen.
LEMMA QuietStep ==
  ASSUME NoneOther, IInv', StreamInv', IInv, ~failed, delivered' = delivered,
         open' => open
  PROVE  [Abstract!Next]_(Abstract!vars)
<1>1. CASE failed'
  <2>1. failed' = TRUE /\ open' = FALSE
    BY <1>1, FailedIsCut
  <2> QED BY <2>1 DEF Abstract!Next, Abstract!Fail
<1>2. CASE ~failed'
  <2>1. /\ failed' = failed /\ open \in BOOLEAN /\ open' \in BOOLEAN
    BY <1>2 DEF IInv, TypeOK
  <2>2. CASE open' = open
    BY <2>1, <2>2 DEF Abstract!vars
  <2>3. CASE open' # open
    <3>1. open /\ open' = FALSE
      BY <2>1, <2>3
    <3> QED BY <2>1, <3>1 DEF Abstract!Next, Abstract!Cut
  <2> QED BY <2>2, <2>3
<1> QED BY <1>1, <1>2

\* A connection that is closed stays closed.
LEMMA NextHeaderQuiet == IInv /\ NextHeader => ~failed /\ delivered' = delivered /\ (open' => open)
BY DEF NextHeader, BlockingRead, IInv, CallInProgress

LEMMA InflateQuiet == IInv /\ Inflate => ~failed /\ delivered' = delivered /\ (open' => open)
BY DEF Inflate, BlockingRead, IInv, CallInProgress

LEMMA FillQuiet == IInv /\ Fill => ~failed /\ delivered' = delivered /\ (open' => open)
<1> SUFFICES ASSUME IInv, Fill PROVE ~failed /\ delivered' = delivered /\ (open' => open)
  OBVIOUS
<1>1. ~failed /\ delivered' = delivered
  BY DEF Fill, IInv, CallInProgress
<1>2. PICK r \in TryRead(missingData) : (open' => r.open)
  BY DEF Fill
<1>3. r.open => open
  BY <1>2 DEF TryRead
<1> QED BY <1>1, <1>2, <1>3

\* Where messages arrive whole, what is handed out is the stream's next bytes.
LEMMA CopyImplements ==
  ASSUME NoneOther, IInv, StreamInv, IInv', StreamInv', Copy
  PROVE  Abstract!Next
<1>1. PICK readable \in Nat :
        /\ readable <= egptr - gptr /\ gptr' = gptr + readable
        /\ Len(delivered') = Len(delivered) + readable
        /\ \A i \in 1 .. Len(delivered) : delivered'[i] = delivered[i]
        /\ \A j \in gptr .. gptr' - 1 : delivered'[inCount + j + 1] = buf[j]
  BY CopiedBytes
<1>2. /\ ~failed /\ pc = "copy" /\ open' = open /\ count # 0 /\ inMessageSize # 0
      /\ UNCHANGED <<inMessageSize, inCount, inMsg>>
  BY DEF Copy, IInv, CallInProgress, StreamInv, Aligned
<1>3. CASE failed'
  <2>1. failed' = TRUE /\ open' = FALSE
    BY <1>3, FailedIsCut
  <2> QED BY <1>1, <1>2, <2>1 DEF Abstract!Next, Abstract!Fail
<1>4. CASE ~failed'
  <2>1. gptr' = gptr + count /\ failed' = failed
    <3>1. gptr' = gptr + count
      BY <1>4, CopyLength
    <3>2. failed' = failed
      BY <1>2, <1>4 DEF IInv, TypeOK
    <3> QED BY <3>1, <3>2
  <2>2. /\ gptr \in Nat /\ count \in Nat /\ inCount \in Nat /\ Len(delivered) \in Nat
        /\ inCount + gptr' = Len(delivered') /\ gptr' <= inMessageSize
        /\ gptr' \in Nat /\ inMessageSize \in Nat
    <3>1. /\ gptr \in Nat /\ count \in Nat /\ inCount \in Nat
          /\ inCount + gptr = Len(delivered) /\ inMessageSize \in Nat
      BY DEF IInv, TypeOK, PositionIsDelivered
    <3>2. /\ gptr' \in Nat /\ egptr' \in Nat /\ gptr' <= egptr' /\ egptr' <= inMessageSize
          /\ inCount + gptr' = Len(delivered')
      BY <1>2 DEF IInv, TypeOK, GetAreaInMessage, PositionIsDelivered
    <3>3. gptr' <= inMessageSize
      BY <3>1, <3>2
    <3>4. Len(delivered) \in Nat
      BY LenProperties DEF IInv, TypeOK
    <3> QED BY <3>1, <3>2, <3>3, <3>4
  <2>3. Len(delivered') > Len(delivered)
    BY <1>1, <1>2, <2>1, <2>2
  <2>4. Len(delivered') <= Start[N + 1] /\ Start[N + 1] \in Nat
    <3>1. /\ inMsg \in Replies /\ inCount = Start[inMsg]
          /\ Start[inMsg + 1] = inCount + inMessageSize
      BY <1>2, PartsOfMessage DEF StreamInv, SentInv, Placed
    <3>2. /\ N \in Nat /\ N + 1 \in 1 .. N + 1 /\ inMsg + 1 \in 1 .. N + 1
          /\ inMsg + 1 = N + 1 \/ inMsg + 1 \in 1 .. (N + 1) - 1
      BY <3>1, RepliesAssumption DEF Replies
    <3>3. Start[N + 1] \in Nat /\ Start[inMsg + 1] \in Nat
      BY <3>2, StartsAssumption
    <3>4. Start[inMsg + 1] <= Start[N + 1]
      BY <3>2, <3>3, StartsIncrease
    <3>5. Len(delivered') <= Start[inMsg + 1]
      BY <2>2, <3>1
    <3>6. Len(delivered') \in Nat
      BY <1>1, <2>2
    <3> QED BY <3>3, <3>4, <3>5, <3>6
  <2>5. Correct(delivered)' /\ NoRawChecksum'
    BY DEF StreamInv, SentInv, DeliveredAsSent
  <2>6. ASSUME NEW i \in Len(delivered) + 1 .. Len(delivered')
        PROVE  delivered'[i] = Content[i - 1]
    <3>1. i \in 1 .. Len(delivered') /\ i - 1 \in 0 .. Start[N + 1] - 1 /\ i \in Nat
      BY <1>1, <2>2, <2>4
    <3>2. CASE \E m \in Replies : /\ Checksummed[m]
                                  /\ Start[m + 1] - ChecksumSize <= i - 1
                                  /\ i - 1 < Start[m + 1]
      <4>1. PICK m \in Replies : /\ Checksummed[m]
                                 /\ Start[m + 1] - ChecksumSize <= i - 1
                                 /\ i - 1 < Start[m + 1]
        BY <3>2
      <4>2. Start[m + 1] \in Nat
        BY ReplySizes, StartsAssumption
      <4>3. i \in Start[m + 1] - ChecksumSize + 1 .. Start[m + 1]
        BY <3>1, <4>1, <4>2, SizesAssumption
      <4>4. delivered'[i] = Zero
        BY <1>4, <2>5, <3>1, <4>1, <4>3 DEF NoRawChecksum
      <4> QED BY <3>1, <3>2, <4>4 DEF Content
    <3>3. CASE ~\E m \in Replies : /\ Checksummed[m]
                                   /\ Start[m + 1] - ChecksumSize <= i - 1
                                   /\ i - 1 < Start[m + 1]
      <4>1. delivered'[i] = i - 1
        <5>1. ASSUME NEW m \in Replies, Checksummed[m],
                     i - 1 >= Start[m + 1] - ChecksumSize, i - 1 < Start[m + 1]
              PROVE  FALSE
          <6>1. Start[m + 1] \in Nat
            BY ReplySizes, StartsAssumption
          <6> QED BY <3>1, <3>3, <5>1, <6>1, SizesAssumption
        <5> QED BY <2>5, <3>1, <5>1 DEF Correct
      <4> QED BY <3>1, <3>3, <4>1 DEF Content
    <3> QED BY <3>2, <3>3
  <2> QED BY <1>1, <1>2, <1>4, <2>1, <2>3, <2>6 DEF Abstract!Next, Abstract!Read
<1> QED BY <1>3, <1>4

LEMMA StepImplements ==
  ASSUME NoneOther, IInv, StreamInv, IInv', StreamInv', [Next]_vars
  PROVE  [Abstract!Next]_(Abstract!vars)
<1>1. CASE UNCHANGED vars \/ Done
  BY <1>1 DEF vars, Done, Abstract!vars
<1>2. CASE Xsgetn
  <2>1. ~failed /\ delivered' = delivered /\ open' = open
    BY <1>2 DEF Xsgetn, Refuse, Call
  <2> QED BY <2>1, QuietStep
<1>3. CASE NextHeader
  BY <1>3, NextHeaderQuiet, QuietStep
<1>4. CASE Inflate
  BY <1>4, InflateQuiet, QuietStep
<1>5. CASE FillComplete
  <2>1. ~failed /\ delivered' = delivered /\ open' = open
    BY <1>5 DEF FillComplete, IInv, CallInProgress
  <2> QED BY <2>1, QuietStep
<1>6. CASE Fill
  BY <1>6, FillQuiet, QuietStep
<1>7. CASE Copy
  BY <1>7, CopyImplements
<1> QED BY <1>1, <1>2, <1>3, <1>4, <1>5, <1>6, <1>7, NotRefused DEF Next

\* Where messages arrive whole and are of the two kinds, the buffer implements
\* the stream of replies.
THEOREM Implements == WholeArrivals /\ NoneOther => (Spec => ImplementsReplyStream)
<1> SUFFICES ASSUME WholeArrivals, NoneOther PROVE Spec => ImplementsReplyStream
  OBVIOUS
<1>1. Init => Abstract!Init
  BY DEF Init, Abstract!Init
<1>2. IInv /\ StreamInv /\ [Next]_vars => StreamInv'
  BY NextStream
<1>3. IInv /\ StreamInv /\ IInv' /\ StreamInv' /\ [Next]_vars
        => [Abstract!Next]_(Abstract!vars)
  BY StepImplements
<1> QED BY <1>1, <1>2, <1>3, InitStream, Invariance, PTL
        DEF Spec, ImplementsReplyStream, Abstract!Spec

===============================================================================
