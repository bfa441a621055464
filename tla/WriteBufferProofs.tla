---------------------------- MODULE WriteBufferProofs ----------------------------
(***************************************************************************)
(* Proofs about WriteBuffer, for all sizes, messages and socket failures.  *)
(*                                                                         *)
(* The argument: while the stream is good, the buffer is empty or holds    *)
(* the message up to where it was written and the put area is as long as   *)
(* its header says, so what sync() finds complete is the message; and what *)
(* it sends is told apart from every other message by its first byte.  Of  *)
(* a message whose size has a byte that looks like eof() another size is   *)
(* read: then the put area is of that size, and never filled up.           *)
(***************************************************************************)
EXTENDS WriteBuffer, SequenceTheorems, WellFoundedInduction, TLAPS

\* The library writes messages only with sendMessage(), whose first write is
\* the whole block, and flush() of a failed stream does not reach sync().
SendMessageOnly == SingleBytes = {} /\ FlushChecks

\* A byte of the message's size looks like eof().
HasEof(m) == \E i \in 0 .. SizeField - 1 : Header[m][i] = Eof

\* Of such a message as many bytes are never written as the size says that is
\* read instead, in which no byte looks like eof(): then it is not the size of
\* the message, which is what the serializer writes.
NotMisread ==
  \A m \in Messages : HasEof(m) => \A at \in Places(m, 0, 0, BlockSize) :
    Number([i \in 0 .. SizeField - 1 |-> Header[m][at[i]]]) \notin Written[m]

Byte  == (0 .. N) \X Int
Entry == [bytes : Seq(Byte), compressed : BOOLEAN]

\* The put area is one, and the size is known before it is used.
Pointers ==
  /\ pptr <= epptr
  /\ ~bad => outMessageSize # 0 \/ outMessagePlaced < SizeField

\* Messages are dealt with in order, and a failure is remembered.
Progress ==
  /\ \A m \in Messages : m >= msg => result[m] = "none"
  /\ \A m \in Messages : result[m] = "failed" => bad
  /\ FailureIsFinal

IInv == TypeOK /\ Pointers /\ Progress

Empty == pos = 0 /\ outMessageSize = 0 /\ outMessagePlaced = 0 /\ pptr = 0 /\ epptr = 0

\* The message has been written up to pos.
Holding ==
  /\ pos >= BlockSize /\ pos <= Size[msg] /\ Size[msg] >= Smallest
  /\ outMessageSize = Size[msg] /\ outMessagePlaced = SizeField
  /\ pptr = pos /\ epptr = Size[msg]
  /\ Intact(out, msg, 0, pos - 1)

\* So has this one, in a put area of a size that it is not written up to.
Misheld ==
  /\ pos >= BlockSize /\ outMessageSize # 0 /\ outMessagePlaced = SizeField
  /\ pptr = pos /\ epptr \notin Written[msg]

Filled == ~bad /\ msg \in Messages => Empty \/ Holding \/ Misheld

\* What is on the wire.
OnWire(m) == \E i \in 1 .. Len(wire) : wire[i].bytes = Whole(m)

Carried ==
  /\ torn < msg /\ (torn # 0 => result[torn] = "sent")
  /\ \A i \in 1 .. Len(wire) : \E m \in Messages :
       /\ m < msg /\ result[m] = "sent" /\ Size[m] >= Smallest
       /\ \/ wire[i].bytes = Whole(m)
          \/ /\ m = torn /\ i = Len(wire)
             /\ \E n \in 1 .. Size[m] - 1 : wire[i].bytes = SubSeq(Whole(m), 1, n)
       /\ \A j \in 1 .. i - 1 : \A k \in Messages : wire[j].bytes = Whole(k) => k < m

SendInv == Filled /\ Carried /\ SentIsOnWire /\ NothingUndefined

-----------------------------------------------------------------------------
(* Bytes. *)

LEMMA Sizes ==
  /\ SizeField \in Nat /\ SizeField > 0 /\ HeaderSize \in Nat /\ BlockSize \in Nat
  /\ ChecksumSize \in Nat /\ ChecksumSize > 0 /\ Smallest \in Nat
  /\ SizeField <= HeaderSize /\ HeaderSize < BlockSize /\ BlockSize < Smallest
  /\ SizeField <= Capacity /\ Capacity \in Nat /\ N \in Nat
BY SizesAssumption, MessagesAssumption

LEMMA MessageSizes ==
  ASSUME NEW m \in Messages
  PROVE  /\ Size[m] \in Nat /\ Size[m] = Number(Header[m])
         /\ Header[m] \in [0 .. BlockSize - 1 -> 0 .. Eof] /\ Eof \in Nat
         /\ Places(m, 0, 0, BlockSize) # {}
         /\ Checksummed[m] \in BOOLEAN
         /\ Checksummed[m] => Size[m] >= BlockSize + ChecksumSize
         /\ Written[m] \subseteq Nat /\ \A n \in Written[m] : n >= Smallest
         /\ m \in Nat /\ m >= 1 /\ m <= N
BY MessagesAssumption DEF Messages

\* Put() stores bytes of the message and leaves the others as they are.
LEMMA PutIs ==
  ASSUME NEW b \in [0 .. Capacity - 1 -> Byte], msg \in Messages,
         NEW at \in Int, NEW from \in Int, NEW n \in Int
  PROVE  /\ Put(b, at, from, n) \in [0 .. Capacity - 1 -> Byte]
         /\ \A i \in 0 .. Capacity - 1 :
              Put(b, at, from, n)[i] =
                IF at <= i /\ i < at + n THEN <<msg, from + (i - at)>> ELSE b[i]
<1>1. msg \in 0 .. N
  BY Sizes DEF Messages
<1>2. \A i \in 0 .. Capacity - 1 : <<msg, from + (i - at)>> \in Byte
  BY <1>1 DEF Byte
<1> QED BY <1>2 DEF Put

\* Bytes that are in place belong to one message.
LEMMA OneOwner ==
  ASSUME NEW b, NEW m \in Messages, NEW k \in Messages, NEW first, NEW last,
         first \in Int, last \in Int, first <= last,
         Intact(b, m, first, last), Intact(b, k, first, last)
  PROVE  m = k
<1>1. first \in first .. last
  OBVIOUS
<1>2. b[first] = <<m, first>> /\ b[first] = <<k, first>>
  BY <1>1 DEF Intact
<1> QED BY <1>2

LEMMA FlagTaken ==
  ASSUME NEW b, NEW m \in Messages, Intact(b, m, HeaderSize, BlockSize - 1)
  PROVE  FlagsIn(b) = {Checksummed[m]}
<1>1. \A x \in Messages : Intact(b, x, HeaderSize, BlockSize - 1) => x = m
  <2>1. HeaderSize \in Int /\ BlockSize - 1 \in Int /\ HeaderSize <= BlockSize - 1
    BY Sizes
  <2> QED BY <2>1, OneOwner
<1> QED BY <1>1 DEF FlagsIn

\* The first byte of a message is its own.
LEMMA WholeIs ==
  ASSUME NEW m \in Messages
  PROVE  /\ Whole(m) \in Seq(Byte) /\ Len(Whole(m)) = Size[m]
         /\ Size[m] > 0 => Whole(m)[1] = <<m, 0>>
<1>1. \A i \in 1 .. Size[m] : Whole(m)[i] \in Byte
  BY MessageSizes, Sizes DEF Whole, Sum, Byte
<1>2. Whole(m) \in [1 .. Size[m] -> Byte]
  BY <1>1 DEF Whole
<1>3. Whole(m) \in Seq(Byte) /\ Len(Whole(m)) = Size[m]
  <2>1. Size[m] \in Nat
    BY MessageSizes
  <2>2. Whole(m) \in Seq(Byte)
    BY <1>2, <2>1, SeqDef
  <2>3. DOMAIN Whole(m) = 1 .. Len(Whole(m)) /\ DOMAIN Whole(m) = 1 .. Size[m]
        /\ Len(Whole(m)) \in Nat
    BY <1>2, <2>2, LenProperties
  <2>4. ASSUME NEW a \in Nat, NEW b \in Nat, 1 .. a = 1 .. b, a < b
        PROVE  FALSE
    <3>1. b \in 1 .. b /\ b \notin 1 .. a
      BY <2>4
    <3> QED BY <2>4, <3>1
  <2>5. ~(Len(Whole(m)) < Size[m]) /\ ~(Size[m] < Len(Whole(m)))
    BY <2>1, <2>3, <2>4
  <2> QED BY <2>1, <2>2, <2>3, <2>5
<1>4. ASSUME Size[m] > 0 PROVE Whole(m)[1] = <<m, 0>>
  <2>1. 1 \in 1 .. Size[m] /\ ~(Checksummed[m] /\ 1 > Size[m] - ChecksumSize) /\ 1 - 1 = 0
    BY <1>4, MessageSizes, Sizes
  <2> QED BY <2>1 DEF Whole
<1> QED BY <1>3, <1>4

\* Messages that can be sent are told apart by what is sent.
LEMMA WholeOnce ==
  ASSUME NEW m \in Messages, NEW k \in Messages, Size[m] > 0, Whole(m) = Whole(k)
  PROVE  m = k
<1>1. Size[k] = Size[m]
  BY WholeIs
<1>2. <<m, 0>> = <<k, 0>>
  BY <1>1, WholeIs
<1> QED BY <1>2

\* The beginning of one message is not another.
LEMMA PrefixOnce ==
  ASSUME NEW m \in Messages, NEW n \in 1 .. Size[m] - 1
  PROVE  /\ \A k \in Messages : SubSeq(Whole(m), 1, n) # Whole(k)
         /\ IsPrefix(SubSeq(Whole(m), 1, n), Whole(m))
<1> DEFINE w == Whole(m)
           s == SubSeq(w, 1, n)
<1>1. w \in Seq(Byte) /\ Len(w) = Size[m] /\ Size[m] \in Nat
  BY WholeIs, MessageSizes
<1>2. n \in Nat /\ 1 <= n /\ n < Size[m] /\ n - 1 + 1 = n /\ \A i \in 1 .. n : i \in 1 .. Size[m]
  BY <1>1
<1>3. \A i \in 1 .. n : w[i] \in Byte
  <2> HIDE DEF w
  <2>1. \A i \in 1 .. Len(w) : w[i] \in Byte
    BY <1>1, ElementOfSeq
  <2> QED BY <1>1, <1>2, <2>1
<1>4. /\ s \in Seq(Byte) /\ Len(s) = n
      /\ \A i \in 1 .. n : s[i] = w[1 + i - 1]
  <2> HIDE DEF w
  <2>1. 1 \in Int /\ n \in Int
    BY <1>2
  <2> QED BY <1>2, <1>3, <2>1, SubSeqProperties
<1>5. s[1] = <<m, 0>>
  <2>1. 1 \in 1 .. n /\ 1 + 1 - 1 = 1 /\ Size[m] > 0
    BY <1>1, <1>2
  <2>2. s[1] = w[1]
    <3> HIDE DEF s, w
    <3> QED BY <1>4, <2>1
  <2> QED BY <2>1, <2>2, WholeIs
<1>6. ASSUME NEW k \in Messages, s = Whole(k) PROVE FALSE
  <2>1. Size[k] = n
    BY <1>4, <1>6, WholeIs
  <2>2. <<m, 0>> = <<k, 0>>
    <3>1. Size[k] > 0
      BY <1>2, <2>1
    <3> QED BY <1>5, <1>6, <3>1, WholeIs
  <2> QED BY <1>1, <1>2, <2>1, <2>2
<1>7. SubSeq(s, 1, Len(s)) = s
  BY <1>4, SubSeqFull
<1>8. IsPrefix(s, w)
  <2> HIDE DEF w
  <2>1. Len(s) <= Len(w)
    BY <1>1, <1>2, <1>4
  <2> QED BY <1>4, <1>7, <2>1 DEF IsPrefix
<1> QED BY <1>6, <1>8

-----------------------------------------------------------------------------
(* Writing. *)

\* A set of numbers that is not empty has a least.
LEMMA LeastNat ==
  ASSUME NEW T, T \subseteq Nat, T # {}
  PROVE  \E k \in T : \A j \in T : k <= j
<1> DEFINE R == {pair \in Nat \X Nat : pair[1] < pair[2]}
<1>1. IsWellFoundedOn(R, Nat)
  BY NatLessThanWellFounded DEF OpToRel
<1>2. PICK k \in T : \A j \in T : ~(<<j, k>> \in R)
  <2> HIDE DEF R
  <2> QED BY <1>1, WFMin
<1>3. \A j \in T : ~(j < k)
  BY <1>2
<1> QED BY <1>3

\* Induction up to a bound, over a set.
LEMMA UpTo ==
  ASSUME NEW n \in Nat, NEW T, 0 \in T, \A i \in 0 .. n - 1 : i \in T => i + 1 \in T
  PROVE  \A i \in 0 .. n : i \in T
<1> DEFINE B == {i \in 0 .. n : i \notin T}
<1>1. SUFFICES ASSUME B # {} PROVE FALSE
  OBVIOUS
<1>2. PICK k \in B : \A j \in B : k <= j
  <2>1. B \subseteq Nat
    OBVIOUS
  <2> HIDE DEF B
  <2> QED BY <1>1, <2>1, LeastNat
<1>3. k - 1 \in 0 .. n - 1 /\ k - 1 \notin B /\ (k - 1) + 1 = k
  BY <1>2
<1> QED BY <1>2, <1>3

\* A number is read from its highest byte down.
LEMMA NumberIs ==
  ASSUME NEW f
  PROVE  \E h : /\ Number(f) = h[SizeField] /\ h[0] = 0
                /\ \A i \in 1 .. SizeField : h[i] = h[i - 1] * (Eof + 1) + f[SizeField - i]
<1> DEFINE Step(t, i) == t * (Eof + 1) + f[SizeField - i]
           Is(h, k) == h = [i \in 0 .. k |-> IF i = 0 THEN 0 ELSE Step(h[i - 1], i)]
           T == {k \in 0 .. SizeField : \E h : Is(h, k)}
<1>1. Number(f) = (CHOOSE h : Is(h, SizeField))[SizeField]
  BY DEF Number
<1> HIDE DEF Step
<1>2. 0 \in T
  <2> DEFINE h0 == [i \in 0 .. 0 |-> 0]
  <2>1. Is(h0, 0)
    OBVIOUS
  <2> HIDE DEF Is, h0
  <2>2. 0 \in 0 .. SizeField
    BY Sizes
  <2> QED BY <2>1, <2>2
<1>3. ASSUME NEW k \in 0 .. SizeField - 1, k \in T
      PROVE  k + 1 \in T
  <2>1. PICK h : Is(h, k)
    BY <1>3
  <2> DEFINE g == [i \in 0 .. k + 1 |-> IF i = k + 1 THEN Step(h[k], k + 1) ELSE h[i]]
  <2>2. Is(g, k + 1)
    <3>1. \A i \in 0 .. k + 1 : g[i] = IF i = 0 THEN 0 ELSE Step(g[i - 1], i)
      BY <2>1, Sizes
    <3> QED BY <3>1
  <2> HIDE DEF Is, g
  <2>3. k + 1 \in 0 .. SizeField
    BY Sizes
  <2> QED BY <2>2, <2>3
<1>4. \E h : Is(h, SizeField)
  <2> HIDE DEF Is
  <2>1. \A k \in 0 .. SizeField : k \in T
    <3> HIDE DEF T
    <3> QED BY <1>2, <1>3, Sizes, UpTo
  <2> QED BY <2>1, Sizes
<1>5. Is(CHOOSE h : Is(h, SizeField), SizeField)
  <2> HIDE DEF Is
  <2> QED BY <1>4
<1> DEFINE r == CHOOSE h : Is(h, SizeField)
<1>6. r[0] = 0 /\ \A i \in 1 .. SizeField : r[i] = Step(r[i - 1], i)
  <2> HIDE DEF r
  <2>1. Is(r, SizeField)
    BY <1>5 DEF r
  <2> QED BY <2>1, Sizes
<1> QED BY <1>1, <1>6 DEF Step

LEMMA NumberInNat ==
  ASSUME NEW f, \A i \in 0 .. SizeField - 1 : f[i] \in Nat
  PROVE  Number(f) \in Nat
<1>1. PICK h : /\ Number(f) = h[SizeField] /\ h[0] = 0
               /\ \A i \in 1 .. SizeField : h[i] = h[i - 1] * (Eof + 1) + f[SizeField - i]
  BY NumberIs
<1> DEFINE T == {k \in 0 .. SizeField : h[k] \in Nat}
<1>2. 0 \in T
  BY <1>1, Sizes
<1>3. ASSUME NEW k \in 0 .. SizeField - 1, k \in T
      PROVE  k + 1 \in T
  <2>1. /\ k + 1 \in 1 .. SizeField /\ (k + 1) - 1 = k
        /\ SizeField - (k + 1) \in 0 .. SizeField - 1 /\ k + 1 \in 0 .. SizeField
    BY Sizes
  <2>2. h[k + 1] = h[k] * (Eof + 1) + f[SizeField - (k + 1)]
    BY <1>1, <2>1
  <2>3. \A a, b, c \in Nat : a * (b + 1) + c \in Nat
    OBVIOUS
  <2>4. h[k] \in Nat /\ Eof \in Nat /\ f[SizeField - (k + 1)] \in Nat
    BY <1>3, <2>1, MessagesAssumption
  <2> QED BY <2>1, <2>2, <2>3, <2>4
<1>4. \A k \in 0 .. SizeField : k \in T
  <2> HIDE DEF T
  <2> QED BY <1>2, <1>3, Sizes, UpTo
<1>5. SizeField \in T
  BY <1>4, Sizes
<1> QED BY <1>1, <1>5

\* Only the bytes of the field count.
LEMMA NumberSame ==
  ASSUME NEW f, NEW g, \A i \in 0 .. SizeField - 1 : f[i] = g[i]
  PROVE  Number(f) = Number(g)
<1>1. PICK h : /\ Number(f) = h[SizeField] /\ h[0] = 0
               /\ \A i \in 1 .. SizeField : h[i] = h[i - 1] * (Eof + 1) + f[SizeField - i]
  BY NumberIs
<1>2. PICK k : /\ Number(g) = k[SizeField] /\ k[0] = 0
               /\ \A i \in 1 .. SizeField : k[i] = k[i - 1] * (Eof + 1) + g[SizeField - i]
  BY NumberIs
<1> DEFINE T == {i \in 0 .. SizeField : h[i] = k[i]}
<1>3. 0 \in T
  BY <1>1, <1>2, Sizes
<1>4. ASSUME NEW i \in 0 .. SizeField - 1, i \in T
      PROVE  i + 1 \in T
  <2>1. /\ i + 1 \in 1 .. SizeField /\ (i + 1) - 1 = i
        /\ SizeField - (i + 1) \in 0 .. SizeField - 1 /\ i + 1 \in 0 .. SizeField
    BY Sizes
  <2>2. h[i + 1] = h[i] * (Eof + 1) + f[SizeField - (i + 1)]
    BY <1>1, <2>1
  <2>3. k[i + 1] = k[i] * (Eof + 1) + g[SizeField - (i + 1)]
    BY <1>2, <2>1
  <2>4. h[i] = k[i] /\ f[SizeField - (i + 1)] = g[SizeField - (i + 1)]
    BY <1>4, <2>1
  <2> QED BY <2>1, <2>2, <2>3, <2>4
<1>5. \A i \in 0 .. SizeField : i \in T
  <2> HIDE DEF T
  <2> QED BY <1>3, <1>4, Sizes, UpTo
<1>6. SizeField \in T
  BY <1>5, Sizes
<1> QED BY <1>1, <1>2, <1>6

LEMMA SizeInNat ==
  ASSUME NEW b
  PROVE  SizeIn(b) \in Nat
<1> DEFINE f == [i \in 0 .. SizeField - 1 |-> Value(b[i])]
<1>1. \A i \in 0 .. SizeField - 1 : f[i] \in Nat
  <2>1. ASSUME NEW x PROVE Value(x) \in Nat
    <3>1. CASE x[1] \in Messages /\ x[2] \in 0 .. BlockSize - 1
      <4>1. Header[x[1]][x[2]] \in 0 .. Eof /\ Eof \in Nat
        BY <3>1, MessagesAssumption
      <4> QED BY <3>1, <4>1 DEF Value
    <3>2. CASE ~(x[1] \in Messages /\ x[2] \in 0 .. BlockSize - 1)
      BY <3>2 DEF Value
    <3> QED BY <3>1, <3>2
  <2> QED BY <2>1
<1> HIDE DEF f
<1>2. Number(f) \in Nat
  BY <1>1, NumberInNat
<1> QED BY <1>2 DEF SizeIn, f

\* The bytes that overflow() places are bytes of the write.
LEMMA PlacesAre ==
  ASSUME NEW m, NEW placed \in 0 .. SizeField - 1, NEW from \in Nat, NEW n \in Nat,
         NEW at \in Places(m, placed, from, n)
  PROVE  /\ at \in [placed .. SizeField - 1 -> from .. from + n - 1]
         /\ SizeField - 1 \in placed .. SizeField - 1
         /\ at[SizeField - 1] \in from .. from + n - 1
<1>1. at \in [placed .. SizeField - 1 -> from .. from + n - 1]
  BY DEF Places
<1>2. SizeField - 1 \in placed .. SizeField - 1
  BY Sizes
<1> QED BY <1>1, <1>2

\* If no byte of the size looks like eof(), each is placed where it belongs: there
\* is no first that is not.
LEMMA PlacedInOrder ==
  ASSUME NEW m \in Messages, ~HasEof(m), NEW at \in Places(m, 0, 0, BlockSize)
  PROVE  \A i \in 0 .. SizeField - 1 : at[i] = i
<1> DEFINE B == {i \in 0 .. SizeField - 1 : at[i] # i}
           last == SizeField - 1
<1>1. /\ at \in [0 .. last -> 0 .. BlockSize - 1]
      /\ \A i, j \in 0 .. last : i < j => at[i] < at[j]
      /\ {at[i] : i \in 0 .. last} = {k \in 0 .. at[last] : Value(<<m, k>>) # Eof}
  <2>1. at \in [0 .. last -> 0 .. 0 + BlockSize - 1]
    BY DEF Places
  <2>2. 0 + BlockSize - 1 = BlockSize - 1 /\ DOMAIN at = 0 .. last
    BY <2>1, Sizes
  <2> QED BY <2>1, <2>2 DEF Places
<1>2. SUFFICES ASSUME B # {} PROVE FALSE
  OBVIOUS
<1>3. PICK i \in B : \A j \in B : i <= j
  <2>1. B \subseteq Nat
    OBVIOUS
  <2> HIDE DEF B
  <2> QED BY <1>2, <2>1, LeastNat
<1>4. i \in 0 .. last /\ at[i] # i /\ \A j \in 0 .. last : j < i => at[j] = j
  <2> SUFFICES ASSUME NEW j \in 0 .. last, j < i PROVE at[j] = j
    BY <1>3
  <2> QED BY <1>3
<1> HIDE DEF B
<1>5. SizeField \in Nat /\ SizeField > 0 /\ last \in 0 .. last /\ at[i] \in Nat /\ at[last] \in Nat
  <2>1. SizeField \in Nat /\ SizeField > 0 /\ last \in 0 .. last
    BY Sizes
  <2>2. 0 .. BlockSize - 1 \subseteq Nat
    BY Sizes
  <2> QED BY <1>1, <1>4, <2>1, <2>2
<1>6. at[i] > i
  <2>1. CASE i = 0
    BY <1>4, <1>5, <2>1
  <2>2. CASE i # 0
    <3>1. i - 1 \in 0 .. last /\ i - 1 < i
      BY <1>4, <1>5, <2>2
    <3>2. at[i - 1] = i - 1 /\ at[i - 1] < at[i]
      BY <1>1, <1>4, <3>1
    <3> QED BY <1>4, <1>5, <3>2
  <2> QED BY <2>1, <2>2
<1>7. at[i] <= at[last]
  <2>1. i = last \/ i < last
    BY <1>4, <1>5
  <2> QED BY <1>1, <1>4, <1>5, <2>1
<1>8. i \in 0 .. at[last] /\ Value(<<m, i>>) # Eof
  <2>1. i \in 0 .. at[last]
    BY <1>4, <1>5, <1>6, <1>7
  <2>2. Header[m][i] # Eof /\ i \in 0 .. BlockSize - 1
    BY <1>4, Sizes DEF HasEof
  <2> QED BY <2>1, <2>2 DEF Value
<1>9. PICK j \in 0 .. last : at[j] = i
  BY <1>1, <1>8
<1>10. CASE j < i
  BY <1>4, <1>9, <1>10
<1>11. CASE j = i
  BY <1>4, <1>9, <1>11
<1>12. CASE i < j
  <2>1. at[i] < at[j]
    BY <1>1, <1>4, <1>12
  <2> QED BY <1>4, <1>5, <1>6, <1>9, <2>1
<1> QED BY <1>4, <1>5, <1>10, <1>11, <1>12

LEMMA ToPlaceIs ==
  ASSUME TypeOK
  PROVE  /\ ToPlace \in 0 .. SizeField
         /\ outMessagePlaced < SizeField /\ outMessageSize = 0 =>
              ToPlace = SizeField - outMessagePlaced
         /\ outMessageSize # 0 => ToPlace = 0
<1>1. outMessagePlaced \in 0 .. SizeField /\ SizeField \in Nat
  BY Sizes DEF TypeOK
<1>2. \A s \in Nat : 0 \in 0 .. s /\ \A p \in 0 .. s : s - p \in 0 .. s
  OBVIOUS
<1> QED BY <1>1, <1>2 DEF ToPlace

\* What overflow() has placed in the buffer.
LEMMA PlacedIs ==
  ASSUME NEW b \in [0 .. Capacity - 1 -> Byte], msg \in Messages,
         NEW placed \in 0 .. SizeField - 1, NEW from \in Nat, NEW n \in Nat,
         NEW at \in Places(msg, placed, from, n)
  PROVE  [i \in DOMAIN b |-> IF i \in DOMAIN at THEN <<msg, at[i]>> ELSE b[i]]
           \in [0 .. Capacity - 1 -> Byte]
<1>1. at \in [placed .. SizeField - 1 -> from .. from + n - 1]
  BY PlacesAre
<1>2. msg \in 0 .. N /\ \A i \in DOMAIN at : at[i] \in Int
  BY <1>1, Sizes DEF Messages
<1>3. \A i \in DOMAIN at : <<msg, at[i]>> \in Byte
  BY <1>2 DEF Byte
<1> QED BY <1>3

\* What is stored leaves the put area one.
LEMMA StoreTypes ==
  ASSUME NEW b \in [0 .. Capacity - 1 -> Byte], msg \in Messages, pos \in Nat, bad \in BOOLEAN,
         NEW p \in Nat, NEW e \in Nat, p <= e, e <= Capacity, NEW n \in Nat, NEW taken \in Nat,
         Store(b, p, e, n, taken)
  PROVE  /\ out' \in [0 .. Capacity - 1 -> Byte] /\ bad' \in BOOLEAN /\ (bad => bad')
         /\ pptr' \in 0 .. Capacity /\ epptr' \in 0 .. Capacity /\ pptr' <= epptr'
<1>1. /\ epptr' = e
      /\ \/ /\ n <= e - p /\ pptr' = p + n /\ bad' = bad
            /\ out' = Put(b, p + taken, pos + taken, n - taken)
         \/ out' = b /\ pptr' = p /\ bad' = TRUE
  BY DEF Store, CopyIn
<1>2. Put(b, p + taken, pos + taken, n - taken) \in [0 .. Capacity - 1 -> Byte]
  <2>1. p + taken \in Int /\ pos + taken \in Int /\ n - taken \in Int
    OBVIOUS
  <2> QED BY <2>1, PutIs
<1>3. pptr' \in Nat /\ pptr' <= e
  BY <1>1
<1>4. pptr' \in 0 .. Capacity /\ epptr' \in 0 .. Capacity /\ pptr' <= epptr'
  <2>1. Capacity \in Nat
    BY Sizes
  <2>2. epptr' = e
    BY <1>1
  <2> QED BY <1>3, <2>1, <2>2
<1>5. out' \in [0 .. Capacity - 1 -> Byte] /\ bad' \in BOOLEAN /\ (bad => bad')
  BY <1>1, <1>2
<1> QED BY <1>4, <1>5

LEMMA XsputnTypes ==
  ASSUME IInv, ~bad, msg \in Messages, NEW n \in Nat, Xsputn(n)
  PROVE  IInv'
<1>1. /\ TypeOK /\ pptr \in Nat /\ epptr \in Nat /\ pptr <= epptr /\ epptr <= Capacity
      /\ outMessagePlaced \in 0 .. SizeField /\ pos \in Nat /\ outMessageSize \in Nat
      /\ out \in [0 .. Capacity - 1 -> Byte] /\ bad \in BOOLEAN /\ overread \in BOOLEAN
  BY Sizes DEF IInv, TypeOK, Pointers, Byte
<1>2. pos' = pos + n /\ UNCHANGED <<compression, msg, result, wire, torn, wrapped>>
  BY DEF Xsputn
<1> DEFINE Typed ==
             /\ out' \in [0 .. Capacity - 1 -> Byte] /\ bad' \in BOOLEAN
             /\ outMessageSize' \in Nat /\ outMessagePlaced' \in 0 .. SizeField
             /\ pptr' \in 0 .. Capacity /\ epptr' \in 0 .. Capacity /\ pptr' <= epptr'
             /\ ~bad' => outMessageSize' # 0 \/ outMessagePlaced' < SizeField
             /\ overread' \in BOOLEAN
<1>3. Typed
  <2>1. CASE ToPlace = 0 /\ Store(out, pptr, epptr, n, 0)
             /\ UNCHANGED <<outMessageSize, outMessagePlaced, overread>>
    <3>1. /\ out' \in [0 .. Capacity - 1 -> Byte] /\ bad' \in BOOLEAN /\ (bad => bad')
          /\ pptr' \in 0 .. Capacity /\ epptr' \in 0 .. Capacity /\ pptr' <= epptr'
      <4>1. 0 \in Nat
        OBVIOUS
      <4> QED BY <1>1, <2>1, <4>1, StoreTypes
    <3> QED BY <1>1, <2>1, <3>1 DEF IInv, Pointers
  <2>2. ASSUME ToPlace > 0, UNCHANGED overread, NEW at \in Places(msg, outMessagePlaced, pos, n),
               LET placed == [i \in DOMAIN out |-> IF i \in DOMAIN at THEN <<msg, at[i]>> ELSE out[i]]
                   size   == SizeIn(placed)
               IN  /\ Sized(size)
                   /\ \/ /\ size \in Smallest .. Capacity
                         /\ Store(placed, 0, size, n, at[SizeField - 1] - pos + 1)
                      \/ /\ size \notin Smallest .. Capacity
                         /\ out' = placed /\ bad' = TRUE /\ UNCHANGED <<pptr, epptr>>
        PROVE  Typed
    <3> DEFINE placed == [i \in DOMAIN out |-> IF i \in DOMAIN at THEN <<msg, at[i]>> ELSE out[i]]
               size   == SizeIn(placed)
               taken  == at[SizeField - 1] - pos + 1
    <3>1. outMessagePlaced \in 0 .. SizeField - 1
      <4>1. outMessagePlaced # SizeField
        BY <1>1, <2>2, Sizes DEF ToPlace
      <4> QED BY <1>1, <4>1, Sizes
    <3>2. placed \in [0 .. Capacity - 1 -> Byte]
      BY <1>1, <3>1, PlacedIs
    <3>3. size \in Nat
      BY SizeInNat
    <3>4. taken \in Nat
      <4>1. at[SizeField - 1] \in pos .. pos + n - 1
        BY <1>1, <3>1, PlacesAre
      <4> QED BY <1>1, <4>1
    <3> HIDE DEF placed, size, taken
    <3>5. outMessageSize' = size /\ outMessagePlaced' = SizeField /\ SizeField \in 0 .. SizeField
      BY <2>2, Sizes DEF Sized, size, placed
    <3>6. CASE size \in Smallest .. Capacity /\ Store(placed, 0, size, n, taken)
      <4>1. 0 \in Nat /\ 0 <= size /\ size <= Capacity /\ size # 0
        BY <3>3, <3>6, Sizes
      <4> QED BY <1>1, <2>2, <3>2, <3>3, <3>4, <3>5, <3>6, <4>1, StoreTypes
    <3>7. CASE out' = placed /\ bad' = TRUE /\ UNCHANGED <<pptr, epptr>>
      <4>1. pptr \in 0 .. Capacity /\ epptr \in 0 .. Capacity
        BY DEF IInv, TypeOK
      <4> QED BY <1>1, <2>2, <3>2, <3>3, <3>5, <3>7, <4>1
    <3> QED BY <2>2, <3>6, <3>7 DEF placed, size, taken
  <2>3. CASE overread' = TRUE /\ bad' = TRUE /\ UNCHANGED buffer
    <3>1. pptr \in 0 .. Capacity /\ epptr \in 0 .. Capacity
      BY DEF IInv, TypeOK
    <3> QED BY <1>1, <2>3, <3>1 DEF buffer
  <2> QED BY <2>1, <2>2, <2>3 DEF Xsputn
<1>4. TypeOK'
  <2>1. pos' \in Nat
    BY <1>1, <1>2
  <2> QED BY <1>1, <1>2, <1>3, <2>1 DEF TypeOK, Byte
<1>5. Pointers'
  BY <1>3 DEF Pointers
<1>6. Progress'
  BY <1>2 DEF IInv, Progress, FailureIsFinal
<1> QED BY <1>4, <1>5, <1>6 DEF IInv

LEMMA SputcTypes ==
  ASSUME IInv, ~bad, msg \in Messages, Sputc
  PROVE  IInv'
<1>1. /\ TypeOK /\ pptr \in Nat /\ epptr \in Nat /\ pptr <= epptr /\ epptr <= Capacity
      /\ outMessagePlaced \in 0 .. SizeField /\ pos \in Nat /\ outMessageSize \in Nat
      /\ out \in [0 .. Capacity - 1 -> Byte] /\ bad \in BOOLEAN
  BY Sizes DEF IInv, TypeOK, Pointers, Byte
<1>2. pos' = pos + 1 /\ UNCHANGED <<compression, msg, result, wire, torn, undefined>>
  BY DEF Sputc
<1>3. /\ out' \in [0 .. Capacity - 1 -> Byte] /\ outMessageSize' \in Nat
      /\ outMessagePlaced' \in 0 .. SizeField /\ pptr' \in 0 .. Capacity
      /\ epptr' \in 0 .. Capacity /\ bad' \in BOOLEAN /\ pptr' <= epptr'
      /\ ~bad' => outMessageSize' # 0 \/ outMessagePlaced' < SizeField
  <2>1. CASE pptr # epptr
    <3>1. /\ out' = Put(out, pptr, pos, 1) /\ pptr' = pptr + 1
          /\ UNCHANGED <<outMessageSize, outMessagePlaced, epptr, bad>>
      BY <2>1 DEF Sputc
    <3>2. out' \in [0 .. Capacity - 1 -> Byte]
      <4>1. pptr \in Int /\ pos \in Int /\ 1 \in Int
        BY <1>1
      <4> QED BY <1>1, <3>1, <4>1, PutIs
    <3>3. pptr' \in 0 .. Capacity /\ pptr' <= epptr' /\ epptr' \in 0 .. Capacity
      BY <1>1, <2>1, <3>1, Sizes
    <3> QED BY <1>1, <3>1, <3>2, <3>3 DEF IInv, Pointers
  <2>2. CASE pptr = epptr /\ outMessageSize # 0
    <3>1. bad' = TRUE /\ UNCHANGED buffer
      BY <2>2 DEF Sputc
    <3> QED BY <1>1, <3>1, Sizes DEF buffer
  <2>3. CASE pptr = epptr /\ outMessageSize = 0
    <3>1. /\ out' = Put(out, outMessagePlaced, pos, 1)
          /\ \/ /\ outMessagePlaced + 1 < SizeField
                /\ outMessagePlaced' = outMessagePlaced + 1
                /\ UNCHANGED <<outMessageSize, pptr, epptr, bad>>
             \/ /\ Sized(SizeIn(out'))
                /\ \/ /\ SizeIn(out') \in Smallest .. Capacity
                      /\ pptr' = 0 /\ epptr' = SizeIn(out') /\ UNCHANGED bad
                   \/ bad' = TRUE /\ UNCHANGED <<pptr, epptr>>
      BY <2>3 DEF Sputc
    <3>2. out' \in [0 .. Capacity - 1 -> Byte]
      <4>1. outMessagePlaced \in Int /\ pos \in Int /\ 1 \in Int
        BY <1>1
      <4> QED BY <1>1, <3>1, <4>1, PutIs
    <3>3. SizeIn(out') \in Nat
      BY SizeInNat
    <3>4. pptr \in 0 .. Capacity /\ epptr \in 0 .. Capacity /\ SizeField \in 0 .. SizeField
      BY Sizes DEF IInv, TypeOK
    <3>5. CASE outMessagePlaced + 1 < SizeField /\ outMessagePlaced' = outMessagePlaced + 1
               /\ UNCHANGED <<outMessageSize, pptr, epptr, bad>>
      BY <1>1, <3>2, <3>4, <3>5
    <3>6. CASE Sized(SizeIn(out')) /\ SizeIn(out') \in Smallest .. Capacity
               /\ pptr' = 0 /\ epptr' = SizeIn(out') /\ UNCHANGED bad
      <4>1. \A z \in Smallest .. Capacity : z \in 0 .. Capacity /\ z # 0 /\ 0 \in 0 .. Capacity /\ 0 <= z
        BY Sizes
      <4> QED BY <1>1, <3>2, <3>3, <3>4, <3>6, <4>1 DEF Sized
    <3>7. CASE Sized(SizeIn(out')) /\ bad' = TRUE /\ UNCHANGED <<pptr, epptr>>
      BY <1>1, <3>2, <3>3, <3>4, <3>7 DEF Sized
    <3> QED BY <3>1, <3>5, <3>6, <3>7
  <2> QED BY <2>1, <2>2, <2>3
<1>4. TypeOK'
  <2>1. pos' \in Nat
    BY <1>1, <1>2
  <2> QED BY <1>1, <1>2, <1>3, <2>1 DEF TypeOK, Byte, undefined
<1>5. Pointers'
  BY <1>3 DEF Pointers
<1>6. Progress'
  BY <1>2 DEF IInv, Progress, FailureIsFinal
<1> QED BY <1>4, <1>5, <1>6 DEF IInv

-----------------------------------------------------------------------------
(* Sending. *)

\* What sync() sends is as long as what was written.
LEMMA SealedIs ==
  ASSUME TypeOK, NEW flag \in BOOLEAN
  PROVE  Sealed(flag) \in Seq(Byte) /\ Len(Sealed(flag)) = pptr
<1> DEFINE sum == IF \E m \in Messages : Intact(out, m, 0, pptr - ChecksumSize - 1)
                    THEN Sum(CHOOSE m \in Messages : Intact(out, m, 0, pptr - ChecksumSize - 1))
                    ELSE BadSum
<1>1. sum \in Byte
  <2>1. CASE \E m \in Messages : Intact(out, m, 0, pptr - ChecksumSize - 1)
    <3>1. PICK m \in Messages :
            m = CHOOSE x \in Messages : Intact(out, x, 0, pptr - ChecksumSize - 1)
      BY <2>1
    <3>2. m \in 0 .. N /\ -1 \in Int
      BY Sizes DEF Messages
    <3>3. sum = Sum(m)
      BY <2>1, <3>1
    <3> QED BY <3>2, <3>3 DEF Sum, Byte
  <2>2. CASE ~\E m \in Messages : Intact(out, m, 0, pptr - ChecksumSize - 1)
    <3>1. 0 \in 0 .. N /\ -1 \in Int
      BY Sizes
    <3>2. sum = BadSum
      BY <2>2
    <3> QED BY <3>1, <3>2 DEF BadSum, Byte
  <2> QED BY <2>1, <2>2
<1> HIDE DEF sum
<1>2. Sealed(flag) = [i \in 1 .. pptr |-> IF flag /\ i > pptr - ChecksumSize THEN sum ELSE out[i - 1]]
  BY DEF Sealed, sum
<1>3. pptr \in Nat /\ pptr <= Capacity /\ out \in [0 .. Capacity - 1 -> Byte]
  BY Sizes DEF TypeOK, Byte
<1>4. \A i \in 1 .. pptr : out[i - 1] \in Byte
  BY <1>3, Sizes
<1>5. Sealed(flag) \in [1 .. pptr -> Byte]
  BY <1>1, <1>2, <1>4
<1>6. Sealed(flag) \in Seq(Byte)
  BY <1>3, <1>5, SeqDef
<1>7. DOMAIN Sealed(flag) = 1 .. Len(Sealed(flag)) /\ DOMAIN Sealed(flag) = 1 .. pptr
      /\ Len(Sealed(flag)) \in Nat
  BY <1>5, <1>6, LenProperties
<1>8. ASSUME NEW a \in Nat, NEW b \in Nat, 1 .. a = 1 .. b, a < b
      PROVE  FALSE
  <2>1. b \in 1 .. b /\ b \notin 1 .. a
    BY <1>8
  <2> QED BY <1>8, <2>1
<1>9. ~(Len(Sealed(flag)) < pptr) /\ ~(pptr < Len(Sealed(flag)))
  BY <1>3, <1>7, <1>8
<1>10. \A x, y \in Nat : ~(x < y) /\ ~(y < x) => x = y
  OBVIOUS
<1>11. Len(Sealed(flag)) = pptr
  BY <1>3, <1>7, <1>9, <1>10
<1> QED BY <1>6, <1>11

LEMMA TransmitTypes ==
  ASSUME TypeOK, msg \in Messages, NEW s \in Seq(Byte), Transmit(s)
  PROVE  wire' \in Seq(Entry) /\ torn' \in 0 .. N
<1>1. wire \in Seq(Entry) /\ torn \in 0 .. N /\ msg \in 0 .. N
  BY Sizes DEF TypeOK, Byte, Entry, Messages
<1>2. (compression = "Snappy") \in BOOLEAN
  OBVIOUS
<1>3. \A b \in Seq(Byte) : Append(wire, [bytes |-> b, compressed |-> compression = "Snappy"]) \in Seq(Entry)
  BY <1>1, <1>2, AppendProperties DEF Entry
<1>4. \A k \in 0 .. Len(s) - 1 : SubSeq(s, 1, k) \in Seq(Byte)
  <2> SUFFICES ASSUME NEW k \in 0 .. Len(s) - 1 PROVE SubSeq(s, 1, k) \in Seq(Byte)
    OBVIOUS
  <2>1. Len(s) \in Nat /\ \A i \in 1 .. Len(s) : s[i] \in Byte
    BY LenProperties, ElementOfSeq
  <2>2. k \in Nat /\ 1 .. k \subseteq 1 .. Len(s)
    BY <2>1
  <2>3. SubSeq(s, 1, k) = [i \in 1 .. k |-> s[i]]
    BY <2>1, <2>2 DEF SubSeq
  <2>4. SubSeq(s, 1, k) \in [1 .. k -> Byte]
    BY <2>1, <2>2, <2>3
  <2> QED BY <2>2, <2>4, SeqDef
<1> QED BY <1>1, <1>3, <1>4 DEF Transmit

LEMMA SyncTypes ==
  ASSUME IInv, msg \in Messages, Sync, UNCHANGED compression
  PROVE  /\ bad' \in BOOLEAN /\ (bad => bad') /\ wrapped' \in BOOLEAN /\ overread' = overread
         /\ wire' \in Seq(Entry) /\ torn' \in 0 .. N
         /\ pptr' \in 0 .. Capacity /\ epptr' \in 0 .. Capacity /\ pptr' <= epptr'
         /\ outMessageSize' \in Nat /\ outMessagePlaced' \in 0 .. SizeField
         /\ ~bad' => outMessagePlaced' < SizeField
         /\ out' = out
<1>1. CASE pptr # epptr
  <2>1. bad' = TRUE /\ UNCHANGED <<buffer, wire, torn, undefined>>
    BY <1>1 DEF Sync
  <2> QED BY <2>1, Sizes DEF IInv, TypeOK, Pointers, buffer, undefined, Entry, Byte
<1>2. CASE pptr = epptr
  <2>1. /\ outMessageSize' = 0 /\ outMessagePlaced' = 0 /\ pptr' = 0 /\ epptr' = 0
        /\ UNCHANGED <<out, bad, overread>>
    BY <1>2 DEF Sync
  <2>2. PICK flag \in FlagsIn(out) :
          /\ wrapped' = (\/ wrapped
                         \/ flag /\ outMessageSize < ChecksumSize
                         \/ compression = "Snappy" /\ pptr < HeaderSize)
          /\ Transmit(Sealed(flag))
    BY <1>2 DEF Sync
  <2>3. flag \in BOOLEAN
    BY MessageSizes DEF FlagsIn
  <2>4. wire' \in Seq(Entry) /\ torn' \in 0 .. N
    <3>1. TypeOK /\ Sealed(flag) \in Seq(Byte)
      BY <2>3, SealedIs DEF IInv
    <3> QED BY <2>2, <3>1, TransmitTypes
  <2>5. wrapped' \in BOOLEAN
    <3>1. wrapped \in BOOLEAN
      BY DEF IInv, TypeOK
    <3>2. (outMessageSize < ChecksumSize) \in BOOLEAN /\ (pptr < HeaderSize) \in BOOLEAN
      OBVIOUS
    <3> QED BY <2>2, <2>3, <3>1, <3>2
  <2>6. /\ 0 \in 0 .. Capacity /\ 0 \in Nat /\ 0 \in 0 .. SizeField /\ 0 <= 0 /\ 0 < SizeField
    BY Sizes
  <2>7. bad \in BOOLEAN
    BY DEF IInv, TypeOK
  <2> QED BY <2>1, <2>4, <2>5, <2>6, <2>7
<1> QED BY <1>1, <1>2

LEMMA FlushTypes ==
  ASSUME IInv, Flush
  PROVE  IInv'
<1>1. /\ msg \in Messages /\ msg' = msg + 1 /\ pos' = 0 /\ UNCHANGED compression
      /\ result' = [result EXCEPT ![msg] = IF bad' THEN "failed" ELSE "sent"]
      /\ IF bad /\ FlushChecks THEN UNCHANGED <<buffer, bad, wire, torn, undefined>> ELSE Sync
  BY DEF Flush
<1>2. TypeOK /\ Pointers /\ Progress
  BY DEF IInv
<1>3. /\ bad' \in BOOLEAN /\ (bad => bad') /\ wrapped' \in BOOLEAN /\ overread' = overread
      /\ wire' \in Seq(Entry) /\ torn' \in 0 .. N
      /\ pptr' \in 0 .. Capacity /\ epptr' \in 0 .. Capacity /\ pptr' <= epptr'
      /\ outMessageSize' \in Nat /\ outMessagePlaced' \in 0 .. SizeField
      /\ ~bad' => outMessageSize' # 0 \/ outMessagePlaced' < SizeField
      /\ out' = out
  <2>1. CASE bad /\ FlushChecks
    <3>1. UNCHANGED <<buffer, bad, wire, torn, undefined>>
      BY <1>1, <2>1
    <3> QED BY <1>2, <3>1, Sizes, <2>1 DEF TypeOK, Pointers, buffer, undefined, Entry, Byte
  <2>2. CASE ~(bad /\ FlushChecks)
    <3>1. Sync
      BY <1>1, <2>2
    <3> QED BY <1>1, <3>1, SyncTypes
  <2> QED BY <2>1, <2>2
<1>4. msg \in Nat /\ msg >= 1 /\ msg <= N /\ msg' \in 1 .. N + 1
  BY <1>1, Sizes DEF Messages
<1>5. result' \in [Messages -> {"none", "sent", "failed"}]
  BY <1>1, <1>2 DEF TypeOK
<1>6. \A m \in Messages : result'[m] = IF m = msg THEN IF bad' THEN "failed" ELSE "sent" ELSE result[m]
  BY <1>1, <1>2 DEF TypeOK
<1>7. TypeOK'
  BY <1>1, <1>2, <1>3, <1>4, <1>5 DEF TypeOK, Entry, Byte
<1>8. Pointers'
  BY <1>3 DEF Pointers
<1>9. Progress'
  <2>1. \A m \in Messages : m \in Nat
    BY Sizes DEF Messages
  <2>2. \A m \in Messages : m >= msg' => result'[m] = "none"
    <3>1. \A m \in Messages : m >= msg + 1 => m >= msg /\ m # msg
      BY <1>4, <2>1
    <3> QED BY <1>1, <1>2, <1>6, <3>1 DEF Progress
  <2>3. \A m \in Messages : result'[m] = "failed" => bad'
    BY <1>2, <1>3, <1>6 DEF Progress
  <2>4. ASSUME NEW m \in Messages, NEW k \in Messages, m < k, result'[m] = "failed"
        PROVE  result'[k] # "sent"
    <3>1. CASE m = msg
      <4>1. k # msg /\ k >= msg
        BY <1>4, <2>1, <2>4, <3>1
      <4> QED BY <1>2, <1>6, <4>1 DEF Progress
    <3>2. CASE m # msg
      <4>1. result[m] = "failed" /\ bad'
        BY <1>6, <2>3, <2>4, <3>2
      <4> QED BY <1>2, <1>6, <2>4, <4>1 DEF Progress, FailureIsFinal
    <3> QED BY <3>1, <3>2
  <2> QED BY <2>2, <2>3, <2>4 DEF Progress, FailureIsFinal
<1> QED BY <1>7, <1>8, <1>9 DEF IInv

LEMMA InitTypes == Init => IInv
<1> SUFFICES ASSUME Init PROVE IInv
  OBVIOUS
<1>1. Garbage \in Byte /\ 0 \in 0 .. Capacity /\ 0 \in 0 .. SizeField /\ 0 \in 0 .. N /\ 0 \in Nat
  BY Sizes DEF Garbage, Byte
<1>2. out \in [0 .. Capacity - 1 -> Byte]
  BY <1>1 DEF Init
<1>3. msg \in 1 .. N + 1
  BY Sizes DEF Init, Messages
<1>4. wire \in Seq(Entry)
  BY DEF Init
<1>5. TypeOK
  BY <1>1, <1>2, <1>3, <1>4 DEF Init, TypeOK, Byte, Entry
<1>6. Pointers
  BY Sizes DEF Init, Pointers
<1>7. Progress
  BY DEF Init, Progress, FailureIsFinal, Messages
<1> QED BY <1>5, <1>6, <1>7 DEF IInv

LEMMA NextTypes ==
  ASSUME IInv, [Next]_vars
  PROVE  IInv'
<1>1. CASE Write
  <2>1. msg \in Messages /\ ~bad
    BY <1>1 DEF Write
  <2>2. CASE \E n \in Nat : Xsputn(n)
    BY <2>1, <2>2, XsputnTypes
  <2>3. CASE Sputc
    BY <2>1, <2>3, SputcTypes
  <2>4. (\E n \in Nat : Xsputn(n)) \/ Sputc
    <3>1. BlockSize \in Nat
      BY Sizes
    <3>2. \A a, b \in Nat : 1 .. a - b \subseteq Nat
      OBVIOUS
    <3>3. pos \in Nat /\ Written[msg] \subseteq Nat
      BY <2>1, MessageSizes DEF IInv, TypeOK
    <3> QED BY <1>1, <3>1, <3>2, <3>3 DEF Write
  <2> QED BY <2>2, <2>3, <2>4
<1>2. CASE Flush
  BY <1>2, FlushTypes
<1>3. CASE SetCompression
  BY <1>3 DEF SetCompression, IInv, TypeOK, Pointers, Progress, FailureIsFinal, buffer, undefined
<1>4. CASE ReadFails
  BY <1>4 DEF ReadFails, IInv, TypeOK, Pointers, Progress, FailureIsFinal, buffer, undefined
<1>5. CASE UNCHANGED vars
  BY <1>5 DEF vars, IInv, TypeOK, Pointers, Progress, FailureIsFinal, buffer, undefined
<1> QED BY <1>1, <1>2, <1>3, <1>4, <1>5 DEF Next, Done

-----------------------------------------------------------------------------
(* What the buffer holds. *)

LEMMA XsputnReads ==
  ASSUME IInv, Filled, ~overread, ~bad, msg \in Messages, NEW n \in Nat,
         pos = 0 => n = BlockSize, Xsputn(n)
  PROVE  ~overread'
<1>1. ~(ToPlace > 0 /\ Places(msg, outMessagePlaced, pos, n) = {})
  <2>1. CASE Empty
    <3>1. n = BlockSize /\ pos = 0 /\ outMessagePlaced = 0
      BY <2>1 DEF Empty
    <3> QED BY <3>1, MessageSizes
  <2>2. CASE Holding \/ Misheld
    <3>1. outMessageSize # 0
      BY <2>2, Sizes, MessageSizes DEF Holding, Misheld
    <3> QED BY <3>1 DEF ToPlace
  <2> QED BY <2>1, <2>2 DEF Filled
<1> QED BY <1>1 DEF Xsputn

\* The size that is read of a block is the message's, if none of its bytes looks
\* like eof(), and else one that is not written up to.
LEMMA SizeRead ==
  ASSUME NotMisread, NEW b \in [0 .. Capacity - 1 -> Byte], msg \in Messages,
         NEW at \in Places(msg, 0, 0, BlockSize)
  PROVE  LET placed == [i \in DOMAIN b |-> IF i \in DOMAIN at THEN <<msg, at[i]>> ELSE b[i]]
         IN  IF HasEof(msg) THEN SizeIn(placed) \notin Written[msg]
             ELSE /\ SizeIn(placed) = Size[msg] /\ at[SizeField - 1] = SizeField - 1
                  /\ \A i \in 0 .. Capacity - 1 :
                       placed[i] = IF i < SizeField THEN <<msg, i>> ELSE b[i]
<1> DEFINE placed == [i \in DOMAIN b |-> IF i \in DOMAIN at THEN <<msg, at[i]>> ELSE b[i]]
           read   == [i \in 0 .. SizeField - 1 |-> Header[msg][at[i]]]
<1>1. at \in [0 .. SizeField - 1 -> 0 .. BlockSize - 1]
  <2>1. at \in [0 .. SizeField - 1 -> 0 .. 0 + BlockSize - 1]
    BY DEF Places
  <2>2. 0 + BlockSize - 1 = BlockSize - 1
    BY Sizes
  <2> QED BY <2>1, <2>2
<1>2. \A i \in 0 .. SizeField - 1 : placed[i] = <<msg, at[i]>>
  <2>1. \A i \in 0 .. SizeField - 1 : i \in 0 .. Capacity - 1
    BY Sizes
  <2> QED BY <1>1, <2>1
<1>3. \A i \in 0 .. SizeField - 1 : Value(placed[i]) = Header[msg][at[i]]
  <2> HIDE DEF placed
  <2> QED BY <1>1, <1>2 DEF Value
<1>4. SizeIn(placed) = Number(read)
  <2> HIDE DEF placed
  <2>1. [i \in 0 .. SizeField - 1 |-> Value(placed[i])] = read
    BY <1>3
  <2> QED BY <2>1 DEF SizeIn
<1>5. CASE HasEof(msg)
  <2> HIDE DEF placed
  <2>1. SizeIn(placed) \notin Written[msg]
    BY <1>4, <1>5 DEF NotMisread
  <2> QED BY <1>5, <2>1 DEF placed
<1>6. CASE ~HasEof(msg)
  <2>1. \A i \in 0 .. SizeField - 1 : at[i] = i
    BY <1>6, PlacedInOrder
  <2>2. Number(read) = Number(Header[msg])
    <3>1. \A i \in 0 .. SizeField - 1 : read[i] = Header[msg][i]
      BY <2>1
    <3> HIDE DEF read
    <3> QED BY <3>1, NumberSame
  <2>3. SizeIn(placed) = Size[msg]
    BY <1>4, <2>2, MessageSizes
  <2>4. at[SizeField - 1] = SizeField - 1
    <3>1. SizeField - 1 \in 0 .. SizeField - 1
      BY Sizes
    <3> QED BY <2>1, <3>1
  <2>5. \A i \in 0 .. Capacity - 1 : placed[i] = IF i < SizeField THEN <<msg, i>> ELSE b[i]
    <3>1. \A i \in 0 .. Capacity - 1 : i < SizeField <=> i \in 0 .. SizeField - 1
      BY Sizes
    <3>2. DOMAIN at = 0 .. SizeField - 1
      BY <1>1
    <3> QED BY <2>1, <3>1, <3>2
  <2> HIDE DEF placed
  <2> QED BY <1>6, <2>3, <2>4, <2>5 DEF placed
<1> QED BY <1>5, <1>6

LEMMA XsputnFilled ==
  ASSUME NotMisread, IInv, Filled, ~bad, msg \in Messages, NEW n \in Nat,
         pos = 0 => n = BlockSize, Xsputn(n)
  PROVE  Filled'
<1>1. /\ TypeOK /\ out \in [0 .. Capacity - 1 -> Byte] /\ pos \in Nat
      /\ pos' = pos + n /\ msg' = msg
  BY DEF IInv, TypeOK, Byte, Xsputn
<1>2. Size[msg] \in Nat
  BY MessageSizes
<1>3. CASE Empty
  <2>1. /\ pos = 0 /\ outMessageSize = 0 /\ outMessagePlaced = 0 /\ pptr = 0 /\ epptr = 0
        /\ n = BlockSize /\ ToPlace = SizeField
    BY <1>3, Sizes DEF Empty, ToPlace
  <2>2. ASSUME NEW at \in Places(msg, 0, 0, BlockSize),
               LET placed == [i \in DOMAIN out |-> IF i \in DOMAIN at THEN <<msg, at[i]>> ELSE out[i]]
                   size   == SizeIn(placed)
               IN  /\ Sized(size) /\ size \in Smallest .. Capacity
                   /\ Store(placed, 0, size, BlockSize, at[SizeField - 1] - 0 + 1)
        PROVE  Filled'
    <3> DEFINE placed == [i \in DOMAIN out |-> IF i \in DOMAIN at THEN <<msg, at[i]>> ELSE out[i]]
               size   == SizeIn(placed)
    <3>1. placed \in [0 .. Capacity - 1 -> Byte]
      <4>1. 0 \in 0 .. SizeField - 1 /\ 0 \in Nat /\ BlockSize \in Nat
        BY Sizes
      <4> QED BY <1>1, <4>1, PlacedIs
    <3>2. IF HasEof(msg) THEN size \notin Written[msg]
          ELSE /\ size = Size[msg] /\ at[SizeField - 1] = SizeField - 1
               /\ \A i \in 0 .. Capacity - 1 :
                    placed[i] = IF i < SizeField THEN <<msg, i>> ELSE out[i]
      BY <1>1, SizeRead
    <3>3. /\ outMessageSize' = size /\ outMessagePlaced' = SizeField /\ epptr' = size
          /\ size \in Smallest .. Capacity
          /\ \/ /\ BlockSize <= size - 0 /\ bad' = bad
                /\ CopyIn(placed, 0, BlockSize, at[SizeField - 1] - 0 + 1)
             \/ bad' = TRUE
      <4> HIDE DEF placed
      <4> QED BY <2>2, Zenon DEF Sized, Store, placed
    <3> HIDE DEF placed, size
    <3>4. CASE bad' = TRUE
      BY <3>4 DEF Filled
    <3>5. CASE HasEof(msg) /\ CopyIn(placed, 0, BlockSize, at[SizeField - 1] - 0 + 1)
      <4>1. pptr' = BlockSize /\ pos' = BlockSize
        BY <1>1, <2>1, <3>5, Sizes DEF CopyIn
      <4>2. size # 0 /\ BlockSize >= BlockSize
        BY <3>3, Sizes
      <4>3. Misheld'
        BY <1>1, <3>2, <3>3, <3>5, <4>1, <4>2 DEF Misheld
      <4> QED BY <4>3 DEF Filled
    <3>6. CASE ~HasEof(msg) /\ bad' = bad /\ BlockSize <= size - 0
               /\ CopyIn(placed, 0, BlockSize, at[SizeField - 1] - 0 + 1)
      <4>1. at[SizeField - 1] - 0 + 1 = SizeField
        BY <3>2, <3>6, Sizes
      <4>2. /\ out' = Put(placed, 0 + SizeField, pos + SizeField, BlockSize - SizeField)
            /\ pptr' = 0 + BlockSize
        BY <3>6, <4>1 DEF CopyIn
      <4>3. \A i \in 0 .. Capacity - 1 :
              out'[i] = IF 0 + SizeField <= i /\ i < 0 + SizeField + (BlockSize - SizeField)
                          THEN <<msg, pos + SizeField + (i - (0 + SizeField))>> ELSE placed[i]
        <5>1. 0 + SizeField \in Int /\ pos + SizeField \in Int /\ BlockSize - SizeField \in Int
          BY <2>1, Sizes
        <5> QED BY ZenonT(40), <3>1, <4>2, <5>1, PutIs
      <4>4. \A i \in 0 .. BlockSize - 1 : out'[i] = <<msg, i>>
        <5> TAKE i \in 0 .. BlockSize - 1
        <5>1. i \in 0 .. Capacity - 1 /\ i \in Int
          BY <3>3, <3>6, Sizes
        <5>2. CASE i < SizeField
          <6>1. ~(0 + SizeField <= i)
            BY <5>1, <5>2, Sizes
          <6> QED BY <3>2, <3>6, <4>3, <5>1, <5>2, <6>1
        <5>3. CASE ~(i < SizeField)
          <6>1. 0 + SizeField <= i /\ i < 0 + SizeField + (BlockSize - SizeField)
                /\ pos + SizeField + (i - (0 + SizeField)) = i
            BY <2>1, <5>1, <5>3, Sizes
          <6> QED BY <4>3, <5>1, <6>1
        <5> QED BY <5>2, <5>3
      <4>5. pos' = BlockSize /\ pptr' = BlockSize
        BY <1>1, <2>1, <4>2, Sizes
      <4>6. Intact(out', msg, 0, pos' - 1)
        BY <4>4, <4>5 DEF Intact
      <4>7. Holding'
        <5>1. BlockSize >= BlockSize /\ BlockSize <= Size[msg] /\ Size[msg] >= Smallest
          BY <1>2, <3>2, <3>3, <3>6, Sizes
        <5> QED BY <1>1, <3>2, <3>3, <3>6, <4>5, <4>6, <5>1 DEF Holding
      <4> QED BY <4>7 DEF Filled
    <3> QED BY <3>3, <3>4, <3>5, <3>6
  <2>3. CASE bad' = TRUE
    BY <2>3 DEF Filled
  <2>4. ToPlace # 0
    BY <2>1, Sizes
  <2>5. \/ \E at \in Places(msg, 0, 0, BlockSize) :
             LET placed == [i \in DOMAIN out |-> IF i \in DOMAIN at THEN <<msg, at[i]>> ELSE out[i]]
                 size   == SizeIn(placed)
             IN  /\ Sized(size)
                 /\ \/ /\ size \in Smallest .. Capacity
                       /\ Store(placed, 0, size, BlockSize, at[SizeField - 1] - 0 + 1)
                    \/ bad' = TRUE
        \/ bad' = TRUE
    BY <2>1, <2>4, Zenon DEF Xsputn
  <2> QED BY <2>2, <2>3, <2>5
<1>4. CASE Holding \/ Misheld
  <2>1. outMessageSize # 0 /\ outMessagePlaced = SizeField
    BY <1>4, <1>2, Sizes DEF Holding, Misheld
  <2>2. ToPlace = 0 /\ ~(ToPlace > 0)
    BY <2>1 DEF ToPlace
  <2>3. /\ UNCHANGED <<outMessageSize, outMessagePlaced>> /\ epptr' = epptr
        /\ \/ n <= epptr - pptr /\ CopyIn(out, pptr, n, 0) /\ UNCHANGED bad
           \/ bad' = TRUE
    BY <2>2, Zenon DEF Xsputn, Store
  <2>4. CASE bad' = TRUE
    BY <2>4 DEF Filled
  <2>5. CASE Holding /\ n <= epptr - pptr /\ CopyIn(out, pptr, n, 0)
    <3>1. /\ pos >= BlockSize /\ pos <= Size[msg] /\ Size[msg] >= Smallest
          /\ outMessageSize = Size[msg] /\ pptr = pos /\ epptr = Size[msg]
          /\ Intact(out, msg, 0, pos - 1) /\ Size[msg] <= Capacity
      BY <1>1, <2>5, Sizes DEF Holding, TypeOK
    <3>2. out' = Put(out, pos + 0, pos + 0, n - 0) /\ pptr' = pos + n
      BY <2>5, <3>1 DEF CopyIn
    <3>3. \A i \in 0 .. Capacity - 1 :
            out'[i] = IF pos + 0 <= i /\ i < pos + 0 + (n - 0)
                        THEN <<msg, pos + 0 + (i - (pos + 0))>> ELSE out[i]
      <4>1. pos + 0 \in Int /\ n - 0 \in Int
        BY <1>1
      <4> QED BY ZenonT(40), <1>1, <3>2, <4>1, PutIs
    <3>4. pos + n <= Size[msg]
      BY <1>1, <1>2, <2>5, <3>1
    <3>5. \A i \in 0 .. pos + n - 1 : out'[i] = <<msg, i>>
      <4> TAKE i \in 0 .. pos + n - 1
      <4>1. i \in 0 .. Capacity - 1 /\ i \in Int
        BY <1>1, <1>2, <3>1, <3>4, Sizes
      <4>2. CASE i < pos
        <5>1. i \in 0 .. pos - 1 /\ ~(pos + 0 <= i)
          BY <1>1, <4>1, <4>2
        <5> QED BY <3>1, <3>3, <4>1, <5>1 DEF Intact
      <4>3. CASE ~(i < pos)
        <5>1. pos + 0 <= i /\ i < pos + 0 + (n - 0) /\ pos + 0 + (i - (pos + 0)) = i
          BY <1>1, <4>1, <4>3
        <5> QED BY <3>3, <4>1, <5>1
      <4> QED BY <4>2, <4>3
    <3>6. Intact(out', msg, 0, pos' - 1)
      BY <1>1, <3>5 DEF Intact
    <3>7. Holding'
      <4>1. pos + n >= BlockSize
        BY <1>1, <3>1, Sizes
      <4> QED BY <1>1, <2>1, <2>3, <3>1, <3>2, <3>4, <3>6, <4>1 DEF Holding
    <3> QED BY <3>7 DEF Filled
  <2>6. CASE Misheld /\ CopyIn(out, pptr, n, 0)
    <3>1. pos >= BlockSize /\ pptr = pos /\ epptr \notin Written[msg] /\ pptr' = pos + n
      BY <2>6 DEF Misheld, CopyIn
    <3>2. pos + n >= BlockSize
      BY <1>1, <3>1, Sizes
    <3>3. Misheld'
      BY <1>1, <2>1, <2>3, <3>1, <3>2 DEF Misheld
    <3> QED BY <3>3 DEF Filled
  <2> QED BY <1>4, <2>3, <2>4, <2>5, <2>6
<1> QED BY <1>3, <1>4 DEF Filled

LEMMA SputcFilled ==
  ASSUME IInv, Filled, ~bad, msg \in Messages, pos >= BlockSize, Sputc
  PROVE  Filled'
<1>1. /\ out \in [0 .. Capacity - 1 -> Byte] /\ pos \in Nat /\ pos' = pos + 1 /\ msg' = msg
      /\ Size[msg] \in Nat
  BY MessageSizes DEF IInv, TypeOK, Byte, Sputc
<1>2. Holding \/ Misheld
  <2>1. ~Empty
    BY <1>1, Sizes DEF Empty
  <2> QED BY <2>1 DEF Filled
<1>3. outMessageSize # 0 /\ outMessagePlaced = SizeField /\ pptr = pos
  BY <1>1, <1>2, Sizes DEF Holding, Misheld
<1>4. CASE pptr = epptr
  <2>1. bad' = TRUE
    BY <1>3, <1>4 DEF Sputc
  <2> QED BY <2>1 DEF Filled
<1>5. CASE pptr # epptr
  <2>1. /\ out' = Put(out, pos, pos, 1) /\ pptr' = pos + 1
        /\ UNCHANGED <<outMessageSize, outMessagePlaced, epptr, bad>>
    BY <1>3, <1>5 DEF Sputc
  <2>2. CASE Misheld
    <3>1. pos + 1 >= BlockSize
      BY <1>1, Sizes
    <3>2. Misheld'
      BY <1>1, <1>3, <2>1, <2>2, <3>1 DEF Misheld
    <3> QED BY <3>2 DEF Filled
  <2>3. CASE Holding
    <3>1. /\ pos >= BlockSize /\ pos <= Size[msg] /\ Size[msg] >= Smallest
          /\ outMessageSize = Size[msg] /\ epptr = Size[msg] /\ Intact(out, msg, 0, pos - 1)
          /\ Size[msg] <= Capacity
      BY <1>1, <2>3, Sizes DEF Holding, IInv, TypeOK
    <3>2. \A i \in 0 .. Capacity - 1 :
            out'[i] = IF pos <= i /\ i < pos + 1 THEN <<msg, pos + (i - pos)>> ELSE out[i]
      <4>1. pos \in Int /\ 1 \in Int
        BY <1>1
      <4> QED BY <1>1, <2>1, <4>1, PutIs
    <3>3. pos + 1 <= Size[msg] /\ pos + 1 >= BlockSize
      BY <1>1, <1>3, <1>5, <3>1, Sizes
    <3>4. \A i \in 0 .. pos + 1 - 1 : out'[i] = <<msg, i>>
      <4> TAKE i \in 0 .. pos + 1 - 1
      <4>1. i \in 0 .. Capacity - 1 /\ i \in Int
        BY <1>1, <3>1, <3>3, Sizes
      <4>2. CASE i < pos
        <5>1. i \in 0 .. pos - 1 /\ ~(pos <= i)
          BY <1>1, <4>1, <4>2
        <5> QED BY <3>1, <3>2, <4>1, <5>1 DEF Intact
      <4>3. CASE ~(i < pos)
        <5>1. pos <= i /\ i < pos + 1 /\ pos + (i - pos) = i
          BY <1>1, <4>1, <4>3
        <5> QED BY <3>2, <4>1, <5>1
      <4> QED BY <4>2, <4>3
    <3>5. Intact(out', msg, 0, pos' - 1)
      BY <1>1, <3>4 DEF Intact
    <3>6. Holding'
      BY <1>1, <1>3, <2>1, <3>1, <3>3, <3>5 DEF Holding
    <3> QED BY <3>6 DEF Filled
  <2> QED BY <1>2, <2>2, <2>3
<1> QED BY <1>4, <1>5

-----------------------------------------------------------------------------
(* What goes out. *)

\* What sync() sends of a message that was written completely is that message.
LEMMA SealedIsWhole ==
  ASSUME TypeOK, msg \in Messages, Holding, pptr = epptr
  PROVE  /\ FlagsIn(out) = {Checksummed[msg]}
         /\ Sealed(Checksummed[msg]) = Whole(msg)
         /\ ~(Checksummed[msg] /\ outMessageSize < ChecksumSize) /\ ~(pptr < HeaderSize)
<1>1. /\ pptr = Size[msg] /\ outMessageSize = Size[msg] /\ Size[msg] >= Smallest
      /\ Intact(out, msg, 0, Size[msg] - 1) /\ Size[msg] \in Nat
      /\ (Checksummed[msg] => Size[msg] >= BlockSize + ChecksumSize)
  BY MessageSizes DEF Holding
<1>2. FlagsIn(out) = {Checksummed[msg]}
  <2>1. \A i \in HeaderSize .. BlockSize - 1 : i \in 0 .. Size[msg] - 1
    BY <1>1, Sizes
  <2>2. Intact(out, msg, HeaderSize, BlockSize - 1)
    BY <1>1, <2>1 DEF Intact
  <2> QED BY <2>2, FlagTaken
<1>3. ~(Checksummed[msg] /\ outMessageSize < ChecksumSize) /\ ~(pptr < HeaderSize)
  BY <1>1, Sizes
<1> DEFINE sum == IF \E m \in Messages : Intact(out, m, 0, pptr - ChecksumSize - 1)
                    THEN Sum(CHOOSE m \in Messages : Intact(out, m, 0, pptr - ChecksumSize - 1))
                    ELSE BadSum
<1>4. Checksummed[msg] => sum = Sum(msg)
  <2> SUFFICES ASSUME Checksummed[msg] PROVE sum = Sum(msg)
    OBVIOUS
  <2>1. /\ 0 \in Int /\ pptr - ChecksumSize - 1 \in Int /\ 0 <= pptr - ChecksumSize - 1
        /\ \A i \in 0 .. pptr - ChecksumSize - 1 : i \in 0 .. Size[msg] - 1
    BY <1>1, Sizes
  <2>2. Intact(out, msg, 0, pptr - ChecksumSize - 1)
    BY <1>1, <2>1 DEF Intact
  <2>3. \A m \in Messages : Intact(out, m, 0, pptr - ChecksumSize - 1) => m = msg
    BY <2>1, <2>2, OneOwner
  <2>4. (CHOOSE m \in Messages : Intact(out, m, 0, pptr - ChecksumSize - 1)) = msg
    BY <2>2, <2>3
  <2> QED BY <2>2, <2>4
<1>5. Sealed(Checksummed[msg]) =
        [i \in 1 .. Size[msg] |->
           IF Checksummed[msg] /\ i > Size[msg] - ChecksumSize THEN sum ELSE out[i - 1]]
  BY <1>1 DEF Sealed
<1> HIDE DEF sum
<1>6. \A i \in 1 .. Size[msg] : out[i - 1] = <<msg, i - 1>>
  <2>1. \A i \in 1 .. Size[msg] : i - 1 \in 0 .. Size[msg] - 1
    BY <1>1
  <2> QED BY <1>1, <2>1 DEF Intact
<1>7. \A i \in 1 .. Size[msg] :
        (IF Checksummed[msg] /\ i > Size[msg] - ChecksumSize THEN sum ELSE out[i - 1])
          = (IF Checksummed[msg] /\ i > Size[msg] - ChecksumSize THEN Sum(msg) ELSE <<msg, i - 1>>)
  BY <1>4, <1>6
<1>8. Sealed(Checksummed[msg]) = Whole(msg)
  BY <1>5, <1>7 DEF Whole
<1> QED BY <1>2, <1>3, <1>8

\* Only messages before the one being sent are on the wire.
LEMMA OnWireBefore ==
  ASSUME IInv, Carried, NEW k \in Messages, OnWire(k)
  PROVE  k < msg /\ result[k] = "sent"
<1>1. PICK i \in 1 .. Len(wire) : wire[i].bytes = Whole(k)
  BY DEF OnWire
<1>2. PICK m \in Messages :
        /\ m < msg /\ result[m] = "sent" /\ Size[m] >= Smallest
        /\ \/ wire[i].bytes = Whole(m)
           \/ /\ m = torn /\ i = Len(wire)
              /\ \E n \in 1 .. Size[m] - 1 : wire[i].bytes = SubSeq(Whole(m), 1, n)
  BY DEF Carried
<1>3. Size[m] > 0
  BY <1>2, MessageSizes, Sizes
<1>4. wire[i].bytes = Whole(m)
  BY <1>1, <1>2, PrefixOnce
<1>5. k = m
  BY <1>1, <1>3, <1>4, WholeOnce
<1> QED BY <1>2, <1>5

\* A message that is not sent leaves the wire as it is.
LEMMA FlushFailed ==
  ASSUME IInv, Carried, SentIsOnWire, msg \in Messages, msg' = msg + 1,
         result' = [result EXCEPT ![msg] = "failed"], UNCHANGED <<wire, torn>>
  PROVE  Carried' /\ SentIsOnWire'
<1>1. /\ \A m \in Messages : m \in Nat /\ m >= 1
      /\ torn \in Nat /\ torn < msg /\ torn # msg /\ msg \in Nat /\ (torn # 0 => torn \in Messages)
  BY Sizes DEF IInv, TypeOK, Carried, Messages
<1>2. \A m \in Messages : result'[m] = IF m = msg THEN "failed" ELSE result[m]
  BY DEF IInv, TypeOK
<1>3. Carried'
  <2>1. torn < msg + 1 /\ (torn # 0 => result'[torn] = "sent")
    BY <1>1, <1>2 DEF Carried
  <2>2. ASSUME NEW i \in 1 .. Len(wire)
        PROVE  \E m \in Messages :
                 /\ m < msg + 1 /\ result'[m] = "sent" /\ Size[m] >= Smallest
                 /\ \/ wire[i].bytes = Whole(m)
                    \/ /\ m = torn /\ i = Len(wire)
                       /\ \E n \in 1 .. Size[m] - 1 : wire[i].bytes = SubSeq(Whole(m), 1, n)
                 /\ \A j \in 1 .. i - 1 : \A k \in Messages : wire[j].bytes = Whole(k) => k < m
    <3>1. PICK m \in Messages :
            /\ m < msg /\ result[m] = "sent" /\ Size[m] >= Smallest
            /\ \/ wire[i].bytes = Whole(m)
               \/ /\ m = torn /\ i = Len(wire)
                  /\ \E n \in 1 .. Size[m] - 1 : wire[i].bytes = SubSeq(Whole(m), 1, n)
            /\ \A j \in 1 .. i - 1 : \A k \in Messages : wire[j].bytes = Whole(k) => k < m
      BY DEF Carried
    <3>2. m < msg + 1 /\ result'[m] = "sent"
      BY <1>1, <1>2, <3>1
    <3> QED BY <3>1, <3>2
  <2> QED BY ZenonT(40), <2>1, <2>2 DEF Carried, Whole, Sum
<1>4. SentIsOnWire'
  <2>1. ASSUME NEW m \in Messages
        PROVE  IF torn = 0 \/ m < torn THEN result'[m] = "sent" <=> OnWire(m) ELSE ~OnWire(m)
    <3>1. CASE m = msg
      <4>1. ~OnWire(msg)
        BY <1>1, OnWireBefore
      <4> QED BY <1>2, <3>1, <4>1
    <3>2. CASE m # msg
      BY <1>2, <3>2 DEF SentIsOnWire, OnWire
    <3> QED BY <3>1, <3>2
  <2> QED BY <2>1 DEF SentIsOnWire, OnWire, Whole, Sum
<1> QED BY <1>3, <1>4

\* A message that is sent goes out after all that did, or the socket fails in it
\* or has failed before.
LEMMA FlushSent ==
  ASSUME IInv, Carried, SentIsOnWire, msg \in Messages, msg' = msg + 1, Size[msg] >= Smallest,
         result' = [result EXCEPT ![msg] = "sent"], Transmit(Whole(msg))
  PROVE  Carried' /\ SentIsOnWire'
<1> DEFINE Carries(w, t, i, m) ==
             /\ m < msg + 1 /\ result'[m] = "sent" /\ Size[m] >= Smallest
             /\ \/ w[i].bytes = Whole(m)
                \/ /\ m = t /\ i = Len(w)
                   /\ \E n \in 1 .. Size[m] - 1 : w[i].bytes = SubSeq(Whole(m), 1, n)
             /\ \A j \in 1 .. i - 1 : \A k \in Messages : w[j].bytes = Whole(k) => k < m
           Item(b) == [bytes |-> b, compressed |-> compression = "Snappy"]
<1>1. /\ \A m \in Messages : m \in Nat /\ m >= 1
      /\ torn \in Nat /\ torn < msg /\ torn # msg /\ msg \in Nat /\ (torn # 0 => torn \in Messages)
  BY Sizes DEF IInv, TypeOK, Carried, Messages
<1>2. \A m \in Messages : result'[m] = IF m = msg THEN "sent" ELSE result[m]
  BY DEF IInv, TypeOK
<1>3. wire \in Seq(Entry) /\ Len(wire) \in Nat
  BY DEF IInv, TypeOK, Entry, Byte
<1>4. Whole(msg) \in Seq(Byte) /\ Len(Whole(msg)) = Size[msg] /\ Size[msg] \in Nat /\ Size[msg] > 0
  BY WholeIs, MessageSizes, Sizes
<1>5. \A k \in Messages : OnWire(k) => k < msg
  BY OnWireBefore
<1>6. \A i \in 1 .. Len(wire) : \E m \in Messages :
        /\ m < msg /\ result[m] = "sent" /\ Size[m] >= Smallest
        /\ \/ wire[i].bytes = Whole(m)
           \/ /\ m = torn /\ i = Len(wire)
              /\ \E n \in 1 .. Size[m] - 1 : wire[i].bytes = SubSeq(Whole(m), 1, n)
        /\ \A j \in 1 .. i - 1 : \A k \in Messages : wire[j].bytes = Whole(k) => k < m
  BY DEF Carried
\* The socket works.
<1>7. CASE torn = 0 /\ torn' = 0 /\ wire' = Append(wire, Item(Whole(msg)))
  <2> HIDE DEF Item
  <2>1. Item(Whole(msg)) \in Entry /\ Item(Whole(msg)).bytes = Whole(msg)
    BY <1>4 DEF Item, Entry
  <2>2. /\ Len(wire') = Len(wire) + 1 /\ wire'[Len(wire) + 1] = Item(Whole(msg))
        /\ \A i \in 1 .. Len(wire) : wire'[i] = wire[i]
    BY <1>3, <1>7, <2>1, AppendProperties
  <2>3. Carried'
    <3>1. ASSUME NEW i \in 1 .. Len(wire') PROVE \E m \in Messages : Carries(wire', torn', i, m)
      <4>1. CASE i \in 1 .. Len(wire)
        <5>1. PICK m \in Messages :
                /\ m < msg /\ result[m] = "sent" /\ Size[m] >= Smallest
                /\ wire[i].bytes = Whole(m)
                /\ \A j \in 1 .. i - 1 : \A k \in Messages : wire[j].bytes = Whole(k) => k < m
          BY <1>1, <1>6, <1>7, <4>1
        <5>2. m < msg + 1 /\ result'[m] = "sent" /\ \A j \in 1 .. i - 1 : j \in 1 .. Len(wire)
          BY <1>1, <1>2, <1>3, <4>1, <5>1
        <5> QED BY <2>2, <4>1, <5>1, <5>2
      <4>2. CASE i = Len(wire) + 1
        <5>1. msg < msg + 1 /\ result'[msg] = "sent" /\ wire'[i].bytes = Whole(msg)
          BY <1>1, <1>2, <2>1, <2>2, <4>2
        <5>2. \A j \in 1 .. i - 1 : \A k \in Messages : wire'[j].bytes = Whole(k) => k < msg
          <6>1. i - 1 = Len(wire)
            BY <1>3, <4>2
          <6> QED BY <1>5, <2>2, <6>1 DEF OnWire
        <5> QED BY <5>1, <5>2
      <4> QED BY SMTT(20), <1>3, <2>2, <4>1, <4>2
    <3>2. torn' < msg + 1 /\ ~(torn' # 0)
      BY <1>1, <1>7
    <3> QED BY <3>1, <3>2 DEF Carried, Whole, Sum
  <2>4. SentIsOnWire'
    <3> DEFINE There(k) == \E i \in 1 .. Len(wire') : wire'[i].bytes = Whole(k)
    <3>1. \A k \in Messages : There(k) <=> OnWire(k) \/ k = msg
      <4> SUFFICES ASSUME NEW k \in Messages PROVE There(k) <=> OnWire(k) \/ k = msg
        OBVIOUS
      <4>1. \A i \in 1 .. Len(wire') : i \in 1 .. Len(wire) \/ i = Len(wire) + 1
        BY <1>3, <2>2
      <4>2. Len(wire) + 1 \in 1 .. Len(wire') /\ \A i \in 1 .. Len(wire) : i \in 1 .. Len(wire')
        BY <1>3, <2>2
      <4>3. Whole(msg) = Whole(k) <=> k = msg
        BY <1>4, WholeOnce
      <4> QED BY <2>1, <2>2, <4>1, <4>2, <4>3 DEF OnWire
    <3>2. \A k \in Messages : result'[k] = "sent" <=> There(k)
      BY <1>2, <1>7, <3>1 DEF SentIsOnWire, OnWire
    <3> QED BY <1>7, <3>2 DEF SentIsOnWire, Whole, Sum
  <2> QED BY <2>3, <2>4
\* It fails now, after n bytes.
<1>8. ASSUME torn = 0, torn' = msg, NEW n \in 1 .. Size[msg] - 1,
             wire' = Append(wire, Item(SubSeq(Whole(msg), 1, n)))
      PROVE  Carried' /\ SentIsOnWire'
  <2> DEFINE part == SubSeq(Whole(msg), 1, n)
  <2>1. Item(part) \in Entry /\ Item(part).bytes = part
    <3>1. \A i \in 1 .. n : i \in 1 .. Len(Whole(msg)) /\ n \in Int /\ 1 \in Int
      BY <1>4
    <3>2. \A i \in 1 .. n : Whole(msg)[i] \in Byte
      BY <1>4, <3>1, ElementOfSeq
    <3>3. part \in Seq(Byte)
      <4>1. n \in Int /\ 1 \in Int
        BY <1>4
      <4> QED BY <3>2, <4>1, SubSeqProperties
    <3> HIDE DEF part
    <3> QED BY <3>3 DEF Entry
  <2> HIDE DEF Item
  <2>2. /\ Len(wire') = Len(wire) + 1 /\ wire'[Len(wire) + 1] = Item(part)
        /\ \A i \in 1 .. Len(wire) : wire'[i] = wire[i]
    <3> HIDE DEF part
    <3>1. wire' = Append(wire, Item(part))
      BY <1>8 DEF part
    <3> QED BY <1>3, <2>1, <3>1, AppendProperties
  <2>3. \A k \in Messages : part # Whole(k)
    BY PrefixOnce
  <2>4. Carried'
    <3>1. ASSUME NEW i \in 1 .. Len(wire') PROVE \E m \in Messages : Carries(wire', torn', i, m)
      <4>1. CASE i \in 1 .. Len(wire)
        <5>1. PICK m \in Messages :
                /\ m < msg /\ result[m] = "sent" /\ Size[m] >= Smallest
                /\ wire[i].bytes = Whole(m)
                /\ \A j \in 1 .. i - 1 : \A k \in Messages : wire[j].bytes = Whole(k) => k < m
          BY <1>1, <1>6, <1>8, <4>1
        <5>2. m < msg + 1 /\ result'[m] = "sent" /\ \A j \in 1 .. i - 1 : j \in 1 .. Len(wire)
          BY <1>1, <1>2, <1>3, <4>1, <5>1
        <5> QED BY <2>2, <4>1, <5>1, <5>2
      <4>2. CASE i = Len(wire) + 1
        <5>1. msg < msg + 1 /\ result'[msg] = "sent" /\ wire'[i].bytes = part /\ i = Len(wire')
          BY <1>1, <1>2, <2>1, <2>2, <4>2
        <5>2. \A j \in 1 .. i - 1 : \A k \in Messages : wire'[j].bytes = Whole(k) => k < msg
          <6>1. i - 1 = Len(wire)
            BY <1>3, <4>2
          <6> QED BY <1>5, <2>2, <6>1 DEF OnWire
        <5> QED BY <1>8, <5>1, <5>2
      <4> QED BY SMTT(20), <1>3, <2>2, <4>1, <4>2
    <3>2. torn' < msg + 1 /\ result'[torn'] = "sent"
      BY <1>1, <1>2, <1>8
    <3> QED BY <3>1, <3>2 DEF Carried, Whole, Sum
  <2>5. SentIsOnWire'
    <3> DEFINE There(k) == \E i \in 1 .. Len(wire') : wire'[i].bytes = Whole(k)
    <3>1. \A k \in Messages : There(k) <=> OnWire(k)
      <4>1. \A i \in 1 .. Len(wire') : i \in 1 .. Len(wire) \/ i = Len(wire) + 1
        BY <1>3, <2>2
      <4>2. \A i \in 1 .. Len(wire) : i \in 1 .. Len(wire')
        BY <1>3, <2>2
      <4> HIDE DEF part
      <4> QED BY <2>1, <2>2, <2>3, <4>1, <4>2 DEF OnWire
    <3>2. \A k \in Messages :
            IF k < msg THEN result'[k] = "sent" <=> There(k) ELSE ~There(k)
      <4>1. \A k \in Messages : k < msg => k # msg
        BY <1>1
      <4> QED BY <1>2, <1>5, <1>8, <3>1, <4>1 DEF SentIsOnWire, OnWire
    <3>3. torn' # 0
      BY <1>1, <1>8
    <3> QED BY <1>8, <3>2, <3>3 DEF SentIsOnWire, Whole, Sum
  <2> QED BY <2>4, <2>5
\* It fails now, before the first byte, or has failed before.
<1>9. CASE wire' = wire /\ ((torn = 0 /\ torn' = msg) \/ (torn # 0 /\ torn' = torn))
  <2>1. Carried'
    <3>1. ASSUME NEW i \in 1 .. Len(wire) PROVE \E m \in Messages : Carries(wire, torn', i, m)
      <4>1. PICK m \in Messages :
              /\ m < msg /\ result[m] = "sent" /\ Size[m] >= Smallest
              /\ \/ wire[i].bytes = Whole(m)
                 \/ /\ m = torn /\ i = Len(wire)
                    /\ \E n \in 1 .. Size[m] - 1 : wire[i].bytes = SubSeq(Whole(m), 1, n)
              /\ \A j \in 1 .. i - 1 : \A k \in Messages : wire[j].bytes = Whole(k) => k < m
        BY <1>6
      <4>2. m < msg + 1 /\ result'[m] = "sent" /\ (m = torn => m = torn')
        BY <1>1, <1>2, <1>9, <4>1
      <4> QED BY <4>1, <4>2
    <3>2. torn' < msg + 1 /\ result'[torn'] = "sent"
      <4>1. torn # 0 => result[torn] = "sent"
        BY DEF Carried
      <4> QED BY <1>1, <1>2, <1>9, <4>1
    <3> QED BY ZenonT(40), <1>9, <3>1, <3>2 DEF Carried, Whole, Sum
  <2>2. SentIsOnWire'
    <3>1. \A k \in Messages :
            IF k < torn' THEN result'[k] = "sent" <=> OnWire(k) ELSE ~OnWire(k)
      <4>1. CASE torn = 0 /\ torn' = msg
        <5>1. \A k \in Messages : k < msg => k # msg
          BY <1>1
        <5> QED BY <1>2, <1>5, <4>1, <5>1 DEF SentIsOnWire, OnWire
      <4>2. CASE torn # 0 /\ torn' = torn
        <5>1. \A k \in Messages : k < torn => k # msg
          BY <1>1
        <5> QED BY <1>2, <4>2, <5>1 DEF SentIsOnWire, OnWire
      <4> QED BY <1>9, <4>1, <4>2
    <3>2. torn' # 0
      BY <1>1, <1>9
    <3> QED BY <1>9, <3>1, <3>2 DEF SentIsOnWire, OnWire, Whole, Sum
  <2> QED BY <2>1, <2>2
<1>10. Whole(msg) # <<>>
  BY <1>4
<1>11. CASE torn = 0 /\ torn' = msg /\ \E n \in 0 .. Len(Whole(msg)) - 1 :
              wire' = IF n = 0 THEN wire ELSE Append(wire, Item(SubSeq(Whole(msg), 1, n)))
  <2>1. PICK n \in 0 .. Size[msg] - 1 :
              wire' = IF n = 0 THEN wire ELSE Append(wire, Item(SubSeq(Whole(msg), 1, n)))
    BY <1>4, <1>11
  <2>2. CASE n = 0
    <3>1. wire' = wire /\ ((torn = 0 /\ torn' = msg) \/ (torn # 0 /\ torn' = torn))
      BY <1>11, <2>1, <2>2
    <3> HIDE DEF Item
    <3> QED BY <1>9, <3>1
  <2>3. CASE n # 0
    <3>1. n \in 1 .. Size[msg] - 1
      BY <1>4, <2>3
    <3>2. wire' = Append(wire, Item(SubSeq(Whole(msg), 1, n)))
      BY <2>1, <2>3
    <3> QED BY <1>8, <1>11, <3>1, <3>2
  <2> QED BY <2>2, <2>3
<1>12. \/ torn = 0 /\ torn' = 0 /\ wire' = Append(wire, Item(Whole(msg)))
       \/ /\ torn = 0 /\ torn' = msg
          /\ \E n \in 0 .. Len(Whole(msg)) - 1 :
               wire' = IF n = 0 THEN wire ELSE Append(wire, Item(SubSeq(Whole(msg), 1, n)))
       \/ torn # 0 /\ wire' = wire /\ torn' = torn
  BY <1>10, Zenon DEF Transmit
<1> HIDE DEF Carries, Item
<1> QED BY <1>7, <1>9, <1>11, <1>12

LEMMA FlushSends ==
  ASSUME IInv, SendMessageOnly, SendInv, Flush
  PROVE  SendInv'
<1>1. /\ msg \in Messages /\ (bad \/ pos \in Written[msg]) /\ msg' = msg + 1 /\ pos' = 0
      /\ result' = [result EXCEPT ![msg] = IF bad' THEN "failed" ELSE "sent"]
      /\ IF bad THEN UNCHANGED <<buffer, bad, wire, torn, undefined>> ELSE Sync
  BY DEF Flush, SendMessageOnly
<1>2. Filled /\ Carried /\ SentIsOnWire /\ ~wrapped /\ ~overread
  BY DEF SendInv, NothingUndefined
<1>3. CASE bad
  <2>1. UNCHANGED <<buffer, bad, wire, torn, undefined>>
    BY <1>1, <1>3
  <2>2. bad' /\ wire' = wire /\ torn' = torn /\ wrapped' = wrapped /\ overread' = overread
    BY <1>3, <2>1 DEF undefined
  <2>3. result' = [result EXCEPT ![msg] = "failed"]
    BY <1>1, <2>2
  <2>4. Carried' /\ SentIsOnWire'
    BY <1>1, <1>2, <2>2, <2>3, FlushFailed
  <2> QED BY <1>2, <2>2, <2>4 DEF SendInv, Filled, NothingUndefined
<1>4. CASE ~bad
  <2>1. Sync /\ pos \in Written[msg]
    BY <1>1, <1>4
  <2>2. Holding \/ Misheld
    <3>1. pos # 0
      BY <1>1, <2>1, MessageSizes, Sizes
    <3> QED BY <1>1, <1>2, <1>4, <3>1 DEF Filled, Empty
  <2>3. CASE pptr # epptr
    <3>1. bad' = TRUE /\ wire' = wire /\ torn' = torn /\ wrapped' = wrapped /\ overread' = overread
      BY <2>1, <2>3 DEF Sync, undefined
    <3>2. result' = [result EXCEPT ![msg] = "failed"]
      BY <1>1, <3>1
    <3>3. Carried' /\ SentIsOnWire'
      BY <1>1, <1>2, <3>1, <3>2, FlushFailed
    <3> QED BY <1>2, <3>1, <3>3 DEF SendInv, Filled, NothingUndefined
  <2>4. CASE pptr = epptr
    <3>0. Holding
      BY <2>1, <2>2, <2>4 DEF Misheld
    <3>1. /\ outMessageSize' = 0 /\ outMessagePlaced' = 0 /\ pptr' = 0 /\ epptr' = 0
          /\ bad' = bad /\ overread' = overread
          /\ \E flag \in FlagsIn(out) :
               /\ wrapped' = (\/ wrapped
                              \/ flag /\ outMessageSize < ChecksumSize
                              \/ compression = "Snappy" /\ pptr < HeaderSize)
               /\ Transmit(Sealed(flag))
      BY <2>1, <2>4 DEF Sync
    <3>2. /\ FlagsIn(out) = {Checksummed[msg]}
          /\ Sealed(Checksummed[msg]) = Whole(msg)
          /\ ~(Checksummed[msg] /\ outMessageSize < ChecksumSize) /\ ~(pptr < HeaderSize)
      <4>1. TypeOK
        BY DEF IInv
      <4> QED BY <1>1, <2>4, <3>0, <4>1, SealedIsWhole
    <3>3. Transmit(Whole(msg)) /\ ~wrapped'
      <4>1. PICK flag \in FlagsIn(out) :
               /\ wrapped' = (\/ wrapped
                              \/ flag /\ outMessageSize < ChecksumSize
                              \/ compression = "Snappy" /\ pptr < HeaderSize)
               /\ Transmit(Sealed(flag))
        BY <3>1
      <4>2. flag = Checksummed[msg]
        BY <3>2, <4>1
      <4> QED BY <1>2, <3>2, <4>1, <4>2, Zenon
    <3>4. result' = [result EXCEPT ![msg] = "sent"]
      BY <1>1, <1>4, <3>1
    <3>5. Carried' /\ SentIsOnWire'
      <4>1. Size[msg] >= Smallest
        BY <3>0 DEF Holding
      <4> QED BY <1>1, <1>2, <3>3, <3>4, <4>1, FlushSent
    <3>6. Empty'
      BY <1>1, <3>1 DEF Empty
    <3> QED BY <1>2, <3>1, <3>3, <3>5, <3>6 DEF SendInv, Filled, NothingUndefined
  <2> QED BY <2>3, <2>4
<1> QED BY <1>3, <1>4

\* Nothing but flush() changes what is on the wire.
LEMMA WriteSends ==
  ASSUME IInv, SendMessageOnly, NotMisread, SendInv, Write
  PROVE  SendInv'
<1>1. msg \in Messages /\ ~bad /\ Filled /\ ~overread
  BY DEF Write, SendInv, NothingUndefined
<1>2. (\E n \in Nat : Xsputn(n) /\ (pos = 0 => n = BlockSize)) \/ (pos >= BlockSize /\ Sputc)
  <2>1. BlockSize \in Nat
    BY Sizes
  <2>2. \A a, b \in Nat : 1 .. a - b \subseteq Nat
    OBVIOUS
  <2>3. pos \in Nat /\ Written[msg] \subseteq Nat
    BY <1>1, MessageSizes DEF IInv, TypeOK
  <2>4. ~(msg \in SingleBytes)
    BY DEF SendMessageOnly
  <2>5. PICK length \in Written[msg] :
          \/ pos = 0 /\ Xsputn(BlockSize)
          \/ pos > 0 /\ \E n \in 1 .. length - pos : Xsputn(n)
          \/ pos >= BlockSize /\ Sputc
    BY <2>4, Zenon DEF Write
  <2>6. CASE pos > 0 /\ \E n \in 1 .. length - pos : Xsputn(n)
    <3>1. pos # 0
      BY <2>3, <2>6
    <3> QED BY <2>2, <2>3, <2>6, <3>1
  <2> QED BY <2>1, <2>5, <2>6
<1>3. Filled' /\ ~overread' /\ UNCHANGED <<msg, result, wire, torn, wrapped>>
  <2>1. CASE \E n \in Nat : Xsputn(n) /\ (pos = 0 => n = BlockSize)
    <3>1. PICK n \in Nat : Xsputn(n) /\ (pos = 0 => n = BlockSize)
      BY <2>1
    <3>2. UNCHANGED <<msg, result, wire, torn, wrapped>>
      BY <3>1 DEF Xsputn
    <3> QED BY <1>1, <3>1, <3>2, XsputnFilled, XsputnReads
  <2>2. CASE pos >= BlockSize /\ Sputc
    <3>1. UNCHANGED <<msg, result, wire, torn, wrapped, overread>>
      BY <2>2 DEF Sputc, undefined
    <3> QED BY <1>1, <2>2, <3>1, SputcFilled
  <2> QED BY <1>2, <2>1, <2>2
<1> QED BY <1>3 DEF SendInv, Carried, SentIsOnWire, NothingUndefined, Whole, Sum

LEMMA InitSends == Init => SendInv
<1> SUFFICES ASSUME Init PROVE SendInv
  OBVIOUS
<1>1. wire = <<>> /\ Len(wire) = 0 /\ 1 .. 0 = {} /\ torn = 0 /\ msg \in Messages
      /\ \A m \in Messages : result[m] = "none"
  BY DEF Init
<1>2. Filled
  BY DEF Init, Filled, Empty
<1>3. Carried
  <2>1. torn < msg
    BY <1>1 DEF Messages
  <2> QED BY <1>1, <2>1 DEF Carried
<1>4. SentIsOnWire
  BY <1>1 DEF SentIsOnWire
<1> QED BY <1>2, <1>3, <1>4 DEF SendInv, NothingUndefined, Init

LEMMA NextSends ==
  ASSUME IInv, SendMessageOnly, NotMisread, SendInv, [Next]_vars
  PROVE  SendInv'
<1>1. CASE Write
  BY <1>1, WriteSends
<1>2. CASE Flush
  BY <1>2, FlushSends
<1>3. CASE SetCompression
  <2>1. UNCHANGED <<buffer, bad, msg, pos, result, wire, torn, undefined>>
    BY <1>3 DEF SetCompression
  <2> QED BY ZenonT(40), <2>1 DEF SendInv, Filled, Empty, Holding, Misheld, Intact, Carried, SentIsOnWire,
                      NothingUndefined, Whole, Sum, buffer, undefined
<1>4. CASE ReadFails
  <2>1. bad' = TRUE /\ UNCHANGED <<buffer, msg, pos, result, wire, torn, undefined>>
    BY <1>4 DEF ReadFails
  <2> QED BY ZenonT(40), <2>1 DEF SendInv, Filled, Carried, SentIsOnWire, NothingUndefined, Whole, Sum, undefined
<1>5. CASE UNCHANGED vars
  <2>1. UNCHANGED <<buffer, bad, msg, pos, result, wire, torn, undefined>>
    BY <1>5 DEF vars
  <2> QED BY ZenonT(40), <2>1 DEF SendInv, Filled, Empty, Holding, Misheld, Intact, Carried, SentIsOnWire,
                      NothingUndefined, Whole, Sum, buffer, undefined
<1> QED BY <1>1, <1>2, <1>3, <1>4, <1>5 DEF Next, Done

-----------------------------------------------------------------------------
(* The theorems. *)

\* Every variable keeps its type, whatever is written and wherever it fails.
THEOREM TypeCorrect == Spec => []TypeOK
<1>1. Init => IInv
  BY InitTypes
<1>2. IInv /\ [Next]_vars => IInv'
  BY NextTypes
<1>3. IInv => TypeOK
  BY DEF IInv
<1> QED BY <1>1, <1>2, <1>3, PTL DEF Spec

\* sendMessage() never succeeds again once it has failed: the state of the
\* stream, which is its result, is not cleared.
THEOREM FailedForGood == Spec => []FailureIsFinal
<1>1. Init => IInv
  BY InitTypes
<1>2. IInv /\ [Next]_vars => IInv'
  BY NextTypes
<1>3. IInv => FailureIsFinal
  BY DEF IInv, Progress
<1> QED BY <1>1, <1>2, <1>3, PTL DEF Spec

\* The inductive invariant of messages written as sendMessage() writes them,
\* whatever the serializer announces and wherever the socket fails.
LEMMA Sends == SendMessageOnly /\ NotMisread => (Spec => [](IInv /\ SendInv))
<1> SUFFICES ASSUME SendMessageOnly, NotMisread PROVE Spec => [](IInv /\ SendInv)
  OBVIOUS
<1> DEFINE Inv == IInv /\ SendInv
<1>1. Init => Inv
  BY InitTypes, InitSends
<1>2. Inv /\ [Next]_vars => Inv'
  BY NextTypes, NextSends
<1> QED BY <1>1, <1>2, PTL DEF Spec

\* The socket carries whole, checksummed messages in the order they were
\* written, but for the beginning of the one it failed in.
THEOREM WholeMessages == SendMessageOnly /\ NotMisread => (Spec => []OnlyWholeMessages)
<1> SUFFICES ASSUME SendMessageOnly, NotMisread PROVE Spec => []OnlyWholeMessages
  OBVIOUS
<1>1. ASSUME IInv, SendInv PROVE OnlyWholeMessages
  <2>1. ASSUME NEW i \in 1 .. Len(wire)
        PROVE  \E m \in Messages :
                 /\ \/ wire[i].bytes = Whole(m)
                    \/ m = torn /\ i = Len(wire) /\ IsPrefix(wire[i].bytes, Whole(m))
                 /\ result[m] = "sent"
                 /\ \A j \in 1 .. i - 1 : \A k \in Messages : wire[j].bytes = Whole(k) => k < m
    <3>1. PICK m \in Messages :
            /\ result[m] = "sent"
            /\ \/ wire[i].bytes = Whole(m)
               \/ /\ m = torn /\ i = Len(wire)
                  /\ \E n \in 1 .. Size[m] - 1 : wire[i].bytes = SubSeq(Whole(m), 1, n)
            /\ \A j \in 1 .. i - 1 : \A k \in Messages : wire[j].bytes = Whole(k) => k < m
      BY <1>1 DEF SendInv, Carried
    <3>2. \A n \in 1 .. Size[m] - 1 : IsPrefix(SubSeq(Whole(m), 1, n), Whole(m))
      BY PrefixOnce
    <3> QED BY <3>1, <3>2
  <2> QED BY <2>1 DEF OnlyWholeMessages
<1> QED BY <1>1, Sends, PTL

\* sendMessage() reports success for exactly the messages the socket took, up to
\* the one it failed in.
THEOREM ReportedAsSent == SendMessageOnly /\ NotMisread => (Spec => []SentIsOnWire)
<1> SUFFICES ASSUME SendMessageOnly, NotMisread PROVE Spec => []SentIsOnWire
  OBVIOUS
<1>1. SendInv => SentIsOnWire
  BY DEF SendInv
<1> QED BY <1>1, Sends, PTL

\* No size underflows and no write is read past its end.
THEOREM Defined == SendMessageOnly /\ NotMisread => (Spec => []NothingUndefined)
<1> SUFFICES ASSUME SendMessageOnly, NotMisread PROVE Spec => []NothingUndefined
  OBVIOUS
<1>1. SendInv => NothingUndefined
  BY DEF SendInv
<1> QED BY <1>1, Sends, PTL

===============================================================================
