---------------------------- MODULE MCReadBuffer ----------------------------
(***************************************************************************)
(* ReadBuffer on three replies with the sizes scaled down: a header of 2   *)
(* bytes, a block of 4, a checksum of 2.  The running sums Start and       *)
(* WireStart are computed here.                                            *)
(***************************************************************************)
EXTENDS ReadBuffer

MCKindPlain  == <<"msg", "msg", "msg">>
MCKindMixed  == <<"msg", "snappy", "msg">>
MCChecksummed == <<TRUE, TRUE, FALSE>>
MCSize       == <<10, 9, 8>>
MCWireMixed  == <<10, 7, 8>>

\* Four replies: the checksum of the first is in the middle of the second, and
\* a compressed one and one of an unknown kind follow.
MCKindAll     == <<"msg", "msg", "snappy", "other">>
MCChecksumAll == <<TRUE, TRUE, TRUE, FALSE>>
MCSizeAll     == <<7, 9, 7, 6>>
MCWireAll     == <<7, 9, 5, 2>>

MCSumOf(s) ==
  LET sum[m \in 1 .. Len(s) + 1] == IF m = 1 THEN 0 ELSE sum[m - 1] + s[m - 1] IN sum
MCStart        == MCSumOf(MCSize)
MCWireStart    == MCSumOf(MCWireMixed)
MCStartAll     == MCSumOf(MCSizeAll)
MCWireStartAll == MCSumOf(MCWireAll)

\* Where the connection may close: nowhere, at any byte, or at any byte but
\* those within the data of the compressed reply.
MCAnywhere == 0 .. MCWireStart[4]
MCAnywhereAll == 0 .. MCWireStartAll[5]
MCOutside  == MCAnywhere \ (MCWireStart[2] + HeaderSize .. MCWireStart[3] - 1)

=============================================================================
