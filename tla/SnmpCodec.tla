----------------------------- MODULE SnmpCodec ------------------------------
(***************************************************************************)
(* The BER encoder and decoder of package snmp, on sequences of bytes.     *)
(***************************************************************************)
EXTENDS Naturals, Sequences, SequencesExt

oidBase   == <<1, 3, 6, 1, 4, 1, 236, 11, 5, 11, 81, 11, 7, 2, 1, 2>>
community == <<112, 117, 98, 108, 105, 99>>

-----------------------------------------------------------------------------
(***************************************************************************)
(* Encoding.                                                               *)
(***************************************************************************)
tlv(tag, value) == <<tag, Len(value) % 256>> \o value
INTEGER(byte)   == tlv(2, <<byte>>)

\* The digits of n to the base 128.
digits[n \in Nat] ==
    IF n < 128 THEN <<n>> ELSE Append(digits[n \div 128], n % 128)

\* (A bug: 128 passes for a single digit.)
EncodeArcOffByOne(arc) ==
    IF arc = 128 THEN <<128>>
    ELSE LET d == digits[arc] IN
           [i \in 1..Len(d) |-> IF i < Len(d) THEN d[i] + 128 ELSE d[i]]

\* One arc of an OID: all digits but the last are marked.
EncodeArc(arc) ==
    LET d == digits[arc] IN
      [i \in 1..Len(d) |-> IF i < Len(d) THEN d[i] + 128 ELSE d[i]]

encodeOID(arcs) ==
    tlv(6, <<40 * arcs[1] + arcs[2]>>
           \o FlattenSeq([i \in 1..(Len(arcs) - 2) |-> EncodeArc(arcs[i + 2])]))

\* The OID is followed by NULL; request-id 1, no error.
buildGetRequest(instanceID) ==
    LET varbind == tlv(48, encodeOID(Append(oidBase, instanceID)) \o <<5, 0>>)
        pdu     == tlv(160, INTEGER(1) \o INTEGER(0) \o INTEGER(0)
                            \o tlv(48, varbind))
    IN  tlv(48, INTEGER(0) \o tlv(4, community) \o pdu)

-----------------------------------------------------------------------------
(***************************************************************************)
(* Decoding.                                                               *)
(***************************************************************************)
Element(ok, tag, value, rest) ==
    [ok |-> ok, tag |-> tag, value |-> value, rest |-> rest]
Truncated == Element(FALSE, 0, <<>>, <<>>)

\* The first element of b.  In the long form the low 7 bits of the second
\* byte say in how many bytes the length follows.
readTLV(b) ==
    IF Len(b) < 2 THEN Truncated
    ELSE LET long == b[2] >= 128
             k    == IF long THEN b[2] - 128 ELSE 0
             hdr  == 2 + k
         IN IF long /\ (k \notin {1, 2} \/ Len(b) < hdr) THEN Truncated
            ELSE LET n == CASE k = 0 -> b[2]
                            [] k = 1 -> b[3]
                            [] k = 2 -> 256 * b[3] + b[4]
                 IN IF Len(b) < hdr + n THEN Truncated
                    ELSE Element(TRUE, b[1], SubSeq(b, hdr + 1, hdr + n),
                                 SubSeq(b, hdr + n + 1, Len(b)))

\* The n-th element of b, counted from 0; once truncated, always truncated.
nth(b, n) ==
    LET element[i \in 0..n] == readTLV(IF i = 0 THEN b ELSE element[i - 1].rest)
    IN  element[n]

NoValue == <<>>

\* (A bug: the value is sought by the two bytes it begins with.)
ParseByScanning(data) ==
    LET Header(i) == data[i] \in {2, 4} /\ data[i + 1] = 4 /\ i + 5 <= Len(data)
        found     == {i \in 1..(Len(data) - 1) : Header(i)}
    IN  IF found = {} THEN NoValue
        ELSE LET i == CHOOSE i \in found : \A j \in found : i <= j
             IN  SubSeq(data, i + 2, i + 5)

\* The value lies at a fixed place: message, PDU, list, varbind, value.
parseResponse(data) ==
    LET msg == nth(data, 0).value
        pdu == nth(msg, 2).value
        vbl == nth(pdu, 3).value
        vb  == nth(vbl, 0).value
        val == nth(vb, 1)
    IN  IF val.ok /\ val.tag \in {2, 4} /\ Len(val.value) = 4 THEN val.value
        ELSE NoValue

\* Big- or little-endian; what is neither triggered nor ready is idle.
parseValue(val) ==
    CASE val \in {<<0, 0, 0, 1>>, <<1, 0, 0, 0>>} -> "triggered"
      [] val \in {<<0, 0, 0, 2>>, <<2, 0, 0, 0>>} -> "ready"
      [] OTHER -> "idle"
=============================================================================
