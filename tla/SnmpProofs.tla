------------------------------ MODULE SnmpProofs -----------------------------
(***************************************************************************)
(* Theorems about a poll, for every InstanceID an int of Go can hold: the  *)
(* request names the agent's entry, and the answer is that entry's state   *)
(* or ErrNoResponse.                                                       *)
(***************************************************************************)
EXTENDS SnmpPoll, SumProofs

-----------------------------------------------------------------------------
(***************************************************************************)
(* Elements.  e is an element if readTLV takes it off whatever follows it, *)
(* and recognises each part of it as truncated.                            *)
(***************************************************************************)
\* What readTLV returns when it has found one.
Got(tag, value, rest) == Element(TRUE, tag, value, rest)

IsElement(e, tag, value) ==
    /\ e \in Seq(Byte) /\ value \in Seq(Byte) /\ tag \in Byte
    /\ \A rest \in Seq(Byte) :
         readTLV(e \o rest) = Got(tag, value, rest)

\* The two parts of a concatenation.
LEMMA TwoParts ==
  ASSUME NEW s \in Seq(Byte), NEW t \in Seq(Byte)
  PROVE  /\ s \o t \in Seq(Byte) /\ Len(s \o t) = Len(s) + Len(t)
         /\ Len(s) \in Nat /\ Len(t) \in Nat
         /\ \A i \in 1..Len(s) : (s \o t)[i] = s[i]
         /\ \A i \in 1..Len(t) : (s \o t)[Len(s) + i] = t[i]
         /\ SubSeq(s \o t, 1, Len(s)) = s
         /\ SubSeq(s \o t, Len(s) + 1, Len(s) + Len(t)) = t
<1>1. Len(s) \in Nat /\ Len(t) \in Nat
  BY LenProperties
<1>2. /\ s \o t \in Seq(Byte) /\ Len(s \o t) = Len(s) + Len(t)
      /\ \A i \in 1..(Len(s) + Len(t)) :
           (s \o t)[i] = IF i <= Len(s) THEN s[i] ELSE t[i - Len(s)]
  BY ConcatProperties, Zenon
<1>3. \A i \in 1..Len(s) : (s \o t)[i] = s[i]
  BY <1>1, <1>2
<1>4. ASSUME NEW i \in 1..Len(t) PROVE (s \o t)[Len(s) + i] = t[i]
  <2>1. Len(s) + i \in 1..(Len(s) + Len(t)) /\ ~(Len(s) + i <= Len(s))
        /\ (Len(s) + i) - Len(s) = i
    BY <1>1
  <2> QED BY <1>2, <2>1
<1>5. SubSeq(s \o t, 1, Len(s)) = s
  <2>1. CASE Len(s) = 0
    <3>1. SubSeq(s \o t, 1, Len(s)) = <<>>
      BY <2>1, SubSeqEmpty
    <3> QED BY <2>1, <3>1, EmptySeq
  <2>2. CASE Len(s) # 0
    <3>1. 1 \in 1..Len(s) /\ Len(s) \in 1..Len(s)
      BY <1>1, <2>2
    <3>2. SubSeq(s \o t, 1, Len(s)) = SubSeq(s, 1, Len(s))
      BY <3>1, SubSeqOfConcat1
    <3> QED BY <3>2, SubSeqFull
  <2> QED BY <2>1, <2>2
<1>6. SubSeq(s \o t, Len(s) + 1, Len(s) + Len(t)) = t
  <2>1. CASE Len(t) = 0
    <3>1. Len(s) + 1 \in Int /\ Len(s) + Len(t) \in Int
          /\ Len(s) + Len(t) < Len(s) + 1
      BY <1>1, <2>1
    <3>2. SubSeq(s \o t, Len(s) + 1, Len(s) + Len(t)) = <<>>
      BY <3>1, SubSeqEmpty
    <3> QED BY <2>1, <3>2, EmptySeq
  <2>2. CASE Len(t) # 0
    <3>1. Len(s) + 1 \in (Len(s) + 1)..(Len(s) + Len(t))
          /\ Len(s) + Len(t) \in (Len(s) + 1)..(Len(s) + Len(t))
          /\ (Len(s) + 1) - Len(s) = 1 /\ (Len(s) + Len(t)) - Len(s) = Len(t)
      BY <1>1, <2>2
    <3>2. SubSeq(s \o t, Len(s) + 1, Len(s) + Len(t))
            = SubSeq(t, (Len(s) + 1) - Len(s), (Len(s) + Len(t)) - Len(s))
      BY <3>1, SubSeqOfConcat2
    <3> QED BY <3>1, <3>2, SubSeqFull
  <2> QED BY <2>1, <2>2
<1> QED BY <1>1, <1>2, <1>3, <1>4, <1>5, <1>6

\* The three forms of a header that says that n bytes follow.
IsHeader(h, n) ==
    \/ Len(h) = 2 /\ h[2] = n /\ n < 128
    \/ Len(h) = 3 /\ h[2] = 129 /\ h[3] = n
    \/ Len(h) = 4 /\ h[2] = 130 /\ h[3] = 0 /\ h[4] = n

LEMMA HeaderRead ==
  ASSUME NEW h \in Seq(Byte), NEW v \in Seq(Byte), NEW rest \in Seq(Byte),
         IsHeader(h, Len(v))
  PROVE  readTLV((h \o v) \o rest) = Got(h[1], v, rest)
<1> DEFINE hv == h \o v
           b  == hv \o rest
<1>1. /\ hv \in Seq(Byte) /\ Len(hv) = Len(h) + Len(v)
      /\ Len(h) \in Nat /\ Len(v) \in Nat
      /\ \A i \in 1..Len(h) : hv[i] = h[i]
      /\ SubSeq(hv, Len(h) + 1, Len(h) + Len(v)) = v
  BY TwoParts
<1> HIDE DEF hv
<1>2. /\ Len(b) = Len(hv) + Len(rest) /\ Len(rest) \in Nat
      /\ \A i \in 1..Len(hv) : b[i] = hv[i]
      /\ SubSeq(b, Len(hv) + 1, Len(hv) + Len(rest)) = rest
  <2>1. hv \in Seq(Byte)
    BY <1>1
  <2> QED BY <2>1, TwoParts
<1>3. /\ Len(b) = Len(h) + Len(v) + Len(rest)
      /\ \A i \in 1..Len(h) : b[i] = h[i]
      /\ SubSeq(b, Len(h) + Len(v) + 1, Len(b)) = rest
  <2>1. \A i \in 1..Len(h) : i \in 1..Len(hv)
    BY <1>1
  <2>2. Len(hv) + 1 = Len(h) + Len(v) + 1
    BY <1>1
  <2> HIDE DEF b
  <2> QED BY <1>1, <1>2, <2>1, <2>2
<1>4. SubSeq(b, Len(h) + 1, Len(h) + Len(v)) = v
  <2>1. CASE Len(v) = 0
    <3>1. Len(h) + 1 \in Int /\ Len(h) + Len(v) \in Int
          /\ Len(h) + Len(v) < Len(h) + 1
      BY <1>1, <2>1
    <3>2. SubSeq(b, Len(h) + 1, Len(h) + Len(v)) = <<>>
      BY <3>1, SubSeqEmpty
    <3> QED BY <2>1, <3>2, EmptySeq
  <2>2. CASE Len(v) # 0
    <3>1. Len(h) + 1 \in 1..Len(hv) /\ Len(h) + Len(v) \in 1..Len(hv)
      BY <1>1, <2>2
    <3>2. SubSeq(b, Len(h) + 1, Len(h) + Len(v))
            = SubSeq(hv, Len(h) + 1, Len(h) + Len(v))
      BY <1>1, <3>1, SubSeqOfConcat1
    <3> QED BY <1>1, <3>2
  <2> QED BY <2>1, <2>2
<1>5. b = (h \o v) \o rest
  BY DEF hv
<1> HIDE DEF b
<1>6. CASE Len(h) = 2 /\ h[2] = Len(v) /\ Len(v) < 128
  <2>1. b[1] = h[1] /\ b[2] = Len(v)
    BY <1>3, <1>6
  <2>2. ~(Len(b) < 2) /\ ~(Len(b) < 2 + Len(v)) /\ ~(b[2] >= 128)
    BY <1>1, <1>2, <1>3, <1>6, <2>1
  <2>3. SubSeq(b, 3, 2 + Len(v)) = v /\ SubSeq(b, 2 + Len(v) + 1, Len(b)) = rest
    BY <1>3, <1>4, <1>6
  <2>4. readTLV(b) = Got(b[1], SubSeq(b, 2 + 0 + 1, 2 + 0 + b[2]),
                             SubSeq(b, 2 + 0 + b[2] + 1, Len(b)))
    BY <1>1, <2>1, <2>2 DEF readTLV, Got
  <2>5. 2 + 0 + 1 = 3 /\ 2 + 0 + b[2] = 2 + Len(v)
    BY <1>1, <2>1
  <2> QED BY <1>5, <2>1, <2>3, <2>4, <2>5
<1>7. CASE Len(h) = 3 /\ h[2] = 129 /\ h[3] = Len(v)
  <2>1. b[1] = h[1] /\ b[2] = 129 /\ b[3] = Len(v)
    BY <1>3, <1>7
  <2>2. ~(Len(b) < 2) /\ ~(Len(b) < 3) /\ ~(Len(b) < 3 + Len(v))
    BY <1>1, <1>2, <1>3, <1>7
  <2>3. SubSeq(b, 4, 3 + Len(v)) = v /\ SubSeq(b, 3 + Len(v) + 1, Len(b)) = rest
    BY <1>3, <1>4, <1>7
  <2>4. readTLV(b) = Got(b[1], SubSeq(b, 3 + 1, 3 + b[3]),
                             SubSeq(b, 3 + b[3] + 1, Len(b)))
    BY <1>1, <2>1, <2>2 DEF readTLV, Got
  <2>5. 3 + 1 = 4
    OBVIOUS
  <2> QED BY <1>5, <2>1, <2>3, <2>4, <2>5, Zenon
<1>8. CASE Len(h) = 4 /\ h[2] = 130 /\ h[3] = 0 /\ h[4] = Len(v)
  <2>1. b[1] = h[1] /\ b[2] = 130 /\ b[3] = 0 /\ b[4] = Len(v)
    BY <1>3, <1>8
  <2>2. ~(Len(b) < 2) /\ ~(Len(b) < 4) /\ ~(Len(b) < 4 + Len(v))
        /\ 256 * b[3] + b[4] = Len(v)
    BY <1>1, <1>2, <1>3, <1>8, <2>1
  <2>3. SubSeq(b, 5, 4 + Len(v)) = v /\ SubSeq(b, 4 + Len(v) + 1, Len(b)) = rest
    BY <1>3, <1>4, <1>8
  <2>4. readTLV(b) = Got(b[1], SubSeq(b, 4 + 1, 4 + Len(v)),
                             SubSeq(b, 4 + Len(v) + 1, Len(b)))
    BY <1>1, <2>1, <2>2 DEF readTLV, Got
  <2>5. 4 + 1 = 5
    OBVIOUS
  <2> QED BY <1>5, <2>1, <2>3, <2>4, <2>5, Zenon
<1> QED BY <1>6, <1>7, <1>8 DEF IsHeader

\* What tlv makes is an element, if its length takes one byte.
LEMMA TlvElement ==
  ASSUME NEW tag \in Byte, NEW v \in Seq(Byte), Len(v) < 128
  PROVE  IsElement(tlv(tag, v), tag, v) /\ Len(tlv(tag, v)) = Len(v) + 2
<1> DEFINE h == <<tag, Len(v)>>
<1>1. Len(v) \in Byte /\ Len(v) % 256 = Len(v) /\ Len(v) \in Nat
  <2>1. Len(v) \in Nat
    BY LenProperties
  <2>2. \A n \in Nat : n < 128 => n \in Byte /\ n % 256 = n
    BY DEF Byte
  <2> QED BY <2>1, <2>2
<1>2. h \in Seq(Byte) /\ Len(h) = 2 /\ h[1] = tag /\ h[2] = Len(v)
  BY <1>1
<1>3. tlv(tag, v) = h \o v
  BY <1>1 DEF tlv
<1> HIDE DEF h
<1>4. h \o v \in Seq(Byte) /\ Len(h \o v) = Len(h) + Len(v)
  BY <1>2, TwoParts
<1>5. ASSUME NEW rest \in Seq(Byte)
      PROVE  readTLV((h \o v) \o rest) = Got(tag, v, rest)
  <2>1. h \in Seq(Byte) /\ h[1] = tag
    BY <1>2
  <2>2. IsHeader(h, Len(v))
    BY <1>2 DEF IsHeader
  <2>3. readTLV((h \o v) \o rest) = Got(h[1], v, rest)
    BY <2>1, <2>2, HeaderRead
  <2> QED BY <2>1, <2>3
<1>6. Len(h \o v) = Len(v) + 2
  BY <1>1, <1>2, <1>4
<1> QED BY <1>3, <1>4, <1>5, <1>6 DEF IsElement

\* So is what the printer makes, in any form of the length.
LEMMA WrapElement ==
  ASSUME NEW form \in 0..2, NEW tag \in Byte, NEW v \in Seq(Byte), Len(v) < 128
  PROVE  /\ IsElement(Wrap(form, tag, v), tag, v)
         /\ Len(Wrap(form, tag, v)) <= Len(v) + 4
<1>1. Len(v) \in Byte /\ Len(v) \in Nat
  <2>1. Len(v) \in Nat
    BY LenProperties
  <2>2. \A n \in Nat : n < 128 => n \in Byte
    BY DEF Byte
  <2> QED BY <2>1, <2>2
<1>2. CASE form = 0
  <2>1. Wrap(form, tag, v) = tlv(tag, v)
    BY <1>2 DEF Wrap
  <2> QED BY <1>1, <2>1, TlvElement
<1>3. CASE form = 1
  <2> DEFINE h == <<tag, 129, Len(v)>>
  <2>1. h \in Seq(Byte) /\ Len(h) = 3 /\ h[1] = tag /\ h[2] = 129 /\ h[3] = Len(v)
    <3>1. 129 \in Byte
      BY DEF Byte
    <3> QED BY <1>1, <3>1
  <2>2. Wrap(form, tag, v) = h \o v
    BY <1>3 DEF Wrap
  <2> HIDE DEF h
  <2>3. h \o v \in Seq(Byte) /\ Len(h \o v) = Len(h) + Len(v)
    <3>1. h \in Seq(Byte)
      BY <2>1
    <3> QED BY <3>1, TwoParts
  <2>4. ASSUME NEW rest \in Seq(Byte)
        PROVE  readTLV((h \o v) \o rest) = Got(tag, v, rest)
    <3>1. h \in Seq(Byte) /\ h[1] = tag
      BY <2>1
    <3>2. IsHeader(h, Len(v))
      BY <2>1 DEF IsHeader
    <3>3. readTLV((h \o v) \o rest) = Got(h[1], v, rest)
      BY <3>1, <3>2, HeaderRead
    <3> QED BY <3>1, <3>3
  <2>5. Len(h \o v) <= Len(v) + 4
    BY <1>1, <2>1, <2>3
  <2> QED BY <2>2, <2>3, <2>4, <2>5 DEF IsElement
<1>4. CASE form = 2
  <2> DEFINE h == <<tag, 130, 0, Len(v)>>
  <2>1. /\ h \in Seq(Byte) /\ Len(h) = 4 /\ h[1] = tag /\ h[2] = 130 /\ h[3] = 0
        /\ h[4] = Len(v)
    <3>1. 130 \in Byte /\ 0 \in Byte
      BY DEF Byte
    <3> QED BY <1>1, <3>1
  <2>2. Wrap(form, tag, v) = h \o v
    BY <1>4 DEF Wrap
  <2> HIDE DEF h
  <2>3. h \o v \in Seq(Byte) /\ Len(h \o v) = Len(h) + Len(v)
    <3>1. h \in Seq(Byte)
      BY <2>1
    <3> QED BY <3>1, TwoParts
  <2>4. ASSUME NEW rest \in Seq(Byte)
        PROVE  readTLV((h \o v) \o rest) = Got(tag, v, rest)
    <3>1. h \in Seq(Byte) /\ h[1] = tag
      BY <2>1
    <3>2. IsHeader(h, Len(v))
      BY <2>1 DEF IsHeader
    <3>3. readTLV((h \o v) \o rest) = Got(h[1], v, rest)
      BY <3>1, <3>2, HeaderRead
    <3> QED BY <3>1, <3>3
  <2>5. Len(h \o v) <= Len(v) + 4
    BY <1>1, <2>1, <2>3
  <2> QED BY <2>2, <2>3, <2>4, <2>5 DEF IsElement
<1> QED BY <1>2, <1>3, <1>4

\* An element alone.
LEMMA ElementAlone ==
  ASSUME NEW e, NEW tag, NEW v, IsElement(e, tag, v)
  PROVE  readTLV(e) = Got(tag, v, <<>>)
<1>1. e \in Seq(Byte) /\ <<>> \in Seq(Byte)
  BY EmptySeq DEF IsElement
<1>2. e \o <<>> = e
  BY <1>1, ConcatEmptySeq
<1>3. readTLV(e \o <<>>) = Got(tag, v, <<>>)
  BY <1>1 DEF IsElement
<1> QED BY <1>2, <1>3

\* nth reads one element after the other.
LEMMA NthStep ==
  ASSUME NEW b
  PROVE  /\ nth(b, 0) = readTLV(b)
         /\ nth(b, 1) = readTLV(nth(b, 0).rest)
         /\ nth(b, 2) = readTLV(nth(b, 1).rest)
         /\ nth(b, 3) = readTLV(nth(b, 2).rest)
<1> DEFINE r0 == readTLV(b)
           r1 == readTLV(r0.rest)
           r2 == readTLV(r1.rest)
           r3 == readTLV(r2.rest)
           Is(f, n) == f = [i \in 0..n |-> readTLV(IF i = 0 THEN b
                                                   ELSE f[i - 1].rest)]
           elem(n) == CHOOSE f : Is(f, n)
<1>1. \A n \in 0..3 : nth(b, n) = elem(n)[n]
  BY Zenon DEF nth
<1> HIDE DEF r0, r1, r2, r3
<1>2. ASSUME NEW n \in 0..3 PROVE Is(elem(n), n)
  <2> DEFINE f == [i \in 0..n |-> IF i = 0 THEN r0 ELSE IF i = 1 THEN r1
                                  ELSE IF i = 2 THEN r2 ELSE r3]
  <2>1. ASSUME NEW i \in 0..n
        PROVE  f[i] = readTLV(IF i = 0 THEN b ELSE f[i - 1].rest)
    <3>1. CASE i = 0
      BY <3>1 DEF r0
    <3>2. CASE i = 1
      <4>1. i - 1 = 0 /\ 0 \in 0..n
        BY <3>2
      <4>2. f[0] = r0 /\ f[i] = r1
        BY <3>2, <4>1
      <4> HIDE DEF f
      <4> QED BY <3>2, <4>1, <4>2 DEF r1
    <3>3. CASE i = 2
      <4>1. i - 1 = 1 /\ 1 \in 0..n
        BY <3>3
      <4>2. f[1] = r1 /\ f[i] = r2
        BY <3>3, <4>1
      <4> HIDE DEF f
      <4> QED BY <3>3, <4>1, <4>2 DEF r2
    <3>4. CASE i = 3
      <4>1. i - 1 = 2 /\ 2 \in 0..n
        BY <3>4
      <4>2. f[2] = r2 /\ f[i] = r3
        BY <3>4, <4>1
      <4> HIDE DEF f
      <4> QED BY <3>4, <4>1, <4>2 DEF r3
    <3>5. i = 0 \/ i = 1 \/ i = 2 \/ i = 3
      OBVIOUS
    <3> QED BY <3>1, <3>2, <3>3, <3>4, <3>5
  <2>2. f = [i \in 0..n |-> f[i]]
    OBVIOUS
  <2> HIDE DEF f
  <2>3. Is(f, n)
    BY <2>1, <2>2
  <2> HIDE DEF Is
  <2> QED BY <2>3, Zenon
<1> HIDE DEF elem
<1>3. ASSUME NEW n \in 0..3
      PROVE  /\ elem(n)[0] = r0
             /\ n >= 1 => elem(n)[1] = r1
             /\ n >= 2 => elem(n)[2] = r2
             /\ n >= 3 => elem(n)[3] = r3
  <2>1. elem(n)[0] = r0
    BY <1>2 DEF r0
  <2>2. n >= 1 => elem(n)[1] = r1
    <3> SUFFICES ASSUME n >= 1 PROVE elem(n)[1] = r1
      OBVIOUS
    <3>1. elem(n)[1] = readTLV(elem(n)[1 - 1].rest)
      BY <1>2
    <3> QED BY <2>1, <3>1 DEF r1
  <2>3. n >= 2 => elem(n)[2] = r2
    <3> SUFFICES ASSUME n >= 2 PROVE elem(n)[2] = r2
      OBVIOUS
    <3>1. elem(n)[2] = readTLV(elem(n)[2 - 1].rest)
      BY <1>2
    <3> QED BY <2>2, <3>1 DEF r2
  <2>4. n >= 3 => elem(n)[3] = r3
    <3> SUFFICES ASSUME n >= 3 PROVE elem(n)[3] = r3
      OBVIOUS
    <3>1. elem(n)[3] = readTLV(elem(n)[3 - 1].rest)
      BY <1>2
    <3> QED BY <2>3, <3>1 DEF r3
  <2> QED BY <2>1, <2>2, <2>3, <2>4
<1>4. nth(b, 0) = r0 /\ nth(b, 1) = r1 /\ nth(b, 2) = r2 /\ nth(b, 3) = r3
  <2>1. 0 \in 0..3 /\ 1 \in 0..3 /\ 2 \in 0..3 /\ 3 \in 0..3
    OBVIOUS
  <2> QED BY <1>1, <1>3, <2>1
<1> QED BY <1>4 DEF r0, r1, r2, r3

\* One element read, the next one is read from what is left.
LEMMA NthNext ==
  ASSUME NEW b, NEW tag, NEW value, NEW rest
  PROVE  LET x == Got(tag, value, rest) IN
           /\ readTLV(b) = x => nth(b, 0) = x
           /\ nth(b, 0) = x => nth(b, 1) = readTLV(rest)
           /\ nth(b, 1) = x => nth(b, 2) = readTLV(rest)
           /\ nth(b, 2) = x => nth(b, 3) = readTLV(rest)
           /\ x.value = value
<1> DEFINE x == Got(tag, value, rest)
<1>1. x.rest = rest /\ x.value = value
  BY DEF Got, Element
<1> HIDE DEF x
<1>2. /\ nth(b, 0) = readTLV(b)
      /\ nth(b, 1) = readTLV(nth(b, 0).rest)
      /\ nth(b, 2) = readTLV(nth(b, 1).rest)
      /\ nth(b, 3) = readTLV(nth(b, 2).rest)
  BY NthStep
<1>3. /\ readTLV(b) = x => nth(b, 0) = x
      /\ nth(b, 0) = x => nth(b, 1) = readTLV(rest)
      /\ nth(b, 1) = x => nth(b, 2) = readTLV(rest)
      /\ nth(b, 2) = x => nth(b, 3) = readTLV(rest)
  BY <1>1, <1>2
<1> QED BY <1>1, <1>3 DEF x

LEMMA NthOfOne ==
  ASSUME NEW e, NEW t, NEW v, IsElement(e, t, v)
  PROVE  nth(e, 0).value = v
<1>1. nth(e, 0) = Got(t, v, <<>>)
  BY ElementAlone, NthNext
<1> QED BY <1>1, NthNext

LEMMA NthOfTwo ==
  ASSUME NEW d, NEW s, NEW u, IsElement(d, s, u),
         NEW e, NEW t, NEW v, IsElement(e, t, v)
  PROVE  /\ nth(d \o e, 0).value = u
         /\ nth(d \o e, 1) = Got(t, v, <<>>)
<1>1. e \in Seq(Byte)
  BY DEF IsElement
<1>2. readTLV(d \o e) = Got(s, u, e)
  BY <1>1 DEF IsElement
<1>3. nth(d \o e, 0) = Got(s, u, e)
  BY <1>2, NthNext
<1>4. nth(d \o e, 1) = readTLV(e)
  BY <1>3, NthNext
<1>5. readTLV(e) = Got(t, v, <<>>)
  BY ElementAlone
<1> QED BY <1>3, <1>4, <1>5, NthNext

LEMMA NthOfThree ==
  ASSUME NEW c, NEW r, NEW w, IsElement(c, r, w),
         NEW d, NEW s, NEW u, IsElement(d, s, u),
         NEW e, NEW t, NEW v, IsElement(e, t, v)
  PROVE  nth(c \o d \o e, 2).value = v
<1> DEFINE b == c \o d \o e
<1>1. c \in Seq(Byte) /\ d \in Seq(Byte) /\ e \in Seq(Byte)
  BY DEF IsElement
<1>2. d \o e \in Seq(Byte)
  BY <1>1, TwoParts
<1>3. b = c \o (d \o e)
  BY <1>1, ConcatAssociative, SMTT(20)
<1>4. readTLV(b) = Got(r, w, d \o e)
  BY <1>2, <1>3 DEF IsElement
<1>5. readTLV(d \o e) = Got(s, u, e)
  BY <1>1 DEF IsElement
<1>6. readTLV(e) = Got(t, v, <<>>)
  BY ElementAlone
<1> HIDE DEF b
<1>7. nth(b, 0) = Got(r, w, d \o e)
  BY <1>4, NthNext, SMTT(20)
<1>8. nth(b, 1) = Got(s, u, e)
  BY <1>5, <1>7, NthNext, SMTT(20)
<1>9. nth(b, 2) = Got(t, v, <<>>)
  BY <1>6, <1>8, NthNext, SMTT(20)
<1>10. nth(b, 2).value = v
  BY <1>9, NthNext, SMTT(20)
<1> QED BY <1>10 DEF b

LEMMA NthOfFour ==
  ASSUME NEW a, NEW q, NEW z, IsElement(a, q, z),
         NEW c, NEW r, NEW w, IsElement(c, r, w),
         NEW d, NEW s, NEW u, IsElement(d, s, u),
         NEW e, NEW t, NEW v, IsElement(e, t, v)
  PROVE  nth(a \o c \o d \o e, 3).value = v
<1> DEFINE b  == a \o c \o d \o e
           b1 == c \o d \o e
<1>1. a \in Seq(Byte) /\ c \in Seq(Byte) /\ d \in Seq(Byte) /\ e \in Seq(Byte)
  BY DEF IsElement
<1>2. d \o e \in Seq(Byte) /\ c \o d \in Seq(Byte)
  BY <1>1, TwoParts
<1>3. b1 = c \o (d \o e)
  BY <1>1, ConcatAssociative, SMTT(20)
<1>4. b1 \in Seq(Byte)
  BY <1>1, <1>2, TwoParts
<1>5. b = a \o b1
  <2>1. a \o c \o d = a \o (c \o d)
    BY <1>1, ConcatAssociative, SMTT(20)
  <2>2. (a \o (c \o d)) \o e = a \o ((c \o d) \o e)
    <3>1. c \o d \in Seq(Byte)
      BY <1>2
    <3> DEFINE x == c \o d
    <3> HIDE DEF x
    <3>2. x \in Seq(Byte)
      BY <3>1 DEF x
    <3>3. (a \o x) \o e = a \o (x \o e)
      <4>1. a \in Seq(Byte) /\ x \in Seq(Byte) /\ e \in Seq(Byte)
        BY <1>1, <3>2
      <4> QED BY <4>1, ConcatAssociative, SMTT(20)
    <3> QED BY <3>3 DEF x
  <2> QED BY <2>1, <2>2
<1>6. readTLV(b) = Got(q, z, b1)
  BY <1>4, <1>5 DEF IsElement
<1>7. readTLV(b1) = Got(r, w, d \o e)
  BY <1>2, <1>3 DEF IsElement
<1>8. readTLV(d \o e) = Got(s, u, e)
  BY <1>1 DEF IsElement
<1>9. readTLV(e) = Got(t, v, <<>>)
  BY ElementAlone
<1> HIDE DEF b, b1
<1>10. nth(b, 0) = Got(q, z, b1)
  BY <1>6, NthNext, SMTT(20)
<1>11. nth(b, 1) = Got(r, w, d \o e)
  BY <1>7, <1>10, NthNext, SMTT(20)
<1>12. nth(b, 2) = Got(s, u, e)
  BY <1>8, <1>11, NthNext, SMTT(20)
<1>13. nth(b, 3) = Got(t, v, <<>>)
  BY <1>9, <1>12, NthNext, SMTT(20)
<1>14. nth(b, 3).value = v
  BY <1>13, NthNext, SMTT(20)
<1> QED BY <1>14 DEF b

-----------------------------------------------------------------------------
(***************************************************************************)
(* Requests and responses: the name and the value lie where they are       *)
(* looked for, whatever the length of the elements before them.            *)
(***************************************************************************)
Varbind(m) == nth(nth(nth(nth(m, 0).value, 2).value, 3).value, 0).value

LEMMA MessageShape ==
  ASSUME NEW m, NEW ver, NEW com, NEW pdu, NEW id1, NEW status, NEW index,
         NEW list, NEW vb, NEW vbody,
         NEW p, NEW t1, NEW t2, NEW t3, NEW t4, NEW t5, NEW t6, NEW v1, NEW v2,
         NEW v4, NEW v5, NEW v6,
         IsElement(m, 48, ver \o com \o pdu),
         IsElement(ver, t1, v1), IsElement(com, t2, v2),
         IsElement(pdu, t3, id1 \o status \o index \o list),
         IsElement(id1, t4, v4), IsElement(status, t5, v5),
         IsElement(index, t6, v6),
         IsElement(list, 48, vb), IsElement(vb, 48, vbody)
  PROVE  Varbind(m) = vbody
<1>1. nth(m, 0).value = ver \o com \o pdu
  BY NthOfOne
<1>2. nth(ver \o com \o pdu, 2).value = id1 \o status \o index \o list
  BY NthOfThree, ZenonT(30)
<1>3. nth(id1 \o status \o index \o list, 3).value = vb
  BY NthOfFour, SMTT(20)
<1>4. nth(vb, 0).value = vbody
  BY NthOfOne
<1> QED BY <1>1, <1>2, <1>3, <1>4 DEF Varbind
-----------------------------------------------------------------------------
(***************************************************************************)
(* The digits of a number.  digits is recursive; there is such a function  *)
(* because a number's division by 128 is a lesser number.                  *)
(***************************************************************************)
Digit == 0..127

LEMMA Division ==
  ASSUME NEW n \in Nat
  PROVE  /\ n \div 128 \in Nat /\ n % 128 \in Digit
         /\ n = 128 * (n \div 128) + (n % 128)
         /\ n >= 128 => n \div 128 < n /\ n \div 128 >= 1
         /\ n < 256 => n \div 128 < 128
BY DEF Digit

\* What digits is of n, if f has it for the lesser numbers.
DigitsBy(f, n) ==
    IF n < 128 THEN <<n>> ELSE Append(f[n \div 128], n % 128)

LEMMA DigitsByType ==
  ASSUME NEW f, NEW n \in Nat, n >= 128 => f[n \div 128] \in Seq(Digit)
  PROVE  DigitsBy(f, n) \in Seq(Digit)
<1>1. CASE n < 128
  <2>1. n \in Digit
    BY <1>1 DEF Digit
  <2>2. <<n>> \in Seq(Digit)
    BY <2>1
  <2> QED BY <1>1, <2>2 DEF DigitsBy
<1>2. CASE ~(n < 128)
  <2>1. f[n \div 128] \in Seq(Digit) /\ n % 128 \in Digit
    BY <1>2, Division
  <2>2. Append(f[n \div 128], n % 128) \in Seq(Digit)
    BY <2>1, AppendProperties
  <2> QED BY <1>2, <2>2 DEF DigitsBy
<1> QED BY <1>1, <1>2

DigitsUpTo(m) ==
    {f \in [0..m -> Seq(Digit)] : \A n \in 0..m : f[n] = DigitsBy(f, n)}

LEMMA DigitsExist ==
  ASSUME NEW m \in Nat
  PROVE  DigitsUpTo(m) # {}
<1> DEFINE S == {l \in Nat : DigitsUpTo(l) # {}}
<1>1. 0 \in S
  <2> DEFINE f == [n \in 0..0 |-> <<0>>]
  <2>1. 0 \in Digit
    BY DEF Digit
  <2>2. <<0>> \in Seq(Digit)
    BY <2>1
  <2>3. f \in [0..0 -> Seq(Digit)]
    BY <2>2
  <2>4. \A n \in 0..0 : f[n] = DigitsBy(f, n)
    BY DEF DigitsBy
  <2> HIDE DEF f
  <2>5. f \in DigitsUpTo(0)
    BY <2>3, <2>4 DEF DigitsUpTo
  <2> QED BY <2>5
<1>2. ASSUME NEW l \in S PROVE l + 1 \in S
  <2>1. PICK f \in [0..l -> Seq(Digit)] : \A n \in 0..l : f[n] = DigitsBy(f, n)
    BY DEF DigitsUpTo
  <2> DEFINE g == [n \in 0..(l + 1) |-> IF n = l + 1 THEN DigitsBy(f, l + 1)
                                        ELSE f[n]]
  <2>2. l \in Nat /\ l + 1 \in Nat /\ l + 1 \notin 0..l
    OBVIOUS
  <2>3. l + 1 >= 128 => (l + 1) \div 128 \in 0..l
    BY <2>2, Division
  <2>4. DigitsBy(f, l + 1) \in Seq(Digit)
    <3>1. l + 1 >= 128 => f[(l + 1) \div 128] \in Seq(Digit)
      BY <2>1, <2>3
    <3> QED BY <2>2, <3>1, DigitsByType
  <2>5. g \in [0..(l + 1) -> Seq(Digit)]
    BY <2>1, <2>2, <2>4
  <2>6. ASSUME NEW n \in 0..(l + 1) PROVE g[n] = DigitsBy(g, n)
    <3>1. n \in Nat /\ (n >= 128 => n \div 128 \in 0..l)
      <4>1. n \in Nat /\ n <= l + 1 /\ l \in Nat
        BY <2>2
      <4> QED BY <4>1, Division
    <3>2. n >= 128 => g[n \div 128] = f[n \div 128]
      BY <2>2, <3>1
    <3>3. g[n] = DigitsBy(f, n)
      BY <2>1, <2>2
    <3> HIDE DEF g
    <3> QED BY <3>1, <3>2, <3>3 DEF DigitsBy
  <2> HIDE DEF g
  <2>7. g \in DigitsUpTo(l + 1)
    BY <2>5, <2>6 DEF DigitsUpTo
  <2> QED BY <2>2, <2>7
<1> HIDE DEF S
<1>3. S \in SUBSET Nat
  BY DEF S
<1>4. S = Nat
  BY <1>1, <1>2, <1>3, SetInduction
<1> QED BY <1>4 DEF S

LEMMA DigitsUnique ==
  ASSUME NEW k \in Nat, NEW a \in Nat, NEW b \in Nat, k <= a, k <= b,
         NEW f \in DigitsUpTo(a), NEW g \in DigitsUpTo(b)
  PROVE  f[k] = g[k]
<1> DEFINE S == {l \in Nat : \A j \in 0..l : j <= a /\ j <= b => f[j] = g[j]}
<1>1. /\ \A n \in 0..a : f[n] = DigitsBy(f, n)
      /\ \A n \in 0..b : g[n] = DigitsBy(g, n)
  BY DEF DigitsUpTo
<1>2. 0 \in S
  <2>1. \A j \in 0..0 : j = 0
    OBVIOUS
  <2>2. f[0] = <<0>> /\ g[0] = <<0>>
    <3>1. 0 \in 0..a /\ 0 \in 0..b
      OBVIOUS
    <3>2. DigitsBy(f, 0) = <<0>> /\ DigitsBy(g, 0) = <<0>>
      BY DEF DigitsBy
    <3>3. f[0] = DigitsBy(f, 0) /\ g[0] = DigitsBy(g, 0)
      BY <1>1, <3>1
    <3> QED BY <3>2, <3>3
  <2> QED BY <2>1, <2>2
<1>3. ASSUME NEW l \in S PROVE l + 1 \in S
  <2>1. l \in Nat /\ \A j \in 0..l : j <= a /\ j <= b => f[j] = g[j]
    OBVIOUS
  <2>2. ASSUME l + 1 <= a, l + 1 <= b PROVE f[l + 1] = g[l + 1]
    <3>1. l + 1 \in 0..a /\ l + 1 \in 0..b
      BY <2>1, <2>2
    <3>2. l + 1 >= 128 => f[(l + 1) \div 128] = g[(l + 1) \div 128]
      <4> SUFFICES ASSUME l + 1 >= 128
                   PROVE  f[(l + 1) \div 128] = g[(l + 1) \div 128]
        OBVIOUS
      <4>1. l + 1 \in Nat
        BY <2>1
      <4>2. (l + 1) \div 128 \in Nat /\ (l + 1) \div 128 < l + 1
        BY <4>1, Division
      <4>3. (l + 1) \div 128 \in 0..l /\ (l + 1) \div 128 <= a
            /\ (l + 1) \div 128 <= b
        BY <2>1, <2>2, <4>2
      <4> QED BY <2>1, <4>3
    <3>3. f[l + 1] = DigitsBy(f, l + 1) /\ g[l + 1] = DigitsBy(g, l + 1)
      BY <1>1, <3>1
    <3>4. l + 1 < 128 \/ l + 1 >= 128
      BY <2>1
    <3> QED BY <3>2, <3>3, <3>4 DEF DigitsBy
  <2>3. \A j \in 0..(l + 1) : j \in 0..l \/ j = l + 1
    BY <2>1
  <2> QED BY <2>1, <2>2, <2>3
<1>4. S \in SUBSET Nat
  OBVIOUS
<1> HIDE DEF S
<1>5. S = Nat
  BY <1>2, <1>3, <1>4, SetInduction
<1>6. k \in 0..k
  OBVIOUS
<1> QED BY <1>5, <1>6 DEF S

\* digits is what its definition says it is.
LEMMA DigitsEquation ==
  /\ digits \in [Nat -> Seq(Digit)]
  /\ \A n \in Nat : digits[n] = DigitsBy(digits, n)
<1> DEFINE F(n) == CHOOSE f : f \in DigitsUpTo(n)
           g == [n \in Nat |-> F(n)[n]]
<1>1. ASSUME NEW n \in Nat PROVE F(n) \in DigitsUpTo(n)
  <2>1. \E f : f \in DigitsUpTo(n)
    BY DigitsExist
  <2> QED BY <2>1, Zenon
<1> HIDE DEF F
<1>2. ASSUME NEW n \in Nat PROVE g[n] \in Seq(Digit) /\ g[n] = DigitsBy(g, n)
  <2>1. F(n) \in [0..n -> Seq(Digit)] /\ n \in 0..n
        /\ \A j \in 0..n : F(n)[j] = DigitsBy(F(n), j)
    BY <1>1 DEF DigitsUpTo
  <2>2. F(n)[n] \in Seq(Digit) /\ F(n)[n] = DigitsBy(F(n), n)
    BY <2>1
  <2>3. n >= 128 => F(n)[n \div 128] = g[n \div 128]
    <3> SUFFICES ASSUME n >= 128 PROVE F(n)[n \div 128] = g[n \div 128]
      OBVIOUS
    <3> DEFINE k == n \div 128
    <3>1. k \in Nat /\ k < n
      BY Division
    <3> HIDE DEF k
    <3>2. F(n) \in DigitsUpTo(n) /\ F(k) \in DigitsUpTo(k) /\ k <= n /\ k <= k
      BY <1>1, <3>1
    <3>3. F(n)[k] = F(k)[k]
      BY <3>1, <3>2, DigitsUnique
    <3> QED BY <3>1, <3>3 DEF k
  <2>4. g[n] = F(n)[n]
    OBVIOUS
  <2> HIDE DEF g
  <2>5. n < 128 \/ n >= 128
    OBVIOUS
  <2> QED BY <2>2, <2>3, <2>4, <2>5 DEF DigitsBy
<1>3. g = [n \in Nat |-> IF n < 128 THEN <<n>>
                         ELSE Append(g[n \div 128], n % 128)]
  <2>1. g = [n \in Nat |-> g[n]]
    OBVIOUS
  <2> HIDE DEF g
  <2> QED BY <1>2, <2>1 DEF DigitsBy
<1> HIDE DEF g
<1>4. digits = [n \in Nat |-> IF n < 128 THEN <<n>>
                              ELSE Append(digits[n \div 128], n % 128)]
  BY <1>3, Zenon DEF digits
<1>5. ASSUME NEW n \in Nat PROVE digits[n] = DigitsBy(digits, n)
  BY <1>4 DEF DigitsBy
<1> DEFINE S == {l \in Nat : \A j \in 0..l : digits[j] = g[j]}
<1>6. 0 \in S
  <2>1. digits[0] = DigitsBy(digits, 0) /\ g[0] = DigitsBy(g, 0)
    BY <1>2, <1>5
  <2>2. digits[0] = g[0]
    BY <2>1 DEF DigitsBy
  <2>3. \A j \in 0..0 : j = 0
    OBVIOUS
  <2> QED BY <2>2, <2>3
<1>7. ASSUME NEW l \in S PROVE l + 1 \in S
  <2>1. l \in Nat /\ l + 1 \in Nat /\ \A j \in 0..l : digits[j] = g[j]
    OBVIOUS
  <2>2. l + 1 >= 128 => (l + 1) \div 128 \in 0..l
    BY <2>1, Division
  <2>3. digits[l + 1] = DigitsBy(digits, l + 1) /\ g[l + 1] = DigitsBy(g, l + 1)
    BY <1>2, <1>5, <2>1
  <2>4. l + 1 < 128 \/ l + 1 >= 128
    BY <2>1
  <2>5. digits[l + 1] = g[l + 1]
    BY <2>1, <2>2, <2>3, <2>4 DEF DigitsBy
  <2>6. \A j \in 0..(l + 1) : j \in 0..l \/ j = l + 1
    BY <2>1
  <2> QED BY <2>1, <2>5, <2>6
<1>8. S \in SUBSET Nat
  OBVIOUS
<1> HIDE DEF S
<1>9. S = Nat
  BY <1>6, <1>7, <1>8, SetInduction
<1>10. ASSUME NEW n \in Nat PROVE digits[n] \in Seq(Digit)
  <2>1. n \in 0..n
    OBVIOUS
  <2>2. digits[n] = g[n]
    BY <1>9, <2>1 DEF S
  <2> QED BY <1>2, <2>2
<1>11. digits = [n \in Nat |-> digits[n]]
  <2> DEFINE D(n) == IF n < 128 THEN <<n>> ELSE Append(digits[n \div 128], n % 128)
  <2>1. digits = [n \in Nat |-> D(n)]
    BY <1>4
  <2> HIDE DEF D
  <2> QED BY <2>1
<1> QED BY <1>5, <1>10, <1>11

\* One digit below 128, and otherwise the digits of the division by 128 and
\* one more.
LEMMA DigitsStep ==
  ASSUME NEW n \in Nat
  PROVE  /\ digits[n] \in Seq(Digit) /\ Len(digits[n]) \in Nat \ {0}
         /\ n < 128 => digits[n] = <<n>> /\ Len(digits[n]) = 1
         /\ n >= 128 =>
              /\ Len(digits[n]) = Len(digits[n \div 128]) + 1
              /\ \A i \in 1..Len(digits[n \div 128]) :
                   digits[n][i] = digits[n \div 128][i]
              /\ digits[n][Len(digits[n])] = n % 128
<1>1. digits[n] \in Seq(Digit) /\ Len(digits[n]) \in Nat
  BY DigitsEquation, LenProperties
<1>2. CASE n < 128
  <2>1. digits[n] = <<n>>
    BY <1>2, DigitsEquation DEF DigitsBy
  <2> QED BY <1>1, <1>2, <2>1
<1>3. CASE ~(n < 128)
  <2> DEFINE m == n \div 128
  <2>1. m \in Nat /\ n % 128 \in Digit
    BY Division
  <2>2. digits[n] = Append(digits[m], n % 128)
    BY <1>3, DigitsEquation DEF DigitsBy
  <2> HIDE DEF m
  <2>3. digits[m] \in Seq(Digit) /\ Len(digits[m]) \in Nat
    BY <2>1, DigitsEquation, LenProperties
  <2>4. /\ Len(digits[n]) = Len(digits[m]) + 1
        /\ \A i \in 1..Len(digits[m]) : digits[n][i] = digits[m][i]
        /\ digits[n][Len(digits[m]) + 1] = n % 128
    BY <2>1, <2>2, <2>3, AppendProperties
  <2>5. Len(digits[n]) # 0
    BY <2>3, <2>4
  <2> QED BY <1>1, <1>3, <2>4, <2>5 DEF m
<1> QED BY <1>2, <1>3

\* All digits of an arc but the last are marked.
LEMMA ArcBytes ==
  ASSUME NEW n \in Nat
  PROVE  /\ EncodeArc(n) \in Seq(Byte) /\ Len(EncodeArc(n)) = Len(digits[n])
         /\ \A i \in 1..Len(digits[n]) :
              EncodeArc(n)[i] = IF i < Len(digits[n]) THEN digits[n][i] + 128
                                ELSE digits[n][i]
<1> DEFINE d == digits[n]
<1>1. d \in Seq(Digit) /\ Len(d) \in Nat
  BY DigitsStep
<1>2. EncodeArc(n) = [i \in 1..Len(d) |-> IF i < Len(d) THEN d[i] + 128
                                          ELSE d[i]]
  BY DEF EncodeArc
<1> HIDE DEF d
<1>3. ASSUME NEW i \in 1..Len(d) PROVE d[i] + 128 \in Byte /\ d[i] \in Byte
  <2>1. d[i] \in Digit
    BY <1>1, ElementOfSeq
  <2>2. \A x \in Digit : x + 128 \in Byte /\ x \in Byte
    BY DEF Digit, Byte
  <2> QED BY <2>1, <2>2
<1>4. EncodeArc(n) \in Seq(Byte) /\ Len(EncodeArc(n)) = Len(d)
  <2>1. \A i \in 1..Len(d) : (IF i < Len(d) THEN d[i] + 128 ELSE d[i]) \in Byte
    BY <1>3
  <2> QED BY <1>1, <1>2, <2>1
<1>5. \A i \in 1..Len(d) :
        EncodeArc(n)[i] = IF i < Len(d) THEN d[i] + 128 ELSE d[i]
  BY <1>2
<1> QED BY <1>4, <1>5 DEF d

-----------------------------------------------------------------------------
(***************************************************************************)
(* What the printer makes of the bytes of a name.                          *)
(***************************************************************************)
Reading == [arcs : Seq(Nat), high : Nat]

\* One more byte: the end of an arc, or a marked digit of it.
AddByte(a, b) ==
    IF b < 128 THEN [arcs |-> Append(a.arcs, a.high + b), high |-> 0]
    ELSE [arcs |-> a.arcs, high |-> 128 * (a.high + b - 128)]
FirstByte(b) == [arcs |-> <<b \div 40, b % 40>>, high |-> 0]

LEMMA AddByteType ==
  ASSUME NEW a \in Reading, NEW b \in Byte
  PROVE  AddByte(a, b) \in Reading
<1>1. a.arcs \in Seq(Nat) /\ a.high \in Nat /\ b \in Nat
  BY DEF Reading, Byte
<1>2. CASE b < 128
  <2>1. a.high + b \in Nat
    BY <1>1
  <2>2. Append(a.arcs, a.high + b) \in Seq(Nat)
    BY <1>1, <2>1, AppendProperties
  <2>3. [arcs |-> Append(a.arcs, a.high + b), high |-> 0] \in Reading
    BY <2>2 DEF Reading
  <2> QED BY <1>2, <2>3 DEF AddByte
<1>3. CASE ~(b < 128)
  <2>1. 128 * (a.high + b - 128) \in Nat
    BY <1>1, <1>3
  <2>2. [arcs |-> a.arcs, high |-> 128 * (a.high + b - 128)] \in Reading
    BY <1>1, <2>1 DEF Reading
  <2> QED BY <1>3, <2>2 DEF AddByte
<1> QED BY <1>2, <1>3

LEMMA FirstByteType ==
  ASSUME NEW b \in Byte
  PROVE  FirstByte(b) \in Reading
<1>1. b \div 40 \in Nat /\ b % 40 \in Nat
  BY DEF Byte
<1>2. <<b \div 40, b % 40>> \in Seq(Nat)
  BY <1>1
<1> QED BY <1>2 DEF FirstByte, Reading

LEMMA ReadingsExist ==
  ASSUME NEW t \in Seq(Byte), NEW n \in Nat, n <= Len(t)
  PROVE  \E f \in [1..n -> Reading] :
           \A i \in 1..n : f[i] = IF i = 1 THEN FirstByte(t[i])
                                  ELSE AddByte(f[i - 1], t[i])
<1> DEFINE Good(m) == \E f \in [1..m -> Reading] :
             \A i \in 1..m : f[i] = IF i = 1 THEN FirstByte(t[i])
                                    ELSE AddByte(f[i - 1], t[i])
           S == {m \in Nat : m <= Len(t) => Good(m)}
<1>1. Good(0)
  <2> DEFINE f == [i \in 1..0 |-> <<>>]
  <2>1. f \in [1..0 -> Reading]
    OBVIOUS
  <2>2. \A i \in 1..0 : f[i] = IF i = 1 THEN FirstByte(t[i])
                               ELSE AddByte(f[i - 1], t[i])
    OBVIOUS
  <2> HIDE DEF f
  <2> QED BY <2>1, <2>2
<1>2. ASSUME NEW m \in Nat, m + 1 <= Len(t), Good(m) PROVE Good(m + 1)
  <2>1. PICK f \in [1..m -> Reading] :
          \A i \in 1..m : f[i] = IF i = 1 THEN FirstByte(t[i])
                                 ELSE AddByte(f[i - 1], t[i])
    BY <1>2
  <2> DEFINE last == IF m = 0 THEN FirstByte(t[m + 1])
                     ELSE AddByte(f[m], t[m + 1])
             g == [i \in 1..(m + 1) |-> IF i = m + 1 THEN last ELSE f[i]]
  <2>2. t[m + 1] \in Byte
    BY <1>2, LenProperties, ElementOfSeq
  <2>3. last \in Reading
    <3>1. CASE m = 0
      BY <2>2, <3>1, FirstByteType
    <3>2. CASE m # 0
      <4>1. f[m] \in Reading
        BY <2>1, <3>2
      <4> QED BY <2>2, <3>2, <4>1, AddByteType
    <3> QED BY <3>1, <3>2
  <2>4. last = IF m + 1 = 1 THEN FirstByte(t[m + 1]) ELSE AddByte(f[m], t[m + 1])
    OBVIOUS
  <2> HIDE DEF last
  <2>5. g \in [1..(m + 1) -> Reading]
    BY <2>1, <2>3
  <2>6. ASSUME NEW i \in 1..(m + 1)
        PROVE  g[i] = IF i = 1 THEN FirstByte(t[i]) ELSE AddByte(g[i - 1], t[i])
    <3>1. CASE i = m + 1
      <4>1. (m + 1) - 1 = m /\ (m + 1 # 1 => m \in 1..m /\ m # m + 1)
        OBVIOUS
      <4>2. m + 1 # 1 => g[m] = f[m]
        BY <4>1
      <4> QED BY <2>4, <3>1, <4>1, <4>2
    <3>2. CASE i # m + 1
      <4>1. i \in 1..m /\ (i # 1 => i - 1 \in 1..m /\ i - 1 # m + 1)
        BY <3>2
      <4>2. g[i] = f[i] /\ (i # 1 => g[i - 1] = f[i - 1])
        BY <3>2, <4>1
      <4> QED BY <2>1, <4>1, <4>2
    <3> QED BY <3>1, <3>2
  <2> HIDE DEF g
  <2> QED BY <2>5, <2>6
<1> HIDE DEF Good
<1>3. S \in SUBSET Nat /\ 0 \in S
  BY <1>1
<1>4. ASSUME NEW m \in S PROVE m + 1 \in S
  <2>1. m \in Nat /\ m + 1 \in Nat /\ (m <= Len(t) => Good(m))
    OBVIOUS
  <2>2. m + 1 <= Len(t) => m <= Len(t)
    BY <2>1, LenProperties
  <2> QED BY <1>2, <2>1, <2>2
<1> HIDE DEF S
<1>5. S = Nat
  BY <1>3, <1>4, SetInduction
<1>6. Good(n)
  BY <1>5 DEF S
<1> QED BY <1>6 DEF Good

\* Arcs reads the name byte by byte.
LEMMA ArcsSteps ==
  ASSUME NEW t \in Seq(Byte), t # <<>>
  PROVE  \E f \in [1..Len(t) -> Reading] :
           /\ Arcs(t) = f[Len(t)].arcs
           /\ f[1] = FirstByte(t[1])
           /\ \A i \in 2..Len(t) : f[i] = AddByte(f[i - 1], t[i])
<1> DEFINE n == Len(t)
           Start == [arcs |-> <<t[1] \div 40, t[1] % 40>>, high |-> 0]
           Add(a, b) == IF b < 128 THEN [arcs |-> Append(a.arcs, a.high + b),
                                         high |-> 0]
                        ELSE [a EXCEPT !.high = 128 * (@ + b - 128)]
           Step(h, i) == IF i = 1 THEN Start ELSE Add(h[i - 1], t[i])
           g == CHOOSE h : h = [i \in 1..n |-> Step(h, i)]
<1>1. n \in Nat /\ n # 0
  BY LenProperties, EmptySeq
<1>2. Arcs(t) = g[n].arcs
  BY Zenon DEF Arcs
<1>3. ASSUME NEW a \in Reading, NEW b \in Byte PROVE Add(a, b) = AddByte(a, b)
  <2>1. CASE b < 128
    BY <2>1 DEF AddByte
  <2>2. CASE ~(b < 128)
    <3>1. a = [arcs |-> a.arcs, high |-> a.high]
      BY DEF Reading
    <3>2. [a EXCEPT !.high = 128 * (@ + b - 128)]
            = [arcs |-> a.arcs, high |-> 128 * (a.high + b - 128)]
      BY <3>1
    <3> QED BY <2>2, <3>2 DEF AddByte
  <2> QED BY <2>1, <2>2
<1>4. Start = FirstByte(t[1])
  BY DEF FirstByte
<1> HIDE DEF Start, Add
<1>5. PICK f \in [1..n -> Reading] :
        \A i \in 1..n : f[i] = IF i = 1 THEN FirstByte(t[i])
                               ELSE AddByte(f[i - 1], t[i])
  <2>1. Len(t) \in Nat /\ Len(t) <= Len(t)
    BY <1>1
  <2> QED BY <2>1, ReadingsExist
<1>6. \A i \in 1..n : t[i] \in Byte
  BY ElementOfSeq
<1>7. ASSUME NEW i \in 1..n PROVE f[i] = Step(f, i)
  <2>1. CASE i = 1
    BY <1>4, <1>5, <2>1
  <2>2. CASE i # 1
    <3>1. i - 1 \in 1..n
      BY <2>2
    <3>2. f[i - 1] \in Reading /\ t[i] \in Byte
      BY <1>5, <1>6, <3>1
    <3>3. Add(f[i - 1], t[i]) = AddByte(f[i - 1], t[i])
      BY <1>3, <3>2
    <3> QED BY <1>5, <2>2, <3>3
  <2> QED BY <2>1, <2>2
<1>8. f = [i \in 1..n |-> Step(f, i)]
  <2>1. f = [i \in 1..n |-> f[i]]
    BY <1>5
  <2> HIDE DEF Step
  <2> QED BY <1>7, <2>1
<1>9. g = [i \in 1..n |-> Step(g, i)]
  <2> HIDE DEF Step
  <2> QED BY <1>8, Zenon
<1> HIDE DEF g
<1> DEFINE S == {m \in Nat : m \in 1..n => g[m] = f[m]}
<1>10. S \in SUBSET Nat /\ 0 \in S
  OBVIOUS
<1>11. ASSUME NEW m \in S PROVE m + 1 \in S
  <2> SUFFICES ASSUME m + 1 \in 1..n PROVE g[m + 1] = f[m + 1]
    OBVIOUS
  <2>1. g[m + 1] = Step(g, m + 1) /\ f[m + 1] = Step(f, m + 1)
    <3> HIDE DEF Step
    <3> QED BY <1>7, <1>9
  <2>2. m + 1 # 1 => (m + 1) - 1 = m /\ g[m] = f[m]
    OBVIOUS
  <2> QED BY <2>1, <2>2
<1> HIDE DEF S
<1>12. S = Nat
  BY <1>10, <1>11, SetInduction
<1>13. n \in 1..n /\ n \in S
  BY <1>1, <1>12
<1>14. g[n] = f[n]
  BY <1>13 DEF S
<1>15. f[1] = FirstByte(t[1])
       /\ \A i \in 2..n : f[i] = AddByte(f[i - 1], t[i])
  <2>1. 1 \in 1..n /\ \A i \in 2..n : i \in 1..n /\ i # 1
    BY <1>1
  <2> QED BY <1>5, <2>1
<1> QED BY <1>2, <1>14, <1>15

\* What one byte adds to what was read: a marked digit, and the last of an arc.
LEMMA MarkedByte ==
  ASSUME NEW A, NEW h \in Nat, NEW c \in Digit
  PROVE  AddByte([arcs |-> A, high |-> h], c + 128)
           = [arcs |-> A, high |-> 128 * (h + c)]
<1>1. c \in Nat /\ ~(c + 128 < 128) /\ h + (c + 128) - 128 = h + c
  BY DEF Digit
<1> DEFINE a == [arcs |-> A, high |-> h]
<1>2. a.arcs = A /\ a.high = h
  OBVIOUS
<1> HIDE DEF a
<1>3. AddByte(a, c + 128) = [arcs |-> A, high |-> 128 * (h + (c + 128) - 128)]
  BY <1>1, <1>2 DEF AddByte
<1> QED BY <1>1, <1>3 DEF a

LEMMA LastByte ==
  ASSUME NEW A, NEW h \in Nat, NEW c \in Digit
  PROVE  AddByte([arcs |-> A, high |-> h], c)
           = [arcs |-> Append(A, h + c), high |-> 0]
<1>1. c \in Nat /\ c < 128
  BY DEF Digit
<1> DEFINE a == [arcs |-> A, high |-> h]
<1>2. a.arcs = A /\ a.high = h
  OBVIOUS
<1> HIDE DEF a
<1>3. AddByte(a, c) = [arcs |-> Append(A, h + c), high |-> 0]
  BY <1>1, <1>2 DEF AddByte
<1> QED BY <1>3 DEF a

\* Reading goes on byte by byte.
Follows(f, t) == \A i \in 2..Len(t) : f[i] = AddByte(f[i - 1], t[i])

\* What was read when p bytes have been taken.
At(f, p, A, h) == f[p] = [arcs |-> A, high |-> h]

LEMMA NextMarked ==
  ASSUME NEW t \in Seq(Byte), NEW f, Follows(f, t), NEW A,
         NEW p \in Nat, p >= 1, p + 1 <= Len(t), NEW h \in Nat,
         At(f, p, A, h), NEW c \in Digit, t[p + 1] = c + 128
  PROVE  At(f, p + 1, A, 128 * (h + c))
<1> DEFINE a == [arcs |-> A, high |-> h]
<1>1. p + 1 \in 2..Len(t) /\ (p + 1) - 1 = p
  BY LenProperties
<1>2. AddByte(a, c + 128) = [arcs |-> A, high |-> 128 * (h + c)]
  <2> SUFFICES \A x \in Nat, d \in Digit :
                 AddByte([arcs |-> A, high |-> x], d + 128)
                   = [arcs |-> A, high |-> 128 * (x + d)]
    OBVIOUS
  <2> QED BY MarkedByte
<1>3. f[p] = a
  BY DEF At
<1> HIDE DEF a
<1>4. f[p + 1] = AddByte(a, c + 128)
  BY <1>1, <1>3 DEF Follows
<1> QED BY <1>2, <1>4, Zenon DEF At

LEMMA NextLast ==
  ASSUME NEW t \in Seq(Byte), NEW f, Follows(f, t), NEW A,
         NEW p \in Nat, p >= 1, p + 1 <= Len(t), NEW h \in Nat,
         At(f, p, A, h), NEW c \in Digit, t[p + 1] = c
  PROVE  At(f, p + 1, Append(A, h + c), 0)
<1>1. p + 1 \in 2..Len(t) /\ (p + 1) - 1 = p
  BY LenProperties
<1>2. f[p + 1] = AddByte([arcs |-> A, high |-> h], c)
  BY <1>1 DEF Follows, At
<1>3. AddByte([arcs |-> A, high |-> h], c)
        = [arcs |-> Append(A, h + c), high |-> 0]
  BY LastByte, Zenon
<1> QED BY <1>2, <1>3, Zenon DEF At

\* The digits of a number, all marked, leave 128 times the number.
Marked(t, s, k) ==
    \A i \in 1..Len(digits[k]) :
      s + i \in 1..Len(t) /\ t[s + i] = digits[k][i] + 128
Left(f, s, A, k) == At(f, s + Len(digits[k]), A, 128 * k)

LEMMA MarkedDigit ==
  ASSUME NEW t \in Seq(Byte), NEW f, Follows(f, t),
         NEW s \in Nat, s >= 1, NEW A, At(f, s, A, 0),
         NEW k \in Nat, k < 128, Marked(t, s, k)
  PROVE  Left(f, s, A, k)
<1>1. digits[k] = <<k>> /\ Len(digits[k]) = 1 /\ k \in Digit
  BY DigitsStep DEF Digit
<1>2. 1 \in 1..Len(digits[k]) /\ digits[k][1] = k
  BY <1>1
<1>3. s + 1 \in 1..Len(t) /\ t[s + 1] = k + 128
  BY <1>2 DEF Marked
<1>4. s + 1 <= Len(t) /\ 0 \in Nat
  BY <1>3
<1>5. At(f, s + 1, A, 128 * (0 + k))
  <2>1. s + 1 <= Len(t) /\ 0 \in Nat /\ k \in Digit /\ t[s + 1] = k + 128
    BY <1>1, <1>3, <1>4
  <2> QED BY <2>1, NextMarked, ZenonT(30)
<1>6. 0 + k = k
  OBVIOUS
<1> QED BY <1>1, <1>5, <1>6 DEF Left

\* The digits of k but the last are those of the division.
LEMMA DigitsBefore ==
  ASSUME NEW k \in Nat, k >= 128
  PROVE  LET m == k \div 128
             l == Len(digits[m])
             c == k % 128
         IN  /\ m \in Nat /\ c \in Digit /\ l \in Nat \ {0}
             /\ k = (128 * m) + c
             /\ Len(digits[k]) = l + 1
             /\ \A i \in 1..l : i \in 1..Len(digits[k]) /\ i < Len(digits[k])
                                /\ digits[k][i] = digits[m][i]
             /\ l + 1 \in 1..Len(digits[k]) /\ digits[k][l + 1] = c
<1> DEFINE m == k \div 128
           l == Len(digits[m])
           c == k % 128
<1>1. m \in Nat /\ c \in Digit /\ k = (128 * m) + c
  BY Division
<1>2. l \in Nat \ {0}
  BY <1>1, DigitsStep
<1>3. /\ Len(digits[k]) = l + 1
      /\ \A i \in 1..l : digits[k][i] = digits[m][i]
      /\ digits[k][Len(digits[k])] = c
  BY DigitsStep
<1> HIDE DEF m, l, c
<1>4. \A i \in 1..l : i \in 1..(l + 1) /\ i < l + 1
  BY <1>2
<1>5. l + 1 \in 1..(l + 1)
  BY <1>2
<1>6. /\ m \in Nat /\ c \in Digit /\ l \in Nat \ {0}
      /\ k = (128 * m) + c
      /\ Len(digits[k]) = l + 1
      /\ \A i \in 1..l : i \in 1..Len(digits[k]) /\ i < Len(digits[k])
                         /\ digits[k][i] = digits[m][i]
      /\ l + 1 \in 1..Len(digits[k]) /\ digits[k][l + 1] = c
  BY <1>1, <1>2, <1>3, <1>4, <1>5
<1> QED BY <1>6 DEF m, l, c

LEMMA MarkedMore ==
  ASSUME NEW t \in Seq(Byte), NEW f, Follows(f, t),
         NEW s \in Nat, s >= 1, NEW A,
         NEW k \in Nat, k >= 128, Marked(t, s, k),
         Marked(t, s, k \div 128) => Left(f, s, A, k \div 128)
  PROVE  Left(f, s, A, k)
<1> DEFINE m == k \div 128
           l == Len(digits[m])
           c == k % 128
<1>1. /\ m \in Nat /\ c \in Digit /\ l \in Nat \ {0}
      /\ k = (128 * m) + c
      /\ Len(digits[k]) = l + 1
      /\ \A i \in 1..l : i \in 1..Len(digits[k]) /\ i < Len(digits[k])
                         /\ digits[k][i] = digits[m][i]
      /\ l + 1 \in 1..Len(digits[k]) /\ digits[k][l + 1] = c
  BY DigitsBefore
<1>2. Marked(t, s, m)
  <2>1. \A i \in 1..Len(digits[m]) : i \in 1..Len(digits[k]) /\ i < Len(digits[k])
                                     /\ digits[k][i] = digits[m][i]
    BY <1>1
  <2>2. \A i \in 1..Len(digits[k]) :
          s + i \in 1..Len(t) /\ t[s + i] = digits[k][i] + 128
    BY DEF Marked
  <2> HIDE DEF m
  <2> QED BY <2>1, <2>2, Zenon DEF Marked
<1>3. Left(f, s, A, m)
  BY <1>2
<1>4. At(f, s + l, A, 128 * m)
  BY <1>3 DEF Left
<1> HIDE DEF m, l, c
<1>5. s + (l + 1) \in 1..Len(t) /\ t[s + (l + 1)] = c + 128
  <2>1. l + 1 \in 1..Len(digits[k]) /\ digits[k][l + 1] = c
    BY <1>1
  <2> QED BY <2>1 DEF Marked
<1>6. s + l \in Nat /\ s + l >= 1 /\ (s + l) + 1 = s + (l + 1)
  <2>1. l \in Nat
    BY <1>1
  <2> QED BY <2>1
<1>7. 128 * m \in Nat
  BY <1>1
<1>8. (s + l) + 1 <= Len(t) /\ t[(s + l) + 1] = c + 128
  BY <1>5, <1>6
<1>9. c \in Digit
  BY <1>1
<1>10. At(f, (s + l) + 1, A, 128 * ((128 * m) + c))
  <2> DEFINE p == s + l
             h == 128 * m
  <2>1. p \in Nat /\ p >= 1 /\ h \in Nat /\ At(f, p, A, h)
        /\ p + 1 <= Len(t) /\ t[p + 1] = c + 128
    BY <1>4, <1>6, <1>7, <1>8
  <2> HIDE DEF p, h
  <2>2. At(f, p + 1, A, 128 * (h + c))
    BY <1>9, <2>1, NextMarked
  <2> QED BY <2>2 DEF p, h
<1>11. s + Len(digits[k]) = (s + l) + 1 /\ (128 * m) + c = k
  BY <1>1, <1>6
<1> QED BY <1>10, <1>11 DEF Left

LEMMA MarkedDigits ==
  ASSUME NEW t \in Seq(Byte), NEW f, Follows(f, t),
         NEW s \in Nat, s >= 1, NEW A, At(f, s, A, 0),
         NEW n \in Nat, Marked(t, s, n)
  PROVE  Left(f, s, A, n)
<1> DEFINE S == {l \in Nat : \A k \in 0..l : Marked(t, s, k) => Left(f, s, A, k)}
<1>1. 0 \in S
  <2>1. \A k \in 0..0 : k \in Nat /\ k < 128
    OBVIOUS
  <2> QED BY <2>1, MarkedDigit
<1>2. ASSUME NEW l \in S PROVE l + 1 \in S
  <2>1. l \in Nat /\ l + 1 \in Nat
        /\ \A k \in 0..l : Marked(t, s, k) => Left(f, s, A, k)
    OBVIOUS
  <2>2. ASSUME Marked(t, s, l + 1) PROVE Left(f, s, A, l + 1)
    <3>1. CASE l + 1 < 128
      BY <2>1, <2>2, <3>1, MarkedDigit
    <3>2. CASE l + 1 >= 128
      <4>1. (l + 1) \div 128 \in 0..l
        BY <2>1, <3>2, Division
      <4>2. Marked(t, s, (l + 1) \div 128) => Left(f, s, A, (l + 1) \div 128)
        BY <2>1, <4>1
      <4> QED BY <2>1, <2>2, <3>2, <4>2, MarkedMore
    <3> QED BY <2>1, <3>1, <3>2
  <2>3. \A k \in 0..(l + 1) : k \in 0..l \/ k = l + 1
    BY <2>1
  <2> QED BY <2>1, <2>2, <2>3
<1>3. S \in SUBSET Nat
  OBVIOUS
<1> HIDE DEF S
<1>4. S = Nat
  BY <1>1, <1>2, <1>3, SetInduction
<1>5. n \in 0..n /\ n \in S
  BY <1>4
<1> QED BY <1>5 DEF S

\* An encoded arc is read as that arc.
ArcAt(t, s, n) ==
    \A i \in 1..Len(digits[n]) :
      s + i \in 1..Len(t) /\ t[s + i] = EncodeArc(n)[i]

LEMMA ArcRead ==
  ASSUME NEW t \in Seq(Byte), NEW f, Follows(f, t),
         NEW s \in Nat, s >= 1, NEW A, At(f, s, A, 0),
         NEW n \in Nat, ArcAt(t, s, n)
  PROVE  At(f, s + Len(digits[n]), Append(A, n), 0)
<1>1. \A i \in 1..Len(digits[n]) :
        EncodeArc(n)[i] = IF i < Len(digits[n]) THEN digits[n][i] + 128
                          ELSE digits[n][i]
  BY ArcBytes
<1>2. CASE n < 128
  <2>1. digits[n] = <<n>> /\ Len(digits[n]) = 1 /\ n \in Digit
    BY <1>2, DigitsStep DEF Digit
  <2>2. 1 \in 1..Len(digits[n]) /\ ~(1 < Len(digits[n])) /\ digits[n][1] = n
    BY <2>1
  <2>3. s + 1 <= Len(t) /\ t[s + 1] = n
    BY <1>1, <2>2 DEF ArcAt
  <2>4. At(f, s + 1, Append(A, 0 + n), 0)
    <3>1. 0 \in Nat
      OBVIOUS
    <3> QED BY <2>1, <2>3, <3>1, NextLast
  <2>5. 0 + n = n
    OBVIOUS
  <2> QED BY <2>1, <2>4, <2>5
<1>3. CASE n >= 128
  <2> DEFINE m == n \div 128
             l == Len(digits[m])
             c == n % 128
  <2>1. /\ m \in Nat /\ c \in Digit /\ l \in Nat \ {0}
        /\ n = (128 * m) + c
        /\ Len(digits[n]) = l + 1
        /\ \A i \in 1..l : i \in 1..Len(digits[n]) /\ i < Len(digits[n])
                           /\ digits[n][i] = digits[m][i]
        /\ l + 1 \in 1..Len(digits[n]) /\ digits[n][l + 1] = c
    BY <1>3, DigitsBefore
  <2> HIDE DEF m, l, c
  <2>2. Marked(t, s, m)
    <3>1. ASSUME NEW i \in 1..l
          PROVE  s + i \in 1..Len(t) /\ t[s + i] = digits[m][i] + 128
      <4>1. i \in 1..Len(digits[n]) /\ i < Len(digits[n])
            /\ digits[n][i] = digits[m][i]
        BY <2>1
      <4>2. EncodeArc(n)[i] = digits[m][i] + 128
        BY <1>1, <4>1
      <4> QED BY <4>1, <4>2 DEF ArcAt
    <3> QED BY <3>1 DEF Marked, l
  <2>3. m \in Nat
    BY <2>1
  <2>4. At(f, s + l, A, 128 * m)
    <3>1. Left(f, s, A, m)
      BY <2>2, <2>3, MarkedDigits
    <3> QED BY <3>1 DEF Left, l
  <2>5. s + (l + 1) \in 1..Len(t) /\ t[s + (l + 1)] = c
    <3>1. l + 1 \in 1..Len(digits[n]) /\ ~(l + 1 < Len(digits[n]))
      BY <2>1
    <3> QED BY <1>1, <2>1, <3>1 DEF ArcAt
  <2>6. s + l \in Nat /\ s + l >= 1 /\ (s + l) + 1 = s + (l + 1)
    BY <2>1
  <2>7. 128 * m \in Nat
    BY <2>1
  <2>8. (s + l) + 1 <= Len(t) /\ t[(s + l) + 1] = c
    BY <2>5, <2>6
  <2>9. c \in Digit
    BY <2>1
  <2>10. At(f, (s + l) + 1, Append(A, (128 * m) + c), 0)
    <3> DEFINE p == s + l
               h == 128 * m
    <3>1. p \in Nat /\ p >= 1 /\ h \in Nat /\ At(f, p, A, h)
          /\ p + 1 <= Len(t) /\ t[p + 1] = c
      BY <2>4, <2>6, <2>7, <2>8
    <3> HIDE DEF p, h
    <3>2. At(f, p + 1, Append(A, h + c), 0)
      BY <2>9, <3>1, NextLast
    <3> QED BY <3>2 DEF p, h
  <2>11. s + Len(digits[n]) = (s + l) + 1 /\ (128 * m) + c = n
    BY <2>1, <2>6
  <2> QED BY <2>10, <2>11
<1>4. n < 128 \/ n >= 128
  OBVIOUS
<1> QED BY <1>2, <1>3, <1>4

\* One element more of a sequence.
LEMMA OneMore ==
  ASSUME NEW s \in Seq(Nat), NEW k \in 1..(Len(s) - 1)
  PROVE  Append(SubSeq(s, 1, k), s[k + 1]) = SubSeq(s, 1, k + 1)
<1>1. Len(s) \in Nat /\ 1 \in 1..Len(s) /\ k + 1 \in 1..Len(s)
      /\ (k + 1) - 1 = k
  BY LenProperties
<1>2. SubSeq(s, 1, k + 1) = SubSeq(s, 1, (k + 1) - 1) \o <<s[k + 1]>>
  BY <1>1, SubSeqRecursiveSecond
<1>3. /\ SubSeq(s, 1, k) \in Seq(Nat) /\ s[k + 1] \in Nat
  <2>1. \A i \in 1..k : s[i] \in Nat
    BY <1>1, ElementOfSeq
  <2>2. 1 \in Int /\ k \in Int
    OBVIOUS
  <2> QED BY <1>1, <2>1, <2>2, SubSeqProperties, ElementOfSeq
<1>4. Append(SubSeq(s, 1, k), s[k + 1]) = SubSeq(s, 1, k) \o <<s[k + 1]>>
  BY <1>3, AppendIsConcat
<1> QED BY <1>1, <1>2, <1>4

-----------------------------------------------------------------------------
(***************************************************************************)
(* A whole name: its first two arcs in one byte, the others one by one.    *)
(***************************************************************************)
Encoded(oid) == [i \in 1..(Len(oid) - 2) |-> EncodeArc(oid[i + 2])]
Name(oid)    == <<(40 * oid[1]) + oid[2]>> \o FlattenSeq(Encoded(oid))

LEMMA EncodedParts ==
  ASSUME NEW oid \in Seq(Nat), Len(oid) >= 3
  PROVE  LET cs == Encoded(oid) IN
           /\ cs \in Seq(Seq(Byte)) /\ cs # <<>> /\ Len(cs) = Len(oid) - 2
           /\ Len(cs) \in Nat
           /\ \A j \in 1..Len(cs) : /\ oid[j + 2] \in Nat
                                    /\ cs[j] = EncodeArc(oid[j + 2])
                                    /\ Len(cs[j]) = Len(digits[oid[j + 2]])
<1> DEFINE cs == Encoded(oid)
           n  == Len(oid) - 2
<1>1. Len(oid) \in Nat /\ n \in Nat /\ n # 0
  <2>1. Len(oid) \in Nat
    BY LenProperties
  <2>2. \A l \in Nat : l >= 3 => l - 2 \in Nat /\ l - 2 # 0
    OBVIOUS
  <2> QED BY <2>1, <2>2
<1>2. ASSUME NEW j \in 1..n
      PROVE  /\ oid[j + 2] \in Nat /\ EncodeArc(oid[j + 2]) \in Seq(Byte)
             /\ Len(EncodeArc(oid[j + 2])) = Len(digits[oid[j + 2]])
  <2>1. j + 2 \in 1..Len(oid)
    BY <1>1
  <2>2. oid[j + 2] \in Nat
    BY <2>1, ElementOfSeq
  <2> QED BY <2>2, ArcBytes
<1>3. cs = [i \in 1..n |-> EncodeArc(oid[i + 2])]
  BY DEF Encoded
<1> HIDE DEF n, cs
<1>4. cs \in Seq(Seq(Byte)) /\ Len(cs) = n
  BY <1>1, <1>2, <1>3
<1>5. cs # <<>>
  BY <1>1, <1>4, EmptySeq
<1>6. \A j \in 1..n : cs[j] = EncodeArc(oid[j + 2])
  BY <1>3
<1>7. /\ cs \in Seq(Seq(Byte)) /\ cs # <<>> /\ Len(cs) = n /\ Len(cs) \in Nat
      /\ \A j \in 1..Len(cs) : /\ oid[j + 2] \in Nat
                               /\ cs[j] = EncodeArc(oid[j + 2])
                               /\ Len(cs[j]) = Len(digits[oid[j + 2]])
  BY <1>1, <1>2, <1>4, <1>5, <1>6
<1> QED BY <1>7 DEF cs, n

\* The bytes of a name are the first byte and then those of each arc.
LEMMA NameBytes ==
  ASSUME NEW oid \in Seq(Nat), Len(oid) >= 3, (40 * oid[1]) + oid[2] \in Byte
  PROVE  LET cs == Encoded(oid)
             t  == Name(oid)
         IN  /\ t \in Seq(Byte) /\ Len(t) = 1 + upto(cs, Len(cs))
             /\ t[1] = (40 * oid[1]) + oid[2]
             /\ \A j \in 0..(Len(cs) - 1) : ArcAt(t, 1 + upto(cs, j), oid[j + 3])
<1> DEFINE cs == Encoded(oid)
           fl == FlattenSeq(cs)
           h  == <<(40 * oid[1]) + oid[2]>>
           t  == h \o fl
<1>1. /\ cs \in Seq(Seq(Byte)) /\ cs # <<>> /\ Len(cs) \in Nat
      /\ \A j \in 1..Len(cs) : /\ cs[j] = EncodeArc(oid[j + 2])
                               /\ Len(cs[j]) = Len(digits[oid[j + 2]])
  BY EncodedParts
<1> HIDE DEF cs
<1>2. /\ fl \in Seq(Byte) /\ Len(fl) = upto(cs, Len(cs))
      /\ \A k \in 1..Len(cs) : \A j \in 1..Len(cs[k]) :
           fl[upto(cs, k - 1) + j] = cs[k][j]
  BY <1>1, FlatBytes
<1>3. h \in Seq(Byte) /\ Len(h) = 1 /\ h[1] = (40 * oid[1]) + oid[2]
  OBVIOUS
<1> HIDE DEF fl, h
<1>4. /\ t \in Seq(Byte) /\ Len(t) = 1 + Len(fl)
      /\ \A i \in 1..Len(h) : t[i] = h[i]
      /\ \A i \in 1..Len(fl) : t[1 + i] = fl[i]
  <2>1. fl \in Seq(Byte) /\ h \in Seq(Byte)
    BY <1>2, <1>3
  <2>2. /\ t \in Seq(Byte) /\ Len(t) = Len(h) + Len(fl)
        /\ \A i \in 1..Len(h) : t[i] = h[i]
        /\ \A i \in 1..Len(fl) : t[Len(h) + i] = fl[i]
    BY <2>1, TwoParts
  <2> HIDE DEF t
  <2> QED BY <1>3, <2>2
<1>5. t[1] = (40 * oid[1]) + oid[2]
  BY <1>3, <1>4
<1>6. t = Name(oid)
  BY DEF Name, h, fl, cs
<1> HIDE DEF t
<1>7. ASSUME NEW j \in 0..(Len(cs) - 1)
      PROVE  ArcAt(t, 1 + upto(cs, j), oid[j + 3])
  <2> DEFINE k == j + 1
  <2>1. j \in Nat /\ k \in 1..Len(cs) /\ j + 3 = k + 2 /\ k - 1 = j
        /\ k \in 0..Len(cs) /\ j \in 0..Len(cs)
    BY <1>1
  <2> HIDE DEF k
  <2>2. /\ upto(cs, j) \in Nat
        /\ upto(cs, k) = upto(cs, j) + Len(cs[k])
        /\ upto(cs, k) <= Len(fl)
    BY <1>1, <1>2, <2>1, UpStep
  <2>3. Len(cs[k]) = Len(digits[oid[j + 3]]) /\ cs[k] = EncodeArc(oid[j + 3])
    BY <1>1, <2>1
  <2>4. Len(cs[k]) \in Nat
    BY <1>1, <2>1, LengthsOfParts
  <2>5. ASSUME NEW i \in 1..Len(cs[k])
        PROVE  /\ (1 + upto(cs, j)) + i \in 1..Len(t)
               /\ t[(1 + upto(cs, j)) + i] = EncodeArc(oid[j + 3])[i]
    <3> DEFINE u == upto(cs, j)
    <3>1. u \in Nat /\ u + Len(cs[k]) <= Len(fl) /\ i \in Nat /\ Len(fl) \in Nat
      BY <1>2, <2>2, <2>4, LenProperties
    <3>2. fl[u + i] = cs[k][i]
      BY <1>2, <2>1
    <3> HIDE DEF u
    <3>3. u + i \in 1..Len(fl) /\ (1 + u) + i = 1 + (u + i)
          /\ 1 + (u + i) \in 1..(1 + Len(fl))
      BY <2>4, <3>1
    <3>4. t[1 + (u + i)] = cs[k][i]
      BY <1>4, <3>2, <3>3
    <3> QED BY <1>4, <2>3, <3>3, <3>4 DEF u
  <2> QED BY <2>3, <2>5 DEF ArcAt
<1>8. /\ t \in Seq(Byte) /\ Len(t) = 1 + upto(cs, Len(cs))
      /\ t[1] = (40 * oid[1]) + oid[2]
      /\ \A j \in 0..(Len(cs) - 1) : ArcAt(t, 1 + upto(cs, j), oid[j + 3])
  BY <1>2, <1>4, <1>5, <1>7
<1> QED BY <1>6, <1>8 DEF cs

\* A name is read as the arcs it was made of.
LEMMA NameRead ==
  ASSUME NEW oid \in Seq(Nat), Len(oid) >= 3, oid[1] = 1, oid[2] = 3
  PROVE  Arcs(Name(oid)) = oid
<1> DEFINE cs == Encoded(oid)
           t  == Name(oid)
           Sub(j) == SubSeq(oid, 1, j + 2)
<1>1. (40 * oid[1]) + oid[2] = 43 /\ 43 \in Byte
  BY DEF Byte
<1>2. /\ t \in Seq(Byte) /\ Len(t) = 1 + upto(cs, Len(cs)) /\ t[1] = 43
      /\ \A j \in 0..(Len(cs) - 1) : ArcAt(t, 1 + upto(cs, j), oid[j + 3])
  BY <1>1, NameBytes
<1>3. /\ cs \in Seq(Seq(Byte)) /\ Len(cs) = Len(oid) - 2 /\ Len(cs) \in Nat
      /\ \A j \in 1..Len(cs) : /\ oid[j + 2] \in Nat
                               /\ Len(cs[j]) = Len(digits[oid[j + 2]])
  BY EncodedParts
<1> HIDE DEF cs, t
<1>4. /\ upto(cs, 0) = 0
      /\ \A i \in 0..Len(cs) : upto(cs, i) \in Nat
      /\ \A i \in 1..Len(cs) : upto(cs, i) = upto(cs, i - 1) + Len(cs[i])
  BY <1>3, UpStep
<1>5. t # <<>>
  <2>1. Len(cs) \in 0..Len(cs)
    BY <1>3
  <2>2. upto(cs, Len(cs)) \in Nat
    BY <1>4, <2>1
  <2>3. Len(t) # 0
    BY <1>2, <2>2
  <2> QED BY <1>2, <2>3, EmptySeq
<1>6. PICK f \in [1..Len(t) -> Reading] :
        /\ Arcs(t) = f[Len(t)].arcs
        /\ f[1] = FirstByte(t[1])
        /\ \A i \in 2..Len(t) : f[i] = AddByte(f[i - 1], t[i])
  BY <1>2, <1>5, ArcsSteps
<1>7. Follows(f, t)
  BY <1>6 DEF Follows
<1> DEFINE S == {j \in Nat : j <= Len(cs) => At(f, 1 + upto(cs, j), Sub(j), 0)}
<1>8. 0 \in S
  <2>1. f[1] = [arcs |-> <<1, 3>>, high |-> 0]
    <3>1. 43 \div 40 = 1 /\ 43 % 40 = 3
      OBVIOUS
    <3> QED BY <1>2, <1>6, <3>1 DEF FirstByte
  <2>2. SubSeq(oid, 1, 2) = <<1, 3>>
    <3>1. Len(oid) \in Nat /\ \A i \in 1..2 : oid[i] \in Nat
      BY LenProperties
    <3>2. SubSeq(oid, 1, 2) \in Seq(Nat) /\ Len(SubSeq(oid, 1, 2)) = 2
          /\ SubSeq(oid, 1, 2)[1] = 1 /\ SubSeq(oid, 1, 2)[2] = 3
      BY <3>1, SubSeqProperties
    <3>3. <<1, 3>> \in Seq(Nat) /\ Len(<<1, 3>>) = 2
          /\ <<1, 3>>[1] = 1 /\ <<1, 3>>[2] = 3
      OBVIOUS
    <3>4. \A i \in 1..2 : i = 1 \/ i = 2
      OBVIOUS
    <3>5. \A i \in 1..2 : SubSeq(oid, 1, 2)[i] = <<1, 3>>[i]
      BY <3>2, <3>3, <3>4
    <3> QED BY <3>2, <3>3, <3>5, SeqEqual
  <2>3. 1 + upto(cs, 0) = 1 /\ 0 + 2 = 2
    BY <1>4
  <2>4. At(f, 1 + upto(cs, 0), Sub(0), 0)
    BY <2>1, <2>2, <2>3 DEF At
  <2> QED BY <2>4
<1>9. ASSUME NEW j \in S PROVE j + 1 \in S
  <2> SUFFICES ASSUME j + 1 <= Len(cs)
               PROVE  At(f, 1 + upto(cs, j + 1), Sub(j + 1), 0)
    OBVIOUS
  <2> DEFINE u == upto(cs, j)
             n == oid[j + 3]
  <2>1. /\ j \in Nat /\ j <= Len(cs) /\ j \in 0..(Len(cs) - 1) /\ j \in 0..Len(cs)
        /\ j + 1 \in 1..Len(cs) /\ (j + 1) - 1 = j /\ (j + 1) + 2 = j + 3
        /\ j + 2 \in 1..(Len(oid) - 1) /\ (j + 2) + 1 = j + 3
    BY <1>3
  <2>2. At(f, 1 + u, Sub(j), 0)
    BY <2>1
  <2>3. u \in Nat /\ upto(cs, j + 1) = u + Len(digits[n]) /\ n \in Nat
    BY <1>3, <1>4, <2>1
  <2>4. ArcAt(t, 1 + u, n)
    BY <1>2, <2>1
  <2>5. Append(SubSeq(oid, 1, j + 2), n) = SubSeq(oid, 1, j + 3)
    BY <2>1, OneMore
  <2>6. Append(Sub(j), n) = Sub(j + 1)
    BY <2>1, <2>5
  <2>7. Len(digits[n]) \in Nat
    BY <2>3, DigitsStep
  <2> HIDE DEF u, n, Sub
  <2>8. 1 + u \in Nat /\ 1 + u >= 1
        /\ (1 + u) + Len(digits[n]) = 1 + upto(cs, j + 1)
    <3>1. \A a, b \in Nat : 1 + a \in Nat /\ 1 + a >= 1
                            /\ (1 + a) + b = 1 + (a + b)
      OBVIOUS
    <3>2. u \in Nat /\ Len(digits[n]) \in Nat
      BY <2>3, <2>7
    <3>3. /\ 1 + u \in Nat /\ 1 + u >= 1
          /\ (1 + u) + Len(digits[n]) = 1 + (u + Len(digits[n]))
      BY <3>1, <3>2, Zenon
    <3> QED BY <2>3, <3>3, Zenon
  <2>9. At(f, (1 + u) + Len(digits[n]), Append(Sub(j), n), 0)
    <3> DEFINE s == 1 + u
    <3>1. s \in Nat /\ s >= 1 /\ At(f, s, Sub(j), 0) /\ ArcAt(t, s, n)
      BY <2>2, <2>4, <2>8
    <3> HIDE DEF s
    <3>2. t \in Seq(Byte) /\ n \in Nat
      BY <1>2, <2>3
    <3>3. At(f, s + Len(digits[n]), Append(Sub(j), n), 0)
      BY <1>7, <3>1, <3>2, ArcRead
    <3> QED BY <3>3 DEF s
  <2> QED BY <2>6, <2>8, <2>9
<1>10. S \in SUBSET Nat
  OBVIOUS
<1> HIDE DEF S
<1>11. S = Nat
  BY <1>8, <1>9, <1>10, SetInduction
<1>12. At(f, Len(t), Sub(Len(cs)), 0)
  <2>1. Len(cs) \in S /\ Len(cs) <= Len(cs)
    BY <1>3, <1>11
  <2> QED BY <1>2, <2>1 DEF S
<1>13. Sub(Len(cs)) = oid
  <2>1. Len(cs) + 2 = Len(oid)
    BY <1>3, LenProperties
  <2> QED BY <2>1, SubSeqFull
<1> QED BY <1>6, <1>12, <1>13 DEF At, t

\* The name asked for: no arc of oidBase needs more than two bytes.
Own(n) == Append(oidBase, n)

Short(n) == Len(digits[n]) <= 2

LEMMA ShortArc ==
  ASSUME NEW n \in Byte
  PROVE  Short(n)
<1>0. n \in Nat /\ n < 256
  BY DEF Byte
<1>1. CASE n < 128
  <2>1. Len(digits[n]) = 1
    BY <1>0, <1>1, DigitsStep
  <2> QED BY <2>1 DEF Short
<1>2. CASE n >= 128
  <2> DEFINE m == n \div 128
  <2>1. m \in Nat /\ m < 128
    BY <1>0, Division
  <2>2. Len(digits[n]) = Len(digits[m]) + 1
    BY <1>0, <1>2, DigitsStep
  <2> HIDE DEF m
  <2>3. Len(digits[m]) = 1
    BY <2>1, DigitsStep
  <2> QED BY <2>2, <2>3 DEF Short
<1>3. n < 128 \/ n >= 128
  BY <1>0
<1> QED BY <1>1, <1>2, <1>3

LEMMA BaseArcs ==
  /\ oidBase \in Seq(Nat) /\ Len(oidBase) = 16
  /\ oidBase[1] = 1 /\ oidBase[2] = 3
  /\ \A k \in 1..16 : Short(oidBase[k])
<1>1. oidBase \in Seq(Nat) /\ Len(oidBase) = 16
      /\ oidBase[1] = 1 /\ oidBase[2] = 3
  BY DEF oidBase
<1>2. oidBase \in Seq(Byte)
  <2>1. /\ 1 \in Byte /\ 2 \in Byte /\ 3 \in Byte /\ 4 \in Byte /\ 5 \in Byte
        /\ 6 \in Byte /\ 7 \in Byte /\ 11 \in Byte /\ 81 \in Byte
        /\ 236 \in Byte
    BY DEF Byte
  <2> QED BY <2>1 DEF oidBase
<1>3. \A k \in 1..16 : oidBase[k] \in Byte
  BY <1>1, <1>2, ElementOfSeq
<1>4. \A k \in 1..16 : Short(oidBase[k])
  BY <1>3, ShortArc
<1> QED BY <1>1, <1>4

LEMMA OwnArcs ==
  ASSUME NEW n \in Nat
  PROVE  /\ Own(n) \in Seq(Nat) /\ Len(Own(n)) = 17
         /\ Own(n)[1] = 1 /\ Own(n)[2] = 3 /\ Own(n)[17] = n
         /\ \A k \in 1..16 : Short(Own(n)[k])
<1>1. oidBase \in Seq(Nat) /\ Len(oidBase) = 16
  BY BaseArcs
<1>2. /\ Own(n) \in Seq(Nat) /\ Len(Own(n)) = Len(oidBase) + 1
      /\ \A k \in 1..Len(oidBase) : Own(n)[k] = oidBase[k]
      /\ Own(n)[Len(oidBase) + 1] = n
  <2>1. oidBase \in Seq(Nat)
    BY <1>1
  <2>2. /\ Append(oidBase, n) \in Seq(Nat)
        /\ Len(Append(oidBase, n)) = Len(oidBase) + 1
        /\ \A k \in 1..Len(oidBase) : Append(oidBase, n)[k] = oidBase[k]
        /\ Append(oidBase, n)[Len(oidBase) + 1] = n
    BY <2>1, AppendProperties
  <2> QED BY <2>2, Zenon DEF Own
<1>3. Len(Own(n)) = 17 /\ Own(n)[17] = n
      /\ \A k \in 1..16 : Own(n)[k] = oidBase[k]
  BY <1>1, <1>2
<1>4. 1 \in 1..16 /\ 2 \in 1..16
  OBVIOUS
<1>5. \A k \in 1..16 : Short(Own(n)[k])
  BY <1>3, BaseArcs
<1> QED BY <1>2, <1>3, <1>4, <1>5, BaseArcs

LEMMA OwnName ==
  ASSUME NEW n \in Nat, Len(digits[n]) <= 9
  PROVE  /\ Name(Own(n)) \in Seq(Byte) /\ Len(Name(Own(n))) <= 38
         /\ Arcs(Name(Own(n))) = Own(n)
         /\ encodeOID(Own(n)) = tlv(6, Name(Own(n)))
<1> DEFINE oid == Own(n)
           cs  == Encoded(oid)
<1>1. /\ oid \in Seq(Nat) /\ Len(oid) = 17
      /\ oid[1] = 1 /\ oid[2] = 3 /\ oid[17] = n
      /\ \A k \in 1..16 : Short(oid[k])
  BY OwnArcs
<1> HIDE DEF oid
<1>2. Len(oid) >= 3 /\ (40 * oid[1]) + oid[2] = 43 /\ 43 \in Byte
  BY <1>1 DEF Byte
<1>3. /\ cs \in Seq(Seq(Byte)) /\ Len(cs) = 15
      /\ \A j \in 1..15 : Len(cs[j]) = Len(digits[oid[j + 2]])
  <2>1. /\ cs \in Seq(Seq(Byte)) /\ Len(cs) = Len(oid) - 2
        /\ \A j \in 1..Len(cs) : Len(cs[j]) = Len(digits[oid[j + 2]])
    <3>1. oid \in Seq(Nat) /\ Len(oid) >= 3
      BY <1>1, <1>2
    <3> QED BY <3>1, EncodedParts
  <2>2. Len(cs) = 15
    BY <1>1, <2>1
  <2> QED BY <2>1, <2>2
<1>4. Name(oid) \in Seq(Byte) /\ Len(Name(oid)) = 1 + upto(cs, 15)
  <2>1. oid \in Seq(Nat) /\ Len(oid) >= 3 /\ (40 * oid[1]) + oid[2] \in Byte
    BY <1>1, <1>2
  <2>2. Name(oid) \in Seq(Byte) /\ Len(Name(oid)) = 1 + upto(cs, Len(cs))
    BY <2>1, NameBytes
  <2> QED BY <1>3, <2>2
<1> HIDE DEF cs
<1>5. /\ upto(cs, 0) = 0
      /\ \A i \in 0..15 : upto(cs, i) \in Nat
      /\ \A i \in 1..15 : upto(cs, i) = upto(cs, i - 1) + Len(cs[i])
  BY <1>3, UpStep
<1>15. ASSUME NEW k \in 1..16 PROVE Len(digits[oid[k]]) <= 2
                                   /\ Len(digits[oid[k]]) \in Nat
  <2>1. Short(oid[k])
    BY <1>1
  <2>2. k \in 1..Len(oid) /\ oid \in Seq(Nat)
    BY <1>1
  <2>3. oid[k] \in Nat
    BY <2>2, ElementOfSeq
  <2> QED BY <2>1, <2>3, DigitsStep DEF Short
<1> DEFINE S == {j \in Nat : j <= 14 => upto(cs, j) <= 2 * j}
<1>6. 0 \in S
  BY <1>5
<1>7. ASSUME NEW j \in S PROVE j + 1 \in S
  <2> SUFFICES ASSUME j + 1 <= 14 PROVE upto(cs, j + 1) <= 2 * (j + 1)
    OBVIOUS
  <2>1. /\ j \in Nat /\ upto(cs, j) <= 2 * j /\ j \in 0..15
        /\ j + 1 \in 1..15 /\ (j + 1) - 1 = j
        /\ (j + 1) + 2 = j + 3 /\ j + 3 \in 1..16
    OBVIOUS
  <2>2. upto(cs, j + 1) = upto(cs, j) + Len(digits[oid[j + 3]])
    BY <1>3, <1>5, <2>1
  <2>4. Len(digits[oid[j + 3]]) <= 2 /\ Len(digits[oid[j + 3]]) \in Nat
    BY <1>15, <2>1
  <2>5. upto(cs, j) \in Nat
    BY <1>5, <2>1
  <2>6. \A a, b, c \in Nat : a <= 2 * c /\ b <= 2 => a + b <= 2 * (c + 1)
    OBVIOUS
  <2> HIDE DEF S
  <2> QED BY <2>1, <2>2, <2>4, <2>5, <2>6
<1>8. S \in SUBSET Nat
  OBVIOUS
<1> HIDE DEF S
<1>9. S = Nat
  BY <1>6, <1>7, <1>8, SetInduction
<1>10. upto(cs, 14) <= 28
  <2>1. 14 \in S
    BY <1>9
  <2>2. upto(cs, 14) <= 2 * 14
    BY <2>1 DEF S
  <2> QED BY <2>2
<1>11. upto(cs, 15) = upto(cs, 14) + Len(digits[n])
  <2>1. 15 \in 1..15 /\ 15 - 1 = 14 /\ 15 + 2 = 17
    OBVIOUS
  <2>2. Len(cs[15]) = Len(digits[oid[17]]) /\ oid[17] = n
    BY <1>1, <1>3, <2>1
  <2>3. upto(cs, 15) = upto(cs, 14) + Len(cs[15])
    BY <1>5, <2>1
  <2> QED BY <2>2, <2>3
<1>12. Len(Name(oid)) <= 38
  <2>1. upto(cs, 14) \in Nat /\ Len(digits[n]) \in Nat
    <3>1. 14 \in 0..15
      OBVIOUS
    <3>2. upto(cs, 14) \in Nat
      BY <1>5, <3>1
    <3> QED BY <3>2, DigitsStep
  <2> QED BY <1>4, <1>10, <1>11, <2>1
<1>13. Arcs(Name(oid)) = oid
  <2>1. oid \in Seq(Nat) /\ Len(oid) >= 3 /\ oid[1] = 1 /\ oid[2] = 3
    BY <1>1, <1>2
  <2> QED BY <2>1, NameRead
<1>14. encodeOID(oid) = tlv(6, Name(oid))
  BY DEF encodeOID, Name, Encoded
<1> QED BY <1>4, <1>12, <1>13, <1>14 DEF oid
-----------------------------------------------------------------------------
(***************************************************************************)
(* A message, whoever made it: a name and a value in a varbind, in a list, *)
(* in a PDU.                                                               *)
(***************************************************************************)
LEMMA SmallElements ==
  /\ \A b \in Byte : IsElement(INTEGER(b), 2, <<b>>) /\ Len(INTEGER(b)) = 3
  /\ IsElement(tlv(4, community), 4, community) /\ Len(tlv(4, community)) = 8
  /\ IsElement(<<5, 0>>, 5, <<>>) /\ Len(<<5, 0>>) = 2
<1>1. 2 \in Byte /\ 4 \in Byte /\ 5 \in Byte
  BY DEF Byte
<1>2. ASSUME NEW b \in Byte
      PROVE  IsElement(INTEGER(b), 2, <<b>>) /\ Len(INTEGER(b)) = 3
  <2> DEFINE v == <<b>>
  <2>1. v \in Seq(Byte) /\ Len(v) = 1
    OBVIOUS
  <2> HIDE DEF v
  <2>2. Len(v) < 128 /\ Len(v) + 2 = 3
    BY <2>1
  <2>3. IsElement(tlv(2, v), 2, v) /\ Len(tlv(2, v)) = 3
    BY <1>1, <2>1, <2>2, TlvElement
  <2> QED BY <2>3 DEF INTEGER, v
<1>3. IsElement(tlv(4, community), 4, community) /\ Len(tlv(4, community)) = 8
  <2>1. community \in Seq(Byte) /\ Len(community) = 6
    <3>1. 112 \in Byte /\ 117 \in Byte /\ 98 \in Byte /\ 108 \in Byte
          /\ 105 \in Byte /\ 99 \in Byte
      BY DEF Byte
    <3> QED BY <3>1 DEF community
  <2>2. Len(community) < 128 /\ Len(community) + 2 = 8
    BY <2>1
  <2> QED BY <1>1, <2>1, <2>2, TlvElement
<1>4. IsElement(<<5, 0>>, 5, <<>>) /\ Len(<<5, 0>>) = 2
  <2>1. <<>> \in Seq(Byte) /\ Len(<<>>) = 0
    BY EmptySeq
  <2>2. IsElement(tlv(5, <<>>), 5, <<>>)
    <3> DEFINE v == <<>>
    <3>1. v \in Seq(Byte) /\ Len(v) < 128
      BY <2>1
    <3> HIDE DEF v
    <3>2. IsElement(tlv(5, v), 5, v)
      BY <1>1, <3>1, TlvElement
    <3> QED BY <3>2 DEF v
  <2>3. tlv(5, <<>>) = <<5, 0>>
    <3>1. 0 % 256 = 0
      OBVIOUS
    <3>2. tlv(5, <<>>) = <<5, 0>> \o <<>>
      BY <2>1, <3>1 DEF tlv
    <3>3. <<5, 0>> \in Seq(Nat)
      OBVIOUS
    <3>4. <<5, 0>> \o <<>> = <<5, 0>>
      BY <3>3, ConcatEmptySeq
    <3> QED BY <3>2, <3>4
  <2>4. Len(<<5, 0>>) = 2
    OBVIOUS
  <2> QED BY <2>2, <2>3, <2>4
<1> QED BY <1>2, <1>3, <1>4

VarbindOf(form, name, value) == Wrap(form, 48, tlv(6, name) \o value)
PDU(form, tag, rid, st, ix, name, value) ==
    Wrap(form, tag, rid \o INTEGER(st) \o INTEGER(ix)
                    \o Wrap(form, 48, VarbindOf(form, name, value)))
Body(form, tag, rid, st, ix, name, value) ==
    INTEGER(0) \o tlv(4, community) \o PDU(form, tag, rid, st, ix, name, value)

\* An element no longer than this.
Fits(e, tag, value, max) == IsElement(e, tag, value) /\ Len(e) <= max

LEMMA WrapFits ==
  ASSUME NEW form \in 0..2, NEW tag \in Byte, NEW v \in Seq(Byte),
         NEW max \in 0..100, Len(v) <= max
  PROVE  Fits(Wrap(form, tag, v), tag, v, max + 4)
<1>1. Len(v) \in Nat /\ Len(v) < 128
  BY LenProperties
<1>2. IsElement(Wrap(form, tag, v), tag, v)
      /\ Len(Wrap(form, tag, v)) <= Len(v) + 4
  BY <1>1, WrapElement
<1>3. Wrap(form, tag, v) \in Seq(Byte)
  BY <1>2 DEF IsElement
<1>4. Len(Wrap(form, tag, v)) \in Nat
  BY <1>3, LenProperties
<1>5. Len(Wrap(form, tag, v)) <= max + 4
  BY <1>1, <1>2, <1>4
<1> QED BY <1>2, <1>5 DEF Fits

\* Two elements one after the other.
LEMMA BothFit ==
  ASSUME NEW d \in Seq(Byte), NEW e \in Seq(Byte), NEW a \in Nat, NEW b \in Nat,
         Len(d) <= a, Len(e) <= b
  PROVE  d \o e \in Seq(Byte) /\ Len(d \o e) <= a + b
<1>1. /\ d \o e \in Seq(Byte) /\ Len(d \o e) = Len(d) + Len(e)
      /\ Len(d) \in Nat /\ Len(e) \in Nat
  BY TwoParts
<1> QED BY <1>1

\* The name and the value are read as they were put in.
Carries(msg, name, val) == NameIn(msg) = name /\ nth(Varbind(msg), 1) = val

LEMMA MessageRead ==
  ASSUME NEW form \in 0..2, NEW tag \in Byte,
         NEW rid, NEW t4, NEW v4, IsElement(rid, t4, v4), Len(rid) <= 6,
         NEW st \in Byte, NEW ix \in Byte,
         NEW name \in Seq(Byte), Len(name) <= 38,
         NEW value, NEW tv, NEW vv, IsElement(value, tv, vv), Len(value) <= 6
  PROVE  LET body == Body(form, tag, rid, st, ix, name, value)
             msg  == Wrap(form, 48, body)
         IN  /\ body \in Seq(Byte) /\ Len(body) < 128
             /\ Carries(msg, name, Got(tv, vv, <<>>))
<1> DEFINE vbody == tlv(6, name) \o value
           vb    == VarbindOf(form, name, value)
           list  == Wrap(form, 48, vb)
           three == rid \o INTEGER(st) \o INTEGER(ix)
           pbody == three \o list
           pdu   == PDU(form, tag, rid, st, ix, name, value)
           two   == INTEGER(0) \o tlv(4, community)
           body  == Body(form, tag, rid, st, ix, name, value)
           msg   == Wrap(form, 48, body)
<1>1. 6 \in Byte /\ 48 \in Byte /\ 0 \in Byte
  BY DEF Byte
<1>2. /\ IsElement(INTEGER(st), 2, <<st>>) /\ Len(INTEGER(st)) = 3
      /\ IsElement(INTEGER(ix), 2, <<ix>>) /\ Len(INTEGER(ix)) = 3
      /\ IsElement(INTEGER(0), 2, <<0>>) /\ Len(INTEGER(0)) = 3
      /\ IsElement(tlv(4, community), 4, community) /\ Len(tlv(4, community)) = 8
  BY <1>1, SmallElements
<1>3. /\ INTEGER(st) \in Seq(Byte) /\ INTEGER(ix) \in Seq(Byte)
      /\ INTEGER(0) \in Seq(Byte) /\ tlv(4, community) \in Seq(Byte)
      /\ rid \in Seq(Byte) /\ value \in Seq(Byte)
  BY <1>2 DEF IsElement
<1>4. IsElement(tlv(6, name), 6, name) /\ Len(tlv(6, name)) <= 40
  <2>1. Len(name) \in Nat /\ Len(name) < 128
    BY LenProperties
  <2>2. IsElement(tlv(6, name), 6, name) /\ Len(tlv(6, name)) = Len(name) + 2
    BY <1>1, <2>1, TlvElement
  <2> QED BY <2>1, <2>2
<1>5. vbody \in Seq(Byte) /\ Len(vbody) <= 46
  <2>1. tlv(6, name) \in Seq(Byte)
    BY <1>4 DEF IsElement
  <2>2. 40 \in Nat /\ 6 \in Nat /\ 40 + 6 = 46
    OBVIOUS
  <2>3. vbody \in Seq(Byte) /\ Len(vbody) <= 40 + 6
    BY <1>3, <1>4, <2>1, <2>2, BothFit
  <2> QED BY <2>2, <2>3
<1>6. Fits(vb, 48, vbody, 50)
  <2>1. 46 \in 0..100 /\ 46 + 4 = 50
    OBVIOUS
  <2>2. vb = Wrap(form, 48, vbody)
    BY DEF VarbindOf
  <2> HIDE DEF vbody, vb
  <2>3. Fits(Wrap(form, 48, vbody), 48, vbody, 46 + 4)
    BY <1>1, <1>5, <2>1, WrapFits
  <2> QED BY <2>1, <2>2, <2>3
<1> HIDE DEF vb
<1>7. Fits(list, 48, vb, 54)
  <2>1. vb \in Seq(Byte) /\ Len(vb) <= 50
    BY <1>6 DEF Fits, IsElement
  <2>2. 50 \in 0..100 /\ 50 + 4 = 54
    OBVIOUS
  <2>3. Fits(list, 48, vb, 50 + 4)
    BY <1>1, <2>1, <2>2, WrapFits
  <2> QED BY <2>2, <2>3
<1> HIDE DEF list
<1>8. pbody \in Seq(Byte) /\ Len(pbody) <= 66
  <2>1. list \in Seq(Byte) /\ Len(list) <= 54
    BY <1>7 DEF Fits, IsElement
  <2>2. 3 \in Nat /\ 6 \in Nat /\ 9 \in Nat /\ 12 \in Nat /\ 54 \in Nat
        /\ 6 + 3 = 9 /\ 9 + 3 = 12 /\ 12 + 54 = 66
    OBVIOUS
  <2>3. Len(INTEGER(st)) <= 3 /\ Len(INTEGER(ix)) <= 3
    BY <1>2
  <2>4. rid \o INTEGER(st) \in Seq(Byte) /\ Len(rid \o INTEGER(st)) <= 6 + 3
    BY <1>3, <2>2, <2>3, BothFit
  <2>5. three \in Seq(Byte) /\ Len(three) <= 9 + 3
    <3> DEFINE x == rid \o INTEGER(st)
    <3>1. x \in Seq(Byte) /\ Len(x) <= 9
      BY <2>2, <2>4
    <3> HIDE DEF x
    <3>2. x \o INTEGER(ix) \in Seq(Byte) /\ Len(x \o INTEGER(ix)) <= 9 + 3
      BY <1>3, <2>2, <2>3, <3>1, BothFit
    <3> QED BY <3>2 DEF x
  <2> HIDE DEF three
  <2>6. three \o list \in Seq(Byte) /\ Len(three \o list) <= 12 + 54
    BY <2>1, <2>2, <2>5, BothFit
  <2> QED BY <2>2, <2>6
<1>9. Fits(pdu, tag, pbody, 70)
  <2>1. 66 \in 0..100 /\ 66 + 4 = 70
    OBVIOUS
  <2>2. pdu = Wrap(form, tag, pbody)
    BY DEF PDU, list, vb
  <2> HIDE DEF pbody, pdu
  <2>3. Fits(Wrap(form, tag, pbody), tag, pbody, 66 + 4)
    BY <1>8, <2>1, WrapFits
  <2> QED BY <2>1, <2>2, <2>3
<1> HIDE DEF pdu
<1>10. body \in Seq(Byte) /\ Len(body) <= 81
  <2>1. pdu \in Seq(Byte) /\ Len(pdu) <= 70
    BY <1>9 DEF Fits, IsElement
  <2>2. 3 \in Nat /\ 8 \in Nat /\ 11 \in Nat /\ 70 \in Nat
        /\ 3 + 8 = 11 /\ 11 + 70 = 81
    OBVIOUS
  <2>3. Len(INTEGER(0)) <= 3 /\ Len(tlv(4, community)) <= 8
    <3> DEFINE x == Len(INTEGER(0))
               y == Len(tlv(4, community))
    <3>1. x = 3 /\ y = 8
      BY <1>2
    <3> HIDE DEF x, y
    <3>2. x <= 3 /\ y <= 8
      BY <3>1
    <3> QED BY <3>2 DEF x, y
  <2>4. two \in Seq(Byte) /\ Len(two) <= 3 + 8
    BY <1>3, <2>2, <2>3, BothFit
  <2> HIDE DEF two
  <2>5. two \o pdu \in Seq(Byte) /\ Len(two \o pdu) <= 11 + 70
    BY <2>1, <2>2, <2>4, BothFit
  <2>6. body = two \o pdu
    BY DEF Body, pdu, two
  <2> QED BY <2>2, <2>5, <2>6
<1>11. body = INTEGER(0) \o tlv(4, community) \o pdu
  BY DEF Body, pdu
<1> HIDE DEF body
<1>12. Fits(msg, 48, body, 85)
  <2>1. 81 \in 0..100 /\ 81 + 4 = 85
    OBVIOUS
  <2>2. Fits(Wrap(form, 48, body), 48, body, 81 + 4)
    BY <1>1, <1>10, <2>1, WrapFits
  <2> QED BY <2>1, <2>2
<1> HIDE DEF msg
<1>13. Varbind(msg) = vbody
  <2>1. /\ IsElement(msg, 48, INTEGER(0) \o tlv(4, community) \o pdu)
        /\ IsElement(pdu, tag, rid \o INTEGER(st) \o INTEGER(ix) \o list)
        /\ IsElement(list, 48, vb) /\ IsElement(vb, 48, vbody)
    BY <1>6, <1>7, <1>9, <1>11, <1>12 DEF Fits
  <2> HIDE DEF vbody
  <2> QED BY <1>2, <2>1, MessageShape
<1>14. /\ nth(vbody, 0).value = name
       /\ nth(vbody, 1) = Got(tv, vv, <<>>)
  BY <1>4, NthOfTwo
<1>15. NameIn(msg) = nth(Varbind(msg), 0).value
  BY DEF NameIn, Varbind
<1>16. Len(body) < 128
  <2>1. Len(body) \in Nat
    BY <1>10, LenProperties
  <2> QED BY <1>10, <2>1
<1> HIDE DEF vbody
<1>17. /\ body \in Seq(Byte) /\ Len(body) < 128
       /\ Carries(msg, name, Got(tv, vv, <<>>))
  BY <1>10, <1>13, <1>14, <1>15, <1>16 DEF Carries
<1> QED BY <1>17 DEF body, msg

\* A request names the entry of the InstanceID it is made for.
LEMMA RequestRead ==
  ASSUME NEW n \in Nat, Len(digits[n]) <= 9
  PROVE  /\ NameIn(buildGetRequest(n)) = Name(Own(n))
         /\ Arcs(NameIn(buildGetRequest(n))) = Own(n)
<1> DEFINE name == Name(Own(n))
           body == Body(0, 160, INTEGER(1), 0, 0, name, <<5, 0>>)
<1>1. /\ name \in Seq(Byte) /\ Len(name) <= 38
      /\ Arcs(name) = Own(n) /\ encodeOID(Own(n)) = tlv(6, name)
  BY OwnName
<1> HIDE DEF name
<1>2. \A tag, v : Wrap(0, tag, v) = tlv(tag, v)
  BY DEF Wrap
<1>3. buildGetRequest(n) = Wrap(0, 48, body)
  BY <1>1, <1>2 DEF buildGetRequest, Body, PDU, VarbindOf, Own
<1>4. 0 \in 0..2 /\ 160 \in Byte /\ 0 \in Byte /\ 1 \in Byte
  BY DEF Byte
<1> DEFINE rid   == INTEGER(1)
           value == <<5, 0>>
           none  == <<>>
           one   == <<1>>
<1>5. /\ IsElement(rid, 2, one) /\ Len(rid) = 3
      /\ IsElement(value, 5, none) /\ Len(value) = 2
  BY <1>4, SmallElements
<1> HIDE DEF rid, value, one, none
<1>6. NameIn(Wrap(0, 48, body)) = name
  <2>1. Len(rid) <= 6 /\ Len(value) <= 6
    BY <1>5
  <2>2. NameIn(Wrap(0, 48, Body(0, 160, rid, 0, 0, name, value))) = name
    <3> DEFINE st == 0
               t4 == 2
               tv == 5
    <3>1. st \in Byte /\ 0 \in 0..2 /\ 160 \in Byte
          /\ IsElement(rid, t4, one) /\ IsElement(value, tv, none)
      BY <1>4, <1>5
    <3> HIDE DEF st, t4, tv
    <3>2. Carries(Wrap(0, 48, Body(0, 160, rid, st, st, name, value)), name,
                  Got(tv, none, <<>>))
      BY <1>1, <2>1, <3>1, MessageRead
    <3> QED BY <3>2 DEF st, Carries
  <2> QED BY <2>2 DEF rid, value
<1> QED BY <1>1, <1>3, <1>6 DEF name

\* What becomes of the value found.
Chosen(val) ==
    IF val.ok /\ val.tag \in {2, 4} /\ Len(val.value) = 4 THEN val.value
    ELSE NoValue

LEMMA ParseChooses ==
  ASSUME NEW data
  PROVE  parseResponse(data) = Chosen(nth(Varbind(data), 1))
BY Zenon DEF parseResponse, Chosen, Varbind

LEMMA ChosenOfGot ==
  ASSUME NEW tag, NEW value, NEW rest
  PROVE  /\ tag \in {2, 4} /\ Len(value) = 4 =>
              Chosen(Got(tag, value, rest)) = value
         /\ tag \notin {2, 4} \/ Len(value) # 4 =>
              Chosen(Got(tag, value, rest)) = NoValue
<1> DEFINE val == Got(tag, value, rest)
<1>1. val.ok /\ val.tag = tag /\ val.value = value
  BY DEF Got, Element
<1> HIDE DEF val
<1>2. tag \in {2, 4} /\ Len(value) = 4 => Chosen(val) = value
  BY <1>1 DEF Chosen
<1>3. tag \notin {2, 4} \/ Len(value) # 4 => Chosen(val) = NoValue
  BY <1>1 DEF Chosen
<1> QED BY <1>2, <1>3 DEF val

LEMMA ChosenOfTruncated == Chosen(Truncated) = NoValue
<1>1. ~Truncated.ok
  BY DEF Truncated, Element
<1> QED BY <1>1 DEF Chosen

\* An element that breaks off is truncated, and so is all that is looked for
\* in it.
LEMMA CutHeader ==
  ASSUME NEW h \in Seq(Byte), NEW v \in Seq(Byte), IsHeader(h, Len(v)),
         NEW n \in 0..(Len(h \o v) - 1)
  PROVE  readTLV(SubSeq(h \o v, 1, n)) = Truncated
<1> DEFINE w == h \o v
           b == SubSeq(w, 1, n)
<1>1. /\ w \in Seq(Byte) /\ Len(w) = Len(h) + Len(v)
      /\ Len(h) \in Nat /\ Len(v) \in Nat
      /\ \A i \in 1..Len(h) : w[i] = h[i]
  BY TwoParts
<1> HIDE DEF w
<1>2. n \in Nat /\ n < Len(h) + Len(v)
  BY <1>1 DEF w
<1>3. Len(b) = n /\ \A i \in 1..n : b[i] = w[i]
  <2>1. \A i \in 1..n : w[i] \in Byte
    <3>1. \A i \in 1..n : i \in 1..Len(w)
      BY <1>1, <1>2
    <3> QED BY <1>1, <3>1, ElementOfSeq
  <2>2. /\ Len(SubSeq(w, 1, n)) = IF 1 <= n THEN n - 1 + 1 ELSE 0
        /\ \A i \in 1..(n - 1 + 1) : SubSeq(w, 1, n)[i] = w[1 + i - 1]
    BY <1>2, <2>1, SubSeqProperties
  <2>3. n - 1 + 1 = n /\ (~(1 <= n) => n = 0)
    BY <1>2
  <2>4. \A i \in 1..n : 1 + i - 1 = i
    OBVIOUS
  <2> HIDE DEF b
  <2>5. Len(b) = n
    BY <2>2, <2>3 DEF b
  <2>6. \A i \in 1..n : b[i] = w[i]
    BY <2>2, <2>3, <2>4 DEF b
  <2> QED BY <2>5, <2>6
<1> SUFFICES readTLV(b) = Truncated
  BY DEF b, w
<1> HIDE DEF b
<1>4. CASE n < 2
  BY <1>3, <1>4 DEF readTLV
<1>5. CASE ~(n < 2) /\ Len(h) = 2 /\ h[2] = Len(v) /\ Len(v) < 128
  <2>1. b[2] = Len(v)
    BY <1>1, <1>2, <1>3, <1>5
  <2>2. ~(b[2] >= 128) /\ Len(b) < 2 + b[2] /\ ~(Len(b) < 2)
    BY <1>1, <1>2, <1>3, <1>5, <2>1
  <2> QED BY <1>1, <2>1, <2>2 DEF readTLV
<1>6. CASE ~(n < 2) /\ Len(h) = 3 /\ h[2] = 129 /\ h[3] = Len(v)
  <2>1. b[2] = 129 /\ ~(Len(b) < 2)
    BY <1>1, <1>2, <1>3, <1>6
  <2>2. CASE n < 3
    <3>1. Len(b) < 3
      BY <1>3, <2>2
    <3> QED BY <2>1, <3>1 DEF readTLV
  <2>3. CASE ~(n < 3)
    <3>1. b[3] = Len(v)
      BY <1>1, <1>2, <1>3, <1>6, <2>3
    <3>2. Len(b) < 3 + b[3] /\ ~(Len(b) < 3)
      BY <1>1, <1>2, <1>3, <1>6, <2>3, <3>1
    <3> QED BY <1>1, <2>1, <3>1, <3>2 DEF readTLV
  <2> QED BY <2>2, <2>3
<1>7. CASE ~(n < 2) /\ Len(h) = 4 /\ h[2] = 130 /\ h[3] = 0 /\ h[4] = Len(v)
  <2>1. b[2] = 130 /\ ~(Len(b) < 2)
    BY <1>1, <1>2, <1>3, <1>7
  <2>2. CASE n < 4
    <3>1. Len(b) < 4
      BY <1>3, <2>2
    <3> QED BY <2>1, <3>1 DEF readTLV
  <2>3. CASE ~(n < 4)
    <3>1. b[3] = 0 /\ b[4] = Len(v)
      BY <1>1, <1>2, <1>3, <1>7, <2>3
    <3>2. Len(b) < 4 + (256 * b[3] + b[4]) /\ ~(Len(b) < 4)
      BY <1>1, <1>2, <1>3, <1>7, <2>3, <3>1
    <3> QED BY <1>1, <2>1, <3>1, <3>2 DEF readTLV
  <2> QED BY <2>2, <2>3
<1> QED BY <1>4, <1>5, <1>6, <1>7 DEF IsHeader

LEMMA NothingRead ==
  ASSUME NEW data, readTLV(data) = Truncated
  PROVE  parseResponse(data) = NoValue
<1>1. Truncated.value = <<>> /\ Truncated.rest = <<>>
  BY DEF Truncated, Element
<1>2. readTLV(<<>>) = Truncated
  <2>1. Len(<<>>) < 2
    OBVIOUS
  <2> QED BY <2>1 DEF readTLV
<1>3. /\ nth(<<>>, 0) = Truncated /\ nth(<<>>, 1) = Truncated
      /\ nth(<<>>, 2) = Truncated /\ nth(<<>>, 3) = Truncated
  <2> DEFINE none == <<>>
  <2>1. readTLV(none) = Truncated /\ Truncated.rest = none
    BY <1>1, <1>2
  <2> HIDE DEF none
  <2>2. /\ nth(none, 0) = readTLV(none)
        /\ nth(none, 1) = readTLV(nth(none, 0).rest)
        /\ nth(none, 2) = readTLV(nth(none, 1).rest)
        /\ nth(none, 3) = readTLV(nth(none, 2).rest)
    BY NthStep
  <2>3. nth(none, 0) = Truncated /\ nth(none, 1) = Truncated
    BY <2>1, <2>2
  <2>4. nth(none, 2) = Truncated
    BY <2>1, <2>2, <2>3
  <2>5. nth(none, 3) = Truncated
    BY <2>1, <2>2, <2>4
  <2> QED BY <2>3, <2>4, <2>5 DEF none
<1>4. nth(data, 0) = Truncated
  BY NthStep
<1>5. Varbind(data) = <<>>
  BY <1>1, <1>3, <1>4 DEF Varbind
<1> QED BY <1>3, <1>5, ParseChooses, ChosenOfTruncated

\* In every form of the length a header says how long the value is.
LEMMA CutReply ==
  ASSUME NEW form \in 0..2, NEW v \in Seq(Byte), Len(v) < 128,
         NEW n \in 0..(Len(Wrap(form, 48, v)) - 1)
  PROVE  parseResponse(SubSeq(Wrap(form, 48, v), 1, n)) = NoValue
<1>1. Len(v) \in Nat /\ Len(v) \in Byte /\ Len(v) % 256 = Len(v)
  <2>1. Len(v) \in Nat
    BY LenProperties
  <2>2. \A k \in Nat : k < 128 => k \in Byte /\ k % 256 = k
    BY DEF Byte
  <2> QED BY <2>1, <2>2
<1>2. 48 \in Byte /\ 129 \in Byte /\ 130 \in Byte /\ 0 \in Byte
  BY DEF Byte
<1>3. PICK h \in Seq(Byte) : IsHeader(h, Len(v)) /\ Wrap(form, 48, v) = h \o v
  <2>1. CASE form = 0
    <3> DEFINE h == <<48, Len(v)>>
    <3>1. h \in Seq(Byte) /\ Len(h) = 2 /\ h[2] = Len(v)
      BY <1>1, <1>2
    <3>2. Wrap(form, 48, v) = h \o v
      BY <1>1, <2>1 DEF Wrap, tlv
    <3> HIDE DEF h
    <3>3. IsHeader(h, Len(v))
      BY <3>1 DEF IsHeader
    <3> QED BY <3>1, <3>2, <3>3
  <2>2. CASE form = 1
    <3> DEFINE h == <<48, 129, Len(v)>>
    <3>1. h \in Seq(Byte) /\ Len(h) = 3 /\ h[2] = 129 /\ h[3] = Len(v)
      BY <1>1, <1>2
    <3>2. Wrap(form, 48, v) = h \o v
      BY <2>2 DEF Wrap
    <3> HIDE DEF h
    <3>3. IsHeader(h, Len(v))
      BY <3>1 DEF IsHeader
    <3> QED BY <3>1, <3>2, <3>3
  <2>3. CASE form = 2
    <3> DEFINE h == <<48, 130, 0, Len(v)>>
    <3>1. /\ h \in Seq(Byte) /\ Len(h) = 4
          /\ h[2] = 130 /\ h[3] = 0 /\ h[4] = Len(v)
      BY <1>1, <1>2
    <3>2. Wrap(form, 48, v) = h \o v
      BY <2>3 DEF Wrap
    <3> HIDE DEF h
    <3>3. IsHeader(h, Len(v))
      BY <3>1 DEF IsHeader
    <3> QED BY <3>1, <3>2, <3>3
  <2>4. form = 0 \/ form = 1 \/ form = 2
    OBVIOUS
  <2> QED BY <2>1, <2>2, <2>3, <2>4, Zenon
<1>4. n \in 0..(Len(h \o v) - 1)
  BY <1>3
<1>5. readTLV(SubSeq(h \o v, 1, n)) = Truncated
  BY <1>3, <1>4, CutHeader
<1> QED BY <1>3, <1>5, NothingRead

\* A concatenation is what has the elements of both.
LEMMA Joined ==
  ASSUME NEW h \in Seq(Byte), NEW v \in Seq(Byte), NEW w \in Seq(Byte),
         Len(w) = Len(h) + Len(v),
         \A i \in 1..Len(h) : w[i] = h[i],
         \A i \in 1..Len(v) : w[Len(h) + i] = v[i]
  PROVE  h \o v = w
<1> DEFINE s == h \o v
<1>1. /\ s \in Seq(Byte) /\ Len(s) = Len(h) + Len(v)
      /\ Len(h) \in Nat /\ Len(v) \in Nat
      /\ \A i \in 1..Len(h) : s[i] = h[i]
      /\ \A i \in 1..Len(v) : s[Len(h) + i] = v[i]
  BY TwoParts
<1> HIDE DEF s
<1>2. ASSUME NEW i \in 1..Len(s) PROVE s[i] = w[i]
  <2>1. CASE i <= Len(h)
    <3>1. i \in 1..Len(h)
      BY <1>1, <2>1
    <3> QED BY <1>1, <3>1
  <2>2. CASE ~(i <= Len(h))
    <3> DEFINE j == i - Len(h)
    <3>1. j \in 1..Len(v) /\ Len(h) + j = i
      BY <1>1, <2>2
    <3> HIDE DEF j
    <3>2. s[Len(h) + j] = v[j] /\ w[Len(h) + j] = v[j]
      BY <1>1, <3>1
    <3> QED BY <3>1, <3>2
  <2> QED BY <2>1, <2>2
<1>3. s = w
  BY <1>1, <1>2, SeqEqual
<1> QED BY <1>3 DEF s

\* What is read of a response: the value, if it is one of four bytes.
IsReply(data) ==
    \E form \in 0..2, v \in Seq(Byte) :
      Len(v) < 128 /\ data = Wrap(form, 48, v)

LEMMA ResponseRead ==
  ASSUME NEW form \in 0..2, NEW rid \in RequestIDs, NEW status \in {0, 2},
         NEW name \in Seq(Byte), Len(name) <= 38,
         NEW value, NEW tv, NEW vv, IsElement(value, tv, vv), Len(value) <= 6
  PROVE  LET data == Response(form, rid, status, name, value)
         IN  /\ IsReply(data)
             /\ parseResponse(data) = Chosen(Got(tv, vv, <<>>))
<1>1. 162 \in Byte /\ status \in Byte /\ status \div 2 \in Byte
      /\ 1 \in Byte /\ 2 \in Byte
  BY DEF Byte
<1>2. \E t4, v4 : IsElement(rid, t4, v4) /\ Len(rid) <= 6
  <2>1. CASE rid = <<2, 1, 1>>
    <3> DEFINE one == <<1>>
    <3>1. IsElement(INTEGER(1), 2, one) /\ Len(INTEGER(1)) = 3
      BY <1>1, SmallElements
    <3>2. INTEGER(1) = rid
      <4>1. 1 % 256 = 1 /\ Len(<<1>>) = 1
        OBVIOUS
      <4>2. INTEGER(1) = <<2, 1>> \o <<1>>
        BY <4>1 DEF INTEGER, tlv
      <4>3. <<2, 1>> \o <<1>> = <<2, 1, 1>>
        <5> DEFINE h == <<2, 1>>
                   v == <<1>>
                   r == <<2, 1, 1>>
        <5>1. /\ h \in Seq(Byte) /\ Len(h) = 2 /\ h[1] = 2 /\ h[2] = 1
              /\ v \in Seq(Byte) /\ Len(v) = 1 /\ v[1] = 1
              /\ r \in Seq(Byte) /\ Len(r) = 3 /\ r[1] = 2 /\ r[2] = 1 /\ r[3] = 1
          BY <1>1
        <5> HIDE DEF h, v, r
        <5>2. h \in Seq(Byte) /\ v \in Seq(Byte) /\ r \in Seq(Byte)
              /\ Len(r) = Len(h) + Len(v)
          BY <5>1
        <5>3. \A i \in 1..Len(h) : r[i] = h[i]
          <6>1. \A i \in 1..2 : i = 1 \/ i = 2
            OBVIOUS
          <6> QED BY <5>1, <6>1
        <5>4. \A i \in 1..Len(v) : r[Len(h) + i] = v[i]
          <6>1. \A i \in 1..1 : i = 1
            OBVIOUS
          <6>2. r[2 + 1] = v[1]
            BY <5>1
          <6> QED BY <5>1, <6>1, <6>2
        <5>5. h \o v = r
          BY <5>2, <5>3, <5>4, Joined
        <5> QED BY <5>5 DEF h, v, r
      <4> QED BY <2>1, <4>2, <4>3
    <3> HIDE DEF one
    <3> DEFINE k == Len(rid)
    <3>5. k = 3
      BY <3>1, <3>2
    <3> HIDE DEF k
    <3>6. k <= 6
      BY <3>5
    <3>3. Len(rid) <= 6
      BY <3>6 DEF k
    <3>4. IsElement(rid, 2, one)
      BY <3>1, <3>2
    <3> QED BY <3>3, <3>4
  <2>2. CASE rid = <<2, 4, 114, 117, 193, 10>>
    <3> DEFINE v == <<114, 117, 193, 10>>
    <3>1. v \in Seq(Byte) /\ Len(v) = 4
      <4>1. 114 \in Byte /\ 117 \in Byte /\ 193 \in Byte /\ 10 \in Byte
        BY DEF Byte
      <4> QED BY <4>1
    <3>2. tlv(2, v) = rid
      <4>1. 4 % 256 = 4
        OBVIOUS
      <4>4. 4 \in Byte
        BY DEF Byte
      <4>5. 114 \in Byte /\ 117 \in Byte /\ 193 \in Byte /\ 10 \in Byte
        BY DEF Byte
      <4>2. tlv(2, v) = <<2, 4>> \o v
        BY <3>1, <4>1 DEF tlv
      <4>3. <<2, 4>> \o v = <<2, 4, 114, 117, 193, 10>>
        <5> DEFINE h == <<2, 4>>
                   r == <<2, 4, 114, 117, 193, 10>>
        <5>1. h \in Seq(Byte) /\ Len(h) = 2 /\ h[1] = 2 /\ h[2] = 4
          BY <1>1, <4>4
        <5>2. v[1] = 114 /\ v[2] = 117 /\ v[3] = 193 /\ v[4] = 10
          OBVIOUS
        <5>3. r \in Seq(Byte) /\ Len(r) = 6 /\ r[1] = 2 /\ r[2] = 4 /\ r[3] = 114
              /\ r[4] = 117 /\ r[5] = 193 /\ r[6] = 10
          BY <1>1, <4>4, <4>5
        <5> HIDE DEF h, v, r
        <5>4. h \in Seq(Byte) /\ v \in Seq(Byte) /\ r \in Seq(Byte)
          BY <3>1, <5>1, <5>3
        <5>5. Len(r) = Len(h) + Len(v)
          BY <3>1, <5>1, <5>3
        <5>6. \A i \in 1..Len(h) : r[i] = h[i]
          <6>1. \A i \in 1..2 : i = 1 \/ i = 2
            OBVIOUS
          <6> QED BY <5>1, <5>3, <6>1
        <5>7. \A i \in 1..Len(v) : r[Len(h) + i] = v[i]
          <6>1. \A i \in 1..4 : i = 1 \/ i = 2 \/ i = 3 \/ i = 4
            OBVIOUS
          <6>2. r[2 + 1] = v[1] /\ r[2 + 2] = v[2] /\ r[2 + 3] = v[3]
                /\ r[2 + 4] = v[4]
            BY <5>2, <5>3
          <6> QED BY <3>1, <5>1, <6>1, <6>2
        <5>8. h \o v = r
          BY <5>4, <5>5, <5>6, <5>7, Joined
        <5> QED BY <5>8 DEF h, r
      <4> QED BY <2>2, <4>2, <4>3
    <3> HIDE DEF v
    <3>3. Len(v) < 128 /\ Len(v) + 2 = 6
      BY <3>1
    <3>4. IsElement(tlv(2, v), 2, v) /\ Len(tlv(2, v)) = 6
      BY <1>1, <3>1, <3>3, TlvElement
    <3> DEFINE k == Len(rid)
    <3>6. k = 6
      BY <3>2, <3>4
    <3> HIDE DEF k
    <3>7. k <= 6
      BY <3>6
    <3>5. Len(rid) <= 6
      BY <3>7 DEF k
    <3> QED BY <3>2, <3>4, <3>5
  <2> QED BY <2>1, <2>2 DEF RequestIDs
<1>3. PICK t4, v4 : IsElement(rid, t4, v4) /\ Len(rid) <= 6
  BY <1>2
<1> DEFINE ix   == status \div 2
           body == Body(form, 162, rid, status, ix, name, value)
           data == Response(form, rid, status, name, value)
<1>4. data = Wrap(form, 48, body)
  BY DEF Response, Body, PDU, VarbindOf
<1>5. ix \in Byte
  BY <1>1
<1> HIDE DEF ix
<1>6. /\ body \in Seq(Byte) /\ Len(body) < 128
      /\ nth(Varbind(Wrap(form, 48, body)), 1) = Got(tv, vv, <<>>)
  <2> DEFINE tag == 162
  <2>1. tag \in Byte /\ status \in Byte
    BY <1>1
  <2> HIDE DEF tag
  <2>2. IsElement(rid, t4, v4) /\ Len(rid) <= 6
    BY <1>3
  <2> DEFINE b == Body(form, tag, rid, status, ix, name, value)
  <2>3. b \in Seq(Byte) /\ Len(b) < 128
    BY <1>5, <2>1, <2>2, MessageRead
  <2>4. Carries(Wrap(form, 48, b), name, Got(tv, vv, <<>>))
    BY <1>5, <2>1, <2>2, MessageRead
  <2> QED BY <2>3, <2>4 DEF tag, Carries
<1> HIDE DEF body, data
<1>7. IsReply(data)
  BY <1>4, <1>6 DEF IsReply
<1>8. parseResponse(data) = Chosen(Got(tv, vv, <<>>))
  BY <1>4, <1>6, ParseChooses
<1> QED BY <1>7, <1>8 DEF data

\* The values the printer gives are the states of the menu.
LEMMA ValuesRead ==
  ASSUME NEW m \in 0..2, NEW value \in Values(m)
  PROVE  \E tv \in {2, 4}, vv \in {<<0, 0, 0, m>>, <<m, 0, 0, 0>>} :
           /\ IsElement(value, tv, vv) /\ Len(value) <= 6 /\ Len(vv) = 4
           /\ vv # NoValue /\ parseValue(vv) = States[m + 1]
<1>1. PICK tv \in {2, 4}, vv \in {<<0, 0, 0, m>>, <<m, 0, 0, 0>>} :
        value = tlv(tv, vv)
  BY DEF Values
<1>2. m \in Byte /\ 0 \in Byte /\ tv \in Byte
  BY DEF Byte
<1>3. vv \in Seq(Byte) /\ Len(vv) = 4
  <2>1. CASE vv = <<0, 0, 0, m>>
    BY <1>2, <2>1
  <2>2. CASE vv = <<m, 0, 0, 0>>
    BY <1>2, <2>2
  <2> QED BY <2>1, <2>2
<1>4. vv # NoValue
  BY <1>3, EmptySeq DEF NoValue
<1>5. Len(vv) < 128 /\ Len(vv) + 2 = 6
  BY <1>3
<1>6. IsElement(value, tv, vv) /\ Len(value) = 6
  BY <1>1, <1>2, <1>3, <1>5, TlvElement
<1>7. Len(value) <= 6
  BY <1>6
<1>8. parseValue(vv) = States[m + 1]
  <2>1. CASE m = 0
    <3>1. vv = <<0, 0, 0, 0>>
      BY <2>1
    <3>2. vv \notin {<<0, 0, 0, 1>>, <<1, 0, 0, 0>>}
          /\ vv \notin {<<0, 0, 0, 2>>, <<2, 0, 0, 0>>}
      BY <3>1
    <3>3. States[m + 1] = "idle"
      BY <2>1 DEF States
    <3> QED BY <3>2, <3>3 DEF parseValue
  <2>2. CASE m = 1
    <3>1. vv \in {<<0, 0, 0, 1>>, <<1, 0, 0, 0>>}
      BY <2>2
    <3>2. States[m + 1] = "triggered"
      BY <2>2 DEF States
    <3> QED BY <3>1, <3>2 DEF parseValue
  <2>3. CASE m = 2
    <3>1. vv \in {<<0, 0, 0, 2>>, <<2, 0, 0, 0>>}
          /\ vv \notin {<<0, 0, 0, 1>>, <<1, 0, 0, 0>>}
      BY <2>3
    <3>2. States[m + 1] = "ready"
      BY <2>3 DEF States
    <3> QED BY <3>1, <3>2 DEF parseValue
  <2> QED BY <2>1, <2>2, <2>3
<1> QED BY <1>3, <1>4, <1>6, <1>7, <1>8
-----------------------------------------------------------------------------
(***************************************************************************)
(* The invariant of a poll.  PollExact speaks of its end only: what it     *)
(* rests on is what the request says while it is on its way, and what the  *)
(* parser will find in the reply while that is.                            *)
(***************************************************************************)
PollTypes ==
    /\ phase \in {"ask", "asked", "replied", "done"}
    /\ id \in InstanceIDs /\ entry \in InstanceIDs \cup {0} /\ menu \in 0..2

\* The request is the one of the agent's InstanceID.
AskedInv == phase \in {"asked", "replied"} => request = buildGetRequest(id)

\* The reply gives the state of the agent's entry, or nothing; one that was
\* not cut is a message, of which any part is truncated.
GivesState(data, m) ==
    /\ parseResponse(data) # NoValue
    /\ parseValue(parseResponse(data)) = States[m + 1]

ReplyInv ==
    phase = "replied" =>
      /\ fate # "unsent"
      /\ fate # "cut" => IsReply(reply)
      /\ fate = "whole" /\ entry = id => GivesState(reply, menu)
      /\ ~(fate = "whole" /\ entry = id) => parseResponse(reply) = NoValue

PollInv == PollTypes /\ AskedInv /\ ReplyInv /\ PollExact

LEMMA IDs ==
  ASSUME NEW n \in InstanceIDs
  PROVE  n \in Nat /\ n # 0 /\ Len(digits[n]) <= 9
BY InstanceIDsAssumption

\* The printer knows the entry asked for if it is the one it has.
LEMMA KnownIsOwn ==
  ASSUME PollTypes, request = buildGetRequest(id)
  PROVE  Known(request) <=> entry = id
<1>1. id \in Nat /\ id # 0 /\ Len(digits[id]) <= 9
  BY IDs DEF PollTypes
<1>2. Arcs(NameIn(request)) = Own(id)
  BY <1>1, RequestRead
<1>3. CASE entry = 0
  BY <1>1, <1>3 DEF Known
<1>4. CASE entry # 0
  <2>1. entry \in Nat
    BY <1>4, IDs DEF PollTypes
  <2>2. Own(id)[17] = id /\ Own(entry)[17] = entry
    BY <1>1, <2>1, OwnArcs
  <2>3. Own(entry) = Own(id) <=> entry = id
    BY <2>2
  <2>4. Known(request) <=> Own(id) = Own(entry)
    BY <1>2, <1>4 DEF Known, Own
  <2> QED BY <2>3, <2>4
<1> QED BY <1>3, <1>4

\* The printer's three answers.
LEMMA ReplyReads ==
  ASSUME PollInv, Reply
  PROVE  /\ IsReply(reply')
         /\ fate' \in {"whole", "brief"}
         /\ fate' = "whole" /\ entry = id => GivesState(reply', menu)
         /\ ~(fate' = "whole" /\ entry = id) => parseResponse(reply') = NoValue
<1> DEFINE name == NameIn(request)
<1>1. request = buildGetRequest(id) /\ PollTypes
  BY DEF Reply, PollInv, AskedInv
<1>2. id \in Nat /\ Len(digits[id]) <= 9 /\ menu \in 0..2
  BY <1>1, IDs DEF PollTypes
<1>3. name \in Seq(Byte) /\ Len(name) <= 38
  <2>1. name = Name(Own(id))
    BY <1>1, <1>2, RequestRead
  <2>2. Name(Own(id)) \in Seq(Byte) /\ Len(Name(Own(id))) <= 38
    BY <1>2, OwnName
  <2> QED BY <2>1, <2>2
<1>4. Known(request) <=> entry = id
  BY <1>1, KnownIsOwn
<1>5. PICK form \in 0..2, rid \in RequestIDs :
        \/ /\ Known(request) /\ fate' = "whole"
           /\ \E v \in Values(menu) : reply' = Response(form, rid, 0, name, v)
        \/ /\ Known(request) /\ fate' = "brief"
           /\ reply' = Response(form, rid, 0, name, INTEGER(menu))
        \/ /\ ~Known(request) /\ fate' = "whole"
           /\ reply' = Response(form, rid, 2, name, <<5, 0>>)
  BY DEF Reply
<1> HIDE DEF name
<1>6. CASE /\ Known(request) /\ fate' = "whole"
           /\ \E v \in Values(menu) : reply' = Response(form, rid, 0, name, v)
  <2>1. PICK v \in Values(menu) : reply' = Response(form, rid, 0, name, v)
    BY <1>6
  <2>2. PICK tv \in {2, 4}, vv \in {<<0, 0, 0, menu>>, <<menu, 0, 0, 0>>} :
          /\ IsElement(v, tv, vv) /\ Len(v) <= 6 /\ Len(vv) = 4
          /\ vv # NoValue /\ parseValue(vv) = States[menu + 1]
    BY <1>2, ValuesRead
  <2>3. /\ IsReply(Response(form, rid, 0, name, v))
        /\ parseResponse(Response(form, rid, 0, name, v))
             = Chosen(Got(tv, vv, <<>>))
    BY <1>3, <2>2, ResponseRead
  <2>4. Chosen(Got(tv, vv, <<>>)) = vv
    BY <2>2, ChosenOfGot
  <2>5. IsReply(reply') /\ parseResponse(reply') = vv
    BY <2>1, <2>3, <2>4
  <2>6. GivesState(reply', menu)
    BY <2>2, <2>5 DEF GivesState
  <2> QED BY <1>4, <1>6, <2>5, <2>6
<1>7. CASE /\ Known(request) /\ fate' = "brief"
           /\ reply' = Response(form, rid, 0, name, INTEGER(menu))
  <2> DEFINE v  == INTEGER(menu)
             tv == 2
             vv == <<menu>>
  <2>1. IsElement(v, tv, vv) /\ Len(v) = 3 /\ Len(vv) = 1
    <3>1. menu \in Byte
      BY <1>2 DEF Byte
    <3> QED BY <3>1, SmallElements
  <2> HIDE DEF v, tv, vv
  <2>2. Len(v) <= 6 /\ Len(vv) # 4
    BY <2>1
  <2>3. /\ IsReply(Response(form, rid, 0, name, v))
        /\ parseResponse(Response(form, rid, 0, name, v))
             = Chosen(Got(tv, vv, <<>>))
    <3>1. IsElement(v, tv, vv) /\ Len(v) <= 6
      BY <2>1, <2>2
    <3>2. name \in Seq(Byte) /\ Len(name) <= 38 /\ 0 \in {0, 2}
      BY <1>3
    <3> QED BY <3>1, <3>2, ResponseRead
  <2>4. Chosen(Got(tv, vv, <<>>)) = NoValue
    BY <2>2, ChosenOfGot
  <2>5. IsReply(reply') /\ parseResponse(reply') = NoValue
    BY <1>7, <2>3, <2>4 DEF v
  <2> QED BY <1>7, <2>5
<1>8. CASE /\ ~Known(request) /\ fate' = "whole"
           /\ reply' = Response(form, rid, 2, name, <<5, 0>>)
  <2> DEFINE v  == <<5, 0>>
             tv == 5
             vv == <<>>
             st == 2
  <2>1. IsElement(v, tv, vv) /\ Len(v) = 2 /\ tv \notin {2, 4} /\ st \in {0, 2}
    BY SmallElements
  <2> HIDE DEF v, tv, vv, st
  <2>2. Len(v) <= 6
    BY <2>1
  <2>3. /\ IsReply(Response(form, rid, st, name, v))
        /\ parseResponse(Response(form, rid, st, name, v))
             = Chosen(Got(tv, vv, <<>>))
    <3>1. IsElement(v, tv, vv) /\ Len(v) <= 6 /\ st \in {0, 2}
      BY <2>1, <2>2
    <3>2. name \in Seq(Byte) /\ Len(name) <= 38
      BY <1>3
    <3> QED BY <3>1, <3>2, ResponseRead
  <2>4. Chosen(Got(tv, vv, <<>>)) = NoValue
    BY <2>1, ChosenOfGot
  <2>5. IsReply(reply') /\ parseResponse(reply') = NoValue
    BY <1>8, <2>3, <2>4 DEF v, st
  <2> QED BY <1>4, <1>8, <2>5
<1> QED BY <1>5, <1>6, <1>7, <1>8

LEMMA PollInit == Init => PollInv
<1> SUFFICES ASSUME Init PROVE PollInv
  OBVIOUS
<1>1. PollTypes
  BY DEF Init, PollTypes
<1>2. AskedInv /\ ReplyInv /\ PollExact
  BY DEF Init, AskedInv, ReplyInv, PollExact
<1> QED BY <1>1, <1>2 DEF PollInv

LEMMA PollStep == PollInv /\ [Next]_vars => PollInv'
<1> SUFFICES ASSUME PollInv, [Next]_vars PROVE PollInv'
  OBVIOUS
<1>1. CASE Ask
  <2>1. PollTypes'
    BY <1>1 DEF Ask, printerVars, PollInv, PollTypes
  <2>2. AskedInv'
    BY <1>1 DEF Ask, AskedInv
  <2>3. ReplyInv' /\ PollExact'
    BY <1>1 DEF Ask, ReplyInv, PollExact
  <2> QED BY <2>1, <2>2, <2>3 DEF PollInv
<1>2. CASE Reply
  <2>1. /\ IsReply(reply')
        /\ fate' \in {"whole", "brief"}
        /\ fate' = "whole" /\ entry = id => GivesState(reply', menu)
        /\ ~(fate' = "whole" /\ entry = id) => parseResponse(reply') = NoValue
    BY <1>2, ReplyReads
  <2>2. /\ phase = "asked" /\ phase' = "replied"
        /\ id' = id /\ entry' = entry /\ menu' = menu /\ request' = request
    BY <1>2 DEF Reply, printerVars
  <2>3. PollTypes'
    BY <2>2 DEF PollInv, PollTypes
  <2>4. AskedInv'
    BY <2>2 DEF PollInv, AskedInv
  <2>5. ReplyInv'
    BY <2>1, <2>2 DEF ReplyInv
  <2>6. PollExact'
    BY <2>2 DEF PollExact
  <2> QED BY <2>3, <2>4, <2>5, <2>6 DEF PollInv
<1>3. CASE Cut
  <2>1. /\ phase = "replied" /\ fate # "cut" /\ fate' = "cut" /\ phase' = phase
        /\ id' = id /\ entry' = entry /\ menu' = menu /\ request' = request
    BY <1>3 DEF Cut, printerVars
  <2>2. IsReply(reply)
    BY <2>1 DEF PollInv, ReplyInv
  <2>3. parseResponse(reply') = NoValue
    <3>1. PICK form \in 0..2, v \in Seq(Byte) :
            Len(v) < 128 /\ reply = Wrap(form, 48, v)
      BY <2>2 DEF IsReply
    <3>2. PICK n \in 0..(Len(reply) - 1) : reply' = SubSeq(reply, 1, n)
      BY <1>3 DEF Cut
    <3>3. n \in 0..(Len(Wrap(form, 48, v)) - 1)
      BY <3>1
    <3>4. parseResponse(SubSeq(Wrap(form, 48, v), 1, n)) = NoValue
      BY <3>1, <3>3, CutReply
    <3> QED BY <3>1, <3>2, <3>4
  <2>4. PollTypes' /\ AskedInv'
    BY <2>1 DEF PollInv, PollTypes, AskedInv
  <2>5. ReplyInv' /\ PollExact'
    BY <2>1, <2>3 DEF ReplyInv, PollExact
  <2> QED BY <2>4, <2>5 DEF PollInv
<1>4. CASE GiveUp
  <2>1. PollTypes'
    BY <1>4 DEF GiveUp, printerVars, PollInv, PollTypes
  <2>2. AskedInv' /\ ReplyInv'
    BY <1>4 DEF GiveUp, AskedInv, ReplyInv
  <2>3. PollExact'
    BY <1>4 DEF GiveUp, PollExact
  <2> QED BY <2>1, <2>2, <2>3 DEF PollInv
<1>5. CASE Parse
  <2>1. /\ phase = "replied" /\ phase' = "done" /\ fate' = fate
        /\ id' = id /\ entry' = entry /\ menu' = menu
    BY <1>5 DEF Parse, printerVars
  <2>2. answer' = IF parseResponse(reply) = NoValue THEN "none"
                  ELSE parseValue(parseResponse(reply))
    BY <1>5 DEF Parse
  <2>3. PollTypes'
    BY <2>1 DEF PollInv, PollTypes
  <2>4. AskedInv' /\ ReplyInv'
    BY <2>1 DEF AskedInv, ReplyInv
  <2>5. PollExact'
    <3>1. CASE fate = "whole" /\ entry = id
      <4>1. GivesState(reply, menu)
        BY <2>1, <3>1 DEF PollInv, ReplyInv
      <4>2. answer' = States[menu + 1]
        BY <2>2, <4>1 DEF GivesState
      <4>3. fate # "unsent"
        BY <3>1
      <4> QED BY <2>1, <3>1, <4>2, <4>3 DEF PollExact
    <3>2. CASE ~(fate = "whole" /\ entry = id)
      <4>1. parseResponse(reply) = NoValue
        BY <2>1, <3>2 DEF PollInv, ReplyInv
      <4>2. answer' = "none"
        BY <2>2, <4>1
      <4>3. fate # "unsent"
        BY <2>1 DEF PollInv, ReplyInv
      <4> QED BY <2>1, <3>2, <4>2, <4>3 DEF PollExact
    <3> QED BY <3>1, <3>2
  <2> QED BY <2>3, <2>4, <2>5 DEF PollInv
<1>6. CASE Return
  <2>1. PollTypes'
    BY <1>6 DEF Return, PollInv, PollTypes
  <2>2. AskedInv' /\ ReplyInv' /\ PollExact'
    BY <1>6 DEF Return, AskedInv, ReplyInv, PollExact
  <2> QED BY <2>1, <2>2 DEF PollInv
<1>7. CASE Unsent
  <2>1. PollTypes'
    BY <1>7 DEF Unsent, printerVars, PollInv, PollTypes
  <2>2. AskedInv' /\ ReplyInv'
    BY <1>7 DEF Unsent, AskedInv, ReplyInv
  <2>3. PollExact'
    BY <1>7 DEF Unsent, PollExact
  <2> QED BY <2>1, <2>2, <2>3 DEF PollInv
<1>8. CASE UNCHANGED vars
  BY <1>8 DEF vars, printerVars, PollInv, PollTypes, AskedInv, ReplyInv, PollExact
<1> QED BY <1>1, <1>2, <1>3, <1>4, <1>5, <1>6, <1>7, <1>8 DEF Next

LEMMA PollAlways == Spec => []PollInv
<1> QED BY PollInit, PollStep, PTL DEF Spec

\* The request names the agent's own entry, whatever its InstanceID
\* (buildGetRequest, encodeOID: snmp.go:47-116).
THEOREM RequestNamesOwnEntry == Spec => []RequestNamesEntry
<1>1. ASSUME PollInv PROVE RequestNamesEntry
  <2> SUFFICES ASSUME phase \in {"asked", "replied"}
               PROVE  Arcs(NameIn(request)) = Append(oidBase, id)
    BY DEF RequestNamesEntry
  <2>1. request = buildGetRequest(id)
    BY <1>1 DEF PollInv, AskedInv
  <2>2. id \in Nat /\ Len(digits[id]) <= 9
    BY <1>1, IDs DEF PollInv, PollTypes
  <2>3. Arcs(NameIn(request)) = Own(id)
    BY <2>1, <2>2, RequestRead
  <2> QED BY <2>3 DEF Own
<1>2. PollInv => RequestNamesEntry
  BY <1>1
<1> QED BY <1>2, PollAlways, PTL

\* A poll that is sent returns the state of the agent's own entry, or
\* ErrNoResponse when there is no such entry or no whole reply (Poll, pollAddr, parseResponse,
\* parseValue: snmp.go:118-247).
THEOREM PollIsExact == Spec => []PollExact
<1>1. PollInv => PollExact
  BY DEF PollInv
<1> QED BY <1>1, PollAlways, PTL
=============================================================================
