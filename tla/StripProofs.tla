----------------------------- MODULE StripProofs -----------------------------
(***************************************************************************)
(* Theorems about StripStream, for strips of any number and length, any    *)
(* bytes of padding and any limit: readJPEGStrip finds the end of every    *)
(* strip, a limit that rejects a strip is exceeded by it, and              *)
(* AssembleStrips finds the same strips again in the bytes of the page.    *)
(***************************************************************************)
EXTENDS StripStream, SumProofs

(***************************************************************************)
(* What is in flight for one FETCH is a frame: a strip and its padding.    *)
(* readJPEGStrip has read the first n bytes of it.                         *)
(***************************************************************************)
Split(frame, n) ==
    /\ data = SubSeq(frame, 1, n)
    /\ wire = SubSeq(frame, n + 1, Len(frame))

LEMMA PaddingType ==
  ASSUME NEW p \in Paddings
  PROVE  p \in Seq(Byte) /\ Len(p) = 16
<1>1. p \in [1..16 -> Byte]
  BY StripsAssumption DEF Byte
<1>2. p \in Seq(Byte)
  <2>1. p \in UNION {[1..n -> Byte] : n \in Nat}
    BY <1>1
  <2> QED BY <2>1, SeqDef, Zenon
<1>3. DOMAIN p = 1..Len(p) /\ Len(p) \in Nat
  BY <1>2, LenProperties
<1> QED BY <1>1, <1>2, <1>3

LEMMA StripType ==
  ASSUME NEW s \in Strips
  PROVE  /\ s \in Seq(Byte) /\ Len(s) \in Nat /\ Len(s) >= 2
         /\ s[Len(s) - 1] = 255
         /\ \A i \in 1..(Len(s) - 1) : s[i] = 255 =>
              s[i + 1] # 255 /\ (s[i + 1] = 217 <=> i = Len(s) - 1)
BY StripsAssumption, MarkersAssumption, LenProperties DEF Byte

LEMMA FrameProperties ==
  ASSUME NEW s \in Strips, NEW p \in Paddings
  PROVE  /\ s \o p \in Seq(Byte) /\ Len(s \o p) = Len(s) + 16
         /\ \A i \in 1..Len(s) : (s \o p)[i] = s[i]
         /\ SubSeq(s \o p, 1, Len(s)) = s
<1>1. s \in Seq(Byte) /\ p \in Seq(Byte) /\ Len(p) = 16 /\ Len(s) >= 2
      /\ Len(s) \in Nat
  BY PaddingType, StripType
<1>2. /\ s \o p \in Seq(Byte) /\ Len(s \o p) = Len(s) + 16
      /\ \A i \in 1..Len(s) : (s \o p)[i] = s[i]
  <2>1. /\ s \o p \in Seq(Byte) /\ Len(s \o p) = Len(s) + Len(p)
        /\ \A i \in 1..(Len(s) + Len(p)) :
             (s \o p)[i] = IF i <= Len(s) THEN s[i] ELSE p[i - Len(s)]
    BY <1>1, ConcatProperties, Zenon
  <2> QED BY <1>1, <2>1
<1>3. SubSeq(s \o p, 1, Len(s)) = SubSeq(s, 1, Len(s))
  BY <1>1, SubSeqOfConcat1
<1>4. SubSeq(s, 1, Len(s)) = s
  BY <1>1, SubSeqFull
<1> QED BY <1>2, <1>3, <1>4

\* The bytes of a frame that are left, one by one.
LEMMA RestOfFrame ==
  ASSUME NEW F \in Seq(Byte), NEW n \in 0..Len(F)
  PROVE  LET rest == SubSeq(F, n + 1, Len(F)) IN
           /\ rest \in Seq(Byte) /\ Len(rest) = Len(F) - n
           /\ \A i \in 1..Len(rest) : rest[i] = F[n + i]
<1>1. Len(F) \in Nat /\ \A i \in (n + 1)..Len(F) : F[i] \in Byte
  BY LenProperties, ElementOfSeq
<1> QED BY <1>1, SubSeqProperties

\* Reading i more bytes moves them from the rest to the data.
LEMMA SplitMoves ==
  ASSUME NEW F \in Seq(Byte), NEW n \in 0..Len(F), NEW i \in 1..(Len(F) - n)
  PROVE  LET rest == SubSeq(F, n + 1, Len(F)) IN
           /\ SubSeq(F, 1, n) \o SubSeq(rest, 1, i) = SubSeq(F, 1, n + i)
           /\ SubSeq(rest, i + 1, Len(rest)) = SubSeq(F, n + i + 1, Len(F))
<1> DEFINE rest == SubSeq(F, n + 1, Len(F))
<1>1. Len(F) \in Nat
  BY LenProperties
<1>2. rest \in Seq(Byte) /\ Len(rest) = Len(F) - n
  BY RestOfFrame
<1>3. SubSeq(rest, 1, i) = SubSeq(F, n + 1, n + i)
  BY <1>1, SubSeqOfSubSeq
<1>4. SubSeq(F, 1, n) \o SubSeq(F, n + 1, n + i) = SubSeq(F, 1, n + i)
  BY <1>1, ConcatAdjacentSubSeq
<1>5. SubSeq(rest, i + 1, Len(rest)) = SubSeq(F, n + i + 1, Len(F))
  <2>1. CASE i = Len(rest)
    <3>1. i + 1 \in Int /\ Len(rest) < i + 1 /\ n + i + 1 \in Int
          /\ Len(F) < n + i + 1 /\ Len(rest) \in Int
      BY <1>1, <1>2, <2>1
    <3>2. SubSeq(rest, i + 1, Len(rest)) = <<>>
      BY <3>1, SubSeqEmpty
    <3>3. SubSeq(F, n + i + 1, Len(F)) = <<>>
      BY <1>1, <3>1, SubSeqEmpty
    <3> QED BY <3>2, <3>3
  <2>2. CASE i < Len(rest)
    <3>1. i + 1 \in 1..(Len(F) - (n + 1) + 1) /\ Len(rest) \in 1..(Len(F) - (n + 1) + 1)
          /\ n + 1 \in 1..Len(F) /\ Len(F) \in 1..Len(F)
      BY <1>1, <1>2, <2>2
    <3>2. SubSeq(rest, i + 1, Len(rest))
            = SubSeq(F, (n + 1) + (i + 1) - 1, (n + 1) + Len(rest) - 1)
      BY <3>1, SubSeqOfSubSeq
    <3> QED BY <1>1, <1>2, <3>2
  <2> QED BY <1>1, <1>2, <2>1, <2>2
<1> QED BY <1>3, <1>4, <1>5

\* Reading one byte with Head, Tail and Append moves the border by one.
MovesOne(F, n) ==
    LET rest == SubSeq(F, n + 1, Len(F)) IN
      /\ Head(rest) = F[n + 1]
      /\ Append(SubSeq(F, 1, n), Head(rest)) = SubSeq(F, 1, n + 1)
      /\ Tail(rest) = SubSeq(F, n + 2, Len(F))

LEMMA SplitMovesOne ==
  ASSUME NEW F \in Seq(Byte), NEW n \in 0..(Len(F) - 1)
  PROVE  MovesOne(F, n)
<1> DEFINE rest == SubSeq(F, n + 1, Len(F))
<1>1. Len(F) \in Nat /\ n + 1 \in 1..Len(F)
  BY LenProperties
<1>2. Head(rest) = F[n + 1] /\ Tail(rest) = SubSeq(F, n + 2, Len(F))
  BY <1>1, HeadTailOfSubSeq
<1>3. SubSeq(F, 1, n + 1) = SubSeq(F, 1, n) \o <<F[n + 1]>>
  BY <1>1, SubSeqRecursiveSecond
<1>4. SubSeq(F, 1, n) \in Seq(Byte) /\ F[n + 1] \in Byte
  BY <1>1, SubSeqProperties, ElementOfSeq
<1>5. Append(SubSeq(F, 1, n), Head(rest)) = SubSeq(F, 1, n + 1)
  <2> HIDE DEF rest
  <2> QED BY <1>2, <1>3, <1>4, AppendIsConcat
<1> QED BY <1>2, <1>5 DEF MovesOne

-----------------------------------------------------------------------------
(***************************************************************************)
(* The inductive invariant.                                                *)
(***************************************************************************)
LastStrip == page[Len(page)]

\* Strips that have been read are all there are, or all but the last.
AllRead     == chunks = page /\ wire = <<>>
AllButLast  == page # <<>> /\ page = Append(chunks, LastStrip)

\* In the middle of a strip what has been read of it contains no EOI, and the
\* scan has not run past the 0xff of the one there is.
InFrame(p) ==
    /\ Split(LastStrip \o p, Len(data))
    /\ step = "scan" => Len(data) <= Len(LastStrip) - 2
    /\ step = "next" => /\ Len(data) \in 1..(Len(LastStrip) - 1)
                        /\ LastStrip[Len(data)] = 255

TypeInv ==
    /\ step \in {"poll", "scan", "next", "drain", "saved", "failed"}
    /\ page \in Seq(Strips) /\ chunks \in Seq(Strips)
    /\ wire \in Seq(Byte) /\ data \in Seq(Byte) /\ cut \in BOOLEAN

ReadInv ==
    /\ step \in {"poll", "saved"} => AllRead
    /\ step = "drain" => chunks = page /\ Len(wire) = 16
    /\ step \in {"scan", "next"} =>
         /\ AllButLast
         /\ IF cut THEN wire = <<>> ELSE \E p \in Paddings : InFrame(p)
    /\ step = "next" => Len(data) <= maxStripBytes
    /\ step = "failed" => AllButLast
    /\ step \in {"poll", "drain", "saved"} => ~cut

LimitInv ==
    /\ step = "failed" /\ ~cut => Len(LastStrip) > maxStripBytes
    /\ \A i \in 1..Len(chunks) : Len(chunks[i]) <= maxStripBytes + 1

StreamInv == TypeInv /\ ReadInv /\ LimitInv

LEMMA LastStripType ==
  ASSUME TypeInv, AllButLast
  PROVE  LastStrip \in Strips
<1>1. Len(page) \in 1..Len(page)
  BY EmptySeq, LenProperties DEF TypeInv, AllButLast
<1> QED BY <1>1, ElementOfSeq DEF TypeInv, LastStrip

LEMMA StreamInit == Init => StreamInv
<1> SUFFICES ASSUME Init PROVE StreamInv
  OBVIOUS
<1>1. <<>> \in Seq(Strips) /\ <<>> \in Seq(Byte) /\ Len(<<>>) = 0
  BY EmptySeq
<1>2. TypeInv
  BY <1>1 DEF Init, TypeInv
<1>3. ReadInv
  BY DEF Init, ReadInv, AllRead
<1>4. LimitInv
  BY <1>1 DEF Init, LimitInv
<1> QED BY <1>2, <1>3, <1>4 DEF StreamInv

LEMMA FetchKeeps ==
  ASSUME StreamInv, Fetch
  PROVE  StreamInv'
<1>1. PICK s \in Strips, p \in Paddings :
        page' = Append(page, s) /\ wire' = wire \o s \o p
  BY DEF Fetch
<1>2. step = "poll" /\ step' = "scan" /\ data' = <<>> /\ chunks' = chunks
      /\ cut' = cut /\ chunks = page /\ wire = <<>>
  BY DEF Fetch, StreamInv, ReadInv, AllRead
<1>3. /\ s \in Seq(Byte) /\ p \in Seq(Byte) /\ Len(s) \in Nat /\ Len(s) >= 2
      /\ s \o p \in Seq(Byte) /\ Len(s \o p) = Len(s) + 16
  BY StripType, PaddingType, FrameProperties
<1>4. wire' = s \o p
  BY <1>1, <1>2, <1>3, ConcatEmptySeq
<1>5. /\ page' \in Seq(Strips) /\ page' # <<>> /\ Len(page') = Len(page) + 1
      /\ page'[Len(page) + 1] = s
  BY <1>1, AppendProperties DEF StreamInv, TypeInv
<1>6. LastStrip' = s
  BY <1>5 DEF LastStrip
<1>7. Len(data') = 0 /\ data' \in Seq(Byte)
  BY <1>2, EmptySeq
<1>8. Split(s \o p, 0)'
  <2>1. SubSeq(s \o p, 1, 0) = <<>>
    BY SubSeqEmpty
  <2>2. SubSeq(s \o p, 1, Len(s \o p)) = s \o p
    BY <1>3, SubSeqFull
  <2> QED BY <1>2, <1>4, <2>1, <2>2 DEF Split
<1>9. InFrame(p)'
  BY <1>2, <1>3, <1>6, <1>7, <1>8 DEF InFrame
<1>10. TypeInv'
  BY <1>2, <1>3, <1>4, <1>5, <1>7 DEF StreamInv, TypeInv
<1>11. AllButLast'
  BY <1>1, <1>2, <1>5, <1>6 DEF AllButLast
<1>12. ~cut'
  BY <1>2 DEF StreamInv, ReadInv
<1> QED BY <1>2, <1>9, <1>10, <1>11, <1>12 DEF StreamInv, ReadInv, LimitInv

\* In the middle of a strip that goes on arriving, its EOI is still to be read.
LEMMA InFrameTypes ==
  ASSUME StreamInv, AllButLast, NEW p \in Paddings,
         InFrame(p), step \in {"scan", "next"}
  PROVE  /\ LastStrip \in Strips /\ LastStrip \o p \in Seq(Byte)
         /\ Len(LastStrip \o p) = Len(LastStrip) + 16
         /\ Len(LastStrip) \in Nat
         /\ Len(data) \in 0..(Len(LastStrip) - 1)
         /\ wire = SubSeq(LastStrip \o p, Len(data) + 1, Len(LastStrip \o p))
         /\ Len(wire) = Len(LastStrip) + 16 - Len(data)
         /\ \A i \in 1..(Len(LastStrip) - Len(data)) :
              wire[i] = LastStrip[Len(data) + i]
<1>1. LastStrip \in Strips
  BY LastStripType DEF StreamInv
<1>2. /\ LastStrip \o p \in Seq(Byte)
      /\ Len(LastStrip \o p) = Len(LastStrip) + 16
      /\ \A i \in 1..Len(LastStrip) : (LastStrip \o p)[i] = LastStrip[i]
      /\ Len(LastStrip) \in Nat
  BY <1>1, FrameProperties, StripType
<1>3. Len(data) \in Nat
  BY LenProperties DEF StreamInv, TypeInv
<1>4. Len(data) \in 0..(Len(LastStrip) - 1)
  BY <1>2, <1>3 DEF InFrame
<1>5. wire = SubSeq(LastStrip \o p, Len(data) + 1, Len(LastStrip \o p))
  BY DEF InFrame, Split
<1>6. Len(data) \in 0..Len(LastStrip \o p)
  BY <1>2, <1>4
<1>7. /\ Len(wire) = Len(LastStrip \o p) - Len(data)
      /\ \A i \in 1..Len(wire) : wire[i] = (LastStrip \o p)[Len(data) + i]
  BY <1>2, <1>5, <1>6, RestOfFrame
<1>8. ASSUME NEW i \in 1..(Len(LastStrip) - Len(data))
      PROVE  wire[i] = LastStrip[Len(data) + i]
  <2>1. i \in 1..Len(wire) /\ Len(data) + i \in 1..Len(LastStrip)
    BY <1>2, <1>4, <1>7
  <2> QED BY <1>2, <1>7, <2>1
<1> QED BY <1>1, <1>2, <1>4, <1>5, <1>7, <1>8

LEMMA BreakOffKeeps ==
  ASSUME StreamInv, BreakOff
  PROVE  StreamInv'
BY EmptySeq
DEF BreakOff, StreamInv, TypeInv, ReadInv, LimitInv, AllButLast, LastStrip

LEMMA ReadBytesKeeps ==
  ASSUME StreamInv, ReadBytes
  PROVE  StreamInv'
<1>1. PICK i \in 1..Len(wire) :
        /\ wire[i] = 255 /\ \A j \in 1..(i - 1) : wire[j] # 255
        /\ data' = data \o SubSeq(wire, 1, i)
        /\ wire' = SubSeq(wire, i + 1, Len(wire))
        /\ step' = IF StripTooLong(Len(data), i) THEN "failed" ELSE "next"
  BY DEF ReadBytes
<1>2. step = "scan" /\ UNCHANGED <<page, chunks, cut>> /\ AllButLast
  BY DEF ReadBytes, StreamInv, ReadInv
<1>3. ~cut /\ cut = FALSE
  BY <1>1, <1>2, EmptySeq DEF StreamInv, ReadInv, TypeInv
<1>4. PICK p \in Paddings : InFrame(p)
  BY <1>2, <1>3 DEF StreamInv, ReadInv
<1> DEFINE s == LastStrip
           F == LastStrip \o p
           n == Len(data)
<1>5. /\ s \in Strips /\ F \in Seq(Byte) /\ Len(F) = Len(s) + 16
      /\ Len(s) \in Nat /\ n \in 0..(Len(s) - 2)
      /\ wire = SubSeq(F, n + 1, Len(F)) /\ Len(wire) = Len(s) + 16 - n
      /\ \A j \in 1..(Len(s) - n) : wire[j] = s[n + j]
  BY <1>2, <1>4, InFrameTypes DEF InFrame
<1>6. s[Len(s) - 1] = 255
  BY <1>5, StripType
\* The scan stops at EOI's 0xff at the latest.
<1>7. n + i <= Len(s) - 1
  <2>1. Len(s) - 1 - n \in 1..(Len(s) - n) /\ n + (Len(s) - 1 - n) = Len(s) - 1
    BY <1>5
  <2>2. wire[Len(s) - 1 - n] = 255
    <3>1. wire[Len(s) - 1 - n] = s[n + (Len(s) - 1 - n)]
      BY <1>5, <2>1
    <3> QED BY <1>6, <2>1, <3>1
  <2>3. ~(Len(s) - 1 - n \in 1..(i - 1))
    BY <1>1, <2>2
  <2>4. i \in Nat
    BY <1>5
  <2> QED BY <1>5, <2>1, <2>3, <2>4
<1>8. s[n + i] = 255
  <2>1. i \in 1..(Len(s) - n)
    BY <1>5, <1>7
  <2> QED BY <1>1, <1>5, <2>1
<1>9. data' = SubSeq(F, 1, n + i) /\ wire' = SubSeq(F, n + i + 1, Len(F))
  <2>1. n \in 0..Len(F) /\ i \in 1..(Len(F) - n)
    BY <1>5, <1>7
  <2>2. data = SubSeq(F, 1, n)
    BY <1>4 DEF InFrame, Split
  <2>3. /\ SubSeq(F, 1, n) \o SubSeq(wire, 1, i) = SubSeq(F, 1, n + i)
        /\ SubSeq(wire, i + 1, Len(wire)) = SubSeq(F, n + i + 1, Len(F))
    BY <1>5, <2>1, SplitMoves, Zenon
  <2> QED BY <1>1, <2>2, <2>3
<1>10. data' \in Seq(Byte) /\ Len(data') = n + i /\ wire' \in Seq(Byte)
  <2>1. /\ 1 \in Int /\ n + i \in Int /\ n + i + 1 \in Int /\ Len(F) \in Int
        /\ \A j \in 1..(n + i) : j \in 1..Len(F)
        /\ \A j \in (n + i + 1)..Len(F) : j \in 1..Len(F)
    BY <1>5, <1>7
  <2>4. /\ \A j \in 1..(n + i) : F[j] \in Byte
        /\ \A j \in (n + i + 1)..Len(F) : F[j] \in Byte
    BY <1>5, <2>1, ElementOfSeq, Zenon
  <2>2. SubSeq(F, 1, n + i) \in Seq(Byte)
        /\ Len(SubSeq(F, 1, n + i)) = IF 1 <= n + i THEN n + i - 1 + 1 ELSE 0
    BY <2>1, <2>4, SubSeqProperties, SMTT(20)
  <2>3. SubSeq(F, n + i + 1, Len(F)) \in Seq(Byte)
    BY <2>1, <2>4, SubSeqProperties, SMTT(20)
  <2>5. n + i \in Nat /\ 1 <= n + i
    BY <1>5
  <2>6. Len(SubSeq(F, 1, n + i)) = n + i
    BY <2>2, <2>5
  <2> QED BY <1>9, <2>2, <2>3, <2>6
<1>11. LastStrip' = s /\ AllButLast'
  BY <1>2 DEF LastStrip, AllButLast
<1>12. TypeInv'
  BY <1>1, <1>2, <1>10 DEF StreamInv, TypeInv
<1>13. CASE n + i > maxStripBytes
  <2>1. step' = "failed"
    BY <1>1, <1>13 DEF StripTooLong
  <2>2. Len(s) > maxStripBytes
    BY <1>5, <1>7, <1>13, StripsAssumption
  <2> QED BY <1>2, <1>11, <1>12, <2>1, <2>2
      DEF StreamInv, ReadInv, LimitInv
<1>14. CASE ~(n + i > maxStripBytes)
  <2>1. step' = "next"
    BY <1>1, <1>14 DEF StripTooLong
  <2>2. n + i <= maxStripBytes
    BY <1>5, <1>14, StripsAssumption
  <2>3. InFrame(p)'
    <3>1. Split(LastStrip \o p, Len(data))'
      BY <1>9, <1>10, <1>11 DEF Split
    <3>2. n + i \in 1..(Len(s) - 1)
      BY <1>5, <1>7
    <3> QED BY <1>8, <1>10, <1>11, <2>1, <3>1, <3>2 DEF InFrame
  <2> QED BY <1>2, <1>3, <1>10, <1>11, <1>12, <2>1, <2>2, <2>3
      DEF StreamInv, ReadInv, LimitInv
<1> QED BY <1>13, <1>14

LEMMA ReadBytesFailsKeeps ==
  ASSUME StreamInv, ReadBytesFails
  PROVE  StreamInv'
<1>1. /\ step = "scan" /\ step' = "failed" /\ \A i \in 1..Len(wire) : wire[i] # 255
      /\ UNCHANGED <<page, wire, data, chunks, cut>> /\ AllButLast
  BY DEF ReadBytesFails, StreamInv, ReadInv
<1>2. cut
  <2> SUFFICES ASSUME ~cut PROVE FALSE
    OBVIOUS
  <2>1. PICK p \in Paddings : InFrame(p)
    BY <1>1 DEF StreamInv, ReadInv
  <2> DEFINE j == Len(LastStrip) - 1 - Len(data)
  <2>2. /\ LastStrip \in Strips /\ j \in 1..(Len(LastStrip) - Len(data))
        /\ j \in 1..Len(wire) /\ Len(data) + j = Len(LastStrip) - 1
        /\ wire[j] = LastStrip[Len(data) + j]
    <3>1. /\ LastStrip \in Strips /\ Len(LastStrip) \in Nat
          /\ Len(data) \in 0..(Len(LastStrip) - 2)
          /\ Len(wire) = Len(LastStrip) + 16 - Len(data)
          /\ \A i \in 1..(Len(LastStrip) - Len(data)) :
               wire[i] = LastStrip[Len(data) + i]
      BY <1>1, <2>1, InFrameTypes DEF InFrame
    <3>2. /\ j \in 1..(Len(LastStrip) - Len(data)) /\ j \in 1..Len(wire)
          /\ Len(data) + j = Len(LastStrip) - 1
      BY <3>1
    <3> QED BY <3>1, <3>2
  <2>3. LastStrip[Len(LastStrip) - 1] = 255
    BY <2>2, StripType
  <2> QED BY <1>1, <2>2, <2>3
<1> QED BY <1>1, <1>2
    DEF StreamInv, TypeInv, ReadInv, LimitInv, AllButLast, LastStrip

LEMMA ReadByteFailsKeeps ==
  ASSUME StreamInv, ReadByteFails
  PROVE  StreamInv'
<1>1. /\ step = "next" /\ step' = "failed" /\ wire = <<>> /\ AllButLast
      /\ UNCHANGED <<page, wire, data, chunks, cut>>
  BY DEF ReadByteFails, StreamInv, ReadInv
<1>2. cut
  <2> SUFFICES ASSUME ~cut PROVE FALSE
    OBVIOUS
  <2>1. PICK p \in Paddings : InFrame(p)
    BY <1>1 DEF StreamInv, ReadInv
  <2>2. Len(wire) > 0
    BY <1>1, <2>1, InFrameTypes
  <2> QED BY <1>1, <2>2
<1> QED BY <1>1, <1>2
    DEF StreamInv, TypeInv, ReadInv, LimitInv, AllButLast, LastStrip

LEMMA ReadByteKeeps ==
  ASSUME StreamInv, ReadByte
  PROVE  StreamInv'
<1>1. /\ step = "next" /\ wire # <<>> /\ page' = page /\ cut' = cut
      /\ data' = Append(data, Head(wire)) /\ wire' = Tail(wire)
  BY DEF ReadByte
<1>2. AllButLast /\ ~cut /\ Len(data) <= maxStripBytes
  BY <1>1 DEF StreamInv, ReadInv
<1>3. PICK p \in Paddings : InFrame(p)
  BY <1>1, <1>2 DEF StreamInv, ReadInv
<1> DEFINE s == LastStrip
           F == LastStrip \o p
           n == Len(data)
<1>4. /\ s \in Strips /\ F \in Seq(Byte) /\ Len(F) = Len(s) + 16
      /\ Len(s) \in Nat /\ n \in 1..(Len(s) - 1) /\ s[n] = 255
      /\ wire = SubSeq(F, n + 1, Len(F)) /\ data = SubSeq(F, 1, n)
  BY <1>1, <1>2, <1>3, InFrameTypes DEF InFrame, Split
<1>5. /\ s[n + 1] # 255 /\ (s[n + 1] = 217 <=> n = Len(s) - 1)
      /\ s[Len(s) - 1] = 255 /\ s \in Seq(Byte) /\ n + 1 \in 1..Len(s)
  BY <1>4, StripType
<1>6. F[n + 1] = s[n + 1] /\ SubSeq(F, 1, Len(s)) = s
  BY <1>4, <1>5, FrameProperties
<1>7. /\ Head(wire) = s[n + 1] /\ data' = SubSeq(F, 1, n + 1)
      /\ wire' = SubSeq(F, n + 2, Len(F))
  <2>1. n \in 0..(Len(F) - 1)
    BY <1>4
  <2>2. MovesOne(F, n)
    <3>1. F \in Seq(Byte)
      BY <1>4
    <3> HIDE DEF F, n
    <3> QED BY <2>1, <3>1, SplitMovesOne
  <2> HIDE DEF F, n
  <2> QED BY <1>1, <1>4, <1>6, <2>2 DEF MovesOne
<1>8. /\ data' \in Seq(Byte) /\ Len(data') = n + 1
      /\ wire' \in Seq(Byte) /\ Len(wire') = Len(F) - (n + 1)
  <2>1. n + 1 \in 0..Len(F) /\ (n + 1) + 1 = n + 2
    BY <1>4
  <2>2. wire' \in Seq(Byte) /\ Len(wire') = Len(F) - (n + 1)
    <3>1. wire' = SubSeq(F, (n + 1) + 1, Len(F))
      BY <1>7, <2>1
    <3>2. F \in Seq(Byte)
      BY <1>4
    <3> HIDE DEF F, n
    <3> QED BY <2>1, <3>1, <3>2, RestOfFrame
  <2>3. s[n + 1] \in Byte
    BY <1>5, ElementOfSeq
  <2>4. data' = Append(data, s[n + 1]) /\ data \in Seq(Byte)
    BY <1>1, <1>7 DEF StreamInv, TypeInv
  <2>5. data' \in Seq(Byte) /\ Len(data') = n + 1
    BY <2>3, <2>4, AppendProperties
  <2> QED BY <2>2, <2>5
<1>9. LastStrip' = s
  BY <1>1 DEF LastStrip
<1>10. CASE s[n + 1] = 217
  <2>1. step' = "drain" /\ chunks' = Append(chunks, data')
    BY <1>7, <1>10 DEF ReadByte
  <2>2. n + 1 = Len(s) /\ data' = s
    BY <1>4, <1>5, <1>6, <1>7, <1>10
  <2>3. chunks' = page
    BY <1>2, <2>1, <2>2 DEF AllButLast
  <2>4. chunks \in Seq(Strips) /\ chunks' \in Seq(Strips)
    BY <1>1, <2>3 DEF StreamInv, TypeInv
  <2>5. TypeInv'
    BY <1>1, <1>8, <2>1, <2>4 DEF StreamInv, TypeInv
  <2>6. Len(wire') = 16
    BY <1>4, <1>8, <2>2
  <2>7. \A i \in 1..Len(chunks') : Len(chunks'[i]) <= maxStripBytes + 1
    <3>1. /\ Len(chunks') = Len(chunks) + 1 /\ Len(chunks) \in Nat
          /\ \A i \in 1..Len(chunks) : chunks'[i] = chunks[i]
          /\ chunks'[Len(chunks) + 1] = s
      BY <1>4, <2>1, <2>2, <2>4, AppendProperties, LenProperties
    <3>2. Len(s) <= maxStripBytes + 1
      BY <1>2, <1>4, <2>2, StripsAssumption
    <3> QED BY <3>1, <3>2 DEF StreamInv, LimitInv
  <2> QED BY <1>1, <1>2, <2>1, <2>3, <2>5, <2>6, <2>7
      DEF StreamInv, ReadInv, LimitInv
<1>11. CASE s[n + 1] # 217
  <2>1. step' = "scan" /\ chunks' = chunks
    BY <1>7, <1>11 DEF ReadByte
  <2>2. n + 1 <= Len(s) - 2
    <3>1. n # Len(s) - 1 /\ n + 1 # Len(s) - 1
      BY <1>5, <1>11
    <3> QED BY <1>4, <3>1
  <2>3. InFrame(p)'
    <3>1. Split(LastStrip \o p, Len(data))'
      <4>1. (n + 1) + 1 = n + 2
        BY <1>4
      <4> QED BY <1>7, <1>8, <1>9, <4>1 DEF Split
    <3> QED BY <1>8, <1>9, <2>1, <2>2, <3>1 DEF InFrame
  <2>4. AllButLast' /\ TypeInv'
    BY <1>1, <1>2, <1>8, <1>9, <2>1 DEF AllButLast, StreamInv, TypeInv
  <2> QED BY <1>1, <1>2, <2>1, <2>3, <2>4 DEF StreamInv, ReadInv, LimitInv
<1> QED BY <1>10, <1>11

LEMMA DrainKeeps ==
  ASSUME StreamInv, Drain
  PROVE  StreamInv'
<1>1. /\ step = "drain" /\ step' = "poll" /\ wire' = SubSeq(wire, 17, Len(wire))
      /\ UNCHANGED <<page, data, chunks, cut>>
  BY DEF Drain
<1>2. chunks = page /\ Len(wire) = 16 /\ ~cut
  BY <1>1 DEF StreamInv, ReadInv
<1>3. wire' = <<>> /\ wire' \in Seq(Byte)
  BY <1>1, <1>2, SubSeqEmpty, EmptySeq
<1> QED BY <1>1, <1>2, <1>3
    DEF StreamInv, TypeInv, ReadInv, AllRead, LimitInv

LEMMA StreamNext == StreamInv /\ [Next]_vars => StreamInv'
<1> SUFFICES ASSUME StreamInv, [Next]_vars PROVE StreamInv'
  OBVIOUS
<1>1. CASE Finish
  BY <1>1
  DEF Finish, StreamInv, TypeInv, ReadInv, LimitInv, AllRead, AllButLast
<1>2. CASE UNCHANGED vars
  BY <1>2 DEF vars, StreamInv, TypeInv, ReadInv, LimitInv, AllRead, AllButLast,
     LastStrip, InFrame, Split
<1> QED BY <1>1, <1>2, FetchKeeps, BreakOffKeeps, ReadBytesKeeps,
        ReadBytesFailsKeeps, ReadByteKeeps, ReadByteFailsKeeps, DrainKeeps
        DEF Next, Returned

LEMMA StreamInvariant == Spec => []StreamInv
BY StreamInit, StreamNext, PTL DEF Spec

-----------------------------------------------------------------------------
\* readJPEGStrip returns the strips as they were sent, in order, whatever lies
\* in the padding and wherever the stream breaks off.
THEOREM StripsComeWhole == Spec => []StripsWhole
<1>1. StreamInv => StripsWhole
  <2> SUFFICES ASSUME StreamInv PROVE IsPrefix(chunks, page)
    BY DEF StripsWhole
  <2>1. CASE chunks = page
    BY <2>1, LenProperties DEF IsPrefix, StreamInv, TypeInv
  <2>2. CASE AllButLast
    <3>1. LastStrip \in Strips
      BY <2>2, LastStripType DEF StreamInv
    <3>2. /\ chunks \in Seq(Strips) /\ page = Append(chunks, LastStrip)
          /\ page \in Seq(Strips) /\ Len(page) = Len(chunks) + 1
          /\ Len(chunks) \in Nat
          /\ \A i \in 1..Len(chunks) : page[i] = chunks[i]
      BY <2>2, <3>1, AppendProperties, LenProperties
      DEF AllButLast, StreamInv, TypeInv
    <3>3. SubSeq(page, 1, Len(chunks)) = SubSeq(chunks, 1, Len(chunks))
      BY <3>1, <3>2, AppendIsConcat, SubSeqOfConcat1
    <3> QED BY <3>2, <3>3 DEF IsPrefix
  <2> QED BY <2>1, <2>2 DEF StreamInv, ReadInv, TypeInv, AllRead
<1> QED BY <1>1, StreamInvariant, PTL

\* Unless bytes are missing only a strip above the limit fails, and one that is
\* read exceeds it by one byte at most.
THEOREM StripLimitHolds == Spec => []StripLimit
<1>1. StreamInv => StripLimit
  BY DEF StreamInv, LimitInv, StripLimit, LastStrip
<1> QED BY <1>1, StreamInvariant, PTL
-----------------------------------------------------------------------------
(***************************************************************************)
(* The strips found again in the page's bytes.  A strip k takes the bytes  *)
(* after the upto(k - 1) bytes of those before it, up to the upto(k)-th.  *)
(***************************************************************************)
\* findSOI goes through the bytes from left to right.
LEMMA FoundSteps ==
  ASSUME NEW d \in Seq(Byte)
  PROVE  \E f \in [0..Len(d) -> Seq(Nat)] :
           /\ findSOI(d) = f[Len(d)] /\ f[0] = <<>>
           /\ \A i \in 1..Len(d) :
                f[i] = f[i - 1] \o (IF SOI(d, i) THEN <<i>> ELSE <<>>)
<1> DEFINE n == Len(d)
           One(i) == IF SOI(d, i) THEN <<i>> ELSE <<>>
           Good(m) == \E f \in [0..m -> Seq(Nat)] :
             f[0] = <<>> /\ \A i \in 1..m : f[i] = f[i - 1] \o One(i)
           S == {m \in Nat : Good(m)}
<1>1. n \in Nat
  BY LenProperties
<1>2. Good(0)
  <2> DEFINE f == [i \in 0..0 |-> <<>>]
  <2>1. f \in [0..0 -> Seq(Nat)] /\ f[0] = <<>>
    BY EmptySeq
  <2>2. \A i \in 1..0 : f[i] = f[i - 1] \o One(i)
    OBVIOUS
  <2> HIDE DEF f
  <2> QED BY <2>1, <2>2
<1>3. ASSUME NEW m \in Nat, Good(m) PROVE Good(m + 1)
  <2>1. PICK f \in [0..m -> Seq(Nat)] :
          f[0] = <<>> /\ \A i \in 1..m : f[i] = f[i - 1] \o One(i)
    BY <1>3
  <2>2. One(m + 1) \in Seq(Nat)
    <3>1. <<m + 1>> \in Seq(Nat) /\ <<>> \in Seq(Nat)
      BY EmptySeq
    <3> QED BY <3>1
  <2> HIDE DEF One
  <2> DEFINE last == f[m] \o One(m + 1)
             g == [i \in 0..(m + 1) |-> IF i = m + 1 THEN last ELSE f[i]]
  <2>3. last \in Seq(Nat)
    <3>1. f[m] \in Seq(Nat)
      BY <2>1
    <3> QED BY <2>2, <3>1, ConcatProperties
  <2>4. last = f[m] \o One(m + 1)
    OBVIOUS
  <2> HIDE DEF last
  <2>5. g \in [0..(m + 1) -> Seq(Nat)]
    BY <2>1, <2>3
  <2>6. g[0] = <<>>
    BY <2>1
  <2>7. ASSUME NEW i \in 1..(m + 1) PROVE g[i] = g[i - 1] \o One(i)
    <3>1. g[i - 1] = f[i - 1]
      OBVIOUS
    <3>2. CASE i = m + 1
      <4>1. g[i] = last /\ i - 1 = m
        BY <3>2
      <4> QED BY <2>4, <3>1, <3>2, <4>1
    <3>3. CASE i # m + 1
      <4>1. i \in 1..m /\ g[i] = f[i]
        BY <3>3
      <4> QED BY <2>1, <3>1, <4>1
    <3> QED BY <3>2, <3>3
  <2> HIDE DEF g
  <2> QED BY <2>5, <2>6, <2>7
<1> HIDE DEF Good
<1>4. S \in SUBSET Nat /\ 0 \in S /\ \A m \in S : m + 1 \in S
  BY <1>2, <1>3
<1> HIDE DEF S
<1>5. S = Nat
  BY <1>4, SetInduction
<1>6. Good(n)
  BY <1>1, <1>5 DEF S
<1>7. PICK f \in [0..n -> Seq(Nat)] :
        f[0] = <<>> /\ \A i \in 1..n : f[i] = f[i - 1] \o One(i)
  BY <1>6 DEF Good
<1>8. f = [i \in 0..n |-> IF i = 0 THEN <<>> ELSE f[i - 1] \o One(i)]
  <2> HIDE DEF One
  <2> QED BY <1>7
<1> DEFINE g == CHOOSE h : h = [i \in 0..n |-> IF i = 0 THEN <<>>
                                                ELSE h[i - 1] \o One(i)]
<1>9. g = [i \in 0..n |-> IF i = 0 THEN <<>> ELSE g[i - 1] \o One(i)]
  BY <1>8, Zenon
<1>10. findSOI(d) = g[n]
  BY Zenon DEF findSOI
<1> HIDE DEF g, One
<1> DEFINE E == {m \in Nat : m \in 0..n => g[m] = f[m]}
<1>11. E \in SUBSET Nat /\ 0 \in E
  BY <1>1, <1>7, <1>9
<1>12. ASSUME NEW m \in E PROVE m + 1 \in E
  <2> SUFFICES ASSUME m + 1 \in 0..n PROVE g[m + 1] = f[m + 1]
    OBVIOUS
  <2>1. m \in 0..n /\ m + 1 # 0 /\ (m + 1) - 1 = m
    BY <1>1
  <2>2. g[m + 1] = g[m] \o One(m + 1) /\ f[m + 1] = f[m] \o One(m + 1)
    BY <1>8, <1>9, <2>1
  <2>3. g[m] = f[m]
    BY <2>1
  <2> QED BY <2>2, <2>3
<1> HIDE DEF E
<1>13. E = Nat
  BY <1>11, <1>12, SetInduction
<1>14. g[n] = f[n]
  BY <1>1, <1>13 DEF E
<1> QED BY <1>7, <1>10, <1>14 DEF One

\* In a page of strips the beginnings of the strips are the only SOI: a strip
\* has no other, and none lies across the border of two, for a strip ends with
\* EOI.
LEMMA SOIOfPage ==
  ASSUME NEW cs \in Seq(Strips), cs # <<>>,
         NEW k \in 1..Len(cs), NEW j \in 1..Len(cs[k])
  PROVE  SOI(FlattenSeq(cs), upto(cs, k - 1) + j) <=> j = 1
<1> DEFINE d == FlattenSeq(cs)
           s == cs[k]
           p == upto(cs, k - 1)
<1>1. cs \in Seq(Seq(Byte)) /\ s \in Strips
  <2>1. Strips \subseteq Seq(Byte)
    BY StripsAssumption DEF Byte
  <2> QED BY <2>1, ElementOfSeq
<1>2. /\ s \in Seq(Byte) /\ Len(s) \in Nat /\ Len(s) >= 2
      /\ s[Len(s) - 1] = 255
      /\ \A i \in 1..(Len(s) - 1) : s[i] = 255 =>
           s[i + 1] # 255 /\ (s[i + 1] = 217 <=> i = Len(s) - 1)
  <2> HIDE DEF s
  <2> QED BY <1>1, StripType
<1>3. \A i \in 1..Len(s) : SOI(s, i) <=> i = 1
  BY <1>1, OneSOIAssumption
<1>4. /\ Len(d) = upto(cs, Len(cs)) /\ p \in Nat /\ upto(cs, k) = p + Len(s)
      /\ upto(cs, k) <= upto(cs, Len(cs)) /\ upto(cs, Len(cs)) \in Nat
      /\ \A i \in 1..Len(s) : d[p + i] = s[i]
  <2>1. k \in 0..Len(cs) /\ k - 1 \in 0..Len(cs) /\ Len(cs) \in 0..Len(cs)
    BY LenProperties
  <2> QED BY <1>1, <2>1, UpStep, FlatBytes
<1> HIDE DEF d, s, p
<1>5. CASE j < Len(s)
  <2>1. j \in 1..Len(s) /\ j + 1 \in 1..Len(s) /\ p + j < Len(d)
        /\ (p + j) + 1 = p + (j + 1)
    BY <1>2, <1>4, <1>5 DEF s
  <2>2. d[p + j] = s[j] /\ d[(p + j) + 1] = s[j + 1]
    BY <1>4, <2>1
  <2>3. SOI(d, p + j) <=> SOI(s, j)
    BY <1>5, <2>1, <2>2 DEF SOI
  <2> QED BY <1>3, <2>1, <2>3 DEF d, p
<1>6. CASE j = Len(s)
  <2>1. Len(s) - 1 \in 1..(Len(s) - 1) /\ (Len(s) - 1) + 1 = Len(s) /\ j # 1
        /\ j \in 1..Len(s)
    BY <1>2, <1>6
  <2>2. s[j] = 217
    BY <1>2, <1>6, <2>1
  <2>3. d[p + j] = 217
    BY <1>4, <2>1, <2>2
  <2> QED BY <2>1, <2>3 DEF SOI, d, p
<1>7. j < Len(s) \/ j = Len(s)
  BY <1>2 DEF s
<1> QED BY <1>5, <1>6, <1>7

\* So findSOI finds where the strips begin.
LEMMA SOIFound ==
  ASSUME NEW cs \in Seq(Strips), cs # <<>>
  PROVE  findSOI(FlattenSeq(cs)) = [i \in 1..Len(cs) |-> upto(cs, i - 1) + 1]
<1> DEFINE d == FlattenSeq(cs)
           n == Len(cs)
           Begins(m) == [i \in 1..m |-> upto(cs, i - 1) + 1]
<1>1. cs \in Seq(Seq(Byte)) /\ n \in Nat /\ n # 0
  <2>1. Strips \subseteq Seq(Byte)
    BY StripsAssumption DEF Byte
  <2> QED BY <2>1, LenProperties, EmptySeq
<1>2. \A i \in 1..n : Len(cs[i]) \in Nat /\ Len(cs[i]) >= 2
  BY StripType, ElementOfSeq
<1>3. d \in Seq(Byte) /\ Len(d) = upto(cs, n)
  BY <1>1, FlatBytes
<1>4. /\ upto(cs, 0) = 0 /\ \A i \in 0..n : upto(cs, i) \in Nat
      /\ \A i \in 1..n : upto(cs, i) = upto(cs, i - 1) + Len(cs[i])
      /\ \A i \in 0..n : upto(cs, i) <= upto(cs, n)
  BY <1>1, UpStep
<1>5. \A k \in 1..n : \A j \in 1..Len(cs[k]) :
        SOI(d, upto(cs, k - 1) + j) <=> j = 1
  BY SOIOfPage
<1> HIDE DEF d, n
<1>6. PICK f \in [0..Len(d) -> Seq(Nat)] :
        /\ findSOI(d) = f[Len(d)] /\ f[0] = <<>>
        /\ \A i \in 1..Len(d) :
             f[i] = f[i - 1] \o (IF SOI(d, i) THEN <<i>> ELSE <<>>)
  BY <1>3, FoundSteps
\* After q bytes, the last of which belongs to strip k, that many are found.
<1> DEFINE At(q, k) == /\ k \in 0..n /\ q <= upto(cs, k)
                       /\ k = 0 => q = 0
                       /\ k # 0 => upto(cs, k - 1) < q
                       /\ f[q] = Begins(k)
           S == {q \in Nat : q <= Len(d) => \E k \in 0..n : At(q, k)}
<1>7. At(0, 0)
  <2>1. Begins(0) = <<>>
    OBVIOUS
  <2> HIDE DEF Begins
  <2> QED BY <1>1, <1>4, <1>6, <2>1
<1>8. ASSUME NEW q \in Nat, q + 1 <= Len(d), NEW k \in 0..n, At(q, k)
      PROVE  \E l \in 0..n : At(q + 1, l)
  <2>1. q + 1 \in 1..Len(d) /\ (q + 1) - 1 = q
    BY <1>3, <1>4, <1>8
  <2>2. f[q + 1] = f[q] \o (IF SOI(d, q + 1) THEN <<q + 1>> ELSE <<>>)
    BY <1>6, <2>1
  <2>3. CASE q < upto(cs, k)
    <3>1. k # 0 /\ k \in 1..n
      BY <1>4, <1>8, <2>3
    <3> DEFINE j == q + 1 - upto(cs, k - 1)
    <3>2. j \in 1..Len(cs[k]) /\ j # 1 /\ upto(cs, k - 1) + j = q + 1
          /\ upto(cs, k - 1) < q + 1 /\ q + 1 <= upto(cs, k)
      <4>1. /\ upto(cs, k - 1) \in Nat /\ upto(cs, k) = upto(cs, k - 1) + Len(cs[k])
            /\ upto(cs, k - 1) < q /\ Len(cs[k]) \in Nat
        <5>1. k - 1 \in 0..n
          BY <3>1
        <5> QED BY <1>2, <1>4, <1>8, <3>1, <5>1
      <4>2. \A x, y, l \in Nat : y = x + l /\ x < q /\ q < y =>
              /\ q + 1 - x \in 1..l /\ q + 1 - x # 1 /\ x + (q + 1 - x) = q + 1
              /\ x < q + 1 /\ q + 1 <= y
        OBVIOUS
      <4>3. upto(cs, k) \in Nat
        BY <1>4
      <4> QED BY <2>3, <4>1, <4>2, <4>3, Zenon
    <3>3. ~SOI(d, q + 1)
      BY <1>5, <3>1, <3>2
    <3>4. f[q + 1] = f[q]
      <4>1. f[q] \in Seq(Nat)
        BY <1>6, <2>1
      <4> QED BY <2>2, <3>3, <4>1, ConcatEmptySeq
    <3>5. At(q + 1, k)
      <4> HIDE DEF Begins
      <4> QED BY <1>8, <3>1, <3>2, <3>4
    <3> QED BY <3>5
  <2>4. CASE q = upto(cs, k)
    <3>1. k # n /\ k + 1 \in 1..n /\ k \in 0..n /\ (k + 1) - 1 = k
      BY <1>1, <1>3, <1>8, <2>4
    <3>2. upto(cs, k + 1) = q + Len(cs[k + 1]) /\ Len(cs[k + 1]) >= 2
          /\ Len(cs[k + 1]) \in Nat
      BY <1>2, <1>4, <2>4, <3>1
    <3>3. SOI(d, q + 1)
      <4>1. 1 \in 1..Len(cs[k + 1])
        BY <3>2
      <4> QED BY <1>5, <2>4, <3>1, <4>1
    <3>4. Begins(k) \in Seq(Nat) /\ Len(Begins(k)) = k /\ q + 1 \in Nat
      <4>1. ASSUME NEW i \in 1..k PROVE upto(cs, i - 1) + 1 \in Nat
        <5>1. i - 1 \in 0..n
          BY <1>1, <3>1
        <5>2. upto(cs, i - 1) \in Nat
          BY <1>4, <5>1
        <5> QED BY <5>2
      <4> QED BY <3>1, <4>1
    <3>5. f[q + 1] = Begins(k) \o <<q + 1>>
      <4> HIDE DEF Begins
      <4> QED BY <1>8, <2>2, <3>3
    <3>6. Begins(k) \o <<q + 1>> = Begins(k + 1)
      <4>1. Begins(k) \o <<q + 1>> = Append(Begins(k), q + 1)
        <5> HIDE DEF Begins
        <5> QED BY <3>4, AppendIsConcat
      <4>2. Begins(k + 1) \in Seq(Nat) /\ Len(Begins(k + 1)) = k + 1
        <5>1. ASSUME NEW i \in 1..(k + 1) PROVE upto(cs, i - 1) + 1 \in Nat
          <6>1. i - 1 \in 0..n
            BY <1>1, <3>1
          <6>2. upto(cs, i - 1) \in Nat
            BY <1>4, <6>1
          <6> QED BY <6>2
        <5> QED BY <3>1, <5>1
      <4>3. /\ Append(Begins(k), q + 1) \in Seq(Nat)
            /\ Len(Append(Begins(k), q + 1)) = k + 1
            /\ \A i \in 1..k : Append(Begins(k), q + 1)[i] = Begins(k)[i]
            /\ Append(Begins(k), q + 1)[k + 1] = q + 1
        <5> HIDE DEF Begins
        <5> QED BY <3>4, AppendProperties
      <4>4. \A i \in 1..k : Begins(k)[i] = Begins(k + 1)[i]
        BY <3>1
      <4>5. Begins(k + 1)[k + 1] = q + 1
        BY <2>4, <3>1
      <4>6. \A i \in 1..(k + 1) :
              Append(Begins(k), q + 1)[i] = Begins(k + 1)[i]
        <5> HIDE DEF Begins
        <5>1. \A i \in 1..(k + 1) : i \in 1..k \/ i = k + 1
          BY <3>1
        <5>2. ASSUME NEW i \in 1..k
              PROVE  Append(Begins(k), q + 1)[i] = Begins(k + 1)[i]
          BY <4>3, <4>4
        <5>3. Append(Begins(k), q + 1)[k + 1] = Begins(k + 1)[k + 1]
          BY <4>3, <4>5
        <5> QED BY <5>1, <5>2, <5>3
      <4> HIDE DEF Begins
      <4> QED BY <4>1, <4>2, <4>3, <4>6, SeqEqual
    <3>7. At(q + 1, k + 1)
      <4> HIDE DEF Begins
      <4>1. q + 1 > upto(cs, k)
        BY <2>4, <1>8
      <4>2. q + 1 <= upto(cs, k + 1)
        BY <3>2
      <4>3. f[q + 1] = Begins(k + 1)
        BY <3>5, <3>6
      <4> QED BY <3>1, <4>1, <4>2, <4>3
    <3> HIDE DEF At
    <3> QED BY <3>1, <3>7
  <2>5. q < upto(cs, k) \/ q = upto(cs, k)
    BY <1>4, <1>8
  <2> QED BY <2>3, <2>4, <2>5
<1> HIDE DEF At
<1>9. S \in SUBSET Nat /\ 0 \in S
  BY <1>1, <1>7
<1>10. ASSUME NEW q \in S PROVE q + 1 \in S
  <2> SUFFICES ASSUME q + 1 <= Len(d) PROVE \E l \in 0..n : At(q + 1, l)
    OBVIOUS
  <2>1. q <= Len(d)
    BY <1>3, <1>4
  <2>2. PICK k \in 0..n : At(q, k)
    BY <2>1
  <2> QED BY <1>8, <2>2
<1> HIDE DEF S
<1>11. S = Nat
  BY <1>9, <1>10, SetInduction
<1>12. PICK k \in 0..n : At(Len(d), k)
  <2>1. Len(d) \in Nat /\ Len(d) \in S
    BY <1>3, <1>11, LenProperties
  <2> QED BY <2>1 DEF S

\* All the bytes are the last strip's end, and every strip has bytes.
<1>13. k = n
  <2> SUFFICES ASSUME k # n PROVE FALSE
    OBVIOUS
  <2>1. k + 1 \in 1..n /\ k + 1 \in 0..n /\ (k + 1) - 1 = k
    BY <1>1, <1>12
  <2>2. upto(cs, k + 1) = upto(cs, k) + Len(cs[k + 1]) /\ Len(cs[k + 1]) >= 2
        /\ Len(cs[k + 1]) \in Nat /\ upto(cs, k) \in Nat
        /\ upto(cs, k + 1) <= upto(cs, n) /\ upto(cs, n) \in Nat
    BY <1>1, <1>2, <1>4, <2>1
  <2>3. upto(cs, n) <= upto(cs, k)
    BY <1>3, <1>12 DEF At
  <2> QED BY <2>2, <2>3
<1>14. findSOI(d) = Begins(n)
  <2> HIDE DEF Begins
  <2> QED BY <1>6, <1>12, <1>13 DEF At
<1> QED BY <1>14 DEF d, n

\* A page is cut up into the strips it was put together from.
LEMMA PageSplit ==
  ASSUME NEW cs \in Seq(Strips)
  PROVE  splitStrips(FlattenSeq(cs), findSOI(FlattenSeq(cs))) = cs
<1> DEFINE d == FlattenSeq(cs)
           n == Len(cs)
<1>1. cs \in Seq(Seq(Byte)) /\ n \in Nat
  <2>1. Strips \subseteq Seq(Byte)
    BY StripsAssumption DEF Byte
  <2> QED BY <2>1, LenProperties
<1>2. CASE cs = <<>>
  <2>1. Len(cs) = 0 /\ FlattenSeq(cs) = <<>> /\ Len(<<>>) = 0
    BY <1>2 DEF FlattenSeq
  <2>2. <<>> \in Seq(Byte)
    BY EmptySeq
  <2>3. findSOI(<<>>) = <<>>
    BY <2>1, <2>2, FoundSteps
  <2>4. splitStrips(<<>>, <<>>) = <<>>
    BY <2>1 DEF splitStrips
  <2> QED BY <1>2, <2>1, <2>3, <2>4
<1>3. CASE cs # <<>>
  <2> DEFINE begins == [i \in 1..n |-> upto(cs, i - 1) + 1]
  <2>1. findSOI(d) = begins
    BY <1>3, SOIFound
  <2>2. d \in Seq(Byte) /\ Len(d) = upto(cs, n)
        /\ \A k \in 1..n : \A j \in 1..Len(cs[k]) :
             d[upto(cs, k - 1) + j] = cs[k][j]
    BY <1>1, <1>3, FlatBytes
  <2>3. /\ upto(cs, 0) = 0 /\ \A i \in 0..n : upto(cs, i) \in Nat
        /\ \A i \in 1..n : upto(cs, i) = upto(cs, i - 1) + Len(cs[i])
        /\ \A i \in 0..n : upto(cs, i) <= upto(cs, n)
    BY <1>1, UpStep
  <2>4. \A i \in 1..n : cs[i] \in Seq(Byte) /\ Len(cs[i]) \in Nat
    BY <1>1, LengthsOfParts
  <2>5. Len(begins) = n
    BY <1>1
  <2>6. ASSUME NEW i \in 1..n
        PROVE  SubSeq(d, begins[i], IF i < Len(begins) THEN begins[i + 1] - 1
                                    ELSE Len(d)) = cs[i]
    <3> DEFINE a == upto(cs, i - 1)
               b == upto(cs, i)
    <3>1. a \in Nat /\ b = a + Len(cs[i]) /\ b <= Len(d) /\ Len(d) \in Nat
      <4>1. i - 1 \in 0..n /\ i \in 0..n /\ n \in 0..n
        BY <1>1
      <4> QED BY <2>2, <2>3, <4>1
    <3>2. begins[i] = a + 1
          /\ (IF i < Len(begins) THEN begins[i + 1] - 1 ELSE Len(d)) = b
      <4>1. begins[i] = a + 1
        OBVIOUS
      <4>2. CASE i < n
        <5>1. i + 1 \in 1..n /\ (i + 1) - 1 = i
          BY <1>1, <4>2
        <5>2. begins[i + 1] = b + 1
          BY <5>1
        <5>3. b \in Nat /\ (b + 1) - 1 = b
          BY <2>4, <3>1
        <5> HIDE DEF begins
        <5> QED BY <2>5, <4>1, <4>2, <5>2, <5>3
      <4>3. CASE ~(i < n)
        <5>1. i = n
          BY <1>1, <4>3
        <5> HIDE DEF begins
        <5> QED BY <2>2, <2>5, <4>1, <4>3, <5>1
      <4> QED BY <4>2, <4>3
    <3> DEFINE c == cs[i]
    <3>3. c \in Seq(Byte) /\ Len(c) \in Nat /\ b = a + Len(c)
          /\ \A j \in 1..Len(c) : d[a + j] = c[j]
      BY <2>2, <2>4, <3>1
    <3> HIDE DEF a, b, c, d
    <3>4. \A j \in (a + 1)..b : j \in 1..Len(d)
      BY <3>1, <3>3
    <3>5. \A j \in (a + 1)..b : d[j] \in Byte
      BY <2>2, <3>4, ElementOfSeq, Zenon
    <3>6. a + 1 \in Int /\ b \in Int
      BY <3>1, <3>3
    <3>7. /\ SubSeq(d, a + 1, b) \in Seq(Byte)
          /\ Len(SubSeq(d, a + 1, b)) = IF a + 1 <= b THEN b - (a + 1) + 1 ELSE 0
          /\ \A j \in 1..(b - (a + 1) + 1) : SubSeq(d, a + 1, b)[j]
                                               = d[(a + 1) + j - 1]
      BY <3>5, <3>6, SubSeqProperties
    <3>8. Len(SubSeq(d, a + 1, b)) = Len(c)
      BY <3>1, <3>3, <3>7
    <3>9. ASSUME NEW j \in 1..Len(c) PROVE SubSeq(d, a + 1, b)[j] = c[j]
      <4>1. j \in 1..(b - (a + 1) + 1) /\ (a + 1) + j - 1 = a + j
        BY <3>1, <3>3
      <4> QED BY <3>3, <3>7, <4>1
    <3>10. SubSeq(d, a + 1, b) = c
      BY <3>3, <3>7, <3>8, <3>9, SeqEqual
    <3> QED BY <3>2, <3>10 DEF a, b, c
  <2>7. splitStrips(d, begins) = [i \in 1..n |-> cs[i]]
    <3> HIDE DEF begins, d
    <3> QED BY <2>5, <2>6 DEF splitStrips
  <2>8. [i \in 1..n |-> cs[i]] = cs
    BY <1>1
  <2> HIDE DEF begins
  <2> QED BY <2>1, <2>7, <2>8
<1> QED BY <1>2, <1>3

\* The strips AssembleStrips decodes are the strips that were sent.
THEOREM StripsAreFound == Spec => []StripsFound
<1>1. StreamInv => StripsFound
  <2> SUFFICES ASSUME StreamInv, step = "saved"
               PROVE  splitStrips(raw, findSOI(raw)) = page
    BY DEF StripsFound
  <2>1. chunks = page /\ page \in Seq(Strips)
    BY DEF StreamInv, ReadInv, AllRead, TypeInv
  <2> QED BY <2>1, PageSplit DEF raw
<1> QED BY <1>1, StreamInvariant, PTL
=============================================================================
