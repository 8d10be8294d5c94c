---------------------------- MODULE StripStream -----------------------------
(***************************************************************************)
(* A streaming page byte by byte: the printer sends a strip and 16 bytes   *)
(* of padding for each FETCH, readJPEGStrip looks for the strip's end, and *)
(* AssembleStrips finds the strips again in the page's bytes.  Module      *)
(* Download takes a strip for one message; this module shows that it may.  *)
(***************************************************************************)
EXTENDS StripAssembly

CONSTANTS Strips, Paddings, maxStrips, maxStripBytes

ASSUME StripsAssumption ==
    /\ Strips \subseteq Seq(0..255) /\ Paddings \subseteq [1..16 -> 0..255]
    /\ maxStrips \in Nat /\ maxStripBytes \in Nat

\* A strip ends with EOI, has no other, and no 0xff directly before a marker:
\* readJPEGStrip takes the byte after an 0xff together with it, and would not
\* see the EOI of ff ff d9.
ASSUME MarkersAssumption ==
    \A s \in Strips :
      /\ Len(s) >= 2 /\ s[Len(s) - 1] = 255
      /\ \A i \in 1..(Len(s) - 1) : s[i] = 255 =>
           s[i + 1] # 255 /\ (s[i + 1] = 217 <=> i = Len(s) - 1)

\* It begins with SOI and has no other: AssembleStrips would take it for two.
ASSUME OneSOIAssumption ==
    \A s \in Strips : \A i \in 1..Len(s) : SOI(s, i) <=> i = 1

VARIABLES
    step,       \* "poll", "scan" (for 0xff), "next", "drain", "saved", "failed"
    page,       \* the strips the printer has sent
    wire,       \* the bytes on their way
    data,       \* readJPEGStrip's data
    chunks,     \* the strips read
    cut         \* the connection has gone silent in the middle of a strip

vars == <<step, page, wire, data, chunks, cut>>

Init ==
    /\ step = "poll" /\ page = <<>> /\ wire = <<>>
    /\ data = <<>> /\ chunks = <<>> /\ cut = FALSE

\* POLL and FETCH: the printer sends the next strip.
Fetch ==
    /\ step = "poll" /\ Len(page) < maxStrips
    /\ \E strip \in Strips, padding \in Paddings :
         page' = Append(page, strip) /\ wire' = wire \o strip \o padding
    /\ step' = "scan" /\ data' = <<>>
    /\ UNCHANGED <<chunks, cut>>

\* The bytes that are not read yet never come.
BreakOff ==
    /\ step \in {"scan", "next"} /\ ~cut
    /\ cut' = TRUE /\ wire' = <<>>
    /\ UNCHANGED <<step, page, data, chunks>>

-----------------------------------------------------------------------------
(***************************************************************************)
(* readJPEGStrip and drainPostEOIPadding.                                  *)
(***************************************************************************)
\* (A bug: the limit is on what one read returns.)
StripTooLongByRead(before, read) == read > maxStripBytes

\* data has grown from these bytes by so many.
StripTooLong(before, read) == before + read > maxStripBytes

\* br.ReadBytes(0xff): everything up to the next one.
ReadBytes ==
    /\ step = "scan"
    /\ \E i \in 1..Len(wire) :
         /\ wire[i] = 255 /\ \A j \in 1..(i - 1) : wire[j] # 255
         /\ data' = data \o SubSeq(wire, 1, i)
         /\ wire' = SubSeq(wire, i + 1, Len(wire))
         /\ step' = IF StripTooLong(Len(data), i) THEN "failed" ELSE "next"
    /\ UNCHANGED <<page, chunks, cut>>

\* A byte that does not come is a timeout.
ReadBytesFails ==
    /\ step = "scan" /\ \A i \in 1..Len(wire) : wire[i] # 255
    /\ step' = "failed"
    /\ UNCHANGED <<page, wire, data, chunks, cut>>

\* br.ReadByte: the byte after 0xff, which is EOI's second byte or not.
ReadByte ==
    /\ step = "next" /\ wire # <<>>
    /\ data' = Append(data, Head(wire)) /\ wire' = Tail(wire)
    /\ IF Head(wire) = 217
         THEN step' = "drain" /\ chunks' = Append(chunks, data')
         ELSE step' = "scan" /\ UNCHANGED chunks
    /\ UNCHANGED <<page, cut>>

ReadByteFails ==
    /\ step = "next" /\ wire = <<>> /\ step' = "failed"
    /\ UNCHANGED <<page, wire, data, chunks, cut>>

\* (A bug: the padding is thought to end at the 0xa8 of a status.)
DrainToStatus ==
    /\ step = "drain" /\ step' = "poll"
    /\ LET header == {i \in 1..Len(wire) : wire[i] = 168} IN
         wire' = IF header = {} THEN <<>>
                 ELSE SubSeq(wire, CHOOSE i \in header : TRUE, Len(wire))
    /\ UNCHANGED <<page, data, chunks, cut>>

\* Sixteen bytes, whatever they are.
Drain ==
    /\ step = "drain" /\ step' = "poll"
    /\ wire' = SubSeq(wire, 17, Len(wire))
    /\ UNCHANGED <<page, data, chunks, cut>>

-----------------------------------------------------------------------------
\* The printer has no more strips, and the page goes to AssembleStrips.
Finish ==
    /\ step = "poll" /\ chunks # <<>> /\ step' = "saved"
    /\ UNCHANGED <<page, wire, data, chunks, cut>>

raw == FlattenSeq(chunks)

Returned == step \in {"saved", "failed"} /\ UNCHANGED vars

Next == Fetch \/ BreakOff \/ ReadBytes \/ ReadBytesFails \/ ReadByte
        \/ ReadByteFails \/ Drain \/ Finish \/ Returned

Spec == Init /\ [][Next]_vars

-----------------------------------------------------------------------------
(***************************************************************************)
(* Properties.                                                             *)
(***************************************************************************)
\* readJPEGStrip returns the strips as they were sent: it does not stop at an
\* 0xd9 inside one, nor go on past its end, nor take padding for a strip,
\* whatever the padding is.
StripsWhole == IsPrefix(chunks, page)

\* The strips AssembleStrips decodes are the strips that were sent: nothing
\* of the page is lost, doubled or moved to another strip.
StripsFound == step = "saved" => splitStrips(raw, findSOI(raw)) = page

\* Unless bytes are missing only a strip above the limit fails, and one that
\* is read exceeds it by one byte at most (the last one is not checked).
StripLimit ==
    /\ step = "failed" /\ ~cut => Len(page[Len(page)]) > maxStripBytes
    /\ \A i \in 1..Len(chunks) : Len(chunks[i]) <= maxStripBytes + 1
=============================================================================
