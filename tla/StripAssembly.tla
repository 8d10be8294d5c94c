--------------------------- MODULE StripAssembly ----------------------------
(***************************************************************************)
(* AssembleStrips of package imageutil: where a page's bytes are cut into  *)
(* strips, and the limits on the picture they make.  Decoding, drawing and *)
(* encoding JPEG are libraries; a decoded strip is its width and height.   *)
(***************************************************************************)
EXTENDS Integers, Sequences, SequencesExt

\* findSOI: the places of ff d8, from left to right.  (The code's offsets count
\* from 0.)
SOI(data, i) == i < Len(data) /\ data[i] = 255 /\ data[i + 1] = 216
findSOI(data) ==
    LET found[i \in 0..Len(data)] ==
          IF i = 0 THEN <<>>
          ELSE found[i - 1] \o (IF SOI(data, i) THEN <<i>> ELSE <<>>)
    IN  found[Len(data)]

\* (A bug: a strip reaches into the next one.)
splitStripsLate(raw, offsets) ==
    [i \in 1..Len(offsets) |->
       SubSeq(raw, offsets[i],
              IF i < Len(offsets) THEN offsets[i + 1] ELSE Len(raw))]

\* splitStrips: a strip ends where the next one begins.
splitStrips(raw, offsets) ==
    [i \in 1..Len(offsets) |->
       SubSeq(raw, offsets[i],
              IF i < Len(offsets) THEN offsets[i + 1] - 1 ELSE Len(raw))]

\* The canvas of these strips, one below the other and as wide as the first,
\* and whether it is accepted.  A single strip is the page as it is.
TotalHeight(images) == FoldLeft(LAMBDA h, image : h + image.height, 0, images)
Accepts(images, maxCanvasHeight, maxCanvasPixels) ==
    \/ Len(images) <= 1
    \/ /\ TotalHeight(images) <= maxCanvasHeight
       /\ images[1].width * TotalHeight(images) <= maxCanvasPixels
=============================================================================
