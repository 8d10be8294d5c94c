--------------------------- MODULE MCStripStream ----------------------------
EXTENDS StripStream

\* Strips of up to three pieces between SOI and EOI: a plain byte, a stuffed
\* 0xff, a restart marker, and bare second bytes of SOI and EOI.
Pieces == { <<1>>, <<255, 0>>, <<255, 208>>, <<216>>, <<217>> }
Bodies == UNION { [1..n -> Pieces] : n \in 0..2 }
JPEGs  == { <<255, 216>> \o FlattenSeq(b) \o <<255, 217>> : b \in Bodies }
          \cup { <<255, 216, 1, 255, 0, 255, 0, 255, 217>>,
                 <<255, 216, 1, 1, 1, 1, 255, 217>> }

\* Padding may look like a status, like the end or the beginning of a strip.
Padding16 == { [i \in 1..16 |-> 0], [i \in 1..16 |-> IF i = 15 THEN 168 ELSE 29],
               [i \in 1..16 |-> IF i % 2 = 1 THEN 255 ELSE 217],
               [i \in 1..16 |-> IF i % 2 = 0 THEN 255 ELSE 216] }
=============================================================================
