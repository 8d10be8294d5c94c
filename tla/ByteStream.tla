----------------------------- MODULE ByteStream -----------------------------
(***************************************************************************)
(* The bytes on their way to a TCP client, as the sequence of the messages *)
(* they were sent in.  A read takes a number of bytes, whatever messages   *)
(* they belong to; what it leaves of a message has lost its header and is  *)
(* a "tail".                                                               *)
(***************************************************************************)
EXTENDS Integers, Sequences

\* Messages: what they are, their length in bytes, and what they carry.
Message(tag, len) ==
    [tag |-> tag, len |-> len, size |-> 0, last |-> FALSE, what |-> <<0, 0>>]

\* The sums of the first i numbers of s.
UpTo(s) == LET up[i \in 0..Len(s)] == IF i = 0 THEN 0 ELSE up[i - 1] + s[i]
           IN up

\* The number of bytes in the first i messages of s.
BytesUpTo(s, i) == UpTo([j \in 1..Len(s) |-> s[j].len])[i]
Bytes(s) == BytesUpTo(s, Len(s))

\* The first byte read from s belongs to this message.
First(s) == s[1]

\* What n bytes read from s leave there.
Skip(s, n) ==
    IF n >= Bytes(s) THEN <<>>
    ELSE LET i == CHOOSE i \in 1..Len(s) :
                    BytesUpTo(s, i - 1) <= n /\ n < BytesUpTo(s, i)
             rest == SubSeq(s, i + 1, Len(s))
         IN IF n = BytesUpTo(s, i - 1) THEN <<s[i]>> \o rest
            ELSE <<Message("tail", BytesUpTo(s, i) - n)>> \o rest

\* Reading up to the end of the first message that is a t.
HasMessage(s, t) == \E i \in 1..Len(s) : s[i].tag = t
FirstOf(s, t) == CHOOSE i \in 1..Len(s) :
                   s[i].tag = t /\ \A j \in 1..(i - 1) : s[j].tag # t
=============================================================================
