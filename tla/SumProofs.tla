------------------------------ MODULE SumProofs -----------------------------
(***************************************************************************)
(* What the other proofs need of sequences: induction in terms of sets,    *)
(* which rests on the numbers being well founded; the sums UpTo and the    *)
(* flattening of a sequence of byte strings, which are defined by          *)
(* recursion; and what the operators of ByteStream make of a stream.       *)
(***************************************************************************)
EXTENDS ByteStream, SequencesExt, SequenceTheorems, WellFoundedInduction,
        TLAPS

-----------------------------------------------------------------------------
(***************************************************************************)
(* Induction, in terms of sets.                                            *)
(***************************************************************************)
Below == {ss \in Nat \X Nat : ss[1] < ss[2]}

\* There is no endless descent in the natural numbers.
LEMMA BelowWellFounded == IsWellFoundedOn(Below, Nat)
<1>1. IsWellFoundedOn(OpToRel(<, Nat), Nat)
  BY NatLessThanWellFounded
<1>2. OpToRel(<, Nat) = Below
  BY Zenon DEF OpToRel, Below
<1> QED BY <1>1, <1>2

\* A set of numbers that is not empty has a least one.
LEMMA LeastNumber ==
  ASSUME NEW S \in SUBSET Nat, S # {}
  PROVE  \E x \in S : \A y \in S : x <= y
<1>1. \E x \in S : \A y \in S : ~ (<<y, x>> \in Below)
  BY BelowWellFounded, WFMin
<1>2. PICK x \in S : \A y \in S : ~ (<<y, x>> \in Below)
  BY <1>1
<1>3. ASSUME NEW y \in S PROVE x <= y
  <2>1. x \in Nat /\ y \in Nat
    BY <1>2
  <2>2. ~ (<<y, x>> \in Below)
    BY <1>2
  <2>3. ~ (y < x)
    BY <2>1, <2>2 DEF Below
  <2> QED BY <2>1, <2>3
<1> QED BY <1>3

\* A set of numbers that has 0 and every number's successor has them all.
LEMMA SetInduction ==
  ASSUME NEW S \in SUBSET Nat, 0 \in S, \A n \in S : n + 1 \in S
  PROVE  S = Nat
<1> SUFFICES ASSUME Nat \ S # {} PROVE FALSE
  OBVIOUS
<1>1. PICK x \in Nat \ S : \A y \in Nat \ S : x <= y
  BY LeastNumber
<1>2. x # 0 /\ x - 1 \in Nat
  OBVIOUS
<1>3. x - 1 \notin S
  <2> SUFFICES ASSUME x - 1 \in S PROVE FALSE
    OBVIOUS
  <2>1. (x - 1) + 1 \in S
    OBVIOUS
  <2> QED BY <1>2, <2>1
<1> QED BY <1>1, <1>2, <1>3

-----------------------------------------------------------------------------
(***************************************************************************)
(* Sums of sequences of numbers.                                           *)
(***************************************************************************)
\* There are partial sums up to every place of a sequence.
LEMMA SumsExist ==
  ASSUME NEW s \in Seq(Nat), NEW n \in Nat, n <= Len(s)
  PROVE  \E f \in [0..n -> Nat] :
           f[0] = 0 /\ \A i \in 1..n : f[i] = f[i - 1] + s[i]
<1> DEFINE Good(m) == \E f \in [0..m -> Nat] :
                        f[0] = 0 /\ \A i \in 1..m : f[i] = f[i - 1] + s[i]
           S == {m \in Nat : m <= Len(s) => Good(m)}
<1>1. Good(0)
  <2> DEFINE f == [i \in 0..0 |-> 0]
  <2>1. f \in [0..0 -> Nat] /\ f[0] = 0
    OBVIOUS
  <2>2. \A i \in 1..0 : f[i] = f[i - 1] + s[i]
    OBVIOUS
  <2> HIDE DEF f
  <2> QED BY <2>1, <2>2
<1>2. ASSUME NEW m \in Nat, m + 1 <= Len(s), Good(m) PROVE Good(m + 1)
  <2>1. PICK f \in [0..m -> Nat] :
          f[0] = 0 /\ \A i \in 1..m : f[i] = f[i - 1] + s[i]
    BY <1>2
  <2> DEFINE g == [i \in 0..(m + 1) |-> IF i = m + 1 THEN f[m] + s[m + 1]
                                        ELSE f[i]]
  <2>2. s[m + 1] \in Nat /\ f[m] \in Nat
    BY <1>2, <2>1
  <2>3. g \in [0..(m + 1) -> Nat]
    BY <2>2
  <2>4. g[0] = 0 /\ \A i \in 1..(m + 1) : g[i] = g[i - 1] + s[i]
    <3>1. /\ \A i \in 0..m : i \in 0..(m + 1) /\ i # m + 1
          /\ m + 1 \in 0..(m + 1) /\ (m + 1) - 1 = m /\ 0 \in 0..m /\ m \in 0..m
      OBVIOUS
    <3>2. /\ \A i \in 0..m : g[i] = f[i]
          /\ g[m + 1] = f[m] + s[m + 1]
      BY <3>1
    <3> HIDE DEF g
    <3>3. ASSUME NEW i \in 1..m PROVE g[i] = g[i - 1] + s[i]
      <4>1. i \in 0..m /\ i - 1 \in 0..m
        OBVIOUS
      <4> QED BY <2>1, <3>2, <4>1
    <3>4. g[m + 1] = g[(m + 1) - 1] + s[m + 1]
      BY <3>1, <3>2
    <3>5. \A i \in 1..(m + 1) : i \in 1..m \/ i = m + 1
      OBVIOUS
    <3> QED BY <2>1, <3>1, <3>2, <3>3, <3>4, <3>5
  <2> HIDE DEF g
  <2> QED BY <2>3, <2>4
<1> HIDE DEF Good
<1>3. S \in SUBSET Nat /\ 0 \in S
  BY <1>1
<1>4. ASSUME NEW m \in S PROVE m + 1 \in S
  BY <1>2
<1> HIDE DEF S
<1>5. S = Nat
  BY <1>3, <1>4, SetInduction
<1>6. Good(n)
  BY <1>5 DEF S
<1> QED BY <1>6 DEF Good

\* UpTo(s) is what its definition says it is.
LEMMA SumsEquation ==
  ASSUME NEW s \in Seq(Nat)
  PROVE  UpTo(s) = [i \in 0..Len(s) |->
                      IF i = 0 THEN 0 ELSE UpTo(s)[i - 1] + s[i]]
<1>1. PICK f \in [0..Len(s) -> Nat] :
        f[0] = 0 /\ \A i \in 1..Len(s) : f[i] = f[i - 1] + s[i]
  BY SumsExist
<1>2. f = [i \in 0..Len(s) |-> IF i = 0 THEN 0 ELSE f[i - 1] + s[i]]
  BY <1>1
<1>3. \E g : g = [i \in 0..Len(s) |-> IF i = 0 THEN 0 ELSE g[i - 1] + s[i]]
  BY <1>2
<1> QED BY <1>3, Zenon DEF UpTo

\* The sums of a sequence of numbers are numbers.
LEMMA SumsType ==
  ASSUME NEW s \in Seq(Nat)
  PROVE  UpTo(s) \in [0..Len(s) -> Nat]
<1> DEFINE up == UpTo(s)
           S  == {m \in Nat : m <= Len(s) => up[m] \in Nat}
<1>1. up = [i \in 0..Len(s) |-> IF i = 0 THEN 0 ELSE up[i - 1] + s[i]]
  BY SumsEquation
<1> HIDE DEF up
<1>2. S \in SUBSET Nat /\ 0 \in S
  BY <1>1
<1>3. ASSUME NEW m \in S PROVE m + 1 \in S
  <2> SUFFICES ASSUME m + 1 <= Len(s) PROVE up[m + 1] \in Nat
    OBVIOUS
  <2>1. up[m] \in Nat /\ s[m + 1] \in Nat
    OBVIOUS
  <2>2. up[m + 1] = up[m] + s[m + 1]
    BY <1>1
  <2> QED BY <2>1, <2>2
<1> HIDE DEF S
<1>4. S = Nat
  BY <1>2, <1>3, SetInduction
<1>5. \A i \in 0..Len(s) : up[i] \in Nat
  BY <1>4 DEF S
<1>6. up \in [0..Len(s) -> Nat]
  BY <1>1, <1>5
<1> QED BY <1>6 DEF up

\* The next sum has one number more.
LEMMA SumsStep ==
  ASSUME NEW s \in Seq(Nat)
  PROVE  /\ UpTo(s)[0] = 0
         /\ \A i \in 1..Len(s) : UpTo(s)[i] = UpTo(s)[i - 1] + s[i]
<1>1. UpTo(s) = [i \in 0..Len(s) |->
                   IF i = 0 THEN 0 ELSE UpTo(s)[i - 1] + s[i]]
  BY SumsEquation
<1> DEFINE up == UpTo(s)
<1>2. up = [i \in 0..Len(s) |-> IF i = 0 THEN 0 ELSE up[i - 1] + s[i]]
  BY <1>1
<1> HIDE DEF up
<1>3. up[0] = 0 /\ \A i \in 1..Len(s) : up[i] = up[i - 1] + s[i]
  BY <1>2
<1> QED BY <1>3 DEF up

\* The sums of a sequence of numbers never decrease.
LEMMA SumsMonotone ==
  ASSUME NEW s \in Seq(Nat), NEW i \in 0..Len(s), NEW j \in i..Len(s)
  PROVE  UpTo(s)[i] <= UpTo(s)[j]
<1> DEFINE up == UpTo(s)
           S  == {m \in Nat : m >= i /\ m <= Len(s) => up[i] <= up[m]}
<1>1. up \in [0..Len(s) -> Nat]
  BY SumsType
<1>2. \A m \in 1..Len(s) : up[m] = up[m - 1] + s[m]
  BY SumsStep
<1> HIDE DEF up
<1>3. S \in SUBSET Nat /\ 0 \in S
  <2>1. up[0] \in Nat /\ (0 >= i => i = 0)
    BY <1>1
  <2> QED BY <2>1
<1>4. ASSUME NEW m \in S PROVE m + 1 \in S
  <2> SUFFICES ASSUME m + 1 >= i, m + 1 <= Len(s) PROVE up[i] <= up[m + 1]
    OBVIOUS
  <2>1. CASE i = m + 1
    BY <2>1, <1>1
  <2>2. CASE i <= m
    <3>1. up[i] <= up[m]
      BY <2>2
    <3>2. s[m + 1] \in Nat /\ up[m + 1] = up[m] + s[m + 1]
      BY <1>2
    <3>3. up[i] \in Nat /\ up[m] \in Nat
      <4>1. i \in 0..Len(s) /\ m \in 0..Len(s)
        OBVIOUS
      <4> QED BY <1>1, <4>1
    <3> QED BY <3>1, <3>2, <3>3
  <2> QED BY <2>1, <2>2
<1> HIDE DEF S
<1>5. S = Nat
  BY <1>3, <1>4, SetInduction
<1>6. up[i] <= up[j]
  BY <1>5 DEF S
<1> QED BY <1>6 DEF up

-----------------------------------------------------------------------------
(***************************************************************************)
(* Concatenations of sequences of bytes.  Part k takes the bytes after the *)
(* upto(k - 1) bytes of the parts before it, up to the upto(k)-th.        *)
(***************************************************************************)
Byte == 0..255

Lengths(cs) == [i \in 1..Len(cs) |-> Len(cs[i])]
upto(cs, i)   == UpTo(Lengths(cs))[i]

LEMMA LengthsOfParts ==
  ASSUME NEW cs \in Seq(Seq(Byte))
  PROVE  /\ Lengths(cs) \in Seq(Nat) /\ Len(Lengths(cs)) = Len(cs)
         /\ \A i \in 1..Len(cs) : cs[i] \in Seq(Byte) /\ Len(cs[i]) \in Nat
<1>1. Len(cs) \in Nat /\ \A i \in 1..Len(cs) : cs[i] \in Seq(Byte)
  BY LenProperties, ElementOfSeq
<1>2. \A i \in 1..Len(cs) : Len(cs[i]) \in Nat
  BY <1>1, LenProperties
<1> QED BY <1>1, <1>2 DEF Lengths

LEMMA UpStep ==
  ASSUME NEW cs \in Seq(Seq(Byte))
  PROVE  /\ upto(cs, 0) = 0
         /\ \A i \in 0..Len(cs) : upto(cs, i) \in Nat
         /\ \A i \in 1..Len(cs) : upto(cs, i) = upto(cs, i - 1) + Len(cs[i])
         /\ \A i \in 0..Len(cs) : upto(cs, i) <= upto(cs, Len(cs))
<1> DEFINE lens == Lengths(cs)
<1>1. lens \in Seq(Nat) /\ Len(lens) = Len(cs) /\ Len(cs) \in Nat
      /\ \A i \in 1..Len(cs) : lens[i] = Len(cs[i])
  BY LengthsOfParts, LenProperties DEF Lengths
<1> HIDE DEF lens
<1>2. UpTo(lens) \in [0..Len(cs) -> Nat]
  BY <1>1, SumsType
<1>3. /\ UpTo(lens)[0] = 0
      /\ \A i \in 1..Len(cs) : UpTo(lens)[i] = UpTo(lens)[i - 1] + lens[i]
  BY <1>1, SumsStep
<1>4. ASSUME NEW i \in 0..Len(cs)
      PROVE  UpTo(lens)[i] <= UpTo(lens)[Len(cs)]
  <2>1. Len(cs) \in i..Len(lens) /\ i \in 0..Len(lens)
    BY <1>1
  <2> QED BY <1>1, <2>1, SumsMonotone
<1> QED BY <1>1, <1>2, <1>3, <1>4 DEF upto, lens

\* The concatenations of the first so many sequences.
LEMMA PartsExist ==
  ASSUME NEW cs \in Seq(Seq(Byte)), NEW n \in Nat, n <= Len(cs)
  PROVE  \E f \in [1..n -> Seq(Byte)] :
           \A i \in 1..n : f[i] = IF i = 1 THEN cs[i] ELSE f[i - 1] \o cs[i]
<1> DEFINE Good(m) == \E f \in [1..m -> Seq(Byte)] :
             \A i \in 1..m : f[i] = IF i = 1 THEN cs[i] ELSE f[i - 1] \o cs[i]
           S == {m \in Nat : m <= Len(cs) => Good(m)}
<1>1. Good(0)
  <2> DEFINE f == [i \in 1..0 |-> <<>>]
  <2>1. f \in [1..0 -> Seq(Byte)]
    OBVIOUS
  <2>2. \A i \in 1..0 : f[i] = IF i = 1 THEN cs[i] ELSE f[i - 1] \o cs[i]
    OBVIOUS
  <2> HIDE DEF f
  <2> QED BY <2>1, <2>2
<1>2. ASSUME NEW m \in Nat, m + 1 <= Len(cs), Good(m) PROVE Good(m + 1)
  <2>1. PICK f \in [1..m -> Seq(Byte)] :
          \A i \in 1..m : f[i] = IF i = 1 THEN cs[i] ELSE f[i - 1] \o cs[i]
    BY <1>2
  <2> DEFINE last == IF m = 0 THEN cs[m + 1] ELSE f[m] \o cs[m + 1]
             g == [i \in 1..(m + 1) |-> IF i = m + 1 THEN last ELSE f[i]]
  <2>2. cs[m + 1] \in Seq(Byte)
    BY <1>2, LenProperties, ElementOfSeq
  <2>3. last \in Seq(Byte)
    <3>1. CASE m = 0
      BY <2>2, <3>1
    <3>2. CASE m # 0
      <4>1. f[m] \in Seq(Byte)
        BY <2>1, <3>2
      <4> QED BY <2>2, <3>2, <4>1, ConcatProperties
    <3> QED BY <3>1, <3>2
  <2>4. last = IF m + 1 = 1 THEN cs[m + 1] ELSE f[m] \o cs[m + 1]
    OBVIOUS
  <2> HIDE DEF last
  <2>5. g \in [1..(m + 1) -> Seq(Byte)]
    BY <2>1, <2>3
  <2>6. \A i \in 1..(m + 1) :
          g[i] = IF i = 1 THEN cs[i] ELSE g[i - 1] \o cs[i]
    <3> SUFFICES ASSUME NEW i \in 1..(m + 1)
                 PROVE  g[i] = IF i = 1 THEN cs[i] ELSE g[i - 1] \o cs[i]
      OBVIOUS
    <3>1. CASE i = m + 1
      <4>1. (m + 1) - 1 = m /\ (m + 1 # 1 => m \in 1..m /\ m # m + 1)
        OBVIOUS
      <4>2. m + 1 # 1 => g[m] = f[m]
        BY <4>1
      <4> QED BY <2>4, <3>1, <4>1, <4>2
    <3>2. CASE i # m + 1
      <4>1. i \in 1..m /\ (i # 1 => i - 1 \in 1..m /\ i - 1 # m + 1)
        BY <3>2
      <4>2. g[i] = f[i] /\ (i # 1 => g[i - 1] = f[i - 1])
        BY <3>2, <4>1
      <4> QED BY <2>1, <4>1, <4>2
    <3> QED BY <3>1, <3>2
  <2> HIDE DEF g
  <2> QED BY <2>5, <2>6
<1> HIDE DEF Good
<1>3. S \in SUBSET Nat /\ 0 \in S
  BY <1>1
<1>4. ASSUME NEW m \in S PROVE m + 1 \in S
  <2>1. m \in Nat /\ m + 1 \in Nat /\ (m <= Len(cs) => Good(m))
    OBVIOUS
  <2>2. m + 1 <= Len(cs) => m <= Len(cs)
    BY <2>1, LenProperties
  <2> QED BY <1>2, <2>1, <2>2
<1> HIDE DEF S
<1>5. S = Nat
  BY <1>3, <1>4, SetInduction
<1>6. Good(n)
  BY <1>5 DEF S
<1> QED BY <1>6 DEF Good

\* FlattenSeq puts the parts one after the other.
LEMMA FlatParts ==
  ASSUME NEW cs \in Seq(Seq(Byte)), cs # <<>>
  PROVE  \E f \in [1..Len(cs) -> Seq(Byte)] :
           /\ FlattenSeq(cs) = f[Len(cs)]
           /\ f[1] = cs[1]
           /\ \A i \in 2..Len(cs) : f[i] = f[i - 1] \o cs[i]
<1> DEFINE n == Len(cs)
<1>1. n \in Nat /\ n # 0
  BY LenProperties, EmptySeq
<1>2. PICK f \in [1..n -> Seq(Byte)] :
        \A i \in 1..n : f[i] = IF i = 1 THEN cs[i] ELSE f[i - 1] \o cs[i]
  <2>1. Len(cs) \in Nat /\ Len(cs) <= Len(cs)
    BY <1>1
  <2> QED BY <2>1, PartsExist
<1>3. f = [i \in 1..n |-> IF i = 1 THEN cs[i] ELSE f[i - 1] \o cs[i]]
  BY <1>2
<1> DEFINE g == CHOOSE h : h = [i \in 1..n |-> IF i = 1 THEN cs[i]
                                                ELSE h[i - 1] \o cs[i]]
<1>4. g = [i \in 1..n |-> IF i = 1 THEN cs[i] ELSE g[i - 1] \o cs[i]]
  BY <1>3, Zenon
<1>5. FlattenSeq(cs) = g[n]
  BY <1>1, Zenon DEF FlattenSeq
<1> HIDE DEF g
<1> DEFINE S == {m \in Nat : m \in 1..n => g[m] = f[m]}
<1>6. S \in SUBSET Nat /\ 0 \in S
  OBVIOUS
<1>7. ASSUME NEW m \in S PROVE m + 1 \in S
  <2> SUFFICES ASSUME m + 1 \in 1..n PROVE g[m + 1] = f[m + 1]
    OBVIOUS
  <2>1. g[m + 1] = IF m + 1 = 1 THEN cs[m + 1] ELSE g[(m + 1) - 1] \o cs[m + 1]
    BY <1>4
  <2>2. f[m + 1] = IF m + 1 = 1 THEN cs[m + 1] ELSE f[(m + 1) - 1] \o cs[m + 1]
    BY <1>3
  <2>3. m + 1 # 1 => (m + 1) - 1 = m /\ g[m] = f[m]
    OBVIOUS
  <2> QED BY <2>1, <2>2, <2>3
<1> HIDE DEF S
<1>8. S = Nat
  BY <1>6, <1>7, SetInduction
<1>9. FlattenSeq(cs) = f[n]
  <2>1. n \in 1..n /\ n \in S
    BY <1>1, <1>8
  <2> QED BY <1>5, <2>1 DEF S
<1>10. f[1] = cs[1] /\ \A i \in 2..n : f[i] = f[i - 1] \o cs[i]
  <2>1. 1 \in 1..n /\ \A i \in 2..n : i \in 1..n /\ i # 1
    BY <1>1
  <2> QED BY <1>2, <2>1
<1> QED BY <1>9, <1>10

\* The place of every byte of a part in the whole.
LEMMA FlatBytes ==
  ASSUME NEW cs \in Seq(Seq(Byte)), cs # <<>>
  PROVE  /\ FlattenSeq(cs) \in Seq(Byte)
         /\ Len(FlattenSeq(cs)) = upto(cs, Len(cs))
         /\ \A k \in 1..Len(cs) : \A j \in 1..Len(cs[k]) :
              FlattenSeq(cs)[upto(cs, k - 1) + j] = cs[k][j]
<1> DEFINE n == Len(cs)
<1>1. n \in Nat /\ n # 0
  BY LenProperties, EmptySeq
<1>2. PICK f \in [1..n -> Seq(Byte)] :
        /\ FlattenSeq(cs) = f[n] /\ f[1] = cs[1]
        /\ \A i \in 2..n : f[i] = f[i - 1] \o cs[i]
  BY FlatParts
<1>3. /\ upto(cs, 0) = 0 /\ \A i \in 0..n : upto(cs, i) \in Nat
      /\ \A i \in 1..n : upto(cs, i) = upto(cs, i - 1) + Len(cs[i])
  BY UpStep
<1>4. \A i \in 1..n : cs[i] \in Seq(Byte) /\ Len(cs[i]) \in Nat
  BY LengthsOfParts
<1> DEFINE In(m) == /\ Len(f[m]) = upto(cs, m)
                    /\ \A k \in 1..m : \A j \in 1..Len(cs[k]) :
                         f[m][upto(cs, k - 1) + j] = cs[k][j]
           S == {m \in Nat : m \in 1..n => In(m)}
<1>5. In(1)
  <2>1. 1 \in 1..n /\ 1 - 1 = 0
    BY <1>1
  <2>2. Len(f[1]) = upto(cs, 1)
    BY <1>2, <1>3, <1>4, <2>1
  <2>3. ASSUME NEW k \in 1..1, NEW j \in 1..Len(cs[k])
        PROVE  f[1][upto(cs, k - 1) + j] = cs[k][j]
    <3>1. k = 1 /\ k - 1 = 0 /\ 0 + j = j
      BY <2>1, <1>4
    <3> QED BY <1>2, <1>3, <3>1
  <2> QED BY <2>2, <2>3
<1>6. ASSUME NEW m \in 1..n, m + 1 \in 1..n, In(m) PROVE In(m + 1)
  <2> DEFINE c == cs[m + 1]
             a == f[m]
  <2>1. a \in Seq(Byte) /\ c \in Seq(Byte) /\ Len(c) \in Nat /\ Len(a) = upto(cs, m)
        /\ upto(cs, m) \in Nat /\ upto(cs, m + 1) = upto(cs, m) + Len(c)
    <3>1. m \in 0..n /\ (m + 1) - 1 = m
      OBVIOUS
    <3> QED BY <1>2, <1>3, <1>4, <1>6, <3>1
  <2>2. f[m + 1] = a \o c
    <3>1. m + 1 \in 2..n /\ (m + 1) - 1 = m
      BY <1>6
    <3> QED BY <1>2, <3>1
  <2>3. /\ Len(a \o c) = Len(a) + Len(c)
        /\ \A i \in 1..(Len(a) + Len(c)) :
             (a \o c)[i] = IF i <= Len(a) THEN a[i] ELSE c[i - Len(a)]
    <3> HIDE DEF a, c
    <3> QED BY <2>1, ConcatProperties, Zenon
  <2>4. ASSUME NEW k \in 1..(m + 1), NEW j \in 1..Len(cs[k])
        PROVE  f[m + 1][upto(cs, k - 1) + j] = cs[k][j]
    <3>1. CASE k = m + 1
      <4>1. k - 1 = m /\ j \in 1..Len(c)
        BY <3>1
      <4>2. upto(cs, m) + j \in 1..(Len(a) + Len(c))
            /\ ~(upto(cs, m) + j <= Len(a)) /\ (upto(cs, m) + j) - Len(a) = j
        BY <2>1, <4>1
      <4> HIDE DEF a, c
      <4>3. (a \o c)[upto(cs, m) + j] = c[j]
        BY <2>3, <4>2
      <4> QED BY <2>2, <3>1, <4>1, <4>3 DEF c
    <3>2. CASE k # m + 1
      <4>1. k \in 1..m /\ k \in 1..n /\ k \in 0..n /\ k - 1 \in 0..n /\ m \in 0..n
        BY <3>2
      <4>2. upto(cs, k) \in Nat /\ upto(cs, k - 1) \in Nat
            /\ upto(cs, k) = upto(cs, k - 1) + Len(cs[k])
            /\ Len(cs[k]) \in Nat
        BY <1>3, <1>4, <4>1
      <4>3. upto(cs, k) <= upto(cs, m)
        <5>1. Lengths(cs) \in Seq(Nat) /\ Len(Lengths(cs)) = n
          BY LengthsOfParts
        <5>2. k \in 0..Len(Lengths(cs)) /\ m \in k..Len(Lengths(cs))
          BY <4>1, <5>1
        <5> QED BY <5>1, <5>2, SumsMonotone DEF upto
      <4>4. upto(cs, k - 1) + j \in 1..(Len(a) + Len(c))
            /\ upto(cs, k - 1) + j <= Len(a)
        <5>1. \A p, q, t, l, i, x \in Nat :
                q = p + l /\ q <= t /\ 1 <= i /\ i <= l =>
                  p + i \in 1..(t + x) /\ p + i <= t
          OBVIOUS
        <5>2. j \in Nat /\ 1 <= j /\ j <= Len(cs[k])
          BY <4>2
        <5>3. Len(a) \in Nat /\ upto(cs, k) <= Len(a)
          BY <2>1, <4>3
        <5> HIDE DEF a, c
        <5> QED BY <2>1, <4>2, <5>1, <5>2, <5>3, Zenon
      <4>5. (a \o c)[upto(cs, k - 1) + j] = a[upto(cs, k - 1) + j]
        <5> HIDE DEF a, c
        <5> QED BY <2>3, <4>4
      <4> QED BY <1>6, <2>2, <4>1, <4>5
    <3> QED BY <3>1, <3>2
  <2>5. Len(f[m + 1]) = upto(cs, m + 1)
    BY <2>1, <2>2, <2>3
  <2> QED BY <2>4, <2>5
<1> HIDE DEF In
<1>7. S \in SUBSET Nat /\ 0 \in S
  OBVIOUS
<1>8. ASSUME NEW m \in S PROVE m + 1 \in S
  <2> SUFFICES ASSUME m + 1 \in 1..n PROVE In(m + 1)
    OBVIOUS
  <2>1. CASE m = 0
    BY <1>5, <2>1
  <2>2. CASE m # 0
    <3>1. m \in 1..n /\ In(m)
      BY <1>1, <2>2
    <3> QED BY <1>6, <3>1
  <2> QED BY <2>1, <2>2
<1> HIDE DEF S
<1>9. S = Nat
  BY <1>7, <1>8, SetInduction
<1>10. n \in 1..n /\ n \in S
  BY <1>1, <1>9
<1>11. In(n)
  BY <1>10 DEF S
<1>12. FlattenSeq(cs) \in Seq(Byte)
  BY <1>2, <1>10, Zenon
<1> QED BY <1>2, <1>11, <1>12 DEF In

-----------------------------------------------------------------------------
(***************************************************************************)
(* Bytes and what reading them leaves.                                     *)
(***************************************************************************)
Tags == {"ack", "wait", "next", "none", "ready", "busy", "end", "signal",
         "strip", "pad", "cut", "tail"}

Messages == [tag : Tags, len : Nat, size : Nat, last : BOOLEAN,
             what : Nat \X Nat]

\* What Message makes is a message.
LEMMA MessageType ==
  ASSUME NEW tag \in Tags, NEW len \in Nat
  PROVE  /\ Message(tag, len) \in Messages
         /\ Message(tag, len).tag = tag /\ Message(tag, len).len = len
BY DEF Message, Messages

\* The lengths of messages are numbers to be summed up.
LEMMA LengthsType ==
  ASSUME NEW s \in Seq(Messages)
  PROVE  /\ [j \in 1..Len(s) |-> s[j].len] \in Seq(Nat)
         /\ Len([j \in 1..Len(s) |-> s[j].len]) = Len(s)
<1>1. \A m \in Messages : m.len \in Nat
  BY DEF Messages
<1>2. \A j \in 1..Len(s) : s[j] \in Messages
  OBVIOUS
<1> QED BY <1>1, <1>2

\* The bytes of the first messages are a number, none for no message, and
\* each message adds its length.
LEMMA BytesUpToStep ==
  ASSUME NEW s \in Seq(Messages)
  PROVE  /\ BytesUpTo(s, 0) = 0
         /\ \A i \in 1..Len(s) : BytesUpTo(s, i) = BytesUpTo(s, i - 1) + s[i].len
         /\ \A i \in 0..Len(s) : BytesUpTo(s, i) \in Nat
         /\ Len(s) > 0 => BytesUpTo(s, 1) = s[1].len
<1> DEFINE lens == [j \in 1..Len(s) |-> s[j].len]
<1>1. lens \in Seq(Nat) /\ Len(lens) = Len(s)
  BY LengthsType
<1>2. \A i \in 1..Len(s) : lens[i] = s[i].len
  OBVIOUS
<1>3. \A i : BytesUpTo(s, i) = UpTo(lens)[i]
  BY Zenon DEF BytesUpTo
<1> HIDE DEF lens
<1>4. UpTo(lens) \in [0..Len(s) -> Nat]
  BY <1>1, SumsType
<1>5. /\ UpTo(lens)[0] = 0
      /\ \A i \in 1..Len(s) : UpTo(lens)[i] = UpTo(lens)[i - 1] + lens[i]
  BY <1>1, SumsStep
<1>6. Len(s) > 0 => UpTo(lens)[1] = s[1].len
  <2> SUFFICES ASSUME Len(s) > 0 PROVE UpTo(lens)[1] = s[1].len
    OBVIOUS
  <2>1. 1 \in 1..Len(s) /\ lens[1] \in Nat
    BY <1>1
  <2>2. UpTo(lens)[1] = 0 + lens[1]
    BY <2>1, <1>5
  <2>3. lens[1] = s[1].len
    BY <1>2, <2>1
  <2> QED BY <2>1, <2>2, <2>3
<1> QED BY <1>2, <1>3, <1>4, <1>5, <1>6

\* The first message's bytes come first.
LEMMA BytesOfFirst ==
  ASSUME NEW s \in Seq(Messages), Len(s) # 0
  PROVE  BytesUpTo(s, 0) = 0 /\ BytesUpTo(s, 1) = s[1].len
<1>1. Len(s) > 0
  OBVIOUS
<1> QED BY <1>1, BytesUpToStep

\* So are all the bytes.
LEMMA BytesType ==
  ASSUME NEW s \in Seq(Messages)
  PROVE  Bytes(s) \in Nat
BY BytesUpToStep DEF Bytes

\* Nothing, and one message.
LEMMA BytesOfOne ==
  /\ Bytes(<<>>) = 0
  /\ \A m \in Messages : Bytes(<<m>>) = m.len
<1>1. Bytes(<<>>) = 0
  <2>1. <<>> \in Seq(Messages) /\ Len(<<>>) = 0
    OBVIOUS
  <2>2. BytesUpTo(<<>>, 0) = 0
    BY <2>1, BytesUpToStep
  <2> QED BY <2>1, <2>2 DEF Bytes
<1>2. ASSUME NEW m \in Messages PROVE Bytes(<<m>>) = m.len
  <2>1. <<m>> \in Seq(Messages) /\ Len(<<m>>) = 1 /\ <<m>>[1] = m
    OBVIOUS
  <2>2. m.len \in Nat
    BY DEF Messages
  <2>3. BytesUpTo(<<m>>, 1) = <<m>>[1].len
    <3>1. Len(<<m>>) # 0
      OBVIOUS
    <3> QED BY <2>1, <3>1, BytesOfFirst, Zenon
  <2> QED BY <2>1, <2>2, <2>3 DEF Bytes
<1> QED BY <1>1, <1>2

\* A read of everything leaves nothing, and a read of a part of one message
\* leaves a tail.
LEMMA SkipAll ==
  ASSUME NEW s, NEW n, n >= Bytes(s)
  PROVE  Skip(s, n) = <<>>
BY DEF Skip

LEMMA SkipPart ==
  ASSUME NEW m \in Messages, NEW n \in Nat, 0 < n, n < m.len
  PROVE  Skip(<<m>>, n) = <<Message("tail", m.len - n)>>
<1> DEFINE s == <<m>>
           In(i) == BytesUpTo(s, i - 1) <= n /\ n < BytesUpTo(s, i)
<1>1. s \in Seq(Messages) /\ Len(s) = 1 /\ s[1] = m
  OBVIOUS
<1>2. m.len \in Nat
  BY DEF Messages
<1>3. BytesUpTo(s, 0) = 0 /\ BytesUpTo(s, 1) = s[1].len
  <2>1. Len(s) # 0
    OBVIOUS
  <2> HIDE DEF s
  <2> QED BY <1>1, <2>1, BytesOfFirst, Zenon
<1>4. Bytes(s) = m.len
  BY BytesOfOne
<1> HIDE DEF s
<1>5. In(1) /\ \A i \in 1..Len(s) : i = 1
  BY <1>1, <1>2, <1>3
<1>6. (CHOOSE i \in 1..Len(s) : In(i)) = 1
  BY <1>1, <1>5
<1>7. SubSeq(s, 2, Len(s)) = <<>>
  BY <1>1
<1>8. Skip(s, n) = <<Message("tail", m.len - n)>> \o <<>>
  <2>1. ~(n >= Bytes(s)) /\ n # BytesUpTo(s, 0)
    BY <1>2, <1>3, <1>4
  <2>2. BytesUpTo(s, 1) = m.len
    BY <1>1, <1>2, <1>3
  <2>3. Skip(s, n) = <<Message("tail", BytesUpTo(s, 1) - n)>>
                     \o SubSeq(s, 2, Len(s))
    <3>1. 1 - 1 = 0 /\ 1 + 1 = 2
      OBVIOUS
    <3> QED BY <2>1, <3>1, <1>6, Zenon DEF Skip
  <2> QED BY <2>2, <2>3, <1>7
<1> QED BY <1>8 DEF s

\* A strip and what comes with it.
LEMMA StripAndMore ==
  ASSUME NEW m \in Messages, NEW d \in Messages, m.tag = "strip"
  PROVE  /\ HasMessage(<<m, d>>, "strip")
         /\ FirstOf(<<m, d>>, "strip") = 1
         /\ BytesUpTo(<<m, d>>, 1) = m.len
<1> DEFINE s == <<m, d>>
           In(i) == s[i].tag = "strip" /\ \A j \in 1..(i - 1) : s[j].tag # "strip"
<1>1. s \in Seq(Messages) /\ Len(s) = 2 /\ s[1] = m
  OBVIOUS
<1>2. BytesUpTo(s, 1) = m.len
  <2>1. m.len \in Nat
    BY DEF Messages
  <2>2. BytesUpTo(s, 1) = s[1].len
    <3>1. Len(s) # 0
      OBVIOUS
    <3> HIDE DEF s
    <3> QED BY <1>1, <3>1, BytesOfFirst, Zenon
  <2> QED BY <1>1, <2>1, <2>2
<1> HIDE DEF s
<1>3. HasMessage(s, "strip")
  BY <1>1 DEF HasMessage
<1>4. In(1) /\ \A i \in 1..Len(s) : In(i) => i = 1
  BY <1>1
<1>5. (CHOOSE i \in 1..Len(s) : In(i)) = 1
  BY <1>1, <1>4
<1>6. FirstOf(s, "strip") = 1
  BY <1>5 DEF FirstOf
<1> QED BY <1>2, <1>3, <1>6 DEF s
=============================================================================
