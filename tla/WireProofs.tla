----------------------------- MODULE WireProofs -----------------------------
EXTENDS Wire, WellFoundedInduction, SequenceTheorems, TLAPS
\* What an encoder writes is what a decoder reads, for every type, length and
\* value of the assumption on the constants, and a message that was cut off is
\* noticed.  The proofs go from the bytes up: first induction, which here is a
\* fact about sets of numbers, and what it gives for functions that recur; then
\* a number, a compact length, a text, an array and a field, each read again as
\* it was written (NumberIsReadAgain ... FieldIsReadAgain); then where in the
\* joined buffer the encoding of a field begins (Positions); last the
\* invariant of the module's actions, WireInv.
\*
\* "Agrees" is the notion that holds it together: the bytes of a buffer are
\* those of a chunk as far as the buffer goes, so that a whole buffer and one
\* that was cut off are treated alike.

\* Every set of naturals that is not empty has a least element.
LEMMA NatMin ==
    ASSUME NEW T, T \subseteq Nat, T # {}
    PROVE  \E x \in T : \A y \in T : x <= y
<1> DEFINE R == {ss \in Nat \X Nat : ss[1] < ss[2]}
<1>1. IsWellFoundedOn(R, Nat)
  BY NatLessThanWellFounded DEF OpToRel
<1>2. PICK x \in T : \A y \in T : ~(<<y, x>> \in R)
  <2> HIDE DEF R
  <2> QED BY <1>1, WFMin
<1>3. \A y \in T : ~(y < x)
  <2> TAKE y \in T
  <2>1. <<y, x>> \in Nat \X Nat /\ <<y, x>>[1] = y /\ <<y, x>>[2] = x
    OBVIOUS
  <2> QED BY <1>2, <2>1
<1> QED BY <1>3

\* Induction: the set stands for the property.
LEMMA StrongInduction ==
    ASSUME NEW T, \A n \in Nat : (\A m \in Nat : m < n => m \in T) => n \in T
    PROVE  \A n \in Nat : n \in T
<1> SUFFICES ASSUME Nat \ T # {} PROVE FALSE
  OBVIOUS
<1>1. PICK x \in Nat \ T : \A y \in Nat \ T : x <= y
  BY NatMin
<1>2. \A m \in Nat : m < x => m \in T
  BY <1>1
<1> QED BY <1>2

\* Induction by one: the set stands for the property.
LEMMA Induction ==
    ASSUME NEW T, 0 \in T, \A n \in Nat : n \in T => n + 1 \in T
    PROVE  \A n \in Nat : n \in T
<1>1. ASSUME NEW n \in Nat, \A m \in Nat : m < n => m \in T
      PROVE  n \in T
  <2>1. CASE n = 0
    BY <2>1
  <2>2. CASE n # 0
    <3>1. n - 1 \in Nat /\ n - 1 < n
      BY <2>2
    <3> QED BY <1>1, <3>1
  <2> QED BY <2>1, <2>2
<1> QED BY <1>1, StrongInduction

\* What a recursion asks of a function at n.
Follows(h, stop, base, D, F, n) ==
    h[n] = IF n \in stop THEN base[n] ELSE F[<<n, h[D[n]]>>]

\* A recursion that goes down from n to D[n] until it stops has a solution.
LEMMA Recursion ==
    ASSUME NEW S, NEW stop, NEW base \in [Nat -> S], NEW D \in [Nat -> Nat],
           NEW F \in [Nat \X S -> S], \A n \in Nat : n \notin stop => D[n] < n
    PROVE  \E g \in [Nat -> S] : \A n \in Nat : Follows(g, stop, base, D, F, n)
<1> DEFINE Solves(h, n) == h \in [0 .. n -> S] /\ \A m \in 0 .. n : Follows(h, stop, base, D, F, m)
<1>1. ASSUME NEW n1 \in Nat, NEW n2 \in Nat, NEW h1, NEW h2, Solves(h1, n1), Solves(h2, n2)
      PROVE  \A m \in Nat : m <= n1 /\ m <= n2 => h1[m] = h2[m]
  <2> DEFINE T == {m \in Nat : m <= n1 /\ m <= n2 => h1[m] = h2[m]}
  <2>1. ASSUME NEW m \in Nat, \A k \in Nat : k < m => k \in T
        PROVE  m \in T
    <3> SUFFICES ASSUME m <= n1, m <= n2 PROVE h1[m] = h2[m]
      OBVIOUS
    <3>1. Follows(h1, stop, base, D, F, m) /\ Follows(h2, stop, base, D, F, m)
      BY <1>1
    <3>2. CASE m \in stop
      BY <3>1, <3>2 DEF Follows
    <3>3. CASE m \notin stop
      <4>1. D[m] \in Nat /\ D[m] < m
        BY <3>3
      <4>2. h1[D[m]] = h2[D[m]]
        BY <2>1, <4>1
      <4> QED BY <3>1, <3>3, <4>2 DEF Follows
    <3> QED BY <3>2, <3>3
  <2> HIDE DEF T
  <2>2. \A m \in Nat : m \in T
    BY <2>1, StrongInduction
  <2> QED BY <2>2 DEF T
<1>2. \A n \in Nat : \E h : Solves(h, n)
  <2> DEFINE T == {n \in Nat : \E h : Solves(h, n)}
  <2>1. 0 \in T
    <3>1. 0 \in stop
      OBVIOUS
    <3>2. Solves([m \in 0 .. 0 |-> base[0]], 0)
      BY <3>1 DEF Follows
    <3> QED BY <3>2
  <2>2. ASSUME NEW n \in Nat, n \in T
        PROVE  n + 1 \in T
    <3>1. PICK h : Solves(h, n)
      BY <2>2
    <3> DEFINE next == IF n + 1 \in stop THEN base[n + 1] ELSE F[<<n + 1, h[D[n + 1]]>>]
               g == [m \in 0 .. n + 1 |-> IF m = n + 1 THEN next ELSE h[m]]
    <3>2. n + 1 \notin stop => D[n + 1] \in 0 .. n
      OBVIOUS
    <3>3. next \in S
      <4>1. n + 1 \notin stop => h[D[n + 1]] \in S
        BY <3>1, <3>2
      <4> QED BY <4>1
    <3>4. g \in [0 .. n + 1 -> S]
      <4> HIDE DEF next
      <4> QED BY <3>1, <3>3
    <3>5. ASSUME NEW m \in 0 .. n + 1 PROVE Follows(g, stop, base, D, F, m)
      <4>1. CASE m = n + 1
        <5>1. n + 1 \notin stop => g[D[n + 1]] = h[D[n + 1]]
          <6> HIDE DEF next
          <6> QED BY <3>2
        <5>2. g[n + 1] = next
          <6> HIDE DEF next
          <6> QED OBVIOUS
        <5> HIDE DEF g
        <5> QED BY <4>1, <5>1, <5>2 DEF Follows
      <4>2. CASE m # n + 1
        <5>1. m \in 0 .. n /\ (m \notin stop => D[m] \in 0 .. n)
          BY <4>2
        <5>2. g[m] = h[m] /\ (m \notin stop => g[D[m]] = h[D[m]])
          <6> HIDE DEF next
          <6> QED BY <4>2, <5>1
        <5>3. Follows(h, stop, base, D, F, m)
          BY <3>1, <5>1
        <5> HIDE DEF g
        <5> QED BY <5>2, <5>3 DEF Follows
      <4> QED BY <4>1, <4>2
    <3>6. Solves(g, n + 1)
      BY <3>4, <3>5
    <3>7. \E k : Solves(k, n + 1)
      <4> HIDE DEF g, Solves
      <4> QED BY <3>6
    <3>8. n + 1 \in Nat
      OBVIOUS
    <3> HIDE DEF Solves, g, next
    <3> QED BY <3>7, <3>8
  <2> HIDE DEF T
  <2>3. \A n \in Nat : n \in T
    BY <2>1, <2>2, Induction
  <2> QED BY <2>3 DEF T
<1> DEFINE H(n) == CHOOSE h : Solves(h, n)
           g == [n \in Nat |-> H(n)[n]]
<1>3. \A n \in Nat : Solves(H(n), n)
  <2> HIDE DEF Solves
  <2> QED BY <1>2
<1>4. g \in [Nat -> S]
  <2> HIDE DEF H
  <2> QED BY <1>3
<1>5. ASSUME NEW n \in Nat PROVE Follows(g, stop, base, D, F, n)
  <2>1. Follows(H(n), stop, base, D, F, n)
    <3> HIDE DEF H
    <3> QED BY <1>3
  <2>2. n \notin stop => D[n] \in Nat /\ D[n] <= n
    OBVIOUS
  <2>3. n \notin stop => H(n)[D[n]] = H(D[n])[D[n]]
    <3> HIDE DEF H, Solves
    <3> QED BY <1>1, <1>3, <2>2
  <2>4. g[n] = H(n)[n] /\ (n \notin stop => g[D[n]] = H(D[n])[D[n]])
    BY <2>2
  <2> HIDE DEF g, H
  <2> QED BY <2>1, <2>3, <2>4 DEF Follows
<1> HIDE DEF g
<1> QED BY <1>4, <1>5

\* The same for steps down to 0 by one.
StepsDown(h, first, F) == \A n \in Nat : h[n] = IF n = 0 THEN first ELSE F[<<n, h[n - 1]>>]

\* The function that such a recursion has for a solution.
LEMMA StepwiseRecursion ==
    ASSUME NEW S, NEW first \in S, NEW F \in [Nat \X S -> S]
    PROVE  \E g \in [Nat -> S] : StepsDown(g, first, F)
<1> DEFINE base == [n \in Nat |-> first]
           D == [n \in Nat |-> IF n = 0 THEN 0 ELSE n - 1]
<1>1. base \in [Nat -> S] /\ D \in [Nat -> Nat]
  OBVIOUS
<1>2. \A n \in Nat : n \notin {0} => D[n] < n
  OBVIOUS
<1>3. PICK g \in [Nat -> S] : \A n \in Nat : Follows(g, {0}, base, D, F, n)
  <2> HIDE DEF base, D
  <2> QED BY <1>1, <1>2, Recursion
<1>4. ASSUME NEW n \in Nat
      PROVE  g[n] = IF n = 0 THEN first ELSE F[<<n, g[n - 1]>>]
  <2>1. Follows(g, {0}, base, D, F, n)
    BY <1>3
  <2> QED BY <2>1 DEF Follows
<1> QED BY <1>4 DEF StepsDown

-----------------------------------------------------------------------------
\* The bytes of a buffer.
Byte == 0 .. 255

\* A byte is a natural number.
LEMMA ByteNat ==
    \A b \in Byte : b \in Nat
BY DEF Byte

\* Shifting to the right, one byte after the other.
LEMMA ShiftedStep ==
    ASSUME NEW n \in Int
    PROVE  /\ Shifted(n, 0) = n
           /\ \A k \in Nat : /\ Shifted(n, k) \in Int
                             /\ Shifted(n, k + 1) = Shifted(n, k) \div 256
<1> DEFINE S == Int
           F == [p \in Nat \X S |-> p[2] \div 256]
           shift == CHOOSE f : f = [i \in Nat |-> IF i = 0 THEN n ELSE f[i - 1] \div 256]
<1>1. n \in S /\ F \in [Nat \X S -> S]
  OBVIOUS
<1>2. PICK g \in [Nat -> S] : StepsDown(g, n, F)
  <2> HIDE DEF F, S
  <2> QED BY <1>1, StepwiseRecursion
<1>3. \A i \in Nat : i # 0 => F[<<i, g[i - 1]>>] = g[i - 1] \div 256
  OBVIOUS
<1>4. g = [i \in Nat |-> IF i = 0 THEN n ELSE g[i - 1] \div 256]
  <2>1. \A i \in Nat : g[i] = IF i = 0 THEN n ELSE g[i - 1] \div 256
    <3> HIDE DEF F, S
    <3> TAKE i \in Nat
    <3>1. CASE i = 0
      BY <1>2, <3>1 DEF StepsDown
    <3>2. CASE i # 0
      BY <1>2, <1>3, <3>2 DEF StepsDown
    <3> QED BY <3>1, <3>2
  <2>2. g = [i \in Nat |-> g[i]]
    BY <1>2
  <2> HIDE DEF F, S
  <2> QED BY <2>1, <2>2
<1>5. shift = [i \in Nat |-> IF i = 0 THEN n ELSE shift[i - 1] \div 256]
  <2> DEFINE Solves(f) == f = [i \in Nat |-> IF i = 0 THEN n ELSE f[i - 1] \div 256]
  <2>1. Solves(g)
    BY <1>4
  <2>2. shift = CHOOSE f : Solves(f)
    OBVIOUS
  <2> HIDE DEF Solves, shift, F
  <2>3. Solves(shift)
    BY <2>1, <2>2, Zenon
  <2> QED BY <2>3 DEF Solves
<1>6. \A k : Shifted(n, k) = shift[k]
  BY DEF Shifted
<1> HIDE DEF shift
<1>7. shift[0] = n /\ \A k \in Nat : shift[k + 1] = shift[k] \div 256
  <2>1. shift[0] = n
    BY <1>5
  <2>2. ASSUME NEW k \in Nat PROVE shift[k + 1] = shift[k] \div 256
    <3>1. k + 1 \in Nat /\ k + 1 # 0 /\ (k + 1) - 1 = k
      OBVIOUS
    <3>2. shift[k + 1] = shift[(k + 1) - 1] \div 256
      BY <1>5, <3>1
    <3> QED BY <3>1, <3>2
  <2> QED BY <2>1, <2>2
<1>8. \A k \in Nat : shift[k] \in Int
  <2> DEFINE T == {k \in Nat : shift[k] \in Int}
  <2>1. 0 \in T
    BY <1>7
  <2>2. \A k \in Nat : k \in T => k + 1 \in T
    BY <1>7
  <2> HIDE DEF T
  <2>3. \A k \in Nat : k \in T
    BY <2>1, <2>2, Induction
  <2> QED BY <2>3 DEF T
<1> QED BY <1>6, <1>7, <1>8

\* A compact length takes as many bytes as are allocated for it.
LEMMA VarintStep ==
    /\ \A n \in Nat : /\ Varint[n] \in Seq(Byte)
                      /\ Varint[n] = IF n > 127 THEN <<128 + (n % 128)>> \o Varint[n \div 128]
                                                ELSE <<n>>
    /\ \A n \in Nat : sizeOfLength[n] = Len(Varint[n]) /\ Len(Varint[n]) >= 1
<1> DEFINE D == [n \in Nat |-> n \div 128]
           stop == 0 .. 127
<1>1. D \in [Nat -> Nat] /\ \A n \in Nat : n \notin stop => D[n] < n
  <2>1. \A n \in Nat : n \div 128 \in Nat /\ (n > 127 => n \div 128 < n)
    OBVIOUS
  <2> QED BY <2>1
<1>2. \A n \in Nat : n \in stop <=> ~(n > 127)
  OBVIOUS
<1>3. Varint = [n \in Nat |-> IF n > 127 THEN <<128 + (n % 128)>> \o Varint[n \div 128] ELSE <<n>>]
  <2> DEFINE S == Seq(Byte)
             base == [n \in Nat |-> IF n \in stop THEN <<n>> ELSE <<>>]
             F == [p \in Nat \X S |-> <<128 + (p[1] % 128)>> \o p[2]]
  <2>1. base \in [Nat -> S]
    <3>1. \A n \in Nat : n \in stop => <<n>> \in S
      BY DEF Byte
    <3> QED BY <3>1
  <2>2. F \in [Nat \X S -> S]
    <3>1. \A n \in Nat : 128 + (n % 128) \in Byte
      BY DEF Byte
    <3> QED BY <3>1
  <2>3. PICK g \in [Nat -> S] : \A n \in Nat : Follows(g, stop, base, D, F, n)
    <3> HIDE DEF S, base, F, D, stop
    <3> QED BY <1>1, <2>1, <2>2, Recursion
  <2>4. ASSUME NEW n \in Nat
        PROVE  g[n] = IF n > 127 THEN <<128 + (n % 128)>> \o g[n \div 128] ELSE <<n>>
    <3>1. Follows(g, stop, base, D, F, n)
      BY <2>3
    <3>2. CASE n \in stop
      BY <1>2, <3>1, <3>2 DEF Follows
    <3>3. CASE n \notin stop
      <4>1. F[<<n, g[D[n]]>>] = <<128 + (n % 128)>> \o g[D[n]]
        <5>1. <<n, g[D[n]]>> \in Nat \X S
          BY <1>1
        <5> HIDE DEF S, D
        <5> QED BY <5>1
      <4> QED BY <1>2, <3>1, <3>3, <4>1 DEF Follows
    <3> QED BY <3>2, <3>3
  <2>5. g = [n \in Nat |-> IF n > 127 THEN <<128 + (n % 128)>> \o g[n \div 128] ELSE <<n>>]
    <3> HIDE DEF S
    <3> QED BY <2>4
  <2> QED BY <2>5 DEF Varint
<1>4. sizeOfLength = [n \in Nat |-> IF n > 127 THEN 1 + sizeOfLength[n \div 128] ELSE 1]
  <2> DEFINE base == [n \in Nat |-> 1]
             F == [p \in Nat \X Nat |-> 1 + p[2]]
  <2>1. base \in [Nat -> Nat] /\ F \in [Nat \X Nat -> Nat]
    OBVIOUS
  <2>2. PICK g \in [Nat -> Nat] : \A n \in Nat : Follows(g, stop, base, D, F, n)
    <3> HIDE DEF base, F, D, stop
    <3> QED BY <1>1, <2>1, Recursion
  <2>3. ASSUME NEW n \in Nat
        PROVE  g[n] = IF n > 127 THEN 1 + g[n \div 128] ELSE 1
    <3>1. Follows(g, stop, base, D, F, n)
      BY <2>2
    <3>2. n \div 128 \in Nat /\ F[<<n, g[n \div 128]>>] = 1 + g[n \div 128]
      OBVIOUS
    <3> QED BY <1>2, <3>1, <3>2 DEF Follows
  <2>4. g = [n \in Nat |-> IF n > 127 THEN 1 + g[n \div 128] ELSE 1]
    BY <2>3
  <2> QED BY <2>4 DEF sizeOfLength
<1> DEFINE T == {n \in Nat : /\ Varint[n] \in Seq(Byte)
                          /\ sizeOfLength[n] = Len(Varint[n]) /\ Len(Varint[n]) >= 1}
<1>5. ASSUME NEW n \in Nat, \A m \in Nat : m < n => m \in T
      PROVE  n \in T
  <2>1. CASE n > 127
    <3>1. n \div 128 \in Nat /\ n \div 128 < n /\ 128 + (n % 128) \in Byte
      BY <2>1 DEF Byte
    <3>2. n \div 128 \in T
      BY <1>5, <3>1
    <3>3. <<128 + (n % 128)>> \in Seq(Byte) /\ Len(<<128 + (n % 128)>>) = 1
      BY <3>1
    <3>4. Varint[n] = <<128 + (n % 128)>> \o Varint[n \div 128]
      BY <1>3, <2>1
    <3>5. sizeOfLength[n] = 1 + sizeOfLength[n \div 128]
      BY <1>4, <2>1
    <3>6. Varint[n] \in Seq(Byte) /\ Len(Varint[n]) = 1 + Len(Varint[n \div 128])
      BY <3>2, <3>3, <3>4
    <3> QED BY <3>2, <3>5, <3>6
  <2>2. CASE ~(n > 127)
    <3>1. Varint[n] = <<n>> /\ sizeOfLength[n] = 1 /\ n \in Byte
      BY <1>3, <1>4, <2>2 DEF Byte
    <3>2. <<n>> \in Seq(Byte) /\ Len(<<n>>) = 1
      BY <3>1
    <3>3. Varint[n] \in Seq(Byte) /\ sizeOfLength[n] = Len(Varint[n]) /\ Len(Varint[n]) >= 1
      BY <3>1, <3>2
    <3> QED BY <3>3
  <2> QED BY <2>1, <2>2
<1> HIDE DEF T
<1>6. \A n \in Nat : n \in T
  BY <1>5, StrongInduction
<1>7. \A n \in Nat : Varint[n] = IF n > 127 THEN <<128 + (n % 128)>> \o Varint[n \div 128] ELSE <<n>>
  BY <1>3
<1> QED BY <1>6, <1>7 DEF T

-----------------------------------------------------------------------------
\* The bytes from an offset on are those of the chunk, as far as they are there.
Agrees(bytes, chunk, from) ==
    \A i \in 1 .. Len(chunk) : from + i <= Len(bytes) => bytes[from + i] = chunk[i]

\* The numbers of fixed length.
FixedTypes == Types \ CompactTypes

\* How many bytes a number of fixed length takes.
LEMMA WidthType ==
    \A type \in FixedTypes : Width(type) \in 1 .. 8
BY DEF FixedTypes, Types, NumberTypes, TextTypes, ArrayTypes, CompactTypes, Width

\* The encoding of a number: its bytes, from the highest down.
LEMMA NumberBytes ==
    ASSUME NEW w \in Nat, NEW n \in Int
    PROVE  /\ EncodeNumber(w, n) \in Seq(Byte)
           /\ Len(EncodeNumber(w, n)) = w
           /\ \A i \in 1 .. w : EncodeNumber(w, n)[i] = Shifted(n, w - i) % 256
<1>1. \A i \in 1 .. w : Shifted(n, w - i) % 256 \in Byte
  <2> TAKE i \in 1 .. w
  <2>1. w - i \in Nat
    OBVIOUS
  <2>2. Shifted(n, w - i) \in Int
    BY <2>1, ShiftedStep
  <2> QED BY <2>2 DEF Byte
<1>2. EncodeNumber(w, n) \in [1 .. w -> Byte]
  BY <1>1 DEF EncodeNumber
<1> QED BY <1>2 DEF EncodeNumber

\* The value that is built from the bytes, one after the other.
DecodedInSteps(bytes, type, from) ==
    \E upTo :
        /\ upTo[0] = IF type \in SignedTypes /\ bytes[from + 1] >= 128 THEN -1 ELSE 0
        /\ \A i \in 1 .. Width(type) : upTo[i] = upTo[i - 1] * 256 + bytes[from + i]
        /\ upTo[Width(type)] \in Int
        /\ DecodeNumber(bytes, type, from) = Got(upTo[Width(type)], from + Width(type))

LEMMA DecodeNumberStep ==
    ASSUME NEW bytes \in Seq(Byte), NEW type \in FixedTypes, NEW from \in Nat,
           from + Width(type) <= Len(bytes)
    PROVE  DecodedInSteps(bytes, type, from)
<1> DEFINE w == Width(type)
           sign == IF type \in SignedTypes /\ bytes[from + 1] >= 128 THEN -1 ELSE 0
           S == Int
           F == [p \in Nat \X S |-> IF p[1] \in 1 .. w THEN p[2] * 256 + bytes[from + p[1]] ELSE 0]
           upTo == CHOOSE f : f = [i \in 0 .. w |->
                        IF i = 0 THEN sign ELSE f[i - 1] * 256 + bytes[from + i]]
<1>1. w \in Nat
  BY WidthType
<1>2. DecodeNumber(bytes, type, from) = Got(upTo[w], from + w)
  <2>1. ~(from + w > Len(bytes))
    BY <1>1
  <2> QED BY <2>1 DEF DecodeNumber
<1>3. sign \in S
  OBVIOUS
<1>4. F \in [Nat \X S -> S]
  <2>1. \A i \in 1 .. w : bytes[from + i] \in Int
    <3> TAKE i \in 1 .. w
    <3>1. from + i \in 1 .. Len(bytes)
      BY <1>1
    <3>2. bytes[from + i] \in Byte
      BY <3>1
    <3> QED BY <3>2, ByteNat
  <2> HIDE DEF w
  <2> QED BY <2>1
<1>5. PICK g \in [Nat -> S] : StepsDown(g, sign, F)
  <2> HIDE DEF F, S, sign
  <2> QED BY <1>3, <1>4, StepwiseRecursion
<1> DEFINE h == [i \in 0 .. w |-> g[i]]
<1> HIDE DEF w, sign
<1>6. \A i \in 0 .. w : h[i] = IF i = 0 THEN sign ELSE h[i - 1] * 256 + bytes[from + i]
  <2> TAKE i \in 0 .. w
  <2>1. CASE i = 0
    BY <1>1, <1>5, <2>1 DEF StepsDown
  <2>2. CASE i # 0
    <3>1. i \in 1 .. w /\ i - 1 \in 0 .. w /\ i \in Nat /\ i - 1 \in Nat
      BY <1>1, <2>2
    <3>2. g[i] = F[<<i, g[i - 1]>>] /\ g[i - 1] \in S
      <4> HIDE DEF F, S, h
      <4> QED BY <1>5, <2>2, <3>1 DEF StepsDown
    <3>3. F[<<i, g[i - 1]>>] = g[i - 1] * 256 + bytes[from + i]
      BY <3>1, <3>2
    <3> QED BY <2>2, <3>1, <3>2, <3>3
  <2> QED BY <2>1, <2>2
<1>7. h = [i \in 0 .. w |-> IF i = 0 THEN sign ELSE h[i - 1] * 256 + bytes[from + i]]
  <2>1. h = [i \in 0 .. w |-> h[i]]
    OBVIOUS
  <2> HIDE DEF h
  <2> QED BY <1>6, <2>1
<1>8. upTo = [i \in 0 .. w |-> IF i = 0 THEN sign ELSE upTo[i - 1] * 256 + bytes[from + i]]
  <2> DEFINE Solves(f) == f = [i \in 0 .. w |-> IF i = 0 THEN sign ELSE f[i - 1] * 256 + bytes[from + i]]
  <2>1. Solves(h)
    BY <1>7
  <2>2. upTo = CHOOSE f : Solves(f)
    OBVIOUS
  <2> HIDE DEF Solves, upTo, h
  <2>3. Solves(upTo)
    BY <2>1, <2>2, Zenon
  <2> QED BY <2>3 DEF Solves
<1> HIDE DEF upTo
<1>9. upTo[0] = sign /\ \A i \in 1 .. w : upTo[i] = upTo[i - 1] * 256 + bytes[from + i]
  <2>1. 0 \in 0 .. w /\ \A i \in 1 .. w : i \in 0 .. w /\ i # 0
    BY <1>1
  <2> HIDE DEF h, F
  <2>2. upTo[0] = sign
    BY <1>8, <2>1
  <2>3. ASSUME NEW i \in 1 .. w
        PROVE  upTo[i] = upTo[i - 1] * 256 + bytes[from + i]
    BY <1>8, <2>1, Zenon
  <2> QED BY <2>2, <2>3
<1>10. upTo[w] \in Int
  <2> DEFINE T == {i \in Nat : i <= w => upTo[i] \in Int}
  <2>1. 0 \in T
    BY <1>3, <1>9
  <2>2. ASSUME NEW i \in Nat, i \in T
        PROVE  i + 1 \in T
    <3> SUFFICES ASSUME i + 1 <= w PROVE upTo[i + 1] \in Int
      OBVIOUS
    <3>1. i + 1 \in 1 .. w /\ (i + 1) - 1 = i /\ i <= w
      BY <1>1
    <3>2. bytes[from + (i + 1)] \in Nat
      <4>1. from + (i + 1) \in 1 .. Len(bytes)
        BY <1>1, <3>1 DEF w
      <4>2. bytes[from + (i + 1)] \in Byte
        BY <4>1
      <4> QED BY <4>2, ByteNat
    <3>3. upTo[i] \in Int /\ upTo[i + 1] = upTo[i] * 256 + bytes[from + (i + 1)]
      BY <1>9, <2>2, <3>1
    <3> DEFINE x == upTo[i]
               b == bytes[from + (i + 1)]
    <3>4. x \in Int /\ b \in Nat /\ upTo[i + 1] = x * 256 + b
      BY <3>2, <3>3
    <3> HIDE DEF T, h, F, x, b
    <3>5. x * 256 + b \in Int
      BY <3>4
    <3> QED BY <3>4, <3>5
  <2> HIDE DEF T, h, F
  <2>3. \A i \in Nat : i \in T
    BY <2>1, <2>2, Induction
  <2> QED BY <1>1, <2>3 DEF T
<1> QED BY <1>2, <1>9, <1>10 DEF w, sign, DecodedInSteps

\* Dividing by a power of 256 and by 256 again.
LEMMA Quotients ==
    /\ \A n \in Int : 256 * (n \div 256) + (n % 256) = n
    /\ \A n \in -128 .. 127 :
          n \div 256 = (IF n < 0 THEN -1 ELSE 0) /\ (n % 256 >= 128 <=> n < 0)
    /\ \A n \in 0 .. 255 : n \div 256 = 0 /\ n % 256 = n
<1>1. \A n \in Int : 256 * (n \div 256) + (n % 256) = n
  OBVIOUS
<1>2. \A n \in -128 .. 127 : n \div 256 = (IF n < 0 THEN -1 ELSE 0)
  OBVIOUS
<1>3. \A n \in -128 .. 127 : n % 256 >= 128 <=> n < 0
  OBVIOUS
<1>4. \A n \in 0 .. 255 : n \div 256 = 0 /\ n % 256 = n
  OBVIOUS
<1> QED BY <1>1, <1>2, <1>3, <1>4

\* A number that fits is read again as it was written, unless it was cut off.
LEMMA NumberIsReadAgain ==
    ASSUME NEW bytes \in Seq(Byte), NEW type \in FixedTypes, NEW from \in Nat,
           NEW n \in Int, InRange(type, n), Agrees(bytes, EncodeNumber(Width(type), n), from)
    PROVE  DecodeNumber(bytes, type, from) =
              IF from + Width(type) > Len(bytes) THEN Throws ELSE Got(n, from + Width(type))
<1> DEFINE w == Width(type)
<1>1. w \in 1 .. 8
  BY WidthType
<1>2. CASE from + w > Len(bytes)
  BY <1>2 DEF DecodeNumber
<1>3. CASE ~(from + w > Len(bytes))
  <2>1. from + w <= Len(bytes)
    BY <1>1, <1>3
  <2>2. PICK upTo :
            /\ upTo[0] = IF type \in SignedTypes /\ bytes[from + 1] >= 128 THEN -1 ELSE 0
            /\ \A i \in 1 .. w : upTo[i] = upTo[i - 1] * 256 + bytes[from + i]
            /\ DecodeNumber(bytes, type, from) = Got(upTo[w], from + w)
    BY <2>1, DecodeNumberStep DEF DecodedInSteps
  <2>3. \A i \in 1 .. w : bytes[from + i] = Shifted(n, w - i) % 256
    <3> TAKE i \in 1 .. w
    <3>0. w \in Nat
      BY <1>1
    <3>1. i \in 1 .. Len(EncodeNumber(w, n)) /\ EncodeNumber(w, n)[i] = Shifted(n, w - i) % 256
      <4> HIDE DEF w
      <4>1. Len(EncodeNumber(w, n)) = w
        BY <3>0, NumberBytes
      <4>2. EncodeNumber(w, n)[i] = Shifted(n, w - i) % 256
        BY <3>0, NumberBytes
      <4> QED BY <4>1, <4>2
    <3>2. from + i <= Len(bytes)
      BY <1>1, <2>1
    <3> QED BY <3>1, <3>2 DEF Agrees
  <2> HIDE DEF w
  <2>4. \A k \in 0 .. w : Shifted(n, k) \in Int
    BY ShiftedStep, <1>1
  <2>5. \A i \in 1 .. w : Shifted(n, (w - i) + 1) = Shifted(n, w - i) \div 256
    BY ShiftedStep, <1>1
  <2>6. upTo[0] = Shifted(n, w)
    <3> DEFINE top == Shifted(n, w - 1)
    <3>1. 1 \in 1 .. w /\ w - 1 \in 0 .. w /\ (w - 1) + 1 = w
      BY <1>1
    <3>2. bytes[from + 1] = top % 256 /\ Shifted(n, w) = top \div 256 /\ top \in Int
      BY <2>3, <2>4, <2>5, <3>1
    <3>3. top \in IF type \in SignedTypes THEN -128 .. 127 ELSE 0 .. 255
      BY DEF InRange, w
    <3> HIDE DEF top
    <3>4. CASE type \in SignedTypes
      BY <2>2, <3>2, <3>3, <3>4, Quotients
    <3>5. CASE type \notin SignedTypes
      BY <2>2, <3>2, <3>3, <3>5, Quotients
    <3> QED BY <3>4, <3>5
  <2> DEFINE T == {i \in Nat : i <= w => upTo[i] = Shifted(n, w - i)}
  <2>7. 0 \in T
    BY <1>1, <2>6
  <2>8. ASSUME NEW i \in Nat, i \in T
        PROVE  i + 1 \in T
    <3> SUFFICES ASSUME i + 1 <= w PROVE upTo[i + 1] = Shifted(n, w - (i + 1))
      OBVIOUS
    <3> DEFINE s == Shifted(n, w - (i + 1))
    <3>1. i + 1 \in 1 .. w /\ i <= w /\ (i + 1) - 1 = i /\ (w - (i + 1)) + 1 = w - i
             /\ w - (i + 1) \in 0 .. w
      BY <1>1
    <3>2. upTo[i + 1] = upTo[i] * 256 + bytes[from + (i + 1)]
      BY <2>2, <3>1 DEF w
    <3>3. upTo[i] = Shifted(n, w - i) /\ Shifted(n, w - i) = s \div 256
      BY <2>5, <2>8, <3>1
    <3>4. bytes[from + (i + 1)] = s % 256 /\ s \in Int
      BY <2>3, <2>4, <3>1
    <3> HIDE DEF s
    <3>5. upTo[i + 1] = (s \div 256) * 256 + (s % 256)
      BY <3>2, <3>3, <3>4
    <3>6. upTo[i + 1] = s
      BY <3>4, <3>5, Quotients
    <3> QED BY <3>6 DEF s
  <2> HIDE DEF T
  <2>9. \A i \in Nat : i \in T
    BY <2>7, <2>8, Induction
  <2>10. upTo[w] = Shifted(n, 0) /\ Shifted(n, 0) = n
    <3>1. w \in Nat /\ w <= w /\ w - w = 0
      BY <1>1
    <3>2. w \in T
      BY <2>9, <3>1
    <3> QED BY <3>1, <3>2, ShiftedStep DEF T
  <2> QED BY <1>3, <2>2, <2>10 DEF w
<1> QED BY <1>2, <1>3

-----------------------------------------------------------------------------
\* What decoding gives when the values are of this set.
Results(V) == {Throws} \cup {Got(p[1], p[2]) : p \in V \X Nat}

\* What the two forms of a result are.
LEMMA ResultsType ==
    ASSUME NEW V
    PROVE  /\ Throws \in Results(V) /\ Throws.threw
           /\ \A v \in V, x \in Nat : Got(v, x) \in Results(V)
           /\ \A r \in Results(V) : r.threw => r = Throws
           /\ \A r \in Results(V) : ~r.threw => r.value \in V /\ r.next \in Nat /\ r = Got(r.value, r.next)
<1>1. Throws \in Results(V) /\ Throws.threw
  BY DEF Results, Throws
<1>2. ASSUME NEW v \in V, NEW x \in Nat
      PROVE  Got(v, x) \in Results(V)
  <2>1. <<v, x>> \in V \X Nat /\ Got(v, x) = Got(<<v, x>>[1], <<v, x>>[2])
    OBVIOUS
  <2> QED BY <2>1 DEF Results
<1>3. ASSUME NEW r \in Results(V)
      PROVE  /\ r.threw => r = Throws
             /\ ~r.threw => r.value \in V /\ r.next \in Nat /\ r = Got(r.value, r.next)
  <2>1. CASE r = Throws
    BY <2>1 DEF Throws
  <2>2. CASE r # Throws
    <3>1. PICK p \in V \X Nat : r = Got(p[1], p[2])
      BY <2>2 DEF Results
    <3>2. ~r.threw /\ r.value = p[1] /\ r.next = p[2]
      BY <3>1 DEF Got
    <3> QED BY <3>1, <3>2
  <2> QED BY <2>1, <2>2
<1> QED BY <1>1, <1>2, <1>3

\* The parts of a result.
LEMMA GotFields ==
    \A v, x : ~Got(v, x).threw /\ Got(v, x).value = v /\ Got(v, x).next = x
BY DEF Got

\* The bytes of a compact length, from the last that may belong to it.
LEMMA VarintOfStep ==
    ASSUME NEW bytes \in Seq(Byte)
    PROVE  /\ VarintOf(bytes, 0) = Throws
           /\ \A n \in 1 .. Len(bytes) :
                 LET at == Len(bytes) - n + 1
                 IN  VarintOf(bytes, n) = IF bytes[at] < 128 THEN Got(bytes[at], at)
                                          ELSE Below(bytes[at], VarintOf(bytes, n - 1))
           /\ \A n \in 0 .. Len(bytes) : VarintOf(bytes, n) \in Results(Nat)
<1> DEFINE len == Len(bytes)
           At(n) == len - n + 1
           Step(n, rest) == IF bytes[At(n)] < 128 THEN Got(bytes[At(n)], At(n))
                            ELSE Below(bytes[At(n)], rest)
           S == Results(Nat)
           F == [p \in Nat \X S |-> IF p[1] \in 1 .. len THEN Step(p[1], p[2]) ELSE Throws]
           upTo == CHOOSE f : f = [n \in 0 .. len |-> IF n = 0 THEN Throws ELSE Step(n, f[n - 1])]
<1>1. len \in Nat
  OBVIOUS
<1>2. \A n : VarintOf(bytes, n) = upTo[n]
  BY DEF VarintOf
<1> HIDE DEF len, upTo
<1>3. Throws \in S
  BY ResultsType
<1>4. ASSUME NEW n \in 1 .. len, NEW rest \in S
      PROVE  Step(n, rest) \in S
  <2>1. At(n) \in 1 .. Len(bytes) /\ At(n) \in Nat
    BY <1>1 DEF len
  <2>2. bytes[At(n)] \in Nat
    <3>1. bytes[At(n)] \in Byte
      <4> HIDE DEF At
      <4> QED BY <2>1
    <3> QED BY <3>1, ByteNat
  <2> DEFINE b == bytes[At(n)]
  <2> HIDE DEF At
  <2>3. Got(b, At(n)) \in S
    BY <2>1, <2>2, ResultsType
  <2>4. Below(b, rest) \in S
    <3>1. CASE rest.threw
      BY <3>1 DEF Below
    <3>2. CASE ~rest.threw
      <4>1. rest.value \in Nat /\ rest.next \in Nat
        <5> HIDE DEF b
        <5> QED BY <3>2, ResultsType
      <4>2. (b % 128) + 128 * rest.value \in Nat
        BY <2>2, <4>1
      <4> DEFINE v == (b % 128) + 128 * rest.value
      <4>3. Below(b, rest) = Got(v, rest.next)
        BY <3>2 DEF Below
      <4> HIDE DEF v
      <4>4. v \in Nat
        BY <4>2 DEF v
      <4> HIDE DEF b
      <4>5. Got(v, rest.next) \in S
        BY <4>1, <4>4, ResultsType
      <4> QED BY <4>3, <4>5
    <3> QED BY <3>1, <3>2
  <2> HIDE DEF S
  <2> QED BY <2>3, <2>4
<1>5. F \in [Nat \X S -> S]
  <2> HIDE DEF Step, S
  <2> QED BY <1>3, <1>4
<1>6. PICK g \in [Nat -> S] : StepsDown(g, Throws, F)
  <2> HIDE DEF F, S
  <2> QED BY <1>3, <1>5, StepwiseRecursion
<1> DEFINE h == [n \in 0 .. len |-> g[n]]
<1> HIDE DEF S
<1>7. \A n \in 0 .. len : h[n] = IF n = 0 THEN Throws ELSE Step(n, h[n - 1])
  <2> TAKE n \in 0 .. len
  <2>1. CASE n = 0
    BY <1>1, <1>6, <2>1 DEF StepsDown
  <2>2. CASE n # 0
    <3>1. n \in 1 .. len /\ n - 1 \in 0 .. len /\ n \in Nat /\ n - 1 \in Nat
      BY <1>1, <2>2
    <3>2. g[n] = F[<<n, g[n - 1]>>] /\ g[n - 1] \in S
      BY <1>6, <2>2, <3>1 DEF StepsDown
    <3> HIDE DEF Step
    <3>3. F[<<n, g[n - 1]>>] = Step(n, g[n - 1])
      BY <3>1, <3>2
    <3>4. h[n - 1] = g[n - 1] /\ h[n] = g[n]
      BY <3>1
    <3> QED BY <2>2, <3>2, <3>3, <3>4
  <2> QED BY <2>1, <2>2
<1>8. h = [n \in 0 .. len |-> IF n = 0 THEN Throws ELSE Step(n, h[n - 1])]
  <2>1. h = [n \in 0 .. len |-> h[n]]
    OBVIOUS
  <2> HIDE DEF h, Step
  <2> QED BY <1>7, <2>1
<1>9. upTo = [n \in 0 .. len |-> IF n = 0 THEN Throws ELSE Step(n, upTo[n - 1])]
  <2> HIDE DEF h, Step
  <2> QED BY <1>8 DEF upTo
<1>10. upTo[0] = Throws /\ \A n \in 1 .. len : upTo[n] = Step(n, upTo[n - 1])
  <2> HIDE DEF Step
  <2>1. 0 \in 0 .. len /\ \A n \in 1 .. len : n \in 0 .. len /\ n # 0
    BY <1>1
  <2> QED BY <1>9, <2>1
<1> DEFINE T == {n \in Nat : n <= len => upTo[n] \in S}
<1>11. 0 \in T
  BY <1>3, <1>10
<1>12. ASSUME NEW n \in Nat, n \in T
       PROVE  n + 1 \in T
  <2> SUFFICES ASSUME n + 1 <= len PROVE upTo[n + 1] \in S
    OBVIOUS
  <2>1. n + 1 \in 1 .. len /\ (n + 1) - 1 = n /\ n <= len
    BY <1>1
  <2>2. upTo[n] \in S
    BY <1>12, <2>1
  <2> HIDE DEF Step
  <2> QED BY <1>4, <1>10, <2>1, <2>2
<1> HIDE DEF T
<1>13. \A n \in Nat : n \in T
  BY <1>11, <1>12, Induction
<1>14. \A n \in 0 .. len : upTo[n] \in S
  BY <1>1, <1>13 DEF T
<1> QED BY <1>2, <1>10, <1>14 DEF len, S

\* The bytes of two sequences that are joined.
LEMMA Concatenated ==
    ASSUME NEW a \in Seq(Byte), NEW b \in Seq(Byte)
    PROVE  /\ a \o b \in Seq(Byte) /\ Len(a \o b) = Len(a) + Len(b)
           /\ \A i \in 1 .. Len(a) : (a \o b)[i] = a[i]
           /\ \A i \in 1 .. Len(b) : (a \o b)[Len(a) + i] = b[i]
OBVIOUS

\* Who agrees with two joined chunks agrees with each of them.
LEMMA AgreesWithParts ==
    ASSUME NEW bytes \in Seq(Byte), NEW a \in Seq(Byte), NEW b \in Seq(Byte), NEW from \in Nat,
           Agrees(bytes, a \o b, from)
    PROVE  Agrees(bytes, a, from) /\ Agrees(bytes, b, from + Len(a))
<1>1. ASSUME NEW i \in 1 .. Len(a), from + i <= Len(bytes)
      PROVE  bytes[from + i] = a[i]
  <2>1. i \in 1 .. Len(a \o b) /\ (a \o b)[i] = a[i]
    OBVIOUS
  <2> QED BY <1>1, <2>1 DEF Agrees
<1>2. ASSUME NEW i \in 1 .. Len(b), from + Len(a) + i <= Len(bytes)
      PROVE  bytes[from + Len(a) + i] = b[i]
  <2>1. Len(a) + i \in 1 .. Len(a \o b) /\ (a \o b)[Len(a) + i] = b[i]
    OBVIOUS
  <2>2. from + (Len(a) + i) = from + Len(a) + i
    OBVIOUS
  <2> QED BY <1>2, <2>1, <2>2 DEF Agrees
<1> QED BY <1>1, <1>2 DEF Agrees

\* The seven bits of a byte and the mark that more follow.
LEMMA SevenBits ==
    \A n \in Nat : ((128 + (n % 128)) % 128) + 128 * (n \div 128) = n
OBVIOUS

\* A compact length is read again as it was written, unless it was cut off.
LEMMA VarintIsReadAgain ==
    ASSUME NEW bytes \in Seq(Byte)
    PROVE  \A n \in Nat : \A from \in Nat :
              Agrees(bytes, Varint[n], from) =>
                  DecodeVarint(bytes, from) =
                     IF from + Len(Varint[n]) > Len(bytes) THEN Throws
                     ELSE Got(n, from + Len(Varint[n]))
<1> DEFINE Result(n, from) == IF from + Len(Varint[n]) > Len(bytes) THEN Throws
                              ELSE Got(n, from + Len(Varint[n]))
           T == {n \in Nat : \A from \in Nat :
                    Agrees(bytes, Varint[n], from) => DecodeVarint(bytes, from) = Result(n, from)}
<1>1. ASSUME NEW n \in Nat, \A m \in Nat : m < n => m \in T
      PROVE  n \in T
  <2> SUFFICES ASSUME NEW from \in Nat, Agrees(bytes, Varint[n], from)
               PROVE  DecodeVarint(bytes, from) = Result(n, from)
    OBVIOUS
  <2> DEFINE len == Len(bytes)
             left == len - from
             head == <<128 + (n % 128)>>
             m == n \div 128
  <2>1. len \in Nat
    OBVIOUS
  <2>2. m \in Nat /\ (n > 127 => m < n) /\ (n > 127 => Varint[n] = head \o Varint[m])
           /\ (~(n > 127) => Varint[n] = <<n>>)
    <3>1. m \in Nat /\ (n > 127 => m < n)
      OBVIOUS
    <3>2. Varint[n] = IF n > 127 THEN head \o Varint[m] ELSE <<n>>
      BY VarintStep
    <3> HIDE DEF m, head
    <3> QED BY <3>1, <3>2
  <2>3. head \in Seq(Byte) /\ Len(head) = 1 /\ Varint[m] \in Seq(Byte) /\ Varint[n] \in Seq(Byte)
    <3>1. 128 + (n % 128) \in Byte
      BY DEF Byte
    <3>2. head \in Seq(Byte) /\ Len(head) = 1
      BY <3>1
    <3> HIDE DEF m, head
    <3> QED BY <2>2, <3>2, VarintStep
  <2>4. n > 127 => Len(Varint[n]) = 1 + Len(Varint[m]) /\ Varint[n][1] = 128 + (n % 128)
    <3> HIDE DEF m
    <3> QED BY <2>2, <2>3
  <2>5. ~(n > 127) => Len(Varint[n]) = 1 /\ Varint[n][1] = n
    BY <2>2
  <2>6. Len(Varint[n]) \in Nat /\ Len(Varint[m]) \in Nat
    BY <2>3
  <2> HIDE DEF m, head
  <2>7. CASE ~(from < len)
    <3>1. DecodeVarint(bytes, from) = Throws
      BY <2>7, VarintOfStep DEF DecodeVarint
    <3>2. from + Len(Varint[n]) > len
      BY <2>1, <2>4, <2>5, <2>6, <2>7
    <3> QED BY <3>1, <3>2
  <2>8. CASE from < len
    <3>1. left \in 1 .. Len(bytes) /\ len - left + 1 = from + 1
      BY <2>1, <2>8
    <3>2. DecodeVarint(bytes, from) = VarintOf(bytes, left)
      BY <2>8 DEF DecodeVarint
    <3>3. bytes[from + 1] = Varint[n][1]
      <4>1. 1 \in 1 .. Len(Varint[n]) /\ from + 1 <= Len(bytes)
        BY <2>1, <2>4, <2>5, <2>6, <2>8
      <4> QED BY <4>1 DEF Agrees
    <3>4. VarintOf(bytes, left) =
             IF bytes[from + 1] < 128 THEN Got(bytes[from + 1], from + 1)
             ELSE Below(bytes[from + 1], VarintOf(bytes, left - 1))
      <4> HIDE DEF left
      <4> QED BY <3>1, VarintOfStep DEF len
    <3>5. CASE ~(n > 127)
      <4>1. bytes[from + 1] = n /\ n < 128
        BY <2>5, <3>3, <3>5
      <4>2. DecodeVarint(bytes, from) = Got(n, from + 1)
        BY <3>2, <3>4, <4>1
      <4>3. Result(n, from) = Got(n, from + 1)
        <5>1. Len(Varint[n]) = 1 /\ ~(from + 1 > len)
          BY <2>1, <2>5, <2>8, <3>5
        <5> QED BY <5>1
      <4> QED BY <4>2, <4>3
    <3>6. CASE n > 127
      <4>1. bytes[from + 1] = 128 + (n % 128) /\ ~(128 + (n % 128) < 128)
        BY <2>4, <3>3, <3>6
      <4>2. VarintOf(bytes, left - 1) = DecodeVarint(bytes, from + 1)
        <5>1. left - 1 = IF from + 1 < len THEN len - (from + 1) ELSE 0
          BY <2>1, <2>8
        <5> QED BY <5>1 DEF DecodeVarint
      <4>3. Agrees(bytes, Varint[m], from + 1)
        <5>1. Agrees(bytes, head \o Varint[m], from)
          BY <2>2, <3>6
        <5>2. Agrees(bytes, Varint[m], from + Len(head))
          BY <2>3, <5>1, AgreesWithParts
        <5> QED BY <2>3, <5>2
      <4>4. DecodeVarint(bytes, from + 1) = Result(m, from + 1)
        <5>1. m \in T /\ from + 1 \in Nat
          BY <1>1, <2>2, <3>6
        <5> HIDE DEF Result
        <5> QED BY <4>3, <5>1
      <4>5. DecodeVarint(bytes, from) = Below(128 + (n % 128), Result(m, from + 1))
        <5> HIDE DEF Result, left
        <5> QED BY <3>2, <3>4, <4>1, <4>2, <4>4
      <4>6. CASE from + Len(Varint[n]) > len
        <5>1. Result(m, from + 1) = Throws /\ Result(n, from) = Throws
          BY <2>1, <2>4, <2>6, <3>6, <4>6
        <5>2. Below(128 + (n % 128), Throws) = Throws
          BY DEF Below, Throws
        <5> QED BY <4>5, <5>1, <5>2
      <4>7. CASE ~(from + Len(Varint[n]) > len)
        <5> DEFINE next == from + Len(Varint[n])
        <5>1. Result(m, from + 1) = Got(m, next) /\ Result(n, from) = Got(n, next)
          <6>1. (from + 1) + Len(Varint[m]) = next
            <7>1. Len(Varint[n]) = 1 + Len(Varint[m])
              BY <2>4, <3>6
            <7>2. \A x \in Nat : (from + 1) + x = from + (1 + x)
              OBVIOUS
            <7> QED BY <2>6, <7>1, <7>2
          <6> QED BY <4>7, <6>1
        <5> HIDE DEF next, Result
        <5>2. Below(128 + (n % 128), Got(m, next)) = Got(((128 + (n % 128)) % 128) + 128 * m, next)
          BY GotFields DEF Below
        <5>3. ((128 + (n % 128)) % 128) + 128 * m = n
          BY SevenBits DEF m
        <5> QED BY <4>5, <5>1, <5>2, <5>3
      <4> QED BY <4>6, <4>7
    <3> QED BY <3>5, <3>6
  <2> QED BY <2>7, <2>8
<1> HIDE DEF T
<1>2. \A n \in Nat : n \in T
  BY <1>1, StrongInduction
<1> QED BY <1>2 DEF T

-----------------------------------------------------------------------------
\* Shifting -1, the null of a fixed length, leaves it as it is.
LEMMA ShiftedOfMinusOne ==
    ASSUME NEW n \in Int, n = -1
    PROVE  \A k \in Nat : Shifted(n, k) = n
<1> DEFINE T == {k \in Nat : Shifted(n, k) = n}
<1>1. 0 \in T
  BY ShiftedStep
<1>2. ASSUME NEW k \in Nat, k \in T
      PROVE  k + 1 \in T
  <2>1. Shifted(n, k + 1) = Shifted(n, k) \div 256
    BY ShiftedStep
  <2>2. n \div 256 = n
    BY Quotients
  <2> QED BY <1>2, <2>1, <2>2
<1> HIDE DEF T
<1>3. \A k \in Nat : k \in T
  BY <1>1, <1>2, Induction
<1> QED BY <1>3 DEF T

\* Shifting a length that fits the signed type ends at 0.
LEMMA ShiftedOfSmall ==
    \A n \in 0 .. 255 : \A k \in Nat : k > 0 => Shifted(n, k) = 0
<1> TAKE n \in 0 .. 255
<1> DEFINE T == {k \in Nat : k > 0 => Shifted(n, k) = 0}
<1>1. 0 \in T
  OBVIOUS
<1>2. ASSUME NEW k \in Nat, k \in T
      PROVE  k + 1 \in T
  <2>1. Shifted(n, k + 1) = Shifted(n, k) \div 256 /\ Shifted(n, 0) = n
    BY ShiftedStep
  <2>2. CASE k = 0
    <3>1. Shifted(n, k + 1) = n \div 256
      BY <2>1, <2>2
    <3> QED BY <3>1, Quotients
  <2>3. CASE k # 0
    BY <1>2, <2>1, <2>3
  <2> QED BY <2>2, <2>3
<1> HIDE DEF T
<1>3. \A k \in Nat : k \in T
  BY <1>1, <1>2, Induction
<1> QED BY <1>3 DEF T

\* What has a length, and the numbers a length can be.
LongTypes == TextTypes \cup ArrayTypes

Fits(type, n) == n # Null /\ type \notin CompactTypes => InRange(type, n)

\* Null is no value of a number field.
LEMMA NullIsNoNumber ==
    Null \notin Nat /\ Null \notin Int
<1>1. Null \notin Int
  BY NullAssumption
<1>2. \A n \in Nat : n \in Int
  OBVIOUS
<1> QED BY <1>1, <1>2

\* The length of a text or an array, null included.
LEMMA LengthBytes ==
    ASSUME NEW type \in LongTypes, NEW n \in Nat \cup {Null}
    PROVE  /\ type \in CompactTypes =>
                 EncodeLength(type, n) = Varint[IF n = Null THEN 0 ELSE n + 1]
           /\ type \notin CompactTypes =>
                 /\ type \in FixedTypes
                 /\ EncodeLength(type, n) = EncodeNumber(Width(type), IF n = Null THEN -1 ELSE n)
                 /\ Len(EncodeLength(type, n)) = Width(type)
           /\ EncodeLength(type, n) \in Seq(Byte)
           /\ Len(EncodeLength(type, n)) >= 1
<1>1. CASE type \in CompactTypes
  <2>1. CASE n = Null
    <3>1. EncodeLength(type, n) = <<0>>
      BY <1>1, <2>1 DEF EncodeLength
    <3>2. Varint[0] = <<0>>
      <4>1. 0 \in Nat /\ ~(0 > 127)
        OBVIOUS
      <4> QED BY <4>1, VarintStep
    <3>3. <<0>> \in Seq(Byte) /\ Len(<<0>>) = 1
      BY DEF Byte
    <3> QED BY <1>1, <2>1, <3>1, <3>2, <3>3
  <2>2. CASE n # Null
    <3> DEFINE v == Varint[n + 1]
    <3>1. n + 1 \in Nat /\ n \in Nat
      BY <2>2
    <3>2. v \in Seq(Byte) /\ sizeOfLength[n + 1] = Len(v) /\ Len(v) >= 1
      BY <3>1, VarintStep
    <3> HIDE DEF v
    <3>4. Fill(Len(v), v) = v
      BY <3>2 DEF Fill
    <3>5. EncodeLength(type, n) = v
      BY <1>1, <2>2, <3>2, <3>4 DEF EncodeLength, v
    <3> QED BY <1>1, <2>2, <3>2, <3>5 DEF v
  <2> QED BY <2>1, <2>2
<1>2. CASE type \notin CompactTypes
  <2> DEFINE k == IF n = Null THEN -1 ELSE n
  <2>1. type \in FixedTypes
    BY <1>2 DEF FixedTypes, LongTypes, Types
  <2>2. EncodeLength(type, n) = EncodeNumber(Width(type), k)
    BY <1>2 DEF EncodeLength
  <2>3. k \in Int /\ Width(type) \in Nat /\ Width(type) >= 1
    BY <2>1, WidthType
  <2> HIDE DEF k
  <2>4. /\ EncodeNumber(Width(type), k) \in Seq(Byte)
        /\ Len(EncodeNumber(Width(type), k)) = Width(type)
    BY <2>3, NumberBytes
  <2> QED BY <1>2, <2>1, <2>2, <2>3, <2>4 DEF k
<1> QED BY <1>1, <1>2

\* A length is read again as it was written, unless it was cut off.
LEMMA LengthIsReadAgain ==
    ASSUME NEW bytes \in Seq(Byte), NEW type \in LongTypes, NEW from \in Nat,
           NEW n \in Nat \cup {Null}, Fits(type, n), Agrees(bytes, EncodeLength(type, n), from)
    PROVE  DecodeLength(bytes, type, from) =
              IF from + Len(EncodeLength(type, n)) > Len(bytes) THEN Throws
              ELSE Got(n, from + Len(EncodeLength(type, n)))
<1> DEFINE len == Len(EncodeLength(type, n))
<1>1. \A type1 : AsLength(type1, Throws) = Throws
  BY DEF AsLength, Throws
<1>2. CASE type \in CompactTypes
  <2> DEFINE k == IF n = Null THEN 0 ELSE n + 1
  <2>1. k \in Nat
    OBVIOUS
  <2>2. EncodeLength(type, n) = Varint[k]
    BY <1>2, LengthBytes
  <2> HIDE DEF k
  <2>3. DecodeVarint(bytes, from) = IF from + len > Len(bytes) THEN Throws ELSE Got(k, from + len)
    <3>1. Agrees(bytes, Varint[k], from)
      BY <2>2
    <3> QED BY <2>1, <2>2, <3>1, VarintIsReadAgain
  <2>4. DecodeLength(bytes, type, from) = AsLength(type, DecodeVarint(bytes, from))
    BY <1>2 DEF DecodeLength
  <2> HIDE DEF len
  <2>5. AsLength(type, Got(k, from + len)) = Got(n, from + len)
    <3>1. k = 0 <=> n = Null
      BY NullIsNoNumber DEF k
    <3>2. n # Null => k - 1 = n
      BY DEF k
    <3> QED BY <1>2, <3>1, <3>2, GotFields DEF AsLength
  <2> QED BY <1>1, <2>3, <2>4, <2>5 DEF len
<1>3. CASE type \notin CompactTypes
  <2> DEFINE k == IF n = Null THEN -1 ELSE n
  <2>1. k \in Int /\ (k < 0 <=> n = Null)
    BY NullIsNoNumber
  <2>2. type \in FixedTypes /\ EncodeLength(type, n) = EncodeNumber(Width(type), k) /\ len = Width(type)
    BY <1>3, LengthBytes
  <2>3. InRange(type, k)
    <3>1. CASE n = Null
      <4>1. Width(type) - 1 \in Nat
        <5>1. Width(type) \in 1 .. 8
          BY <2>2, WidthType
        <5> QED BY <5>1
      <4>2. type \in SignedTypes
        BY <1>3 DEF LongTypes, TextTypes, ArrayTypes, CompactTypes, SignedTypes
      <4>3. Shifted(k, Width(type) - 1) = k /\ k = -1
        BY <2>1, <3>1, <4>1, ShiftedOfMinusOne
      <4>4. k \in -128 .. 127
        BY <4>3
      <4> HIDE DEF k
      <4> QED BY <4>2, <4>3, <4>4 DEF InRange
    <3>2. CASE n # Null
      BY <1>3, <3>2 DEF Fits
    <3> QED BY <3>1, <3>2
  <2> HIDE DEF k
  <2>4. DecodeNumber(bytes, type, from) = IF from + len > Len(bytes) THEN Throws ELSE Got(k, from + len)
    <3>1. Agrees(bytes, EncodeNumber(Width(type), k), from)
      BY <2>2
    <3> HIDE DEF len
    <3> QED BY <2>1, <2>2, <2>3, <3>1, NumberIsReadAgain
  <2>5. DecodeLength(bytes, type, from) = AsLength(type, DecodeNumber(bytes, type, from))
    BY <1>3 DEF DecodeLength
  <2> HIDE DEF len
  <2>6. AsLength(type, Got(k, from + len)) = Got(n, from + len)
    <3>1. n # Null => k = n
      BY DEF k
    <3> QED BY <1>3, <2>1, <3>1, GotFields DEF AsLength
  <2> QED BY <1>1, <2>4, <2>5, <2>6 DEF len
<1> QED BY <1>2, <1>3

-----------------------------------------------------------------------------
\* Whatever the bytes are, decoding throws or gives a value of the right kind.
LEMMA DecodersType ==
    ASSUME NEW bytes \in Seq(Byte), NEW from \in Nat
    PROVE  /\ \A type \in FixedTypes : DecodeNumber(bytes, type, from) \in Results(Int)
           /\ DecodeVarint(bytes, from) \in Results(Nat)
           /\ \A type \in LongTypes : DecodeLength(bytes, type, from) \in Results(Nat \cup {Null})
           /\ \A type \in LongTypes :
                 DecodeText(bytes, type, from) \in Results(Seq(Byte) \cup {Null})
<1>1. ASSUME NEW type \in FixedTypes
      PROVE  DecodeNumber(bytes, type, from) \in Results(Int)
  <2>1. CASE from + Width(type) > Len(bytes)
    <3>1. DecodeNumber(bytes, type, from) = Throws
      BY <2>1 DEF DecodeNumber
    <3> QED BY <3>1, ResultsType
  <2>2. CASE ~(from + Width(type) > Len(bytes))
    <3>1. Width(type) \in 1 .. 8
      BY WidthType
    <3>2. from + Width(type) <= Len(bytes)
      BY <2>2, <3>1
    <3>3. PICK upTo : /\ upTo[Width(type)] \in Int
                      /\ DecodeNumber(bytes, type, from) = Got(upTo[Width(type)], from + Width(type))
      BY <3>2, DecodeNumberStep DEF DecodedInSteps
    <3>4. from + Width(type) \in Nat
      BY <3>1
    <3> DEFINE V == Int
               v == upTo[Width(type)]
               x == from + Width(type)
    <3>5. v \in V /\ x \in Nat
      BY <3>3, <3>4
    <3>6. Got(v, x) \in Results(V)
      <4> HIDE DEF v, x, V
      <4> QED BY <3>5, ResultsType
    <3> QED BY <3>3, <3>6
  <2> QED BY <2>1, <2>2
<1>2. DecodeVarint(bytes, from) \in Results(Nat)
  <2> DEFINE left == IF from < Len(bytes) THEN Len(bytes) - from ELSE 0
  <2>1. left \in 0 .. Len(bytes)
    OBVIOUS
  <2> HIDE DEF left
  <2>2. VarintOf(bytes, left) \in Results(Nat)
    BY <2>1, VarintOfStep
  <2> QED BY <2>2 DEF DecodeVarint, left
<1>3. ASSUME NEW type \in LongTypes
      PROVE  DecodeLength(bytes, type, from) \in Results(Nat \cup {Null})
  <2> DEFINE n == IF type \in CompactTypes THEN DecodeVarint(bytes, from)
                  ELSE DecodeNumber(bytes, type, from)
             null == IF type \in CompactTypes THEN n.value = 0 ELSE n.value < 0
             v == IF null THEN Null ELSE IF type \in CompactTypes THEN n.value - 1 ELSE n.value
             V == Nat \cup {Null}
  <2>1. DecodeLength(bytes, type, from) = IF n.threw THEN n ELSE Got(v, n.next)
    BY DEF DecodeLength, AsLength
  <2>2. type \notin CompactTypes => n \in Results(Int)
    BY <1>1 DEF FixedTypes, LongTypes, Types
  <2>3. type \in CompactTypes => n \in Results(Nat)
    BY <1>2
  <2> HIDE DEF n
  <2>4. /\ n.threw => n = Throws
        /\ ~n.threw => n.next \in Nat /\ n.value \in IF type \in CompactTypes THEN Nat ELSE Int
    BY <2>2, <2>3, ResultsType
  <2>5. CASE n.threw
    BY <2>1, <2>4, <2>5, ResultsType
  <2>6. CASE ~n.threw
    <3>1. v \in V
      BY <2>4, <2>6
    <3>2. Got(v, n.next) \in Results(V)
      <4> HIDE DEF v, V
      <4> QED BY <2>4, <2>6, <3>1, ResultsType
    <3> QED BY <2>1, <2>6, <3>2
  <2> QED BY <2>5, <2>6
<1>4. ASSUME NEW type \in LongTypes
      PROVE  DecodeText(bytes, type, from) \in Results(Seq(Byte) \cup {Null})
  <2> DEFINE n == DecodeLength(bytes, type, from)
             upTo == IF n.next + n.value <= Len(bytes) THEN n.next + n.value ELSE Len(bytes)
             v == SubSeq(bytes, n.next + 1, upTo)
             V == Seq(Byte) \cup {Null}
  <2>1. n \in Results(Nat \cup {Null})
    BY <1>3
  <2>2. DecodeText(bytes, type, from) =
           IF n.threw \/ n.value = Null THEN n ELSE Got(v, n.next + n.value)
    BY DEF DecodeText, Text
  <2> HIDE DEF n
  <2>3. /\ n.threw => n = Throws
        /\ ~n.threw => n.next \in Nat /\ n.value \in Nat \cup {Null} /\ n = Got(n.value, n.next)
    BY <2>1, ResultsType
  <2>4. CASE n.threw
    BY <2>2, <2>3, <2>4, ResultsType
  <2>5. CASE ~n.threw /\ n.value = Null
    <3>1. Null \in V
      OBVIOUS
    <3> HIDE DEF V
    <3>2. Got(Null, n.next) \in Results(V)
      BY <2>3, <2>5, <3>1, ResultsType
    <3> QED BY <2>2, <2>3, <2>5, <3>2 DEF V
  <2>6. CASE ~n.threw /\ n.value # Null
    <3>1. n.next \in Nat /\ n.value \in Nat /\ n.next + n.value \in Nat
      BY <2>3, <2>6
    <3>2. upTo <= Len(bytes) /\ upTo \in Int /\ n.next + 1 >= 1 /\ n.next + 1 \in Int
      BY <3>1
    <3>3. v \in V
      <4> HIDE DEF upTo
      <4>1. \A i \in (n.next + 1) .. upTo : bytes[i] \in Byte
        <5> TAKE i \in (n.next + 1) .. upTo
        <5>1. i \in 1 .. Len(bytes)
          BY <3>1, <3>2
        <5> QED BY <5>1
      <4>2. v \in Seq(Byte)
        BY <3>2, <4>1, SubSeqProperties
      <4> QED BY <4>2
    <3>4. Got(v, n.next + n.value) \in Results(V)
      <4> HIDE DEF v, V
      <4> QED BY <3>1, <3>3, ResultsType
    <3> QED BY <2>2, <2>6, <3>4
  <2> QED BY <2>4, <2>5, <2>6
<1> QED BY <1>1, <1>2, <1>3, <1>4

-----------------------------------------------------------------------------
\* Reading gives the value and ends behind its bytes when they are all there;
\* otherwise it throws or ends beyond the buffer, where the bytes would end.
ReadsAgain(result, value, next, len) ==
    IF next <= len THEN result = Got(value, next) ELSE result.threw \/ result.next = next

\* What a decoder gives for a text of this length.
TextValue(n) == IF n = Null THEN Null ELSE Content(n)

\* The encoding of a text: its length, then its bytes.
LEMMA TextBytes ==
    ASSUME NEW type \in LongTypes, NEW n \in Nat \cup {Null}
    PROVE  /\ EncodeText(type, n) \in Seq(Byte)
           /\ Len(EncodeText(type, n)) = Len(EncodeLength(type, n)) + (IF n = Null THEN 0 ELSE n)
           /\ Len(EncodeText(type, n)) >= 1
           /\ n # Null => Content(n) \in Seq(Byte) /\ Len(Content(n)) = n
<1> DEFINE text == IF n = Null THEN <<>> ELSE Content(n)
           length == EncodeLength(type, n)
<1>1. n # Null => Content(n) \in Seq(Byte) /\ Len(Content(n)) = n
  <2> SUFFICES ASSUME n # Null PROVE Content(n) \in Seq(Byte) /\ Len(Content(n)) = n
    OBVIOUS
  <2>1. n \in Nat
    OBVIOUS
  <2>2. \A i \in 1 .. n : i % 128 \in Byte
    BY <2>1 DEF Byte
  <2>3. Content(n) \in [1 .. n -> Byte]
    BY <2>2 DEF Content
  <2> QED BY <2>1, <2>3
<1>2. text \in Seq(Byte) /\ Len(text) = IF n = Null THEN 0 ELSE n
  BY <1>1
<1>3. length \in Seq(Byte) /\ Len(length) >= 1
  BY LengthBytes
<1>4. EncodeText(type, n) = length \o text
  BY DEF EncodeText
<1> HIDE DEF text, length
<1>5. length \o text \in Seq(Byte) /\ Len(length \o text) = Len(length) + Len(text)
  BY <1>2, <1>3
<1>6. Len(length) \in Nat /\ (n # Null => n \in Nat)
  BY <1>3
<1>7. Len(EncodeText(type, n)) = Len(length) + (IF n = Null THEN 0 ELSE n)
  BY <1>2, <1>4, <1>5
<1>8. Len(EncodeText(type, n)) >= 1
  BY <1>3, <1>6, <1>7
<1> QED BY <1>1, <1>4, <1>5, <1>7, <1>8 DEF length

\* A text is read again as it was written, unless it was cut off.
LEMMA TextIsReadAgain ==
    ASSUME NEW bytes \in Seq(Byte), NEW type \in LongTypes, NEW from \in Nat,
           NEW n \in Nat \cup {Null}, Fits(type, n), Agrees(bytes, EncodeText(type, n), from)
    PROVE  ReadsAgain(DecodeText(bytes, type, from), TextValue(n),
                      from + Len(EncodeText(type, n)), Len(bytes))
<1> DEFINE len == Len(bytes)
           length == EncodeLength(type, n)
           text == IF n = Null THEN <<>> ELSE Content(n)
           next == from + Len(EncodeText(type, n))
           begin == from + Len(length)
           Result == DecodeText(bytes, type, from)
           Tail1(upTo) == SubSeq(bytes, begin + 1, upTo)
<1>1. /\ length \in Seq(Byte) /\ text \in Seq(Byte) /\ len \in Nat
      /\ EncodeText(type, n) = length \o text
  <2>1. length \in Seq(Byte) /\ len \in Nat
    BY LengthBytes
  <2>2. text \in Seq(Byte)
    BY TextBytes
  <2>3. EncodeText(type, n) = length \o text
    BY DEF EncodeText
  <2> QED BY <2>1, <2>2, <2>3
<1>2. Agrees(bytes, length, from) /\ Agrees(bytes, text, begin)
  <2> HIDE DEF length, text
  <2> QED BY <1>1, AgreesWithParts
<1>3. DecodeLength(bytes, type, from) = IF begin > len THEN Throws ELSE Got(n, begin)
  BY <1>2, LengthIsReadAgain
<1>4. Result = Text(bytes, IF begin > len THEN Throws ELSE Got(n, begin))
  BY <1>3 DEF DecodeText
<1>5. next = begin + (IF n = Null THEN 0 ELSE n) /\ begin \in Nat
  <2>1. Len(EncodeText(type, n)) = Len(length) + (IF n = Null THEN 0 ELSE n)
    BY TextBytes
  <2>2. Len(length) \in Nat
    BY <1>1
  <2> HIDE DEF length
  <2>3. \A x \in Nat : from + (Len(length) + x) = from + Len(length) + x
    BY <2>2
  <2>4. (IF n = Null THEN 0 ELSE n) \in Nat
    OBVIOUS
  <2> QED BY <2>1, <2>2, <2>3, <2>4
<1> HIDE DEF next, begin, length
<1>6. CASE begin > len
  <2>1. Result = Throws
    BY <1>4, <1>6 DEF Text, Throws
  <2>2. ~(next <= len)
    BY <1>1, <1>5, <1>6
  <2> QED BY <2>1, <2>2, ResultsType DEF ReadsAgain, next
<1>7. CASE ~(begin > len) /\ n = Null
  <2>1. Result = Got(Null, begin)
    BY <1>4, <1>7, GotFields DEF Text
  <2>2. next = begin /\ next <= len
    BY <1>1, <1>5, <1>7
  <2> QED BY <1>7, <2>1, <2>2 DEF ReadsAgain, TextValue, next
<1>8. CASE ~(begin > len) /\ n # Null
  <2> DEFINE upTo == IF next <= len THEN next ELSE len
  <2>1. next = begin + n /\ n \in Nat
    BY <1>5, <1>8
  <2>2. Result = Got(Tail1(upTo), next)
    BY <1>4, <1>8, <2>1, GotFields DEF Text
  <2>3. CASE ~(next <= len)
    BY <2>2, <2>3, GotFields DEF ReadsAgain, next
  <2>4. CASE next <= len
    <3>1. Content(n) \in Seq(Byte) /\ Len(Content(n)) = n
      BY <2>1, <1>8, TextBytes
    <3>2. \A i \in 1 .. n : bytes[begin + i] = Content(n)[i]
      <4> TAKE i \in 1 .. n
      <4>1. begin + i <= len
        BY <1>1, <1>5, <2>1, <2>4
      <4> QED BY <1>2, <1>8, <3>1, <4>1 DEF Agrees
    <3>3. \A i \in (begin + 1) .. next : bytes[i] \in Byte
      <4> TAKE i \in (begin + 1) .. next
      <4>1. i \in 1 .. Len(bytes)
        BY <1>1, <1>5, <2>1, <2>4
      <4> QED BY <4>1
    <3>4. /\ Tail1(next) \in Seq(Byte)
          /\ Len(Tail1(next)) = n
          /\ \A i \in 1 .. n : Tail1(next)[i] = bytes[begin + i]
      <4>1. begin + 1 \in Int /\ next \in Int
        BY <1>5, <2>1
      <4>2. /\ Tail1(next) \in Seq(Byte)
            /\ Len(Tail1(next)) = IF begin + 1 <= next THEN next - (begin + 1) + 1 ELSE 0
            /\ \A i \in 1 .. (next - (begin + 1) + 1) : Tail1(next)[i] = bytes[begin + 1 + i - 1]
        <5> DEFINE b1 == begin + 1
        <5>1. b1 \in Int /\ \A i \in b1 .. next : bytes[i] \in Byte
          BY <3>3, <4>1
        <5> HIDE DEF b1
        <5>2. /\ SubSeq(bytes, b1, next) \in Seq(Byte)
              /\ Len(SubSeq(bytes, b1, next)) = IF b1 <= next THEN next - b1 + 1 ELSE 0
              /\ \A i \in 1 .. (next - b1 + 1) : SubSeq(bytes, b1, next)[i] = bytes[b1 + i - 1]
          BY <4>1, <5>1, SubSeqProperties
        <5> QED BY <5>2 DEF b1
      <4>3. next - (begin + 1) + 1 = n /\ (n = 0 <=> ~(begin + 1 <= next))
        BY <1>5, <2>1
      <4>4. \A i \in 1 .. n : begin + 1 + i - 1 = begin + i
        BY <1>5, <2>1
      <4> HIDE DEF Tail1
      <4> QED BY <4>2, <4>3, <4>4
    <3>5. Tail1(next) = Content(n)
      <4> HIDE DEF Tail1
      <4> QED BY <3>1, <3>2, <3>4, <2>1, SeqEqual
    <3>6. Result = Got(Content(n), next)
      BY <2>2, <2>4, <3>5
    <3> QED BY <1>8, <2>4, <3>6 DEF ReadsAgain, TextValue, next
  <2> QED BY <2>3, <2>4
<1> QED BY <1>6, <1>7, <1>8

-----------------------------------------------------------------------------
\* Joining goes from the first sequence to the last.
LEMMA FlattenStep ==
    ASSUME NEW A, NEW ss \in Seq(Seq(A)), Len(ss) >= 1
    PROVE  \E f : /\ f[1] = ss[1]
                  /\ \A i \in 2 .. Len(ss) : f[i] = f[i - 1] \o ss[i]
                  /\ \A i \in 1 .. Len(ss) : f[i] \in Seq(A)
                  /\ FlattenSeq(ss) = f[Len(ss)]
<1> DEFINE len == Len(ss)
           S == Seq(A)
           empty == <<>>
           F == [p \in Nat \X S |-> IF p[1] = 1 THEN ss[1]
                                    ELSE IF p[1] \in 1 .. len THEN p[2] \o ss[p[1]] ELSE empty]
           flatten == CHOOSE f : f = [i \in 1 .. len |-> IF i = 1 THEN ss[i] ELSE f[i - 1] \o ss[i]]
<1>1. len \in Nat /\ len >= 1 /\ \A i \in 1 .. len : ss[i] \in S
  OBVIOUS
<1>2. FlattenSeq(ss) = flatten[len]
  BY <1>1 DEF FlattenSeq
<1>3. empty \in S
  OBVIOUS
<1> HIDE DEF len, flatten
<1>4. F \in [Nat \X S -> S]
  <2> HIDE DEF empty
  <2>1. 1 \in 1 .. len
    BY <1>1
  <2>2. \A s \in S, i \in 1 .. len : s \o ss[i] \in S
    BY <1>1
  <2> HIDE DEF S
  <2> QED BY <1>1, <1>3, <2>1, <2>2
<1>5. PICK g \in [Nat -> S] : StepsDown(g, empty, F)
  <2> HIDE DEF F, S, empty
  <2> QED BY <1>3, <1>4, StepwiseRecursion
<1> DEFINE h == [i \in 1 .. len |-> g[i]]
<1> HIDE DEF S, empty
<1>6. \A i \in 1 .. len : h[i] = IF i = 1 THEN ss[i] ELSE h[i - 1] \o ss[i]
  <2> TAKE i \in 1 .. len
  <2>1. i \in Nat /\ i # 0 /\ i - 1 \in Nat
    BY <1>1
  <2>2. g[i] = F[<<i, g[i - 1]>>] /\ g[i - 1] \in S
    BY <1>5, <2>1 DEF StepsDown
  <2>3. F[<<i, g[i - 1]>>] = IF i = 1 THEN ss[1] ELSE g[i - 1] \o ss[i]
    BY <2>1, <2>2
  <2> HIDE DEF F
  <2>4. i # 1 => i - 1 \in 1 .. len
    BY <1>1
  <2> QED BY <2>2, <2>3, <2>4
<1>7. h = [i \in 1 .. len |-> IF i = 1 THEN ss[i] ELSE h[i - 1] \o ss[i]]
  <2>1. h = [i \in 1 .. len |-> h[i]]
    OBVIOUS
  <2> HIDE DEF h
  <2> QED BY <1>6, <2>1
<1>8. flatten = [i \in 1 .. len |-> IF i = 1 THEN ss[i] ELSE flatten[i - 1] \o ss[i]]
  <2> HIDE DEF h
  <2> QED BY <1>7 DEF flatten
<1>9. flatten[1] = ss[1] /\ \A i \in 2 .. len : flatten[i] = flatten[i - 1] \o ss[i]
  <2>1. 1 \in 1 .. len /\ \A i \in 2 .. len : i \in 1 .. len /\ i # 1
    BY <1>1
  <2> QED BY <1>8, <2>1
<1> DEFINE T == {i \in Nat : i \in 1 .. len => flatten[i] \in S}
<1>10. 0 \in T
  OBVIOUS
<1>11. ASSUME NEW i \in Nat, i \in T
       PROVE  i + 1 \in T
  <2> SUFFICES ASSUME i + 1 \in 1 .. len PROVE flatten[i + 1] \in S
    OBVIOUS
  <2>1. CASE i = 0
    BY <1>1, <1>9, <2>1
  <2>2. CASE i # 0
    <3>1. i + 1 \in 2 .. len /\ i \in 1 .. len /\ (i + 1) - 1 = i
      BY <1>1, <2>2
    <3>2. flatten[i + 1] = flatten[i] \o ss[i + 1] /\ flatten[i] \in S /\ ss[i + 1] \in S
      BY <1>1, <1>9, <1>11, <3>1
    <3> QED BY <3>2 DEF S
  <2> QED BY <2>1, <2>2
<1> HIDE DEF T
<1>12. \A i \in Nat : i \in T
  BY <1>10, <1>11, Induction
<1>13. \A i \in 1 .. len : flatten[i] \in S
  BY <1>1, <1>12 DEF T
<1> QED BY <1>2, <1>9, <1>13 DEF len, S

\* One more sequence comes behind those that were joined.
LEMMA FlattenAppend ==
    ASSUME NEW A, NEW ss \in Seq(Seq(A))
    PROVE  /\ FlattenSeq(ss) \in Seq(A)
           /\ Len(ss) = 0 => FlattenSeq(ss) = <<>>
           /\ \A s \in Seq(A) : FlattenSeq(Append(ss, s)) = FlattenSeq(ss) \o s
<1> DEFINE len == Len(ss)
<1>1. len \in Nat
  OBVIOUS
<1>2. CASE len = 0
  <2>1. ss = <<>>
    BY <1>2
  <2>2. FlattenSeq(ss) = <<>>
    BY <1>2, <2>1 DEF FlattenSeq
  <2>3. ASSUME NEW s \in Seq(A)
        PROVE  FlattenSeq(Append(ss, s)) = FlattenSeq(ss) \o s
    <3> DEFINE tt == Append(ss, s)
    <3>1. tt \in Seq(Seq(A)) /\ Len(tt) = 1 /\ tt[1] = s
      BY <2>1
    <3> HIDE DEF tt
    <3>2. FlattenSeq(tt) = s
      <4>1. Len(tt) >= 1
        BY <3>1
      <4>2. PICK f : f[1] = tt[1] /\ FlattenSeq(tt) = f[Len(tt)]
        BY <3>1, <4>1, FlattenStep
      <4> QED BY <3>1, <4>2
    <3> QED BY <2>2, <3>2 DEF tt
  <2> QED BY <2>2, <2>3
<1>3. CASE len # 0
  <2>1. len >= 1
    BY <1>1, <1>3
  <2>2. PICK f : /\ f[1] = ss[1]
                 /\ \A i \in 2 .. len : f[i] = f[i - 1] \o ss[i]
                 /\ \A i \in 1 .. len : f[i] \in Seq(A)
                 /\ FlattenSeq(ss) = f[len]
    BY <2>1, FlattenStep
  <2>3. FlattenSeq(ss) \in Seq(A)
    BY <1>1, <2>1, <2>2
  <2>4. ASSUME NEW s \in Seq(A)
        PROVE  FlattenSeq(Append(ss, s)) = FlattenSeq(ss) \o s
    <3> DEFINE tt == Append(ss, s)
    <3>1. tt \in Seq(Seq(A)) /\ Len(tt) = len + 1 /\ tt[len + 1] = s /\ \A i \in 1 .. len : tt[i] = ss[i]
      OBVIOUS
    <3> HIDE DEF tt, len
    <3>2. PICK g : /\ g[1] = tt[1]
                   /\ \A i \in 2 .. len + 1 : g[i] = g[i - 1] \o tt[i]
                   /\ FlattenSeq(tt) = g[len + 1]
      <4>1. Len(tt) >= 1
        BY <1>1, <3>1
      <4>2. PICK g : /\ g[1] = tt[1]
                     /\ \A i \in 2 .. Len(tt) : g[i] = g[i - 1] \o tt[i]
                     /\ FlattenSeq(tt) = g[Len(tt)]
        BY <3>1, <4>1, FlattenStep
      <4> QED BY <3>1, <4>2
    <3> DEFINE T == {i \in Nat : i \in 1 .. len => g[i] = f[i]}
    <3>3. 0 \in T
      OBVIOUS
    <3>4. ASSUME NEW i \in Nat, i \in T
          PROVE  i + 1 \in T
      <4> SUFFICES ASSUME i + 1 \in 1 .. len PROVE g[i + 1] = f[i + 1]
        OBVIOUS
      <4>1. CASE i = 0
        BY <2>2, <3>1, <3>2, <4>1
      <4>2. CASE i # 0
        <5>1. i + 1 \in 2 .. len /\ i + 1 \in 2 .. len + 1 /\ i \in 1 .. len /\ (i + 1) - 1 = i
          BY <1>1, <4>2
        <5>2. g[i] = f[i]
          BY <3>4, <5>1
        <5> HIDE DEF T
        <5>3. g[i + 1] = g[i] \o tt[i + 1]
          BY <3>2, <5>1
        <5>4. f[i + 1] = f[i] \o ss[i + 1]
          BY <2>2, <5>1
        <5>5. tt[i + 1] = ss[i + 1]
          BY <3>1, <5>1
        <5> QED BY <5>2, <5>3, <5>4, <5>5
      <4> QED BY <4>1, <4>2
    <3> HIDE DEF T
    <3>5. \A i \in Nat : i \in T
      BY <3>3, <3>4, Induction
    <3>6. g[len] = f[len]
      BY <1>1, <2>1, <3>5 DEF T
    <3>7. g[len + 1] = g[len] \o s
      <4>1. len + 1 \in 2 .. len + 1 /\ (len + 1) - 1 = len
        BY <1>1, <2>1
      <4> QED BY <3>1, <3>2, <4>1
    <3> QED BY <2>2, <3>2, <3>6, <3>7 DEF tt
  <2> QED BY <1>3, <2>3, <2>4
<1> QED BY <1>2, <1>3

\* Where the sequence behind the first k of them begins.
Start(ss, k) == Len(FlattenSeq(SubSeq(ss, 1, k)))

\* One more of them is joined.
LEMMA JoinStep ==
    ASSUME NEW A, NEW ss \in Seq(Seq(A))
    PROVE  /\ \A k \in 0 .. Len(ss) : FlattenSeq(SubSeq(ss, 1, k)) \in Seq(A)
           /\ FlattenSeq(SubSeq(ss, 1, 0)) = <<>>
           /\ SubSeq(ss, 1, Len(ss)) = ss
           /\ \A k \in 1 .. Len(ss) :
                 FlattenSeq(SubSeq(ss, 1, k)) = FlattenSeq(SubSeq(ss, 1, k - 1)) \o ss[k]
<1>1. ASSUME NEW k \in 0 .. Len(ss)
      PROVE  /\ SubSeq(ss, 1, k) \in Seq(Seq(A)) /\ Len(SubSeq(ss, 1, k)) = k
             /\ \A i \in 1 .. k : SubSeq(ss, 1, k)[i] = ss[i]
  OBVIOUS
<1>2. ASSUME NEW k \in 1 .. Len(ss)
      PROVE  FlattenSeq(SubSeq(ss, 1, k)) = FlattenSeq(SubSeq(ss, 1, k - 1)) \o ss[k]
  <2> DEFINE tt == SubSeq(ss, 1, k - 1)
             uu == SubSeq(ss, 1, k)
  <2>1. k - 1 \in 0 .. Len(ss) /\ k \in 0 .. Len(ss) /\ k \in Nat
    OBVIOUS
  <2>2. /\ tt \in Seq(Seq(A)) /\ Len(tt) = k - 1 /\ \A i \in 1 .. k - 1 : tt[i] = ss[i]
        /\ uu \in Seq(Seq(A)) /\ Len(uu) = k /\ \A i \in 1 .. k : uu[i] = ss[i]
    BY <1>1, <2>1
  <2>3. ss[k] \in Seq(A)
    OBVIOUS
  <2> HIDE DEF tt, uu
  <2>4. /\ Append(tt, ss[k]) \in Seq(Seq(A)) /\ Len(Append(tt, ss[k])) = k
        /\ \A i \in 1 .. k : Append(tt, ss[k])[i] = uu[i]
    <3> DEFINE c == ss[k]
               B == Seq(A)
    <3> HIDE DEF c, B
    <3>1. tt \in Seq(B) /\ c \in B /\ c = uu[k]
      BY <2>1, <2>2, <2>3 DEF B, c
    <3>2. Append(tt, c) \in Seq(B) /\ Len(Append(tt, c)) = (k - 1) + 1
      BY <2>2, <3>1
    <3>3. \A i \in 1 .. k : Append(tt, c)[i] = IF i = k THEN c ELSE tt[i]
      <4> TAKE i \in 1 .. k
      <4>1. i \in 1 .. Len(tt) + 1 /\ (i = k <=> i = Len(tt) + 1)
        BY <2>1, <2>2
      <4> QED BY <2>1, <2>2, <3>1, <4>1
    <3>4. \A i \in 1 .. k : i # k => i \in 1 .. k - 1
      BY <2>1
    <3>5. (k - 1) + 1 = k
      BY <2>1
    <3>6. \A i \in 1 .. k : Append(tt, c)[i] = uu[i]
      BY <2>2, <3>1, <3>3, <3>4
    <3> QED BY <3>2, <3>5, <3>6 DEF B, c
  <2>5. uu = Append(tt, ss[k])
    BY <2>2, <2>4, SeqEqual
  <2> QED BY <2>2, <2>3, <2>5, FlattenAppend DEF tt, uu
<1>3. SubSeq(ss, 1, Len(ss)) = ss
  OBVIOUS
<1>4. \A k \in 0 .. Len(ss) : FlattenSeq(SubSeq(ss, 1, k)) \in Seq(A)
  BY <1>1, FlattenAppend
<1>5. FlattenSeq(SubSeq(ss, 1, 0)) = <<>>
  <2>1. 0 \in 0 .. Len(ss)
    OBVIOUS
  <2> QED BY <1>1, <2>1, FlattenAppend
<1> QED BY <1>2, <1>3, <1>4, <1>5

\* Sequences of encodings.
Chunks == Seq(Seq(Byte))

\* Every chunk is in the joined bytes, at its start.
LEMMA Positions ==
    ASSUME NEW ss \in Chunks
    PROVE  /\ Start(ss, 0) = 0
           /\ Start(ss, Len(ss)) = Len(FlattenSeq(ss))
           /\ \A k \in 0 .. Len(ss) : Start(ss, k) \in Nat /\ Start(ss, k) <= Len(FlattenSeq(ss))
           /\ \A k \in 1 .. Len(ss) : /\ Start(ss, k) = Start(ss, k - 1) + Len(ss[k])
                                      /\ Agrees(FlattenSeq(ss), ss[k], Start(ss, k - 1))
<1> DEFINE len == Len(ss)
           Joined(k) == FlattenSeq(SubSeq(ss, 1, k))
<1>1. len \in Nat /\ \A k \in 1 .. len : ss[k] \in Seq(Byte) /\ Len(ss[k]) \in Nat
  BY DEF Chunks
<1>2. \A k \in 0 .. len : Joined(k) \in Seq(Byte) /\ Start(ss, k) = Len(Joined(k)) /\ Start(ss, k) \in Nat
  <2>1. \A k \in 0 .. len : Joined(k) \in Seq(Byte)
    BY JoinStep DEF Chunks
  <2> QED BY <2>1 DEF Start
<1>3. \A k \in 1 .. len : Joined(k) = Joined(k - 1) \o ss[k]
  BY JoinStep DEF Chunks
<1>4. Joined(0) = <<>> /\ Joined(len) = FlattenSeq(ss)
  BY JoinStep DEF Chunks
<1> HIDE DEF Joined, len
<1>5. ASSUME NEW k \in 1 .. len
      PROVE  Start(ss, k) = Start(ss, k - 1) + Len(ss[k])
  <2>1. k - 1 \in 0 .. len /\ k \in 0 .. len
    BY <1>1
  <2>2. Joined(k - 1) \in Seq(Byte) /\ ss[k] \in Seq(Byte)
    BY <1>1, <1>2, <2>1
  <2>3. Len(Joined(k - 1) \o ss[k]) = Len(Joined(k - 1)) + Len(ss[k])
    BY <2>2
  <2> QED BY <1>2, <1>3, <2>1, <2>3
<1>6. ASSUME NEW k \in 0 .. len
      PROVE  /\ Start(ss, k) <= Start(ss, len)
             /\ \A i \in 1 .. Start(ss, k) : Joined(len)[i] = Joined(k)[i]
  <2> DEFINE T == {j \in Nat : k <= j /\ j <= len =>
                       /\ Start(ss, k) <= Start(ss, j)
                       /\ \A i \in 1 .. Start(ss, k) : Joined(j)[i] = Joined(k)[i]}
  <2>1. 0 \in T
    <3> SUFFICES ASSUME k <= 0 PROVE /\ Start(ss, k) <= Start(ss, 0)
                                     /\ \A i \in 1 .. Start(ss, k) : Joined(0)[i] = Joined(k)[i]
      OBVIOUS
    <3>1. k = 0
      BY <1>1
    <3> QED BY <1>2, <3>1
  <2>2. ASSUME NEW j \in Nat, j \in T
        PROVE  j + 1 \in T
    <3> SUFFICES ASSUME k <= j + 1, j + 1 <= len
                 PROVE  /\ Start(ss, k) <= Start(ss, j + 1)
                        /\ \A i \in 1 .. Start(ss, k) : Joined(j + 1)[i] = Joined(k)[i]
      OBVIOUS
    <3>1. CASE k = j + 1
      <4>1. Start(ss, k) \in Nat
        BY <1>2
      <4> QED BY <3>1, <4>1
    <3>2. CASE k # j + 1
      <4>1. k <= j /\ j <= len /\ j \in 0 .. len /\ j + 1 \in 0 .. len /\ j + 1 \in 1 .. len /\ (j + 1) - 1 = j
        BY <1>1, <3>2
      <4>2. /\ Start(ss, k) <= Start(ss, j)
            /\ \A i \in 1 .. Start(ss, k) : Joined(j)[i] = Joined(k)[i]
        BY <2>2, <4>1
      <4>3. /\ Joined(j) \in Seq(Byte) /\ Len(Joined(j)) = Start(ss, j) /\ ss[j + 1] \in Seq(Byte)
            /\ Start(ss, k) \in Nat /\ Start(ss, j) \in Nat /\ Len(ss[j + 1]) \in Nat
        BY <1>1, <1>2, <4>1
      <4>4. Joined(j + 1) = Joined(j) \o ss[j + 1] /\ Start(ss, j + 1) = Start(ss, j) + Len(ss[j + 1])
        BY <1>3, <1>5, <4>1
      <4>5. \A i \in 1 .. Start(ss, k) : Joined(j + 1)[i] = Joined(j)[i]
        <5> TAKE i \in 1 .. Start(ss, k)
        <5>1. i \in 1 .. Len(Joined(j))
          BY <4>2, <4>3
        <5>2. (Joined(j) \o ss[j + 1])[i] = Joined(j)[i]
          BY <4>3, <5>1
        <5> QED BY <4>4, <5>2
      <4>6. Start(ss, k) <= Start(ss, j + 1)
        BY <4>2, <4>3, <4>4
      <4> QED BY <4>2, <4>5, <4>6
    <3> QED BY <3>1, <3>2
  <2> HIDE DEF T
  <2>3. \A j \in Nat : j \in T
    BY <2>1, <2>2, Induction
  <2>4. len \in Nat /\ k <= len /\ len <= len
    BY <1>1
  <2> QED BY <2>3, <2>4 DEF T
<1>7. ASSUME NEW k \in 1 .. len
      PROVE  Agrees(FlattenSeq(ss), ss[k], Start(ss, k - 1))
  <2> SUFFICES ASSUME NEW i \in 1 .. Len(ss[k])
               PROVE  Joined(len)[Start(ss, k - 1) + i] = ss[k][i]
    BY <1>4 DEF Agrees
  <2>1. k - 1 \in 0 .. len /\ k \in 0 .. len
    BY <1>1
  <2>2. /\ Joined(k - 1) \in Seq(Byte) /\ ss[k] \in Seq(Byte) /\ Len(Joined(k - 1)) = Start(ss, k - 1)
        /\ Start(ss, k - 1) \in Nat /\ Len(ss[k]) \in Nat
    BY <1>1, <1>2, <2>1
  <2>3. Start(ss, k - 1) + i \in 1 .. Start(ss, k)
    BY <1>5, <2>2
  <2>4. Joined(len)[Start(ss, k - 1) + i] = Joined(k)[Start(ss, k - 1) + i]
    BY <1>6, <2>1, <2>3
  <2>5. (Joined(k - 1) \o ss[k])[Len(Joined(k - 1)) + i] = ss[k][i]
    BY <2>2
  <2> QED BY <1>3, <2>2, <2>4, <2>5
<1>8. Start(ss, len) = Len(FlattenSeq(ss)) /\ Start(ss, 0) = 0
  <2>1. len \in 0 .. len /\ 0 \in 0 .. len
    BY <1>1
  <2> QED BY <1>2, <1>4, <2>1
<1> QED BY <1>2, <1>5, <1>6, <1>7, <1>8 DEF len

-----------------------------------------------------------------------------
\* The elements are read one after the other.
OneByOne(upTo, bytes, type, n, next) ==
    /\ upTo[0] = Got(<<>>, next)
    /\ \A i \in Nat : upTo[i + 1] = NextElement(bytes, type, upTo[i])
    /\ Elements(bytes, type, Got(n, next)) = upTo[n]

\* What the loop over the elements does, one element further.
LEMMA ElementsStep ==
    ASSUME NEW bytes \in Seq(Byte), NEW type \in LongTypes, NEW n \in Nat, NEW next \in Nat
    PROVE  \E upTo : OneByOne(upTo, bytes, type, n, next)
<1> DEFINE V == Seq(Seq(Byte) \cup {Null})
           S == Results(V)
           first == Got(<<>>, next)
           F == [p \in Nat \X S |-> NextElement(bytes, type, p[2])]
           upTo == CHOOSE f : f = [i \in Nat |-> IF i = 0 THEN first
                                                 ELSE NextElement(bytes, type, f[i - 1])]
<1>1. Elements(bytes, type, Got(n, next)) = upTo[n]
  <2>1. n # Null /\ ~Got(n, next).threw /\ Got(n, next).value = n /\ Got(n, next).next = next
    BY NullIsNoNumber, GotFields
  <2> QED BY <2>1 DEF Elements
<1> HIDE DEF upTo
<1>2. first \in S
  <2>1. <<>> \in V
    OBVIOUS
  <2> HIDE DEF V
  <2> QED BY <2>1, ResultsType
<1>3. ASSUME NEW so \in S
      PROVE  NextElement(bytes, type, so) \in S
  <2> DEFINE t == ElementType(type)
             element == DecodeText(bytes, t, so.next)
  <2>1. CASE so.threw
    <3>1. NextElement(bytes, type, so) = Throws
      BY <2>1 DEF NextElement, AppendElement
    <3> HIDE DEF V
    <3> QED BY <3>1, ResultsType
  <2>2. CASE ~so.threw
    <3>1. so.value \in V /\ so.next \in Nat
      <4> HIDE DEF V
      <4> QED BY <2>2, ResultsType
    <3>2. t \in LongTypes
      BY DEF ElementType, LongTypes, TextTypes
    <3> HIDE DEF t
    <3>3. element \in Results(Seq(Byte) \cup {Null})
      BY <3>1, <3>2, DecodersType
    <3>4. NextElement(bytes, type, so) =
             IF element.threw THEN Throws ELSE Got(Append(so.value, element.value), element.next)
      BY <2>2 DEF NextElement, AppendElement, t
    <3> HIDE DEF element
    <3>5. CASE element.threw
      <4> HIDE DEF V
      <4> QED BY <3>4, <3>5, ResultsType
    <3>6. CASE ~element.threw
      <4>1. element.value \in Seq(Byte) \cup {Null} /\ element.next \in Nat
        BY <3>3, <3>6, ResultsType
      <4> DEFINE B == Seq(Byte) \cup {Null}
                 v == Append(so.value, element.value)
      <4>2. so.value \in Seq(B) /\ element.value \in B
        BY <3>1, <4>1
      <4>3. v \in Seq(B)
        <5> HIDE DEF B
        <5> QED BY <4>2
      <4>4. v \in V
        BY <4>3
      <4> HIDE DEF v, V
      <4>5. Got(v, element.next) \in S
        BY <4>1, <4>4, ResultsType
      <4> QED BY <3>4, <3>6, <4>5 DEF v
    <3> QED BY <3>5, <3>6
  <2> QED BY <2>1, <2>2
<1>4. F \in [Nat \X S -> S]
  <2> HIDE DEF S
  <2> QED BY <1>3
<1>5. PICK g \in [Nat -> S] : StepsDown(g, first, F)
  <2> HIDE DEF F, S, first
  <2> QED BY <1>2, <1>4, StepwiseRecursion
<1> HIDE DEF S, first
<1>6. \A i \in Nat : g[i] = IF i = 0 THEN first ELSE NextElement(bytes, type, g[i - 1])
  <2> TAKE i \in Nat
  <2>1. CASE i = 0
    BY <1>5, <2>1 DEF StepsDown
  <2>2. CASE i # 0
    <3>1. i - 1 \in Nat
      BY <2>2
    <3>2. g[i] = F[<<i, g[i - 1]>>] /\ g[i - 1] \in S
      BY <1>5, <2>2, <3>1 DEF StepsDown
    <3> QED BY <2>2, <3>2
  <2> QED BY <2>1, <2>2
<1>7. g = [i \in Nat |-> IF i = 0 THEN first ELSE NextElement(bytes, type, g[i - 1])]
  <2>1. g = [i \in Nat |-> g[i]]
    OBVIOUS
  <2> QED BY <1>6, <2>1
<1>8. upTo = [i \in Nat |-> IF i = 0 THEN first ELSE NextElement(bytes, type, upTo[i - 1])]
  BY <1>7 DEF upTo
<1>9. upTo[0] = first /\ \A i \in Nat : upTo[i + 1] = NextElement(bytes, type, upTo[i])
  <2>1. upTo[0] = first
    BY <1>8
  <2>2. ASSUME NEW i \in Nat
        PROVE  upTo[i + 1] = NextElement(bytes, type, upTo[i])
    <3>1. i + 1 \in Nat /\ i + 1 # 0 /\ (i + 1) - 1 = i
      OBVIOUS
    <3>2. upTo[i + 1] = NextElement(bytes, type, upTo[(i + 1) - 1])
      BY <1>8, <3>1
    <3> QED BY <3>1, <3>2
  <2> QED BY <2>1, <2>2
<1> QED BY <1>1, <1>9 DEF first, OneByOne

\* The encoded elements of an array, and what a decoder gives for it.
ElementTexts(type, n) == [i \in 1 .. n |-> EncodeText(ElementType(type), ElementLength(i))]
ArrayValue(n) == IF n = Null THEN Null ELSE [i \in 1 .. n |-> Content(ElementLength(i))]

\* An element is a text that can be encoded.
LEMMA ElementProperties ==
    ASSUME NEW type \in LongTypes, NEW n \in Nat
    PROVE  /\ ElementType(type) \in LongTypes
           /\ \A i \in 1 .. n : /\ ElementLength(i) \in Nat /\ ElementLength(i) # Null
                                /\ Fits(ElementType(type), ElementLength(i))
           /\ ElementTexts(type, n) \in Chunks /\ Len(ElementTexts(type, n)) = n
<1>1. ElementType(type) \in LongTypes
  BY DEF ElementType, LongTypes, TextTypes
<1>2. \A i \in 1 .. n : ElementLength(i) \in 0 .. 1
  BY DEF ElementLength
<1>3. \A i \in 1 .. n : ElementLength(i) \in Nat /\ ElementLength(i) # Null
  BY <1>2, NullIsNoNumber
<1>4. ASSUME NEW i \in 1 .. n
      PROVE  Fits(ElementType(type), ElementLength(i))
  <2>1. CASE ElementType(type) \in CompactTypes
    BY <2>1 DEF Fits
  <2>2. CASE ElementType(type) \notin CompactTypes
    <3>1. ElementType(type) = "string"
      BY <2>2 DEF ElementType, CompactTypes
    <3>2. Width("string") - 1 = 1 /\ "string" \in SignedTypes
      BY DEF Width, SignedTypes
    <3>3. ElementLength(i) \in 0 .. 255
      BY <1>2
    <3>4. Shifted(ElementLength(i), 1) = 0
      BY <3>3, ShiftedOfSmall
    <3>5. InRange("string", ElementLength(i))
      BY <3>2, <3>4 DEF InRange
    <3> QED BY <3>1, <3>5 DEF Fits
  <2> QED BY <2>1, <2>2
<1>5. \A i \in 1 .. n : EncodeText(ElementType(type), ElementLength(i)) \in Seq(Byte)
  BY <1>1, <1>3, TextBytes
<1>6. ElementTexts(type, n) \in [1 .. n -> Seq(Byte)]
  BY <1>5 DEF ElementTexts
<1>7. ElementTexts(type, n) \in Chunks /\ Len(ElementTexts(type, n)) = n
  BY <1>6 DEF Chunks
<1> QED BY <1>1, <1>3, <1>4, <1>7

\* The encoding of an array: its length, then its elements.
LEMMA ArrayBytes ==
    ASSUME NEW type \in LongTypes, NEW n \in Nat \cup {Null}
    PROVE  /\ EncodeArray(type, n) \in Seq(Byte)
           /\ Len(EncodeArray(type, n)) >= 1
           /\ n # Null => EncodeElements(type, n) = FlattenSeq(ElementTexts(type, n))
           /\ n # Null => EncodeElements(type, n) \in Seq(Byte)
<1> DEFINE elements == IF n = Null THEN <<>> ELSE EncodeElements(type, n)
           length == EncodeLength(type, n)
<1>1. n # Null => EncodeElements(type, n) = FlattenSeq(ElementTexts(type, n))
  BY DEF EncodeElements, ElementTexts
<1>2. n # Null => EncodeElements(type, n) \in Seq(Byte)
  BY <1>1, ElementProperties, FlattenAppend DEF Chunks
<1>3. elements \in Seq(Byte)
  BY <1>2
<1>4. length \in Seq(Byte) /\ Len(length) >= 1
  BY LengthBytes
<1>5. EncodeArray(type, n) = length \o elements
  BY DEF EncodeArray
<1> HIDE DEF length, elements
<1>6. length \o elements \in Seq(Byte) /\ Len(length \o elements) >= 1
  BY <1>3, <1>4
<1> QED BY <1>1, <1>2, <1>5, <1>6

\* Who agrees with a chunk agrees with what that chunk agrees with.
LEMMA AgreesWithin ==
    ASSUME NEW bytes \in Seq(Byte), NEW whole \in Seq(Byte), NEW chunk \in Seq(Byte),
           NEW from \in Nat, NEW at \in Nat, at + Len(chunk) <= Len(whole),
           Agrees(bytes, whole, from), Agrees(whole, chunk, at)
    PROVE  Agrees(bytes, chunk, from + at)
<1> SUFFICES ASSUME NEW i \in 1 .. Len(chunk), from + at + i <= Len(bytes)
             PROVE  bytes[from + at + i] = chunk[i]
  BY DEF Agrees
<1>1. at + i \in 1 .. Len(whole) /\ at + i <= Len(whole) /\ from + (at + i) = from + at + i
  OBVIOUS
<1>2. whole[at + i] = chunk[i]
  BY <1>1 DEF Agrees
<1>3. bytes[from + (at + i)] = whole[at + i]
  BY <1>1 DEF Agrees
<1> QED BY <1>1, <1>2, <1>3

\* The elements are read again one by one, unless they were cut off.
LEMMA ElementsAreReadAgain ==
    ASSUME NEW bytes \in Seq(Byte), NEW type \in LongTypes, NEW n \in Nat, NEW begin \in Nat,
           Agrees(bytes, FlattenSeq(ElementTexts(type, n)), begin)
    PROVE  ReadsAgain(Elements(bytes, type, Got(n, begin)), ArrayValue(n),
                      begin + Len(FlattenSeq(ElementTexts(type, n))), Len(bytes))
           \/ begin > Len(bytes)
<1> SUFFICES ASSUME begin <= Len(bytes)
             PROVE  ReadsAgain(Elements(bytes, type, Got(n, begin)), ArrayValue(n),
                               begin + Len(FlattenSeq(ElementTexts(type, n))), Len(bytes))
  OBVIOUS
<1> DEFINE len == Len(bytes)
           ss == ElementTexts(type, n)
           whole == FlattenSeq(ss)
           t == ElementType(type)
           at(i) == begin + Start(ss, i)
           texts(i) == [j \in 1 .. i |-> Content(ElementLength(j))]
<1>0. PICK upTo : OneByOne(upTo, bytes, type, n, begin)
  BY ElementsStep
<1>1. /\ upTo[0] = Got(<<>>, begin)
      /\ \A i \in Nat : upTo[i + 1] = NextElement(bytes, type, upTo[i])
      /\ Elements(bytes, type, Got(n, begin)) = upTo[n]
  BY <1>0 DEF OneByOne
<1>2. ss \in Chunks /\ Len(ss) = n /\ t \in LongTypes /\ len \in Nat
  BY ElementProperties
<1>3. \A i \in 1 .. n : /\ ss[i] = EncodeText(t, ElementLength(i))
                        /\ ElementLength(i) \in Nat /\ ElementLength(i) # Null
                        /\ Fits(t, ElementLength(i))
                        /\ Len(ss[i]) \in Nat /\ ss[i] \in Seq(Byte)
                        /\ Content(ElementLength(i)) \in Seq(Byte)
  <2>1. \A i \in 1 .. n : /\ ElementLength(i) \in Nat /\ ElementLength(i) # Null
                          /\ Fits(t, ElementLength(i))
    BY ElementProperties
  <2>2. \A i \in 1 .. n : ss[i] = EncodeText(t, ElementLength(i))
    BY DEF ElementTexts
  <2> HIDE DEF ss, t
  <2>3. \A i \in 1 .. n : ss[i] \in Seq(Byte) /\ Content(ElementLength(i)) \in Seq(Byte)
    <3> TAKE i \in 1 .. n
    <3> DEFINE m == ElementLength(i)
    <3>1. m \in Nat \cup {Null} /\ m # Null /\ ss[i] = EncodeText(t, m)
      BY <2>1, <2>2
    <3> HIDE DEF m
    <3>2. EncodeText(t, m) \in Seq(Byte) /\ Content(m) \in Seq(Byte)
      BY <1>2, <3>1, TextBytes
    <3> QED BY <3>1, <3>2 DEF m
  <2>4. \A i \in 1 .. n : Len(ss[i]) \in Nat
    BY <2>3
  <2> QED BY <2>1, <2>2, <2>3, <2>4
<1> HIDE DEF ss, t
<1>4. whole \in Seq(Byte)
  BY <1>2, FlattenAppend DEF Chunks
<1>5. \A k \in 0 .. n : Start(ss, k) \in Nat /\ Start(ss, k) <= Len(whole) /\ at(k) \in Nat
  BY <1>2, Positions
<1>6. Start(ss, 0) = 0 /\ Start(ss, n) = Len(whole)
  BY <1>2, Positions
<1>7. \A k \in 1 .. n : Start(ss, k) = Start(ss, k - 1) + Len(ss[k]) /\ Agrees(whole, ss[k], Start(ss, k - 1))
  BY <1>2, Positions
<1> DEFINE T == {i \in Nat : i <= n => ReadsAgain(upTo[i], texts(i), at(i), len)}
<1>8. 0 \in T
  <2>1. at(0) = begin /\ texts(0) = <<>>
    BY <1>6
  <2> HIDE DEF texts, at
  <2> QED BY <1>1, <2>1 DEF ReadsAgain
<1>9. ASSUME NEW i \in Nat, i \in T
      PROVE  i + 1 \in T
  <2> SUFFICES ASSUME i + 1 <= n PROVE ReadsAgain(upTo[i + 1], texts(i + 1), at(i + 1), len)
    OBVIOUS
  <2> DEFINE so == upTo[i]
             c == Content(ElementLength(i + 1))
             x == at(i)
             y == at(i + 1)
             element == DecodeText(bytes, t, x)
  <2>1. i + 1 \in 1 .. n /\ (i + 1) - 1 = i /\ i \in 0 .. n /\ i + 1 \in 0 .. n /\ i <= n
    OBVIOUS
  <2>2. ReadsAgain(so, texts(i), x, len)
    BY <1>9, <2>1
  <2>3. x \in Nat /\ y \in Nat /\ y = x + Len(ss[i + 1]) /\ y >= x
    <3>1. Start(ss, i + 1) = Start(ss, i) + Len(ss[i + 1]) /\ Len(ss[i + 1]) \in Nat
      BY <1>3, <1>7, <2>1
    <3>2. Start(ss, i) \in Nat
      BY <1>5, <2>1
    <3>3. ASSUME NEW a \in Nat, NEW b \in Nat
          PROVE  begin + (a + b) = (begin + a) + b /\ begin + (a + b) >= begin + a
                 /\ begin + a \in Nat /\ begin + (a + b) \in Nat
      OBVIOUS
    <3> QED BY <3>1, <3>2, <3>3, SMTT(30)
  <2>4. Agrees(bytes, ss[i + 1], x)
    <3> DEFINE chunk == ss[i + 1]
               s == Start(ss, i)
    <3>1. chunk \in Seq(Byte) /\ s \in Nat
      BY <1>3, <1>5, <2>1
    <3>2. s + Len(chunk) <= Len(whole)
      <4>1. Start(ss, i + 1) = s + Len(chunk) /\ Start(ss, i + 1) <= Len(whole)
        BY <1>5, <1>7, <2>1
      <4> QED BY <4>1
    <3>3. Agrees(whole, chunk, s) /\ Agrees(bytes, whole, begin)
      <4>1. Agrees(whole, chunk, s)
        BY <1>7, <2>1
      <4> QED BY <4>1 DEF ss
    <3> HIDE DEF chunk, s, whole
    <3>4. Agrees(bytes, chunk, begin + s)
      BY <1>4, <3>1, <3>2, <3>3, AgreesWithin
    <3> QED BY <3>4 DEF chunk, s
  <2>5. ReadsAgain(element, c, y, len)
    <3> DEFINE m == ElementLength(i + 1)
    <3>1. m \in Nat \cup {Null} /\ Fits(t, m) /\ ss[i + 1] = EncodeText(t, m) /\ TextValue(m) = c
      BY <1>3, <2>1 DEF TextValue
    <3> HIDE DEF m, c, x, y
    <3>2. ReadsAgain(element, TextValue(m), x + Len(EncodeText(t, m)), len)
      BY <1>2, <2>3, <2>4, <3>1, TextIsReadAgain
    <3> QED BY <2>3, <3>1, <3>2
  <2>6. upTo[i + 1] = AppendElement(so, DecodeText(bytes, t, so.next))
    BY <1>1 DEF NextElement, t
  <2>7. texts(i + 1) = Append(texts(i), c)
    <3> DEFINE a == texts(i)
               b == texts(i + 1)
    <3>1. a \in Seq(Seq(Byte)) /\ b \in Seq(Seq(Byte)) /\ Len(a) = i /\ Len(b) = i + 1
      <4>1. \A j \in 1 .. i + 1 : Content(ElementLength(j)) \in Seq(Byte)
        <5>1. \A j \in 1 .. i + 1 : j \in 1 .. n
          BY <2>1
        <5> QED BY <1>3, <5>1
      <4>2. b \in [1 .. i + 1 -> Seq(Byte)] /\ a \in [1 .. i -> Seq(Byte)]
        BY <4>1
      <4> HIDE DEF a, b
      <4> QED BY <4>2
    <3>2. \A j \in 1 .. i + 1 : b[j] = IF j = i + 1 THEN c ELSE a[j]
      OBVIOUS
    <3>3. c \in Seq(Byte)
      BY <1>3, <2>1
    <3> DEFINE B == Seq(Byte)
    <3> HIDE DEF a, b, c, B
    <3>4. a \in Seq(B) /\ b \in Seq(B) /\ c \in B
      BY <3>1, <3>3 DEF B
    <3>5. Append(a, c) \in Seq(B) /\ Len(Append(a, c)) = i + 1
      BY <3>1, <3>4
    <3>6. \A j \in 1 .. i + 1 : Append(a, c)[j] = IF j = i + 1 THEN c ELSE a[j]
      <4> TAKE j \in 1 .. i + 1
      <4>1. j \in 1 .. Len(a) + 1 /\ (j = i + 1 <=> j = Len(a) + 1)
        BY <3>1
      <4> QED BY <3>1, <3>4, <4>1
    <3>7. Append(a, c) = b
      BY <3>1, <3>2, <3>4, <3>5, <3>6, SeqEqual
    <3> QED BY <3>7 DEF a, b
  <2> HIDE DEF so, c, element, texts, at
  <2>8. CASE so.threw
    <3>1. upTo[i + 1] = Throws
      BY <2>6, <2>8 DEF AppendElement
    <3>2. ~(x <= len)
      BY <2>2, <2>8, GotFields DEF ReadsAgain
    <3>3. ~(y <= len)
      BY <1>2, <2>3, <3>2
    <3> QED BY <3>1, <3>3, ResultsType DEF ReadsAgain
  <2>9. CASE ~so.threw
    <3>1. so.next = x
      BY <2>2, <2>9, GotFields DEF ReadsAgain
    <3>2. upTo[i + 1] = IF element.threw THEN Throws
                        ELSE Got(Append(so.value, element.value), element.next)
      BY <2>6, <2>9, <3>1 DEF AppendElement, element
    <3>3. CASE y <= len
      <4>1. element = Got(c, y)
        BY <2>5, <3>3 DEF ReadsAgain
      <4>2. so = Got(texts(i), x)
        <5>1. x <= len
          BY <1>2, <2>3, <3>3
        <5> QED BY <2>2, <5>1 DEF ReadsAgain
      <4>3. upTo[i + 1] = Got(Append(texts(i), c), y)
        BY <3>2, <4>1, <4>2, GotFields
      <4> QED BY <2>7, <3>3, <4>3 DEF ReadsAgain
    <3>4. CASE ~(y <= len)
      <4>1. element.threw \/ element.next = y
        BY <2>5, <3>4 DEF ReadsAgain
      <4>2. upTo[i + 1].threw \/ upTo[i + 1].next = y
        BY <3>2, <4>1, GotFields, ResultsType
      <4> QED BY <3>4, <4>2 DEF ReadsAgain
    <3> QED BY <3>3, <3>4
  <2> QED BY <2>8, <2>9
<1> HIDE DEF T
<1>10. \A i \in Nat : i \in T
  BY <1>8, <1>9, Induction
<1>11. ReadsAgain(upTo[n], texts(n), at(n), len)
  <2>1. n \in T /\ n <= n
    BY <1>10
  <2> QED BY <2>1 DEF T
<1>12. at(n) = begin + Len(whole) /\ texts(n) = ArrayValue(n)
  BY <1>6, NullIsNoNumber DEF ArrayValue
<1> HIDE DEF texts, at
<1> QED BY <1>1, <1>11, <1>12 DEF ss

\* An array is read again as it was written, unless it was cut off.
LEMMA ArrayIsReadAgain ==
    ASSUME NEW bytes \in Seq(Byte), NEW type \in LongTypes, NEW from \in Nat,
           NEW n \in Nat \cup {Null}, Fits(type, n), Agrees(bytes, EncodeArray(type, n), from)
    PROVE  ReadsAgain(DecodeArray(bytes, type, from), ArrayValue(n),
                      from + Len(EncodeArray(type, n)), Len(bytes))
<1> DEFINE len == Len(bytes)
           length == EncodeLength(type, n)
           elements == IF n = Null THEN <<>> ELSE EncodeElements(type, n)
           begin == from + Len(length)
           next == from + Len(EncodeArray(type, n))
           Result == DecodeArray(bytes, type, from)
<1>1. /\ length \in Seq(Byte) /\ elements \in Seq(Byte) /\ len \in Nat
      /\ EncodeArray(type, n) = length \o elements
  <2>1. length \in Seq(Byte) /\ len \in Nat
    BY LengthBytes
  <2>2. elements \in Seq(Byte)
    BY ArrayBytes
  <2>3. EncodeArray(type, n) = length \o elements
    BY DEF EncodeArray
  <2> QED BY <2>1, <2>2, <2>3
<1>2. Agrees(bytes, length, from) /\ Agrees(bytes, elements, begin)
  <2> HIDE DEF length, elements
  <2> QED BY <1>1, AgreesWithParts
<1>3. Result = Elements(bytes, type, IF begin > len THEN Throws ELSE Got(n, begin))
  <2>1. DecodeLength(bytes, type, from) = IF begin > len THEN Throws ELSE Got(n, begin)
    BY <1>2, LengthIsReadAgain
  <2> QED BY <2>1 DEF DecodeArray
<1>4. next = begin + Len(elements) /\ begin \in Nat /\ Len(elements) \in Nat
  <2> HIDE DEF length, elements
  <2>1. Len(length) \in Nat /\ Len(elements) \in Nat
    BY <1>1
  <2>2. Len(EncodeArray(type, n)) = Len(length) + Len(elements)
    BY <1>1
  <2>3. \A x \in Nat, y \in Nat : from + (x + y) = from + x + y
    OBVIOUS
  <2> QED BY <2>1, <2>2, <2>3
<1> HIDE DEF next, begin, length, len
<1>5. CASE begin > len
  <2>1. Result = Throws
    BY <1>3, <1>5, ResultsType DEF Elements
  <2>2. ~(next <= len)
    BY <1>1, <1>4, <1>5
  <2> QED BY <2>1, <2>2, ResultsType DEF ReadsAgain, next, len
<1>6. CASE ~(begin > len) /\ n = Null
  <2>1. Result = Got(Null, begin)
    BY <1>3, <1>6, GotFields DEF Elements
  <2>2. next = begin /\ next <= len
    BY <1>1, <1>4, <1>6
  <2> QED BY <1>6, <2>1, <2>2 DEF ReadsAgain, ArrayValue, next, len
<1>7. CASE ~(begin > len) /\ n # Null
  <2>1. n \in Nat /\ elements = FlattenSeq(ElementTexts(type, n))
    BY <1>7, ArrayBytes
  <2>2. Agrees(bytes, FlattenSeq(ElementTexts(type, n)), begin)
    BY <1>2, <2>1
  <2>3. \/ ReadsAgain(Elements(bytes, type, Got(n, begin)), ArrayValue(n),
                      begin + Len(FlattenSeq(ElementTexts(type, n))), Len(bytes))
        \/ begin > Len(bytes)
    BY <1>4, <2>1, <2>2, ElementsAreReadAgain
  <2> QED BY <1>3, <1>4, <1>7, <2>1, <2>3 DEF next, len
<1> QED BY <1>5, <1>6, <1>7

-----------------------------------------------------------------------------
\* A field as the encoder takes it.
ProperField(field) ==
    /\ field.type \in Types
    /\ field.type \in NumberTypes => field.value \in Int
    /\ field.type \in LongTypes => field.value \in Nat \cup {Null}
    /\ Encodable(field)

\* A field is read again as it was written, or it is known to be cut off.
LEMMA FieldIsReadAgain ==
    ASSUME NEW field, ProperField(field)
    PROVE  /\ Encode(field) \in Seq(Byte) /\ Len(Encode(field)) >= 1
           /\ \A bytes \in Seq(Byte), from \in Nat :
                 Agrees(bytes, Encode(field), from) =>
                    ReadsAgain(Decode(bytes, field.type, from), Payload(field),
                               from + Len(Encode(field)), Len(bytes))
<1> DEFINE type == field.type
           n == field.value
<1>1. type \in NumberTypes \/ type \in TextTypes \/ type \in ArrayTypes
  BY DEF ProperField, Types
<1>2. CASE type \in NumberTypes
  <2>1. /\ type \in FixedTypes /\ type \notin CompactTypes
        /\ type \notin TextTypes /\ type \notin ArrayTypes
    BY <1>2 DEF FixedTypes, Types, NumberTypes, CompactTypes, TextTypes, ArrayTypes
  <2>2. n \in Int /\ InRange(type, n)
    BY <1>2, <2>1, NullIsNoNumber DEF ProperField, Encodable
  <2>3. /\ Encode(field) = EncodeNumber(Width(type), n)
        /\ Payload(field) = n
        /\ \A bytes, from : Decode(bytes, type, from) = DecodeNumber(bytes, type, from)
    BY <1>2, <2>1 DEF Encode, Payload, Decode
  <2> HIDE DEF type, n
  <2>4. Width(type) \in 1 .. 8 /\ Width(type) \in Nat
    BY <2>1, WidthType
  <2>5. /\ EncodeNumber(Width(type), n) \in Seq(Byte)
        /\ Len(EncodeNumber(Width(type), n)) = Width(type)
    BY <2>2, <2>4, NumberBytes
  <2>6. ASSUME NEW bytes \in Seq(Byte), NEW from \in Nat, Agrees(bytes, Encode(field), from)
        PROVE  ReadsAgain(Decode(bytes, type, from), n, from + Width(type), Len(bytes))
    <3>1. DecodeNumber(bytes, type, from) =
             IF from + Width(type) > Len(bytes) THEN Throws ELSE Got(n, from + Width(type))
      BY <2>1, <2>2, <2>3, <2>6, NumberIsReadAgain
    <3>2. from + Width(type) > Len(bytes) <=> ~(from + Width(type) <= Len(bytes))
      BY <2>4
    <3> QED BY <2>3, <3>1, <3>2, ResultsType DEF ReadsAgain
  <2> QED BY <2>3, <2>4, <2>5, <2>6 DEF type
<1>3. CASE type \in TextTypes
  <2>1. type \in LongTypes /\ type \notin NumberTypes /\ type \notin ArrayTypes
    BY <1>3 DEF LongTypes, TextTypes, NumberTypes, ArrayTypes
  <2>2. n \in Nat \cup {Null} /\ Fits(type, n)
    BY <2>1 DEF ProperField, Encodable, Fits
  <2>3. /\ Encode(field) = EncodeText(type, n)
        /\ Payload(field) = TextValue(n)
        /\ \A bytes, from : Decode(bytes, type, from) = DecodeText(bytes, type, from)
    BY <1>3, <2>1 DEF Encode, Payload, Decode, TextValue
  <2> HIDE DEF type, n
  <2>4. EncodeText(type, n) \in Seq(Byte) /\ Len(EncodeText(type, n)) >= 1
    BY <2>1, <2>2, TextBytes
  <2>5. ASSUME NEW bytes \in Seq(Byte), NEW from \in Nat, Agrees(bytes, EncodeText(type, n), from)
        PROVE  ReadsAgain(DecodeText(bytes, type, from), TextValue(n),
                          from + Len(EncodeText(type, n)), Len(bytes))
    BY <2>1, <2>2, <2>5, TextIsReadAgain
  <2> QED BY <2>3, <2>4, <2>5 DEF type
<1>4. CASE type \in ArrayTypes
  <2>1. type \in LongTypes /\ type \notin NumberTypes /\ type \notin TextTypes
    BY <1>4 DEF LongTypes, TextTypes, NumberTypes, ArrayTypes
  <2>2. n \in Nat \cup {Null} /\ Fits(type, n)
    BY <2>1 DEF ProperField, Encodable, Fits
  <2>3. /\ Encode(field) = EncodeArray(type, n)
        /\ Payload(field) = ArrayValue(n)
        /\ \A bytes, from : Decode(bytes, type, from) = DecodeArray(bytes, type, from)
    BY <1>4, <2>1 DEF Encode, Payload, Decode, ArrayValue
  <2> HIDE DEF type, n
  <2>4. EncodeArray(type, n) \in Seq(Byte) /\ Len(EncodeArray(type, n)) >= 1
    BY <2>1, <2>2, ArrayBytes
  <2>5. ASSUME NEW bytes \in Seq(Byte), NEW from \in Nat, Agrees(bytes, EncodeArray(type, n), from)
        PROVE  ReadsAgain(DecodeArray(bytes, type, from), ArrayValue(n),
                          from + Len(EncodeArray(type, n)), Len(bytes))
    BY <2>1, <2>2, <2>5, ArrayIsReadAgain
  <2> QED BY <2>3, <2>4, <2>5 DEF type
<1> QED BY <1>1, <1>2, <1>3, <1>4

\* A decoder that is at the end of its buffer, or beyond it, throws.
LEMMA NothingLeft ==
    ASSUME NEW bytes \in Seq(Byte), NEW from \in Nat, from >= Len(bytes), NEW type \in Types
    PROVE  Decode(bytes, type, from) = Throws
<1>1. ASSUME NEW fixed \in FixedTypes
      PROVE  DecodeNumber(bytes, fixed, from) = Throws
  <2>1. Width(fixed) \in 1 .. 8
    BY WidthType
  <2>2. from + Width(fixed) > Len(bytes)
    BY <2>1
  <2> QED BY <2>2 DEF DecodeNumber
<1>2. DecodeVarint(bytes, from) = Throws
  <2>1. ~(from < Len(bytes))
    OBVIOUS
  <2> QED BY <2>1, VarintOfStep DEF DecodeVarint
<1>3. ASSUME NEW long \in LongTypes
      PROVE  DecodeLength(bytes, long, from) = Throws
  <2>1. long \notin CompactTypes => long \in FixedTypes
    BY DEF FixedTypes, LongTypes, Types
  <2> QED BY <1>1, <1>2, <2>1, ResultsType DEF DecodeLength, AsLength
<1>4. CASE type \in NumberTypes
  <2>1. type \in FixedTypes /\ type \notin TextTypes /\ type \notin ArrayTypes
    BY <1>4 DEF FixedTypes, Types, NumberTypes, CompactTypes, TextTypes, ArrayTypes
  <2> QED BY <1>1, <1>4, <2>1 DEF Decode
<1>5. CASE type \in TextTypes
  <2>1. type \in LongTypes /\ type \notin NumberTypes /\ type \notin ArrayTypes
    BY <1>5 DEF LongTypes, NumberTypes, TextTypes, ArrayTypes
  <2>2. DecodeText(bytes, type, from) = Throws
    BY <1>3, <2>1, ResultsType DEF DecodeText, Text
  <2> QED BY <1>5, <2>1, <2>2 DEF Decode
<1>6. CASE type \in ArrayTypes
  <2>1. type \in LongTypes /\ type \notin NumberTypes /\ type \notin TextTypes
    BY <1>6 DEF LongTypes, NumberTypes, TextTypes, ArrayTypes
  <2>2. DecodeArray(bytes, type, from) = Throws
    BY <1>3, <2>1, ResultsType DEF DecodeArray, Elements
  <2> QED BY <1>6, <2>1, <2>2 DEF Decode
<1> QED BY <1>4, <1>5, <1>6 DEF Types

\* A buffer that ends too early agrees with the chunks of the whole one.
LEMMA AgreesWhenShortened ==
    ASSUME NEW bytes \in Seq(Byte), NEW m \in Int, m <= Len(bytes)
    PROVE  /\ SubSeq(bytes, 1, m) \in Seq(Byte)
           /\ Len(SubSeq(bytes, 1, m)) <= Len(bytes)
           /\ \A chunk \in Seq(Byte), from \in Nat :
                 Agrees(bytes, chunk, from) => Agrees(SubSeq(bytes, 1, m), chunk, from)
<1> DEFINE short == SubSeq(bytes, 1, m)
<1>1. \A i \in 1 .. m : bytes[i] \in Byte
  <2> TAKE i \in 1 .. m
  <2>1. i \in 1 .. Len(bytes)
    OBVIOUS
  <2> QED BY <2>1
<1>2. /\ short \in Seq(Byte)
      /\ Len(short) = IF 1 <= m THEN m - 1 + 1 ELSE 0
      /\ \A i \in 1 .. m - 1 + 1 : short[i] = bytes[1 + i - 1]
  <2> DEFINE one == 1
  <2>1. one \in Int /\ \A i \in one .. m : bytes[i] \in Byte
    BY <1>1
  <2> HIDE DEF one
  <2>2. /\ SubSeq(bytes, one, m) \in Seq(Byte)
        /\ Len(SubSeq(bytes, one, m)) = IF one <= m THEN m - one + 1 ELSE 0
        /\ \A i \in 1 .. m - one + 1 : SubSeq(bytes, one, m)[i] = bytes[one + i - 1]
    BY <2>1, SubSeqProperties
  <2> QED BY <2>2 DEF one
<1> HIDE DEF short
<1>3. Len(short) = (IF 1 <= m THEN m ELSE 0) /\ \A i \in 1 .. m : short[i] = bytes[i]
  <2>1. m - 1 + 1 = m /\ \A i \in 1 .. m : 1 + i - 1 = i
    OBVIOUS
  <2> QED BY <1>2, <2>1
<1>4. Len(short) <= Len(bytes)
  BY <1>3
<1>5. ASSUME NEW chunk \in Seq(Byte), NEW from \in Nat, Agrees(bytes, chunk, from)
      PROVE  Agrees(short, chunk, from)
  <2> SUFFICES ASSUME NEW i \in 1 .. Len(chunk), from + i <= Len(short)
               PROVE  short[from + i] = chunk[i]
    BY DEF Agrees
  <2>1. from + i \in 1 .. m /\ from + i <= Len(bytes)
    BY <1>3, <1>4
  <2>2. bytes[from + i] = chunk[i]
    BY <1>5, <2>1 DEF Agrees
  <2> QED BY <1>3, <2>1, <2>2
<1> QED BY <1>2, <1>4, <1>5 DEF short

\* A later chunk does not begin before an earlier one.
LEMMA StartsGrow ==
    ASSUME NEW ss \in Chunks, Len(ss) >= 1
    PROVE  \A k \in 1 .. Len(ss) : Start(ss, k) >= Len(ss[1])
<1>1. Len(ss) \in Nat /\ \A k \in 1 .. Len(ss) : Len(ss[k]) \in Nat
  BY DEF Chunks
<1>2. \A k \in 1 .. Len(ss) : Start(ss, k) = Start(ss, k - 1) + Len(ss[k])
  BY Positions
<1>3. Start(ss, 0) = 0 /\ \A k \in 0 .. Len(ss) : Start(ss, k) \in Nat
  BY Positions
<1> DEFINE T == {k \in Nat : k \in 1 .. Len(ss) => Start(ss, k) >= Len(ss[1])}
<1>4. 0 \in T
  OBVIOUS
<1>5. ASSUME NEW k \in Nat, k \in T
      PROVE  k + 1 \in T
  <2> SUFFICES ASSUME k + 1 \in 1 .. Len(ss) PROVE Start(ss, k + 1) >= Len(ss[1])
    OBVIOUS
  <2>1. Start(ss, k + 1) = Start(ss, k) + Len(ss[k + 1]) /\ Len(ss[k + 1]) \in Nat
    <3>1. (k + 1) - 1 = k
      OBVIOUS
    <3> QED BY <1>1, <1>2, <3>1
  <2>2. CASE k = 0
    <3>1. Start(ss, k) = 0 /\ k + 1 = 1
      BY <1>3, <2>2
    <3> QED BY <2>1, <3>1
  <2>3. CASE k # 0
    <3>1. k \in 1 .. Len(ss) /\ k \in 0 .. Len(ss) /\ 1 \in 1 .. Len(ss)
      BY <1>1, <2>3
    <3>2. Start(ss, k) >= Len(ss[1]) /\ Start(ss, k) \in Nat /\ Len(ss[1]) \in Nat
      BY <1>1, <1>3, <1>5, <3>1
    <3> QED BY <2>1, <3>2
  <2> QED BY <2>2, <2>3
<1> HIDE DEF T
<1>6. \A k \in Nat : k \in T
  BY <1>4, <1>5, Induction
<1> QED BY <1>1, <1>6 DEF T

-----------------------------------------------------------------------------
\* The encoder holds the encodings of what was written, its size counts them.
Fields == [type : Types, value : Int \cup {Null}]

Encoded ==
    /\ written \in Seq(Fields)
    /\ \A i \in 1 .. Len(written) : ProperField(written[i])
    /\ buffers = [i \in 1 .. Len(written) |-> Encode(written[i])]
    /\ size = Len(FlattenSeq(buffers))
    /\ message \in {"fields", "request", "response"}
    /\ message # "fields" => Len(written) >= 2 /\ written[1] = SizeHeader

\* The reader of a message with a header begins behind the size field.
Skipped == IF message = "fields" THEN 0 ELSE 1

\* The decoder's buffer holds those encodings where they were joined, as far as
\* it goes; the decoder is where the field begins that it reads next; and what
\* it read is right, unless it is already beyond the end.
HandedOver ==
    /\ decoderBuffer \in Seq(Byte)
    /\ Len(decoderBuffer) <= size
    /\ \A k \in 1 .. Len(written) :
          k > Skipped => Agrees(decoderBuffer, buffers[k], Start(buffers, k - 1))
    /\ message # "fields" =>
          /\ InRange("int32", size - 4)
          /\ Agrees(decoderBuffer, EncodeNumber(4, size - 4), 0)

\* How far the decoder is, and that it read the right values.
Walked ==
    /\ \E S : read \in Seq(S)
    /\ Len(read) + Skipped <= Len(written)
    /\ offset = Start(buffers, Len(read) + Skipped)
    /\ wirePhase = "reading" => Len(read) + Skipped < Len(written)
    /\ wirePhase = "ended" => Len(read) + Skipped = Len(written)
    /\ wirePhase = "threw" => Len(decoderBuffer) < size
    /\ \A k \in 1 .. Len(read) :
          read[k] # Payload(written[k + Skipped]) =>
              k = Len(read) /\ offset > Len(decoderBuffer)

\* The inductive invariant.
WireInv ==
    /\ Encoded
    /\ wirePhase \in {"writing", "abandoned", "reading", "ended", "threw"}
    /\ wirePhase = "writing" => read = <<>>
    /\ wirePhase \in {"reading", "ended", "threw"} => HandedOver /\ Walked

\* The chunks of an encoder and where they begin.
LEMMA EncodedChunks ==
    ASSUME Encoded
    PROVE  /\ buffers \in Chunks /\ Len(buffers) = Len(written) /\ Len(written) \in Nat
           /\ \A k \in 1 .. Len(written) : /\ buffers[k] = Encode(written[k])
                                           /\ buffers[k] \in Seq(Byte) /\ Len(buffers[k]) >= 1
           /\ \A k \in 0 .. Len(written) : Start(buffers, k) \in Nat /\ Start(buffers, k) <= size
           /\ Start(buffers, Len(written)) = size
           /\ FlattenSeq(buffers) \in Seq(Byte) /\ size \in Nat
<1>1. Len(written) \in Nat
  BY DEF Encoded
<1>2. \A k \in 1 .. Len(written) : /\ Encode(written[k]) \in Seq(Byte)
                                   /\ Len(Encode(written[k])) >= 1
  BY FieldIsReadAgain DEF Encoded
<1>3. buffers \in [1 .. Len(written) -> Seq(Byte)]
  BY <1>2 DEF Encoded
<1>4. buffers \in Chunks /\ Len(buffers) = Len(written)
  BY <1>1, <1>3 DEF Chunks
<1>5. \A k \in 1 .. Len(written) : buffers[k] = Encode(written[k])
  BY DEF Encoded
<1>6. FlattenSeq(buffers) \in Seq(Byte) /\ size \in Nat
  <2>1. FlattenSeq(buffers) \in Seq(Byte)
    BY <1>4, FlattenAppend DEF Chunks
  <2>2. Len(FlattenSeq(buffers)) \in Nat
    BY <2>1
  <2> QED BY <2>1, <2>2 DEF Encoded
<1>7. size = Len(FlattenSeq(buffers))
  BY DEF Encoded
<1> QED BY <1>1, <1>2, <1>4, <1>5, <1>6, <1>7, Positions

\* Fields that can all be encoded.
AllProper(fields) == fields \in Seq(Fields) /\ \A i \in 1 .. Len(fields) : ProperField(fields[i])

\* No field, and one proper field.
LEMMA ProperFields ==
    /\ AllProper(<<>>)
    /\ \A f \in Fields : ProperField(f) => AllProper(<<f>>) /\ Len(<<f>>) = 1 /\ <<f>>[1] = f
<1>1. AllProper(<<>>)
  BY DEF AllProper
<1>2. ASSUME NEW f \in Fields, ProperField(f)
      PROVE  AllProper(<<f>>) /\ Len(<<f>>) = 1 /\ <<f>>[1] = f
  BY <1>2 DEF AllProper
<1> QED BY <1>1, <1>2

\* Proper fields behind proper fields.
LEMMA ProperConcatenation ==
    ASSUME NEW a, NEW b, AllProper(a), AllProper(b)
    PROVE  /\ AllProper(a \o b) /\ Len(a) \in Nat /\ Len(b) \in Nat
           /\ Len(a \o b) = Len(a) + Len(b)
           /\ Len(a) >= 1 => (a \o b)[1] = a[1]
<1>1. a \in Seq(Fields) /\ b \in Seq(Fields)
  BY DEF AllProper
<1>2. /\ a \o b \in Seq(Fields) /\ Len(a) \in Nat /\ Len(b) \in Nat
      /\ Len(a \o b) = Len(a) + Len(b)
      /\ \A i \in 1 .. Len(a) : (a \o b)[i] = a[i]
      /\ \A i \in 1 .. Len(b) : (a \o b)[Len(a) + i] = b[i]
  BY <1>1
<1>3. ASSUME NEW i \in 1 .. Len(a \o b)
      PROVE  ProperField((a \o b)[i])
  <2>1. CASE i <= Len(a)
    <3>1. i \in 1 .. Len(a)
      BY <1>2, <2>1
    <3> QED BY <1>2, <3>1 DEF AllProper
  <2>2. CASE ~(i <= Len(a))
    <3>1. i - Len(a) \in 1 .. Len(b) /\ Len(a) + (i - Len(a)) = i
      BY <1>2, <2>2
    <3>2. (a \o b)[i] = b[i - Len(a)]
      BY <1>2, <3>1
    <3> QED BY <3>1, <3>2 DEF AllProper
  <2> QED BY <2>1, <2>2
<1> QED BY <1>2, <1>3 DEF AllProper

\* A header, or nothing, to begin with.
LEMMA HoldsEncoded ==
    ASSUME NEW fields, AllProper(fields), Holds(fields), message \in {"fields", "request", "response"},
           message # "fields" => Len(fields) >= 2 /\ fields[1] = SizeHeader
    PROVE  Encoded
<1>1. written = fields /\ size = Len(FlattenSeq(buffers))
  BY DEF Holds
<1>2. buffers = [i \in 1 .. Len(fields) |-> Encode(fields[i])]
  <2>1. DOMAIN fields = 1 .. Len(fields)
    BY DEF AllProper
  <2> QED BY <2>1 DEF Holds
<1> QED BY <1>1, <1>2 DEF Encoded, AllProper

\* The fields of the headers.
LEMMA HeaderFields ==
    /\ \A n \in 0 .. 3, type \in {"int16", "int32", "uint16", "string"} :
          Field(type, n) \in Fields /\ ProperField(Field(type, n))
    /\ \A n \in Nat : n <= 32767 => Field("int16", n) \in Fields /\ ProperField(Field("int16", n))
    /\ Field("string", Null) \in Fields /\ ProperField(Field("string", Null))
<1> DEFINE types == {"int16", "int32", "uint16", "string"}
<1>1. \A type \in types, n \in Int \cup {Null} :
          /\ Field(type, n) \in Fields
          /\ Field(type, n).type = type /\ Field(type, n).value = n
          /\ type \notin CompactTypes
  BY DEF Field, Fields, Types, NumberTypes, TextTypes, CompactTypes
<1>2. \A type \in types : type \in Types /\ (type \in LongTypes <=> type = "string")
  BY DEF Types, NumberTypes, TextTypes, ArrayTypes, LongTypes
<1>3. ASSUME NEW type \in types, NEW n \in 0 .. 3
      PROVE  Field(type, n) \in Fields /\ ProperField(Field(type, n))
  <2>1. Width(type) - 1 \in Nat /\ Width(type) - 1 > 0
    BY DEF Width
  <2>2. n \in 0 .. 255 /\ n \in Nat /\ n \in Int
    OBVIOUS
  <2> HIDE DEF types
  <2>3. Shifted(n, Width(type) - 1) = 0
    BY <2>1, <2>2, ShiftedOfSmall
  <2>4. InRange(type, n)
    BY <2>3 DEF InRange
  <2> QED BY <1>1, <1>2, <2>2, <2>4 DEF ProperField, Encodable
<1>4. ASSUME NEW n \in Nat, n <= 32767
      PROVE  Field("int16", n) \in Fields /\ ProperField(Field("int16", n))
  <2>1. Width("int16") - 1 = 1 /\ "int16" \in SignedTypes /\ 0 + 1 = 1
    BY DEF Width, SignedTypes
  <2>2. Shifted(n, 1) = n \div 256
    <3>1. Shifted(n, 0) = n /\ Shifted(n, 0 + 1) = Shifted(n, 0) \div 256
      BY ShiftedStep
    <3> QED BY <2>1, <3>1
  <2>3. n \div 256 \in -128 .. 127
    BY <1>4
  <2>4. InRange("int16", n)
    BY <2>1, <2>2, <2>3 DEF InRange
  <2> QED BY <1>1, <1>2, <2>4 DEF ProperField, Encodable
<1>5. Field("string", Null) \in Fields /\ ProperField(Field("string", Null))
  <2>1. "string" \in types /\ "string" \notin NumberTypes
    BY DEF NumberTypes
  <2> HIDE DEF types
  <2> DEFINE f == Field("string", Null)
  <2>2. f \in Fields /\ f.type = "string" /\ f.value = Null
    BY <1>1, <2>1
  <2> HIDE DEF f
  <2>3. ProperField(f)
    BY <1>2, <2>1, <2>2 DEF ProperField, Encodable
  <2> QED BY <2>2, <2>3 DEF f
<1> QED BY <1>3, <1>4, <1>5

\* The initial states satisfy the invariant.
LEMMA WireInitInv ==
    ASSUME WireInit
    PROVE  WireInv
<1>1. wirePhase = "writing" /\ read = <<>>
  BY DEF WireInit
<1>2. CASE message = "fields" /\ Holds(<<>>)
  <2> DEFINE fields == <<>>
  <2>1. AllProper(fields) /\ Holds(fields)
    BY <1>2, ProperFields
  <2> HIDE DEF fields
  <2>2. Encoded
    BY <1>2, <2>1, HoldsEncoded
  <2> QED BY <1>1, <2>2 DEF WireInv
<1> DEFINE first == <<SizeHeader>>
<1>3. AllProper(first) /\ Len(first) = 1 /\ first[1] = SizeHeader
  <2>1. SizeHeader \in Fields /\ ProperField(SizeHeader)
    BY HeaderFields DEF SizeHeader
  <2> QED BY <2>1, ProperFields
<1> HIDE DEF first
<1>4. ASSUME NEW header, AllProper(header), Len(header) >= 1, Holds(first \o header),
             message \in {"request", "response"}
      PROVE  WireInv
  <2> DEFINE fields == first \o header
  <2>1. /\ AllProper(fields) /\ Len(header) \in Nat /\ Len(fields) = 1 + Len(header)
        /\ fields[1] = SizeHeader
    <3> HIDE DEF fields
    <3>1. AllProper(first) /\ AllProper(header) /\ Len(first) >= 1
      BY <1>3, <1>4
    <3>2. /\ AllProper(first \o header) /\ Len(header) \in Nat
          /\ Len(first \o header) = Len(first) + Len(header)
          /\ (first \o header)[1] = first[1]
      BY <3>1, ProperConcatenation
    <3> QED BY <1>3, <3>2 DEF fields
  <2>2. Holds(fields)
    BY <1>4
  <2> HIDE DEF fields
  <2>3. Len(fields) >= 2
    BY <1>4, <2>1
  <2>4. Encoded
    BY <1>4, <2>1, <2>2, <2>3, HoldsEncoded
  <2> QED BY <1>1, <2>4 DEF WireInv
<1>5. CASE message = "response" /\ Holds(<<SizeHeader>> \o ResponseHeader)
  <2>1. AllProper(ResponseHeader) /\ Len(ResponseHeader) = 1
    <3>1. Field("int32", 1) \in Fields /\ ProperField(Field("int32", 1))
      BY HeaderFields
    <3> QED BY <3>1, ProperFields DEF ResponseHeader
  <2> QED BY <1>4, <1>5, <2>1 DEF first
<1>6. ASSUME message = "request", NEW apiVersion \in Versions, NEW clientId \in {Null, 0, 1},
             Holds(<<SizeHeader>> \o RequestHeader(apiVersion, clientId))
      PROVE  WireInv
  <2> DEFINE f2 == Field("int16", 3)
             f3 == Field("int16", apiVersion)
             f4 == Field("int32", 1)
             f5 == Field("string", clientId)
             f6 == Field("uint16", 0)
             begin == <<f2, f3, f4, f5>>
             end == IF apiVersion >= 2 THEN <<f6>> ELSE <<>>
  <2>1. /\ f2 \in Fields /\ ProperField(f2) /\ f4 \in Fields /\ ProperField(f4)
        /\ f6 \in Fields /\ ProperField(f6)
    BY HeaderFields
  <2>2. f3 \in Fields /\ ProperField(f3)
    <3>1. apiVersion \in Nat /\ apiVersion <= 32767
      BY WireAssumption
    <3> QED BY <3>1, HeaderFields
  <2>3. f5 \in Fields /\ ProperField(f5)
    <3>1. CASE clientId = Null
      BY <3>1, HeaderFields
    <3>2. CASE clientId # Null
      <4>1. clientId \in 0 .. 3
        BY <3>2
      <4> QED BY <4>1, HeaderFields
    <3> QED BY <3>1, <3>2
  <2>4. RequestHeader(apiVersion, clientId) = begin \o end
    BY DEF RequestHeader
  <2> HIDE DEF f2, f3, f4, f5, f6
  <2>5. AllProper(begin) /\ Len(begin) = 4
    <3>1. begin \in Seq(Fields) /\ Len(begin) = 4
      BY <2>1, <2>2, <2>3
    <3>2. \A i \in 1 .. 4 : ProperField(begin[i])
      BY <2>1, <2>2, <2>3
    <3> QED BY <3>1, <3>2 DEF AllProper
  <2>6. AllProper(end)
    BY <2>1, ProperFields
  <2> HIDE DEF begin, end
  <2>7. AllProper(begin \o end) /\ Len(begin \o end) >= 1
    <3>1. AllProper(begin \o end) /\ Len(end) \in Nat /\ Len(begin \o end) = 4 + Len(end)
      BY <2>5, <2>6, ProperConcatenation
    <3> QED BY <3>1
  <2> QED BY <1>4, <1>6, <2>4, <2>7 DEF first
<1> QED BY <1>2, <1>5, <1>6 DEF WireInit

\* What may be written is proper when it can be encoded.
LEMMA WrittenIsProper ==
    ASSUME NEW type \in Types, NEW value \in Values(type), Encodable(Field(type, value))
    PROVE  Field(type, value) \in Fields /\ ProperField(Field(type, value))
<1> DEFINE f == Field(type, value)
<1>1. f.type = type /\ f.value = value
  BY DEF Field
<1>2. type \in NumberTypes => value \in Int
  <2> SUFFICES ASSUME type \in NumberTypes PROVE value \in Int
    OBVIOUS
  <2>1. type # "string" /\ type \notin ArrayTypes
    BY DEF NumberTypes, ArrayTypes
  <2>2. CASE type = "boolean"
    BY <2>1, <2>2 DEF Values
  <2>3. CASE type # "boolean"
    <3>1. value \in Numbers
      BY <2>1, <2>3 DEF Values
    <3> QED BY <3>1, WireAssumption
  <2> QED BY <2>2, <2>3
<1>3. type \in LongTypes => value \in Nat \cup {Null}
  <2> SUFFICES ASSUME type \in LongTypes PROVE value \in Nat \cup {Null}
    OBVIOUS
  <2>1. type \notin NumberTypes /\ type # "boolean"
    BY DEF LongTypes, NumberTypes, TextTypes, ArrayTypes
  <2>2. value \in Lengths \cup ArrayLengths \cup TooLong \cup {Null}
    BY <2>1 DEF Values
  <2> QED BY <2>2, WireAssumption
<1>4. type \in NumberTypes \/ type \in LongTypes
  BY DEF Types, LongTypes
<1>5. value \in Int \cup {Null}
  BY <1>2, <1>3, <1>4
<1>6. f \in Fields
  BY <1>5 DEF Field, Fields
<1> HIDE DEF f
<1> QED BY <1>1, <1>2, <1>3, <1>6 DEF ProperField, f

\* A field that is written.
LEMMA WriteStep ==
    ASSUME WireInv, NEW field \in Fields, ProperField(field), Write(field)
    PROVE  WireInv'
<1>1. Encoded /\ wirePhase = "writing" /\ read = <<>>
  BY DEF WireInv, Write, MayWrite
<1>2. /\ written' = Append(written, field)
      /\ buffers' = Append(buffers, Encode(field))
      /\ size' = size + Len(Encode(field))
      /\ wirePhase' = "writing" /\ message' = message /\ read' = read
  BY <1>1 DEF Write
<1>3. /\ buffers \in Chunks /\ Len(buffers) = Len(written) /\ Len(written) \in Nat
      /\ \A k \in 1 .. Len(written) : buffers[k] = Encode(written[k])
      /\ FlattenSeq(buffers) \in Seq(Byte) /\ size = Len(FlattenSeq(buffers))
  BY <1>1, EncodedChunks DEF Encoded
<1>4. Encode(field) \in Seq(Byte)
  BY FieldIsReadAgain
<1>5. /\ written' \in Seq(Fields) /\ Len(written') = Len(written) + 1
      /\ \A k \in 1 .. Len(written) : written'[k] = written[k]
      /\ written'[Len(written) + 1] = field
  BY <1>1, <1>2 DEF Encoded
<1>6. \A k \in 1 .. Len(written') : k \in 1 .. Len(written) \/ k = Len(written) + 1
  BY <1>3, <1>5
<1>7. \A k \in 1 .. Len(written') : ProperField(written'[k])
  BY <1>1, <1>5, <1>6 DEF Encoded
<1>8. buffers' = [k \in 1 .. Len(written') |-> Encode(written'[k])]
  <2> DEFINE B == Seq(Byte)
             e == Encode(field)
             r == [k \in 1 .. Len(written') |-> Encode(written'[k])]
             n == Len(written)
  <2>1. \A k \in 1 .. Len(written') : r[k] = IF k = n + 1 THEN e ELSE buffers[k]
    BY <1>3, <1>5, <1>6
  <2>2. e \in B /\ buffers \in Seq(B) /\ Len(buffers) = n /\ n \in Nat /\ Len(written') = n + 1
    BY <1>3, <1>4, <1>5 DEF Chunks
  <2>3. \A k \in 1 .. n : buffers[k] \in B
    BY <2>2
  <2>4. r \in [1 .. n + 1 -> B]
    <3>1. \A k \in 1 .. n + 1 : r[k] \in B
      <4> HIDE DEF B, e, r, n
      <4> QED BY <1>6, <2>1, <2>2, <2>3 DEF n
    <3>2. r = [k \in 1 .. n + 1 |-> r[k]]
      BY <2>2
    <3> HIDE DEF B, r, n
    <3> QED BY <3>1, <3>2
  <2> HIDE DEF B, e, r, n
  <2>5. r \in Seq(B) /\ Len(r) = n + 1
    BY <2>2, <2>4
  <2>6. Append(buffers, e) \in Seq(B) /\ Len(Append(buffers, e)) = n + 1
    BY <2>2
  <2>7. \A k \in 1 .. n + 1 : Append(buffers, e)[k] = IF k = n + 1 THEN e ELSE buffers[k]
    <3> TAKE k \in 1 .. n + 1
    <3>1. k \in 1 .. Len(buffers) + 1 /\ (k = n + 1 <=> k = Len(buffers) + 1)
      BY <2>2
    <3> QED BY <2>2, <3>1
  <2>8. Append(buffers, e) = r
    BY <2>1, <2>2, <2>5, <2>6, <2>7, SeqEqual
  <2> QED BY <1>2, <2>8 DEF e, r
<1>9. size' = Len(FlattenSeq(buffers'))
  <2>1. FlattenSeq(Append(buffers, Encode(field))) = FlattenSeq(buffers) \o Encode(field)
    BY <1>3, <1>4, FlattenAppend DEF Chunks
  <2>2. Len(FlattenSeq(buffers) \o Encode(field)) = Len(FlattenSeq(buffers)) + Len(Encode(field))
    BY <1>3, <1>4
  <2> QED BY <1>2, <1>3, <2>1, <2>2
<1>10. /\ message' \in {"fields", "request", "response"}
       /\ message' # "fields" => Len(written') >= 2 /\ written'[1] = SizeHeader
  <2>1. message # "fields" => Len(written) >= 2 /\ 1 \in 1 .. Len(written) /\ written[1] = SizeHeader
    BY <1>1, <1>3 DEF Encoded
  <2>2. message \in {"fields", "request", "response"}
    BY <1>1 DEF Encoded
  <2> QED BY <1>2, <1>3, <1>5, <2>1, <2>2
<1>11. SizeHeader' = SizeHeader
  BY DEF SizeHeader
<1>12. Encoded'
  BY <1>5, <1>7, <1>8, <1>9, <1>10, <1>11 DEF Encoded
<1> QED BY <1>1, <1>2, <1>12 DEF WireInv

\* A field that the encoder refuses ends the message.
LEMMA WriteThrowsStep ==
    ASSUME WireInv, NEW field, WriteThrows(field)
    PROVE  WireInv'
<1>1. /\ wirePhase' = "abandoned"
      /\ UNCHANGED <<message, written, buffers, size, decoderBuffer, offset, read>>
  BY DEF WriteThrows
<1>2. Encoded'
  BY <1>1 DEF WireInv, Encoded
<1> QED BY <1>1, <1>2 DEF WireInv

\* The size field takes the place of the first four bytes.
LEMMA SizeIsUpdated ==
    ASSUME NEW bytes \in Seq(Byte), Len(bytes) >= 4
    PROVE  /\ UpdateSize(bytes) \in Seq(Byte)
           /\ Len(UpdateSize(bytes)) = Len(bytes)
           /\ Agrees(UpdateSize(bytes), EncodeNumber(4, Len(bytes) - 4), 0)
           /\ \A i \in 5 .. Len(bytes) : UpdateSize(bytes)[i] = bytes[i]
<1> DEFINE len == Len(bytes)
           head == EncodeNumber(4, len - 4)
           five == 5
           rest == SubSeq(bytes, five, len)
<1>1. len \in Nat /\ len - 4 \in Nat
  OBVIOUS
<1>2. head \in Seq(Byte) /\ Len(head) = 4
  <2> DEFINE w == 4
             n == len - 4
  <2>1. w \in Nat /\ n \in Int
    BY <1>1
  <2> HIDE DEF w, n
  <2>2. EncodeNumber(w, n) \in Seq(Byte) /\ Len(EncodeNumber(w, n)) = w
    BY <2>1, NumberBytes
  <2> QED BY <2>2 DEF w, n
<1>3. /\ rest \in Seq(Byte)
      /\ Len(rest) = IF five <= len THEN len - five + 1 ELSE 0
      /\ \A i \in 1 .. len - five + 1 : rest[i] = bytes[five + i - 1]
  <2>1. five \in Int /\ len \in Int
    BY <1>1
  <2>2. \A i \in five .. len : bytes[i] \in Byte
    <3> TAKE i \in five .. len
    <3>1. i \in 1 .. Len(bytes)
      OBVIOUS
    <3> QED BY <3>1
  <2> HIDE DEF five
  <2> QED BY <2>1, <2>2, SubSeqProperties
<1>4. UpdateSize(bytes) = head \o rest
  BY DEF UpdateSize
<1> HIDE DEF len, head, rest
<1>5. Len(rest) = len - 4
  BY <1>1, <1>3
<1>6. /\ head \o rest \in Seq(Byte) /\ Len(head \o rest) = len
      /\ \A i \in 1 .. 4 : (head \o rest)[i] = head[i]
      /\ \A i \in 1 .. len - 4 : (head \o rest)[4 + i] = rest[i]
  <2>1. head \in Seq(Byte) /\ Len(head) = 4 /\ rest \in Seq(Byte) /\ Len(rest) = len - 4
    BY <1>2, <1>3, <1>5
  <2>2. /\ head \o rest \in Seq(Byte) /\ Len(head \o rest) = Len(head) + Len(rest)
        /\ \A i \in 1 .. Len(head) : (head \o rest)[i] = head[i]
        /\ \A i \in 1 .. Len(rest) : (head \o rest)[Len(head) + i] = rest[i]
    BY <2>1, Concatenated
  <2>3. head \o rest \in Seq(Byte) /\ Len(head \o rest) = 4 + (len - 4)
    BY <2>1, <2>2
  <2>4. \A i \in 1 .. 4 : (head \o rest)[i] = head[i]
    BY <2>1, <2>2
  <2>5. \A i \in 1 .. len - 4 : (head \o rest)[4 + i] = rest[i]
    BY <2>1, <2>2
  <2> QED BY <1>1, <2>3, <2>4, <2>5, SMTT(30)
<1>7. ASSUME NEW i \in 5 .. len
      PROVE  (head \o rest)[i] = bytes[i]
  <2>1. i - 4 \in 1 .. len - 4 /\ 4 + (i - 4) = i /\ five + (i - 4) - 1 = i /\ i - 4 \in 1 .. len - five + 1
    BY <1>1
  <2>2. (head \o rest)[4 + (i - 4)] = rest[i - 4]
    BY <1>6, <2>1
  <2> HIDE DEF five
  <2>3. rest[i - 4] = bytes[five + (i - 4) - 1]
    BY <1>3, <2>1
  <2> QED BY <2>1, <2>2, <2>3
<1>8. Agrees(head \o rest, head, 0)
  <2>1. \A i \in 1 .. 4 : 0 + i = i
    OBVIOUS
  <2> QED BY SMTT(30), <1>2, <1>6, <2>1 DEF Agrees
<1> QED BY <1>4, <1>6, <1>7, <1>8 DEF len, head

\* The place that is kept for the size field has its four bytes.
LEMMA SizeHeaderBytes ==
    Len(Encode(SizeHeader)) = 4
<1>1. SizeHeader.type = "int32" /\ SizeHeader.value = 0
  BY DEF SizeHeader, Field
<1>2. "int32" \in NumberTypes /\ "int32" \notin TextTypes /\ "int32" \notin ArrayTypes
         /\ Width("int32") = 4
  BY DEF NumberTypes, TextTypes, ArrayTypes, Width
<1>3. Encode(SizeHeader) = EncodeNumber(4, 0)
  BY <1>1, <1>2 DEF Encode
<1> DEFINE w == 4
           n == 0
<1>4. w \in Nat /\ n \in Int
  OBVIOUS
<1> HIDE DEF w, n
<1>5. Len(EncodeNumber(w, n)) = w
  BY <1>4, NumberBytes
<1> QED BY <1>3, <1>5 DEF w, n

\* The buffer that is built, and handed over whole or cut off.
LEMMA BuildStep ==
    ASSUME WireInv, NEW cut \in Nat, Build(cut)
    PROVE  WireInv'
<1>1. Encoded /\ wirePhase = "writing" /\ read = <<>>
  BY DEF WireInv, Build
<1>2. /\ wirePhase' = "reading" /\ offset' = IF message = "fields" THEN 0 ELSE 4
      /\ UNCHANGED <<message, written, buffers, size, read>>
      /\ message # "fields" => InRange("int32", size - 4)
      /\ Len(written) > Headers
  BY DEF Build
<1>3. /\ buffers \in Chunks /\ Len(buffers) = Len(written) /\ Len(written) \in Nat
      /\ \A k \in 1 .. Len(written) : /\ buffers[k] = Encode(written[k])
                                      /\ buffers[k] \in Seq(Byte) /\ Len(buffers[k]) >= 1
      /\ \A k \in 0 .. Len(written) : Start(buffers, k) \in Nat /\ Start(buffers, k) <= size
      /\ FlattenSeq(buffers) \in Seq(Byte) /\ size \in Nat /\ size = Len(FlattenSeq(buffers))
  BY <1>1, EncodedChunks DEF Encoded
<1> DEFINE whole == FlattenSeq(buffers)
           bytes == IF message = "fields" THEN whole ELSE UpdateSize(whole)
           short == SubSeq(bytes, 1, size - cut)
<1>4. decoderBuffer' = short
  <2>1. Fill(size, whole) = whole
    <3> HIDE DEF whole
    <3> QED BY <1>3 DEF Fill, whole
  <2> QED BY <2>1 DEF Build
<1>5. Skipped < Len(written)
  <2>1. CASE message = "fields"
    <3>1. Headers = 0
      BY <2>1 DEF Headers
    <3> QED BY <1>2, <1>3, <2>1, <3>1 DEF Skipped
  <2>2. CASE message # "fields"
    <3>1. Len(written) >= 2
      BY <1>1, <2>2 DEF Encoded
    <3> QED BY <1>3, <2>2, <3>1 DEF Skipped
  <2> QED BY <2>1, <2>2
<1>6. message # "fields" => Len(buffers[1]) = 4 /\ Start(buffers, 1) = 4 /\ size >= 4
  <2> SUFFICES ASSUME message # "fields"
               PROVE  Len(buffers[1]) = 4 /\ Start(buffers, 1) = 4 /\ size >= 4
    OBVIOUS
  <2>1. 1 \in 1 .. Len(written) /\ written[1] = SizeHeader /\ Len(written) >= 2
    BY <1>1, <1>3 DEF Encoded
  <2>2. Len(Encode(SizeHeader)) = 4
    BY SizeHeaderBytes
  <2>3. Len(buffers[1]) = 4
    BY <1>3, <2>1, <2>2
  <2>4. Start(buffers, 1) = Start(buffers, 0) + Len(buffers[1]) /\ Start(buffers, 0) = 0
    <3>1. 1 - 1 = 0
      OBVIOUS
    <3> QED BY <1>3, <2>1, <3>1, Positions
  <2>5. Start(buffers, 1) <= size
    <3>1. 1 \in 0 .. Len(written)
      BY <1>3, <2>1
    <3> QED BY <1>3, <3>1
  <2> QED BY <1>3, <2>3, <2>4, <2>5
<1>7. /\ bytes \in Seq(Byte) /\ Len(bytes) = size
      /\ message # "fields" => Agrees(bytes, EncodeNumber(4, size - 4), 0)
      /\ \A i \in 1 .. size : (message = "fields" \/ i > 4) => bytes[i] = whole[i]
  <2>1. CASE message = "fields"
    BY <1>3, <2>1
  <2>2. CASE message # "fields"
    <3>1. whole \in Seq(Byte) /\ Len(whole) = size /\ Len(whole) >= 4
      BY <1>3, <1>6, <2>2
    <3> HIDE DEF whole
    <3>2. /\ UpdateSize(whole) \in Seq(Byte) /\ Len(UpdateSize(whole)) = size
          /\ Agrees(UpdateSize(whole), EncodeNumber(4, size - 4), 0)
          /\ \A i \in 5 .. size : UpdateSize(whole)[i] = whole[i]
      BY <3>1, SizeIsUpdated
    <3>3. \A i \in 1 .. size : i > 4 => i \in 5 .. size
      BY <1>3
    <3> QED BY <2>2, <3>2, <3>3
  <2> QED BY <2>1, <2>2
<1>8. ASSUME NEW k \in 1 .. Len(written), k > Skipped
      PROVE  Agrees(bytes, buffers[k], Start(buffers, k - 1))
  <2> DEFINE at == Start(buffers, k - 1)
             chunk == buffers[k]
  <2>1. Agrees(whole, chunk, at)
    BY <1>3, Positions
  <2>2. at \in Nat /\ (message = "fields" \/ at >= 4)
    <3>1. k - 1 \in 0 .. Len(written)
      BY <1>3
    <3>2. CASE message = "fields"
      BY <1>3, <3>1, <3>2
    <3>3. CASE message # "fields"
      <4>1. k - 1 \in 1 .. Len(buffers) /\ Len(buffers) >= 1
        BY <1>3, <1>8, <3>3 DEF Skipped
      <4>2. at >= Len(buffers[1])
        BY <1>3, <4>1, StartsGrow
      <4> QED BY <1>3, <1>6, <3>1, <3>3, <4>2
    <3> QED BY <3>2, <3>3
  <2> SUFFICES ASSUME NEW i \in 1 .. Len(chunk), at + i <= Len(bytes)
               PROVE  bytes[at + i] = chunk[i]
    BY DEF Agrees
  <2> HIDE DEF bytes, whole, at
  <2>3. at + i \in 1 .. size /\ (message = "fields" \/ at + i > 4)
    BY <1>3, <1>7, <2>2
  <2>4. bytes[at + i] = whole[at + i]
    BY <1>7, <2>3
  <2>5. at + i <= Len(whole)
    BY <1>3, <2>3 DEF whole
  <2> QED BY <2>1, <2>4, <2>5 DEF Agrees
<1> HIDE DEF bytes, whole
<1>9. size - cut \in Int /\ size - cut <= Len(bytes)
  BY <1>3, <1>7
<1>10. /\ short \in Seq(Byte) /\ Len(short) <= size
       /\ \A chunk \in Seq(Byte), from \in Nat : Agrees(bytes, chunk, from) => Agrees(short, chunk, from)
  BY <1>7, <1>9, AgreesWhenShortened
<1> HIDE DEF short
<1>11. \A k \in 1 .. Len(written) : k > Skipped => Agrees(short, buffers[k], Start(buffers, k - 1))
  <2> TAKE k \in 1 .. Len(written)
  <2> SUFFICES ASSUME k > Skipped PROVE Agrees(short, buffers[k], Start(buffers, k - 1))
    OBVIOUS
  <2>1. k - 1 \in 0 .. Len(written)
    BY <1>3
  <2>2. buffers[k] \in Seq(Byte) /\ Start(buffers, k - 1) \in Nat
    BY <1>3, <2>1
  <2> QED BY <1>8, <1>10, <2>2
<1>12. message # "fields" => Agrees(short, EncodeNumber(4, size - 4), 0)
  <2> SUFFICES ASSUME message # "fields" PROVE Agrees(short, EncodeNumber(4, size - 4), 0)
    OBVIOUS
  <2> DEFINE w == 4
             n == size - 4
             from == 0
  <2>1. w \in Nat /\ n \in Int /\ from \in Nat
    BY <1>3
  <2>2. Agrees(bytes, EncodeNumber(w, n), from)
    BY <1>7
  <2> HIDE DEF w, n, from
  <2>3. EncodeNumber(w, n) \in Seq(Byte)
    BY <2>1, NumberBytes
  <2>4. Agrees(short, EncodeNumber(w, n), from)
    BY <1>10, <2>1, <2>2, <2>3
  <2> QED BY <2>4 DEF w, n, from
<1>13. Skipped' = Skipped /\ Skipped \in 0 .. 1
  BY <1>2 DEF Skipped
<1>14. Encoded'
  <2>1. SizeHeader' = SizeHeader
    BY DEF SizeHeader
  <2> QED BY <1>1, <1>2, <2>1 DEF Encoded
<1>15. HandedOver'
  BY <1>2, <1>4, <1>10, <1>11, <1>12, <1>13 DEF HandedOver, Start
<1>16. Walked'
  <2>1. read' = <<>> /\ Len(read') = 0 /\ \E S : read' \in Seq(S)
    <3>1. <<>> \in Seq({})
      OBVIOUS
    <3> QED BY <1>1, <1>2, <3>1
  <2>2. offset' = Start(buffers, Skipped)
    <3>1. Start(buffers, 0) = 0
      BY <1>3, Positions
    <3> QED BY <1>2, <1>6, <3>1 DEF Skipped
  <2>3. Start(buffers, Skipped)' = Start(buffers, Skipped)
    BY <1>2, <1>13 DEF Start
  <2>4. 0 + Skipped = Skipped
    BY <1>13
  <2> QED BY <1>2, <1>5, <1>13, <2>1, <2>2, <2>3, <2>4 DEF Walked, Start
<1> QED BY <1>2, <1>14, <1>15, <1>16 DEF WireInv

\* A field that is read.
LEMMA ReadStep ==
    ASSUME WireInv, Read
    PROVE  WireInv'
<1>1. Encoded /\ HandedOver /\ Walked /\ wirePhase = "reading"
  BY DEF WireInv, Read
<1>2. /\ buffers \in Chunks /\ Len(buffers) = Len(written) /\ Len(written) \in Nat
      /\ \A k \in 1 .. Len(written) : /\ buffers[k] = Encode(written[k])
                                      /\ buffers[k] \in Seq(Byte) /\ Len(buffers[k]) >= 1
      /\ \A k \in 0 .. Len(written) : Start(buffers, k) \in Nat /\ Start(buffers, k) <= size
      /\ Start(buffers, Len(written)) = size /\ size \in Nat
  BY <1>1, EncodedChunks
<1>3. PICK S : read \in Seq(S)
  BY <1>1 DEF Walked
<1> DEFINE n == Len(read)
           j == n + Skipped + 1
           field == written[j]
           got == Decode(decoderBuffer, field.type, offset)
           len == Len(decoderBuffer)
           next == Start(buffers, j)
<1>4. Skipped \in 0 .. 1 /\ n \in Nat
  BY <1>3 DEF Skipped
<1>5. j \in 1 .. Len(written) /\ j - 1 = n + Skipped /\ j > Skipped /\ j - 1 \in 0 .. Len(written)
         /\ j \in 0 .. Len(written)
  BY <1>1, <1>2, <1>4 DEF Walked
<1>6. Len(ToRead) = Len(written) - Skipped /\ ToRead[n + 1] = field
  <2>1. written \in Seq(Fields)
    BY <1>1 DEF Encoded
  <2>2. CASE message = "fields"
    <3>1. Skipped = 0 /\ ToRead = written
      BY <2>2 DEF Skipped, ToRead
    <3>2. j = n + 1
      BY <1>4, <3>1
    <3> QED BY <1>2, <3>1, <3>2
  <2>3. CASE message # "fields"
    <3>1. Skipped = 1 /\ ToRead = Tail(written)
      BY <2>3 DEF Skipped, ToRead
    <3>2. written # <<>> /\ Len(written) >= 1
      BY <1>2, <1>5
    <3>3. n + 1 \in 1 .. Len(written) - 1 /\ j = (n + 1) + 1
      BY <1>2, <1>4, <1>5, <3>1
    <3>4. Len(Tail(written)) = Len(written) - 1
          /\ \A i \in 1 .. Len(written) - 1 : Tail(written)[i] = written[i + 1]
      BY <2>1, <3>2
    <3> HIDE DEF j
    <3> QED BY <3>1, <3>3, <3>4
  <2> QED BY <2>2, <2>3
<1>7. ProperField(field)
  BY <1>1, <1>5 DEF Encoded
<1>8. /\ decoderBuffer \in Seq(Byte) /\ len \in Nat /\ len <= size
      /\ Agrees(decoderBuffer, buffers[j], Start(buffers, j - 1))
  BY <1>1, <1>5 DEF HandedOver
<1>9. offset = Start(buffers, j - 1) /\ offset \in Nat /\ next \in Nat /\ next <= size
         /\ next = offset + Len(Encode(field))
  <2>1. offset = Start(buffers, j - 1)
    BY <1>1, <1>5 DEF Walked
  <2>2. next = Start(buffers, j - 1) + Len(buffers[j])
    BY <1>2, <1>5, Positions
  <2>3. buffers[j] = Encode(field)
    BY <1>2, <1>5
  <2> HIDE DEF j, field
  <2> QED BY <1>2, <1>5, <2>1, <2>2, <2>3
<1>10. ReadsAgain(got, Payload(field), next, len)
  <2>1. Agrees(decoderBuffer, Encode(field), offset)
    BY <1>2, <1>5, <1>8, <1>9
  <2>3. got = Decode(decoderBuffer, field.type, offset) /\ len = Len(decoderBuffer)
    OBVIOUS
  <2> HIDE DEF field, next, len, got
  <2>2. ReadsAgain(Decode(decoderBuffer, field.type, offset), Payload(field),
                   offset + Len(Encode(field)), Len(decoderBuffer))
    BY <1>7, <1>8, <1>9, <2>1, FieldIsReadAgain
  <2>4. next = offset + Len(Encode(field))
    BY <1>9
  <2> QED BY <2>2, <2>3, <2>4, Zenon
<1>11. offset >= len => got.threw
  <2>1. field.type \in Types
    BY <1>7 DEF ProperField
  <2>2. got = Decode(decoderBuffer, field.type, offset) /\ len = Len(decoderBuffer)
    OBVIOUS
  <2> HIDE DEF field, got, len, j, next, n
  <2>3. ASSUME offset >= Len(decoderBuffer)
        PROVE  Decode(decoderBuffer, field.type, offset).threw
    <3>1. decoderBuffer \in Seq(Byte) /\ offset \in Nat
      BY <1>8, <1>9
    <3>2. Decode(decoderBuffer, field.type, offset) = Throws
      BY <2>1, <2>3, <3>1, NothingLeft
    <3> QED BY <3>2 DEF Throws
  <2> QED BY <2>2, <2>3
<1>12. /\ UNCHANGED <<message, written, buffers, size, decoderBuffer>>
       /\ got.threw => wirePhase' = "threw" /\ UNCHANGED <<offset, read>>
       /\ ~got.threw => /\ offset' = got.next /\ read' = Append(read, got.value)
                        /\ wirePhase' = IF n + 1 = Len(ToRead) THEN "ended" ELSE "reading"
  <2> HIDE DEF field, j
  <2> QED BY <1>6 DEF Read
<1>13. Skipped' = Skipped /\ (\A k : Start(buffers, k)' = Start(buffers, k)) /\ SizeHeader' = SizeHeader
  BY <1>12 DEF Skipped, Start, SizeHeader
<1>14. Encoded'
  BY <1>1, <1>12, <1>13 DEF Encoded
<1>15. HandedOver'
  <2>1. \A k : Start(buffers, k - 1)' = Start(buffers, k - 1)
    BY <1>12 DEF Start
  <2> QED BY <1>1, <1>12, <1>13, <2>1 DEF HandedOver
<1> HIDE DEF got, field, j, len, next
<1>16. CASE got.threw
  <2>1. len < size
    <3>1. ~(next <= len)
      BY <1>10, <1>16, GotFields DEF ReadsAgain
    <3> QED BY <1>2, <1>8, <1>9, <3>1
  <2>2. wirePhase' = "threw" /\ offset' = offset /\ read' = read
    BY <1>12, <1>16
  <2>3. Walked'
    BY <1>1, <1>12, <1>13, <2>1, <2>2 DEF Walked, len, Start
  <2> QED BY <1>14, <1>15, <2>2, <2>3 DEF WireInv
<1>17. CASE ~got.threw
  <2> DEFINE T == S \cup {got.value}
  <2>1. read \in Seq(T) /\ got.value \in T
    BY <1>3
  <2> HIDE DEF T
  <2>2. /\ read' \in Seq(T) /\ Len(read') = n + 1
        /\ \A k \in 1 .. n : read'[k] = read[k]
        /\ read'[n + 1] = got.value
    BY <1>12, <1>17, <2>1
  <2>3. offset' = next
    <3>1. got.next = next
      BY <1>10, <1>17, GotFields DEF ReadsAgain
    <3> QED BY <1>12, <1>17, <3>1
  <2>4. Len(read') + Skipped = j
    BY <1>4, <2>2 DEF j
  <2>5. wirePhase' = IF j = Len(written) THEN "ended" ELSE "reading"
    <3>1. n + 1 = Len(ToRead) <=> j = Len(written)
      BY <1>2, <1>4, <1>6 DEF j
    <3> QED BY <1>12, <1>17, <3>1
  <2>6. ASSUME NEW k \in 1 .. Len(read'), read'[k] # Payload(written[k + Skipped])
        PROVE  k = Len(read') /\ next > len
    <3>1. CASE k = n + 1
      <4>1. k + Skipped = j
        BY <1>4, <3>1 DEF j
      <4>2. got.value # Payload(field)
        BY <2>2, <2>6, <3>1, <4>1 DEF field
      <4>3. ~(next <= len)
        BY <1>10, <4>2, GotFields DEF ReadsAgain
      <4> QED BY <1>8, <1>9, <2>2, <3>1, <4>3
    <3>2. CASE k # n + 1
      <4>1. k \in 1 .. n
        BY <1>4, <2>2, <3>2
      <4>2. read[k] # Payload(written[k + Skipped])
        BY <2>2, <2>6, <4>1
      <4>3. offset > len
        BY <1>1, <4>1, <4>2 DEF Walked, len
      <4>4. offset >= len
        BY <1>8, <1>9, <4>3
      <4> QED BY <1>11, <1>17, <4>4
    <3> QED BY <3>1, <3>2
  <2>7. Walked'
    <3>1. \E V : read' \in Seq(V)
      BY <2>2
    <3>2. Len(read') + Skipped' <= Len(written')
      BY <1>2, <1>5, <1>12, <1>13, <2>4
    <3>3. offset' = Start(buffers, Len(read) + Skipped)'
      BY <1>12, <1>13, <2>3, <2>4 DEF Start, next
    <3>4. /\ wirePhase' = "reading" => Len(read') + Skipped' < Len(written')
          /\ wirePhase' = "ended" => Len(read') + Skipped' = Len(written')
          /\ wirePhase' # "threw"
      BY <1>2, <1>5, <1>12, <1>13, <2>4, <2>5
    <3>5. \A k \in 1 .. Len(read') : read'[k] # Payload(written'[k + Skipped']) =>
              k = Len(read') /\ offset' > Len(decoderBuffer')
      BY <1>12, <1>13, <2>3, <2>6 DEF len
    <3> QED BY <3>1, <3>2, <3>3, <3>4, <3>5 DEF Walked
  <2>8. wirePhase' \in {"reading", "ended"}
    BY <2>5
  <2> QED BY <1>14, <1>15, <2>7, <2>8 DEF WireInv
<1> QED BY <1>16, <1>17

\* The invariant holds in every reachable state.
LEMMA WireInvariant ==
    WireSpec => []WireInv
<1>1. WireInit => WireInv
  BY WireInitInv
<1>2. WireInv /\ [WireNext]_wireVars => WireInv'
  <2> SUFFICES ASSUME WireInv, [WireNext]_wireVars PROVE WireInv'
    OBVIOUS
  <2>1. ASSUME NEW type \in Types, NEW value \in Values(type), Write(Field(type, value))
        PROVE  WireInv'
    <3>1. Encodable(Field(type, value))
      BY <2>1 DEF Write
    <3>2. Field(type, value) \in Fields /\ ProperField(Field(type, value))
      BY <3>1, WrittenIsProper
    <3> QED BY <2>1, <3>2, WriteStep
  <2>2. ASSUME NEW type \in Types, NEW value \in Values(type), WriteThrows(Field(type, value))
        PROVE  WireInv'
    BY <2>2, WriteThrowsStep
  <2>3. ASSUME NEW cut \in 0 .. MaxCut, Build(cut)
        PROVE  WireInv'
    <3>1. cut \in Nat
      BY WireAssumption
    <3> QED BY <2>3, <3>1, BuildStep
  <2>4. CASE Read
    BY <2>4, ReadStep
  <2>5. CASE UNCHANGED wireVars
    <3>1. Encoded'
      BY <2>5 DEF WireInv, Encoded, wireVars, SizeHeader
    <3>2. HandedOver <=> HandedOver'
      BY <2>5 DEF HandedOver, wireVars, Skipped, Start
    <3>3. Walked <=> Walked'
      BY <2>5 DEF Walked, wireVars, Skipped, Start
    <3> QED BY <2>5, <3>1, <3>2, <3>3 DEF WireInv, wireVars
  <2> QED BY <2>1, <2>2, <2>3, <2>4, <2>5 DEF WireNext
<1> QED BY <1>1, <1>2, PTL DEF WireSpec

\* What a reader expects is what was written behind the size field.
LEMMA ReaderKnowsFields ==
    ASSUME Encoded
    PROVE  /\ Len(ToRead) = Len(written) - Skipped
           /\ \A k \in 1 .. Len(written) - Skipped : ToRead[k] = written[k + Skipped]
<1>1. written \in Seq(Fields) /\ Len(written) \in Nat
  BY DEF Encoded
<1>2. CASE message = "fields"
  <2>1. Skipped = 0 /\ ToRead = written
    BY <1>2 DEF Skipped, ToRead
  <2> QED BY <1>1, <2>1
<1>3. CASE message # "fields"
  <2>1. Skipped = 1 /\ ToRead = Tail(written) /\ Len(written) >= 2 /\ written # <<>>
    BY <1>1, <1>3 DEF Skipped, ToRead, Encoded
  <2> QED BY <1>1, <2>1
<1> QED BY <1>2, <1>3

\* What the invariant says of the fields that were read so far.
LEMMA WhatWasRead ==
    ASSUME Encoded, Walked
    PROVE  /\ Skipped \in 0 .. 1 /\ Len(written) \in Nat
           /\ Len(read) \in Nat /\ DOMAIN read = 1 .. Len(read)
           /\ Len(read) + Skipped <= Len(written)
           /\ offset = Start(buffers, Len(read) + Skipped)
           /\ \A k \in 1 .. Len(read) :
                 read[k] # Payload(written[k + Skipped]) =>
                     k = Len(read) /\ offset > Len(decoderBuffer)
           /\ \A k \in 1 .. Len(read) : ToRead[k] = written[k + Skipped]
<1>1. PICK S : read \in Seq(S)
  BY DEF Walked
<1>2. Skipped \in 0 .. 1 /\ Len(read) \in Nat /\ DOMAIN read = 1 .. Len(read)
  BY <1>1 DEF Skipped
<1>3. Len(written) \in Nat
  BY DEF Encoded
<1>4. /\ Len(read) + Skipped <= Len(written)
      /\ offset = Start(buffers, Len(read) + Skipped)
  BY Zenon DEF Walked
<1>5. \A k \in 1 .. Len(read) :
         read[k] # Payload(written[k + Skipped]) =>
             k = Len(read) /\ offset > Len(decoderBuffer)
  BY Zenon DEF Walked
<1>6. ASSUME NEW k \in 1 .. Len(read)
      PROVE  ToRead[k] = written[k + Skipped]
  <2>1. k \in 1 .. Len(written) - Skipped
    BY <1>2, <1>3, <1>4
  <2> QED BY <2>1, ReaderKnowsFields
<1> QED BY <1>2, <1>3, <1>4, <1>5, <1>6

\* What was read when the whole message was there.
LEMMA WholeIsDecoded ==
    ASSUME WireInv
    PROVE  DecodingUndoesEncoding
<1> SUFFICES ASSUME IsRead, Whole
             PROVE  /\ wirePhase # "threw"
                    /\ \A k \in DOMAIN read : read[k] = Payload(ToRead[k])
                    /\ wirePhase = "ended" => offset = Len(decoderBuffer)
                    /\ message # "fields" =>
                           DecodeNumber(decoderBuffer, "int32", 0).value = Len(decoderBuffer) - 4
  BY DEF DecodingUndoesEncoding
<1>1. Encoded /\ HandedOver /\ Walked /\ Len(decoderBuffer) = size
  BY DEF WireInv, IsRead, Whole
<1>2. /\ Len(written) \in Nat /\ size \in Nat
      /\ \A k \in 0 .. Len(written) : Start(buffers, k) \in Nat /\ Start(buffers, k) <= size
      /\ Start(buffers, Len(written)) = size
  BY <1>1, EncodedChunks
<1>3. /\ Skipped \in 0 .. 1 /\ Len(read) \in Nat /\ DOMAIN read = 1 .. Len(read)
      /\ Len(read) + Skipped <= Len(written)
      /\ offset = Start(buffers, Len(read) + Skipped)
  BY <1>1, WhatWasRead
<1>5. offset <= size /\ offset \in Nat
  <2>1. Len(read) + Skipped \in 0 .. Len(written)
    BY <1>2, <1>3
  <2> QED BY <1>2, <1>3, <2>1
<1>6. wirePhase # "threw"
  BY <1>1, <1>2 DEF Walked
<1>7. \A k \in DOMAIN read : read[k] = Payload(ToRead[k])
  <2> TAKE k \in DOMAIN read
  <2>1. k \in 1 .. Len(read)
    BY <1>3
  <2>2. ~(offset > Len(decoderBuffer))
    BY <1>1, <1>2, <1>5
  <2>3. read[k] = Payload(written[k + Skipped]) /\ ToRead[k] = written[k + Skipped]
    BY <1>1, <2>1, <2>2, WhatWasRead
  <2> QED BY <2>3
<1>8. wirePhase = "ended" => offset = Len(decoderBuffer)
  BY <1>1, <1>2 DEF Walked
<1>9. message # "fields" => DecodeNumber(decoderBuffer, "int32", 0).value = Len(decoderBuffer) - 4
  <2> SUFFICES ASSUME message # "fields"
               PROVE  DecodeNumber(decoderBuffer, "int32", 0).value = size - 4
    BY <1>1
  <2> DEFINE n == size - 4
             from == 0
             type == "int32"
  <2>1. type \in FixedTypes /\ Width(type) = 4
    BY DEF FixedTypes, Types, NumberTypes, CompactTypes, Width
  <2>2. n \in Int /\ from \in Nat /\ InRange(type, n) /\ decoderBuffer \in Seq(Byte)
    BY <1>1, <1>2 DEF HandedOver
  <2>3. Agrees(decoderBuffer, EncodeNumber(Width(type), n), from)
    BY <1>1, <2>1 DEF HandedOver
  <2>4. from + Width(type) <= Len(decoderBuffer)
    <3>1. size >= 4
      <4>1. 1 \in 1 .. Len(written) /\ written[1] = SizeHeader
        BY <1>1, <1>2 DEF Encoded
      <4>2. buffers \in Chunks /\ Len(buffers) = Len(written) /\ buffers[1] = Encode(written[1])
        BY <1>1, <4>1, EncodedChunks
      <4>3. Start(buffers, 1) = Start(buffers, 0) + Len(buffers[1]) /\ Start(buffers, 0) = 0
        <5>1. 1 - 1 = 0
          OBVIOUS
        <5> QED BY <4>1, <4>2, <5>1, Positions
      <4>4. Len(buffers[1]) = 4
        BY <4>1, <4>2, SizeHeaderBytes
      <4>5. 1 \in 0 .. Len(written)
        BY <1>2, <4>1
      <4> QED BY <1>2, <4>3, <4>4, <4>5
    <3> QED BY <1>1, <2>1, <3>1
  <2> HIDE DEF n, from, type
  <2>5. DecodeNumber(decoderBuffer, type, from) =
           IF from + Width(type) > Len(decoderBuffer) THEN Throws ELSE Got(n, from + Width(type))
    BY <2>1, <2>2, <2>3, NumberIsReadAgain
  <2>6. ~(from + Width(type) > Len(decoderBuffer))
    BY <1>1, <1>2, <2>1, <2>2, <2>4
  <2>7. DecodeNumber(decoderBuffer, type, from).value = n
    BY <2>5, <2>6, GotFields
  <2> QED BY <2>7 DEF n, from, type
<1> QED BY <1>6, <1>7, <1>8, <1>9

\* What was read when the message had been cut off.
LEMMA ShortIsNoticed ==
    ASSUME WireInv
    PROVE  ShortMessageIsNoticed
<1> SUFFICES ASSUME IsRead, ~Whole
             PROVE  /\ wirePhase = "ended" => offset > Len(decoderBuffer)
                    /\ \A k \in DOMAIN read :
                           read[k] # Payload(ToRead[k]) =>
                               k = Len(read) /\ offset > Len(decoderBuffer)
  BY DEF ShortMessageIsNoticed
<1>1. Encoded /\ HandedOver /\ Walked /\ Len(decoderBuffer) # size
  BY DEF WireInv, IsRead, Whole
<1>2. /\ Len(written) \in Nat /\ size \in Nat /\ Start(buffers, Len(written)) = size
  BY <1>1, EncodedChunks
<1>3. DOMAIN read = 1 .. Len(read)
  BY <1>1, WhatWasRead
<1>5. Len(decoderBuffer) \in Nat /\ Len(decoderBuffer) < size
  BY <1>1, <1>2 DEF HandedOver
<1>6. wirePhase = "ended" => offset > Len(decoderBuffer)
  BY <1>1, <1>2, <1>5 DEF Walked
<1>7. ASSUME NEW k \in DOMAIN read, read[k] # Payload(ToRead[k])
      PROVE  k = Len(read) /\ offset > Len(decoderBuffer)
  <2>1. k \in 1 .. Len(read)
    BY <1>3
  <2>2. /\ read[k] # Payload(written[k + Skipped]) =>
               k = Len(read) /\ offset > Len(decoderBuffer)
        /\ ToRead[k] = written[k + Skipped]
    BY <1>1, <2>1, WhatWasRead
  <2> QED BY <1>7, <2>2
<1> QED BY <1>6, <1>7

\* What an encoder was given is what a decoder gets, whatever the fields are
\* and however many: numbers of up to 64 bits, texts and arrays, of compact and
\* of fixed length, null among them; and the size field of a message is right.
THEOREM DecodingCorrect == WireSpec => []DecodingUndoesEncoding
<1>1. WireInv => DecodingUndoesEncoding
  BY WholeIsDecoded
<1> QED BY <1>1, WireInvariant, PTL

\* A message that ends too early is never taken for a whole one.
THEOREM ShortMessagesCorrect == WireSpec => []ShortMessageIsNoticed
<1>1. WireInv => ShortMessageIsNoticed
  BY ShortIsNoticed
<1> QED BY <1>1, WireInvariant, PTL
=============================================================================
