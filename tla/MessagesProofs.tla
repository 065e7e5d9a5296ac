---------------------------- MODULE MessagesProofs ----------------------------
(***************************************************************************)
(* Requests are as long as they say, whatever version they ask for, and    *)
(* answers are read as they were written when the broker wrote them in the *)
(* version of their parser, for texts and arrays of any length of 16 bits, *)
(* up to two topics at a time (the bound of Messages), and any number of   *)
(* requests.  An answer in another version may be read as anything; that   *)
(* the next request is well formed all the same rests on what any bytes    *)
(* are read as: versions of 16 bits (NewestIsOfInt16).                     *)
(*                                                                         *)
(* A message is a sequence of fields, and everything said of it is said of *)
(* such sequences: FieldBytes is what is written, Payloads what is to be   *)
(* read, and both respect concatenation.  "There" says that bytes have     *)
(* these fields at an offset, and "After" where a parser stands when it    *)
(* has read them.  Each parser of Messages is shown to go from a place     *)
(* that has its fields to the place after them (FieldsAreRead, RowsAreRead *)
(* and so on up to MetadataIsParsed and RequestIsRead), and the sizes that *)
(* are computed by hand to be those of the fields (RequestIsWhole).        *)
(***************************************************************************)
EXTENDS Messages, WireProofs

\* What the fields of messages are.
MessageField ==
    {f \in [type : NumberTypes \cup {"string"}, value : Int \cup {Null}] : ProperField(f)}

Value == Int \cup {Null} \cup Seq(Byte)

FieldBytes(fields) == FlattenSeq([i \in DOMAIN fields |-> Encode(fields[i])])
Payloads(fields) == [i \in DOMAIN fields |-> Payload(fields[i])]

\* What is where in a concatenation says which one it is.
Consists(c, a, b) ==
    /\ Len(c) = Len(a) + Len(b)
    /\ \A i \in 1 .. Len(a) : c[i] = a[i]
    /\ \A i \in 1 .. Len(b) : c[Len(a) + i] = b[i]

LEMMA ConcatenationConsists ==
    ASSUME NEW A, NEW a \in Seq(A), NEW b \in Seq(A)
    PROVE  a \o b \in Seq(A) /\ Consists(a \o b, a, b)
BY DEF Consists

LEMMA IsConcatenation ==
    ASSUME NEW A, NEW a \in Seq(A), NEW b \in Seq(A), NEW c \in Seq(A), Consists(c, a, b)
    PROVE  c = a \o b
<1> DEFINE d == a \o b
<1>1. /\ d \in Seq(A) /\ Len(d) = Len(a) + Len(b) /\ Len(a) \in Nat /\ Len(b) \in Nat
      /\ \A i \in 1 .. Len(a) : d[i] = a[i]
      /\ \A i \in 1 .. Len(b) : d[Len(a) + i] = b[i]
  OBVIOUS
<1> HIDE DEF d
<1>2. /\ Len(c) = Len(a) + Len(b)
      /\ \A i \in 1 .. Len(a) : c[i] = a[i]
      /\ \A i \in 1 .. Len(b) : c[Len(a) + i] = b[i]
  BY DEF Consists
<1>3. ASSUME NEW i \in 1 .. Len(c)
      PROVE  c[i] = d[i]
  <2>1. CASE i \in 1 .. Len(a)
    BY <1>1, <1>2, <2>1
  <2>2. CASE i \notin 1 .. Len(a)
    <3>1. i - Len(a) \in 1 .. Len(b) /\ Len(a) + (i - Len(a)) = i
      BY <1>1, <1>2, <2>2
    <3>2. c[Len(a) + (i - Len(a))] = b[i - Len(a)] /\ d[Len(a) + (i - Len(a))] = b[i - Len(a)]
      BY <1>1, <1>2, <3>1
    <3> QED BY <3>1, <3>2
  <2> QED BY <2>1, <2>2
<1>4. c = d
  BY <1>1, <1>2, <1>3, SeqEqual
<1> QED BY <1>4 DEF d

Associates(A) ==
    \A a \in Seq(A) : \A b \in Seq(A) : \A c \in Seq(A) : (a \o b) \o c = a \o (b \o c)

LEMMA Associative ==
    ASSUME NEW A
    PROVE  Associates(A)
BY ConcatAssociative DEF Associates

\* Joining sequences is the same before and after they are concatenated.
LEMMA FlattenJoin ==
    ASSUME NEW A, NEW ss \in Seq(Seq(A)), NEW tt \in Seq(Seq(A))
    PROVE  FlattenSeq(ss \o tt) = FlattenSeq(ss) \o FlattenSeq(tt)
<1> DEFINE Part(k) == SubSeq(tt, 1, k)
           T == {k \in Nat : k <= Len(tt) =>
                    FlattenSeq(ss \o Part(k)) = FlattenSeq(ss) \o FlattenSeq(Part(k))}
<1>1. Len(tt) \in Nat /\ Len(ss) \in Nat
  OBVIOUS
<1>2. ASSUME NEW k \in 0 .. Len(tt)
      PROVE  /\ Part(k) \in Seq(Seq(A)) /\ Len(Part(k)) = k
             /\ \A i \in 1 .. k : Part(k)[i] = tt[i]
  OBVIOUS
<1>3. Part(0) = <<>> /\ Part(Len(tt)) = tt
  OBVIOUS
<1>4. FlattenSeq(ss) \in Seq(A) /\ \A k \in 0 .. Len(tt) : FlattenSeq(Part(k)) \in Seq(A)
  BY FlattenAppend, <1>2
<1>5. 0 \in T
  <2>1. ss \o <<>> = ss /\ FlattenSeq(ss) \o <<>> = FlattenSeq(ss)
    BY <1>4
  <2>2. FlattenSeq(Part(0)) = <<>>
    BY <1>3, JoinStep
  <2> QED BY <1>3, <2>1, <2>2
<1>6. ASSUME NEW k \in Nat, k \in T
      PROVE  k + 1 \in T
  <2> SUFFICES ASSUME k + 1 <= Len(tt)
               PROVE  FlattenSeq(ss \o Part(k + 1)) = FlattenSeq(ss) \o FlattenSeq(Part(k + 1))
    OBVIOUS
  <2>1. k \in 0 .. Len(tt) /\ k + 1 \in 0 .. Len(tt) /\ k + 1 \in 1 .. Len(tt) /\ (k + 1) - 1 = k
    BY <1>1
  <2>2. FlattenSeq(Part(k + 1)) = FlattenSeq(Part(k)) \o tt[k + 1]
    BY <2>1, JoinStep
  <2>3. tt[k + 1] \in Seq(A)
    BY <2>1
  <2>4. ss \o Part(k + 1) = Append(ss \o Part(k), tt[k + 1])
    <3> DEFINE part == Part(k)
               next == Part(k + 1)
    <3>1. /\ part \in Seq(Seq(A)) /\ Len(part) = k /\ \A i \in 1 .. k : part[i] = tt[i]
          /\ next \in Seq(Seq(A)) /\ Len(next) = k + 1 /\ \A i \in 1 .. k + 1 : next[i] = tt[i]
      BY <1>2, <2>1
    <3> HIDE DEF part, next, Part, T
    <3> DEFINE before == ss \o part
    <3>2. /\ before \in Seq(Seq(A)) /\ Len(before) = Len(ss) + Len(part)
          /\ \A i \in 1 .. Len(ss) : before[i] = ss[i]
          /\ \A i \in 1 .. Len(part) : before[Len(ss) + i] = part[i]
      <4>1. before \in Seq(Seq(A)) /\ Consists(before, ss, part)
        BY <3>1, ConcatenationConsists, Zenon
      <4> HIDE DEF before
      <4> QED BY <4>1 DEF Consists
    <3> HIDE DEF before
    <3> DEFINE c == Append(before, tt[k + 1])
    <3>3. /\ c \in Seq(Seq(A)) /\ Len(c) = Len(ss) + (k + 1)
          /\ \A i \in 1 .. Len(ss) + k : c[i] = before[i]
          /\ c[Len(ss) + (k + 1)] = tt[k + 1]
      <4>1. Len(before) = Len(ss) + k /\ Len(ss) + k + 1 = Len(ss) + (k + 1)
        BY <1>1, <3>1, <3>2
      <4>2. /\ c \in Seq(Seq(A)) /\ Len(c) = Len(before) + 1
            /\ \A i \in 1 .. Len(before) : c[i] = before[i]
            /\ c[Len(before) + 1] = tt[k + 1]
        BY <2>3, <3>2
      <4> HIDE DEF c
      <4> QED BY <1>1, <4>1, <4>2
    <3> HIDE DEF c
    <3>4. \A i \in 1 .. Len(ss) : c[i] = ss[i]
      BY <1>1, <3>2, <3>3
    <3>5. ASSUME NEW i \in 1 .. k + 1
          PROVE  c[Len(ss) + i] = tt[i]
      <4>1. CASE i = k + 1
        BY <3>1, <3>3, <4>1
      <4>2. CASE i # k + 1
        <5>1. i \in 1 .. k /\ Len(ss) + i \in 1 .. Len(ss) + k
          BY <1>1, <4>2
        <5> QED BY <3>1, <3>2, <3>3, <5>1
      <4> QED BY <4>1, <4>2
    <3>6. \A i \in 1 .. Len(next) : c[Len(ss) + i] = next[i]
      BY <3>1, <3>5
    <3>7. c = ss \o next
      <4>1. Consists(c, ss, next)
        BY <3>1, <3>3, <3>4, <3>6 DEF Consists
      <4> QED BY <3>1, <3>3, <4>1, IsConcatenation
    <3> QED BY <3>7 DEF c, part, next, before
  <2>5. FlattenSeq(Append(ss \o Part(k), tt[k + 1])) = FlattenSeq(ss \o Part(k)) \o tt[k + 1]
    <3>1. ss \o Part(k) \in Seq(Seq(A))
      BY <1>2, <2>1
    <3> QED BY <2>3, <3>1, FlattenAppend
  <2>6. FlattenSeq(ss \o Part(k)) = FlattenSeq(ss) \o FlattenSeq(Part(k))
    BY <1>6, <2>1
  <2>7. (FlattenSeq(ss) \o FlattenSeq(Part(k))) \o tt[k + 1]
            = FlattenSeq(ss) \o (FlattenSeq(Part(k)) \o tt[k + 1])
    <3>1. /\ FlattenSeq(ss) \in Seq(A) /\ FlattenSeq(Part(k)) \in Seq(A)
          /\ tt[k + 1] \in Seq(A)
      BY <1>4, <2>1, <2>3
    <3>2. Associates(A)
      BY Associative
    <3> HIDE DEF T, Part
    <3> QED BY <3>1, <3>2, Zenon DEF Associates
  <2> QED BY <2>2, <2>4, <2>5, <2>6, <2>7
<1> HIDE DEF T
<1>7. \A k \in Nat : k \in T
  BY <1>5, <1>6, Induction
<1>8. FlattenSeq(ss \o Part(Len(tt))) = FlattenSeq(ss) \o FlattenSeq(Part(Len(tt)))
  BY <1>1, <1>7 DEF T
<1> QED BY <1>3, <1>8

\* One sequence is what it is joined to.
LEMMA FlattenOne ==
    ASSUME NEW A, NEW s \in Seq(A)
    PROVE  FlattenSeq(<<s>>) = s
<1> DEFINE none == <<>>
<1>1. none \in Seq(Seq(A)) /\ Len(none) = 0 /\ Append(none, s) = <<s>> /\ <<>> \o s = s
  OBVIOUS
<1> HIDE DEF none
<1>2. FlattenSeq(none) = <<>> /\ FlattenSeq(Append(none, s)) = FlattenSeq(none) \o s
  BY <1>1, FlattenAppend
<1> QED BY <1>1, <1>2

-----------------------------------------------------------------------------
\* A field has bytes and a payload.
LEMMA MessageFieldType ==
    ASSUME NEW f \in MessageField
    PROVE  /\ ProperField(f) /\ f.type \in NumberTypes \cup {"string"}
           /\ Encode(f) \in Seq(Byte) /\ Len(Encode(f)) >= 1
           /\ Payload(f) \in Value
<1>1. ProperField(f) /\ f.type \in NumberTypes \cup {"string"} /\ f.value \in Int \cup {Null}
  BY DEF MessageField
<1>2. Encode(f) \in Seq(Byte) /\ Len(Encode(f)) >= 1
  BY <1>1, FieldIsReadAgain
<1>3. CASE f.type \in NumberTypes \/ f.value = Null
  BY <1>1, <1>2, <1>3 DEF Payload, Value
<1>4. CASE f.type = "string" /\ f.value # Null
  <2>1. "string" \in LongTypes /\ "string" \in TextTypes
    BY DEF LongTypes, TextTypes
  <2>2. f.value \in Nat
    BY <1>1, <1>4, <2>1 DEF ProperField
  <2>3. Content(f.value) \in Seq(Byte)
    BY <1>4, <2>1, <2>2, TextBytes
  <2>4. Payload(f) = Content(f.value) \/ Payload(f) = f.value
    BY <1>4, <2>1 DEF Payload
  <2> QED BY <1>1, <1>2, <2>3, <2>4 DEF Value
<1> QED BY <1>1, <1>3, <1>4

\* The encodings of fields are chunks.
LEMMA Pieces ==
    ASSUME NEW fields \in Seq(MessageField)
    PROVE  /\ [i \in DOMAIN fields |-> Encode(fields[i])] \in Seq(Seq(Byte))
           /\ Len([i \in DOMAIN fields |-> Encode(fields[i])]) = Len(fields)
<1>1. DOMAIN fields = 1 .. Len(fields) /\ Len(fields) \in Nat
  OBVIOUS
<1>2. \A i \in 1 .. Len(fields) : Encode(fields[i]) \in Seq(Byte)
  BY MessageFieldType
<1> DEFINE len == Len(fields)
           piece == [i \in 1 .. len |-> Encode(fields[i])]
<1>3. piece \in [1 .. len -> Seq(Byte)]
  BY <1>2
<1>4. piece \in Seq(Seq(Byte)) /\ Len(piece) = len
  <2> HIDE DEF piece
  <2> QED BY <1>1, <1>3
<1> QED BY <1>1, <1>4

\* The bytes and the payloads of no field, of one, and of fields behind others.
LEMMA NoFields ==
    <<>> \in Seq(MessageField) /\ FieldBytes(<<>>) = <<>> /\ Payloads(<<>>) = <<>>
<1> DEFINE none == <<>>
<1>1. none \in Seq(Seq(Byte)) /\ Len(none) = 0 /\ [i \in DOMAIN none |-> Encode(none[i])] = none
  OBVIOUS
<1>2. [i \in DOMAIN none |-> Payload(none[i])] = none
  OBVIOUS
<1>3. FlattenSeq(none) = <<>>
  <2> HIDE DEF none
  <2> QED BY <1>1, FlattenAppend
<1> QED BY <1>1, <1>2, <1>3 DEF FieldBytes, Payloads

LEMMA OneField ==
    ASSUME NEW f \in MessageField
    PROVE  <<f>> \in Seq(MessageField) /\ FieldBytes(<<f>>) = Encode(f) /\ Payloads(<<f>>) = <<Payload(f)>>
<1>1. <<f>> \in Seq(MessageField) /\ DOMAIN <<f>> = {1} /\ <<f>>[1] = f
  OBVIOUS
<1>2. [i \in DOMAIN <<f>> |-> Encode(<<f>>[i])] = <<Encode(f)>>
  BY <1>1
<1>3. [i \in DOMAIN <<f>> |-> Payload(<<f>>[i])] = <<Payload(f)>>
  BY <1>1
<1>4. FlattenSeq(<<Encode(f)>>) = Encode(f)
  BY MessageFieldType, FlattenOne
<1> QED BY <1>1, <1>2, <1>3, <1>4 DEF FieldBytes, Payloads

LEMMA FieldsType ==
    ASSUME NEW a \in Seq(MessageField)
    PROVE  /\ FieldBytes(a) \in Seq(Byte) /\ Len(FieldBytes(a)) \in Nat
           /\ Payloads(a) \in Seq(Value) /\ Len(Payloads(a)) = Len(a)
           /\ \A i \in 1 .. Len(a) : Payloads(a)[i] = Payload(a[i])
<1>1. FieldBytes(a) \in Seq(Byte)
  BY Pieces, FlattenAppend DEF FieldBytes
<1>2. DOMAIN a = 1 .. Len(a) /\ Len(a) \in Nat
  OBVIOUS
<1>3. \A i \in 1 .. Len(a) : Payload(a[i]) \in Value
  BY MessageFieldType
<1> DEFINE len == Len(a)
           payloads == [i \in 1 .. len |-> Payload(a[i])]
<1>4. payloads \in [1 .. len -> Value]
  BY <1>3
<1>5. payloads \in Seq(Value) /\ Len(payloads) = len
  <2> HIDE DEF payloads
  <2> QED BY <1>2, <1>4
<1>6. Payloads(a) = payloads
  BY <1>2 DEF Payloads
<1>7. \A i \in 1 .. len : payloads[i] = Payload(a[i])
  OBVIOUS
<1> HIDE DEF payloads
<1> QED BY <1>1, <1>5, <1>6, <1>7

LEMMA FieldsJoined ==
    ASSUME NEW a \in Seq(MessageField), NEW b \in Seq(MessageField)
    PROVE  /\ a \o b \in Seq(MessageField)
           /\ FieldBytes(a \o b) = FieldBytes(a) \o FieldBytes(b)
           /\ Payloads(a \o b) = Payloads(a) \o Payloads(b)
           /\ Len(FieldBytes(a \o b)) = Len(FieldBytes(a)) + Len(FieldBytes(b))
<1> DEFINE ab == a \o b
           Piece(s) == [i \in DOMAIN s |-> Encode(s[i])]
<1>1. /\ ab \in Seq(MessageField) /\ Len(ab) = Len(a) + Len(b) /\ Len(a) \in Nat /\ Len(b) \in Nat
      /\ \A i \in 1 .. Len(a) : ab[i] = a[i]
      /\ \A i \in 1 .. Len(b) : ab[Len(a) + i] = b[i]
      /\ DOMAIN a = 1 .. Len(a) /\ DOMAIN b = 1 .. Len(b) /\ DOMAIN ab = 1 .. Len(ab)
  OBVIOUS
<1> HIDE DEF ab
<1>2. \A s \in Seq(MessageField) : Piece(s) \in Seq(Seq(Byte)) /\ Len(Piece(s)) = Len(s)
  BY Pieces
<1>3. \A s \in Seq(MessageField) : \A i \in 1 .. Len(s) : Piece(s)[i] = Encode(s[i])
  OBVIOUS
<1>4. Piece(ab) = Piece(a) \o Piece(b)
  <2> DEFINE pa == Piece(a)
             pb == Piece(b)
             pab == Piece(ab)
  <2>1. /\ pa \in Seq(Seq(Byte)) /\ pb \in Seq(Seq(Byte)) /\ pab \in Seq(Seq(Byte))
        /\ Len(pa) = Len(a) /\ Len(pb) = Len(b) /\ Len(pab) = Len(ab)
    BY <1>1, <1>2
  <2>2. /\ \A i \in 1 .. Len(a) : pa[i] = Encode(a[i])
        /\ \A i \in 1 .. Len(b) : pb[i] = Encode(b[i])
        /\ \A i \in 1 .. Len(ab) : pab[i] = Encode(ab[i])
    BY <1>1, <1>3
  <2> HIDE DEF pa, pb, pab, Piece
  <2>3. \A i \in 1 .. Len(pa) : pab[i] = pa[i]
    BY <1>1, <2>1, <2>2
  <2>4. ASSUME NEW i \in 1 .. Len(pb)
        PROVE  pab[Len(pa) + i] = pb[i]
    <3>1. i \in 1 .. Len(b) /\ Len(a) + i \in 1 .. Len(ab)
      BY <1>1, <2>1
    <3>2. pab[Len(a) + i] = Encode(ab[Len(a) + i]) /\ pb[i] = Encode(b[i])
      BY <2>2, <3>1
    <3>3. ab[Len(a) + i] = b[i]
      BY <1>1, <3>1
    <3> QED BY <2>1, <3>2, <3>3
  <2>5. pab = pa \o pb
    <3>1. Consists(pab, pa, pb)
      BY <1>1, <2>1, <2>3, <2>4 DEF Consists
    <3> QED BY <2>1, <3>1, IsConcatenation
  <2> QED BY <2>5 DEF pa, pb, pab
<1>5. FieldBytes(ab) = FieldBytes(a) \o FieldBytes(b)
  <2> HIDE DEF Piece
  <2>1. FlattenSeq(Piece(a) \o Piece(b)) = FlattenSeq(Piece(a)) \o FlattenSeq(Piece(b))
    BY <1>2, FlattenJoin
  <2> QED BY <1>4, <2>1 DEF FieldBytes, Piece
<1>6. Payloads(ab) = Payloads(a) \o Payloads(b)
  <2> DEFINE pa == Payloads(a)
             pb == Payloads(b)
             pab == Payloads(ab)
  <2>1. /\ pa \in Seq(Value) /\ pb \in Seq(Value) /\ pab \in Seq(Value)
        /\ Len(pa) = Len(a) /\ Len(pb) = Len(b) /\ Len(pab) = Len(ab)
    BY <1>1, FieldsType
  <2>2. /\ \A i \in 1 .. Len(a) : pa[i] = Payload(a[i])
        /\ \A i \in 1 .. Len(b) : pb[i] = Payload(b[i])
        /\ \A i \in 1 .. Len(ab) : pab[i] = Payload(ab[i])
    BY <1>1, FieldsType
  <2> HIDE DEF pa, pb, pab
  <2>3. \A i \in 1 .. Len(pa) : pab[i] = pa[i]
    BY <1>1, <2>1, <2>2
  <2>4. ASSUME NEW i \in 1 .. Len(pb)
        PROVE  pab[Len(pa) + i] = pb[i]
    <3>1. i \in 1 .. Len(b) /\ Len(a) + i \in 1 .. Len(ab)
      BY <1>1, <2>1
    <3>2. pab[Len(a) + i] = Payload(ab[Len(a) + i]) /\ pb[i] = Payload(b[i])
      BY <2>2, <3>1
    <3>3. ab[Len(a) + i] = b[i]
      BY <1>1, <3>1
    <3> QED BY <2>1, <3>2, <3>3
  <2>5. pab = pa \o pb
    <3>1. Consists(pab, pa, pb)
      BY <1>1, <2>1, <2>3, <2>4 DEF Consists
    <3> QED BY <2>1, <3>1, IsConcatenation
  <2> QED BY <2>5 DEF pa, pb, pab
<1>7. Len(FieldBytes(a) \o FieldBytes(b)) = Len(FieldBytes(a)) + Len(FieldBytes(b))
  BY FieldsType
<1> QED BY <1>1, <1>5, <1>6, <1>7 DEF ab

-----------------------------------------------------------------------------
\* Where a parser stands that did not throw: what it has read, and how far.
Places == {Got(p[1], p[2]) : p \in Seq(Value) \X Nat}

\* The bytes there are those of the fields, and where it stands behind them.
There(bytes, so, fields) ==
    /\ Agrees(bytes, FieldBytes(fields), so.next)
    /\ so.next + Len(FieldBytes(fields)) <= Len(bytes)

After(so, fields) == Got(so.value \o Payloads(fields), so.next + Len(FieldBytes(fields)))

LEMMA PlaceType ==
    /\ \A v \in Seq(Value), x \in Nat : Got(v, x) \in Places
    /\ \A so \in Places : /\ ~so.threw /\ so.value \in Seq(Value) /\ so.next \in Nat
                          /\ so = Got(so.value, so.next)
<1>1. ASSUME NEW v \in Seq(Value), NEW x \in Nat
      PROVE  Got(v, x) \in Places
  <2>1. <<v, x>> \in Seq(Value) \X Nat /\ <<v, x>>[1] = v /\ <<v, x>>[2] = x
    OBVIOUS
  <2> QED BY <2>1, Zenon DEF Places
<1>2. ASSUME NEW so \in Places
      PROVE  /\ ~so.threw /\ so.value \in Seq(Value) /\ so.next \in Nat
             /\ so = Got(so.value, so.next)
  <2>1. PICK p \in Seq(Value) \X Nat : so = Got(p[1], p[2])
    BY Zenon DEF Places
  <2>2. p[1] \in Seq(Value) /\ p[2] \in Nat
    OBVIOUS
  <2> QED BY <2>1, <2>2, GotFields
<1> QED BY <1>1, <1>2

\* After no field, after some, and after more.
LEMMA AfterType ==
    ASSUME NEW so \in Places, NEW a \in Seq(MessageField)
    PROVE  /\ After(so, a) \in Places
           /\ After(so, a).value = so.value \o Payloads(a)
           /\ After(so, a).next = so.next + Len(FieldBytes(a))
           /\ After(so, <<>>) = so
<1>1. /\ ~so.threw /\ so.value \in Seq(Value) /\ so.next \in Nat /\ so = Got(so.value, so.next)
  BY PlaceType
<1>2. so.value \o Payloads(a) \in Seq(Value)
  BY <1>1, FieldsType
<1>3. so.next + Len(FieldBytes(a)) \in Nat
  BY <1>1, FieldsType
<1>4. After(so, a) \in Places
  BY <1>2, <1>3, PlaceType DEF After
<1>5. so.value \o <<>> = so.value /\ so.next + 0 = so.next
  BY <1>1
<1>6. After(so, <<>>) = so
  <2>1. Payloads(<<>>) = <<>> /\ Len(FieldBytes(<<>>)) = 0
    BY NoFields
  <2>2. After(so, <<>>) = Got(so.value \o <<>>, so.next + 0)
    BY <2>1, Zenon DEF After
  <2> QED BY <1>1, <1>5, <2>2, Zenon
<1> QED BY <1>4, <1>6, GotFields, Zenon DEF After

LEMMA AfterBoth ==
    ASSUME NEW so \in Places, NEW a \in Seq(MessageField), NEW b \in Seq(MessageField)
    PROVE  After(After(so, a), b) = After(so, a \o b)
<1> DEFINE v == so.value
           pa == Payloads(a)
           pb == Payloads(b)
           x == so.next
           la == Len(FieldBytes(a))
           lb == Len(FieldBytes(b))
<1>1. v \in Seq(Value) /\ x \in Nat
  BY PlaceType
<1>2. pa \in Seq(Value) /\ pb \in Seq(Value) /\ la \in Nat /\ lb \in Nat
  BY FieldsType
<1>3. Payloads(a \o b) = pa \o pb /\ Len(FieldBytes(a \o b)) = la + lb
  BY FieldsJoined
<1>4. After(so, a).value = v \o pa /\ After(so, a).next = x + la
  BY AfterType
<1>5. (v \o pa) \o pb = v \o (pa \o pb) /\ (x + la) + lb = x + (la + lb)
  <2> HIDE DEF v, x, pa, pb, la, lb
  <2> QED BY <1>1, <1>2
<1>6. After(After(so, a), b) = Got((v \o pa) \o pb, (x + la) + lb)
  BY <1>4, Zenon DEF After
<1>7. After(so, a \o b) = Got(v \o (pa \o pb), x + (la + lb))
  BY <1>3, Zenon DEF After
<1> QED BY <1>5, <1>6, <1>7, Zenon

\* Fields behind others are there when all of them are.
LEMMA BothAreThere ==
    ASSUME NEW bytes \in Seq(Byte), NEW so \in Places,
           NEW a \in Seq(MessageField), NEW b \in Seq(MessageField), There(bytes, so, a \o b)
    PROVE  There(bytes, so, a) /\ There(bytes, After(so, a), b)
<1> DEFINE fa == FieldBytes(a)
           fb == FieldBytes(b)
           x == so.next
<1>1. x \in Nat /\ fa \in Seq(Byte) /\ fb \in Seq(Byte) /\ Len(fa) \in Nat /\ Len(fb) \in Nat
  BY PlaceType, FieldsType
<1>2. FieldBytes(a \o b) = fa \o fb /\ Len(FieldBytes(a \o b)) = Len(fa) + Len(fb)
  BY FieldsJoined
<1>3. Agrees(bytes, fa \o fb, x) /\ x + (Len(fa) + Len(fb)) <= Len(bytes)
  BY <1>2, Zenon DEF There
<1>4. After(so, a).next = x + Len(fa)
  BY AfterType
<1> HIDE DEF fa, fb, x
<1>5. Agrees(bytes, fa, x) /\ Agrees(bytes, fb, x + Len(fa))
  BY <1>1, <1>3, AgreesWithParts, Zenon
<1>6. x + Len(fa) <= Len(bytes) /\ (x + Len(fa)) + Len(fb) <= Len(bytes)
  <2>1. Len(bytes) \in Nat
    OBVIOUS
  <2> QED BY <1>1, <1>3, <2>1
<1> QED BY <1>4, <1>5, <1>6, Zenon DEF There, fa, fb, x

-----------------------------------------------------------------------------
\* A parser may read a string as one that cannot be null, unless it is.
ReadAs(type, field) == type = field.type \/ (type = "text" /\ field.type = "string" /\ field.value # Null)

\* One field is read.
LEMMA FieldIsRead ==
    ASSUME NEW bytes \in Seq(Byte), NEW so \in Places, NEW f \in MessageField, NEW type,
           ReadAs(type, f), There(bytes, so, <<f>>)
    PROVE  ReadField(bytes, type, so) = After(so, <<f>>)
<1> DEFINE x == so.next
<1>1. so.value \in Seq(Value) /\ x \in Nat /\ ~so.threw
  BY PlaceType
<1>2. /\ ProperField(f) /\ f.type \in NumberTypes \cup {"string"}
      /\ Encode(f) \in Seq(Byte) /\ Payload(f) \in Value
  BY MessageFieldType
<1>3. Agrees(bytes, Encode(f), x) /\ x + Len(Encode(f)) <= Len(bytes)
  BY OneField, Zenon DEF There
<1>4. Decode(bytes, f.type, x) = Got(Payload(f), x + Len(Encode(f)))
  <2>1. ReadsAgain(Decode(bytes, f.type, x), Payload(f), x + Len(Encode(f)), Len(bytes))
    BY <1>1, <1>2, <1>3, FieldIsReadAgain
  <2> QED BY <1>3, <2>1 DEF ReadsAgain
<1>5. DecodeField(bytes, type, x) = Decode(bytes, f.type, x)
  <2>1. CASE type = f.type
    <3>1. f.type # "text"
      BY <1>2 DEF NumberTypes
    <3> QED BY <2>1, <3>1 DEF DecodeField
  <2>2. CASE type = "text" /\ f.type = "string" /\ f.value # Null
    <3> DEFINE n == f.value
               t == "string"
               number == DecodeNumber(bytes, t, x)
    <3>1. t \in LongTypes /\ t \in TextTypes /\ t \notin CompactTypes /\ t \in FixedTypes /\ t \notin NumberTypes
          /\ t \notin ArrayTypes
      BY DEF LongTypes, TextTypes, CompactTypes, FixedTypes, Types, NumberTypes, ArrayTypes
    <3> HIDE DEF t
    <3>2. n \in Nat /\ InRange(t, n)
      <4>1. f.type = t
        BY <2>2 DEF t
      <4> QED BY <1>2, <2>2, <3>1, <4>1 DEF ProperField, Encodable
    <3>3. Encode(f) = EncodeLength(t, n) \o Content(n)
      <4>1. f.type = t /\ n # Null
        BY <2>2 DEF t
      <4>2. Encode(f) = EncodeText(t, n)
        BY <3>1, <4>1 DEF Encode
      <4> QED BY <4>1, <4>2 DEF EncodeText
    <3>4. EncodeLength(t, n) = EncodeNumber(Width(t), n)
      <4>1. n # Null
        BY <2>2
      <4> QED BY <3>1, <4>1 DEF EncodeLength
    <3>5. /\ EncodeLength(t, n) \in Seq(Byte) /\ Len(EncodeLength(t, n)) = Width(t)
          /\ Content(n) \in Seq(Byte) /\ Width(t) \in Nat
      <4>1. n # Null /\ n \in Nat \cup {Null}
        BY <2>2, <3>2
      <4> HIDE DEF n
      <4>2. EncodeLength(t, n) \in Seq(Byte) /\ Len(EncodeLength(t, n)) = Width(t)
        BY <3>1, <4>1, LengthBytes
      <4>3. Content(n) \in Seq(Byte)
        BY <3>1, <4>1, TextBytes
      <4>4. Width(t) \in 1 .. 8
        BY <3>1, WidthType
      <4> QED BY <4>2, <4>3, <4>4
    <3>6. Agrees(bytes, EncodeNumber(Width(t), n), x)
      BY <1>1, <1>3, <3>3, <3>4, <3>5, AgreesWithParts
    <3>7. x + Width(t) <= Len(bytes)
      <4>1. Len(Encode(f)) = Width(t) + Len(Content(n)) /\ Len(Content(n)) \in Nat /\ Len(bytes) \in Nat
        <5> DEFINE a == EncodeLength(t, n)
                   b == Content(n)
        <5>1. a \in Seq(Byte) /\ b \in Seq(Byte) /\ Len(a) = Width(t) /\ Encode(f) = a \o b
          BY <3>3, <3>5
        <5> HIDE DEF a, b
        <5>2. Len(a \o b) = Len(a) + Len(b) /\ Len(b) \in Nat
          <6>1. a \in Seq(Byte) /\ b \in Seq(Byte)
            BY <5>1
          <6> QED BY <6>1
        <5>3. Len(bytes) \in Nat
          OBVIOUS
        <5> QED BY <5>1, <5>2, <5>3 DEF b
      <4> QED BY <1>1, <1>3, <3>5, <4>1
    <3>8. number = Got(n, x + Width(t))
      <4>1. n \in Int /\ ~(x + Width(t) > Len(bytes))
        BY <1>1, <3>2, <3>5, <3>7
      <4> HIDE DEF n, x, number
      <4>2. DecodeNumber(bytes, t, x) = Got(n, x + Width(t))
        BY <1>1, <3>1, <3>2, <3>6, <4>1, NumberIsReadAgain
      <4> QED BY <4>2 DEF number
    <3>9. AsLength(t, number) = number
      <4>1. ~(n < 0)
        BY <3>2
      <4> HIDE DEF number, n
      <4> QED BY <3>1, <3>8, <4>1, GotFields DEF AsLength
    <3>10. Decode(bytes, f.type, x) = Text(bytes, AsLength(t, number))
      <4>1. f.type = t
        BY <2>2 DEF t
      <4> QED BY <3>1, <4>1 DEF Decode, DecodeText, DecodeLength
    <3>11. DecodeField(bytes, type, x) = Text(bytes, number)
      BY <2>2 DEF DecodeField, t
    <3> QED BY <3>9, <3>10, <3>11
  <2> QED BY <2>1, <2>2 DEF ReadAs
<1>6. AppendElement(so, Got(Payload(f), x + Len(Encode(f)))) = Got(Append(so.value, Payload(f)), x + Len(Encode(f)))
  BY <1>1, GotFields DEF AppendElement
<1>7. Append(so.value, Payload(f)) = so.value \o <<Payload(f)>>
  <2> DEFINE v == so.value
             y == Payload(f)
  <2>1. v \in Seq(Value) /\ y \in Value
    BY <1>1, <1>2
  <2> HIDE DEF v, y
  <2>2. Append(v, y) = v \o <<y>>
    BY <2>1
  <2> QED BY <2>2 DEF v, y
<1>8. After(so, <<f>>) = Got(so.value \o <<Payload(f)>>, x + Len(Encode(f)))
  BY OneField, Zenon DEF After
<1> QED BY <1>4, <1>5, <1>6, <1>7, <1>8 DEF ReadField

-----------------------------------------------------------------------------
\* A sequence of fields that grows by one piece after the other.
Grows(before, piece, n) ==
    /\ before[0] = <<>>
    /\ \A k \in 0 .. n : before[k] \in Seq(MessageField)
    /\ \A k \in 1 .. n : piece[k] \in Seq(MessageField) /\ before[k] = before[k - 1] \o piece[k]

\* The place before each piece.
At(so, before, k) == After(so, before[k])

\* When all pieces are there, each is there behind those before it.
LEMMA PiecesAreThere ==
    ASSUME NEW bytes \in Seq(Byte), NEW so \in Places, NEW n \in Nat, NEW before, NEW piece,
           Grows(before, piece, n), There(bytes, so, before[n])
    PROVE  /\ At(so, before, 0) = so
           /\ \A k \in 1 .. n : /\ At(so, before, k - 1) \in Places
                                /\ There(bytes, At(so, before, k - 1), piece[k])
                                /\ After(At(so, before, k - 1), piece[k]) = At(so, before, k)
<1>1. /\ before[0] = <<>>
      /\ \A k \in 0 .. n : before[k] \in Seq(MessageField)
      /\ \A k \in 1 .. n : piece[k] \in Seq(MessageField) /\ before[k] = before[k - 1] \o piece[k]
  BY Zenon DEF Grows
<1>2. At(so, before, 0) = so
  BY <1>1, NoFields, AfterType, Zenon DEF At
<1>3. \A k \in 0 .. n : There(bytes, so, before[k])
  <2> DEFINE T == {i \in Nat : i <= n => There(bytes, so, before[n - i])}
  <2>1. 0 \in T
    <3>1. n - 0 = n
      OBVIOUS
    <3> QED BY <3>1
  <2>2. ASSUME NEW i \in Nat, i \in T
        PROVE  i + 1 \in T
    <3> SUFFICES ASSUME i + 1 <= n PROVE There(bytes, so, before[n - (i + 1)])
      OBVIOUS
    <3> DEFINE k == n - i
    <3>1. k \in 1 .. n /\ k \in 0 .. n /\ k - 1 \in 0 .. n /\ k - 1 = n - (i + 1) /\ i <= n
      OBVIOUS
    <3>2. There(bytes, so, before[k])
      BY <2>2, <3>1
    <3> HIDE DEF k, T
    <3>3. /\ before[k - 1] \in Seq(MessageField) /\ piece[k] \in Seq(MessageField)
          /\ before[k] = before[k - 1] \o piece[k]
      BY <1>1, <3>1
    <3>4. There(bytes, so, before[k - 1] \o piece[k])
      BY <3>2, <3>3
    <3>5. There(bytes, so, before[k - 1])
      BY <3>3, <3>4, BothAreThere, Zenon
    <3> QED BY <3>1, <3>5
  <2> HIDE DEF T
  <2>3. \A i \in Nat : i \in T
    BY <2>1, <2>2, Induction
  <2>4. ASSUME NEW k \in 0 .. n
        PROVE  There(bytes, so, before[k])
    <3>1. n - k \in Nat /\ n - k <= n /\ n - (n - k) = k
      OBVIOUS
    <3>2. n - k \in T
      BY <2>3, <3>1
    <3> QED BY <3>1, <3>2 DEF T
  <2> QED BY <2>4
<1>4. ASSUME NEW k \in 1 .. n
      PROVE  /\ At(so, before, k - 1) \in Places
             /\ There(bytes, At(so, before, k - 1), piece[k])
             /\ After(At(so, before, k - 1), piece[k]) = At(so, before, k)
  <2>1. k \in 0 .. n /\ k - 1 \in 0 .. n
    OBVIOUS
  <2>2. /\ before[k - 1] \in Seq(MessageField) /\ piece[k] \in Seq(MessageField)
        /\ before[k] = before[k - 1] \o piece[k]
    BY <1>1, <2>1
  <2>3. There(bytes, so, before[k - 1] \o piece[k])
    BY <1>3, <2>1, <2>2
  <2>4. After(so, before[k - 1]) \in Places
    BY <2>2, AfterType, Zenon
  <2>5. There(bytes, After(so, before[k - 1]), piece[k])
    BY <2>2, <2>3, BothAreThere, Zenon
  <2>6. After(After(so, before[k - 1]), piece[k]) = After(so, before[k])
    BY <2>2, AfterBoth, Zenon
  <2> QED BY <2>4, <2>5, <2>6 DEF At
<1> QED BY <1>2, <1>4

\* The fields of a sequence, one by one, and the elements of an array.
LEMMA FieldByField ==
    ASSUME NEW fields \in Seq(MessageField)
    PROVE  \E before, piece : /\ Grows(before, piece, Len(fields))
                              /\ before[Len(fields)] = fields
                              /\ \A k \in 1 .. Len(fields) : piece[k] = <<fields[k]>>
<1> DEFINE n == Len(fields)
           before == [k \in 0 .. n |-> SubSeq(fields, 1, k)]
           piece == [k \in 1 .. n |-> <<fields[k]>>]
<1>1. n \in Nat
  OBVIOUS
<1>2. ASSUME NEW k \in 0 .. n
      PROVE  /\ SubSeq(fields, 1, k) \in Seq(MessageField) /\ Len(SubSeq(fields, 1, k)) = k
             /\ \A i \in 1 .. k : SubSeq(fields, 1, k)[i] = fields[i]
  OBVIOUS
<1>3. before[0] = <<>>
  BY <1>1
<1>4. before[n] = fields
  BY <1>1
<1>5. \A k \in 0 .. n : before[k] \in Seq(MessageField)
  BY <1>2
<1>6. ASSUME NEW k \in 1 .. n
      PROVE  piece[k] \in Seq(MessageField) /\ before[k] = before[k - 1] \o piece[k]
  <2> DEFINE a == SubSeq(fields, 1, k - 1)
             b == <<fields[k]>>
             c == SubSeq(fields, 1, k)
  <2>1. k \in 0 .. n /\ k - 1 \in 0 .. n
    BY <1>1
  <2>2. /\ a \in Seq(MessageField) /\ Len(a) = k - 1 /\ \A i \in 1 .. k - 1 : a[i] = fields[i]
        /\ c \in Seq(MessageField) /\ Len(c) = k /\ \A i \in 1 .. k : c[i] = fields[i]
    BY <1>2, <2>1
  <2>3. b \in Seq(MessageField) /\ Len(b) = 1 /\ b[1] = fields[k]
    OBVIOUS
  <2>4. before[k] = c /\ before[k - 1] = a /\ piece[k] = b
    BY <2>1
  <2> HIDE DEF a, b, c, before, piece
  <2>5. Consists(c, a, b)
    BY <1>1, <2>2, <2>3 DEF Consists
  <2>6. c = a \o b
    BY <2>2, <2>3, <2>5, IsConcatenation
  <2> QED BY <2>3, <2>4, <2>6
<1>7. \A k \in 1 .. n : piece[k] = <<fields[k]>>
  OBVIOUS
<1> HIDE DEF before, piece
<1>8. Grows(before, piece, n)
  BY <1>3, <1>5, <1>6 DEF Grows
<1> QED BY <1>4, <1>7, <1>8

LEMMA ElementByElement ==
    ASSUME NEW elements \in Seq(Seq(MessageField))
    PROVE  \E before : /\ Grows(before, elements, Len(elements))
                       /\ before[Len(elements)] = FlattenSeq(elements)
<1> DEFINE n == Len(elements)
           before == [k \in 0 .. n |-> FlattenSeq(SubSeq(elements, 1, k))]
<1>1. n \in Nat /\ \A k \in 1 .. n : elements[k] \in Seq(MessageField)
  OBVIOUS
<1>2. /\ \A k \in 0 .. n : FlattenSeq(SubSeq(elements, 1, k)) \in Seq(MessageField)
      /\ FlattenSeq(SubSeq(elements, 1, 0)) = <<>>
      /\ SubSeq(elements, 1, n) = elements
      /\ \A k \in 1 .. n : FlattenSeq(SubSeq(elements, 1, k))
                               = FlattenSeq(SubSeq(elements, 1, k - 1)) \o elements[k]
  BY JoinStep
<1>3. 0 \in 0 .. n /\ n \in 0 .. n /\ \A k \in 1 .. n : k \in 0 .. n /\ k - 1 \in 0 .. n
  BY <1>1
<1>4. \A k \in 0 .. n : before[k] = FlattenSeq(SubSeq(elements, 1, k))
  OBVIOUS
<1> HIDE DEF before, n
<1>5. before[0] = <<>> /\ before[n] = FlattenSeq(elements)
  BY <1>2, <1>3, <1>4
<1>6. \A k \in 0 .. n : before[k] \in Seq(MessageField)
  BY <1>2, <1>4
<1>7. ASSUME NEW k \in 1 .. n
      PROVE  before[k] = before[k - 1] \o elements[k]
  BY <1>2, <1>3, <1>4
<1>8. Grows(before, elements, n)
  BY <1>1, <1>5, <1>6, <1>7 DEF Grows
<1> QED BY <1>5, <1>8 DEF n

\* Two functions that begin with the same value and go on in the same way.
InStep(f, h, n) == f[0] = h[0] /\ \A i \in 1 .. n : f[i - 1] = h[i - 1] => f[i] = h[i]

LEMMA SameSteps ==
    ASSUME NEW n \in Nat, NEW f, NEW h, InStep(f, h, n)
    PROVE  f[n] = h[n]
<1> DEFINE T == {i \in Nat : i <= n => f[i] = h[i]}
<1>1. 0 \in T
  BY DEF InStep
<1>2. ASSUME NEW i \in Nat, i \in T
      PROVE  i + 1 \in T
  <2> SUFFICES ASSUME i + 1 <= n PROVE f[i + 1] = h[i + 1]
    OBVIOUS
  <2>1. i + 1 \in 1 .. n /\ (i + 1) - 1 = i /\ i <= n
    OBVIOUS
  <2> QED BY <1>2, <2>1 DEF InStep
<1> HIDE DEF T
<1>3. \A i \in Nat : i \in T
  BY <1>1, <1>2, Induction
<1> QED BY <1>3 DEF T

\* Types with which a parser may read these fields.
Matches(types, fields) ==
    /\ Len(types) = Len(fields)
    /\ \A i \in 1 .. Len(fields) : ReadAs(types[i], fields[i])

\* Fields are read one after the other.
LEMMA FieldsAreRead ==
    ASSUME NEW bytes \in Seq(Byte), NEW so \in Places, NEW fields \in Seq(MessageField), NEW types,
           Matches(types, fields), There(bytes, so, fields)
    PROVE  Reads(bytes, so, types) = After(so, fields)
<1> DEFINE n == Len(types)
           upTo == CHOOSE f : f = [i \in 0 .. n |-> IF i = 0 THEN so
                                                     ELSE ReadField(bytes, types[i], f[i - 1])]
<1>1. Reads(bytes, so, types) = upTo[n]
  BY DEF Reads
<1>2. n \in Nat /\ n = Len(fields) /\ \A i \in 1 .. n : ReadAs(types[i], fields[i])
  BY DEF Matches
<1>3. PICK before, piece : /\ Grows(before, piece, Len(fields))
                           /\ before[Len(fields)] = fields
                           /\ \A k \in 1 .. Len(fields) : piece[k] = <<fields[k]>>
  BY FieldByField
<1> DEFINE h == [i \in 0 .. n |-> At(so, before, i)]
<1>4. /\ At(so, before, 0) = so
      /\ \A k \in 1 .. n : /\ At(so, before, k - 1) \in Places
                           /\ There(bytes, At(so, before, k - 1), piece[k])
                           /\ After(At(so, before, k - 1), piece[k]) = At(so, before, k)
  <2>1. Grows(before, piece, n) /\ There(bytes, so, before[n])
    BY <1>2, <1>3
  <2> HIDE DEF n
  <2> QED BY <1>2, <2>1, PiecesAreThere
<1>5. ASSUME NEW k \in 1 .. n
      PROVE  ReadField(bytes, types[k], At(so, before, k - 1)) = At(so, before, k)
  <2>1. fields[k] \in MessageField /\ piece[k] = <<fields[k]>> /\ ReadAs(types[k], fields[k])
    BY <1>2, <1>3
  <2>2. /\ At(so, before, k - 1) \in Places
        /\ There(bytes, At(so, before, k - 1), <<fields[k]>>)
        /\ After(At(so, before, k - 1), <<fields[k]>>) = At(so, before, k)
    BY <1>4, <2>1
  <2> DEFINE place == At(so, before, k - 1)
  <2> HIDE DEF place
  <2>3. ReadField(bytes, types[k], At(so, before, k - 1)) = After(At(so, before, k - 1), <<fields[k]>>)
    BY <2>1, <2>2, FieldIsRead
  <2> QED BY <2>2, <2>3
<1> DEFINE Solves(f) == f = [i \in 0 .. n |-> IF i = 0 THEN so
                                              ELSE ReadField(bytes, types[i], f[i - 1])]
<1>6. Solves(h)
  <2>1. 0 \in 0 .. n /\ \A i \in 0 .. n : i # 0 => i \in 1 .. n /\ i - 1 \in 0 .. n
    BY <1>2
  <2>2. \A i \in 0 .. n : h[i] = At(so, before, i)
    OBVIOUS
  <2>3. ASSUME NEW i \in 0 .. n
        PROVE  h[i] = IF i = 0 THEN so ELSE ReadField(bytes, types[i], h[i - 1])
    <3> HIDE DEF h
    <3> QED BY <1>4, <1>5, <2>1, <2>2
  <2>4. h = [i \in 0 .. n |-> h[i]]
    OBVIOUS
  <2> HIDE DEF h, n
  <2> QED BY <2>3, <2>4
<1>7. Solves(upTo)
  <2>1. upTo = CHOOSE f : Solves(f)
    OBVIOUS
  <2> HIDE DEF Solves, upTo, h
  <2> QED BY <1>6, <2>1, Zenon
<1>8. upTo[0] = so /\ \A i \in 1 .. n : upTo[i] = ReadField(bytes, types[i], upTo[i - 1])
  <2>1. 0 \in 0 .. n /\ \A i \in 1 .. n : i \in 0 .. n /\ i # 0
    BY <1>2
  <2> HIDE DEF upTo, h, n
  <2>2. upTo[0] = so
    BY <1>7, <2>1
  <2>3. ASSUME NEW i \in 1 .. n
        PROVE  upTo[i] = ReadField(bytes, types[i], upTo[i - 1])
    BY <1>7, <2>1
  <2> QED BY <2>2, <2>3
<1>9. InStep(upTo, h, n)
  <2>1. \A i \in 1 .. n : i \in 0 .. n /\ i - 1 \in 0 .. n
    BY <1>2
  <2>2. h[0] = At(so, before, 0) /\ \A i \in 1 .. n : h[i] = At(so, before, i) /\ h[i - 1] = At(so, before, i - 1)
    BY <1>2, <2>1
  <2> HIDE DEF upTo, h, n
  <2> QED BY <1>4, <1>5, <1>8, <2>2 DEF InStep
<1>10. upTo[n] = h[n]
  <2> HIDE DEF upTo, h, n
  <2> QED BY <1>2, <1>9, SameSteps
<1>11. h[n] = After(so, fields)
  BY <1>2, <1>3 DEF At
<1> QED BY <1>1, <1>10, <1>11

-----------------------------------------------------------------------------
\* Pieces that are not empty are no more than there are bytes.
LEMMA PiecesCount ==
    ASSUME NEW bytes \in Seq(Byte), NEW so \in Places, NEW n \in Nat, NEW before, NEW piece,
           Grows(before, piece, n), There(bytes, so, before[n]),
           \A k \in 1 .. n : Len(FieldBytes(piece[k])) >= 1
    PROVE  n <= Len(bytes)
<1>1. /\ \A k \in 0 .. n : before[k] \in Seq(MessageField)
      /\ \A k \in 1 .. n : piece[k] \in Seq(MessageField) /\ before[k] = before[k - 1] \o piece[k]
  BY Zenon DEF Grows
<1> DEFINE Length(k) == Len(FieldBytes(before[k]))
           T == {k \in Nat : k <= n => Length(k) >= k}
<1>2. \A k \in 0 .. n : Length(k) \in Nat
  BY <1>1, FieldsType
<1>3. ASSUME NEW k \in 1 .. n
      PROVE  Length(k) = Length(k - 1) + Len(FieldBytes(piece[k])) /\ Len(FieldBytes(piece[k])) \in Nat
  <2>1. k - 1 \in 0 .. n
    OBVIOUS
  <2>2. /\ before[k - 1] \in Seq(MessageField) /\ piece[k] \in Seq(MessageField)
        /\ before[k] = before[k - 1] \o piece[k]
    BY <1>1, <2>1
  <2>3. Len(FieldBytes(before[k - 1] \o piece[k])) = Len(FieldBytes(before[k - 1])) + Len(FieldBytes(piece[k]))
    BY <2>2, FieldsJoined, Zenon
  <2>4. Len(FieldBytes(piece[k])) \in Nat
    BY <2>2, FieldsType, Zenon
  <2> QED BY <2>2, <2>3, <2>4
<1> HIDE DEF Length
<1>4. 0 \in T
  <2>1. 0 \in 0 .. n
    OBVIOUS
  <2> QED BY <1>2, <2>1
<1>5. ASSUME NEW k \in Nat, k \in T
      PROVE  k + 1 \in T
  <2> SUFFICES ASSUME k + 1 <= n PROVE Length(k + 1) >= k + 1
    OBVIOUS
  <2>1. k + 1 \in 1 .. n /\ (k + 1) - 1 = k /\ k \in 0 .. n /\ k <= n
    OBVIOUS
  <2>2. Length(k + 1) = Length(k) + Len(FieldBytes(piece[k + 1])) /\ Len(FieldBytes(piece[k + 1])) \in Nat
    BY <1>3, <2>1
  <2>3. Len(FieldBytes(piece[k + 1])) >= 1 /\ Length(k) \in Nat /\ Length(k) >= k
    BY <1>2, <1>5, <2>1
  <2> DEFINE m == Len(FieldBytes(piece[k + 1]))
  <2> HIDE DEF m, T
  <2>4. m >= 1 /\ m \in Nat /\ Length(k + 1) = Length(k) + m
    BY <2>2, <2>3 DEF m
  <2> QED BY <2>3, <2>4
<1> HIDE DEF T
<1>6. \A k \in Nat : k \in T
  BY <1>4, <1>5, Induction
<1>7. Length(n) >= n
  BY <1>6 DEF T
<1>8. so.next + Length(n) <= Len(bytes)
  BY Zenon DEF There, Length
<1>9. so.next \in Nat /\ n \in 0 .. n /\ Len(bytes) \in Nat
  BY PlaceType
<1>10. Length(n) \in Nat
  BY <1>2, <1>9
<1> QED BY <1>7, <1>8, <1>9, <1>10

\* Fields have bytes.
LEMMA FieldsTakeBytes ==
    ASSUME NEW fields \in Seq(MessageField), Len(fields) >= 1
    PROVE  Len(FieldBytes(fields)) >= 1
<1>1. PICK before, piece : /\ Grows(before, piece, Len(fields))
                           /\ before[Len(fields)] = fields
                           /\ \A k \in 1 .. Len(fields) : piece[k] = <<fields[k]>>
  BY FieldByField
<1> DEFINE n == Len(fields)
<1>2. n \in 1 .. n /\ n - 1 \in 0 .. n
  OBVIOUS
<1>3. /\ before[n - 1] \in Seq(MessageField) /\ <<fields[n]>> \in Seq(MessageField)
      /\ fields = before[n - 1] \o <<fields[n]>>
  <2> HIDE DEF n
  <2> QED BY <1>1, <1>2 DEF Grows, n
<1>4. fields[n] \in MessageField
  OBVIOUS
<1>5. Len(FieldBytes(<<fields[n]>>)) >= 1
  BY <1>4, OneField, MessageFieldType
<1>6. Len(FieldBytes(fields)) = Len(FieldBytes(before[n - 1])) + Len(FieldBytes(<<fields[n]>>))
  <2> DEFINE a == before[n - 1]
             b == <<fields[n]>>
  <2>1. a \in Seq(MessageField) /\ b \in Seq(MessageField) /\ fields = a \o b
    BY <1>3
  <2> HIDE DEF a, b
  <2>2. Len(FieldBytes(a \o b)) = Len(FieldBytes(a)) + Len(FieldBytes(b))
    BY <2>1, FieldsJoined, Zenon
  <2> QED BY <2>1, <2>2 DEF a, b
<1>7. Len(FieldBytes(before[n - 1])) \in Nat /\ Len(FieldBytes(<<fields[n]>>)) \in Nat
  BY <1>3, FieldsType
<1> QED BY <1>5, <1>6, <1>7

\* The numbers of messages have 16 bits.
Short(n) == n \in Nat /\ n <= 32767

LEMMA SmallNumbers ==
    ASSUME NEW n, Short(n)
    PROVE  /\ Field("int16", n) \in MessageField /\ Field("int32", n) \in MessageField
           /\ Field("string", n) \in MessageField
           /\ n <= 1 => Field("boolean", n) \in MessageField
           /\ n \in Nat
<1> USE DEF Short
<1>1. /\ Shifted(n, 0) = n
      /\ Shifted(n, 1) = Shifted(n, 0) \div 256
      /\ Shifted(n, 2) = Shifted(n, 1) \div 256
      /\ Shifted(n, 3) = Shifted(n, 2) \div 256
  <2>1. \A k \in Nat : Shifted(n, k + 1) = Shifted(n, k) \div 256
    BY ShiftedStep
  <2>2. 0 + 1 = 1 /\ 1 + 1 = 2 /\ 2 + 1 = 3 /\ 0 \in Nat /\ 1 \in Nat /\ 2 \in Nat
    OBVIOUS
  <2> QED BY <2>1, <2>2, ShiftedStep
<1>2. Shifted(n, 1) \in 0 .. 127
  BY <1>1
<1>3. Shifted(n, 2) = 0
  BY <1>1, <1>2
<1>4. Shifted(n, 3) = 0
  BY <1>1, <1>3
<1>5. InRange("int16", n) /\ InRange("string", n)
  <2>1. Width("int16") - 1 = 1 /\ Width("string") - 1 = 1
    BY DEF Width
  <2> QED BY <1>2, <2>1 DEF InRange, SignedTypes
<1>6. InRange("int32", n)
  <2>1. Width("int32") - 1 = 3
    BY DEF Width
  <2> QED BY <1>4, <2>1 DEF InRange, SignedTypes
<1>7. n <= 1 => InRange("boolean", n)
  <2>1. Width("boolean") - 1 = 0
    BY DEF Width
  <2> QED BY <1>1, <2>1 DEF InRange, SignedTypes
<1>8. ASSUME NEW type \in {"int16", "int32", "string", "boolean"}, InRange(type, n)
      PROVE  Field(type, n) \in MessageField
  <2>1. Field(type, n).type = type /\ Field(type, n).value = n
    BY DEF Field
  <2>2. type \in NumberTypes \cup {"string"} /\ type \in Types
    BY DEF NumberTypes, Types, TextTypes
  <2>3. Field(type, n) \in [type : NumberTypes \cup {"string"}, value : Int \cup {Null}]
    BY <2>2 DEF Field
  <2>4. ProperField(Field(type, n))
    BY <1>8, <2>1, <2>2 DEF ProperField, Encodable
  <2> QED BY <2>3, <2>4 DEF MessageField
<1> QED BY <1>5, <1>6, <1>7, <1>8

\* The length of an array, then its elements.
CountOf(n) == <<Field("int32", n)>>
Counted(elements) == CountOf(Len(elements)) \o FlattenSeq(elements)

ReadCount(bytes, so) == Reads(bytes, so, <<"int32">>)

\* A number is read.
LEMMA NumberIsRead ==
    ASSUME NEW bytes \in Seq(Byte), NEW so \in Places, NEW n \in Int,
           Field("int32", n) \in MessageField, There(bytes, so, CountOf(n))
    PROVE  /\ CountOf(n) \in Seq(MessageField)
           /\ ReadCount(bytes, so) = After(so, CountOf(n))
           /\ After(so, CountOf(n)).value = so.value \o <<n>>
<1> DEFINE f == Field("int32", n)
           count == CountOf(n)
           types == <<"int32">>
<1>1. f \in MessageField /\ f.type = "int32" /\ f.value = n
  BY DEF Field
<1> HIDE DEF f
<1>2. count \in Seq(MessageField) /\ Len(count) = 1 /\ count[1] = f
  BY <1>1 DEF CountOf, f
<1>3. Payloads(count) = <<n>>
  <2>1. Payload(f) = n
    BY <1>1 DEF Payload, NumberTypes
  <2>2. Payloads(<<f>>) = <<Payload(f)>>
    BY <1>1, OneField
  <2> QED BY <2>1, <2>2 DEF CountOf, f
<1>4. Matches(types, count)
  BY <1>1, <1>2 DEF ReadAs, Matches
<1>5. There(bytes, so, count)
  OBVIOUS
<1> HIDE DEF count, types
<1>6. Reads(bytes, so, types) = After(so, count)
  BY <1>2, <1>4, <1>5, FieldsAreRead
<1>7. After(so, count).value = so.value \o <<n>>
  BY <1>2, <1>3, AfterType
<1> QED BY <1>2, <1>6, <1>7 DEF types, count, ReadCount

\* What was read last is the count.
LEMMA CountIsLast ==
    ASSUME NEW so \in Places, NEW n \in Int
    PROVE  Last(so.value \o <<n>>) = n
<1> DEFINE v == so.value
<1>1. v \in Seq(Value) /\ n \in Value
  BY PlaceType DEF Value
<1> HIDE DEF v
<1>2. Last(v \o <<n>>) = n
  BY <1>1 DEF Last
<1> QED BY <1>2 DEF v

\* The count is read, and the elements are there behind it.
CountRead(bytes, so, n, rest) ==
    /\ ReadCount(bytes, so) \in Places
    /\ Last(ReadCount(bytes, so).value) = n
    /\ There(bytes, ReadCount(bytes, so), rest)
    /\ After(ReadCount(bytes, so), rest) = After(so, CountOf(n) \o rest)

LEMMA CountIsRead ==
    ASSUME NEW bytes \in Seq(Byte), NEW so \in Places, NEW n, Short(n),
           NEW rest \in Seq(MessageField), There(bytes, so, CountOf(n) \o rest)
    PROVE  CountRead(bytes, so, n, rest)
<1>1. n \in Int /\ Field("int32", n) \in MessageField
  BY SmallNumbers
<1>2. CountOf(n) \in Seq(MessageField)
  BY <1>1 DEF CountOf
<1>3. There(bytes, so, CountOf(n)) /\ There(bytes, After(so, CountOf(n)), rest)
  BY <1>2, BothAreThere, Zenon
<1>4. After(After(so, CountOf(n)), rest) = After(so, CountOf(n) \o rest)
  BY <1>2, AfterBoth, Zenon
<1>5. After(so, CountOf(n)) \in Places
  BY <1>2, AfterType, Zenon
<1>6. /\ ReadCount(bytes, so) = After(so, CountOf(n))
      /\ After(so, CountOf(n)).value = so.value \o <<n>>
  BY <1>1, <1>3, NumberIsRead, Zenon
<1>7. Last(After(so, CountOf(n)).value) = n
  BY <1>1, <1>6, CountIsLast, Zenon
<1> QED BY <1>3, <1>4, <1>5, <1>6, <1>7, Zenon DEF CountRead

\* The places of a loop: it starts where the elements are, and each round takes
\* it past one of them.
Walk(bytes, h, counted, elements) ==
    /\ h = [i \in 0 .. Len(elements) |-> h[i]]
    /\ h[0] = counted
    /\ \A k \in 1 .. Len(elements) :
           /\ h[k - 1] \in Places
           /\ There(bytes, h[k - 1], elements[k])
           /\ h[k] = After(h[k - 1], elements[k])
    /\ h[Len(elements)] = After(counted, FlattenSeq(elements))

AllMatch(types, elements) == \A k \in 1 .. Len(elements) : Matches(types, elements[k])

NotEmpty(elements) == \A k \in 1 .. Len(elements) : Len(FieldBytes(elements[k])) >= 1

LEMMA ElementsAreThere ==
    ASSUME NEW bytes \in Seq(Byte), NEW counted \in Places,
           NEW elements \in Seq(Seq(MessageField)), NotEmpty(elements),
           There(bytes, counted, FlattenSeq(elements))
    PROVE  Len(elements) <= Len(bytes) /\ \E h : Walk(bytes, h, counted, elements)
<1> DEFINE n == Len(elements)
<1>1. PICK before : Grows(before, elements, n) /\ before[n] = FlattenSeq(elements)
  BY ElementByElement
<1>2. n \in Nat
  OBVIOUS
<1>3. \A k \in 1 .. n : Len(FieldBytes(elements[k])) >= 1
  BY DEF NotEmpty
<1>4. There(bytes, counted, before[n])
  BY <1>1
<1> DEFINE h == [i \in 0 .. n |-> At(counted, before, i)]
<1>5. n <= Len(bytes)
  <2> HIDE DEF n
  <2> QED BY <1>1, <1>2, <1>3, <1>4, PiecesCount
<1>6. /\ At(counted, before, 0) = counted
      /\ \A k \in 1 .. n : /\ At(counted, before, k - 1) \in Places
                           /\ There(bytes, At(counted, before, k - 1), elements[k])
                           /\ After(At(counted, before, k - 1), elements[k]) = At(counted, before, k)
  <2> HIDE DEF n
  <2> QED BY <1>1, <1>2, <1>4, PiecesAreThere
<1>7. \A i \in 0 .. n : h[i] = At(counted, before, i)
  OBVIOUS
<1>8. h = [i \in 0 .. n |-> h[i]]
  OBVIOUS
<1>9. 0 \in 0 .. n /\ n \in 0 .. n /\ \A k \in 1 .. n : k \in 0 .. n /\ k - 1 \in 0 .. n
  BY <1>2
<1>10. h[n] = After(counted, FlattenSeq(elements))
  BY <1>1, <1>7, <1>9 DEF At
<1> HIDE DEF h
<1>11. Walk(bytes, h, counted, elements)
  BY <1>6, <1>7, <1>8, <1>9, <1>10 DEF Walk
<1> QED BY <1>5, <1>11

\* An array whose elements have fields of the same types is read.
LEMMA RowsAreRead ==
    ASSUME NEW bytes \in Seq(Byte), NEW so \in Places, NEW types,
           NEW elements \in Seq(Seq(MessageField)), Short(Len(elements)), NotEmpty(elements),
           AllMatch(types, elements), There(bytes, so, Counted(elements))
    PROVE  ReadRows(bytes, so, types) = After(so, Counted(elements))
<1> DEFINE n == Len(elements)
           rest == FlattenSeq(elements)
           counted == ReadCount(bytes, so)
           upTo == CHOOSE f : f = [i \in 0 .. Last(counted.value) |->
                                      IF i = 0 THEN counted ELSE Reads(bytes, f[i - 1], types)]
<1>1. rest \in Seq(MessageField)
  BY FlattenAppend
<1>2. There(bytes, so, CountOf(n) \o rest)
  BY DEF Counted
<1>3. /\ counted \in Places /\ Last(counted.value) = n /\ There(bytes, counted, rest)
      /\ After(counted, rest) = After(so, CountOf(n) \o rest)
  <2>1. Short(n)
    OBVIOUS
  <2> HIDE DEF rest, n, counted
  <2>2. CountRead(bytes, so, n, rest)
    BY <1>1, <1>2, <2>1, CountIsRead, Zenon
  <2> QED BY <2>2 DEF CountRead, counted
<1>4. n <= Len(bytes) /\ \E h : Walk(bytes, h, counted, elements)
  <2> HIDE DEF counted
  <2> QED BY <1>3, ElementsAreThere
<1>5. PICK h : Walk(bytes, h, counted, elements)
  BY <1>4
<1>6. ASSUME NEW k \in 1 .. n
      PROVE  Reads(bytes, h[k - 1], types) = h[k]
  <2>1. /\ h[k - 1] \in Places /\ There(bytes, h[k - 1], elements[k])
        /\ h[k] = After(h[k - 1], elements[k])
    BY <1>5 DEF Walk
  <2>2. elements[k] \in Seq(MessageField) /\ Matches(types, elements[k])
    BY DEF AllMatch
  <2> DEFINE place == h[k - 1]
             fields == elements[k]
  <2>0. /\ place \in Places /\ There(bytes, place, fields)
        /\ fields \in Seq(MessageField) /\ Matches(types, fields)
    BY <2>1, <2>2
  <2> HIDE DEF place, fields
  <2>3. Reads(bytes, place, types) = After(place, fields)
    BY <2>0, FieldsAreRead, Zenon
  <2> QED BY <2>1, <2>3 DEF place, fields
<1> DEFINE Solves(f) == f = [i \in 0 .. n |-> IF i = 0 THEN counted ELSE Reads(bytes, f[i - 1], types)]
<1>7. n \in Nat /\ 0 \in 0 .. n /\ \A i \in 0 .. n : i # 0 => i \in 1 .. n
  OBVIOUS
<1>8. Solves(h)
  <2>1. h = [i \in 0 .. n |-> h[i]] /\ h[0] = counted
    BY <1>5 DEF Walk
  <2> HIDE DEF n, counted
  <2>2. \A i \in 0 .. n : h[i] = IF i = 0 THEN counted ELSE Reads(bytes, h[i - 1], types)
    BY <1>6, <1>7, <2>1
  <2> QED BY <2>1, <2>2
<1>9. Solves(upTo)
  <2>1. upTo = CHOOSE f : Solves(f)
    <3> HIDE DEF counted, n
    <3> QED BY <1>3
  <2> HIDE DEF Solves, upTo
  <2> QED BY <1>8, <2>1, Zenon
<1>10. upTo[n] = h[n]
  <2> HIDE DEF upTo, n, counted
  <2>1. upTo[0] = counted /\ \A i \in 1 .. n : upTo[i] = Reads(bytes, upTo[i - 1], types)
    <3>1. \A i \in 1 .. n : i \in 0 .. n /\ i # 0
      OBVIOUS
    <3> QED BY <1>7, <1>9, <3>1
  <2>2. h[0] = counted
    BY <1>5 DEF Walk
  <2>3. InStep(upTo, h, n)
    BY <1>6, <2>1, <2>2 DEF InStep
  <2> QED BY <1>7, <2>3, SameSteps
<1>11. h[n] = After(so, CountOf(n) \o rest)
  BY <1>3, <1>5 DEF Walk
<1>12. ReadRows(bytes, so, types) = upTo[n]
  <2>1. /\ ~counted.threw /\ Last(counted.value) = n
        /\ ~(Last(counted.value) > Len(bytes)) /\ ~(Last(counted.value) < 0)
    <3> HIDE DEF counted, n
    <3>1. ~counted.threw /\ Len(bytes) \in Nat
      BY <1>3, PlaceType
    <3> QED BY <1>3, <1>4, <1>7, <3>1
  <2>2. ReadRows(bytes, so, types)
            = IF counted.threw THEN Throws
              ELSE IF Last(counted.value) > Len(bytes) THEN Throws
              ELSE IF Last(counted.value) < 0 THEN counted
              ELSE upTo[Last(counted.value)]
    BY DEF ReadRows, ReadArray, Loop, ReadCount
  <2> HIDE DEF counted, upTo, n
  <2> QED BY <2>1, <2>2
<1> QED BY <1>10, <1>11, <1>12 DEF Counted

-----------------------------------------------------------------------------
\* Where the first of two parts ends, the second begins.
Parted(bytes, so, a, b) ==
    /\ There(bytes, so, a)
    /\ After(so, a) \in Places
    /\ There(bytes, After(so, a), b)
    /\ After(After(so, a), b) = After(so, a \o b)

LEMMA NextIsThere ==
    ASSUME NEW bytes \in Seq(Byte), NEW so \in Places,
           NEW a \in Seq(MessageField), NEW b \in Seq(MessageField), There(bytes, so, a \o b)
    PROVE  Parted(bytes, so, a, b) /\ a \o b \in Seq(MessageField)
<1>1. There(bytes, so, a) /\ There(bytes, After(so, a), b)
  BY BothAreThere, Zenon
<1>2. After(so, a) \in Places
  BY AfterType, Zenon
<1>3. After(After(so, a), b) = After(so, a \o b)
  BY AfterBoth, Zenon
<1>4. a \o b \in Seq(MessageField)
  BY FieldsJoined, Zenon
<1> QED BY <1>1, <1>2, <1>3, <1>4, Zenon DEF Parted

\* A row has fields, of the types with which it is read.
ProperRow(row, types) == row \in Seq(MessageField) /\ Len(row) >= 1 /\ Matches(types, row)

ProperRows(rows, types) ==
    /\ rows \in Seq(Seq(MessageField))
    /\ Short(Len(rows))
    /\ NotEmpty(rows)
    /\ AllMatch(types, rows)

LEMMA RowsType ==
    ASSUME NEW S, NEW n \in Nat, NEW rows, rows = [i \in 1 .. n |-> rows[i]],
           \A i \in 1 .. n : rows[i] \in S
    PROVE  rows \in Seq(S) /\ Len(rows) = n
<1>1. rows \in [1 .. n -> S]
  OBVIOUS
<1> QED BY <1>1

LEMMA RowsAreProper ==
    ASSUME NEW n, Short(n), NEW rows, rows = [i \in 1 .. n |-> rows[i]], NEW types,
           \A i \in 1 .. n : ProperRow(rows[i], types)
    PROVE  ProperRows(rows, types) /\ Len(rows) = n
<1>1. n \in Nat
  BY DEF Short
<1>2. \A i \in 1 .. n : /\ rows[i] \in Seq(MessageField)
                        /\ Len(rows[i]) >= 1
                        /\ Matches(types, rows[i])
  BY DEF ProperRow
<1>3. rows \in Seq(Seq(MessageField)) /\ Len(rows) = n
  BY <1>1, <1>2, RowsType
<1>4. NotEmpty(rows)
  BY <1>2, <1>3, FieldsTakeBytes DEF NotEmpty
<1>5. AllMatch(types, rows)
  BY <1>2, <1>3 DEF AllMatch
<1> QED BY <1>3, <1>4, <1>5 DEF ProperRows

LEMMA ArrayIsRead ==
    ASSUME NEW bytes \in Seq(Byte), NEW so \in Places, NEW rows, NEW types,
           ProperRows(rows, types), There(bytes, so, Counted(rows))
    PROVE  ReadRows(bytes, so, types) = After(so, Counted(rows))
<1>1. /\ rows \in Seq(Seq(MessageField)) /\ Short(Len(rows)) /\ NotEmpty(rows)
      /\ AllMatch(types, rows)
  BY Zenon DEF ProperRows
<1> QED BY <1>1, RowsAreRead, Zenon

LEMMA CountedType ==
    ASSUME NEW rows \in Seq(Seq(MessageField)), Short(Len(rows))
    PROVE  /\ CountOf(Len(rows)) \in Seq(MessageField) /\ FlattenSeq(rows) \in Seq(MessageField)
           /\ Counted(rows) \in Seq(MessageField)
<1>1. FlattenSeq(rows) \in Seq(MessageField)
  BY FlattenAppend
<1>2. CountOf(Len(rows)) \in Seq(MessageField)
  <2>1. Field("int32", Len(rows)) \in MessageField
    BY SmallNumbers
  <2> QED BY <2>1 DEF CountOf
<1> QED BY <1>1, <1>2, FieldsJoined, Zenon DEF Counted

-----------------------------------------------------------------------------
\* In the version of its parser, an answer has every field.
LEMMA EveryField ==
    ASSUME NEW since \in Nat, answerVersion \in Nat, since <= answerVersion
    PROVE  /\ \A type, value : V(since, type, value) = <<Field(type, value)>>
           /\ \A elements : Array(since, elements) = Counted(elements)
BY DEF V, Array, Counted, CountOf

LEMMA StringFields ==
    ASSUME NEW n, n = Null \/ Short(n)
    PROVE  Field("string", n) \in MessageField
<1>1. CASE n = Null
  <2> DEFINE f == Field("string", n)
  <2>1. f.type = "string" /\ f.value = n /\ f \in [type : NumberTypes \cup {"string"}, value : Int \cup {Null}]
    BY <1>1 DEF Field
  <2> HIDE DEF f
  <2>2. ProperField(f)
    BY <1>1, <2>1 DEF ProperField, Encodable, Types, TextTypes, NumberTypes
  <2> QED BY <2>1, <2>2 DEF MessageField, f
<1>2. CASE Short(n)
  BY <1>2, SmallNumbers
<1> QED BY <1>1, <1>2

LEMMA NodesAreRead ==
    ASSUME NEW since \in Nat, answerVersion = 8, since <= 8, NEW n, Short(n)
    PROVE  /\ Nodes(since, n) \in Seq(MessageField)
           /\ \A bytes \in Seq(Byte), so \in Places :
                 There(bytes, so, Nodes(since, n)) => ReadNodes(bytes, so) = After(so, Nodes(since, n))
<1> DEFINE rows == [i \in 1 .. n |-> V(0, "int32", i)]
           types == <<"int32">>
<1>1. ASSUME NEW i \in 1 .. n
      PROVE  ProperRow(rows[i], types)
  <2> DEFINE f == Field("int32", i)
  <2>1. rows[i] = <<f>>
    BY EveryField
  <2>2. Short(i)
    BY DEF Short
  <2>3. f \in MessageField /\ f.type = "int32"
    BY <2>2, SmallNumbers DEF Field
  <2> HIDE DEF f
  <2>4. ProperRow(<<f>>, types)
    BY <2>3 DEF ProperRow, Matches, ReadAs
  <2> QED BY <2>1, <2>4
<1>2. rows = [i \in 1 .. n |-> rows[i]]
  OBVIOUS
<1>3. Nodes(since, n) = Counted(rows)
  BY EveryField DEF Nodes
<1> HIDE DEF rows, types
<1>4. ProperRows(rows, types)
  BY <1>1, <1>2, RowsAreProper
<1>5. Counted(rows) \in Seq(MessageField)
  BY <1>4, CountedType, Zenon DEF ProperRows
<1>6. ASSUME NEW bytes \in Seq(Byte), NEW so \in Places, There(bytes, so, Counted(rows))
      PROVE  ReadNodes(bytes, so) = After(so, Counted(rows))
  BY <1>4, <1>6, ArrayIsRead DEF ReadNodes, types
<1> QED BY <1>3, <1>5, <1>6, Zenon

\* The array of partitions, as RowsAreRead.
Partitions(elements) ==
    \A k \in 1 .. Len(elements), bytes \in Seq(Byte), so \in Places :
       There(bytes, so, elements[k]) => ReadPartition(bytes, so) = After(so, elements[k])

LEMMA PartitionLoop ==
    ASSUME NEW bytes \in Seq(Byte), NEW so \in Places,
           NEW elements \in Seq(Seq(MessageField)), Short(Len(elements)), NotEmpty(elements),
           Partitions(elements), There(bytes, so, Counted(elements))
    PROVE  ReadArray(bytes, so, LAMBDA place : ReadPartition(bytes, place))
               = After(so, Counted(elements))
<1> DEFINE n == Len(elements)
           rest == FlattenSeq(elements)
           counted == ReadCount(bytes, so)
           upTo == CHOOSE f : f = [i \in 0 .. Last(counted.value) |->
                                      IF i = 0 THEN counted ELSE ReadPartition(bytes, f[i - 1])]
<1>1. rest \in Seq(MessageField)
  BY FlattenAppend
<1>2. There(bytes, so, CountOf(n) \o rest)
  BY DEF Counted
<1>3. /\ counted \in Places /\ Last(counted.value) = n /\ There(bytes, counted, rest)
      /\ After(counted, rest) = After(so, CountOf(n) \o rest)
  <2>1. Short(n)
    OBVIOUS
  <2> HIDE DEF rest, n, counted
  <2>2. CountRead(bytes, so, n, rest)
    BY <1>1, <1>2, <2>1, CountIsRead, Zenon
  <2> QED BY <2>2 DEF CountRead, counted
<1>4. n <= Len(bytes) /\ \E h : Walk(bytes, h, counted, elements)
  <2> HIDE DEF counted
  <2> QED BY <1>3, ElementsAreThere
<1>5. PICK h : Walk(bytes, h, counted, elements)
  BY <1>4
<1>6. ASSUME NEW k \in 1 .. n
      PROVE  ReadPartition(bytes, h[k - 1]) = h[k]
  <2>1. /\ h[k - 1] \in Places /\ There(bytes, h[k - 1], elements[k])
        /\ h[k] = After(h[k - 1], elements[k])
    BY <1>5 DEF Walk
  <2> DEFINE place == h[k - 1]
  <2> HIDE DEF place
  <2>2. ReadPartition(bytes, place) = After(place, elements[k])
    BY <2>1 DEF place, Partitions
  <2> QED BY <2>1, <2>2 DEF place
<1> DEFINE Solves(f) == f = [i \in 0 .. n |-> IF i = 0 THEN counted ELSE ReadPartition(bytes, f[i - 1])]
<1>7. n \in Nat /\ 0 \in 0 .. n /\ \A i \in 0 .. n : i # 0 => i \in 1 .. n
  OBVIOUS
<1>8. Solves(h)
  <2>1. h = [i \in 0 .. n |-> h[i]] /\ h[0] = counted
    BY <1>5 DEF Walk
  <2> HIDE DEF n, counted
  <2>2. \A i \in 0 .. n : h[i] = IF i = 0 THEN counted ELSE ReadPartition(bytes, h[i - 1])
    BY <1>6, <1>7, <2>1
  <2> QED BY <2>1, <2>2
<1>9. Solves(upTo)
  <2>1. upTo = CHOOSE f : Solves(f)
    <3> HIDE DEF counted, n
    <3> QED BY <1>3
  <2> HIDE DEF Solves, upTo
  <2> QED BY <1>8, <2>1, Zenon
<1>10. upTo[n] = h[n]
  <2> HIDE DEF upTo, n, counted
  <2>1. upTo[0] = counted /\ \A i \in 1 .. n : upTo[i] = ReadPartition(bytes, upTo[i - 1])
    <3>1. \A i \in 1 .. n : i \in 0 .. n /\ i # 0
      OBVIOUS
    <3> QED BY <1>7, <1>9, <3>1
  <2>2. h[0] = counted
    BY <1>5 DEF Walk
  <2>3. InStep(upTo, h, n)
    BY <1>6, <2>1, <2>2 DEF InStep
  <2> QED BY <1>7, <2>3, SameSteps
<1>11. h[n] = After(so, CountOf(n) \o rest)
  BY <1>3, <1>5 DEF Walk
<1>12. ReadArray(bytes, so, LAMBDA place : ReadPartition(bytes, place)) = upTo[n]
  <2>1. /\ ~counted.threw /\ Last(counted.value) = n
        /\ ~(Last(counted.value) > Len(bytes)) /\ ~(Last(counted.value) < 0)
    <3> HIDE DEF counted, n
    <3>1. ~counted.threw /\ Len(bytes) \in Nat
      BY <1>3, PlaceType
    <3> QED BY <1>3, <1>4, <1>7, <3>1
  <2>2. ReadArray(bytes, so, LAMBDA place : ReadPartition(bytes, place))
            = IF counted.threw THEN Throws
              ELSE IF Last(counted.value) > Len(bytes) THEN Throws
              ELSE IF Last(counted.value) < 0 THEN counted
              ELSE upTo[Last(counted.value)]
    BY DEF ReadArray, Loop, ReadCount
  <2> HIDE DEF counted, upTo, n
  <2> QED BY <2>1, <2>2
<1> QED BY <1>10, <1>11, <1>12 DEF Counted

\* The array of topics, as RowsAreRead.
Topics(elements) ==
    \A k \in 1 .. Len(elements), bytes \in Seq(Byte), so \in Places :
       There(bytes, so, elements[k]) => ReadTopic(bytes, so) = After(so, elements[k])

LEMMA TopicLoop ==
    ASSUME NEW bytes \in Seq(Byte), NEW so \in Places,
           NEW elements \in Seq(Seq(MessageField)), Short(Len(elements)), NotEmpty(elements),
           Topics(elements), There(bytes, so, Counted(elements))
    PROVE  ReadArray(bytes, so, LAMBDA place : ReadTopic(bytes, place))
               = After(so, Counted(elements))
<1> DEFINE n == Len(elements)
           rest == FlattenSeq(elements)
           counted == ReadCount(bytes, so)
           upTo == CHOOSE f : f = [i \in 0 .. Last(counted.value) |->
                                      IF i = 0 THEN counted ELSE ReadTopic(bytes, f[i - 1])]
<1>1. rest \in Seq(MessageField)
  BY FlattenAppend
<1>2. There(bytes, so, CountOf(n) \o rest)
  BY DEF Counted
<1>3. /\ counted \in Places /\ Last(counted.value) = n /\ There(bytes, counted, rest)
      /\ After(counted, rest) = After(so, CountOf(n) \o rest)
  <2>1. Short(n)
    OBVIOUS
  <2> HIDE DEF rest, n, counted
  <2>2. CountRead(bytes, so, n, rest)
    BY <1>1, <1>2, <2>1, CountIsRead, Zenon
  <2> QED BY <2>2 DEF CountRead, counted
<1>4. n <= Len(bytes) /\ \E h : Walk(bytes, h, counted, elements)
  <2> HIDE DEF counted
  <2> QED BY <1>3, ElementsAreThere
<1>5. PICK h : Walk(bytes, h, counted, elements)
  BY <1>4
<1>6. ASSUME NEW k \in 1 .. n
      PROVE  ReadTopic(bytes, h[k - 1]) = h[k]
  <2>1. /\ h[k - 1] \in Places /\ There(bytes, h[k - 1], elements[k])
        /\ h[k] = After(h[k - 1], elements[k])
    BY <1>5 DEF Walk
  <2> DEFINE place == h[k - 1]
  <2> HIDE DEF place
  <2>2. ReadTopic(bytes, place) = After(place, elements[k])
    BY <2>1 DEF place, Topics
  <2> QED BY <2>1, <2>2 DEF place
<1> DEFINE Solves(f) == f = [i \in 0 .. n |-> IF i = 0 THEN counted ELSE ReadTopic(bytes, f[i - 1])]
<1>7. n \in Nat /\ 0 \in 0 .. n /\ \A i \in 0 .. n : i # 0 => i \in 1 .. n
  OBVIOUS
<1>8. Solves(h)
  <2>1. h = [i \in 0 .. n |-> h[i]] /\ h[0] = counted
    BY <1>5 DEF Walk
  <2> HIDE DEF n, counted
  <2>2. \A i \in 0 .. n : h[i] = IF i = 0 THEN counted ELSE ReadTopic(bytes, h[i - 1])
    BY <1>6, <1>7, <2>1
  <2> QED BY <2>1, <2>2
<1>9. Solves(upTo)
  <2>1. upTo = CHOOSE f : Solves(f)
    <3> HIDE DEF counted, n
    <3> QED BY <1>3
  <2> HIDE DEF Solves, upTo
  <2> QED BY <1>8, <2>1, Zenon
<1>10. upTo[n] = h[n]
  <2> HIDE DEF upTo, n, counted
  <2>1. upTo[0] = counted /\ \A i \in 1 .. n : upTo[i] = ReadTopic(bytes, upTo[i - 1])
    <3>1. \A i \in 1 .. n : i \in 0 .. n /\ i # 0
      OBVIOUS
    <3> QED BY <1>7, <1>9, <3>1
  <2>2. h[0] = counted
    BY <1>5 DEF Walk
  <2>3. InStep(upTo, h, n)
    BY <1>6, <2>1, <2>2 DEF InStep
  <2> QED BY <1>7, <2>3, SameSteps
<1>11. h[n] = After(so, CountOf(n) \o rest)
  BY <1>3, <1>5 DEF Walk
<1>12. ReadArray(bytes, so, LAMBDA place : ReadTopic(bytes, place)) = upTo[n]
  <2>1. /\ ~counted.threw /\ Last(counted.value) = n
        /\ ~(Last(counted.value) > Len(bytes)) /\ ~(Last(counted.value) < 0)
    <3> HIDE DEF counted, n
    <3>1. ~counted.threw /\ Len(bytes) \in Nat
      BY <1>3, PlaceType
    <3> QED BY <1>3, <1>4, <1>7, <3>1
  <2>2. ReadArray(bytes, so, LAMBDA place : ReadTopic(bytes, place))
            = IF counted.threw THEN Throws
              ELSE IF Last(counted.value) > Len(bytes) THEN Throws
              ELSE IF Last(counted.value) < 0 THEN counted
              ELSE upTo[Last(counted.value)]
    BY DEF ReadArray, Loop, ReadCount
  <2> HIDE DEF counted, upTo, n
  <2> QED BY <2>1, <2>2
<1> QED BY <1>10, <1>11, <1>12 DEF Counted

-----------------------------------------------------------------------------
LEMMA NotEmptyBefore ==
    ASSUME NEW a \in Seq(MessageField), NEW b \in Seq(MessageField), Len(a) >= 1
    PROVE  a \o b \in Seq(MessageField) /\ Len(a \o b) >= 1
OBVIOUS

LEMMA OneMore ==
    ASSUME NEW a \in Seq(MessageField), NEW f \in MessageField, NEW c \in Seq(MessageField),
           Len(c) = Len(a) + 1, \A i \in 1 .. Len(a) : c[i] = a[i], c[Len(a) + 1] = f
    PROVE  a \o <<f>> = c
<1> DEFINE b == <<f>>
<1>1. b \in Seq(MessageField) /\ Len(b) = 1 /\ b[1] = f
  OBVIOUS
<1> HIDE DEF b
<1>2. Consists(c, a, b)
  BY <1>1 DEF Consists
<1>3. c = a \o b
  BY <1>1, <1>2, IsConcatenation
<1> QED BY <1>3 DEF b

LEMMA FieldsInARow ==
    ASSUME NEW f1 \in MessageField, NEW f2 \in MessageField, NEW f3 \in MessageField
    PROVE  <<f1>> \o <<f2>> = <<f1, f2>> /\ <<f1>> \o <<f2>> \o <<f3>> = <<f1, f2, f3>>
<1> DEFINE one == <<f1>>
           two == <<f1, f2>>
           three == <<f1, f2, f3>>
<1>1. /\ one \in Seq(MessageField) /\ Len(one) = 1 /\ one[1] = f1
      /\ two \in Seq(MessageField) /\ Len(two) = 2 /\ two[1] = f1 /\ two[2] = f2
      /\ three \in Seq(MessageField) /\ Len(three) = 3
      /\ three[1] = f1 /\ three[2] = f2 /\ three[3] = f3
  OBVIOUS
<1> HIDE DEF one, two, three
<1>2. one \o <<f2>> = two
  <2>1. Len(two) = Len(one) + 1 /\ two[Len(one) + 1] = f2 /\ \A i \in 1 .. Len(one) : two[i] = one[i]
    BY <1>1
  <2> QED BY <1>1, <2>1, OneMore
<1>3. two \o <<f3>> = three
  <2>1. /\ Len(three) = Len(two) + 1 /\ three[Len(two) + 1] = f3
        /\ \A i \in 1 .. Len(two) : three[i] = two[i]
    BY <1>1
  <2> QED BY <1>1, <2>1, OneMore
<1> QED BY <1>2, <1>3, Zenon DEF one, two, three

LEMMA FourInARow ==
    ASSUME NEW f1 \in MessageField, NEW f2 \in MessageField, NEW f3 \in MessageField,
           NEW f4 \in MessageField
    PROVE  <<f1>> \o <<f2>> \o <<f3>> \o <<f4>> = <<f1, f2, f3, f4>>
<1> DEFINE three == <<f1, f2, f3>>
           four == <<f1, f2, f3, f4>>
<1>1. <<f1>> \o <<f2>> \o <<f3>> = three
  BY FieldsInARow, Zenon
<1>2. /\ three \in Seq(MessageField) /\ Len(three) = 3
      /\ three[1] = f1 /\ three[2] = f2 /\ three[3] = f3
  OBVIOUS
<1>3. /\ four \in Seq(MessageField) /\ Len(four) = 4
      /\ four[1] = f1 /\ four[2] = f2 /\ four[3] = f3 /\ four[4] = f4
  OBVIOUS
<1> HIDE DEF three, four
<1>4. three \o <<f4>> = four
  <2>1. Len(four) = Len(three) + 1 /\ four[Len(three) + 1] = f4
    BY <1>2, <1>3
  <2>2. \A i \in 1 .. Len(three) : four[i] = three[i]
    BY <1>2, <1>3
  <2> QED BY <1>2, <1>3, <2>1, <2>2, OneMore
<1>5. <<f1>> \o <<f2>> \o <<f3>> \o <<f4>> = four
  BY <1>1, <1>4, Zenon
<1> QED BY <1>5 DEF four

\* A partition is read.
LEMMA PartitionIsRead ==
    ASSUME answerVersion = 8, NEW p, Short(p), NEW nodes, \A i \in 1 .. 3 : Short(nodes[i])
    PROVE  /\ PartitionOf(p, nodes) \in Seq(MessageField) /\ Len(PartitionOf(p, nodes)) >= 1
           /\ \A bytes \in Seq(Byte), so \in Places :
                 There(bytes, so, PartitionOf(p, nodes)) =>
                    ReadPartition(bytes, so) = After(so, PartitionOf(p, nodes))
<1> DEFINE head == V(0, "int16", 9) \o V(0, "int32", p) \o V(0, "int32", 1) \o V(7, "int32", 12)
           types == <<"int16", "int32", "int32", "int32">>
           n1 == Nodes(0, nodes[1])
           n2 == Nodes(0, nodes[2])
           n3 == Nodes(5, nodes[3])
<1>1. head \in Seq(MessageField) /\ Len(head) >= 1 /\ Matches(types, head)
  <2> DEFINE f1 == Field("int16", 9)
             f2 == Field("int32", p)
             f3 == Field("int32", 1)
             f4 == Field("int32", 12)
  <2>1. /\ V(0, "int16", 9) = <<f1>> /\ V(0, "int32", p) = <<f2>>
        /\ V(0, "int32", 1) = <<f3>> /\ V(7, "int32", 12) = <<f4>>
    BY EveryField
  <2>2. /\ f1 \in MessageField /\ f2 \in MessageField /\ f3 \in MessageField /\ f4 \in MessageField
        /\ f1.type = "int16" /\ f2.type = "int32" /\ f3.type = "int32" /\ f4.type = "int32"
    <3>1. Short(9) /\ Short(1) /\ Short(12)
      BY DEF Short
    <3> QED BY <3>1, SmallNumbers DEF Field
  <2> HIDE DEF f1, f2, f3, f4
  <2>3. head = <<f1, f2, f3, f4>>
    <3>1. <<f1>> \o <<f2>> \o <<f3>> \o <<f4>> = <<f1, f2, f3, f4>>
      BY <2>2, FourInARow
    <3> QED BY <2>1, <3>1, Zenon
  <2>4. <<f1, f2, f3, f4>> \in Seq(MessageField) /\ Matches(types, <<f1, f2, f3, f4>>)
    BY <2>2 DEF Matches, ReadAs
  <2>5. Len(<<f1, f2, f3, f4>>) >= 1
    OBVIOUS
  <2> HIDE DEF head, types
  <2> QED BY <2>3, <2>4, <2>5, Zenon
<1>2. PartitionOf(p, nodes) = ((head \o n1) \o n2) \o n3
  BY DEF PartitionOf
<1>3. /\ n1 \in Seq(MessageField) /\ n2 \in Seq(MessageField) /\ n3 \in Seq(MessageField)
      /\ \A bytes \in Seq(Byte), so \in Places :
            /\ There(bytes, so, n1) => ReadNodes(bytes, so) = After(so, n1)
            /\ There(bytes, so, n2) => ReadNodes(bytes, so) = After(so, n2)
            /\ There(bytes, so, n3) => ReadNodes(bytes, so) = After(so, n3)
  <2>1. Short(nodes[1]) /\ Short(nodes[2]) /\ Short(nodes[3])
    OBVIOUS
  <2>2. ASSUME NEW since \in {0, 5}, NEW m, Short(m)
        PROVE  LET these == Nodes(since, m)
               IN  /\ these \in Seq(MessageField)
                   /\ \A bytes \in Seq(Byte), so \in Places :
                         There(bytes, so, these) => ReadNodes(bytes, so) = After(so, these)
    <3>1. since \in Nat /\ since <= 8
      OBVIOUS
    <3> QED BY <2>2, <3>1, NodesAreRead
  <2> DEFINE TakesNodes(nodesRead) ==
                 /\ nodesRead \in Seq(MessageField)
                 /\ \A bytes \in Seq(Byte), so \in Places :
                       There(bytes, so, nodesRead) => ReadNodes(bytes, so) = After(so, nodesRead)
  <2>3. \A since \in {0, 5} : \A m : Short(m) => TakesNodes(Nodes(since, m))
    BY <2>2
  <2>4. TakesNodes(n1) /\ TakesNodes(n2) /\ TakesNodes(n3)
    <3> HIDE DEF TakesNodes
    <3> QED BY <2>1, <2>3
  <2> HIDE DEF n1, n2, n3
  <2> QED BY <2>4
<1> HIDE DEF head, n1, n2, n3
<1>4. /\ head \o n1 \in Seq(MessageField) /\ Len(head \o n1) >= 1
      /\ (head \o n1) \o n2 \in Seq(MessageField) /\ Len((head \o n1) \o n2) >= 1
      /\ ((head \o n1) \o n2) \o n3 \in Seq(MessageField) /\ Len(((head \o n1) \o n2) \o n3) >= 1
  <2>1. head \o n1 \in Seq(MessageField) /\ Len(head \o n1) >= 1
    BY <1>1, <1>3, NotEmptyBefore
  <2>2. (head \o n1) \o n2 \in Seq(MessageField) /\ Len((head \o n1) \o n2) >= 1
    BY <2>1, <1>3, NotEmptyBefore
  <2>3. ((head \o n1) \o n2) \o n3 \in Seq(MessageField) /\ Len(((head \o n1) \o n2) \o n3) >= 1
    BY <2>2, <1>3, NotEmptyBefore
  <2> QED BY <2>1, <2>2, <2>3
<1>5. ASSUME NEW bytes \in Seq(Byte), NEW so \in Places, There(bytes, so, ((head \o n1) \o n2) \o n3)
      PROVE  ReadPartition(bytes, so) = After(so, ((head \o n1) \o n2) \o n3)
  <2>1. Parted(bytes, so, (head \o n1) \o n2, n3)
    BY <1>3, <1>4, <1>5, NextIsThere, Zenon
  <2>2. Parted(bytes, so, head \o n1, n2)
    <3>1. There(bytes, so, (head \o n1) \o n2)
      BY <2>1, Zenon DEF Parted
    <3> QED BY <1>3, <1>4, <3>1, NextIsThere, Zenon
  <2>3. Parted(bytes, so, head, n1)
    <3>1. There(bytes, so, head \o n1)
      BY <2>2, Zenon DEF Parted
    <3> QED BY <1>1, <1>3, <3>1, NextIsThere, Zenon
  <2> DEFINE r0 == After(so, head)
             r1 == After(so, head \o n1)
             r2 == After(so, (head \o n1) \o n2)
             r3 == After(so, ((head \o n1) \o n2) \o n3)
  <2>4. /\ There(bytes, so, head) /\ r0 \in Places /\ There(bytes, r0, n1) /\ After(r0, n1) = r1
        /\ r1 \in Places /\ There(bytes, r1, n2) /\ After(r1, n2) = r2
        /\ r2 \in Places /\ There(bytes, r2, n3) /\ After(r2, n3) = r3
    BY <2>1, <2>2, <2>3 DEF Parted
  <2> HIDE DEF r0, r1, r2, r3
  <2>5. Reads(bytes, so, types) = r0
    <3>1. There(bytes, so, head)
      BY <2>4
    <3> HIDE DEF types
    <3>2. Reads(bytes, so, types) = After(so, head)
      BY <1>1, <3>1, FieldsAreRead, Zenon
    <3> QED BY <3>2 DEF r0
  <2>6. ReadNodes(bytes, r0) = r1 /\ ReadNodes(bytes, r1) = r2 /\ ReadNodes(bytes, r2) = r3
    BY <1>3, <2>4
  <2> QED BY <2>5, <2>6, Zenon DEF ReadPartition, r3, types
<1> QED BY <1>2, <1>4, <1>5, Zenon

\* A topic is read.
LEMMA TopicIsRead ==
    ASSUME answerVersion = 8, NEW t, Short(t), NEW m, Short(m),
           NEW nodes, \A i \in 1 .. 3 : Short(nodes[i])
    PROVE  /\ TopicOf(t, m, nodes) \in Seq(MessageField) /\ Len(TopicOf(t, m, nodes)) >= 1
           /\ \A bytes \in Seq(Byte), so \in Places :
                 There(bytes, so, TopicOf(t, m, nodes)) =>
                    ReadTopic(bytes, so) = After(so, TopicOf(t, m, nodes))
<1> DEFINE head == V(0, "int16", 3) \o V(0, "string", t) \o V(1, "boolean", t % 2)
           types == <<"int16", "text", "boolean">>
           rows == [p \in 1 .. m |-> PartitionOf(p, nodes)]
           last == V(8, "int32", 30)
           type == <<"int32">>
<1>1. head \in Seq(MessageField) /\ Len(head) >= 1 /\ Matches(types, head)
  <2> DEFINE f1 == Field("int16", 3)
             f2 == Field("string", t)
             f3 == Field("boolean", t % 2)
  <2>1. V(0, "int16", 3) = <<f1>> /\ V(0, "string", t) = <<f2>> /\ V(1, "boolean", t % 2) = <<f3>>
    BY EveryField
  <2>2. /\ f1 \in MessageField /\ f2 \in MessageField /\ f3 \in MessageField
        /\ f1.type = "int16" /\ f2.type = "string" /\ f2.value # Null /\ f3.type = "boolean"
    <3>1. Short(3) /\ t \in Nat
      BY DEF Short
    <3>2. Short(t % 2) /\ t % 2 <= 1
      BY <3>1 DEF Short
    <3>3. f1 \in MessageField /\ f2 \in MessageField /\ f3 \in MessageField
      BY <3>1, <3>2, SmallNumbers
    <3>4. t # Null
      BY <3>1, NullAssumption
    <3> QED BY <3>3, <3>4 DEF Field
  <2> HIDE DEF f1, f2, f3
  <2>3. head = <<f1, f2, f3>>
    <3>1. <<f1>> \o <<f2>> \o <<f3>> = <<f1, f2, f3>>
      BY <2>2, FieldsInARow
    <3> QED BY <2>1, <3>1, Zenon
  <2>4. <<f1, f2, f3>> \in Seq(MessageField) /\ Matches(types, <<f1, f2, f3>>)
    BY <2>2 DEF Matches, ReadAs
  <2>5. Len(<<f1, f2, f3>>) >= 1
    OBVIOUS
  <2> HIDE DEF head, types
  <2> QED BY <2>3, <2>4, <2>5, Zenon
<1>2. last \in Seq(MessageField) /\ Matches(type, last)
  <2> DEFINE f == Field("int32", 30)
  <2>1. last = <<f>>
    BY EveryField
  <2>2. f \in MessageField /\ f.type = "int32"
    <3>1. Short(30)
      BY DEF Short
    <3> QED BY <3>1, SmallNumbers DEF Field
  <2> HIDE DEF f
  <2>3. <<f>> \in Seq(MessageField) /\ Matches(type, <<f>>)
    BY <2>2 DEF Matches, ReadAs
  <2> QED BY <2>1, <2>3
<1>3. TopicOf(t, m, nodes) = (head \o Counted(rows)) \o last
  <2>1. Array(0, rows) = Counted(rows)
    BY EveryField
  <2> QED BY <2>1 DEF TopicOf
<1>4. ASSUME NEW p \in 1 .. m
      PROVE  /\ rows[p] \in Seq(MessageField) /\ Len(rows[p]) >= 1
             /\ \A bytes \in Seq(Byte), so \in Places :
                   There(bytes, so, rows[p]) => ReadPartition(bytes, so) = After(so, rows[p])
  <2>1. Short(p)
    BY DEF Short
  <2> QED BY <2>1, PartitionIsRead
<1>5. rows = [p \in 1 .. m |-> rows[p]] /\ m \in Nat
  BY DEF Short
<1> HIDE DEF head, rows, last, types, type
<1>6. rows \in Seq(Seq(MessageField)) /\ Len(rows) = m
  BY <1>4, <1>5, RowsType
<1>7. NotEmpty(rows)
  BY <1>4, <1>6, FieldsTakeBytes DEF NotEmpty
<1>8. Partitions(rows)
  BY <1>4, <1>6 DEF Partitions
<1>9. Short(Len(rows)) /\ Counted(rows) \in Seq(MessageField)
  BY <1>6, CountedType
<1>10. /\ head \o Counted(rows) \in Seq(MessageField) /\ Len(head \o Counted(rows)) >= 1
       /\ (head \o Counted(rows)) \o last \in Seq(MessageField)
       /\ Len((head \o Counted(rows)) \o last) >= 1
  <2>1. head \o Counted(rows) \in Seq(MessageField) /\ Len(head \o Counted(rows)) >= 1
    BY <1>1, <1>9, NotEmptyBefore
  <2>2. /\ (head \o Counted(rows)) \o last \in Seq(MessageField)
        /\ Len((head \o Counted(rows)) \o last) >= 1
    BY <2>1, <1>2, NotEmptyBefore
  <2> QED BY <2>1, <2>2
<1>11. ASSUME NEW bytes \in Seq(Byte), NEW so \in Places,
              There(bytes, so, (head \o Counted(rows)) \o last)
       PROVE  ReadTopic(bytes, so) = After(so, (head \o Counted(rows)) \o last)
  <2>1. Parted(bytes, so, head \o Counted(rows), last)
    BY <1>2, <1>10, <1>11, NextIsThere, Zenon
  <2>2. Parted(bytes, so, head, Counted(rows))
    <3>1. There(bytes, so, head \o Counted(rows))
      BY <2>1, Zenon DEF Parted
    <3> QED BY <1>1, <1>9, <3>1, NextIsThere, Zenon
  <2> DEFINE r0 == After(so, head)
             r1 == After(so, head \o Counted(rows))
             r2 == After(so, (head \o Counted(rows)) \o last)
  <2>3. /\ There(bytes, so, head) /\ r0 \in Places
        /\ There(bytes, r0, Counted(rows)) /\ After(r0, Counted(rows)) = r1
        /\ r1 \in Places /\ There(bytes, r1, last) /\ After(r1, last) = r2
    BY <2>1, <2>2 DEF Parted
  <2>4. Reads(bytes, so, types) = After(so, head)
    BY <1>1, <2>3, FieldsAreRead, Zenon
  <2> HIDE DEF r0, r1, r2
  <2>5. ReadArray(bytes, r0, LAMBDA place : ReadPartition(bytes, place)) = After(r0, Counted(rows))
    BY <1>6, <1>7, <1>8, <1>9, <2>3, PartitionLoop
  <2>6. Reads(bytes, r1, type) = After(r1, last)
    BY <1>2, <2>3, FieldsAreRead, Zenon
  <2>7. ReadTopic(bytes, so)
            = Reads(bytes, ReadArray(bytes, Reads(bytes, so, types),
                                     LAMBDA place : ReadPartition(bytes, place)), type)
    BY DEF ReadTopic, types, type
  <2>8. ReadTopic(bytes, so) = r2
    BY <2>3, <2>4, <2>5, <2>6, <2>7 DEF r0
  <2> QED BY <2>8 DEF r2
<1> QED BY <1>3, <1>10, <1>11, Zenon

\* The brokers are read.
LEMMA BrokersAreRead ==
    ASSUME answerVersion = 8, NEW n, Short(n), NEW rack, rack = Null \/ Short(rack)
    PROVE  LET all == Array(0, [b \in 1 .. n |-> BrokerOf(b, rack)])
           IN  /\ all \in Seq(MessageField)
               /\ \A bytes \in Seq(Byte), so \in Places :
                     There(bytes, so, all) => ReadBrokers(bytes, so) = After(so, all)
<1> DEFINE rows == [b \in 1 .. n |-> BrokerOf(b, rack)]
           types == <<"int32", "text", "int32", "string">>
<1>1. ASSUME NEW b \in 1 .. n
      PROVE  ProperRow(rows[b], types)
  <2> DEFINE f1 == Field("int32", b)
             f2 == Field("string", b)
             f3 == Field("int32", 9092)
             f4 == Field("string", rack)
             v1 == V(0, "int32", b)
             v2 == V(0, "string", b)
             v3 == V(0, "int32", 9092)
             v4 == V(1, "string", rack)
  <2>1. v1 = <<f1>> /\ v2 = <<f2>> /\ v3 = <<f3>> /\ v4 = <<f4>>
    BY EveryField
  <2>2. /\ f1 \in MessageField /\ f2 \in MessageField /\ f3 \in MessageField /\ f4 \in MessageField
        /\ f1.type = "int32" /\ f2.type = "string" /\ f2.value # Null
        /\ f3.type = "int32" /\ f4.type = "string"
    <3>1. Short(b) /\ Short(9092)
      BY DEF Short
    <3>2. f1 \in MessageField /\ f2 \in MessageField /\ f3 \in MessageField
      BY <3>1, SmallNumbers
    <3>3. f4 \in MessageField
      BY StringFields
    <3>4. b # Null
      BY NullAssumption
    <3> QED BY <3>2, <3>3, <3>4 DEF Field
  <2> HIDE DEF f1, f2, f3, f4
  <2>3. rows[b] = <<f1, f2, f3, f4>>
    <3>1. <<f1>> \o <<f2>> \o <<f3>> \o <<f4>> = <<f1, f2, f3, f4>>
      BY <2>2, FourInARow
    <3>2. rows[b] = v1 \o v2 \o v3 \o v4
      BY DEF BrokerOf
    <3> HIDE DEF rows, v1, v2, v3, v4
    <3> QED BY <2>1, <3>1, <3>2, Zenon
  <2>4. ProperRow(<<f1, f2, f3, f4>>, types)
    BY <2>2 DEF ProperRow, Matches, ReadAs
  <2> HIDE DEF rows
  <2> QED BY <2>3, <2>4
<1>2. rows = [b \in 1 .. n |-> rows[b]]
  OBVIOUS
<1>3. Array(0, rows) = Counted(rows)
  BY EveryField
<1> HIDE DEF rows, types
<1>4. ProperRows(rows, types)
  BY <1>1, <1>2, RowsAreProper
<1>5. Counted(rows) \in Seq(MessageField)
  BY <1>4, CountedType, Zenon DEF ProperRows
<1>6. ASSUME NEW bytes \in Seq(Byte), NEW so \in Places, There(bytes, so, Counted(rows))
      PROVE  ReadBrokers(bytes, so) = After(so, Counted(rows))
  BY <1>4, <1>6, ArrayIsRead DEF ReadBrokers, types
<1>7. /\ Array(0, rows) \in Seq(MessageField)
      /\ \A bytes \in Seq(Byte), so \in Places :
            There(bytes, so, Array(0, rows)) => ReadBrokers(bytes, so) = After(so, Array(0, rows))
  BY <1>3, <1>5, <1>6, Zenon
<1> QED BY <1>7 DEF rows

AllTopics(topics, n, nodes) == Array(0, [t \in 1 .. n |-> TopicOf(t, topics[t], nodes)])

\* The topics are read.
LEMMA TopicsAreRead ==
    ASSUME answerVersion = 8, NEW topics, NEW n, Short(n), \A t \in 1 .. n : Short(topics[t]),
           NEW nodes, \A i \in 1 .. 3 : Short(nodes[i])
    PROVE  LET all == AllTopics(topics, n, nodes)
           IN  /\ all \in Seq(MessageField)
               /\ \A bytes \in Seq(Byte), so \in Places :
                     There(bytes, so, all) => ReadTopics(bytes, so) = After(so, all)
<1> DEFINE rows == [t \in 1 .. n |-> TopicOf(t, topics[t], nodes)]
<1>1. ASSUME NEW t \in 1 .. n
      PROVE  /\ rows[t] \in Seq(MessageField) /\ Len(rows[t]) >= 1
             /\ \A bytes \in Seq(Byte), so \in Places :
                   There(bytes, so, rows[t]) => ReadTopic(bytes, so) = After(so, rows[t])
  <2>1. Short(t) /\ Short(topics[t])
    BY DEF Short
  <2> QED BY <2>1, TopicIsRead
<1>2. rows = [t \in 1 .. n |-> rows[t]] /\ n \in Nat
  BY DEF Short
<1>3. Array(0, rows) = Counted(rows)
  BY EveryField
<1> HIDE DEF rows
<1>4. rows \in Seq(Seq(MessageField)) /\ Len(rows) = n
  BY <1>1, <1>2, RowsType
<1>5. NotEmpty(rows)
  BY <1>1, <1>4, FieldsTakeBytes DEF NotEmpty
<1>6. Topics(rows)
  BY <1>1, <1>4 DEF Topics
<1>7. Short(Len(rows)) /\ Counted(rows) \in Seq(MessageField)
  BY <1>4, CountedType
<1>8. ASSUME NEW bytes \in Seq(Byte), NEW so \in Places, There(bytes, so, Counted(rows))
      PROVE  ReadTopics(bytes, so) = After(so, Counted(rows))
  <2>1. ReadArray(bytes, so, LAMBDA place : ReadTopic(bytes, place)) = After(so, Counted(rows))
    BY <1>4, <1>5, <1>6, <1>7, <1>8, TopicLoop
  <2> QED BY <2>1 DEF ReadTopics
<1>9. /\ Array(0, rows) \in Seq(MessageField)
      /\ \A bytes \in Seq(Byte), so \in Places :
            There(bytes, so, Array(0, rows)) => ReadTopics(bytes, so) = After(so, Array(0, rows))
  BY <1>3, <1>7, <1>8, Zenon
<1> QED BY <1>9 DEF rows, AllTopics

-----------------------------------------------------------------------------
\* The bytes of fields are those fields, from the first byte on.
Start0 == Got(<<>>, 0)

LEMMA AllIsThere ==
    ASSUME NEW fields \in Seq(MessageField)
    PROVE  /\ Start0 \in Places /\ There(FieldBytes(fields), Start0, fields)
           /\ After(Start0, fields) = Got(Payloads(fields), Len(FieldBytes(fields)))
<1> DEFINE none == <<>>
           bytes == FieldBytes(fields)
           payloads == Payloads(fields)
<1>1. bytes \in Seq(Byte) /\ payloads \in Seq(Value) /\ Len(bytes) \in Nat
  BY FieldsType
<1>2. none \in Seq(Value) /\ none \o payloads = payloads
  <2> HIDE DEF payloads
  <2> QED BY <1>1
<1>3. Start0 \in Places /\ Start0.value = none /\ Start0.next = 0
  <2> HIDE DEF none
  <2>1. Got(none, 0) \in Places
    BY <1>2, PlaceType
  <2> QED BY <2>1, GotFields DEF Start0, none
<1>4. Agrees(bytes, bytes, 0)
  <2> HIDE DEF bytes
  <2> QED BY <1>1 DEF Agrees
<1>5. There(bytes, Start0, fields)
  <2> HIDE DEF bytes
  <2>1. 0 + Len(bytes) <= Len(bytes)
    BY <1>1
  <2> QED BY <1>3, <1>4, <2>1 DEF There, bytes
<1>6. After(Start0, fields) = Got(payloads, 0 + Len(bytes))
  BY <1>2, <1>3 DEF After
<1>7. 0 + Len(bytes) = Len(bytes)
  <2> HIDE DEF bytes
  <2> QED BY <1>1
<1> HIDE DEF none, bytes, payloads
<1>8. After(Start0, fields) = Got(payloads, Len(bytes))
  BY <1>6, <1>7
<1> QED BY <1>3, <1>5, <1>8, Zenon DEF bytes, payloads

\* What an answer to Metadata may hold.
Answerable(brokers, rack, cluster, topics, nodes) ==
    /\ Short(brokers)
    /\ rack = Null \/ Short(rack)
    /\ cluster = Null \/ Short(cluster)
    /\ DOMAIN topics = 1 .. Len(topics) /\ Short(Len(topics))
    /\ \A t \in 1 .. Len(topics) : Short(topics[t])
    /\ \A i \in 1 .. 3 : Short(nodes[i])

\* The answer to Metadata is read.
LEMMA MetadataIsParsed ==
    ASSUME answerVersion = 8, NEW brokers, NEW rack, NEW cluster, NEW topics, NEW nodes,
           Answerable(brokers, rack, cluster, topics, nodes)
    PROVE  LET fields == MetadataAnswer(brokers, rack, cluster, topics, nodes)
           IN  /\ fields \in Seq(MessageField)
               /\ ParseMetadata(FieldBytes(fields)) = After(Start0, fields)
<1> DEFINE head == V(3, "int32", 5)
           type == <<"int32">>
           b == Array(0, [i \in 1 .. brokers |-> BrokerOf(i, rack)])
           c == V(2, "string", cluster)
           d == V(1, "int32", 1)
           types == <<"string", "int32">>
           t == Array(0, [i \in 1 .. Len(topics) |-> TopicOf(i, topics[i], nodes)])
           last == V(8, "int32", 31)
           fields == MetadataAnswer(brokers, rack, cluster, topics, nodes)
           bytes == FieldBytes(fields)
<1>0. /\ Short(brokers)
      /\ rack = Null \/ Short(rack)
      /\ cluster = Null \/ Short(cluster)
      /\ DOMAIN topics = 1 .. Len(topics) /\ Short(Len(topics))
      /\ \A i \in 1 .. Len(topics) : Short(topics[i])
      /\ \A i \in 1 .. 3 : Short(nodes[i])
  BY Zenon DEF Answerable
<1>1. fields = ((((head \o b) \o c) \o d) \o t) \o last
  BY <1>0 DEF MetadataAnswer
<1>2. \A n \in {1, 5, 31} : Short(n)
  BY DEF Short
<1>3. /\ head \in Seq(MessageField) /\ Matches(type, head)
      /\ last \in Seq(MessageField) /\ Matches(type, last)
  <2> DEFINE f1 == Field("int32", 5)
             f2 == Field("int32", 31)
  <2>1. head = <<f1>> /\ last = <<f2>>
    BY EveryField
  <2>2. f1 \in MessageField /\ f1.type = "int32" /\ f2 \in MessageField /\ f2.type = "int32"
    BY <1>2, SmallNumbers DEF Field
  <2> HIDE DEF f1, f2
  <2>3. ASSUME NEW f \in MessageField, f.type = "int32"
        PROVE  <<f>> \in Seq(MessageField) /\ Matches(type, <<f>>)
    BY <2>3 DEF Matches, ReadAs
  <2> HIDE DEF type
  <2> QED BY <2>1, <2>2, <2>3
<1>4. /\ c \in Seq(MessageField) /\ d \in Seq(MessageField)
      /\ c \o d \in Seq(MessageField) /\ Matches(types, c \o d)
  <2> DEFINE f1 == Field("string", cluster)
             f2 == Field("int32", 1)
  <2>1. c = <<f1>> /\ d = <<f2>>
    BY EveryField
  <2>2. f1 \in MessageField /\ f1.type = "string" /\ f2 \in MessageField /\ f2.type = "int32"
    BY <1>0, <1>2, SmallNumbers, StringFields DEF Field
  <2> HIDE DEF f1, f2
  <2>3. <<f1>> \o <<f2>> = <<f1, f2>>
    BY <2>2, FieldsInARow
  <2>4. /\ <<f1>> \in Seq(MessageField) /\ <<f2>> \in Seq(MessageField)
        /\ <<f1, f2>> \in Seq(MessageField)
    BY <2>2
  <2>5. Matches(types, <<f1, f2>>)
    BY <2>2 DEF Matches, ReadAs
  <2> HIDE DEF types, c, d
  <2> QED BY <2>1, <2>3, <2>4, <2>5, Zenon
<1>5. /\ b \in Seq(MessageField)
      /\ \A bs \in Seq(Byte), place \in Places :
            There(bs, place, b) => ReadBrokers(bs, place) = After(place, b)
  BY <1>0, BrokersAreRead
<1>6. /\ t \in Seq(MessageField)
      /\ \A bs \in Seq(Byte), place \in Places :
            There(bs, place, t) => ReadTopics(bs, place) = After(place, t)
  <2> DEFINE n == Len(topics)
             these == AllTopics(topics, n, nodes)
  <2>1. Short(n) /\ \A i \in 1 .. n : Short(topics[i])
    BY <1>0
  <2> HIDE DEF n
  <2>2. /\ these \in Seq(MessageField)
        /\ \A bs \in Seq(Byte), place \in Places :
              There(bs, place, these) => ReadTopics(bs, place) = After(place, these)
    BY <1>0, <2>1, TopicsAreRead
  <2>3. these = t
    BY DEF n, AllTopics
  <2> HIDE DEF these, t
  <2> QED BY <2>2, <2>3
<1> HIDE DEF head, b, c, d, t, last, type, types
<1>7. ((head \o b) \o c) \o d = (head \o b) \o (c \o d)
  <2> DEFINE hb == head \o b
  <2>1. hb \in Seq(MessageField)
    BY <1>3, <1>5, FieldsJoined
  <2> HIDE DEF hb
  <2>2. (hb \o c) \o d = hb \o (c \o d)
    <3>1. Associates(MessageField)
      BY Associative
    <3> QED BY <2>1, <1>4, <3>1, Zenon DEF Associates
  <2> QED BY <2>2 DEF hb
<1> DEFINE a1 == head \o b
           a2 == a1 \o (c \o d)
           a3 == a2 \o t
           a4 == a3 \o last
<1>8. fields = a4
  BY <1>1, <1>7, Zenon
<1>9. /\ a1 \in Seq(MessageField) /\ a2 \in Seq(MessageField)
      /\ a3 \in Seq(MessageField) /\ a4 \in Seq(MessageField)
  <2>1. a1 \in Seq(MessageField)
    BY <1>3, <1>5, FieldsJoined, Zenon
  <2>2. a2 \in Seq(MessageField)
    BY <1>4, <2>1, FieldsJoined, Zenon
  <2>3. a3 \in Seq(MessageField)
    BY <1>6, <2>2, FieldsJoined, Zenon
  <2>4. a4 \in Seq(MessageField)
    BY <1>3, <2>3, FieldsJoined, Zenon
  <2> QED BY <2>1, <2>2, <2>3, <2>4
<1> HIDE DEF fields
<1>10. /\ bytes \in Seq(Byte) /\ Start0 \in Places /\ There(bytes, Start0, a4)
  BY <1>8, <1>9, AllIsThere, FieldsType
<1> HIDE DEF bytes
<1>11. Parted(bytes, Start0, a3, last)
  BY <1>3, <1>9, <1>10, NextIsThere, Zenon
<1>12. Parted(bytes, Start0, a2, t)
  <2>1. There(bytes, Start0, a3)
    BY <1>11, Zenon DEF Parted
  <2> QED BY <1>6, <1>9, <1>10, <2>1, NextIsThere, Zenon
<1>13. Parted(bytes, Start0, a1, c \o d)
  <2>1. There(bytes, Start0, a2)
    BY <1>12, Zenon DEF Parted
  <2> QED BY <1>4, <1>9, <1>10, <2>1, NextIsThere, Zenon
<1>14. Parted(bytes, Start0, head, b)
  <2>1. There(bytes, Start0, a1)
    BY <1>13, Zenon DEF Parted
  <2> QED BY <1>3, <1>5, <1>10, <2>1, NextIsThere, Zenon
<1> DEFINE cd == c \o d
           r0 == After(Start0, head)
           r1 == After(Start0, a1)
           r2 == After(Start0, a2)
           r3 == After(Start0, a3)
           r4 == After(Start0, a4)
<1>15. /\ There(bytes, Start0, head)
       /\ r0 \in Places /\ There(bytes, r0, b) /\ After(r0, b) = r1
       /\ r1 \in Places /\ There(bytes, r1, cd) /\ After(r1, cd) = r2
       /\ r2 \in Places /\ There(bytes, r2, t) /\ After(r2, t) = r3
       /\ r3 \in Places /\ There(bytes, r3, last) /\ After(r3, last) = r4
  <2> HIDE DEF a2, a3, a4
  <2> QED BY <1>11, <1>12, <1>13, <1>14 DEF Parted, a2, a3, a4
<1>16. cd \in Seq(MessageField) /\ Matches(types, cd)
  BY <1>4
<1> HIDE DEF cd, a1, a2, a3, a4
<1>17. Reads(bytes, Start0, type) = r0
  <2>1. There(bytes, Start0, head)
    BY <1>15
  <2>2. Reads(bytes, Start0, type) = After(Start0, head)
    BY <1>3, <1>10, <2>1, FieldsAreRead, Zenon
  <2> QED BY <2>2
<1> HIDE DEF r0, r1, r2, r3, r4
<1>18. ReadBrokers(bytes, r0) = r1 /\ ReadTopics(bytes, r2) = r3
  BY <1>5, <1>6, <1>10, <1>15
<1>19. Reads(bytes, r1, types) = r2
  <2>1. There(bytes, r1, cd) /\ r1 \in Places
    BY <1>15
  <2>2. Reads(bytes, r1, types) = After(r1, cd)
    BY <1>10, <1>16, <2>1, FieldsAreRead, Zenon
  <2> QED BY <1>15, <2>2
<1>20. Reads(bytes, r3, type) = r4
  <2>1. There(bytes, r3, last) /\ r3 \in Places
    BY <1>15
  <2>2. Reads(bytes, r3, type) = After(r3, last)
    BY <1>3, <1>10, <2>1, FieldsAreRead, Zenon
  <2> QED BY <1>15, <2>2
<1>21. ParseMetadata(bytes) = r4
  <2>1. ParseMetadata(bytes)
            = Reads(bytes,
                    ReadTopics(bytes,
                               Reads(bytes, ReadBrokers(bytes, Reads(bytes, Start0, type)), types)),
                    type)
    BY DEF ParseMetadata, Start0, type, types
  <2> QED BY <1>17, <1>18, <1>19, <1>20, <2>1, Zenon
<1>22. fields \in Seq(MessageField) /\ ParseMetadata(bytes) = After(Start0, fields)
  BY <1>8, <1>9, <1>21, Zenon DEF r4
<1> QED BY <1>22 DEF fields, bytes

\* Ranges have three fields each, the newest version last.
LEMMA RangesInARow ==
    ASSUME NEW n \in Nat, NEW max, Short(max), NEW rows \in Seq(Seq(MessageField)), Len(rows) = n,
           \A i \in 1 .. n : Len(rows[i]) = 3 /\ rows[i][3] = Field("int16", max)
    PROVE  /\ Len(FlattenSeq(rows)) = 3 * n
           /\ \A j \in 1 .. n : FlattenSeq(rows)[3 * j] = Field("int16", max)
<1> DEFINE f == Field("int16", max)
<1> HIDE DEF f
<1>1. PICK before : Grows(before, rows, n) /\ before[n] = FlattenSeq(rows)
  BY ElementByElement
<1>2. /\ before[0] = <<>>
      /\ \A k \in 0 .. n : before[k] \in Seq(MessageField)
      /\ \A k \in 1 .. n : rows[k] \in Seq(MessageField) /\ before[k] = before[k - 1] \o rows[k]
  BY <1>1, Zenon DEF Grows
<1>3. \A i \in 1 .. n : Len(rows[i]) = 3 /\ rows[i][3] = f
  BY DEF f
<1> DEFINE T == {k \in Nat : k <= n => Len(before[k]) = 3 * k /\ \A j \in 1 .. k : before[k][3 * j] = f}
<1>4. 0 \in T
  BY <1>2
<1>5. ASSUME NEW k \in Nat, k \in T
      PROVE  k + 1 \in T
  <2> SUFFICES ASSUME k + 1 <= n
               PROVE  /\ Len(before[k + 1]) = 3 * (k + 1)
                      /\ \A j \in 1 .. k + 1 : before[k + 1][3 * j] = f
    OBVIOUS
  <2> DEFINE a == before[k]
             b == rows[k + 1]
             c == before[k + 1]
  <2>1. k \in 0 .. n /\ k + 1 \in 1 .. n /\ (k + 1) - 1 = k /\ k <= n
    OBVIOUS
  <2>2. a \in Seq(MessageField) /\ b \in Seq(MessageField) /\ c = a \o b
    BY <1>2, <2>1
  <2>3. Len(a) = 3 * k /\ \A j \in 1 .. k : a[3 * j] = f
    BY <1>5, <2>1
  <2>4. Len(b) = 3 /\ b[3] = f
    BY <1>3, <2>1
  <2> HIDE DEF a, b, c, T
  <2>5. Consists(c, a, b)
    BY <2>2, ConcatenationConsists, Zenon
  <2>6. Len(c) = 3 * (k + 1)
    BY <2>3, <2>4, <2>5 DEF Consists
  <2>7. ASSUME NEW j \in 1 .. k + 1
        PROVE  c[3 * j] = f
    <3>1. CASE j = k + 1
      <4>1. c[Len(a) + 3] = b[3]
        BY <2>4, <2>5 DEF Consists
      <4>2. 3 * j = Len(a) + 3
        BY <2>3, <3>1
      <4> QED BY <2>4, <4>1, <4>2
    <3>2. CASE j # k + 1
      <4>1. j \in 1 .. k
        BY <3>2
      <4>2. 3 * j \in 1 .. Len(a)
        BY <2>3, <4>1
      <4>3. c[3 * j] = a[3 * j]
        BY <2>5, <4>2 DEF Consists
      <4> QED BY <2>3, <4>1, <4>3
    <3> QED BY <3>1, <3>2
  <2> QED BY <2>6, <2>7 DEF c
<1> HIDE DEF T
<1>6. n \in T
  BY <1>4, <1>5, Induction
<1> QED BY <1>1, <1>6 DEF T, f

\* A set of positions that is not empty has a last one.
LEMMA LastPosition ==
    ASSUME NEW n \in Nat, NEW S, S \subseteq 1 .. n, S # {}
    PROVE  \E j \in S : \A k \in S : k <= j
<1> DEFINE T == {i \in Nat : (\E j \in S : j <= i) => \E j \in S : \A k \in S : k <= i => k <= j}
<1>1. 0 \in T
  OBVIOUS
<1>2. ASSUME NEW i \in Nat, i \in T
      PROVE  i + 1 \in T
  <2>1. CASE i + 1 \in S
    BY <2>1
  <2>2. CASE i + 1 \notin S
    <3> SUFFICES ASSUME NEW j0 \in S, j0 <= i + 1
                 PROVE  \E j \in S : \A k \in S : k <= i + 1 => k <= j
      OBVIOUS
    <3>1. j0 <= i
      BY <2>2
    <3>2. PICK j \in S : \A k \in S : k <= i => k <= j
      BY <1>2, <3>1
    <3>3. \A k \in S : k <= i + 1 => k <= i
      BY <2>2
    <3> QED BY <3>2, <3>3
  <2> QED BY <2>1, <2>2
<1> HIDE DEF T
<1>3. n \in T
  BY <1>1, <1>2, Induction
<1>4. \A k \in S : k <= n
  OBVIOUS
<1>5. \E j \in S : j <= n
  BY <1>4
<1> QED BY <1>3, <1>4, <1>5 DEF T

\* The answer to ApiVersions is read, and max is the newest version in it.
LEMMA ApiVersionsIsParsed ==
    ASSUME answerVersion = 1, NEW errorCode, Short(errorCode), NEW max, Short(max),
           NEW keys, NEW n, n = Len(keys), DOMAIN keys = 1 .. n, Short(n), \A i \in 1 .. n : Short(keys[i])
    PROVE  LET fields == ApiVersionsAnswer(errorCode, keys, max)
           IN  /\ fields \in Seq(MessageField)
               /\ ParseApiVersions(FieldBytes(fields)) = After(Start0, fields)
               /\ NewestMetadata(Payloads(fields)) \in {Null, max}
<1> DEFINE e == V(0, "int16", errorCode)
           d == V(1, "int32", 7)
           rows == [i \in 1 .. n |-> V(0, "int16", keys[i]) \o V(0, "int16", 0) \o V(0, "int16", max)]
           head == e \o d
           types == <<"int16", "int32">>
           rowTypes == <<"int16", "int16", "int16">>
           fields == ApiVersionsAnswer(errorCode, keys, max)
           bytes == FieldBytes(fields)
<1>1. head \in Seq(MessageField) /\ Matches(types, head) /\ Len(head) = 2
  <2> DEFINE f1 == Field("int16", errorCode)
             f2 == Field("int32", 7)
  <2>1. e = <<f1>> /\ d = <<f2>>
    BY EveryField
  <2>2. f1 \in MessageField /\ f1.type = "int16" /\ f2 \in MessageField /\ f2.type = "int32"
    <3>1. Short(7)
      BY DEF Short
    <3> QED BY <3>1, SmallNumbers DEF Field
  <2> HIDE DEF f1, f2
  <2>3. <<f1>> \o <<f2>> = <<f1, f2>>
    BY <2>2, FieldsInARow
  <2>4. <<f1, f2>> \in Seq(MessageField) /\ Matches(types, <<f1, f2>>) /\ Len(<<f1, f2>>) = 2
    BY <2>2 DEF Matches, ReadAs
  <2> HIDE DEF types, e, d
  <2> QED BY <2>1, <2>3, <2>4, Zenon
<1>2. ASSUME NEW i \in 1 .. n
      PROVE  ProperRow(rows[i], rowTypes) /\ Len(rows[i]) = 3 /\ rows[i][3] = Field("int16", max)
  <2> DEFINE f1 == Field("int16", keys[i])
             f2 == Field("int16", 0)
             f3 == Field("int16", max)
             v1 == V(0, "int16", keys[i])
             v2 == V(0, "int16", 0)
             v3 == V(0, "int16", max)
  <2>1. v1 = <<f1>> /\ v2 = <<f2>> /\ v3 = <<f3>>
    BY EveryField
  <2>2. /\ f1 \in MessageField /\ f2 \in MessageField /\ f3 \in MessageField
        /\ f1.type = "int16" /\ f2.type = "int16" /\ f3.type = "int16"
    <3>1. Short(0) /\ Short(keys[i])
      BY DEF Short
    <3> QED BY <3>1, SmallNumbers DEF Field
  <2> HIDE DEF f1, f2, f3
  <2>3. rows[i] = <<f1, f2, f3>>
    <3>1. <<f1>> \o <<f2>> \o <<f3>> = <<f1, f2, f3>>
      BY <2>2, FieldsInARow
    <3>2. rows[i] = v1 \o v2 \o v3
      OBVIOUS
    <3> HIDE DEF rows, v1, v2, v3
    <3> QED BY <2>1, <3>1, <3>2, Zenon
  <2>4. ProperRow(<<f1, f2, f3>>, rowTypes) /\ Len(<<f1, f2, f3>>) = 3 /\ <<f1, f2, f3>>[3] = f3
    BY <2>2 DEF ProperRow, Matches, ReadAs
  <2> HIDE DEF rows, rowTypes
  <2> QED BY <2>3, <2>4, Zenon DEF f3
<1>3. rows = [i \in 1 .. n |-> rows[i]]
  OBVIOUS
<1>4. fields = head \o Counted(rows)
  <2>1. Array(0, rows) = Counted(rows)
    BY EveryField
  <2> QED BY <2>1 DEF ApiVersionsAnswer
<1> HIDE DEF head, e, d, types, rowTypes, rows
<1>5. ProperRows(rows, rowTypes) /\ Len(rows) = n
  BY <1>2, <1>3, RowsAreProper
<1>6. rows \in Seq(Seq(MessageField)) /\ Short(Len(rows))
  BY <1>5 DEF ProperRows
<1>7. /\ CountOf(n) \in Seq(MessageField) /\ FlattenSeq(rows) \in Seq(MessageField)
      /\ Counted(rows) \in Seq(MessageField) /\ Counted(rows) = CountOf(n) \o FlattenSeq(rows)
  BY <1>5, <1>6, CountedType DEF Counted
<1>8. fields \in Seq(MessageField)
  BY <1>1, <1>4, <1>7, FieldsJoined
<1> HIDE DEF fields
<1>9. bytes \in Seq(Byte) /\ Start0 \in Places /\ There(bytes, Start0, head \o Counted(rows))
  BY <1>4, <1>8, AllIsThere, FieldsType
<1> HIDE DEF bytes
<1>10. ParseApiVersions(bytes) = After(Start0, fields)
  <2>1. Parted(bytes, Start0, head, Counted(rows))
    BY <1>1, <1>7, <1>9, NextIsThere, Zenon
  <2> DEFINE r0 == After(Start0, head)
  <2>2. /\ There(bytes, Start0, head) /\ r0 \in Places /\ There(bytes, r0, Counted(rows))
        /\ After(r0, Counted(rows)) = After(Start0, fields)
    BY <1>4, <2>1 DEF Parted
  <2>3. Reads(bytes, Start0, types) = r0
    BY <1>1, <1>9, <2>2, FieldsAreRead, Zenon
  <2> HIDE DEF r0
  <2>4. ReadRows(bytes, r0, rowTypes) = After(r0, Counted(rows))
    BY <1>5, <1>9, <2>2, ArrayIsRead, Zenon
  <2>5. ParseApiVersions(bytes) = ReadRows(bytes, Reads(bytes, Start0, types), rowTypes)
    BY DEF ParseApiVersions, Start0, types, rowTypes
  <2> QED BY <2>2, <2>3, <2>4, <2>5
<1> DEFINE rest == FlattenSeq(rows)
           values == Payloads(fields)
<1>11. n \in Nat /\ Len(rest) = 3 * n /\ \A j \in 1 .. n : rest[3 * j] = Field("int16", max)
  <2>1. n \in Nat
    BY DEF Short
  <2> QED BY <1>2, <1>5, <1>6, <2>1, RangesInARow
<1> HIDE DEF rest
<1>12. Len(CountOf(n)) = 1 /\ CountOf(n)[1] = Field("int32", n)
  BY DEF CountOf
<1>13. /\ Len(fields) = 3 + 3 * n /\ fields[3] = Field("int32", n)
       /\ \A j \in 1 .. n : fields[3 * j + 3] = Field("int16", max)
  <2> DEFINE c == Counted(rows)
             count == CountOf(n)
  <2>1. Consists(fields, head, c) /\ Consists(c, count, rest)
    BY <1>1, <1>4, <1>7, ConcatenationConsists, Zenon DEF rest
  <2> HIDE DEF c, count
  <2>2. Len(count) = 1 /\ count[1] = Field("int32", n)
    BY <1>12 DEF count
  <2>3. Len(c) = 1 + 3 * n /\ c[1] = Field("int32", n)
    BY <1>11, <2>1, <2>2 DEF Consists
  <2>4. Len(fields) = 3 + 3 * n
    <3>1. Len(fields) = Len(head) + Len(c)
      BY <2>1, Zenon DEF Consists
    <3>2. 3 * n \in Nat
      BY <1>11
    <3> QED BY <1>1, <2>3, <3>1, <3>2
  <2>5. fields[Len(head) + 1] = c[1]
    BY <1>11, <2>1, <2>3 DEF Consists
  <2>6. ASSUME NEW j \in 1 .. n
        PROVE  fields[3 * j + 3] = Field("int16", max)
    <3>1. 3 * j \in 1 .. Len(rest)
      BY <1>11
    <3>2. c[Len(count) + 3 * j] = rest[3 * j]
      BY <2>1, <3>1 DEF Consists
    <3>3. 1 + 3 * j \in 1 .. Len(c)
      BY <1>11, <2>3
    <3>4. fields[Len(head) + (1 + 3 * j)] = c[1 + 3 * j]
      BY <2>1, <3>3 DEF Consists
    <3>5. Len(head) + (1 + 3 * j) = 3 * j + 3 /\ Len(count) + 3 * j = 1 + 3 * j
      BY <1>1, <2>2
    <3> QED BY <1>11, <3>2, <3>4, <3>5
  <2>7. Len(head) + 1 = 3
    BY <1>1
  <2> QED BY <2>3, <2>4, <2>5, <2>6, <2>7
<1>14. values[3] = n /\ \A j \in 1 .. n : values[3 * j + 3] = max
  <2>1. \A i \in 1 .. Len(fields) : values[i] = Payload(fields[i])
    BY <1>8, FieldsType
  <2>2. Payload(Field("int32", n)) = n /\ Payload(Field("int16", max)) = max
    BY DEF Payload, Field, NumberTypes
  <2>3. 3 \in 1 .. Len(fields) /\ \A j \in 1 .. n : 3 * j + 3 \in 1 .. Len(fields)
    BY <1>11, <1>13
  <2> HIDE DEF values
  <2> QED BY <1>13, <2>1, <2>2, <2>3
<1> HIDE DEF values
<1>15. NewestMetadata(values) \in {Null, max}
  <2> DEFINE ranges == {j \in 1 .. values[3] : values[3 * j + 1] = MetadataKey}
             last == CHOOSE j \in ranges : \A k \in ranges : k <= j
  <2>1. NewestMetadata(values) = IF ranges = {} THEN Null ELSE values[3 * last + 3]
    BY DEF NewestMetadata
  <2>2. ranges \subseteq 1 .. n
    BY <1>14
  <2> HIDE DEF ranges
  <2>3. CASE ranges = {}
    BY <2>1, <2>3
  <2>4. CASE ranges # {}
    <3>1. \E j \in ranges : \A k \in ranges : k <= j
      BY <1>11, <2>2, <2>4, LastPosition
    <3>2. last \in ranges
      BY <3>1
    <3>3. last \in 1 .. n
      BY <2>2, <3>2
    <3> HIDE DEF last
    <3> QED BY <1>14, <2>1, <2>4, <3>3
  <2> QED BY <2>3, <2>4
<1>16. /\ fields \in Seq(MessageField) /\ ParseApiVersions(bytes) = After(Start0, fields)
       /\ NewestMetadata(Payloads(fields)) \in {Null, max}
  BY <1>8, <1>10, <1>15 DEF values
<1> QED BY <1>16 DEF fields, bytes

-----------------------------------------------------------------------------
\* Numbers of 16 bits: what a version may be that was read out of an answer of
\* another version.
OfInt16(n) == n \in Int /\ n >= -32768 /\ n <= 32767

LEMMA VersionField ==
    ASSUME NEW n, OfInt16(n)
    PROVE  Field("int16", n) \in MessageField /\ n \in Int
<1>1. n \in Int
  BY DEF OfInt16
<1>2. Shifted(n, 1) \in -128 .. 127
  <2>1. Shifted(n, 0 + 1) = Shifted(n, 0) \div 256 /\ Shifted(n, 0) = n
    BY <1>1, ShiftedStep
  <2>2. n \div 256 \in -128 .. 127
    BY SMT DEF OfInt16
  <2>3. 0 + 1 = 1
    OBVIOUS
  <2> QED BY <2>1, <2>2, <2>3
<1>3. InRange("int16", n)
  <2>1. Width("int16") - 1 = 1
    BY DEF Width
  <2> QED BY <1>2, <2>1 DEF InRange, SignedTypes
<1>4. Field("int16", n).type = "int16" /\ Field("int16", n).value = n
  BY DEF Field
<1>5. "int16" \in NumberTypes /\ "int16" \in Types /\ "int16" \notin LongTypes
  BY DEF NumberTypes, Types, LongTypes, TextTypes, ArrayTypes
<1>6. Field("int16", n) \in [type : NumberTypes \cup {"string"}, value : Int \cup {Null}]
  <2>1. ASSUME NEW t \in NumberTypes \cup {"string"}, NEW v \in Int \cup {Null}
        PROVE  Field(t, v) \in [type : NumberTypes \cup {"string"}, value : Int \cup {Null}]
    BY DEF Field
  <2>2. "int16" \in NumberTypes \cup {"string"} /\ n \in Int \cup {Null}
    BY <1>1, <1>5
  <2> QED BY <2>1, <2>2, Zenon
<1>7. ProperField(Field("int16", n))
  BY <1>1, <1>3, <1>4, <1>5 DEF ProperField, Encodable
<1> QED BY <1>1, <1>6, <1>7 DEF MessageField

LEMMA ShortVersions ==
    ASSUME NEW n, Short(n)
    PROVE  OfInt16(n)
BY SMT DEF Short, OfInt16

\* What is read of two bytes.
LEMMA NumberOfTwoBytes ==
    ASSUME NEW bytes \in Seq(Byte), NEW x \in Nat
    PROVE  LET number == DecodeNumber(bytes, "int16", x)
           IN  number \in Results(Int) /\ (~number.threw => OfInt16(number.value))
<1> DEFINE number == DecodeNumber(bytes, "int16", x)
<1>1. "int16" \in FixedTypes /\ Width("int16") = 2 /\ "int16" \in SignedTypes
  BY DEF FixedTypes, Types, NumberTypes, CompactTypes, Width, SignedTypes
<1>2. number \in Results(Int)
  BY <1>1, DecodersType
<1>3. ASSUME ~number.threw
      PROVE  OfInt16(number.value)
  <2>1. x + 2 <= Len(bytes)
    <3>1. number = Throws \/ ~(x + 2 > Len(bytes))
      BY <1>1 DEF DecodeNumber
    <3>2. Throws.threw
      BY DEF Throws
    <3> HIDE DEF number
    <3>3. ~(x + 2 > Len(bytes))
      BY <1>3, <3>1, <3>2
    <3> QED BY <3>3
  <2>2. x + 1 \in 1 .. Len(bytes) /\ x + 2 \in 1 .. Len(bytes)
    BY <2>1
  <2> DEFINE b1 == bytes[x + 1]
             b2 == bytes[x + 2]
  <2>3. b1 \in 0 .. 255 /\ b2 \in 0 .. 255
    <3>1. \A i \in 1 .. Len(bytes) : bytes[i] \in Byte
      OBVIOUS
    <3>2. b1 \in Byte /\ b2 \in Byte
      BY <2>2, <3>1, Zenon
    <3> QED BY <3>2 DEF Byte
  <2>4. PICK upTo : /\ upTo[0] = IF b1 >= 128 THEN -1 ELSE 0
                    /\ \A i \in 1 .. 2 : upTo[i] = upTo[i - 1] * 256 + bytes[x + i]
                    /\ number = Got(upTo[2], x + 2)
    <3>1. x + Width("int16") <= Len(bytes)
      BY <1>1, <2>1
    <3>2. DecodedInSteps(bytes, "int16", x)
      BY <1>1, <3>1, DecodeNumberStep
    <3> QED BY <1>1, <3>2 DEF DecodedInSteps
  <2>5. upTo[1] = upTo[0] * 256 + b1 /\ upTo[2] = upTo[1] * 256 + b2
    <3>1. 1 \in 1 .. 2 /\ 2 \in 1 .. 2 /\ 1 - 1 = 0 /\ 2 - 1 = 1
      OBVIOUS
    <3> QED BY <2>4, <3>1
  <2> HIDE DEF b1, b2, number
  <2>6. upTo[1] \in -128 .. 127
    <3>1. CASE b1 >= 128
      <4>1. upTo[1] = -1 * 256 + b1
        BY <2>4, <2>5, <3>1
      <4> QED BY <2>3, <3>1, <4>1
    <3>2. CASE ~(b1 >= 128)
      <4>1. upTo[1] = 0 * 256 + b1
        BY <2>4, <2>5, <3>2
      <4> QED BY <2>3, <3>2, <4>1
    <3> QED BY <3>1, <3>2
  <2>7. OfInt16(upTo[2])
    <3>1. ASSUME NEW u \in -128 .. 127, NEW b \in 0 .. 255
          PROVE  OfInt16(u * 256 + b)
      BY SMT DEF OfInt16
    <3> QED BY <2>3, <2>5, <2>6, <3>1, Zenon
  <2> QED BY <2>4, <2>7, GotFields
<1> QED BY <1>2, <1>3

-----------------------------------------------------------------------------
\* What the parser of ApiVersions makes of the bytes of any answer: the ranges
\* that it finds have numbers of 16 bits, so that the version that the next
\* request asks for is one, too.
NumbersRead == Results(Seq(Int))

\* k numbers were read, c as the count, and after it numbers of 16 bits.
Tracks(so, k, c) ==
    ~so.threw =>
        /\ Len(so.value) = k
        /\ so.value[3] = c
        /\ \A i \in 4 .. k : OfInt16(so.value[i])

\* One more number is read, or it throws.
LEMMA NumberIsAppended ==
    ASSUME NEW bytes \in Seq(Byte), NEW so \in NumbersRead, NEW type \in {"int16", "int32"}
    PROVE  LET r == ReadField(bytes, type, so)
           IN  /\ r \in NumbersRead
               /\ ~r.threw => /\ ~so.threw
                              /\ \E v \in Int : /\ r.value = Append(so.value, v)
                                                /\ type = "int16" => OfInt16(v)
<1> DEFINE d == DecodeNumber(bytes, type, so.next)
           r == ReadField(bytes, type, so)
           Ints == Seq(Int)
<1>1. /\ so.threw => so = Throws
      /\ ~so.threw => so.value \in Ints /\ so.next \in Nat
  BY ResultsType DEF NumbersRead
<1>2. r = IF so.threw \/ d.threw THEN Throws ELSE Got(Append(so.value, d.value), d.next)
  <2>1. type # "text" /\ type \in NumberTypes /\ type \notin TextTypes /\ type \notin ArrayTypes
    BY DEF NumberTypes, TextTypes, ArrayTypes
  <2>2. \A from : Decode(bytes, type, from) = DecodeNumber(bytes, type, from)
    BY <2>1 DEF Decode
  <2>3. DecodeField(bytes, type, so.next) = Decode(bytes, type, so.next)
    BY <2>1, Zenon DEF DecodeField
  <2>4. r = AppendElement(so, d)
    BY <2>2, <2>3, Zenon DEF ReadField
  <2> HIDE DEF d, r
  <2> QED BY <2>4 DEF AppendElement
<1>3. Throws.threw /\ Throws \in NumbersRead
  BY ResultsType DEF NumbersRead
<1>4. CASE so.threw \/ d.threw
  BY <1>2, <1>3, <1>4
<1>5. CASE ~(so.threw \/ d.threw)
  <2>1. so.value \in Ints /\ so.next \in Nat
    BY <1>1, <1>5
  <2>2. type \in FixedTypes
    BY DEF FixedTypes, Types, NumberTypes, CompactTypes
  <2>3. d \in Results(Int)
    BY <2>1, <2>2, DecodersType
  <2>4. type = "int16" => OfInt16(d.value)
    BY <1>5, <2>1, NumberOfTwoBytes
  <2> HIDE DEF d
  <2>5. d.value \in Int /\ d.next \in Nat
    BY <1>5, <2>3, ResultsType
  <2>6. Append(so.value, d.value) \in Ints
    BY <2>1, <2>5
  <2> HIDE DEF r, Ints
  <2>7. r = Got(Append(so.value, d.value), d.next)
    BY <1>2, <1>5
  <2>8. r \in NumbersRead
    BY <2>5, <2>6, <2>7, ResultsType DEF NumbersRead, Ints
  <2>9. r.value = Append(so.value, d.value)
    BY <2>7, GotFields
  <2> QED BY <1>5, <2>4, <2>5, <2>8, <2>9 DEF r
<1> QED BY <1>4, <1>5

\* Few fields are read one after the other.
ReadOneByOne(bytes, so, t1, t2, t3) ==
    /\ Reads(bytes, so, <<t1>>) = ReadField(bytes, t1, so)
    /\ Reads(bytes, so, <<t1, t2>>) = ReadField(bytes, t2, ReadField(bytes, t1, so))
    /\ Reads(bytes, so, <<t1, t2, t3>>)
           = ReadField(bytes, t3, ReadField(bytes, t2, ReadField(bytes, t1, so)))

LEMMA FewReads ==
    ASSUME NEW bytes, NEW so, NEW t1, NEW t2, NEW t3
    PROVE  ReadOneByOne(bytes, so, t1, t2, t3)
<1> DEFINE r1 == ReadField(bytes, t1, so)
           r2 == ReadField(bytes, t2, r1)
           r3 == ReadField(bytes, t3, r2)
           place == [i \in 0 .. 3 |-> IF i = 0 THEN so ELSE IF i = 1 THEN r1
                                      ELSE IF i = 2 THEN r2 ELSE r3]
<1>1. ASSUME NEW n \in 1 .. 3, NEW types, Len(types) = n, types[1] = t1,
             n >= 2 => types[2] = t2, n >= 3 => types[3] = t3
      PROVE  Reads(bytes, so, types) = place[n]
  <2> DEFINE Solves(f) == f = [i \in 0 .. n |-> IF i = 0 THEN so
                                                ELSE ReadField(bytes, types[i], f[i - 1])]
             upTo == CHOOSE f : Solves(f)
             h == [i \in 0 .. n |-> place[i]]
  <2>1. Reads(bytes, so, types) = upTo[n]
    BY <1>1 DEF Reads
  <2>2. /\ place[0] = so /\ place[1] = r1 /\ place[2] = r2 /\ place[3] = r3
    OBVIOUS
  <2>3. \A i \in 0 .. n : h[i] = place[i]
    OBVIOUS
  <2>4. h = [i \in 0 .. n |-> h[i]]
    OBVIOUS
  <2> HIDE DEF place, h
  <2>5. \A i \in 1 .. n : h[i] = ReadField(bytes, types[i], h[i - 1])
    <3> TAKE i \in 1 .. n
    <3>1. i \in 0 .. n /\ i - 1 \in 0 .. n /\ i \in {1, 2, 3} /\ n >= i
      OBVIOUS
    <3>2. h[i] = place[i] /\ h[i - 1] = place[i - 1]
      BY <2>3, <3>1
    <3>3. CASE i = 1
      BY <1>1, <2>2, <3>2, <3>3
    <3>4. CASE i = 2
      <4>1. types[2] = t2 /\ i - 1 = 1
        BY <1>1, <3>1, <3>4
      <4> QED BY <2>2, <3>2, <3>4, <4>1
    <3>5. CASE i = 3
      <4>1. types[3] = t3 /\ i - 1 = 2
        BY <1>1, <3>1, <3>5
      <4> QED BY <2>2, <3>2, <3>5, <4>1
    <3> QED BY <3>1, <3>3, <3>4, <3>5
  <2>6. 0 \in 0 .. n /\ n \in 0 .. n /\ \A i \in 0 .. n : i # 0 => i \in 1 .. n
    OBVIOUS
  <2>7. h[0] = so
    BY <2>2, <2>3, <2>6
  <2>8. Solves(h)
    <3>1. \A i \in 0 .. n : h[i] = IF i = 0 THEN so ELSE ReadField(bytes, types[i], h[i - 1])
      BY <2>5, <2>6, <2>7
    <3> QED BY <2>4, <3>1
  <2>9. Solves(upTo)
    <3> HIDE DEF Solves
    <3> QED BY <2>8, Zenon
  <2>10. upTo[0] = so /\ \A i \in 1 .. n : upTo[i] = ReadField(bytes, types[i], upTo[i - 1])
    <3> HIDE DEF upTo
    <3>1. \A i \in 1 .. n : i \in 0 .. n /\ i # 0
      OBVIOUS
    <3>2. upTo[0] = so
      BY <2>6, <2>9
    <3>3. ASSUME NEW i \in 1 .. n
          PROVE  upTo[i] = ReadField(bytes, types[i], upTo[i - 1])
      BY <2>9, <3>1
    <3> QED BY <3>2, <3>3
  <2> HIDE DEF upTo, Solves
  <2>11. InStep(upTo, h, n)
    BY <2>5, <2>7, <2>10 DEF InStep
  <2>12. upTo[n] = h[n]
    BY <2>11, SameSteps
  <2> QED BY <2>1, <2>3, <2>6, <2>12
<1>2. /\ place[1] = r1 /\ place[2] = r2 /\ place[3] = r3
  OBVIOUS
<1> HIDE DEF place, r1, r2, r3
<1>3. Reads(bytes, so, <<t1>>) = r1
  <2> DEFINE n == 1
             types == <<t1>>
  <2>1. n \in 1 .. 3 /\ Len(types) = n /\ types[1] = t1 /\ (n >= 2 => types[2] = t2)
        /\ (n >= 3 => types[3] = t3)
    OBVIOUS
  <2> QED BY <1>1, <1>2, <2>1
<1>4. Reads(bytes, so, <<t1, t2>>) = r2
  <2> DEFINE n == 2
             types == <<t1, t2>>
  <2>1. n \in 1 .. 3 /\ Len(types) = n /\ types[1] = t1 /\ (n >= 2 => types[2] = t2)
        /\ (n >= 3 => types[3] = t3)
    OBVIOUS
  <2> QED BY <1>1, <1>2, <2>1
<1>5. Reads(bytes, so, <<t1, t2, t3>>) = r3
  <2> DEFINE n == 3
             types == <<t1, t2, t3>>
  <2>1. n \in 1 .. 3 /\ Len(types) = n /\ types[1] = t1 /\ (n >= 2 => types[2] = t2)
        /\ (n >= 3 => types[3] = t3)
    OBVIOUS
  <2> QED BY <1>1, <1>2, <2>1
<1> QED BY <1>3, <1>4, <1>5, Zenon DEF r1, r2, r3, ReadOneByOne

\* A number of 16 bits behind the count, and three of them.
LEMMA NumberKeepsTrack ==
    ASSUME NEW bytes \in Seq(Byte), NEW so \in NumbersRead, NEW k \in Nat, k >= 3, NEW c,
           Tracks(so, k, c)
    PROVE  /\ ReadField(bytes, "int16", so) \in NumbersRead
           /\ Tracks(ReadField(bytes, "int16", so), k + 1, c)
<1> DEFINE type == "int16"
           r == ReadField(bytes, type, so)
<1>1. /\ r \in NumbersRead
      /\ ~r.threw => ~so.threw /\ \E v \in Int : r.value = Append(so.value, v) /\ OfInt16(v)
  BY NumberIsAppended
<1> HIDE DEF r
<1>2. ASSUME ~r.threw
      PROVE  /\ Len(r.value) = k + 1
             /\ r.value[3] = c
             /\ \A i \in 4 .. k + 1 : OfInt16(r.value[i])
  <2>1. PICK v \in Int : r.value = Append(so.value, v) /\ OfInt16(v)
    BY <1>1, <1>2
  <2> DEFINE s == so.value
  <2>2. s \in Seq(Int)
    BY <1>1, <1>2, ResultsType DEF NumbersRead
  <2>3. Len(s) = k /\ s[3] = c /\ \A i \in 4 .. k : OfInt16(s[i])
    BY <1>1, <1>2 DEF Tracks
  <2>4. r.value = Append(s, v)
    BY <2>1
  <2> HIDE DEF s
  <2>5. /\ Len(Append(s, v)) = k + 1 /\ Append(s, v)[k + 1] = v
        /\ \A i \in 1 .. k : Append(s, v)[i] = s[i]
    BY <2>2, <2>3
  <2>6. 3 \in 1 .. k
    OBVIOUS
  <2>7. ASSUME NEW i \in 4 .. k + 1
        PROVE  OfInt16(r.value[i])
    <3>1. CASE i = k + 1
      BY <2>1, <2>4, <2>5, <3>1
    <3>2. CASE i # k + 1
      <4>1. i \in 1 .. k /\ i \in 4 .. k
        BY <3>2
      <4> QED BY <2>3, <2>4, <2>5, <4>1
    <3> QED BY <3>1, <3>2
  <2> QED BY <2>3, <2>4, <2>5, <2>6, <2>7
<1> QED BY <1>1, <1>2 DEF Tracks, r

RangeTypes == <<"int16", "int16", "int16">>

LEMMA RangeKeepsTrack ==
    ASSUME NEW bytes \in Seq(Byte), NEW so \in NumbersRead
    PROVE  /\ Reads(bytes, so, RangeTypes) \in NumbersRead
           /\ \A k \in Nat : \A c : k >= 3 /\ Tracks(so, k, c)
                                   => Tracks(Reads(bytes, so, RangeTypes), k + 3, c)
<1> DEFINE r1 == ReadField(bytes, "int16", so)
           r2 == ReadField(bytes, "int16", r1)
           r3 == ReadField(bytes, "int16", r2)
<1>1. Reads(bytes, so, RangeTypes) = r3
  <2>1. ReadOneByOne(bytes, so, "int16", "int16", "int16")
    BY FewReads
  <2> QED BY <2>1, Zenon DEF ReadOneByOne, RangeTypes
<1>2. r1 \in NumbersRead
  BY NumberIsAppended
<1> HIDE DEF r1
<1>3. r2 \in NumbersRead
  BY <1>2, NumberIsAppended
<1> HIDE DEF r2
<1>4. r3 \in NumbersRead
  BY <1>3, NumberIsAppended
<1>5. ASSUME NEW k \in Nat, NEW c, k >= 3, Tracks(so, k, c)
      PROVE  Tracks(r3, k + 3, c)
  <2>1. k + 1 \in Nat /\ k + 1 >= 3 /\ k + 2 \in Nat /\ k + 2 >= 3
        /\ (k + 1) + 1 = k + 2 /\ (k + 2) + 1 = k + 3
    BY <1>5
  <2>2. Tracks(r1, k + 1, c)
    BY <1>5, NumberKeepsTrack DEF r1
  <2>3. Tracks(r2, (k + 1) + 1, c)
    BY <1>2, <2>1, <2>2, NumberKeepsTrack DEF r2
  <2>4. Tracks(r2, k + 2, c)
    BY <2>1, <2>3
  <2>5. Tracks(r3, (k + 2) + 1, c)
    BY <1>3, <2>1, <2>4, NumberKeepsTrack
  <2> HIDE DEF r3
  <2> QED BY <2>1, <2>5
<1> QED BY <1>1, <1>4, <1>5

\* The loop over as many ranges as were counted.
LEMMA RangesKeepTrack ==
    ASSUME NEW bytes \in Seq(Byte), NEW counted \in NumbersRead, NEW n \in Nat, NEW c,
           Tracks(counted, 3, c), NEW upTo,
           upTo = CHOOSE f : f = [i \in 0 .. n |-> IF i = 0 THEN counted
                                                   ELSE Reads(bytes, f[i - 1], RangeTypes)]
    PROVE  upTo[n] \in NumbersRead /\ Tracks(upTo[n], 3 * n + 3, c)
<1> DEFINE Solves(f) == f = [i \in 0 .. n |-> IF i = 0 THEN counted
                                              ELSE Reads(bytes, f[i - 1], RangeTypes)]
           F == [p \in Nat \X NumbersRead |-> Reads(bytes, p[2], RangeTypes)]
<1>1. F \in [Nat \X NumbersRead -> NumbersRead]
  <2>1. ASSUME NEW p \in Nat \X NumbersRead
        PROVE  Reads(bytes, p[2], RangeTypes) \in NumbersRead
    <3>1. p[2] \in NumbersRead
      OBVIOUS
    <3> QED BY <3>1, RangeKeepsTrack
  <2> QED BY <2>1
<1>2. PICK g \in [Nat -> NumbersRead] : StepsDown(g, counted, F)
  <2> HIDE DEF F
  <2> QED BY <1>1, StepwiseRecursion
<1> DEFINE h == [i \in 0 .. n |-> g[i]]
<1>3. /\ g[0] = counted
      /\ \A i \in 1 .. n : g[i] = Reads(bytes, g[i - 1], RangeTypes)
  <2>1. g[0] = counted
    BY <1>2 DEF StepsDown
  <2>2. ASSUME NEW i \in 1 .. n
        PROVE  g[i] = Reads(bytes, g[i - 1], RangeTypes)
    <3>1. i \in Nat /\ i # 0 /\ i - 1 \in Nat
      OBVIOUS
    <3>2. g[i] = F[<<i, g[i - 1]>>] /\ g[i - 1] \in NumbersRead
      <4> HIDE DEF F
      <4> QED BY <1>2, <3>1 DEF StepsDown
    <3>3. F[<<i, g[i - 1]>>] = Reads(bytes, g[i - 1], RangeTypes)
      BY <3>1, <3>2
    <3> QED BY <3>2, <3>3
  <2> QED BY <2>1, <2>2
<1> HIDE DEF F
<1>4. Solves(h)
  <2>1. 0 \in 0 .. n /\ \A i \in 0 .. n : i # 0 => i \in 1 .. n /\ i - 1 \in 0 .. n
    OBVIOUS
  <2>2. \A i \in 0 .. n : h[i] = g[i]
    OBVIOUS
  <2>3. h = [i \in 0 .. n |-> h[i]]
    OBVIOUS
  <2> HIDE DEF h
  <2>4. \A i \in 0 .. n : h[i] = IF i = 0 THEN counted ELSE Reads(bytes, h[i - 1], RangeTypes)
    BY <1>3, <2>1, <2>2
  <2> QED BY <2>3, <2>4
<1>5. Solves(upTo)
  <2>1. upTo = CHOOSE f : Solves(f)
    OBVIOUS
  <2> HIDE DEF Solves, h
  <2> QED BY <1>4, <2>1, Zenon
<1>6. upTo[0] = counted /\ \A i \in 1 .. n : upTo[i] = Reads(bytes, upTo[i - 1], RangeTypes)
  <2>1. 0 \in 0 .. n /\ \A i \in 1 .. n : i \in 0 .. n /\ i # 0
    OBVIOUS
  <2> HIDE DEF h
  <2>2. upTo[0] = counted
    BY <1>5, <2>1
  <2>3. ASSUME NEW i \in 1 .. n
        PROVE  upTo[i] = Reads(bytes, upTo[i - 1], RangeTypes)
    BY <1>5, <2>1
  <2> QED BY <2>2, <2>3
<1> HIDE DEF Solves, h
<1> DEFINE T == {i \in Nat : i <= n => upTo[i] \in NumbersRead /\ Tracks(upTo[i], 3 * i + 3, c)}
<1>7. 0 \in T
  <2>1. 3 * 0 + 3 = 3
    OBVIOUS
  <2> QED BY <1>6, <2>1
<1>8. ASSUME NEW i \in Nat, i \in T
      PROVE  i + 1 \in T
  <2> SUFFICES ASSUME i + 1 <= n
               PROVE  upTo[i + 1] \in NumbersRead /\ Tracks(upTo[i + 1], 3 * (i + 1) + 3, c)
    OBVIOUS
  <2>1. i + 1 \in 1 .. n /\ (i + 1) - 1 = i /\ i <= n
    OBVIOUS
  <2> DEFINE place == upTo[i]
             k == 3 * i + 3
  <2>2. place \in NumbersRead /\ Tracks(place, k, c)
    BY <1>8, <2>1
  <2>3. upTo[i + 1] = Reads(bytes, place, RangeTypes)
    BY <1>6, <2>1
  <2>4. k \in Nat /\ k >= 3 /\ k + 3 = 3 * (i + 1) + 3
    OBVIOUS
  <2> HIDE DEF place, k, T
  <2>5. Reads(bytes, place, RangeTypes) \in NumbersRead /\ Tracks(Reads(bytes, place, RangeTypes), k + 3, c)
    BY <2>2, <2>4, RangeKeepsTrack
  <2> QED BY <2>3, <2>4, <2>5
<1> HIDE DEF T
<1>9. n \in T
  BY <1>7, <1>8, Induction
<1> QED BY <1>9 DEF T

\* For whatever bytes, when the parser does not throw.
LEMMA NewestIsOfInt16 ==
    ASSUME NEW bytes \in Seq(Byte), ~ParseApiVersions(bytes).threw
    PROVE  \/ NewestMetadata(ParseApiVersions(bytes).value) = Null
           \/ OfInt16(NewestMetadata(ParseApiVersions(bytes).value))
<1> DEFINE start == Got(<<>>, 0)
           r1 == ReadField(bytes, "int16", start)
           head == ReadField(bytes, "int32", r1)
           counted == ReadField(bytes, "int32", head)
           n == Last(counted.value)
           upTo == CHOOSE f : f = [i \in 0 .. n |-> IF i = 0 THEN counted
                                                    ELSE Reads(bytes, f[i - 1], RangeTypes)]
           parsed == ParseApiVersions(bytes)
           values == parsed.value
<1>1. parsed = IF counted.threw THEN Throws
               ELSE IF n > Len(bytes) THEN Throws
               ELSE IF n < 0 THEN counted
               ELSE upTo[n]
  <2>1. Reads(bytes, start, <<"int16", "int32">>) = head
    <3>1. ReadOneByOne(bytes, start, "int16", "int32", "int32")
      BY FewReads
    <3> QED BY <3>1, Zenon DEF ReadOneByOne
  <2>2. Reads(bytes, head, <<"int32">>) = counted
    <3> HIDE DEF head
    <3>1. ReadOneByOne(bytes, head, "int32", "int32", "int32")
      BY FewReads
    <3> QED BY <3>1, Zenon DEF ReadOneByOne
  <2>3. parsed = ReadRows(bytes, head, RangeTypes)
    <3> HIDE DEF head
    <3> QED BY <2>1 DEF ParseApiVersions, RangeTypes
  <2>4. ReadRows(bytes, head, RangeTypes)
            = Loop(bytes, Reads(bytes, head, <<"int32">>), LAMBDA so : Reads(bytes, so, RangeTypes))
    <3> HIDE DEF head
    <3> QED BY DEF ReadRows, ReadArray
  <2> HIDE DEF head, counted, parsed
  <2>5. ReadRows(bytes, head, RangeTypes)
            = Loop(bytes, counted, LAMBDA so : Reads(bytes, so, RangeTypes))
    BY <2>2, <2>4
  <2> QED BY <2>3, <2>5 DEF Loop
<1>2. start \in NumbersRead /\ start.value = <<>>
  <2> DEFINE none == <<>>
             Ints == Seq(Int)
  <2>1. none \in Ints /\ 0 \in Nat
    OBVIOUS
  <2> HIDE DEF none, Ints
  <2>2. Got(none, 0) \in Results(Ints) /\ Got(none, 0).value = none
    BY <2>1, ResultsType, GotFields
  <2> QED BY <2>2 DEF none, Ints, NumbersRead
<1> HIDE DEF start
<1>3. /\ r1 \in NumbersRead
      /\ ~r1.threw => ~start.threw /\ \E v \in Int : r1.value = Append(start.value, v)
  BY <1>2, NumberIsAppended
<1> HIDE DEF r1
<1>4. /\ head \in NumbersRead
      /\ ~head.threw => ~r1.threw /\ \E v \in Int : head.value = Append(r1.value, v)
  BY <1>3, NumberIsAppended
<1> HIDE DEF head
<1>5. /\ counted \in NumbersRead
      /\ ~counted.threw => ~head.threw /\ \E v \in Int : counted.value = Append(head.value, v)
  BY <1>4, NumberIsAppended
<1> HIDE DEF counted, parsed
<1>6. ~counted.threw
  <2>1. Throws.threw
    BY DEF Throws
  <2> QED BY <1>1, <2>1 DEF parsed
<1>7. counted.value \in Seq(Int) /\ Len(counted.value) = 3 /\ n = counted.value[3] /\ n \in Int
  <2>1. PICK c \in Int : counted.value = Append(head.value, c)
    BY <1>5, <1>6
  <2>2. PICK b \in Int : head.value = Append(r1.value, b)
    BY <1>4, <1>5, <1>6
  <2>3. PICK a \in Int : r1.value = Append(start.value, a)
    BY <1>3, <1>4, <1>5, <1>6
  <2>4. ASSUME NEW shorter \in Seq(Int), NEW v \in Int
        PROVE  /\ Append(shorter, v) \in Seq(Int)
               /\ Len(Append(shorter, v)) = Len(shorter) + 1
               /\ Append(shorter, v)[Len(shorter) + 1] = v
    OBVIOUS
  <2> DEFINE s == counted.value
             s1 == r1.value
             s2 == head.value
  <2>5. start.value \in Seq(Int) /\ Len(start.value) = 0
    BY <1>2
  <2> HIDE DEF s, s1, s2
  <2>6. s \in Seq(Int) /\ Len(s) = 3 /\ s[3] = c
    <3>1. s1 \in Seq(Int) /\ Len(s1) = 1
      BY <2>3, <2>4, <2>5 DEF s1
    <3>2. s2 \in Seq(Int) /\ Len(s2) = 2
      <4>1. s2 = Append(s1, b)
        BY <2>2 DEF s1, s2
      <4>2. Append(s1, b) \in Seq(Int) /\ Len(Append(s1, b)) = Len(s1) + 1
        BY <2>4, <3>1, Zenon
      <4> QED BY <3>1, <4>1, <4>2
    <3>3. s = Append(s2, c)
      BY <2>1 DEF s, s2
    <3>4. /\ Append(s2, c) \in Seq(Int) /\ Len(Append(s2, c)) = Len(s2) + 1
          /\ Append(s2, c)[Len(s2) + 1] = c
      BY <2>4, <3>2, Zenon
    <3>5. Len(s2) + 1 = 3
      BY <3>2
    <3> QED BY <3>3, <3>4, <3>5
  <2>7. Last(s) = s[3]
    BY <2>6 DEF Last
  <2> QED BY <2>6, <2>7 DEF s
<1>8. Tracks(counted, 3, n)
  <2>1. \A i \in 4 .. 3 : OfInt16(counted.value[i])
    OBVIOUS
  <2> HIDE DEF n
  <2> QED BY <1>7, <2>1 DEF Tracks
<1>9. n >= 0 => /\ ~(n > Len(bytes)) /\ parsed = upTo[n]
                /\ values[3] = n /\ \A i \in 4 .. 3 * n + 3 : OfInt16(values[i])
  <2> SUFFICES ASSUME n >= 0
               PROVE  /\ ~(n > Len(bytes)) /\ parsed = upTo[n]
                      /\ values[3] = n /\ \A i \in 4 .. 3 * n + 3 : OfInt16(values[i])
    OBVIOUS
  <2> HIDE DEF n
  <2>1. n \in Nat
    BY <1>7
  <2>2. ~(n > Len(bytes)) /\ parsed = upTo[n]
    <3>1. Throws.threw
      BY DEF Throws
    <3>2. ~(n < 0)
      BY <2>1
    <3>3. ~parsed.threw
      BY DEF parsed
    <3> HIDE DEF upTo
    <3> QED BY <1>1, <1>6, <3>1, <3>2, <3>3
  <2>3. Tracks(upTo[n], 3 * n + 3, n)
    BY <1>5, <1>8, <2>1, RangesKeepTrack
  <2>4. ~parsed.threw
    BY DEF parsed
  <2> HIDE DEF upTo
  <2> QED BY <2>2, <2>3, <2>4 DEF Tracks
<1>10. n < 0 => values = counted.value
  <2>1. n < 0 => ~(n > Len(bytes))
    <3> HIDE DEF n
    <3>1. Len(bytes) \in Nat
      OBVIOUS
    <3> QED BY <1>7, <3>1
  <2> HIDE DEF n, upTo
  <2> QED BY <1>1, <1>6, <2>1
<1> DEFINE ranges == {j \in 1 .. values[3] : values[3 * j + 1] = MetadataKey}
           last == CHOOSE j \in ranges : \A k \in ranges : k <= j
<1>11. NewestMetadata(values) = IF ranges = {} THEN Null ELSE values[3 * last + 3]
  BY DEF NewestMetadata
<1> HIDE DEF upTo
<1>12. values[3] = n
  <2> HIDE DEF n, values
  <2> QED BY <1>7, <1>9, <1>10
<1>13. ranges \subseteq 1 .. n
  BY <1>12
<1> HIDE DEF ranges, values, n
<1>14. CASE ranges = {}
  BY <1>11, <1>14 DEF values, parsed
<1>15. CASE ranges # {}
  <2>1. n \in Nat
    <3>1. PICK j \in ranges : TRUE
      BY <1>15
    <3>2. j \in 1 .. n
      BY <1>13, <3>1
    <3> QED BY <1>7, <3>2
  <2>2. \E j \in ranges : \A k \in ranges : k <= j
    BY <1>13, <1>15, <2>1, LastPosition
  <2>3. last \in ranges
    BY <2>2
  <2>4. last \in 1 .. n
    BY <1>13, <2>3
  <2> HIDE DEF last
  <2>5. 3 * last + 3 \in 4 .. 3 * n + 3
    BY <2>1, <2>4
  <2>6. OfInt16(values[3 * last + 3])
    BY <1>9, <2>1, <2>5
  <2> QED BY <1>11, <1>15, <2>6 DEF values, parsed
<1> QED BY <1>14, <1>15

-----------------------------------------------------------------------------
\* Numbers of 32 bits, as the lengths of requests are, and -1.
Long(n) == n = -1 \/ (n >= 0 /\ n <= 1000000)

LEMMA LengthNumbers ==
    ASSUME NEW n \in Int, Long(n)
    PROVE  Field("int32", n) \in MessageField /\ InRange("int32", n)
<1>1. Shifted(n, 3) \in -128 .. 127
  <2>1. CASE n = -1
    <3>1. Shifted(n, 3) = n
      BY <2>1, ShiftedOfMinusOne
    <3> QED BY <2>1, <3>1
  <2>2. CASE n # -1
    <3> DEFINE s1 == Shifted(n, 1)
               s2 == Shifted(n, 2)
               s3 == Shifted(n, 3)
    <3>1. s1 = n \div 256 /\ s2 = s1 \div 256 /\ s3 = s2 \div 256
      <4>1. \A k \in Nat : Shifted(n, k + 1) = Shifted(n, k) \div 256
        BY ShiftedStep
      <4>2. 0 + 1 = 1 /\ 1 + 1 = 2 /\ 2 + 1 = 3 /\ 0 \in Nat /\ 1 \in Nat /\ 2 \in Nat
        OBVIOUS
      <4> QED BY <4>1, <4>2, ShiftedStep
    <3> HIDE DEF s1, s2, s3
    <3>2. n \in Nat /\ n <= 1000000
      BY <2>2, SMT DEF Long
    <3>3. s1 \in Nat /\ s1 <= 3907
      BY <3>1, <3>2, SMT
    <3>4. s2 \in Nat /\ s2 <= 16
      BY <3>1, <3>3, SMT
    <3>5. s3 = 0
      BY <3>1, <3>4, SMT
    <3> QED BY <3>5 DEF s3
  <2> QED BY <2>1, <2>2
<1>5. InRange("int32", n)
  <2>1. Width("int32") - 1 = 3
    BY DEF Width
  <2> QED BY <1>1, <2>1 DEF InRange, SignedTypes
<1>6. Field("int32", n).type = "int32" /\ Field("int32", n).value = n
  BY DEF Field
<1>7. "int32" \in NumberTypes /\ "int32" \in Types /\ "int32" \notin LongTypes
  BY DEF NumberTypes, Types, LongTypes, TextTypes, ArrayTypes
<1>8. Field("int32", n) \in [type : NumberTypes \cup {"string"}, value : Int \cup {Null}]
  BY <1>7 DEF Field
<1>9. ProperField(Field("int32", n))
  BY <1>5, <1>6, <1>7 DEF ProperField, Encodable
<1> QED BY <1>5, <1>8, <1>9 DEF MessageField

\* How the fields of requests are written, and what they are read as.
LEMMA FieldCodes ==
    /\ \A n : /\ Encode(Field("int16", n)) = EncodeNumber(2, n)
              /\ Encode(Field("int32", n)) = EncodeNumber(4, n)
              /\ Encode(Field("string", n)) = EncodeText("string", n)
              /\ Payload(Field("int16", n)) = n
              /\ Payload(Field("int32", n)) = n
              /\ Payload(Field("string", n)) = IF n = Null THEN Null ELSE Content(n)
              /\ Field("int16", n).type = "int16" /\ Field("int32", n).type = "int32"
              /\ Field("string", n).type = "string"
    /\ \A type \in {"boolean", "int8"} :
          /\ Field(type, 0) \in MessageField /\ Field(type, 0).type = type
          /\ Encode(Field(type, 0)) = <<0>>
          /\ Payload(Field(type, 0)) = 0
<1>1. ASSUME NEW n
      PROVE  /\ Encode(Field("int16", n)) = EncodeNumber(2, n)
             /\ Encode(Field("int32", n)) = EncodeNumber(4, n)
             /\ Payload(Field("int16", n)) = n
             /\ Payload(Field("int32", n)) = n
  <2>1. Width("int16") = 2 /\ Width("int32") = 4
    BY DEF Width
  <2> QED BY <2>1 DEF Field, Encode, Payload, NumberTypes, TextTypes, ArrayTypes
<1>2. ASSUME NEW n
      PROVE  /\ Encode(Field("string", n)) = EncodeText("string", n)
             /\ Payload(Field("string", n)) = IF n = Null THEN Null ELSE Content(n)
  BY DEF Field, Encode, Payload, NumberTypes, TextTypes, ArrayTypes
<1>3. ASSUME NEW n
      PROVE  /\ Field("int16", n).type = "int16" /\ Field("int32", n).type = "int32"
             /\ Field("string", n).type = "string"
  BY DEF Field
<1>4. ASSUME NEW type \in {"boolean", "int8"}
      PROVE  /\ Field(type, 0) \in MessageField /\ Field(type, 0).type = type
             /\ Encode(Field(type, 0)) = <<0>>
             /\ Payload(Field(type, 0)) = 0
  <2>1. Width(type) = 1
    BY DEF Width
  <2>2. Shifted(0, 0) = 0
    BY ShiftedStep
  <2>3. InRange(type, 0)
    BY <2>1, <2>2 DEF InRange, SignedTypes
  <2>4. Field(type, 0).type = type /\ Field(type, 0).value = 0
    BY DEF Field
  <2>5. type \in NumberTypes /\ type \in Types
    BY DEF NumberTypes, Types
  <2>6. Field(type, 0) \in [type : NumberTypes \cup {"string"}, value : Int \cup {Null}]
    BY <2>5 DEF Field
  <2>7. ProperField(Field(type, 0))
    BY <2>3, <2>4, <2>5 DEF ProperField, Encodable
  <2>8. EncodeNumber(1, 0) = <<0>>
    <3> DEFINE s == EncodeNumber(1, 0)
    <3>1. /\ s \in Seq(Byte) /\ Len(s) = 1
          /\ \A i \in 1 .. 1 : s[i] = Shifted(0, 1 - i) % 256
      <4> DEFINE w == 1
                 n == 0
      <4>1. w \in Nat /\ n \in Int
        OBVIOUS
      <4> HIDE DEF w, n
      <4>2. /\ EncodeNumber(w, n) \in Seq(Byte) /\ Len(EncodeNumber(w, n)) = w
            /\ \A i \in 1 .. w : EncodeNumber(w, n)[i] = Shifted(n, w - i) % 256
        BY <4>1, NumberBytes
      <4> QED BY <4>2 DEF w, n
    <3> HIDE DEF s
    <3>2. s[1] = Shifted(0, 0) % 256
      BY <3>1
    <3>3. s[1] = 0
      BY <2>2, <3>2
    <3>4. s = <<0>>
      BY <3>1, <3>3
    <3> QED BY <3>4 DEF s
  <2>9. Encode(Field(type, 0)) = <<0>>
    <3> DEFINE f == Field(type, 0)
    <3>1. f.type \in NumberTypes /\ f.type \notin TextTypes /\ f.type \notin ArrayTypes
      BY <2>4 DEF NumberTypes, TextTypes, ArrayTypes
    <3>2. Encode(f) = EncodeNumber(Width(f.type), f.value)
      <4> HIDE DEF f
      <4> QED BY <3>1 DEF Encode
    <3> QED BY <2>1, <2>4, <2>8, <3>2
  <2>10. Payload(Field(type, 0)) = 0
    BY <2>4, <2>5 DEF Payload
  <2> QED BY <2>4, <2>6, <2>7, <2>9, <2>10 DEF MessageField
<1>5. \A n : /\ Encode(Field("int16", n)) = EncodeNumber(2, n)
             /\ Encode(Field("int32", n)) = EncodeNumber(4, n)
             /\ Encode(Field("string", n)) = EncodeText("string", n)
             /\ Payload(Field("int16", n)) = n
             /\ Payload(Field("int32", n)) = n
             /\ Payload(Field("string", n)) = IF n = Null THEN Null ELSE Content(n)
             /\ Field("int16", n).type = "int16" /\ Field("int32", n).type = "int32"
             /\ Field("string", n).type = "string"
  BY <1>1, <1>2, <1>3, Zenon
<1>6. \A type \in {"boolean", "int8"} :
         /\ Field(type, 0) \in MessageField /\ Field(type, 0).type = type
         /\ Encode(Field(type, 0)) = <<0>>
         /\ Payload(Field(type, 0)) = 0
  BY <1>4, Zenon
<1> QED BY <1>5, <1>6, Zenon

\* An allocation that is as long as what is written, or longer.
Padded(long, bytes) ==
    /\ long \in Seq(Byte)
    /\ Len(bytes) <= Len(long)
    /\ \A i \in 1 .. Len(bytes) : long[i] = bytes[i]
    /\ \A i \in Len(bytes) + 1 .. Len(long) : long[i] = 0

LEMMA FillPads ==
    ASSUME NEW bytes \in Seq(Byte), NEW n \in Nat, Len(bytes) <= n
    PROVE  /\ Padded(Fill(n, bytes), bytes) /\ Len(Fill(n, bytes)) = n
           /\ Len(bytes) = n => Fill(n, bytes) = bytes
<1> DEFINE long == [i \in 1 .. n |-> IF i <= Len(bytes) THEN bytes[i] ELSE 0]
<1>1. Len(bytes) \in Nat /\ \A i \in 1 .. Len(bytes) : bytes[i] \in Byte
  OBVIOUS
<1>2. \A i \in 1 .. n : (IF i <= Len(bytes) THEN bytes[i] ELSE 0) \in Byte
  BY <1>1 DEF Byte
<1>3. long \in Seq(Byte) /\ Len(long) = n
  BY <1>2
<1>4. /\ \A i \in 1 .. Len(bytes) : long[i] = bytes[i]
      /\ \A i \in Len(bytes) + 1 .. n : long[i] = 0
  BY <1>1
<1>5. Fill(n, bytes) = long
  BY DEF Fill
<1> HIDE DEF long
<1>6. Padded(long, bytes)
  BY <1>3, <1>4 DEF Padded
<1>7. ASSUME Len(bytes) = n
      PROVE  long = bytes
  BY <1>3, <1>4, <1>7, SeqEqual
<1> QED BY <1>3, <1>5, <1>6, <1>7

\* The bytes and the payloads of a few fields.
Codes(fields, bytes, len, payloads) ==
    /\ fields \in Seq(MessageField)
    /\ FieldBytes(fields) = bytes
    /\ Len(FieldBytes(fields)) = len
    /\ Payloads(fields) = payloads

LEMMA CodesOfThree ==
    ASSUME NEW f1 \in MessageField, NEW f2 \in MessageField, NEW f3 \in MessageField
    PROVE  Codes(<<f1, f2, f3>>, Encode(f1) \o Encode(f2) \o Encode(f3),
                 Len(Encode(f1)) + Len(Encode(f2)) + Len(Encode(f3)),
                 <<Payload(f1), Payload(f2), Payload(f3)>>)
<1>1. ASSUME NEW f \in MessageField
      PROVE  <<f>> \in Seq(MessageField) /\ FieldBytes(<<f>>) = Encode(f)
  BY OneField
<1> DEFINE one == <<f1>>
           two == one \o <<f2>>
           three == two \o <<f3>>
<1>2. one \in Seq(MessageField) /\ FieldBytes(one) = Encode(f1)
  BY <1>1
<1> HIDE DEF one
<1>3. /\ two \in Seq(MessageField) /\ FieldBytes(two) = Encode(f1) \o Encode(f2)
      /\ Len(FieldBytes(two)) = Len(Encode(f1)) + Len(Encode(f2))
  <2>1. <<f2>> \in Seq(MessageField) /\ FieldBytes(<<f2>>) = Encode(f2)
    BY <1>1
  <2> DEFINE last == <<f2>>
  <2> HIDE DEF last
  <2>2. /\ one \o last \in Seq(MessageField)
        /\ FieldBytes(one \o last) = FieldBytes(one) \o FieldBytes(last)
        /\ Len(FieldBytes(one \o last)) = Len(FieldBytes(one)) + Len(FieldBytes(last))
    BY <1>2, <2>1, FieldsJoined, Zenon DEF last
  <2> QED BY <1>2, <2>1, <2>2, Zenon DEF last
<1> HIDE DEF two
<1>4. /\ three \in Seq(MessageField) /\ FieldBytes(three) = Encode(f1) \o Encode(f2) \o Encode(f3)
      /\ Len(FieldBytes(three)) = Len(Encode(f1)) + Len(Encode(f2)) + Len(Encode(f3))
  <2>1. <<f3>> \in Seq(MessageField) /\ FieldBytes(<<f3>>) = Encode(f3)
    BY <1>1
  <2> QED BY <1>3, <2>1, FieldsJoined, Zenon
<1> HIDE DEF three
<1>5. three = <<f1, f2, f3>>
  BY FieldsInARow, Zenon DEF three, two, one
<1>6. Payloads(<<f1, f2, f3>>) = <<Payload(f1), Payload(f2), Payload(f3)>>
  BY DEF Payloads
<1> QED BY <1>4, <1>5, <1>6, Zenon DEF Codes

LEMMA CodesOfFour ==
    ASSUME NEW f1 \in MessageField, NEW f2 \in MessageField, NEW f3 \in MessageField,
           NEW f4 \in MessageField
    PROVE  Codes(<<f1, f2, f3, f4>>, Encode(f1) \o Encode(f2) \o Encode(f3) \o Encode(f4),
                 Len(Encode(f1)) + Len(Encode(f2)) + Len(Encode(f3)) + Len(Encode(f4)),
                 <<Payload(f1), Payload(f2), Payload(f3), Payload(f4)>>)
<1> DEFINE three == <<f1, f2, f3>>
           four == three \o <<f4>>
<1>1. /\ three \in Seq(MessageField) /\ FieldBytes(three) = Encode(f1) \o Encode(f2) \o Encode(f3)
      /\ Len(FieldBytes(three)) = Len(Encode(f1)) + Len(Encode(f2)) + Len(Encode(f3))
  BY CodesOfThree, Zenon DEF Codes
<1>2. <<f4>> \in Seq(MessageField) /\ FieldBytes(<<f4>>) = Encode(f4)
  BY OneField
<1>3. four = <<f1, f2, f3, f4>>
  <2>1. <<f1>> \o <<f2>> \o <<f3>> = three
    BY FieldsInARow, Zenon
  <2>2. <<f1>> \o <<f2>> \o <<f3>> \o <<f4>> = <<f1, f2, f3, f4>>
    BY FourInARow
  <2> HIDE DEF three
  <2> QED BY <2>1, <2>2, Zenon
<1> HIDE DEF three
<1>4. /\ four \in Seq(MessageField)
      /\ FieldBytes(four) = Encode(f1) \o Encode(f2) \o Encode(f3) \o Encode(f4)
      /\ Len(FieldBytes(four))
             = Len(Encode(f1)) + Len(Encode(f2)) + Len(Encode(f3)) + Len(Encode(f4))
  BY <1>1, <1>2, FieldsJoined, Zenon
<1> HIDE DEF four
<1>5. Payloads(<<f1, f2, f3, f4>>) = <<Payload(f1), Payload(f2), Payload(f3), Payload(f4)>>
  BY DEF Payloads
<1> QED BY <1>3, <1>4, <1>5, Zenon DEF Codes

LEMMA StringBytes ==
    ASSUME NEW n \in Nat \cup {Null}
    PROVE  /\ EncodeText("string", n) \in Seq(Byte)
           /\ Len(EncodeText("string", n)) = 2 + (IF n = Null THEN 0 ELSE n)
           /\ n # Null => Content(n) \in Seq(Byte)
<1>1. "string" \in LongTypes /\ "string" \notin CompactTypes /\ Width("string") = 2
  BY DEF LongTypes, TextTypes, CompactTypes, Width
<1> DEFINE type == "string"
<1> HIDE DEF type
<1>2. type \in LongTypes /\ type \notin CompactTypes /\ Width(type) = 2
  BY <1>1 DEF type
<1>3. Len(EncodeLength(type, n)) = 2
  BY <1>2, LengthBytes
<1>4. /\ EncodeText(type, n) \in Seq(Byte)
      /\ Len(EncodeText(type, n)) = Len(EncodeLength(type, n)) + (IF n = Null THEN 0 ELSE n)
      /\ n # Null => Content(n) \in Seq(Byte)
  BY <1>2, TextBytes, Zenon
<1>5. Len(EncodeText(type, n)) = 2 + (IF n = Null THEN 0 ELSE n)
  BY <1>3, <1>4, Zenon
<1> QED BY <1>4, <1>5 DEF type

\* What a string that was written is read as.
ReadBack(n) == IF n = Null THEN Null ELSE Content(n)

HeaderOfRequest(key, version, id) ==
    <<Field("int16", key), Field("int16", version), Field("int32", 1), Field("string", id)>>

HeaderTypes == <<"int16", "int16", "int32", "string">>

\* RequestHeader.encode writes its fields, and allocates what they take.
LEMMA HeaderIsWritten ==
    ASSUME NEW key, Short(key), NEW version, OfInt16(version), clientId = Null \/ Short(clientId)
    PROVE  LET id == IF HasId THEN clientId ELSE Null
               fields == HeaderOfRequest(key, version, id)
           IN  /\ fields \in Seq(MessageField) /\ Matches(HeaderTypes, fields)
               /\ EncodeHeader(key, version) = FieldBytes(fields)
               /\ Len(FieldBytes(fields)) = 10 + (IF id = Null THEN 0 ELSE id)
               /\ Payloads(fields) = <<key, version, 1, ReadBack(id)>>
               /\ id = Null \/ Short(id)
<1> DEFINE id == IF HasId THEN clientId ELSE Null
           f1 == Field("int16", key)
           f2 == Field("int16", version)
           f3 == Field("int32", 1)
           f4 == Field("string", id)
           fields == HeaderOfRequest(key, version, id)
           bytes == EncodeNumber(2, key) \o EncodeNumber(2, version) \o EncodeNumber(4, 1)
                        \o EncodeText("string", id)
<1>1. /\ id = Null \/ Short(id)
      /\ id = IF HasId THEN clientId ELSE Null
      /\ (IF id = Null THEN 0 ELSE id) = IF HasId THEN clientId ELSE 0
  BY DEF HasId
<1> HIDE DEF id
<1>2. /\ f1 \in MessageField /\ f2 \in MessageField /\ f3 \in MessageField /\ f4 \in MessageField
  <2>1. Short(1)
    BY DEF Short
  <2>2. f2 \in MessageField
    BY VersionField
  <2> QED BY <1>1, <2>1, <2>2, SmallNumbers, StringFields
<1>3. /\ f1.type = "int16" /\ f2.type = "int16" /\ f3.type = "int32" /\ f4.type = "string"
      /\ Encode(f1) = EncodeNumber(2, key) /\ Encode(f2) = EncodeNumber(2, version)
      /\ Encode(f3) = EncodeNumber(4, 1) /\ Encode(f4) = EncodeText("string", id)
      /\ Payload(f1) = key /\ Payload(f2) = version /\ Payload(f3) = 1 /\ Payload(f4) = ReadBack(id)
  BY FieldCodes DEF ReadBack
<1>4. /\ Len(EncodeNumber(2, key)) = 2 /\ Len(EncodeNumber(2, version)) = 2
      /\ Len(EncodeNumber(4, 1)) = 4
  <2>1. key \in Int /\ version \in Int
    BY VersionField DEF Short
  <2>2. \A w \in Nat, n \in Int : Len(EncodeNumber(w, n)) = w
    BY NumberBytes
  <2>3. 2 \in Nat /\ 4 \in Nat /\ 1 \in Int
    OBVIOUS
  <2> QED BY <2>1, <2>2, <2>3, Zenon
<1>5. Len(EncodeText("string", id)) = 2 + (IF id = Null THEN 0 ELSE id)
  <2>1. id \in Nat \cup {Null}
    BY <1>1 DEF Short
  <2> QED BY <2>1, StringBytes
<1>6. fields = <<f1, f2, f3, f4>>
  BY DEF HeaderOfRequest
<1> HIDE DEF f1, f2, f3, f4, fields
<1>7. /\ fields \in Seq(MessageField)
      /\ FieldBytes(fields) = Encode(f1) \o Encode(f2) \o Encode(f3) \o Encode(f4)
      /\ Len(FieldBytes(fields)) = Len(Encode(f1)) + Len(Encode(f2)) + Len(Encode(f3)) + Len(Encode(f4))
      /\ Payloads(fields) = <<Payload(f1), Payload(f2), Payload(f3), Payload(f4)>>
  <2>1. Codes(<<f1, f2, f3, f4>>, Encode(f1) \o Encode(f2) \o Encode(f3) \o Encode(f4),
              Len(Encode(f1)) + Len(Encode(f2)) + Len(Encode(f3)) + Len(Encode(f4)),
              <<Payload(f1), Payload(f2), Payload(f3), Payload(f4)>>)
    BY <1>2, CodesOfFour, Zenon
  <2> QED BY <1>6, <2>1, Zenon DEF Codes
<1>8. Len(FieldBytes(fields)) = 10 + (IF id = Null THEN 0 ELSE id)
  <2> DEFINE extra == IF id = Null THEN 0 ELSE id
  <2>1. extra \in Nat
    BY <1>1 DEF Short
  <2>2. /\ Len(Encode(f1)) = 2 /\ Len(Encode(f2)) = 2 /\ Len(Encode(f3)) = 4
        /\ Len(Encode(f4)) = 2 + extra
    BY <1>3, <1>4, <1>5, Zenon
  <2> HIDE DEF extra
  <2>3. Len(FieldBytes(fields)) = 2 + 2 + 4 + (2 + extra)
    BY <1>7, <2>2, Zenon
  <2>4. Len(FieldBytes(fields)) = 10 + extra
    BY <2>1, <2>3
  <2> QED BY <2>4 DEF extra
<1>9. FieldBytes(fields) = bytes
  BY <1>3, <1>7, Zenon
<1>10. EncodeHeader(key, version) = Fill(Len(FieldBytes(fields)), bytes)
  BY <1>1, <1>8 DEF EncodeHeader
<1>11. EncodeHeader(key, version) = FieldBytes(fields)
  <2> HIDE DEF bytes
  <2>1. FieldBytes(fields) \in Seq(Byte) /\ Len(FieldBytes(fields)) \in Nat
    BY <1>7, FieldsType
  <2>2. Fill(Len(FieldBytes(fields)), FieldBytes(fields)) = FieldBytes(fields)
    BY <2>1, FillPads
  <2> QED BY <1>9, <1>10, <2>2
<1>12. Payloads(fields) = <<key, version, 1, ReadBack(id)>>
  BY <1>3, <1>7, Zenon
<1>13. Matches(HeaderTypes, fields)
  BY <1>3, <1>6 DEF Matches, HeaderTypes, ReadAs
<1>14. /\ fields \in Seq(MessageField) /\ Matches(HeaderTypes, fields)
       /\ EncodeHeader(key, version) = FieldBytes(fields)
       /\ Len(FieldBytes(fields)) = 10 + (IF id = Null THEN 0 ELSE id)
       /\ Payloads(fields) = <<key, version, 1, ReadBack(id)>>
       /\ id = Null \/ Short(id)
  BY <1>1, <1>7, <1>8, <1>11, <1>12, <1>13, Zenon
<1> QED BY <1>14 DEF fields, id

-----------------------------------------------------------------------------
\* A place where nothing was read yet.
From(x) == Got(<<>>, x)

LEMMA FromType ==
    ASSUME NEW x \in Nat, NEW fields \in Seq(MessageField)
    PROVE  /\ From(x) \in Places /\ From(x).next = x
           /\ After(From(x), fields) = Got(Payloads(fields), x + Len(FieldBytes(fields)))
<1> DEFINE none == <<>>
           payloads == Payloads(fields)
<1>1. payloads \in Seq(Value)
  BY FieldsType
<1>2. none \in Seq(Value) /\ none \o payloads = payloads
  <2> HIDE DEF payloads
  <2> QED BY <1>1
<1> HIDE DEF none
<1>3. Got(none, x) \in Places /\ Got(none, x).next = x /\ Got(none, x).value = none
  BY <1>2, PlaceType, GotFields
<1>4. After(Got(none, x), fields) = Got(payloads, x + Len(FieldBytes(fields)))
  BY <1>2, <1>3, Zenon DEF After
<1> QED BY <1>3, <1>4 DEF From, none

\* What is read of a request that has this header and these fields.
RequestRead(bytes, header, fields) ==
    LET x == 4 + Len(FieldBytes(header))
        y == x + Len(FieldBytes(fields))
    IN  /\ bytes \in Seq(Byte)
        /\ y <= Len(bytes)
        /\ DecodeNumber(bytes, "int32", 0).value = Len(bytes) - 4
        /\ HeaderOf(bytes) = Got(Payloads(header), x)
        /\ From(x) \in Places /\ There(bytes, From(x), fields)
        /\ After(From(x), fields) = Got(Payloads(fields), y)
        /\ \A i \in y + 1 .. Len(bytes) : bytes[i] = 0

LEMMA RequestIsRead ==
    ASSUME NEW header \in Seq(MessageField), NEW fields \in Seq(MessageField), NEW body,
           Matches(HeaderTypes, header), Padded(body, FieldBytes(fields)),
           Long(Len(FieldBytes(header)) + Len(body))
    PROVE  /\ RequestRead(Framed(FieldBytes(header) \o body), header, fields)
           /\ Len(Framed(FieldBytes(header) \o body)) = 4 + Len(FieldBytes(header)) + Len(body)
<1> DEFINE h == FieldBytes(header)
           b == FieldBytes(fields)
           rest == h \o body
           n == Len(rest)
           sized == EncodeNumber(4, n)
           bytes == sized \o rest
           x == 4 + Len(h)
           y == x + Len(b)
           int32 == "int32"
<1>1. /\ h \in Seq(Byte) /\ b \in Seq(Byte) /\ Len(h) \in Nat /\ Len(b) \in Nat
  BY FieldsType
<1>2. /\ body \in Seq(Byte) /\ Len(b) <= Len(body) /\ Len(body) \in Nat
      /\ \A i \in 1 .. Len(b) : body[i] = b[i]
      /\ \A i \in Len(b) + 1 .. Len(body) : body[i] = 0
  <2> HIDE DEF b
  <2>1. Padded(body, b)
    BY DEF b
  <2>2. body \in Seq(Byte) /\ Len(b) <= Len(body)
    BY <2>1 DEF Padded
  <2> QED BY <2>1, <2>2 DEF Padded
<1> HIDE DEF b
<1>3. rest \in Seq(Byte) /\ Consists(rest, h, body)
  <2> HIDE DEF h
  <2> QED BY <1>1, <1>2, ConcatenationConsists, Zenon
<1>4. n = Len(h) + Len(body) /\ n \in Nat /\ Long(n)
  <2>1. Long(Len(h) + Len(body))
    OBVIOUS
  <2> HIDE DEF h, rest
  <2>2. Len(rest) = Len(h) + Len(body)
    BY <1>3 DEF Consists
  <2> QED BY <1>1, <1>2, <2>1, <2>2
<1> HIDE DEF rest, h
<1>5. sized \in Seq(Byte) /\ Len(sized) = 4
  <2> DEFINE w == 4
  <2>1. w \in Nat /\ n \in Int
    BY <1>4
  <2> HIDE DEF w, n
  <2>2. EncodeNumber(w, n) \in Seq(Byte) /\ Len(EncodeNumber(w, n)) = w
    BY <2>1, NumberBytes
  <2> QED BY <2>2 DEF w
<1> HIDE DEF n, sized
<1>6. bytes \in Seq(Byte) /\ Consists(bytes, sized, rest)
  BY <1>3, <1>5, ConcatenationConsists, Zenon
<1> HIDE DEF bytes
<1>7. /\ Len(bytes) = 4 + n /\ \A i \in 1 .. 4 : bytes[i] = sized[i]
      /\ \A i \in 1 .. n : bytes[4 + i] = rest[i]
  BY <1>4, <1>5, <1>6 DEF Consists, n
<1>8. /\ \A i \in 1 .. Len(h) : rest[i] = h[i]
      /\ \A i \in 1 .. Len(body) : rest[Len(h) + i] = body[i]
  BY <1>3 DEF Consists
<1>9. \A i \in 1 .. Len(h) : bytes[4 + i] = h[i]
  BY <1>1, <1>2, <1>4, <1>7, <1>8
<1>10. \A i \in 1 .. Len(body) : bytes[x + i] = body[i]
  <2> TAKE i \in 1 .. Len(body)
  <2>1. Len(h) + i \in 1 .. n /\ 4 + (Len(h) + i) = x + i
    BY <1>1, <1>2, <1>4
  <2> QED BY <1>7, <1>8, <2>1
<1>11. y <= Len(bytes) /\ x \in Nat /\ x <= Len(bytes) /\ Len(bytes) \in Nat
  BY <1>1, <1>2, <1>4, <1>7
<1>12. DecodeNumber(bytes, "int32", 0).value = Len(bytes) - 4
  <2> DEFINE from == 0
  <2>1. int32 \in FixedTypes /\ Width(int32) = 4
    BY DEF FixedTypes, Types, NumberTypes, CompactTypes, Width
  <2>2. InRange(int32, n) /\ n \in Int
    BY <1>4, LengthNumbers
  <2>3. from \in Nat /\ Agrees(bytes, EncodeNumber(4, n), from)
    <3>1. \A i \in 1 .. Len(sized) : bytes[0 + i] = sized[i]
      BY <1>5, <1>7
    <3>2. Agrees(bytes, sized, 0)
      BY <3>1 DEF Agrees
    <3> QED BY <3>2 DEF sized
  <2>4. ~(from + 4 > Len(bytes))
    BY <1>4, <1>7
  <2> HIDE DEF from, int32
  <2>5. DecodeNumber(bytes, int32, from) = Got(n, from + 4)
    BY <1>6, <2>1, <2>2, <2>3, <2>4, NumberIsReadAgain
  <2>6. DecodeNumber(bytes, int32, from).value = n
    BY <2>5, GotFields
  <2>7. n = Len(bytes) - 4
    BY <1>4, <1>7
  <2> QED BY <2>6, <2>7 DEF int32, from
<1>13. HeaderOf(bytes) = Got(Payloads(header), x)
  <2> DEFINE four == 4
  <2>1. /\ four \in Nat /\ Agrees(bytes, h, four) /\ four + Len(h) <= Len(bytes)
    BY <1>9, <1>11 DEF Agrees
  <2> HIDE DEF four
  <2>2. /\ From(four) \in Places /\ From(four).next = four
        /\ After(From(four), header) = Got(Payloads(header), four + Len(h))
    BY <2>1, FromType DEF h
  <2>3. There(bytes, From(four), header)
    BY <2>1, <2>2, Zenon DEF There, h
  <2>4. Reads(bytes, From(four), HeaderTypes) = After(From(four), header)
    BY <1>6, <2>2, <2>3, FieldsAreRead, Zenon
  <2> QED BY <2>2, <2>4 DEF four, HeaderOf, HeaderTypes, From
<1>14. /\ From(x) \in Places /\ There(bytes, From(x), fields)
       /\ After(From(x), fields) = Got(Payloads(fields), y)
  <2>1. Agrees(bytes, b, x) /\ x + Len(b) <= Len(bytes)
    BY <1>1, <1>2, <1>10, <1>11 DEF Agrees
  <2> HIDE DEF x
  <2>2. /\ From(x) \in Places /\ From(x).next = x
        /\ After(From(x), fields) = Got(Payloads(fields), x + Len(b))
    BY <1>11, FromType DEF b
  <2>3. There(bytes, From(x), fields)
    BY <2>1, <2>2, Zenon DEF There, b
  <2> QED BY <2>2, <2>3
<1>15. ASSUME NEW i \in y + 1 .. Len(bytes)
       PROVE  bytes[i] = 0
  <2> DEFINE k == i - x
  <2>1. k \in Len(b) + 1 .. Len(body) /\ k \in 1 .. Len(body) /\ x + k = i
    BY <1>1, <1>2, <1>4, <1>7
  <2> HIDE DEF k, x, y
  <2> QED BY <1>2, <1>10, <2>1
<1>16. RequestRead(bytes, header, fields)
  BY <1>6, <1>11, <1>12, <1>13, <1>14, <1>15 DEF RequestRead, h, b
<1>17. Len(bytes) = x + Len(body)
  BY <1>1, <1>2, <1>4, <1>7
<1>18. Framed(FieldBytes(header) \o body) = bytes
  BY DEF Framed, bytes, sized, n, rest, h
<1> QED BY <1>16, <1>17, <1>18 DEF h

-----------------------------------------------------------------------------
\* The fields of ApiVersions, for which more is allocated than they take.
ApiVersionsFields ==
    <<Field("string", ClientName), Field("string", ClientVersion), Field("int8", 0)>>

ApiVersionsTypes == <<"string", "string", "int8">>

LEMMA ApiVersionsIsWritten ==
    /\ ApiVersionsFields \in Seq(MessageField) /\ Matches(ApiVersionsTypes, ApiVersionsFields)
    /\ Padded(ApiVersionsBody, FieldBytes(ApiVersionsFields)) /\ Len(ApiVersionsBody) = 30
    /\ Payloads(ApiVersionsFields) = <<Content(ClientName), Content(ClientVersion), 0>>
<1> DEFINE f1 == Field("string", ClientName)
           f2 == Field("string", ClientVersion)
           f3 == Field("int8", 0)
           bytes == EncodeText("string", ClientName) \o EncodeText("string", ClientVersion) \o <<0>>
           fields == ApiVersionsFields
<1>1. /\ f1 \in MessageField /\ f2 \in MessageField
      /\ Len(EncodeText("string", ClientName)) = 19
      /\ Len(EncodeText("string", ClientVersion)) = 7
      /\ ClientName # Null /\ ClientVersion # Null
  <2>1. Short(ClientName) /\ Short(ClientVersion) /\ ClientName = 17 /\ ClientVersion = 5
    BY DEF Short, ClientName, ClientVersion
  <2>2. ClientName # Null /\ ClientVersion # Null
    BY <2>1, NullAssumption
  <2>3. ClientName \in Nat \cup {Null} /\ ClientVersion \in Nat \cup {Null}
    BY <2>1
  <2>4. /\ Len(EncodeText("string", ClientName)) = 2 + (IF ClientName = Null THEN 0 ELSE ClientName)
        /\ Len(EncodeText("string", ClientVersion))
               = 2 + (IF ClientVersion = Null THEN 0 ELSE ClientVersion)
    BY <2>3, StringBytes
  <2> QED BY <2>1, <2>2, <2>4, SmallNumbers
<1>2. /\ f1.type = "string" /\ f2.type = "string" /\ f3.type = "int8" /\ f3 \in MessageField
      /\ Encode(f1) = EncodeText("string", ClientName)
      /\ Encode(f2) = EncodeText("string", ClientVersion)
      /\ Encode(f3) = <<0>> /\ Payload(f3) = 0
      /\ Payload(f1) = Content(ClientName) /\ Payload(f2) = Content(ClientVersion)
  BY <1>1, FieldCodes
<1>3. fields = <<f1, f2, f3>> /\ Len(<<0>>) = 1
  BY DEF ApiVersionsFields
<1> HIDE DEF f1, f2, f3, fields
<1>4. Codes(fields, Encode(f1) \o Encode(f2) \o Encode(f3),
            Len(Encode(f1)) + Len(Encode(f2)) + Len(Encode(f3)),
            <<Payload(f1), Payload(f2), Payload(f3)>>)
  BY <1>1, <1>2, <1>3, CodesOfThree, Zenon
<1>5. /\ fields \in Seq(MessageField) /\ FieldBytes(fields) = bytes
      /\ Payloads(fields) = <<Content(ClientName), Content(ClientVersion), 0>>
  BY <1>2, <1>4, Zenon DEF Codes
<1>6. Len(FieldBytes(fields)) = 27
  <2>1. Len(Encode(f1)) = 19 /\ Len(Encode(f2)) = 7 /\ Len(Encode(f3)) = 1
    BY <1>1, <1>2, <1>3, Zenon
  <2>2. Len(FieldBytes(fields)) = Len(Encode(f1)) + Len(Encode(f2)) + Len(Encode(f3))
    BY <1>4, Zenon DEF Codes
  <2> QED BY <2>1, <2>2
<1>7. Matches(ApiVersionsTypes, fields)
  BY <1>2, <1>3 DEF Matches, ApiVersionsTypes, ReadAs
<1>8. ApiVersionsBody = Fill(30, FieldBytes(fields))
  <2>1. 2 + ClientName + 2 + ClientVersion + 4 = 30
    BY DEF ClientName, ClientVersion
  <2>2. ApiVersionsBody = Fill(2 + ClientName + 2 + ClientVersion + 4, bytes)
    BY DEF ApiVersionsBody
  <2> HIDE DEF bytes
  <2> QED BY <1>5, <2>1, <2>2
<1>9. Padded(ApiVersionsBody, FieldBytes(fields)) /\ Len(ApiVersionsBody) = 30
  <2>1. FieldBytes(fields) \in Seq(Byte)
    BY <1>5, FieldsType
  <2> DEFINE long == 30
  <2>2. long \in Nat /\ Len(FieldBytes(fields)) <= long
    BY <1>6
  <2>3. ApiVersionsBody = Fill(long, FieldBytes(fields))
    BY <1>8
  <2> HIDE DEF long
  <2>4. Padded(ApiVersionsBody, FieldBytes(fields)) /\ Len(ApiVersionsBody) = long
    BY <2>1, <2>2, <2>3, FillPads
  <2> QED BY <2>4 DEF long
<1> QED BY <1>5, <1>7, <1>9 DEF fields

\* The fields of Metadata: the names, or -1, and three flags.
Flags == <<Field("boolean", 0), Field("boolean", 0), Field("boolean", 0)>>
FlagTypes == <<"boolean", "boolean", "boolean">>

Names(topics) == [i \in DOMAIN topics |-> Field("string", topics[i])]

MetadataFields(topics) ==
    (IF topics = Null THEN CountOf(-1) ELSE CountOf(Len(topics)) \o Names(topics)) \o Flags

LEMMA FlagsAreWritten ==
    /\ Flags \in Seq(MessageField) /\ Matches(FlagTypes, Flags)
    /\ FieldBytes(Flags) = <<0, 0, 0>> /\ Len(FieldBytes(Flags)) = 3 /\ Payloads(Flags) = <<0, 0, 0>>
<1> DEFINE f == Field("boolean", 0)
<1>1. f \in MessageField /\ f.type = "boolean" /\ Encode(f) = <<0>> /\ Payload(f) = 0
  BY FieldCodes
<1>2. Flags = <<f, f, f>>
  BY DEF Flags
<1> HIDE DEF f
<1>3. Codes(Flags, Encode(f) \o Encode(f) \o Encode(f),
            Len(Encode(f)) + Len(Encode(f)) + Len(Encode(f)), <<Payload(f), Payload(f), Payload(f)>>)
  BY <1>1, <1>2, CodesOfThree, Zenon
<1>4. <<0>> \o <<0>> \o <<0>> = <<0, 0, 0>> /\ Len(<<0>>) + Len(<<0>>) + Len(<<0>>) = 3
  <2> DEFINE one == <<0>>
             two == <<0, 0>>
             three == <<0, 0, 0>>
  <2>1. /\ one \in Seq(Int) /\ Len(one) = 1 /\ one[1] = 0
        /\ two \in Seq(Int) /\ Len(two) = 2 /\ two[1] = 0 /\ two[2] = 0
        /\ three \in Seq(Int) /\ Len(three) = 3 /\ three[1] = 0 /\ three[2] = 0 /\ three[3] = 0
    OBVIOUS
  <2> HIDE DEF one, two, three
  <2>2. Consists(two, one, one) /\ Consists(three, two, one)
    BY <2>1 DEF Consists
  <2>3. one \o one = two /\ two \o one = three
    <3>1. two = one \o one
      BY <2>1, <2>2, IsConcatenation
    <3>2. three = two \o one
      BY <2>1, <2>2, IsConcatenation
    <3> QED BY <3>1, <3>2
  <2>4. one \o one \o one = three /\ Len(one) + Len(one) + Len(one) = 3
    BY <2>1, <2>3
  <2> QED BY <2>4 DEF one, three
<1>5. /\ Flags \in Seq(MessageField) /\ FieldBytes(Flags) = <<0, 0, 0>>
      /\ Len(FieldBytes(Flags)) = 3 /\ Payloads(Flags) = <<0, 0, 0>>
  BY <1>1, <1>3, <1>4, Zenon DEF Codes
<1>6. Matches(FlagTypes, Flags)
  BY <1>1, <1>2 DEF Matches, FlagTypes, ReadAs
<1> QED BY <1>5, <1>6

\* Fields one by one are the fields.
LEMMA Singletons ==
    ASSUME NEW fields \in Seq(MessageField), NEW rows, rows = [i \in 1 .. Len(fields) |-> rows[i]],
           \A i \in 1 .. Len(fields) : rows[i] = <<fields[i]>>
    PROVE  FlattenSeq(rows) = fields
<1> DEFINE n == Len(fields)
<1>1. n \in Nat
  OBVIOUS
<1>2. \A i \in 1 .. n : rows[i] \in Seq(MessageField) /\ rows[i] = <<fields[i]>>
  <2> TAKE i \in 1 .. n
  <2>1. fields[i] \in MessageField
    OBVIOUS
  <2>2. <<fields[i]>> \in Seq(MessageField)
    BY <2>1, OneField
  <2> QED BY <2>2
<1>3. rows \in Seq(Seq(MessageField)) /\ Len(rows) = n
  BY <1>1, <1>2, RowsType
<1>4. PICK before : Grows(before, rows, n) /\ before[n] = FlattenSeq(rows)
  BY <1>3, ElementByElement
<1>5. PICK parts, piece : /\ Grows(parts, piece, Len(fields))
                          /\ parts[Len(fields)] = fields
                          /\ \A k \in 1 .. Len(fields) : piece[k] = <<fields[k]>>
  BY FieldByField
<1>6. InStep(before, parts, n)
  <2>1. before[0] = parts[0]
    BY <1>4, <1>5 DEF Grows
  <2>2. ASSUME NEW i \in 1 .. n, before[i - 1] = parts[i - 1]
        PROVE  before[i] = parts[i]
    <3>1. before[i] = before[i - 1] \o rows[i]
      BY <1>4 DEF Grows
    <3>2. parts[i] = parts[i - 1] \o piece[i]
      BY <1>5 DEF Grows
    <3>3. rows[i] = piece[i]
      BY <1>2, <1>5
    <3> QED BY <2>2, <3>1, <3>2, <3>3
  <2> QED BY <2>1, <2>2 DEF InStep
<1>7. before[n] = parts[n]
  BY <1>1, <1>6, SameSteps
<1> QED BY <1>4, <1>5, <1>7

\* The names of a few topics.
NameList(topics) ==
    /\ topics \in Seq(Nat) /\ topics # Null /\ Len(topics) <= 2
    /\ \A i \in 1 .. Len(topics) : Short(topics[i])

\* Numbers that are far from being too long.
Moderate(n) == n \in Nat /\ n <= 70000

LEMMA NameListType ==
    ASSUME NEW topics, NameList(topics)
    PROVE  /\ topics \in Seq(Nat) /\ Len(topics) \in 0 .. 2 /\ topics # Null
           /\ DOMAIN topics = 1 .. Len(topics)
           /\ \A i \in 1 .. Len(topics) : Short(topics[i]) /\ topics[i] \in Nat
<1>1. /\ topics \in Seq(Nat) /\ topics # Null /\ Len(topics) <= 2
      /\ \A i \in 1 .. Len(topics) : Short(topics[i])
  BY DEF NameList
<1>2. /\ Len(topics) \in Nat /\ DOMAIN topics = 1 .. Len(topics)
      /\ \A i \in 1 .. Len(topics) : topics[i] \in Nat
  BY <1>1
<1>3. Len(topics) \in 0 .. 2
  BY <1>1, <1>2
<1> QED BY <1>1, <1>2, <1>3

LEMMA NamesAreFields ==
    ASSUME NEW topics, NameList(topics)
    PROVE  /\ Names(topics) \in Seq(MessageField) /\ Len(Names(topics)) = Len(topics)
           /\ FlattenSeq([i \in DOMAIN topics |-> EncodeText("string", topics[i])])
                  = FieldBytes(Names(topics))
           /\ Payloads(Names(topics)) = [i \in DOMAIN topics |-> ReadBack(topics[i])]
           /\ \A i \in 1 .. Len(topics) :
                 /\ Names(topics)[i] \in MessageField /\ Names(topics)[i].type = "string"
                 /\ Len(FieldBytes(<<Names(topics)[i]>>)) = 2 + topics[i]
<1> DEFINE n == Len(topics)
           names == Names(topics)
<1>1. /\ topics \in Seq(Nat) /\ n \in Nat /\ DOMAIN topics = 1 .. n
      /\ \A i \in 1 .. n : Short(topics[i])
  BY DEF NameList
<1>2. DOMAIN names = 1 .. n /\ \A i \in 1 .. n : names[i] = Field("string", topics[i])
  BY <1>1 DEF Names
<1>3. \A i \in 1 .. n : Field("string", topics[i]) \in MessageField
  BY <1>1, SmallNumbers
<1>4. names \in Seq(MessageField) /\ Len(names) = n
  <2>1. names = [i \in 1 .. n |-> names[i]]
    BY <1>1 DEF Names
  <2> HIDE DEF names, n
  <2> QED BY <1>1, <1>2, <1>3, <2>1, RowsType
<1>5. [i \in DOMAIN names |-> Encode(names[i])]
          = [i \in DOMAIN topics |-> EncodeText("string", topics[i])]
  <2>1. \A i \in 1 .. n : Encode(names[i]) = EncodeText("string", topics[i])
    BY <1>2, FieldCodes, Zenon
  <2> HIDE DEF names, n
  <2> QED BY <1>1, <1>2, <2>1
<1>6. Payloads(names) = [i \in DOMAIN topics |-> ReadBack(topics[i])]
  <2>1. \A i \in 1 .. n : Payload(names[i]) = ReadBack(topics[i])
    BY <1>2, FieldCodes, Zenon DEF ReadBack
  <2> HIDE DEF names, n
  <2> QED BY <1>1, <1>2, <2>1 DEF Payloads
<1>7. ASSUME NEW i \in 1 .. n
      PROVE  /\ names[i] \in MessageField /\ names[i].type = "string"
             /\ Len(FieldBytes(<<names[i]>>)) = 2 + topics[i]
  <2>1. names[i] \in MessageField /\ names[i].type = "string"
    BY <1>2, <1>3, FieldCodes, Zenon
  <2>2. FieldBytes(<<names[i]>>) = Encode(names[i])
    BY <2>1, OneField
  <2>3. Encode(names[i]) = EncodeText("string", topics[i])
    BY <1>2, FieldCodes, Zenon
  <2>4. topics[i] \in Nat
    BY <1>1
  <2>5. topics[i] # Null
    BY <2>4, NullAssumption
  <2> DEFINE t == topics[i]
  <2>6. t \in Nat \cup {Null} /\ t # Null
    BY <2>4, <2>5
  <2> HIDE DEF t
  <2>7. Len(EncodeText("string", t)) = 2 + t
    BY <2>6, StringBytes
  <2> QED BY <2>1, <2>2, <2>3, <2>7 DEF t
<1>8. FieldBytes(names) = FlattenSeq([i \in DOMAIN topics |-> EncodeText("string", topics[i])])
  BY <1>5 DEF FieldBytes
<1> HIDE DEF names, n
<1>9. /\ names \in Seq(MessageField) /\ Len(names) = n
      /\ FlattenSeq([i \in DOMAIN topics |-> EncodeText("string", topics[i])]) = FieldBytes(names)
      /\ Payloads(names) = [i \in DOMAIN topics |-> ReadBack(topics[i])]
      /\ \A i \in 1 .. n : /\ names[i] \in MessageField /\ names[i].type = "string"
                           /\ Len(FieldBytes(<<names[i]>>)) = 2 + topics[i]
  BY <1>4, <1>6, <1>7, <1>8
<1> QED BY <1>9 DEF names, n

\* The size that MetadataRequest.encode adds up is the length of the names.
LEMMA NamesAreCounted ==
    ASSUME NEW topics, NameList(topics)
    PROVE  /\ MetadataSize(topics) = 4 + Len(FieldBytes(Names(topics))) + 3
           /\ Moderate(Len(FieldBytes(Names(topics))))
<1> DEFINE n == Len(topics)
           names == Names(topics)
           upTo == CHOOSE f : f = [i \in 0 .. n |-> IF i = 0 THEN 0 ELSE f[i - 1] + 2 + topics[i]]
<1>1. /\ topics \in Seq(Nat) /\ n \in 0 .. 2 /\ topics # Null
      /\ \A i \in 1 .. n : Short(topics[i]) /\ topics[i] \in Nat
  BY NameListType
<1>2. /\ names \in Seq(MessageField) /\ Len(names) = n
      /\ \A i \in 1 .. n : /\ names[i] \in MessageField
                           /\ Len(FieldBytes(<<names[i]>>)) = 2 + topics[i]
  BY NamesAreFields
<1>3. MetadataSize(topics) = 4 + upTo[n] + 3
  BY <1>1 DEF MetadataSize
<1> HIDE DEF names, n
<1>4. PICK before, piece : /\ Grows(before, piece, Len(names))
                           /\ before[Len(names)] = names
                           /\ \A k \in 1 .. Len(names) : piece[k] = <<names[k]>>
  BY <1>2, FieldByField
<1> DEFINE h == [i \in 0 .. n |-> Len(FieldBytes(before[i]))]
<1>5. /\ \A i \in 0 .. n : h[i] = Len(FieldBytes(before[i]))
      /\ h = [i \in 0 .. n |-> h[i]]
  OBVIOUS
<1> HIDE DEF h
<1>6. h[0] = 0 /\ 0 \in 0 .. n
  <2>1. before[0] = <<>>
    BY <1>4 DEF Grows
  <2>2. FieldBytes(<<>>) = <<>> /\ Len(<<>>) = 0
    BY NoFields
  <2> QED BY <1>1, <1>5, <2>1, <2>2
<1>7. ASSUME NEW i \in 1 .. n
      PROVE  h[i] = h[i - 1] + 2 + topics[i] /\ h[i - 1] \in Nat /\ i - 1 \in 0 .. n /\ i \in 0 .. n
  <2>1. i - 1 \in 0 .. n /\ i \in 0 .. n
    BY <1>1
  <2>2. before[i - 1] \in Seq(MessageField) /\ before[i] = before[i - 1] \o <<names[i]>>
    BY <1>2, <1>4, <2>1 DEF Grows
  <2>3. <<names[i]>> \in Seq(MessageField)
    BY <1>2, OneField
  <2>4. /\ Len(FieldBytes(before[i])) = Len(FieldBytes(before[i - 1])) + Len(FieldBytes(<<names[i]>>))
        /\ Len(FieldBytes(before[i - 1])) \in Nat
    <3> DEFINE a == before[i - 1]
               b == <<names[i]>>
    <3>1. a \in Seq(MessageField) /\ b \in Seq(MessageField) /\ before[i] = a \o b
      BY <2>2, <2>3
    <3> HIDE DEF a, b
    <3>2. Len(FieldBytes(a \o b)) = Len(FieldBytes(a)) + Len(FieldBytes(b)) /\ Len(FieldBytes(a)) \in Nat
      BY <3>1, FieldsJoined, FieldsType, Zenon
    <3> QED BY <3>1, <3>2 DEF a, b
  <2>5. h[i] = Len(FieldBytes(before[i])) /\ h[i - 1] = Len(FieldBytes(before[i - 1]))
    BY <1>5, <2>1
  <2>6. h[i] = h[i - 1] + (2 + topics[i]) /\ h[i - 1] \in Nat
    BY <1>2, <2>4, <2>5
  <2>7. topics[i] \in Nat
    BY <1>1
  <2> QED BY <2>1, <2>6, <2>7
<1> DEFINE Solves(f) == f = [i \in 0 .. n |-> IF i = 0 THEN 0 ELSE f[i - 1] + 2 + topics[i]]
<1>8. Solves(h)
  <2>1. \A i \in 0 .. n : i # 0 => i \in 1 .. n
    BY <1>1
  <2>2. \A i \in 0 .. n : h[i] = IF i = 0 THEN 0 ELSE h[i - 1] + 2 + topics[i]
    BY <1>6, <1>7, <2>1
  <2> QED BY <1>5, <2>2
<1>9. Solves(upTo)
  <2>1. upTo = CHOOSE f : Solves(f)
    OBVIOUS
  <2> HIDE DEF Solves, upTo
  <2> QED BY <1>8, <2>1, Zenon
<1>10. upTo[0] = 0 /\ \A i \in 1 .. n : upTo[i] = upTo[i - 1] + 2 + topics[i]
  <2>1. 0 \in 0 .. n /\ \A i \in 1 .. n : i \in 0 .. n /\ i # 0
    BY <1>1
  <2> HIDE DEF upTo
  <2>2. upTo[0] = 0
    BY <1>9, <2>1
  <2>3. ASSUME NEW i \in 1 .. n
        PROVE  upTo[i] = upTo[i - 1] + 2 + topics[i]
    BY <1>9, <2>1
  <2> QED BY <2>2, <2>3
<1> HIDE DEF upTo
<1>11. upTo[n] = h[n]
  <2>1. InStep(upTo, h, n)
    BY <1>6, <1>7, <1>10 DEF InStep
  <2> QED BY <1>1, <2>1, SameSteps
<1>12. h[n] = Len(FieldBytes(names))
  BY <1>1, <1>2, <1>4, <1>5
<1>13. Moderate(h[n])
  <2>1. CASE n = 0
    <3>1. h[n] = 0
      BY <1>6, <2>1
    <3> QED BY <3>1, SMT DEF Moderate
  <2>2. CASE n = 1
    <3>1. 1 \in 1 .. n /\ 1 - 1 = 0
      BY <2>2
    <3>2. h[1] = h[0] + 2 + topics[1]
      BY <1>7, <3>1
    <3>3. h[n] = 2 + topics[1] /\ Short(topics[1])
      BY <1>1, <1>6, <2>2, <3>1, <3>2
    <3> QED BY <3>3, SMT DEF Moderate, Short
  <2>3. CASE n = 2
    <3>1. 1 \in 1 .. n /\ 2 \in 1 .. n /\ 1 - 1 = 0 /\ 2 - 1 = 1
      BY <2>3
    <3>2. h[1] = h[0] + 2 + topics[1] /\ h[2] = h[1] + 2 + topics[2]
      BY <1>7, <3>1
    <3>3. h[n] = 2 + topics[1] + 2 + topics[2] /\ Short(topics[1]) /\ Short(topics[2])
      <4>1. topics[1] \in Nat /\ topics[2] \in Nat /\ Short(topics[1]) /\ Short(topics[2])
        BY <1>1, <3>1
      <4> QED BY <1>6, <2>3, <3>2, <4>1
    <3> QED BY <3>3, SMT DEF Moderate, Short
  <2> QED BY <1>1, <2>1, <2>2, <2>3
<1> QED BY <1>3, <1>11, <1>12, <1>13 DEF names

LEMMA FewAreShort ==
    \A n \in 0 .. 2 : Short(n) /\ Long(n) /\ n \in Nat /\ n \in Int
BY SMT DEF Short, Long

\* What precedes the flags.
TopicFields(topics) ==
    IF topics = Null THEN CountOf(-1) ELSE CountOf(Len(topics)) \o Names(topics)

\* The bytes of what precedes the flags, as MetadataRequest.encode writes them.
TopicBytes(topics) ==
    IF topics = Null
    THEN EncodeNumber(4, -1)
    ELSE EncodeNumber(4, Len(topics))
             \o FlattenSeq([i \in DOMAIN topics |-> EncodeText("string", topics[i])])

LEMMA TopicsAreWritten ==
    ASSUME NEW topics, topics = Null \/ NameList(topics)
    PROVE  /\ TopicFields(topics) \in Seq(MessageField)
           /\ FieldBytes(TopicFields(topics)) = TopicBytes(topics)
           /\ MetadataSize(topics) = Len(FieldBytes(TopicFields(topics))) + 3
           /\ Len(FieldBytes(TopicFields(topics))) - 4 \in Nat
           /\ Moderate(Len(FieldBytes(TopicFields(topics))) - 4)
<1>1. ASSUME NEW n \in Int, Long(n)
      PROVE  /\ CountOf(n) \in Seq(MessageField)
             /\ FieldBytes(CountOf(n)) = EncodeNumber(4, n)
             /\ Len(FieldBytes(CountOf(n))) = 4
  <2>1. Field("int32", n) \in MessageField
    BY <1>1, LengthNumbers
  <2>2. /\ <<Field("int32", n)>> \in Seq(MessageField)
        /\ FieldBytes(<<Field("int32", n)>>) = Encode(Field("int32", n))
    BY <2>1, OneField, Zenon
  <2>3. Encode(Field("int32", n)) = EncodeNumber(4, n)
    BY FieldCodes, Zenon
  <2> DEFINE w == 4
  <2>4. w \in Nat
    OBVIOUS
  <2> HIDE DEF w
  <2>5. Len(EncodeNumber(w, n)) = w
    BY <2>4, NumberBytes
  <2> QED BY <2>2, <2>3, <2>5, Zenon DEF CountOf, w
<1>2. CASE topics = Null
  <2> DEFINE n == -1
  <2>1. n \in Int /\ Long(n)
    BY SMT DEF Long
  <2>2. TopicFields(topics) = CountOf(n) /\ TopicBytes(topics) = EncodeNumber(4, n)
    BY <1>2 DEF TopicFields, TopicBytes
  <2>3. MetadataSize(topics) = 4 + 3
    BY <1>2 DEF MetadataSize
  <2> HIDE DEF n
  <2>4. /\ CountOf(n) \in Seq(MessageField)
        /\ FieldBytes(CountOf(n)) = EncodeNumber(4, n)
        /\ Len(FieldBytes(CountOf(n))) = 4
    BY <1>1, <2>1
  <2>5. Moderate(0) /\ 0 \in Nat
    BY SMT DEF Moderate
  <2>6. Len(FieldBytes(CountOf(n))) - 4 = 0 /\ 4 + 3 = Len(FieldBytes(CountOf(n))) + 3
    <3> DEFINE len == Len(FieldBytes(CountOf(n)))
    <3>1. len = 4
      BY <2>4
    <3> HIDE DEF len
    <3>2. len - 4 = 0 /\ 4 + 3 = len + 3
      BY <3>1
    <3> QED BY <3>2 DEF len
  <2>7. /\ Len(FieldBytes(TopicFields(topics))) - 4 = 0
        /\ MetadataSize(topics) = Len(FieldBytes(TopicFields(topics))) + 3
    BY <2>2, <2>3, <2>6
  <2>8. /\ TopicFields(topics) \in Seq(MessageField)
        /\ FieldBytes(TopicFields(topics)) = TopicBytes(topics)
    BY <2>2, <2>4
  <2> QED BY <2>5, <2>7, <2>8, Zenon
<1>3. CASE NameList(topics)
  <2> DEFINE n == Len(topics)
             names == Names(topics)
             encoded == FlattenSeq([i \in DOMAIN topics |-> EncodeText("string", topics[i])])
  <2>1. n \in 0 .. 2 /\ topics # Null
    BY <1>3, NameListType
  <2>2. n \in Int /\ Long(n)
    BY <2>1, FewAreShort
  <2>3. names \in Seq(MessageField) /\ encoded = FieldBytes(names)
    BY <1>3, NamesAreFields
  <2>4. MetadataSize(topics) = 4 + Len(FieldBytes(names)) + 3 /\ Moderate(Len(FieldBytes(names)))
    BY <1>3, NamesAreCounted
  <2>5. /\ TopicFields(topics) = CountOf(n) \o names
        /\ TopicBytes(topics) = EncodeNumber(4, n) \o encoded
    BY <2>1 DEF TopicFields, TopicBytes
  <2> HIDE DEF n, names, encoded
  <2>6. /\ CountOf(n) \in Seq(MessageField)
        /\ FieldBytes(CountOf(n)) = EncodeNumber(4, n)
        /\ Len(FieldBytes(CountOf(n))) = 4
    BY <1>1, <2>2
  <2>7. /\ CountOf(n) \o names \in Seq(MessageField)
        /\ FieldBytes(CountOf(n) \o names) = FieldBytes(CountOf(n)) \o FieldBytes(names)
        /\ Len(FieldBytes(CountOf(n) \o names)) = 4 + Len(FieldBytes(names))
    BY <2>3, <2>6, FieldsJoined
  <2>8. Len(FieldBytes(names)) \in Nat
    BY <2>3, FieldsType
  <2> DEFINE len == Len(FieldBytes(names))
             all == Len(FieldBytes(CountOf(n) \o names))
  <2>9. len \in Nat /\ all = 4 + len /\ Moderate(len) /\ MetadataSize(topics) = 4 + len + 3
    BY <2>4, <2>7, <2>8
  <2> HIDE DEF len, all
  <2>10. all - 4 = len /\ MetadataSize(topics) = all + 3
    BY <2>9
  <2>11. all - 4 \in Nat /\ Moderate(all - 4)
    BY <2>9, <2>10
  <2>12. FieldBytes(CountOf(n) \o names) = TopicBytes(topics)
    BY <2>3, <2>5, <2>6, <2>7
  <2> QED BY <2>5, <2>7, <2>10, <2>11, <2>12 DEF all
<1> QED BY <1>2, <1>3

\* MetadataRequest.encode writes its fields, and allocates what they take.
LEMMA MetadataIsWritten ==
    ASSUME NEW topics, topics = Null \/ NameList(topics)
    PROVE  /\ MetadataFields(topics) = TopicFields(topics) \o Flags
           /\ MetadataFields(topics) \in Seq(MessageField)
           /\ MetadataBody(topics) = FieldBytes(MetadataFields(topics))
           /\ Len(FieldBytes(MetadataFields(topics))) - 7 \in Nat
           /\ Moderate(Len(FieldBytes(MetadataFields(topics))) - 7)
<1> DEFINE a == TopicFields(topics)
           fields == a \o Flags
           sized == MetadataSize(topics)
<1>1. /\ a \in Seq(MessageField) /\ FieldBytes(a) = TopicBytes(topics)
      /\ sized = Len(FieldBytes(a)) + 3 /\ Len(FieldBytes(a)) - 4 \in Nat
      /\ Moderate(Len(FieldBytes(a)) - 4) /\ Len(FieldBytes(a)) \in Nat
  <2>1. a \in Seq(MessageField)
    BY TopicsAreWritten
  <2>2. Len(FieldBytes(a)) \in Nat
    BY <2>1, FieldsType
  <2> QED BY <2>1, <2>2, TopicsAreWritten
<1>2. /\ Flags \in Seq(MessageField) /\ FieldBytes(Flags) = <<0, 0, 0>> /\ Len(FieldBytes(Flags)) = 3
  BY FlagsAreWritten
<1>3. MetadataFields(topics) = fields
  BY DEF MetadataFields, TopicFields
<1>4. MetadataBody(topics) = Fill(sized, TopicBytes(topics) \o <<0, 0, 0>>)
  BY DEF MetadataBody, TopicBytes
<1> HIDE DEF a, sized
<1>5. /\ fields \in Seq(MessageField) /\ FieldBytes(fields) = FieldBytes(a) \o FieldBytes(Flags)
      /\ Len(FieldBytes(fields)) = Len(FieldBytes(a)) + 3
  BY <1>1, <1>2, FieldsJoined
<1> HIDE DEF fields
<1>6. FieldBytes(fields) \in Seq(Byte)
  BY <1>5, FieldsType
<1>7. sized \in Nat /\ Len(FieldBytes(fields)) = sized
  BY <1>1, <1>5
<1>8. Fill(sized, FieldBytes(fields)) = FieldBytes(fields)
  <2> DEFINE bytes == FieldBytes(fields)
  <2>1. bytes \in Seq(Byte) /\ Len(bytes) = sized /\ Len(bytes) <= sized
    BY <1>6, <1>7
  <2> HIDE DEF bytes
  <2>2. Fill(sized, bytes) = bytes
    BY <1>7, <2>1, FillPads
  <2> QED BY <2>2 DEF bytes
<1>9. MetadataBody(topics) = FieldBytes(fields)
  BY <1>1, <1>2, <1>4, <1>5, <1>8
<1>10. Len(FieldBytes(fields)) - 7 = Len(FieldBytes(a)) - 4
  BY <1>1, <1>5
<1> QED BY <1>1, <1>3, <1>5, <1>9, <1>10 DEF fields, a

\* Names are read as so many strings.
LEMMA NamesAreRead ==
    ASSUME NEW topics, NameList(topics), NEW bytes \in Seq(Byte), NEW so \in Places,
           There(bytes, so, TopicFields(topics))
    PROVE  ReadTopicNames(bytes, so) = After(so, TopicFields(topics))
<1> DEFINE names == Names(topics)
           n == Len(names)
           rows == [i \in 1 .. n |-> <<names[i]>>]
           types == <<"string">>
<1>1. /\ names \in Seq(MessageField) /\ n = Len(topics)
      /\ \A i \in 1 .. n : names[i] \in MessageField /\ names[i].type = "string"
  BY NamesAreFields
<1>2. n \in 0 .. 2 /\ topics # Null
  BY <1>1, NameListType
<1>3. Short(n) /\ n \in Nat
  BY <1>2, FewAreShort
<1>4. TopicFields(topics) = CountOf(n) \o names
  BY <1>1, <1>2 DEF TopicFields
<1> HIDE DEF names
<1>5. rows = [i \in 1 .. n |-> rows[i]] /\ \A i \in 1 .. n : rows[i] = <<names[i]>>
  OBVIOUS
<1> HIDE DEF rows
<1>6. ASSUME NEW i \in 1 .. n
      PROVE  ProperRow(rows[i], types)
  <2> DEFINE f == names[i]
  <2>1. f \in MessageField /\ f.type = "string" /\ rows[i] = <<f>>
    BY <1>1, <1>5
  <2> HIDE DEF f
  <2>2. ProperRow(<<f>>, types)
    BY <2>1 DEF ProperRow, Matches, ReadAs
  <2> QED BY <2>1, <2>2
<1> HIDE DEF types
<1>7. ProperRows(rows, types) /\ Len(rows) = n
  <2> HIDE DEF n
  <2> QED BY <1>3, <1>5, <1>6, RowsAreProper
<1>8. FlattenSeq(rows) = names
  BY <1>1, <1>5, Singletons
<1>9. Counted(rows) = TopicFields(topics)
  BY <1>4, <1>7, <1>8 DEF Counted
<1>10. ReadRows(bytes, so, types) = After(so, Counted(rows))
  BY <1>7, <1>9, ArrayIsRead, Zenon
<1> QED BY <1>9, <1>10 DEF ReadTopicNames, types

\* The count -1 is read as the list of no topics, which stands for all.
LEMMA NoNamesAreRead ==
    ASSUME NEW bytes \in Seq(Byte), NEW so \in Places, There(bytes, so, CountOf(-1))
    PROVE  ReadTopicNames(bytes, so) = After(so, CountOf(-1))
<1> DEFINE n == -1
           counted == ReadCount(bytes, so)
<1>1. n \in Int /\ Long(n)
  BY SMT DEF Long
<1>2. There(bytes, so, CountOf(n)) /\ n < 0
  OBVIOUS
<1> HIDE DEF n
<1>3. /\ CountOf(n) \in Seq(MessageField)
      /\ ReadCount(bytes, so) = After(so, CountOf(n))
      /\ After(so, CountOf(n)).value = so.value \o <<n>>
  <2>1. Field("int32", n) \in MessageField
    BY <1>1, LengthNumbers
  <2> QED BY <1>1, <1>2, <2>1, NumberIsRead
<1>4. counted \in Places /\ Last(counted.value) = n
  BY <1>1, <1>3, AfterType, CountIsLast
<1>5. ~counted.threw
  BY <1>4, PlaceType
<1>6. Len(bytes) \in Nat
  OBVIOUS
<1> HIDE DEF counted
<1>7. ~(Last(counted.value) > Len(bytes)) /\ Last(counted.value) < 0
  BY <1>1, <1>2, <1>4, <1>6
<1>8. ReadTopicNames(bytes, so) = counted
  <2>1. ReadTopicNames(bytes, so)
            = Loop(bytes, counted, LAMBDA place : Reads(bytes, place, <<"string">>))
    BY DEF ReadTopicNames, ReadRows, ReadArray, ReadCount, counted
  <2>2. Loop(bytes, counted, LAMBDA place : Reads(bytes, place, <<"string">>)) = counted
    BY <1>5, <1>7 DEF Loop
  <2> QED BY <2>1, <2>2
<1>9. ReadTopicNames(bytes, so) = After(so, CountOf(n))
  BY <1>3, <1>8 DEF counted
<1> QED BY <1>9 DEF n

\* The names and the flags are read.
LEMMA MetadataIsRead ==
    ASSUME NEW topics, topics = Null \/ NameList(topics), NEW bytes \in Seq(Byte), NEW so \in Places,
           There(bytes, so, MetadataFields(topics))
    PROVE  Reads(bytes, ReadTopicNames(bytes, so), FlagTypes) = After(so, MetadataFields(topics))
<1> DEFINE a == TopicFields(topics)
<1>1. a \in Seq(MessageField) /\ MetadataFields(topics) = a \o Flags
  BY TopicsAreWritten, MetadataIsWritten
<1>2. Flags \in Seq(MessageField) /\ Matches(FlagTypes, Flags)
  BY FlagsAreWritten
<1>3. There(bytes, so, a) => ReadTopicNames(bytes, so) = After(so, a)
  <2>1. CASE topics = Null
    <3>1. a = CountOf(-1)
      BY <2>1 DEF TopicFields
    <3> HIDE DEF a
    <3> QED BY <3>1, NoNamesAreRead, Zenon
  <2>2. CASE NameList(topics)
    BY <2>2, NamesAreRead, Zenon
  <2> QED BY <2>1, <2>2
<1> HIDE DEF a
<1>4. There(bytes, so, a \o Flags)
  BY <1>1
<1>5. Parted(bytes, so, a, Flags)
  BY <1>1, <1>2, <1>4, NextIsThere, Zenon
<1>6. /\ There(bytes, so, a) /\ After(so, a) \in Places /\ There(bytes, After(so, a), Flags)
      /\ After(After(so, a), Flags) = After(so, a \o Flags)
  BY <1>5, Zenon DEF Parted
<1>7. Reads(bytes, After(so, a), FlagTypes) = After(After(so, a), Flags)
  BY <1>2, <1>6, FieldsAreRead, Zenon
<1> QED BY <1>1, <1>3, <1>6, <1>7, Zenon

\* What RequestsAreWhole compares a request with.
ReadTexts(texts, counted) ==
    [i \in DOMAIN texts |-> IF counted /\ i = 1 THEN texts[i] ELSE Content(texts[i])]

AskedTexts(topics) == IF topics = Null THEN <<-1>> ELSE <<Len(topics)>> \o topics

LEMMA MetadataPayloads ==
    ASSUME NEW topics, topics = Null \/ NameList(topics)
    PROVE  Payloads(MetadataFields(topics)) = ReadTexts(AskedTexts(topics), TRUE) \o <<0, 0, 0>>
<1>1. /\ TopicFields(topics) \in Seq(MessageField) /\ Flags \in Seq(MessageField)
      /\ MetadataFields(topics) = TopicFields(topics) \o Flags /\ Payloads(Flags) = <<0, 0, 0>>
  BY TopicsAreWritten, MetadataIsWritten, FlagsAreWritten
<1>2. Payloads(MetadataFields(topics)) = Payloads(TopicFields(topics)) \o <<0, 0, 0>>
  BY <1>1, FieldsJoined
<1>3. ASSUME NEW n \in Int, Long(n)
      PROVE  CountOf(n) \in Seq(MessageField) /\ Payloads(CountOf(n)) = <<n>>
  <2>1. Field("int32", n) \in MessageField
    BY <1>3, LengthNumbers
  <2>2. /\ <<Field("int32", n)>> \in Seq(MessageField)
        /\ Payloads(<<Field("int32", n)>>) = <<Payload(Field("int32", n))>>
    BY <2>1, OneField, Zenon
  <2>3. Payload(Field("int32", n)) = n
    BY FieldCodes, Zenon
  <2> QED BY <2>2, <2>3, Zenon DEF CountOf
<1>4. Payloads(TopicFields(topics)) = ReadTexts(AskedTexts(topics), TRUE)
  <2>1. CASE topics = Null
    <3> DEFINE n == -1
    <3>1. n \in Int /\ Long(n)
      BY SMT DEF Long
    <3>2. TopicFields(topics) = CountOf(n) /\ AskedTexts(topics) = <<n>>
      BY <2>1 DEF TopicFields, AskedTexts
    <3> HIDE DEF n
    <3>3. Payloads(CountOf(n)) = <<n>>
      BY <1>3, <3>1
    <3>4. ReadTexts(<<n>>, TRUE) = <<n>>
      BY DEF ReadTexts
    <3> QED BY <3>2, <3>3, <3>4
  <2>2. CASE NameList(topics)
    <3> DEFINE n == Len(topics)
               names == Names(topics)
               texts == <<n>> \o topics
    <3>1. /\ topics \in Seq(Nat) /\ n \in 0 .. 2 /\ topics # Null /\ DOMAIN topics = 1 .. n
          /\ \A i \in 1 .. n : topics[i] \in Nat
      BY <2>2, NameListType
    <3>2. n \in Int /\ Long(n)
      BY <3>1, FewAreShort
    <3>3. /\ names \in Seq(MessageField) /\ Len(names) = n
          /\ Payloads(names) = [i \in DOMAIN topics |-> ReadBack(topics[i])]
      BY <2>2, NamesAreFields
    <3>4. TopicFields(topics) = CountOf(n) \o names /\ AskedTexts(topics) = texts
      BY <3>1 DEF TopicFields, AskedTexts
    <3>5. Len(texts) = 1 + n /\ texts[1] = n /\ \A i \in 1 .. n : texts[1 + i] = topics[i]
      BY <3>1
    <3>6. DOMAIN texts = 1 .. 1 + n
      BY <3>1
    <3> HIDE DEF names, texts
    <3>7. \A i \in 1 .. n : Payloads(names)[i] = Content(topics[i])
      <4> TAKE i \in 1 .. n
      <4>1. topics[i] # Null
        BY <3>1, NullAssumption
      <4>2. Payloads(names)[i] = ReadBack(topics[i])
        BY <3>1, <3>3
      <4> QED BY <4>1, <4>2 DEF ReadBack
    <3> HIDE DEF n
    <3>8. CountOf(n) \in Seq(MessageField) /\ Payloads(CountOf(n)) = <<n>>
      BY <1>3, <3>2
    <3> DEFINE one == <<n>>
               rest == Payloads(names)
               all == ReadTexts(texts, TRUE)
    <3>9. one \in Seq(Value) /\ Len(one) = 1 /\ one[1] = n
      BY <3>2 DEF Value
    <3>10. rest \in Seq(Value) /\ Len(rest) = n
      BY <3>3, FieldsType
    <3>11. /\ DOMAIN all = 1 .. 1 + n /\ all[1] = n
           /\ \A i \in 1 .. n : all[1 + i] = rest[i]
      <4>1. DOMAIN all = 1 .. 1 + n
        BY <3>6 DEF ReadTexts
      <4>2. 1 \in 1 .. 1 + n /\ \A i \in 1 .. n : 1 + i \in 1 .. 1 + n /\ 1 + i # 1
        BY <3>1
      <4>3. all[1] = n
        BY <3>5, <3>6, <4>2 DEF ReadTexts
      <4>4. \A i \in 1 .. n : all[1 + i] = rest[i]
        BY <3>5, <3>6, <3>7, <4>2 DEF ReadTexts
      <4> QED BY <4>1, <4>3, <4>4
    <3>12. all \in Seq(Value) /\ Len(all) = 1 + n
      <4>1. ASSUME NEW i \in 1 .. 1 + n
            PROVE  all[i] \in Value
        <5>1. CASE i = 1
          BY <3>2, <3>11, <5>1 DEF Value
        <5>2. CASE i # 1
          <6>1. i - 1 \in 1 .. n /\ 1 + (i - 1) = i
            BY <3>1, <5>2
          <6>2. all[i] = rest[i - 1]
            BY <3>11, <6>1
          <6>3. rest[i - 1] \in Value
            BY <3>10, <6>1
          <6> QED BY <6>2, <6>3
        <5> QED BY <5>1, <5>2
      <4>2. 1 + n \in Nat
        BY <3>1
      <4>3. all = [i \in 1 .. 1 + n |-> all[i]]
        BY <3>6 DEF ReadTexts
      <4> HIDE DEF all
      <4> DEFINE m == 1 + n
      <4> HIDE DEF m
      <4>4. m \in Nat /\ all = [i \in 1 .. m |-> all[i]] /\ \A i \in 1 .. m : all[i] \in Value
        BY <4>1, <4>2, <4>3 DEF m
      <4>5. all \in Seq(Value) /\ Len(all) = m
        BY <4>4, RowsType
      <4> QED BY <4>5 DEF m
    <3> HIDE DEF one, rest, all
    <3>13. Consists(all, one, rest)
      BY <3>9, <3>10, <3>11, <3>12 DEF Consists
    <3>14. all = one \o rest
      BY <3>9, <3>10, <3>12, <3>13, IsConcatenation
    <3>15. Payloads(CountOf(n) \o names) = Payloads(CountOf(n)) \o Payloads(names)
      BY <3>3, <3>8, FieldsJoined
    <3> QED BY <3>4, <3>8, <3>14, <3>15 DEF one, rest, all
  <2> QED BY <2>1, <2>2
<1> QED BY <1>2, <1>4

LEMMA ApiVersionsPayloads ==
    Payloads(ApiVersionsFields) = ReadTexts(<<ClientName, ClientVersion>>, FALSE) \o <<0>>
<1> DEFINE c1 == Content(ClientName)
           c2 == Content(ClientVersion)
           all == <<c1, c2, 0>>
           two == ReadTexts(<<ClientName, ClientVersion>>, FALSE)
           one == <<0>>
<1>1. Payloads(ApiVersionsFields) = all
  BY ApiVersionsIsWritten
<1>2. two = <<c1, c2>>
  BY DEF ReadTexts
<1>3. c1 \in Value /\ c2 \in Value /\ 0 \in Value
  <2>1. /\ ClientName \in Nat \cup {Null} /\ ClientVersion \in Nat \cup {Null}
        /\ ClientName # Null /\ ClientVersion # Null
    BY NullAssumption DEF ClientName, ClientVersion
  <2>2. c1 \in Seq(Byte) /\ c2 \in Seq(Byte)
    BY <2>1, StringBytes
  <2> QED BY <2>2 DEF Value
<1> HIDE DEF c1, c2, two
<1>4. /\ all \in Seq(Value) /\ Len(all) = 3 /\ all[1] = c1 /\ all[2] = c2 /\ all[3] = 0
      /\ one \in Seq(Value) /\ Len(one) = 1 /\ one[1] = 0
      /\ <<c1, c2>> \in Seq(Value) /\ Len(<<c1, c2>>) = 2
      /\ <<c1, c2>>[1] = c1 /\ <<c1, c2>>[2] = c2
  BY <1>3
<1> HIDE DEF all, one
<1>5. Consists(all, two, one)
  BY <1>2, <1>4 DEF Consists
<1>6. all = two \o one
  BY <1>2, <1>4, <1>5, IsConcatenation
<1> QED BY <1>1, <1>6 DEF two, one

-----------------------------------------------------------------------------
\* The request that is made now.
BodyOf(key, topics) == IF key = ApiVersionsKey THEN ApiVersionsBody ELSE MetadataBody(topics)
FieldsOf(key, topics) == IF key = ApiVersionsKey THEN ApiVersionsFields ELSE MetadataFields(topics)

LEMMA BodyIsWritten ==
    ASSUME NEW key, NEW topics, topics = Null \/ NameList(topics)
    PROVE  /\ FieldsOf(key, topics) \in Seq(MessageField)
           /\ Padded(BodyOf(key, topics), FieldBytes(FieldsOf(key, topics)))
           /\ key # ApiVersionsKey =>
                 Len(BodyOf(key, topics)) = Len(FieldBytes(FieldsOf(key, topics)))
           /\ \E n \in Nat : Moderate(n) /\ Len(BodyOf(key, topics)) = n + 7
<1>1. CASE key = ApiVersionsKey
  <2>1. BodyOf(key, topics) = ApiVersionsBody /\ FieldsOf(key, topics) = ApiVersionsFields
    BY <1>1 DEF BodyOf, FieldsOf
  <2>2. Moderate(23) /\ 23 \in Nat
    BY SMT DEF Moderate
  <2>3. Len(ApiVersionsBody) = 23 + 7
    BY ApiVersionsIsWritten
  <2> QED BY <1>1, <2>1, <2>2, <2>3, ApiVersionsIsWritten
<1>2. CASE key # ApiVersionsKey
  <2> DEFINE fields == MetadataFields(topics)
             bytes == FieldBytes(fields)
             n == Len(bytes) - 7
  <2>1. BodyOf(key, topics) = MetadataBody(topics) /\ FieldsOf(key, topics) = fields
    BY <1>2 DEF BodyOf, FieldsOf
  <2>2. /\ fields \in Seq(MessageField) /\ MetadataBody(topics) = bytes
        /\ n \in Nat /\ Moderate(n)
    BY MetadataIsWritten
  <2> HIDE DEF fields
  <2>3. bytes \in Seq(Byte) /\ Len(bytes) \in Nat
    BY <2>2, FieldsType
  <2> HIDE DEF bytes
  <2>4. Padded(bytes, bytes)
    BY <2>3 DEF Padded
  <2>5. Len(bytes) = n + 7
    BY <2>3
  <2> HIDE DEF n
  <2> QED BY <1>2, <2>1, <2>2, <2>4, <2>5 DEF bytes
<1> QED BY <1>1, <1>2

LEMMA RequestLength ==
    ASSUME NEW id, id = Null \/ Short(id), NEW n, Moderate(n)
    PROVE  Long((10 + (IF id = Null THEN 0 ELSE id)) + (n + 7))
<1>1. CASE id = Null
  <2>1. (10 + (IF id = Null THEN 0 ELSE id)) + (n + 7) = 10 + (n + 7)
    BY <1>1
  <2>2. Long(10 + (n + 7))
    BY SMT DEF Long, Moderate
  <2> QED BY <2>1, <2>2
<1>2. CASE id # Null
  <2>1. (10 + (IF id = Null THEN 0 ELSE id)) + (n + 7) = (10 + id) + (n + 7)
    BY <1>2
  <2>2. Short(id)
    BY <1>2
  <2>3. Long((10 + id) + (n + 7))
    BY <2>2, SMT DEF Long, Moderate, Short
  <2> QED BY <2>1, <2>3
<1> QED BY <1>1, <1>2

\* The request of the invariant is whole.
RequestNow ==
    request = Framed(EncodeHeader(apiKey, apiVersion) \o BodyOf(apiKey, topicsAsked))

LEMMA RequestIsWhole ==
    ASSUME clientId = Null \/ Short(clientId), apiKey \in ApiKeys, OfInt16(apiVersion),
           topicsAsked = Null \/ NameList(topicsAsked), RequestNow
    PROVE  RequestsAreWhole
<1> DEFINE id == IF HasId THEN clientId ELSE Null
           header == HeaderOfRequest(apiKey, apiVersion, id)
           fields == FieldsOf(apiKey, topicsAsked)
           body == BodyOf(apiKey, topicsAsked)
           h == Len(FieldBytes(header))
           b == Len(FieldBytes(fields))
           x == 4 + h
           y == x + b
<1>1. Short(apiKey)
  <2>1. apiKey \in Nat /\ apiKey < 20
    BY DEF ApiKeys, ApiVersionsKey, MetadataKey
  <2> QED BY <2>1, SMT DEF Short
<1>2. /\ header \in Seq(MessageField) /\ Matches(HeaderTypes, header)
      /\ EncodeHeader(apiKey, apiVersion) = FieldBytes(header)
      /\ h = 10 + (IF id = Null THEN 0 ELSE id)
      /\ Payloads(header) = <<apiKey, apiVersion, 1, ReadBack(id)>>
      /\ id = Null \/ Short(id)
  BY <1>1, HeaderIsWritten
<1>3. ReadBack(id) = IF HasId THEN Content(clientId) ELSE Null
  BY DEF ReadBack, HasId
<1> HIDE DEF id, header
<1>4. /\ fields \in Seq(MessageField) /\ Padded(body, FieldBytes(fields))
      /\ apiKey # ApiVersionsKey => Len(body) = b
      /\ \E n \in Nat : Moderate(n) /\ Len(body) = n + 7
  BY BodyIsWritten
<1>5. request = Framed(FieldBytes(header) \o body)
  BY <1>2 DEF RequestNow
<1> HIDE DEF fields, body
<1>6. Long(Len(FieldBytes(header)) + Len(body))
  <2>1. PICK n \in Nat : Moderate(n) /\ Len(body) = n + 7
    BY <1>4
  <2>2. Long((10 + (IF id = Null THEN 0 ELSE id)) + (n + 7))
    BY <1>2, <2>1, RequestLength
  <2> QED BY <1>2, <2>1, <2>2
<1>7. RequestRead(request, header, fields) /\ Len(request) = 4 + h + Len(body)
  BY <1>2, <1>4, <1>5, <1>6, RequestIsRead, Zenon
<1>8. /\ request \in Seq(Byte) /\ y <= Len(request)
      /\ DecodeNumber(request, "int32", 0).value = Len(request) - 4
      /\ HeaderOf(request) = Got(Payloads(header), x)
      /\ From(x) \in Places /\ There(request, From(x), fields)
      /\ After(From(x), fields) = Got(Payloads(fields), y)
      /\ \A i \in y + 1 .. Len(request) : request[i] = 0
  BY <1>7, Zenon DEF RequestRead
<1> HIDE DEF h, b
<1>9. apiKey = ApiVersionsKey =>
          /\ Reads(request, From(x), ApiVersionsTypes) = Got(Payloads(fields), y)
          /\ Payloads(fields) = ReadTexts(<<ClientName, ClientVersion>>, FALSE) \o <<0>>
  <2> SUFFICES ASSUME apiKey = ApiVersionsKey
               PROVE  /\ Reads(request, From(x), ApiVersionsTypes) = Got(Payloads(fields), y)
                      /\ Payloads(fields) = ReadTexts(<<ClientName, ClientVersion>>, FALSE) \o <<0>>
    OBVIOUS
  <2>1. fields = ApiVersionsFields
    BY DEF fields, FieldsOf
  <2>2. Matches(ApiVersionsTypes, fields)
    BY <2>1, ApiVersionsIsWritten
  <2>3. Reads(request, From(x), ApiVersionsTypes) = After(From(x), fields)
    BY <1>4, <1>8, <2>2, FieldsAreRead, Zenon
  <2> QED BY <1>8, <2>1, <2>3, ApiVersionsPayloads, Zenon
<1>10. apiKey # ApiVersionsKey =>
          /\ Reads(request, ReadTopicNames(request, From(x)), FlagTypes) = Got(Payloads(fields), y)
          /\ Payloads(fields) = ReadTexts(AskedTexts(topicsAsked), TRUE) \o <<0, 0, 0>>
          /\ y = Len(request)
  <2> SUFFICES ASSUME apiKey # ApiVersionsKey
               PROVE  /\ Reads(request, ReadTopicNames(request, From(x)), FlagTypes)
                             = Got(Payloads(fields), y)
                      /\ Payloads(fields) = ReadTexts(AskedTexts(topicsAsked), TRUE) \o <<0, 0, 0>>
                      /\ y = Len(request)
    OBVIOUS
  <2>1. fields = MetadataFields(topicsAsked)
    BY DEF fields, FieldsOf
  <2>2. There(request, From(x), MetadataFields(topicsAsked))
    BY <1>8, <2>1
  <2>3. Reads(request, ReadTopicNames(request, From(x)), FlagTypes)
            = After(From(x), MetadataFields(topicsAsked))
    BY <1>8, <2>2, MetadataIsRead, Zenon
  <2>4. y = Len(request)
    BY <1>4, <1>7
  <2> QED BY <1>8, <2>1, <2>3, <2>4, MetadataPayloads, Zenon
<1>11. /\ HeaderOf(request).value = <<apiKey, apiVersion, 1, IF HasId THEN Content(clientId) ELSE Null>>
       /\ Got(<<>>, HeaderOf(request).next) = From(x)
  <2> DEFINE values == Payloads(header)
             parsed == HeaderOf(request)
  <2>1. /\ values = <<apiKey, apiVersion, 1, IF HasId THEN Content(clientId) ELSE Null>>
        /\ parsed = Got(values, x)
    BY <1>2, <1>3, <1>8, Zenon
  <2> HIDE DEF values, parsed, x
  <2>2. parsed.value = values /\ parsed.next = x
    BY <2>1, GotFields
  <2> QED BY <2>1, <2>2, Zenon DEF parsed, From
<1> DEFINE newBody == IF apiKey = ApiVersionsKey
                      THEN Reads(request, From(x), ApiVersionsTypes)
                      ELSE Reads(request, ReadTopicNames(request, From(x)), FlagTypes)
           texts == IF apiKey = ApiVersionsKey THEN <<ClientName, ClientVersion>>
                    ELSE AskedTexts(topicsAsked)
           flags == IF apiKey = ApiVersionsKey THEN <<0>> ELSE <<0, 0, 0>>
<1>12. newBody = Got(Payloads(fields), y)
  BY <1>9, <1>10, Zenon
<1>13. /\ ~newBody.threw /\ newBody.value = Payloads(fields) /\ newBody.next = y
  <2> DEFINE values == Payloads(fields)
  <2> HIDE DEF newBody, y, values
  <2>1. newBody = Got(values, y)
    BY <1>12 DEF values
  <2>2. ~newBody.threw /\ newBody.value = values /\ newBody.next = y
    BY <2>1, GotFields
  <2> QED BY <2>2 DEF values
<1>14. Payloads(fields) = ReadTexts(texts, apiKey = MetadataKey) \o flags
  <2>1. CASE apiKey = ApiVersionsKey
    <3>1. (apiKey = MetadataKey) <=> FALSE
      BY <2>1 DEF ApiVersionsKey, MetadataKey
    <3>2. texts = <<ClientName, ClientVersion>> /\ flags = <<0>>
      BY <2>1
    <3> HIDE DEF texts, flags
    <3>3. ReadTexts(texts, apiKey = MetadataKey) = ReadTexts(texts, FALSE)
      BY <3>1 DEF ReadTexts
    <3> QED BY <1>9, <2>1, <3>2, <3>3
  <2>2. CASE apiKey # ApiVersionsKey
    <3>1. (apiKey = MetadataKey) <=> TRUE
      BY <2>2 DEF ApiKeys
    <3>2. texts = AskedTexts(topicsAsked) /\ flags = <<0, 0, 0>>
      BY <2>2
    <3> HIDE DEF texts, flags
    <3>3. ReadTexts(texts, apiKey = MetadataKey) = ReadTexts(texts, TRUE)
      BY <3>1 DEF ReadTexts
    <3> QED BY <1>10, <2>2, <3>2, <3>3
  <2> QED BY <2>1, <2>2
<1>15. newBody.value = [i \in DOMAIN texts |-> IF apiKey = MetadataKey /\ i = 1 THEN texts[i]
                                               ELSE Content(texts[i])] \o flags
  <2> HIDE DEF newBody, texts, flags
  <2> QED BY <1>13, <1>14 DEF ReadTexts
<1>16. /\ \A i \in newBody.next + 1 .. Len(request) : request[i] = 0
       /\ apiKey = MetadataKey => newBody.next = Len(request)
  <2>1. apiKey = MetadataKey => apiKey # ApiVersionsKey
    BY DEF ApiVersionsKey, MetadataKey
  <2> HIDE DEF newBody
  <2> QED BY <1>8, <1>10, <1>13, <2>1
<1> DEFINE head == HeaderOf(request)
           oldBody == IF apiKey = ApiVersionsKey
                      THEN Reads(request, Got(<<>>, head.next), <<"string", "string", "int8">>)
                      ELSE Reads(request, ReadTopicNames(request, Got(<<>>, head.next)),
                                 <<"boolean", "boolean", "boolean">>)
           oldTexts == IF apiKey = ApiVersionsKey THEN <<ClientName, ClientVersion>>
                       ELSE IF topicsAsked = Null THEN <<-1>>
                       ELSE <<Len(topicsAsked)>> \o topicsAsked
<1>17. oldBody = newBody
  BY <1>11, Zenon DEF ApiVersionsTypes, FlagTypes
<1>18. oldTexts = texts
  BY Zenon DEF AskedTexts
<1>19. RequestsAreWhole <=>
         (messagePhase = "requested" =>
            /\ DecodeNumber(request, "int32", 0).value = Len(request) - 4
            /\ head.value = <<apiKey, apiVersion, 1, IF HasId THEN Content(clientId) ELSE Null>>
            /\ ~oldBody.threw
            /\ oldBody.value = [i \in DOMAIN oldTexts |-> IF apiKey = MetadataKey /\ i = 1 THEN oldTexts[i]
                                                          ELSE Content(oldTexts[i])] \o flags
            /\ \A i \in oldBody.next + 1 .. Len(request) : request[i] = 0
            /\ apiKey = MetadataKey => oldBody.next = Len(request))
  BY Zenon DEF RequestsAreWhole
<1> HIDE DEF oldBody, oldTexts, flags, texts, newBody
<1> QED BY <1>8, <1>11, <1>13, <1>15, <1>16, <1>17, <1>18, <1>19, Zenon

-----------------------------------------------------------------------------
\* The answer that is on its way: one in the version of its parser is read as it
\* was written, and the parser of ApiVersions gets bytes in any version.
AnswerNow ==
    /\ answerVersion = ParserVersion(apiKey) =>
           answer \in Seq(MessageField) /\ Parsed = After(Start0, answer)
    /\ apiKey = ApiVersionsKey => SubSeq(response, 5, Len(response)) \in Seq(Byte)

\* A request that waits is the one that was written, in a version of 16 bits,
\* whatever was read out of the answers before.
MessagesInv ==
    /\ clientId \in Texts \cup {Null}
    /\ apiKey \in ApiKeys
    /\ OfInt16(apiVersion)
    /\ topicsAsked \in TopicLists
    /\ apiVersions = Null \/ OfInt16(apiVersions)
    /\ apiKey = ApiVersionsKey => answerVersion \in {0, 1}
    /\ messagePhase = "requested" => RequestNow /\ understood = <<>>
    /\ messagePhase = "answered" => AnswerNow
    /\ answerVersion = ParserVersion(apiKey) /\ understood # <<>> =>
           understood = Payloads(answer)

LEMMA ConstantsAreShort ==
    /\ \A n \in Texts \cup Counts \cup MetadataMax : Short(n)
    /\ Short(0) /\ Short(3) /\ Short(18) /\ Short(35)
<1>1. \A n \in Texts \cup Counts \cup MetadataMax : Short(n)
  BY MessagesAssumption, SMT DEF Short
<1>2. Short(0) /\ Short(3) /\ Short(18) /\ Short(35)
  BY SMT DEF Short
<1> QED BY <1>1, <1>2

LEMMA ShortLists ==
    ASSUME NEW S, \A n \in S : Short(n), NEW s \in BoundedSeq(S, 2)
    PROVE  /\ DOMAIN s = 1 .. Len(s) /\ Len(s) \in 0 .. 2
           /\ \A i \in 1 .. Len(s) : s[i] \in S /\ Short(s[i])
           /\ s # Null => NameList(s)
<1>1. PICK m \in 0 .. 2 : s \in [1 .. m -> S]
  BY DEF BoundedSeq, SeqOf
<1>2. DOMAIN s = 1 .. m /\ Len(s) = m
  BY <1>1
<1>3. \A i \in 1 .. m : s[i] \in S /\ Short(s[i])
  BY <1>1
<1>4. \A i \in 1 .. m : s[i] \in Nat
  BY <1>3 DEF Short
<1>5. s \in Seq(Nat) /\ Len(s) <= 2
  BY <1>1, <1>2, <1>4
<1> QED BY <1>1, <1>2, <1>3, <1>5 DEF NameList

LEMMA ListsOfTopics ==
    ASSUME NEW topics \in TopicLists
    PROVE  topics = Null \/ NameList(topics)
<1>1. \A n \in Texts : Short(n)
  BY ConstantsAreShort
<1>2. CASE topics = Null
  BY <1>2
<1>3. CASE topics \in BoundedSeq(Texts, 2) /\ topics # Null
  BY <1>1, <1>3, ShortLists
<1> QED BY <1>2, <1>3 DEF TopicLists

\* ResponseHeader.decode cuts off the correlation id.
LEMMA HeaderIsCut ==
    ASSUME NEW b \in Seq(Byte)
    PROVE  SubSeq(EncodeNumber(4, 1) \o b, 5, Len(EncodeNumber(4, 1) \o b)) = b
<1> DEFINE w == 4
           n == 1
           a == EncodeNumber(4, 1)
           c == a \o b
<1>1. a \in Seq(Byte) /\ Len(a) = 4
  <2>1. w \in Nat /\ n \in Int
    OBVIOUS
  <2> HIDE DEF w, n
  <2>2. EncodeNumber(w, n) \in Seq(Byte) /\ Len(EncodeNumber(w, n)) = w
    BY <2>1, NumberBytes
  <2> QED BY <2>2 DEF w, n
<1> HIDE DEF a
<1>2. c \in Seq(Byte) /\ Len(c) = 4 + Len(b) /\ \A i \in 1 .. Len(b) : c[4 + i] = b[i]
  <2>1. /\ c \in Seq(Byte) /\ Len(c) = Len(a) + Len(b)
        /\ \A i \in 1 .. Len(b) : c[Len(a) + i] = b[i]
    BY <1>1, Concatenated, Zenon
  <2> HIDE DEF c
  <2> QED BY <1>1, <2>1
<1> HIDE DEF c
<1> DEFINE d == SubSeq(c, 5, Len(c))
<1>3. d \in Seq(Byte) /\ Len(d) = Len(b) /\ \A i \in 1 .. Len(b) : d[i] = c[4 + i]
  BY <1>2
<1> HIDE DEF d
<1>4. d = b
  BY <1>2, <1>3, SeqEqual
<1> QED BY <1>4 DEF d, c, a

LEMMA WhatIsParsed ==
    ASSUME NEW fields \in Seq(MessageField)
    PROVE  /\ After(Start0, fields) = Got(Payloads(fields), Len(FieldBytes(fields)))
           /\ ~After(Start0, fields).threw
           /\ After(Start0, fields).value = Payloads(fields)
<1> DEFINE values == Payloads(fields)
           n == Len(FieldBytes(fields))
<1>1. After(Start0, fields) = Got(values, n)
  BY AllIsThere
<1> HIDE DEF values, n
<1>2. ~After(Start0, fields).threw /\ After(Start0, fields).value = values
  BY <1>1, GotFields
<1> QED BY <1>1, <1>2 DEF values, n

LEMMA InvInit == MessagesInit => MessagesInv
<1> SUFFICES ASSUME MessagesInit PROVE MessagesInv
  OBVIOUS
<1>1. OfInt16(apiVersion)
  BY ConstantsAreShort, ShortVersions DEF MessagesInit
<1> QED BY <1>1 DEF MessagesInit, MessagesInv, TopicLists, ApiKeys

LEMMA RequestKeepsInv ==
    ASSUME MessagesInv, NEW key \in ApiKeys, NEW version, OfInt16(version),
           key = ApiVersionsKey => version = 0,
           NEW topics \in TopicLists, SendRequest(key, version, BodyOf(key, topics)),
           topicsAsked' = topics
    PROVE  MessagesInv'
<1>1. /\ messagePhase' = "requested" /\ apiKey' = key /\ apiVersion' = version
      /\ request' = Framed(EncodeHeader(key, version) \o BodyOf(key, topics))
      /\ answerVersion' \in {version, ParserVersion(key)}
      /\ understood' = <<>> /\ UNCHANGED <<clientId, apiVersions>>
  BY DEF SendRequest
<1>2. EncodeHeader(key, version)' = EncodeHeader(key, version)
  BY <1>1 DEF EncodeHeader, HasId
<1>3. RequestNow'
  BY <1>1, <1>2 DEF RequestNow, EncodeHeader, HasId
<1>4. key = ApiVersionsKey => answerVersion' \in {0, 1}
  BY <1>1 DEF ParserVersion
<1> QED BY <1>1, <1>3, <1>4 DEF MessagesInv

LEMMA AnswerKeepsInv ==
    ASSUME MessagesInv, NEW fields, Answers(fields), messagePhase = "requested",
           apiKey = ApiVersionsKey => fields \in Seq(MessageField),
           answerVersion = ParserVersion(apiKey) =>
              /\ fields \in Seq(MessageField)
              /\ apiKey = ApiVersionsKey => ParseApiVersions(FieldBytes(fields)) = After(Start0, fields)
              /\ apiKey # ApiVersionsKey => ParseMetadata(FieldBytes(fields)) = After(Start0, fields)
    PROVE  MessagesInv'
<1>1. /\ messagePhase' = "answered" /\ answer' = fields /\ topicsAsked' = Null
      /\ response' = EncodeNumber(4, 1) \o FieldBytes(fields)
      /\ UNCHANGED <<clientId, apiKey, apiVersion, answerVersion, understood, apiVersions>>
  BY DEF Answers, FieldBytes
<1>2. ASSUME fields \in Seq(MessageField)
      PROVE  /\ SubSeq(response', 5, Len(response')) = FieldBytes(fields)
             /\ FieldBytes(fields) \in Seq(Byte)
  <2> DEFINE b == FieldBytes(fields)
  <2>1. b \in Seq(Byte)
    BY <1>2, FieldsType
  <2> HIDE DEF b
  <2>2. SubSeq(EncodeNumber(4, 1) \o b, 5, Len(EncodeNumber(4, 1) \o b)) = b
    BY <2>1, HeaderIsCut
  <2>3. SubSeq(response', 5, Len(response')) = b
    BY <1>1, <2>2 DEF b
  <2> QED BY <2>1, <2>3 DEF b
<1>3. ASSUME answerVersion = ParserVersion(apiKey)
      PROVE  fields \in Seq(MessageField) /\ Parsed' = After(Start0, fields)
  <2>1. SubSeq(response', 5, Len(response')) = FieldBytes(fields)
    BY <1>2, <1>3
  <2>2. Parsed' = IF apiKey' = ApiVersionsKey
                  THEN ParseApiVersions(SubSeq(response', 5, Len(response')))
                  ELSE ParseMetadata(SubSeq(response', 5, Len(response')))
    BY Zenon DEF Parsed
  <2>3. Parsed' = IF apiKey = ApiVersionsKey THEN ParseApiVersions(FieldBytes(fields))
                  ELSE ParseMetadata(FieldBytes(fields))
    BY <1>1, <2>1, <2>2, Zenon
  <2> QED BY <1>3, <2>3, Zenon
<1>4. AnswerNow'
  <2>1. (answerVersion = ParserVersion(apiKey))' <=> answerVersion = ParserVersion(apiKey)
    BY <1>1 DEF ParserVersion
  <2>2. (answerVersion = ParserVersion(apiKey))' =>
            answer' \in Seq(MessageField) /\ Parsed' = After(Start0, answer')
    BY <1>1, <1>3, <2>1, Zenon
  <2>3. apiKey' = ApiVersionsKey => SubSeq(response', 5, Len(response')) \in Seq(Byte)
    BY <1>1, <1>2, Zenon
  <2>4. After(Start0, answer)' = After(Start0, answer')
    BY DEF After, Start0, Got, Payloads, FieldBytes
  <2> QED BY <2>2, <2>3, <2>4, Zenon DEF AnswerNow
<1>5. TopicLists' = TopicLists /\ Null \in TopicLists /\ understood' = <<>>
  BY <1>1 DEF TopicLists, MessagesInv
<1> QED BY <1>1, <1>4, <1>5 DEF MessagesInv

\* In version 0, an answer to ApiVersions has all its fields but one.
LEMMA ApiVersionsFields0 ==
    ASSUME answerVersion = 0, NEW errorCode, Short(errorCode), NEW max, Short(max),
           NEW keys, NEW n, n = Len(keys), DOMAIN keys = 1 .. n, Short(n),
           \A i \in 1 .. n : Short(keys[i])
    PROVE  ApiVersionsAnswer(errorCode, keys, max) \in Seq(MessageField)
<1> DEFINE e == V(0, "int16", errorCode)
           d == V(1, "int32", 7)
           rows == [i \in 1 .. n |-> V(0, "int16", keys[i]) \o V(0, "int16", 0) \o V(0, "int16", max)]
<1>1. /\ e = <<Field("int16", errorCode)>> /\ d = <<>>
      /\ Array(0, rows) = Counted(rows)
  <2>1. ~(1 <= answerVersion)
    OBVIOUS
  <2> QED BY <2>1, EveryField DEF V
<1>2. e \in Seq(MessageField) /\ d \in Seq(MessageField)
  <2> DEFINE f == Field("int16", errorCode)
  <2>1. f \in MessageField
    BY SmallNumbers
  <2> HIDE DEF f, e, d
  <2> QED BY <1>1, <2>1 DEF f
<1>3. ASSUME NEW i \in 1 .. n
      PROVE  rows[i] \in Seq(MessageField)
  <2> DEFINE f1 == Field("int16", keys[i])
             f2 == Field("int16", 0)
             f3 == Field("int16", max)
             v1 == V(0, "int16", keys[i])
             v2 == V(0, "int16", 0)
             v3 == V(0, "int16", max)
  <2>1. v1 = <<f1>> /\ v2 = <<f2>> /\ v3 = <<f3>>
    BY EveryField
  <2>2. f1 \in MessageField /\ f2 \in MessageField /\ f3 \in MessageField
    BY ConstantsAreShort, SmallNumbers
  <2>3. rows[i] = v1 \o v2 \o v3
    OBVIOUS
  <2> HIDE DEF f1, f2, f3, v1, v2, v3, rows
  <2>4. v1 \in Seq(MessageField) /\ v2 \in Seq(MessageField) /\ v3 \in Seq(MessageField)
    BY <2>1, <2>2
  <2>5. (v1 \o v2) \o v3 \in Seq(MessageField)
    BY <2>4, FieldsJoined, Zenon
  <2> QED BY <2>3, <2>5
<1>4. rows = [i \in 1 .. n |-> rows[i]]
  OBVIOUS
<1>5. ApiVersionsAnswer(errorCode, keys, max) = (e \o d) \o Array(0, rows)
  BY DEF ApiVersionsAnswer
<1> HIDE DEF rows, e, d
<1>6. rows \in Seq(Seq(MessageField)) /\ Len(rows) = n
  <2>1. n \in Nat
    BY DEF Short
  <2> QED BY <1>3, <1>4, <2>1, RowsType
<1>7. Counted(rows) \in Seq(MessageField)
  BY <1>6, CountedType
<1>8. e \o d \in Seq(MessageField)
  BY <1>2, FieldsJoined, Zenon
<1>9. (e \o d) \o Counted(rows) \in Seq(MessageField)
  BY <1>7, <1>8, FieldsJoined, Zenon
<1> QED BY <1>1, <1>5, <1>9

LEMMA InvNext ==
    ASSUME MessagesInv, [MessagesNext]_messageVars
    PROVE  MessagesInv'
<1>1. CASE fetchApiVersions
  <2> DEFINE key == ApiVersionsKey
  <2>1. key \in ApiKeys /\ OfInt16(0) /\ topicsAsked \in TopicLists
    BY ConstantsAreShort, ShortVersions DEF MessagesInv, ApiKeys
  <2>2. SendRequest(key, 0, BodyOf(key, topicsAsked)) /\ topicsAsked' = topicsAsked
    BY <1>1 DEF fetchApiVersions, BodyOf
  <2> HIDE DEF key
  <2> DEFINE topics == topicsAsked
  <2>3. topics \in TopicLists /\ SendRequest(key, 0, BodyOf(key, topics)) /\ topicsAsked' = topics
    BY <2>1, <2>2
  <2> HIDE DEF topics
  <2> QED BY <2>1, <2>3, RequestKeepsInv
<1>2. ASSUME NEW topics \in TopicLists, refreshMetadata(topics)
      PROVE  MessagesInv'
  <2> DEFINE key == MetadataKey
             version == IF apiVersions = Null THEN 0 ELSE apiVersions
  <2>1. key \in ApiKeys /\ key # ApiVersionsKey /\ OfInt16(version)
    BY ConstantsAreShort, ShortVersions DEF MessagesInv, ApiKeys, ApiVersionsKey, MetadataKey
  <2>2. SendRequest(key, version, BodyOf(key, topics)) /\ topicsAsked' = topics
    BY <1>2 DEF refreshMetadata, BodyOf, ApiVersionsKey, MetadataKey
  <2> HIDE DEF key, version
  <2> QED BY <2>1, <2>2, RequestKeepsInv
<1>3. CASE AnswersApiVersions
  <2>1. messagePhase = "requested" /\ apiKey = ApiVersionsKey
    BY <1>3 DEF AnswersApiVersions
  <2>2. PICK errorCode \in {0, 35}, max \in MetadataMax,
             keys \in {<<>>, <<0>>, <<0, MetadataKey>>, <<MetadataKey, ApiVersionsKey>>} :
           Answers(ApiVersionsAnswer(errorCode, keys, max))
    BY <1>3 DEF AnswersApiVersions
  <2> DEFINE n == Len(keys)
             fields == ApiVersionsAnswer(errorCode, keys, max)
  <2>3. Short(errorCode) /\ Short(max)
    BY ConstantsAreShort
  <2>4. n \in 0 .. 2 /\ DOMAIN keys = 1 .. n /\ \A i \in 1 .. n : keys[i] \in {0, 3, 18}
    BY DEF MetadataKey, ApiVersionsKey
  <2> HIDE DEF n
  <2>5. Short(n) /\ \A i \in 1 .. n : Short(keys[i])
    BY <2>4, FewAreShort, ConstantsAreShort
  <2>6. n = Len(keys)
    BY DEF n
  <2>7. answerVersion \in {0, 1} /\ ParserVersion(apiKey) = 1
    BY <2>1 DEF MessagesInv, ParserVersion
  <2>8. answerVersion = 1 =>
            fields \in Seq(MessageField) /\ ParseApiVersions(FieldBytes(fields)) = After(Start0, fields)
    BY <2>3, <2>4, <2>5, <2>6, ApiVersionsIsParsed
  <2>9. answerVersion = 0 => fields \in Seq(MessageField)
    BY <2>3, <2>4, <2>5, <2>6, ApiVersionsFields0
  <2>10. Answers(fields)
    BY <2>2
  <2> HIDE DEF fields
  <2> QED BY <2>1, <2>7, <2>8, <2>9, <2>10, AnswerKeepsInv
<1>4. CASE AnswersMetadata
  <2>1. messagePhase = "requested" /\ apiKey = MetadataKey /\ apiKey # ApiVersionsKey
    BY <1>4 DEF AnswersMetadata, MetadataKey, ApiVersionsKey
  <2>2. PICK brokers \in Counts, rack \in Texts \cup {Null}, cluster \in Texts \cup {Null},
             topics \in BoundedSeq(Counts, 2), nodes \in [1 .. 3 -> Counts] :
           Answers(MetadataAnswer(brokers, rack, cluster, topics, nodes))
    BY <1>4 DEF AnswersMetadata
  <2> DEFINE fields == MetadataAnswer(brokers, rack, cluster, topics, nodes)
  <2>3. /\ Short(brokers)
        /\ rack = Null \/ Short(rack)
        /\ cluster = Null \/ Short(cluster)
        /\ \A i \in 1 .. 3 : Short(nodes[i])
    BY ConstantsAreShort
  <2>4. /\ DOMAIN topics = 1 .. Len(topics) /\ Len(topics) \in 0 .. 2
        /\ \A i \in 1 .. Len(topics) : Short(topics[i])
    <3>1. \A n \in Counts : Short(n)
      BY ConstantsAreShort
    <3> QED BY <3>1, ShortLists
  <2>5. Short(Len(topics))
    BY <2>4, FewAreShort
  <2>6. ParserVersion(apiKey) = 8
    BY <2>1 DEF ParserVersion
  <2>7. ASSUME answerVersion = 8
        PROVE  /\ fields \in Seq(MessageField)
               /\ ParseMetadata(FieldBytes(fields)) = After(Start0, fields)
    <3>1. answerVersion = 8 /\ Answerable(brokers, rack, cluster, topics, nodes)
      BY <2>3, <2>4, <2>5, <2>7 DEF Answerable
    <3>2. LET answered == MetadataAnswer(brokers, rack, cluster, topics, nodes)
          IN  /\ answered \in Seq(MessageField)
              /\ ParseMetadata(FieldBytes(answered)) = After(Start0, answered)
      <4> HIDE DEF fields
      <4> QED BY <3>1, MetadataIsParsed
    <3> QED BY <3>2
  <2>8. Answers(fields)
    BY <2>2
  <2> HIDE DEF fields
  <2> QED BY <2>1, <2>6, <2>7, <2>8, AnswerKeepsInv
<1>5. CASE ClientParses
  <2>1. /\ messagePhase = "answered" /\ AnswerNow
        /\ messagePhase' \in {"failed", "ready"}
        /\ UNCHANGED <<clientId, apiKey, apiVersion, topicsAsked, request, answerVersion, answer>>
    BY <1>5 DEF ClientParses, Parses, MessagesInv
  <2>2. ASSUME answerVersion = ParserVersion(apiKey)
        PROVE  understood' = Payloads(answer)
    <3> DEFINE parsed == After(Start0, answer)
               values == Payloads(answer)
    <3>1. Parsed = parsed /\ ~parsed.threw /\ parsed.value = values
      BY <2>1, <2>2, WhatIsParsed DEF AnswerNow
    <3>2. Parses(parsed)
      BY <1>5, <3>1 DEF ClientParses
    <3> HIDE DEF parsed, values
    <3> QED BY <3>1, <3>2 DEF Parses, values
  <2>3. apiVersions' = Null \/ OfInt16(apiVersions')
    <3> DEFINE parsed == Parsed
    <3>1. /\ apiVersions' = apiVersions
             \/ /\ apiKey = ApiVersionsKey /\ ~parsed.threw
                /\ apiVersions' = NewestMetadata(parsed.value)
      BY <1>5 DEF ClientParses, Parses
    <3>2. CASE apiVersions' = apiVersions
      BY <3>2 DEF MessagesInv
    <3>3. CASE /\ apiKey = ApiVersionsKey /\ ~parsed.threw
               /\ apiVersions' = NewestMetadata(parsed.value)
      <4> DEFINE bytes == SubSeq(response, 5, Len(response))
      <4>1. bytes \in Seq(Byte)
        BY <2>1, <3>3 DEF AnswerNow
      <4>2. parsed = ParseApiVersions(bytes)
        BY <3>3, Zenon DEF Parsed
      <4> HIDE DEF bytes, parsed
      <4>3. \/ NewestMetadata(ParseApiVersions(bytes).value) = Null
            \/ OfInt16(NewestMetadata(ParseApiVersions(bytes).value))
        BY <3>3, <4>1, <4>2, NewestIsOfInt16
      <4> QED BY <3>3, <4>2, <4>3
    <3> QED BY <3>1, <3>2, <3>3
  <2>4. TopicLists' = TopicLists /\ Payloads(answer)' = Payloads(answer)
    BY <2>1 DEF TopicLists, Payloads
  <2>5. (answerVersion = ParserVersion(apiKey))' <=> answerVersion = ParserVersion(apiKey)
    BY <2>1 DEF ParserVersion
  <2> QED BY <2>1, <2>2, <2>3, <2>4, <2>5 DEF MessagesInv
<1>6. CASE UNCHANGED messageVars
  <2>1. RequestNow' <=> RequestNow
    BY <1>6 DEF RequestNow, messageVars, EncodeHeader, HasId
  <2>2. AnswerNow' <=> AnswerNow
    BY <1>6 DEF AnswerNow, Parsed, ParserVersion, messageVars, Payloads
  <2>3. /\ Payloads(answer)' = Payloads(answer) /\ TopicLists' = TopicLists
        /\ (answerVersion = ParserVersion(apiKey))' <=> answerVersion = ParserVersion(apiKey)
    BY <1>6 DEF messageVars, Payloads, TopicLists, ParserVersion
  <2> QED BY <1>6, <2>1, <2>2, <2>3 DEF MessagesInv, messageVars
<1> QED BY <1>1, <1>2, <1>3, <1>4, <1>5, <1>6 DEF MessagesNext

LEMMA InvUnderstood == MessagesInv => MessagesAreUnderstood
<1> SUFFICES ASSUME MessagesInv
             PROVE  /\ RequestsAreWhole
                    /\ answerVersion = ParserVersion(apiKey) => AnswersUnderstood
  BY DEF MessagesAreUnderstood
<1>1. answerVersion = ParserVersion(apiKey) => AnswersUnderstood
  BY DEF MessagesInv, AnswersUnderstood, Payloads
<1>2. CASE messagePhase = "requested"
  <2>1. /\ clientId = Null \/ Short(clientId)
        /\ apiKey \in ApiKeys /\ OfInt16(apiVersion) /\ RequestNow
        /\ topicsAsked = Null \/ NameList(topicsAsked)
    BY <1>2, ConstantsAreShort, ListsOfTopics DEF MessagesInv
  <2>2. RequestsAreWhole
    BY <2>1, RequestIsWhole
  <2> QED BY <1>1, <2>2
<1>3. CASE messagePhase # "requested"
  BY <1>1, <1>3 DEF RequestsAreWhole
<1> QED BY <1>2, <1>3

\* A request has the bytes that its size field counts and its fields at their
\* places, whatever the client made of the answers before it; and an answer in
\* the version of its parser is read as the broker wrote it: for client ids and
\* names of any length that fits into 16 bits, any such number of brokers,
\* partitions and replicas, up to two topics (as in Messages) and any sequence
\* of requests (src/network/protocol/, src/network/BrokerConnection.ts, send).
THEOREM RequestsAndAnswersCorrect == MessagesSpec => []MessagesAreUnderstood
<1>1. MessagesInv /\ [MessagesNext]_messageVars => MessagesInv'
  BY InvNext
<1> QED BY <1>1, InvInit, InvUnderstood, PTL DEF MessagesSpec
=============================================================================
