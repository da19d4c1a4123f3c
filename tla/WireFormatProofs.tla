-------------------------- MODULE WireFormatProofs --------------------------
(***************************************************************************)
(* A scan finds the schema IDs that serializers write, for every ID and    *)
(* every message: the forms of an ID are defined here, apart from the code *)
(* that reads them.                                                        *)
(***************************************************************************)
EXTENDS WireFormat, SequenceTheorems, WellFoundedInduction, TLAPS

Byte == 0 .. 255

\* The registry numbers its schemas from 1 on.
IsID(id) == id \in Nat /\ 0 < id /\ id <= MaxInt32

\* An ID as four bytes, the most significant one first.
Binary(id) ==
    <<id \div 16777216, (id \div 65536) % 256, (id \div 256) % 256, id % 256>>

\* Function f gives the number that each beginning of the text v stands for.
Reads(f, v) ==
    /\ f \in [0 .. Len(v) -> Nat]
    /\ f[0] = 0
    /\ \A n \in 1 .. Len(v) : f[n] = 10 * f[n - 1] + (v[n] - 48)

\* v is the number id in decimal digits, leading zeros included.
DecimalOf(v, id) ==
    /\ v \in Seq(48 .. 57)
    /\ \E f : Reads(f, v) /\ f[Len(v)] = id

\* A key or a value begins with the magic byte and the ID.
Framed(data, id) ==
    /\ data \in Seq(Byte)
    /\ Len(data) >= MessageOffset
    /\ data[1] = MagicByte
    /\ \A j \in 1 .. 4 : data[j + 1] = Binary(id)[j]

\* A number may have a plus sign.
TextOf(text, id) ==
    \E v : v # << >> /\ DecimalOf(v, id) /\ text \in {v, <<43>> \o v}

\* A text of four characters is left out: it is another, binary ID.
InHeader(header, id) ==
    \/ header.value = Binary(id)
    \/ TextOf(header.value, id) /\ Len(header.value) # 4

\* Message m carries this ID for its key or its value.
Carries(m, id, role) ==
    \/ role = "key" /\ Framed(m.key, id)
    \/ role = "value" /\ Framed(m.value, id)
    \/ \E n \in DOMAIN m.headers :
         role \in RoleOfHeader(m.headers[n].name) /\ InHeader(m.headers[n], id)

-----------------------------------------------------------------------------
LEMMA BinaryRead ==
  ASSUME NEW id \in Nat, id <= MaxInt32, NEW b, \A j \in 1 .. 4 : b[j] = Binary(id)[j]
  PROVE  BigEndian(b) = id
<1>1. /\ b[1] = id \div 16777216 /\ b[2] = (id \div 65536) % 256
      /\ b[3] = (id \div 256) % 256 /\ b[4] = id % 256
  BY SMT DEF Binary
<1>2. id <= 2147483647
  BY SMT DEF MaxInt32
<1> DEFINE b1 == id \div 16777216
           b2 == (id \div 65536) % 256
           b3 == (id \div 256) % 256
           b4 == id % 256
<1>3. b1 \in 0 .. 127 /\ b2 \in 0 .. 255 /\ b3 \in 0 .. 255 /\ b4 \in 0 .. 255
  BY SMT, <1>2
<1>4. ((b1 * 256 + b2) * 256 + b3) * 256 + b4 = id
  BY SMT, <1>2
<1> HIDE DEF b1, b2, b3, b4
<1>5. BigEndian(b) = ((b1 * 256 + b2) * 256 + b3) * 256 + b4
  <2>1. b[1] = b1 /\ b[2] = b2 /\ b[3] = b3 /\ b[4] = b4
    BY SMT, <1>1 DEF b1, b2, b3, b4
  <2> QED
    BY SMT, <1>3, <2>1 DEF BigEndian
<1> QED
  BY SMT, <1>4, <1>5

-----------------------------------------------------------------------------
\* Induction over the positions of a text, for a set in place of a predicate.
LEMMA PositionInduction ==
  ASSUME NEW N \in Nat, NEW S, 0 \in S, \A n \in 0 .. N - 1 : n \in S => n + 1 \in S
  PROVE  0 .. N \subseteq S
<1> SUFFICES ASSUME (0 .. N) \ S # {} PROVE FALSE
  OBVIOUS
<1> DEFINE R == OpToRel(<, Nat)
           T == (0 .. N) \ S
<1>1. IsWellFoundedOn(R, Nat)
  BY NatLessThanWellFounded
<1>2. \A x, y \in Nat : x < y => <<x, y>> \in R
  BY DEF OpToRel
<1>3. T \subseteq Nat /\ T # {} /\ \A n \in 0 .. N : n \in T <=> n \notin S
  OBVIOUS
<1>4. T \subseteq 0 .. N
  OBVIOUS
<1> HIDE DEF R, T
<1>5. PICK x \in T : \A y \in T : ~(<<y, x>> \in R)
  BY <1>1, <1>3, WFMin
<1>6. x \in 0 .. N /\ x # 0 /\ x - 1 \in 0 .. N - 1 /\ x - 1 \in 0 .. N /\ (x - 1) + 1 = x /\ x - 1 < x
  BY <1>3, <1>4, <1>5
<1>7. x - 1 \in S
  BY <1>2, <1>3, <1>5, <1>6
<1> QED
  BY <1>3, <1>5, <1>6, <1>7

\* What the code makes of a number: too large ones do not wrap around.
InRange(number) == IF number <= MaxInt32 THEN number ELSE -1

\* One digit more.
LEMMA NextDigit ==
  ASSUME NEW number \in Nat, NEW d \in 0 .. 9
  PROVE  InRange(10 * number + d)
           = IF InRange(number) = -1 \/ InRange(number) > (MaxInt32 - d) \div 10
             THEN -1 ELSE 10 * InRange(number) + d
<1>1. (MaxInt32 - d) \div 10 \in Nat /\ 10 * ((MaxInt32 - d) \div 10) <= MaxInt32 - d
      /\ MaxInt32 - d < 10 * ((MaxInt32 - d) \div 10) + 10
  BY SMT DEF MaxInt32
<1> DEFINE q == (MaxInt32 - d) \div 10
<1>2. q \in Nat /\ 10 * q <= MaxInt32 - d /\ MaxInt32 - d < 10 * q + 10 /\ MaxInt32 \in Nat
  BY SMT, <1>1 DEF MaxInt32
<1> HIDE DEF q
<1>3. CASE number <= MaxInt32
  <2>1. 10 * number + d > MaxInt32 <=> number > q
    BY SMT, <1>2
  <2> QED
    BY SMT, <1>2, <1>3, <2>1 DEF InRange, q
<1>4. CASE number > MaxInt32
  BY SMT, <1>2, <1>4 DEF InRange
<1> QED
  BY SMT, <1>2, <1>3, <1>4

\* The recursive function of ParseDigits.
IsParse(g, v) ==
    g = [n \in 0 .. Len(v) |->
           IF n = 0 THEN 0
           ELSE LET d == v[n] - 48
                IN IF g[n - 1] = -1 \/ g[n - 1] > (MaxInt32 - d) \div 10
                   THEN -1
                   ELSE 10 * g[n - 1] + d]

LEMMA ParseStep ==
  ASSUME NEW g, NEW v \in Seq(48 .. 57), IsParse(g, v)
  PROVE  /\ g[0] = 0
         /\ \A n \in 1 .. Len(v) :
              g[n] = IF g[n - 1] = -1 \/ g[n - 1] > (MaxInt32 - (v[n] - 48)) \div 10
                     THEN -1 ELSE 10 * g[n - 1] + (v[n] - 48)
<1> DEFINE body(n) == IF n = 0 THEN 0
                      ELSE IF g[n - 1] = -1 \/ g[n - 1] > (MaxInt32 - (v[n] - 48)) \div 10
                           THEN -1 ELSE 10 * g[n - 1] + (v[n] - 48)
<1>1. g = [n \in 0 .. Len(v) |-> body(n)]
  BY DEF IsParse
<1>2. Len(v) \in Nat
  BY LenProperties
<1> HIDE DEF body
<1>3. \A n \in 0 .. Len(v) : g[n] = body(n)
  BY <1>1
<1>4. 0 \in 0 .. Len(v) /\ \A n \in 1 .. Len(v) : n \in 0 .. Len(v) /\ n # 0
  BY <1>2
<1> QED
  BY <1>3, <1>4 DEF body

\* The digits of a text, one by one.
LEMMA DigitsTyped ==
  ASSUME NEW v \in Seq(48 .. 57)
  PROVE  Len(v) \in Nat /\ DOMAIN v = 1 .. Len(v) /\ \A n \in 1 .. Len(v) : v[n] - 48 \in 0 .. 9
<1>1. Len(v) \in Nat /\ DOMAIN v = 1 .. Len(v) /\ \A n \in 1 .. Len(v) : v[n] \in 48 .. 57
  BY LenProperties, ElementOfSeq
<1> QED
  BY <1>1

(* A text of digits is read as the number it stands for, or as none when    *)
(* that number has more than 32 bits: nothing wraps around.                 *)
LEMMA DigitsRead ==
  ASSUME NEW v \in Seq(48 .. 57), NEW f, Reads(f, v)
  PROVE  ParseDigits(v) = InRange(f[Len(v)])
<1> DEFINE N == Len(v)
           g == CHOOSE g : IsParse(g, v)
           h == [n \in 0 .. N |-> InRange(f[n])]
           S == {n \in 0 .. N : g[n] = InRange(f[n])}
<1>1. N \in Nat /\ \A n \in 1 .. N : v[n] - 48 \in 0 .. 9
  BY DigitsTyped
<1>2. f[0] = 0 /\ \A n \in 1 .. N : /\ f[n - 1] \in Nat
                                   /\ f[n] = 10 * f[n - 1] + (v[n] - 48)
  BY <1>1 DEF Reads
<1>3. \A n \in 1 .. N :
        InRange(f[n]) = IF InRange(f[n - 1]) = -1 \/ InRange(f[n - 1]) > (MaxInt32 - (v[n] - 48)) \div 10
                        THEN -1 ELSE 10 * InRange(f[n - 1]) + (v[n] - 48)
  BY <1>1, <1>2, NextDigit
<1>4. InRange(f[0]) = 0
  BY SMT, <1>2 DEF InRange, MaxInt32
<1>5. ParseDigits(v) = g[N]
  BY DEF ParseDigits, IsParse
<1>6. IsParse(g, v)
  <2> SUFFICES IsParse(h, v)
    OBVIOUS
  <2> DEFINE body(n) == IF n = 0 THEN 0
                        ELSE IF h[n - 1] = -1 \/ h[n - 1] > (MaxInt32 - (v[n] - 48)) \div 10
                             THEN -1 ELSE 10 * h[n - 1] + (v[n] - 48)
  <2>1. ASSUME NEW n \in 0 .. N PROVE InRange(f[n]) = body(n)
    <3>1. CASE n = 0
      BY <1>4, <3>1
    <3>2. CASE n # 0
      <4>1. n \in 1 .. N /\ n - 1 \in 0 .. N
        BY <1>1, <3>2
      <4>2. h[n - 1] = InRange(f[n - 1])
        BY <4>1
      <4> HIDE DEF h
      <4> QED
        BY <1>3, <3>2, <4>1, <4>2
    <3> QED
      BY <3>1, <3>2
  <2> HIDE DEF body
  <2>2. h = [n \in 0 .. N |-> body(n)]
    BY <2>1
  <2> HIDE DEF h
  <2> QED
    BY <2>2 DEF IsParse, body
<1> HIDE DEF g, N
<1>7. /\ g[0] = 0
      /\ \A n \in 1 .. N :
           g[n] = IF g[n - 1] = -1 \/ g[n - 1] > (MaxInt32 - (v[n] - 48)) \div 10
                  THEN -1 ELSE 10 * g[n - 1] + (v[n] - 48)
  BY <1>6, ParseStep DEF N
<1>8. 0 \in S
  BY <1>1, <1>4, <1>7
<1>9. ASSUME NEW n \in 0 .. N - 1, n \in S PROVE n + 1 \in S
  <2>1. n + 1 \in 1 .. N /\ n + 1 \in 0 .. N /\ (n + 1) - 1 = n
    BY <1>1
  <2>2. g[n] = InRange(f[n])
    BY <1>9
  <2>3. g[n + 1] = InRange(f[n + 1])
    BY <1>3, <1>7, <2>1, <2>2
  <2> QED
    BY <2>1, <2>3
<1>10. 0 .. N \subseteq S
  <2> HIDE DEF S
  <2> QED
    BY <1>1, <1>8, <1>9, PositionInduction
<1>11. g[N] = InRange(f[N])
  BY <1>1, <1>10
<1> QED
  BY <1>5, <1>11 DEF N

LEMMA DecimalRead ==
  ASSUME NEW v, NEW id, v # << >>, DecimalOf(v, id)
  PROVE  /\ v \in Seq(48 .. 57) /\ v[1] # 43 /\ id \in Nat
         /\ \A n \in DOMAIN v : v[n] \in 48 .. 57
         /\ ParseDigits(v) = InRange(id)
<1>1. v \in Seq(48 .. 57) /\ DOMAIN v = 1 .. Len(v) /\ Len(v) \in Nat
  BY LenProperties DEF DecimalOf
<1>2. Len(v) > 0
  BY <1>1, EmptySeq
<1>3. v[1] \in 48 .. 57 /\ \A n \in DOMAIN v : v[n] \in 48 .. 57
  BY <1>1, <1>2, ElementOfSeq
<1>4. PICK f : Reads(f, v) /\ f[Len(v)] = id
  BY DEF DecimalOf
<1>5. id \in Nat
  BY <1>1, <1>4 DEF Reads
<1> QED
  BY <1>1, <1>3, <1>4, <1>5, DigitsRead

\* The sign goes, and the digits stay.
LEMMA SignRead ==
  ASSUME NEW v \in Seq(Int)
  PROVE  (<<43>> \o v)[1] = 43 /\ Tail(<<43>> \o v) = v
<1> DEFINE w == <<43>> \o v
<1>1. <<43>> \in Seq(Int) /\ Len(<<43>>) = 1 /\ <<43>>[1] = 43
  OBVIOUS
<1>2. /\ w \in Seq(Int) /\ Len(w) = 1 + Len(v) /\ Len(v) \in Nat
      /\ w[1] = 43 /\ \A n \in 2 .. Len(v) + 1 : w[n] = v[n - 1]
  BY <1>1, ConcatProperties, LenProperties
<1> HIDE DEF w
<1>3. w # << >>
  BY <1>2, EmptySeq
<1>4. /\ Tail(w) \in Seq(Int) /\ Len(Tail(w)) = Len(v)
      /\ \A n \in 1 .. Len(v) : Tail(w)[n] = w[n + 1]
  BY <1>2, <1>3, HeadTailProperties
<1>5. ASSUME NEW n \in 1 .. Len(v) PROVE Tail(w)[n] = v[n]
  <2>1. n + 1 \in 2 .. Len(v) + 1 /\ (n + 1) - 1 = n
    BY <1>2
  <2> QED
    BY <1>2, <1>4, <2>1
<1>6. Tail(w) = v
  BY <1>4, <1>5, SeqEqual
<1> QED
  BY <1>2, <1>6 DEF w

(* A decimal text is read as its number, and as no ID when that is 0 or has *)
(* more than 31 bits: strconv.ParseInt as the scan relies on it.            *)
THEOREM TextRead ==
  ASSUME NEW text, NEW id, TextOf(text, id)
  PROVE  ParseInt(text) = IF IsID(id) THEN id ELSE 0
<1>1. PICK v : v # << >> /\ DecimalOf(v, id) /\ text \in {v, <<43>> \o v}
  BY DEF TextOf
<1>2. /\ v \in Seq(48 .. 57) /\ v[1] # 43 /\ id \in Nat
      /\ \A n \in DOMAIN v : v[n] \in 48 .. 57
      /\ ParseDigits(v) = InRange(id)
  BY <1>1, DecimalRead
<1>3. ParseInt(text) = IF ParseDigits(v) > 0 THEN ParseDigits(v) ELSE 0
  <2>1. CASE text = v
    BY <1>1, <1>2, <2>1 DEF ParseInt
  <2>2. CASE text = <<43>> \o v
    <3>1. v \in Seq(Int)
      BY <1>2
    <3>2. text[1] = 43 /\ Tail(text) = v
      BY <2>2, <3>1, SignRead
    <3> QED
      BY <1>1, <1>2, <3>2 DEF ParseInt
  <2> QED
    BY <1>1, <2>1, <2>2
<1> QED
  BY SMT, <1>2, <1>3 DEF InRange, MaxInt32, IsID

LEMMA FrameRead ==
  ASSUME NEW id \in Nat, id <= MaxInt32, NEW data, Framed(data, id), NEW role
  PROVE  <<id, role>> \in SchemaIDFromPayload(data, role)
<1> DEFINE b == SubSeq(data, 2, MessageOffset)
<1>1. data \in Seq(Byte) /\ Len(data) \in Nat /\ Len(data) >= 5 /\ data[1] = MagicByte
  BY LenProperties DEF Framed, MessageOffset
<1>2. \A j \in 1 .. 4 : b[j] = data[j + 1]
  <2>1. 2 \in 1 .. Len(data) + 1 /\ 5 \in 1 .. Len(data)
    BY <1>1
  <2>2. \A j \in 1 .. (5 - 2) + 1 : SubSeq(data, 2, 5)[j] = data[2 + j - 1]
    BY <1>1, <2>1, SubSeqProperties
  <2>3. ASSUME NEW j \in 1 .. 4 PROVE b[j] = data[j + 1]
    <3>1. j \in 1 .. (5 - 2) + 1 /\ 2 + j - 1 = j + 1
      OBVIOUS
    <3> QED
      BY <2>2, <3>1 DEF MessageOffset
  <2> QED
    BY <2>3
<1>3. BigEndian(b) = id
  <2>1. \A j \in 1 .. 4 : b[j] = Binary(id)[j]
    BY <1>2 DEF Framed
  <2> HIDE DEF b
  <2> QED
    BY <2>1, BinaryRead
<1> QED
  BY <1>1, <1>3 DEF SchemaIDFromPayload, MessageOffset

LEMMA HeaderRead ==
  ASSUME NEW id, IsID(id), NEW header, InHeader(header, id)
  PROVE  SchemaIDFromHeaderValue(header.value) = id
<1> DEFINE v == header.value
<1>1. CASE v = Binary(id)
  <2>1. Len(v) = 4 /\ v # << >>
    BY <1>1 DEF Binary
  <2>2. BigEndian(v) = id
    <3>1. id \in Nat /\ id <= MaxInt32 /\ \A j \in 1 .. 4 : v[j] = Binary(id)[j]
      BY <1>1 DEF IsID
    <3> HIDE DEF v
    <3> QED
      BY <3>1, BinaryRead
  <2> HIDE DEF v
  <2>3. SchemaIDFromHeaderValue(v) = BigEndian(v)
    BY <2>1 DEF SchemaIDFromHeaderValue
  <2> QED
    BY <2>2, <2>3 DEF v
<1>2. CASE TextOf(v, id) /\ Len(v) # 4
  <2>1. ParseInt(v) = id
    BY <1>2, TextRead
  <2>2. v # << >>
    <3> SUFFICES ASSUME v = << >> PROVE FALSE
      OBVIOUS
    <3>1. PICK w : w # << >> /\ DecimalOf(w, id) /\ v \in {w, <<43>> \o w}
      BY <1>2 DEF TextOf
    <3>2. w \in Seq(Int)
      <4>1. w \in Seq(48 .. 57)
        BY <3>1, DecimalRead
      <4> QED
        BY <4>1
    <3>3. Len(<<43>> \o w) = 1 + Len(w) /\ Len(w) \in Nat
      BY <3>2, ConcatProperties, LenProperties
    <3> HIDE DEF v
    <3> QED
      BY <3>1, <3>3, EmptySeq
  <2> HIDE DEF v
  <2>3. SchemaIDFromHeaderValue(v) = ParseInt(v)
    BY <1>2, <2>2 DEF SchemaIDFromHeaderValue
  <2> QED
    BY <2>1, <2>3 DEF v
<1> QED
  BY <1>1, <1>2 DEF InHeader

(* Whatever ID a message carries, in front of its key or value or in a      *)
(* header, among whatever else: the scan records it for the right role.     *)
THEOREM CarriedIsFound ==
  ASSUME NEW m, NEW id, IsID(id), NEW role, Carries(m, id, role)
  PROVE  <<id, role>> \in UsesOfMessage(m)
<1>1. id \in Nat /\ id <= MaxInt32 /\ id > 0
  BY DEF IsID
<1>2. CASE role = "key" /\ Framed(m.key, id)
  BY <1>1, <1>2, FrameRead DEF UsesOfMessage
<1>3. CASE role = "value" /\ Framed(m.value, id)
  BY <1>1, <1>3, FrameRead DEF UsesOfMessage
<1>4. ASSUME NEW n \in DOMAIN m.headers, role \in RoleOfHeader(m.headers[n].name),
             InHeader(m.headers[n], id)
      PROVE  <<id, role>> \in SchemaIDsFromHeaders(m.headers)
  <2>1. SchemaIDFromHeaderValue(m.headers[n].value) = id
    BY <1>4, HeaderRead
  <2> QED
    BY <1>1, <1>4, <2>1 DEF SchemaIDsFromHeaders
<1> QED
  BY <1>2, <1>3, <1>4 DEF Carries, UsesOfMessage
-----------------------------------------------------------------------------
(* The other way round: what a scan takes for an ID is one in these forms.  *)

LEMMA BigEndianWritten ==
  ASSUME NEW b, \A j \in 1 .. 4 : b[j] \in Byte, BigEndian(b) > 0
  PROVE  IsID(BigEndian(b)) /\ \A j \in 1 .. 4 : b[j] = Binary(BigEndian(b))[j]
<1> DEFINE b1 == b[1]
           b2 == b[2]
           b3 == b[3]
           b4 == b[4]
           id == BigEndian(b)
<1>1. b1 \in 0 .. 255 /\ b2 \in 0 .. 255 /\ b3 \in 0 .. 255 /\ b4 \in 0 .. 255
  BY DEF Byte
<1>2. id = (((IF b1 < 128 THEN b1 ELSE b1 - 256) * 256 + b2) * 256 + b3) * 256 + b4
  BY DEF BigEndian
<1>3. id > 0
  OBVIOUS
<1> HIDE DEF b1, b2, b3, b4, id
<1>4. b1 < 128
  BY SMT, <1>1, <1>2, <1>3
<1>5. id = ((b1 * 256 + b2) * 256 + b3) * 256 + b4
  BY <1>2, <1>4
<1>6. id \in Nat /\ id <= 2147483647
  BY SMT, <1>1, <1>4, <1>5
<1>7. b4 = id % 256 /\ id \div 256 = (b1 * 256 + b2) * 256 + b3
  BY SMT, <1>1, <1>5
<1>8. b3 = (id \div 256) % 256
  <2> DEFINE q == b1 * 256 + b2
  <2>1. q \in Nat /\ id \div 256 = q * 256 + b3
    BY SMT, <1>1, <1>7
  <2> HIDE DEF q
  <2> QED
    BY SMT, <1>1, <2>1
<1>9. b2 = (id \div 65536) % 256 /\ b1 = id \div 16777216
  <2> DEFINE q == b1 * 256 + b2
             r == b3 * 256 + b4
             low == b2 * 65536 + r
  <2>1. q \in Nat /\ r \in Nat /\ r < 65536 /\ id = q * 65536 + r
    BY SMT, <1>1, <1>5
  <2>2. low \in Nat /\ low < 16777216 /\ id = b1 * 16777216 + low
    BY SMT, <1>1, <1>5
  <2> HIDE DEF q, r, low
  <2>3. id \div 65536 = q
    BY SMT, <2>1
  <2>4. id \div 16777216 = b1
    BY SMT, <1>1, <2>2
  <2>5. q % 256 = b2
    BY SMT, <1>1 DEF q
  <2> QED
    BY <2>3, <2>4, <2>5
<1>10. Binary(id)[1] = b1 /\ Binary(id)[2] = b2 /\ Binary(id)[3] = b3 /\ Binary(id)[4] = b4
  BY <1>7, <1>8, <1>9 DEF Binary
<1>11. ASSUME NEW j \in 1 .. 4 PROVE b[j] = Binary(id)[j]
  <2>1. j = 1 \/ j = 2 \/ j = 3 \/ j = 4
    OBVIOUS
  <2> QED
    BY <1>10, <2>1 DEF b1, b2, b3, b4
<1>12. IsID(id)
  BY SMT, <1>3, <1>6 DEF IsID, MaxInt32
<1> QED
  BY <1>11, <1>12 DEF id

LEMMA BinaryOnly ==
  ASSUME NEW v \in Seq(Byte), Len(v) = 4, NEW id \in Nat, \A j \in 1 .. 4 : v[j] = Binary(id)[j]
  PROVE  v = Binary(id)
<1>1. v \in [1 .. 4 -> Byte]
  BY LenProperties
<1>2. v = <<v[1], v[2], v[3], v[4]>>
  BY <1>1
<1>3. v[1] = Binary(id)[1] /\ v[2] = Binary(id)[2] /\ v[3] = Binary(id)[3] /\ v[4] = Binary(id)[4]
  OBVIOUS
<1> QED
  BY <1>2, <1>3 DEF Binary

\* Every text of digits stands for a number.
LEMMA ReadsExists ==
  ASSUME NEW v \in Seq(48 .. 57)
  PROVE  \E f : Reads(f, v)
<1> DEFINE N == Len(v)
           Begins(f, n) == /\ f \in [0 .. n -> Nat]
                           /\ f[0] = 0
                           /\ \A k \in 1 .. n : f[k] = 10 * f[k - 1] + (v[k] - 48)
           S == {n \in 0 .. N : \E f : Begins(f, n)}
<1>1. N \in Nat /\ \A n \in 1 .. N : v[n] - 48 \in 0 .. 9
  BY DigitsTyped
<1>2. 0 \in S
  <2> DEFINE f == [k \in 0 .. 0 |-> 0]
  <2>1. Begins(f, 0)
    OBVIOUS
  <2> HIDE DEF Begins
  <2> QED
    BY <1>1, <2>1
<1>3. ASSUME NEW n \in 0 .. N - 1, n \in S PROVE n + 1 \in S
  <2>1. PICK f : Begins(f, n)
    BY <1>3
  <2>2. n \in Nat /\ n + 1 \in 0 .. N /\ n + 1 \in 1 .. N /\ (n + 1) - 1 = n
    BY <1>1
  <2> DEFINE d == v[n + 1] - 48
             g == [k \in 0 .. n + 1 |-> IF k = n + 1 THEN 10 * f[n] + d ELSE f[k]]
  <2>3. d \in Nat /\ f[n] \in Nat
    <3>1. d \in 0 .. 9
      BY <1>1, <2>2
    <3>2. f \in [0 .. n -> Nat] /\ n \in 0 .. n
      BY <2>1, <2>2
    <3> QED
      BY <3>1, <3>2
  <2> HIDE DEF d
  <2>4. g \in [0 .. n + 1 -> Nat] /\ g[0] = 0
    BY <2>1, <2>2, <2>3
  <2>5. ASSUME NEW k \in 1 .. n + 1 PROVE g[k] = 10 * g[k - 1] + (v[k] - 48)
    <3>1. CASE k = n + 1
      BY <2>2, <3>1 DEF d
    <3>2. CASE k # n + 1
      <4>1. k \in 1 .. n /\ k - 1 # n + 1 /\ k \in 0 .. n + 1 /\ k - 1 \in 0 .. n + 1
        BY <2>2, <3>2
      <4>2. g[k] = f[k] /\ g[k - 1] = f[k - 1]
        BY <4>1
      <4> QED
        BY <2>1, <4>1, <4>2
    <3> QED
      BY <3>1, <3>2
  <2> HIDE DEF g
  <2>6. Begins(g, n + 1)
    BY <2>4, <2>5
  <2> HIDE DEF Begins
  <2> QED
    BY <2>2, <2>6
<1>4. 0 .. N \subseteq S
  <2> HIDE DEF S, N
  <2> QED
    BY <1>1, <1>2, <1>3, PositionInduction
<1>5. N \in S
  <2> HIDE DEF S, N
  <2> QED
    BY <1>1, <1>4
<1>6. \E f : Begins(f, N)
  <2> HIDE DEF Begins, N
  <2> QED
    BY <1>5
<1> QED
  BY <1>6 DEF Reads

LEMMA DigitsWritten ==
  ASSUME NEW v \in Seq(48 .. 57), ParseDigits(v) > 0
  PROVE  IsID(ParseDigits(v)) /\ DecimalOf(v, ParseDigits(v))
<1>1. PICK f : Reads(f, v)
  BY ReadsExists
<1>2. f[Len(v)] \in Nat
  BY <1>1, LenProperties DEF Reads
<1>3. ParseDigits(v) = InRange(f[Len(v)])
  BY <1>1, DigitsRead
<1>4. f[Len(v)] <= MaxInt32 /\ ParseDigits(v) = f[Len(v)]
  <2> DEFINE number == f[Len(v)]
             parsed == ParseDigits(v)
  <2>1. number \in Nat /\ parsed = InRange(number) /\ parsed > 0
    BY <1>2, <1>3
  <2> HIDE DEF number, parsed
  <2>2. number <= MaxInt32 /\ parsed = number
    BY SMT, <2>1 DEF InRange, MaxInt32
  <2> QED
    BY <2>2 DEF number, parsed
<1> QED
  BY <1>1, <1>2, <1>4 DEF IsID, DecimalOf

LEMMA TextWritten ==
  ASSUME NEW text \in Seq(Byte), text # << >>, ParseInt(text) > 0
  PROVE  IsID(ParseInt(text)) /\ TextOf(text, ParseInt(text))
<1> DEFINE digits == IF text[1] = 43 THEN Tail(text) ELSE text
<1>1. /\ digits # << >> /\ \A n \in DOMAIN digits : digits[n] \in 48 .. 57
      /\ ParseInt(text) = ParseDigits(digits) /\ ParseDigits(digits) > 0
  <2> DEFINE parses == digits # << >> /\ (\A n \in DOMAIN digits : digits[n] \in 48 .. 57)
                        /\ ParseDigits(digits) > 0
  <2>1. ParseInt(text) = IF parses THEN ParseDigits(digits) ELSE 0
    BY DEF ParseInt
  <2> HIDE DEF parses
  <2>2. parses
    BY <2>1
  <2>3. ParseInt(text) = ParseDigits(digits)
    BY <2>1, <2>2
  <2> QED
    BY <2>2, <2>3 DEF parses
<1>2. digits \in Seq(Byte)
  BY HeadTailProperties
<1>3. text = IF text[1] = 43 THEN <<43>> \o digits ELSE digits
  <2>1. CASE text[1] = 43
    <3> DEFINE w == <<43>> \o Tail(text)
    <3>1. Len(text) \in Nat /\ Len(text) # 0
      BY LenProperties, EmptySeq
    <3>2. /\ Tail(text) \in Seq(Byte) /\ Len(Tail(text)) = Len(text) - 1
          /\ \A n \in 1 .. Len(Tail(text)) : Tail(text)[n] = text[n + 1]
      BY HeadTailProperties
    <3>3. <<43>> \in Seq(Byte) /\ Len(<<43>>) = 1 /\ <<43>>[1] = 43
      BY DEF Byte
    <3>4. /\ w \in Seq(Byte) /\ Len(w) = 1 + Len(Tail(text)) /\ w[1] = 43
          /\ \A n \in 2 .. 1 + Len(Tail(text)) : w[n] = Tail(text)[n - 1]
      BY <3>2, <3>3, ConcatProperties, LenProperties
    <3>5. Len(w) = Len(text)
      BY <3>1, <3>2, <3>4
    <3>6. ASSUME NEW n \in 1 .. Len(text) PROVE w[n] = text[n]
      <4>1. CASE n = 1
        BY <2>1, <3>4, <4>1
      <4>2. CASE n # 1
        <5>1. n \in 2 .. 1 + Len(Tail(text)) /\ n - 1 \in 1 .. Len(Tail(text)) /\ (n - 1) + 1 = n
          BY <3>1, <3>2, <4>2
        <5> QED
          BY <3>2, <3>4, <5>1
      <4> QED
        BY <4>1, <4>2
    <3> HIDE DEF w
    <3>7. w = text
      BY <3>4, <3>5, <3>6, SeqEqual
    <3> QED
      BY <2>1, <3>7 DEF w
  <2> QED
    BY <2>1
<1> HIDE DEF digits
<1>4. digits \in Seq(48 .. 57)
  <2>1. Len(digits) \in Nat /\ digits \in [1 .. Len(digits) -> 48 .. 57]
    BY <1>1, <1>2, LenProperties
  <2> QED
    BY <2>1
<1>5. IsID(ParseDigits(digits)) /\ DecimalOf(digits, ParseDigits(digits))
  BY <1>1, <1>4, DigitsWritten
<1> QED
  BY <1>1, <1>3, <1>5 DEF TextOf

LEMMA FrameWritten ==
  ASSUME NEW data \in Seq(Byte), NEW role, NEW id \in Nat \ {0}, NEW r,
         <<id, r>> \in SchemaIDFromPayload(data, role)
  PROVE  r = role /\ IsID(id) /\ Framed(data, id)
<1> DEFINE b == SubSeq(data, 2, MessageOffset)
<1>1. /\ Len(data) >= MessageOffset /\ data[1] = MagicByte
      /\ id = BigEndian(b) /\ r = role
  BY DEF SchemaIDFromPayload
<1>2. Len(data) \in Nat /\ Len(data) >= 5 /\ \A j \in 1 .. Len(data) : data[j] \in Byte
  BY <1>1, LenProperties, ElementOfSeq DEF MessageOffset
<1>3. ASSUME NEW j \in 1 .. 4 PROVE b[j] = data[j + 1] /\ b[j] \in Byte
  <2>1. 2 \in 1 .. Len(data) + 1 /\ 5 \in 1 .. Len(data)
    BY <1>2
  <2>2. \A k \in 1 .. (5 - 2) + 1 : SubSeq(data, 2, 5)[k] = data[2 + k - 1]
    BY <1>2, <2>1, SubSeqProperties
  <2>3. j \in 1 .. (5 - 2) + 1 /\ 2 + j - 1 = j + 1 /\ j + 1 \in 1 .. Len(data)
    BY <1>2
  <2> QED
    BY <1>2, <2>2, <2>3 DEF MessageOffset
<1> HIDE DEF b
<1>4. IsID(id) /\ \A j \in 1 .. 4 : b[j] = Binary(id)[j]
  BY <1>1, <1>3, BigEndianWritten
<1> QED
  BY <1>1, <1>3, <1>4 DEF Framed

LEMMA HeaderWritten ==
  ASSUME NEW header, header.value \in Seq(Byte), SchemaIDFromHeaderValue(header.value) > 0
  PROVE  /\ IsID(SchemaIDFromHeaderValue(header.value))
         /\ InHeader(header, SchemaIDFromHeaderValue(header.value))
<1> DEFINE v == header.value
           id == SchemaIDFromHeaderValue(v)
<1>1. v # << >>
  BY DEF SchemaIDFromHeaderValue
<1>2. CASE Len(v) = 4
  <2>1. id = BigEndian(v)
    BY <1>1, <1>2 DEF SchemaIDFromHeaderValue
  <2>2. \A j \in 1 .. 4 : v[j] \in Byte
    BY <1>2, LenProperties, ElementOfSeq
  <2>3. IsID(id) /\ \A j \in 1 .. 4 : v[j] = Binary(id)[j]
    <3> HIDE DEF v
    <3>1. BigEndian(v) > 0
      BY <2>1 DEF v
    <3>2. IsID(BigEndian(v)) /\ \A j \in 1 .. 4 : v[j] = Binary(BigEndian(v))[j]
      BY <2>2, <3>1, BigEndianWritten
    <3> QED
      BY <2>1, <3>2
  <2>4. v = Binary(id)
    <3> HIDE DEF v, id
    <3>1. v \in Seq(Byte)
      BY DEF v
    <3> QED
      BY <1>2, <2>3, <3>1, BinaryOnly DEF IsID
  <2> QED
    BY <2>3, <2>4 DEF InHeader
<1>3. CASE Len(v) # 4
  <2>1. id = ParseInt(v)
    BY <1>1, <1>3 DEF SchemaIDFromHeaderValue
  <2>2. IsID(id) /\ TextOf(v, id)
    BY <1>1, <2>1, TextWritten
  <2> QED
    BY <1>3, <2>2 DEF InHeader
<1> QED
  BY <1>2, <1>3

(* And nothing else: an ID that a scan records was carried by a key, a      *)
(* value or a header, in one of these forms and for this role.              *)
THEOREM FoundIsCarried ==
  ASSUME NEW m, m.key \in Seq(Byte), m.value \in Seq(Byte),
         \A n \in DOMAIN m.headers : m.headers[n].value \in Seq(Byte),
         NEW id \in Nat \ {0}, NEW role, <<id, role>> \in UsesOfMessage(m)
  PROVE  IsID(id) /\ Carries(m, id, role)
<1>1. CASE <<id, role>> \in SchemaIDFromPayload(m.key, "key")
  BY <1>1, FrameWritten DEF Carries
<1>2. CASE <<id, role>> \in SchemaIDFromPayload(m.value, "value")
  BY <1>2, FrameWritten DEF Carries
<1>3. CASE <<id, role>> \in SchemaIDsFromHeaders(m.headers)
  <2>1. PICK n \in DOMAIN m.headers :
          /\ SchemaIDFromHeaderValue(m.headers[n].value) > 0
          /\ <<id, role>> \in {<<SchemaIDFromHeaderValue(m.headers[n].value), r>> :
                                 r \in RoleOfHeader(m.headers[n].name)}
    BY <1>3 DEF SchemaIDsFromHeaders
  <2>2. id = SchemaIDFromHeaderValue(m.headers[n].value) /\ role \in RoleOfHeader(m.headers[n].name)
    BY <2>1
  <2>3. IsID(id) /\ InHeader(m.headers[n], id)
    BY <2>1, <2>2, HeaderWritten
  <2> QED
    BY <2>2, <2>3 DEF Carries
<1> QED
  BY <1>1, <1>2, <1>3 DEF UsesOfMessage
=============================================================================
