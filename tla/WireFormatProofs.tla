-------------------------- MODULE WireFormatProofs --------------------------
(***************************************************************************)
(* Proofs about WireFormat, for every base of the digits above the largest *)
(* message tag, 256 in the code.  A number that was written is read back   *)
(* but for the multiples of its width that do not fit (ReadsBack); a base  *)
(* message is read back field by field, whatever follows it                *)
(* (BaseMessageReadsBack); and so is the time in a TIME's answer, sign     *)
(* included (LatencyReadsBack).                                            *)
(*                                                                         *)
(* Division is by constants that the provers do not know, so what it gives *)
(* is taken from the quotient and the remainder: n = d * q + r with r < d  *)
(* says what n \div d and n % d are (Quotient), and digits are remainders  *)
(* of quotients (DivDiv).                                                  *)
(***************************************************************************)
EXTENDS WireFormat, SequenceTheorems, TLAPS

\* What fits is appended.
LEMMA WriteAppends ==
  ASSUME NEW S, NEW d \in Seq(S), NEW f \in Seq(S), NEW s \in Nat, ~(s - Len(d) < Len(f))
  PROVE  BufferWrite([data |-> d, size |-> s, result |-> 0], f)
           = [data |-> d \o f, size |-> s, result |-> 0]
BY DEF BufferWrite

\* A byte takes at least seven values.
LEMMA ByteFacts == Byte \in Nat \ {0} /\ Byte > 6
BY ByteAssumption DEF STREAM_TAGS

-----------------------------------------------------------------------------
(* Numbers and digits.                                                     *)

\* Division with remainder.
LEMMA DivMod ==
  ASSUME NEW d \in Nat \ {0}, NEW n \in Int
  PROVE  n \div d \in Int /\ n % d \in 0 .. d - 1 /\ n = d * (n \div d) + (n % d)
<1>1. n = d * (n \div d) + (n % d)
  OBVIOUS
<1> QED
  BY <1>1

\* A quotient and a remainder that fit are the ones.
LEMMA Quotient ==
  ASSUME NEW d \in Nat \ {0}, NEW n \in Int, NEW q \in Int, NEW r \in 0 .. d - 1, n = d * q + r
  PROVE  n \div d = q /\ n % d = r
<1>1. n \div d = q
  OBVIOUS
<1>2. n = d * (n \div d) + (n % d)
  BY DivMod
<1>3. n % d \in 0 .. d - 1
  OBVIOUS
<1>4. PICK s \in 0 .. d - 1 : s = n % d
  BY <1>3
<1> QED
  BY <1>1, <1>2, <1>4

\* Dividing twice.
LEMMA DivDiv ==
  ASSUME NEW a \in Nat \ {0}, NEW b \in Nat \ {0}, NEW n \in Int
  PROVE  a * b \in Nat \ {0} /\ n \div (a * b) = (n \div a) \div b
<1>1. a * b \in Nat \ {0}
  OBVIOUS
<1>2. PICK q \in Int, r \in 0 .. a - 1 : n \div a = q /\ n = a * q + r
  OBVIOUS
<1>3. PICK p \in Int, s \in 0 .. b - 1 : q \div b = p /\ q = b * p + s
  OBVIOUS
<1>4. a * s + r \in 0 .. a * b - 1
  <2>1. a * s >= 0 /\ a * s <= a * (b - 1)
    OBVIOUS
  <2>2. a * (b - 1) = a * b - a
    OBVIOUS
  <2> QED
    BY <2>1, <2>2
<1>5. n = (a * b) * p + (a * s + r)
  BY <1>2, <1>3
<1>6. n \div (a * b) = p
  BY <1>1, <1>4, <1>5, Quotient
<1> QED
  BY <1>1, <1>2, <1>3, <1>6

\* A product with a sum, which the provers do not multiply out on their own.
LEMMA Nested ==
  ASSUME NEW x \in Int, NEW y \in Int, NEW q \in Int, NEW r \in Int
  PROVE  x * (y * q + r) = (x * y) * q + x * r
OBVIOUS

\* The digits of any whole number add up to it, but for what does not fit.
LEMMA DigitsAddUp ==
  ASSUME NEW n \in Int
  PROVE  \E a, b, c, d \in 0 .. Byte - 1 : \E p, q \in Int :
           /\ (n \div Weight[1]) % Byte = a /\ (n \div Weight[2]) % Byte = b
           /\ (n \div Weight[3]) % Byte = c /\ (n \div Weight[4]) % Byte = d
           /\ n = Byte * Byte * p + (a + Byte * b)
           /\ n = Word32 * q + (a + Byte * b + Byte * Byte * c + Byte * Byte * Byte * d)
<1> USE ByteFacts
<1>1. PICK q1 \in Int, a \in 0 .. Byte - 1 : q1 = n \div Byte /\ a = n % Byte /\ n = Byte * q1 + a
  BY DivMod
<1>2. PICK q2 \in Int, b \in 0 .. Byte - 1 : q2 = q1 \div Byte /\ b = q1 % Byte /\ q1 = Byte * q2 + b
  BY DivMod
<1>3. PICK q3 \in Int, c \in 0 .. Byte - 1 : q3 = q2 \div Byte /\ c = q2 % Byte /\ q2 = Byte * q3 + c
  BY DivMod
<1>4. PICK q4 \in Int, d \in 0 .. Byte - 1 : q4 = q3 \div Byte /\ d = q3 % Byte /\ q3 = Byte * q4 + d
  BY DivMod
<1>5. n \div 1 = n
  OBVIOUS
<1>6. n \div (Byte * Byte) = q2 /\ Byte * Byte \in Nat \ {0}
  BY <1>1, <1>2, DivDiv
<1>7. n \div (Byte * Byte * Byte) = q3
  BY <1>3, <1>6, DivDiv
<1>8. Weight[1] = 1 /\ Weight[2] = Byte /\ Weight[3] = Byte * Byte /\ Weight[4] = Byte * Byte * Byte
  BY DEF Weight
<1>9. n = Byte * Byte * q2 + (a + Byte * b)
  <2>1. Byte * (Byte * q2 + b) = (Byte * Byte) * q2 + Byte * b
    BY Nested
  <2>2. Byte * q1 = (Byte * Byte) * q2 + Byte * b
    BY <1>2, <2>1, Zenon
  <2> QED
    BY <1>1, <2>2
<1>10. n = Word32 * q4 + (a + Byte * b + Byte * Byte * c + Byte * Byte * Byte * d)
  <2>1. PICK B2 \in Int, B3 \in Int : B2 = Byte * Byte /\ B3 = B2 * Byte
    OBVIOUS
  <2>2. B2 * (Byte * q3 + c) = (B2 * Byte) * q3 + B2 * c
    BY Nested
  <2>3. B3 * (Byte * q4 + d) = (B3 * Byte) * q4 + B3 * d
    BY Nested
  <2>4. B2 * q2 = B3 * q3 + B2 * c
    BY <1>3, <2>1, <2>2, Zenon
  <2>5. B3 * q3 = (B3 * Byte) * q4 + B3 * d
    BY <1>4, <2>3, Zenon
  <2>6. n = B2 * q2 + (a + Byte * b)
    BY <1>9, <2>1
  <2>7. n = (B3 * Byte) * q4 + (a + Byte * b + B2 * c + B3 * d)
    BY <2>4, <2>5, <2>6
  <2>8. Word32 = B3 * Byte
    BY <2>1 DEF Word32
  <2> QED
    BY <2>1, <2>7, <2>8
<1>11. /\ (n \div Weight[1]) % Byte = a /\ (n \div Weight[2]) % Byte = b
       /\ (n \div Weight[3]) % Byte = c /\ (n \div Weight[4]) % Byte = d
  BY <1>1, <1>2, <1>3, <1>4, <1>5, <1>6, <1>7, <1>8
<1> WITNESS a \in 0 .. Byte - 1, b \in 0 .. Byte - 1, c \in 0 .. Byte - 1, d \in 0 .. Byte - 1
<1> WITNESS q2 \in Int, q4 \in Int
<1> QED
  BY <1>9, <1>10, <1>11

\* Reading what was written.
LEMMA ReadsBack ==
  ASSUME NEW n \in Int, NEW data, NEW at \in Nat
  PROVE  /\ (\A i \in 1 .. 2 : data[at + i - 1] = Digits(2, n)[i]) => Number(2, data, at) = n % (Byte * Byte)
         /\ (\A i \in 1 .. 4 : data[at + i - 1] = Digits(4, n)[i]) => Number(4, data, at) = n % Word32
<1> USE ByteFacts
<1>1. PICK a \in 0 .. Byte - 1, b \in 0 .. Byte - 1, c \in 0 .. Byte - 1, d \in 0 .. Byte - 1 :
        \E p, q \in Int :
           /\ (n \div Weight[1]) % Byte = a /\ (n \div Weight[2]) % Byte = b
           /\ (n \div Weight[3]) % Byte = c /\ (n \div Weight[4]) % Byte = d
           /\ n = Byte * Byte * p + (a + Byte * b)
           /\ n = Word32 * q + (a + Byte * b + Byte * Byte * c + Byte * Byte * Byte * d)
  BY DigitsAddUp
<1>2. PICK p \in Int, q \in Int :
           /\ (n \div Weight[1]) % Byte = a /\ (n \div Weight[2]) % Byte = b
           /\ (n \div Weight[3]) % Byte = c /\ (n \div Weight[4]) % Byte = d
           /\ n = Byte * Byte * p + (a + Byte * b)
           /\ n = Word32 * q + (a + Byte * b + Byte * Byte * c + Byte * Byte * Byte * d)
  BY <1>1
<1>3. Weight[1] = 1 /\ Weight[2] = Byte /\ Weight[3] = Byte * Byte /\ Weight[4] = Byte * Byte * Byte
  BY DEF Weight
<1>4. ASSUME \A i \in 1 .. 2 : data[at + i - 1] = Digits(2, n)[i]
      PROVE  Number(2, data, at) = n % (Byte * Byte)
  <2>1. data[at] = a /\ data[at + 1] = b
    BY <1>2, <1>4 DEF Digits
  <2>2. Number(2, data, at) = a + Byte * b
    BY <1>3, <2>1 DEF Number
  <2>3. Byte * Byte \in Nat \ {0} /\ a + Byte * b \in 0 .. Byte * Byte - 1
    <3>1. Byte * b <= Byte * (Byte - 1) /\ Byte * b >= 0 /\ Byte * (Byte - 1) = Byte * Byte - Byte
      OBVIOUS
    <3> QED
      BY <3>1
  <2>4. PICK s \in Int : s = a + Byte * b
    OBVIOUS
  <2>5. n = (Byte * Byte) * p + s
    BY <1>2, <2>4
  <2> QED
    BY <2>2, <2>3, <2>4, <2>5, Quotient
<1>5. ASSUME \A i \in 1 .. 4 : data[at + i - 1] = Digits(4, n)[i]
      PROVE  Number(4, data, at) = n % Word32
  <2>1. data[at] = a /\ data[at + 1] = b /\ data[at + 2] = c /\ data[at + 3] = d
    BY <1>2, <1>5 DEF Digits
  <2> DEFINE s == a + Byte * b + Byte * Byte * c + Byte * Byte * Byte * d
  <2>2. Number(4, data, at) = s
    BY <1>3, <2>1 DEF Number
  <2>3. Word32 \in Nat \ {0} /\ s \in 0 .. Word32 - 1
    <3>1. Byte * b <= Byte * (Byte - 1) /\ Byte * b >= 0 /\ Byte * (Byte - 1) = Byte * Byte - Byte
      OBVIOUS
    <3>2. PICK B2 \in Nat : B2 = Byte * Byte /\ B2 > 0
      OBVIOUS
    <3>3. B2 * c <= B2 * (Byte - 1) /\ B2 * c >= 0 /\ B2 * (Byte - 1) = B2 * Byte - B2
      OBVIOUS
    <3>4. PICK B3 \in Nat : B3 = B2 * Byte /\ B3 > 0
      BY <3>2
    <3>5. B3 * d <= B3 * (Byte - 1) /\ B3 * d >= 0 /\ B3 * (Byte - 1) = B3 * Byte - B3
      OBVIOUS
    <3>6. s = a + Byte * b + B2 * c + B3 * d /\ Word32 = B3 * Byte
      BY <3>2, <3>4 DEF Word32
    <3>7. B3 * Byte \in Nat \ {0}
      BY <3>4
    <3> QED
      BY <3>1, <3>2, <3>3, <3>4, <3>5, <3>6, <3>7
  <2> HIDE DEF s
  <2>4. n = Word32 * q + s
    BY <1>2 DEF s
  <2> QED
    BY <2>2, <2>3, <2>4, Quotient
<1> QED
  BY <1>4, <1>5

\* Digits are bytes.
LEMMA FunctionIsSeq ==
  ASSUME NEW S, NEW m \in Nat, NEW f \in [1 .. m -> S]
  PROVE  f \in Seq(S) /\ Len(f) = m
OBVIOUS

\* What the messages are made of.
Bytes == 0 .. Byte - 1

\* The digits of a number are as many bytes as its field is wide.
LEMMA DigitsType ==
  ASSUME NEW width \in {2, 4}, NEW n \in Int
  PROVE  Digits(width, n) \in Seq(Bytes) /\ Len(Digits(width, n)) = width
<1> USE ByteFacts
<1>1. \A i \in 1 .. 4 : Weight[i] \in Nat \ {0}
  BY DEF Weight
<1>2. ASSUME NEW i \in 1 .. width PROVE (n \div Weight[i]) % Byte \in Bytes
  <2>1. PICK w \in Nat \ {0} : w = Weight[i]
    BY <1>1
  <2>2. PICK q \in Int : q = n \div w
    BY DivMod
  <2> QED
    BY <2>1, <2>2, DivMod DEF Bytes
<1>4. Digits(width, n) \in [1 .. width -> Bytes]
  BY <1>2 DEF Digits
<1>5. width \in Nat
  OBVIOUS
<1> QED
  BY <1>4, <1>5, FunctionIsSeq

-----------------------------------------------------------------------------
(* The cursor and the base message.                                        *)

\* What has been written stays, and what is written comes behind it.
LEMMA Behind ==
  ASSUME NEW d \in Seq(Bytes), NEW e \in Seq(Bytes)
  PROVE  /\ d \o e \in Seq(Bytes) /\ Len(d \o e) = Len(d) + Len(e)
         /\ \A i \in 1 .. Len(d) : (d \o e)[i] = d[i]
         /\ \A i \in 1 .. Len(e) : (d \o e)[Len(d) + i] = e[i]
OBVIOUS

\* A base message that is being serialized, d so far.
Buffer(d) == [data |-> d, size |-> BaseMessageSize, result |-> 0]

\* A field for which the buffer has room goes behind the earlier ones.
LEMMA FieldFits ==
  ASSUME NEW d \in Seq(Bytes), NEW f \in Seq(Bytes), Len(d) + Len(f) <= 26
  PROVE  /\ d \o f \in Seq(Bytes) /\ Len(d \o f) = Len(d) + Len(f)
         /\ \A i \in 1 .. Len(d) : (d \o f)[i] = d[i]
         /\ \A i \in 1 .. Len(f) : (d \o f)[Len(d) + i] = f[i]
         /\ BufferWrite(Buffer(d), f) = Buffer(d \o f)
<1>1. ~(BaseMessageSize - Len(d) < Len(f)) /\ BaseMessageSize \in Nat
  BY LenProperties DEF BaseMessageSize
<1>2. BufferWrite(Buffer(d), f) = Buffer(d \o f)
  BY <1>1, WriteAppends DEF Buffer
<1> QED
  BY <1>2, Behind

\* The numbers of a base message.
BaseNumbers(msg) ==
  /\ msg.type \in Int /\ msg.id \in Int /\ msg.refersTo \in Int
  /\ msg.sent.sec \in Int /\ msg.sent.usec \in Int
  /\ msg.received.sec \in Int /\ msg.received.usec \in Int /\ msg.size \in Int

\* A serialized base message is its fields, each at its place.
LEMMA BaseBytesAre ==
  ASSUME NEW msg, BaseNumbers(msg)
  PROVE  LET data == BaseMessageSerialize(msg, BaseMessageSize)
         IN  /\ data \in Seq(Bytes) /\ Len(data) = BaseMessageSize
             /\ \A i \in 1 .. 2 : data[0 + i] = Digits(2, msg.type)[i]
             /\ \A i \in 1 .. 2 : data[2 + i] = Digits(2, msg.id)[i]
             /\ \A i \in 1 .. 2 : data[4 + i] = Digits(2, msg.refersTo)[i]
             /\ \A i \in 1 .. 4 : data[6 + i] = Digits(4, msg.sent.sec)[i]
             /\ \A i \in 1 .. 4 : data[10 + i] = Digits(4, msg.sent.usec)[i]
             /\ \A i \in 1 .. 4 : data[22 + i] = Digits(4, msg.size)[i]
<1> DEFINE f1 == Digits(2, msg.type)          d1 == << >> \o f1
           f2 == Digits(2, msg.id)            d2 == d1 \o f2
           f3 == Digits(2, msg.refersTo)      d3 == d2 \o f3
           f4 == Digits(4, msg.sent.sec)      d4 == d3 \o f4
           f5 == Digits(4, msg.sent.usec)     d5 == d4 \o f5
           f6 == Digits(4, msg.received.sec)  d6 == d5 \o f6
           f7 == Digits(4, msg.received.usec) d7 == d6 \o f7
           f8 == Digits(4, msg.size)          d8 == d7 \o f8
<1>f. /\ \A f \in {f1, f2, f3} : f \in Seq(Bytes) /\ Len(f) = 2
      /\ \A f \in {f4, f5, f6, f7, f8} : f \in Seq(Bytes) /\ Len(f) = 4
  BY DigitsType DEF BaseNumbers
<1> HIDE DEF f1, f2, f3, f4, f5, f6, f7, f8
<1>0. << >> \in Seq(Bytes) /\ Len(<< >>) = 0
  BY EmptySeq
<1>1. /\ d1 \in Seq(Bytes) /\ Len(d1) = 2
      /\ \A i \in 1 .. 0 : d1[i] = << >>[i]
      /\ \A i \in 1 .. 2 : d1[0 + i] = f1[i]
      /\ BufferWrite(Buffer(<< >>), f1) = Buffer(d1)
  <2>1. << >> \in Seq(Bytes) /\ Len(<< >>) = 0 /\ f1 \in Seq(Bytes) /\ Len(f1) = 2
    BY <1>f, <1>0
  <2>2. Len(<< >>) + Len(f1) <= 26
    BY <2>1
  <2>3. /\ d1 \in Seq(Bytes) /\ Len(d1) = Len(<< >>) + Len(f1)
        /\ \A i \in 1 .. Len(<< >>) : d1[i] = << >>[i]
        /\ \A i \in 1 .. Len(f1) : d1[Len(<< >>) + i] = f1[i]
        /\ BufferWrite(Buffer(<< >>), f1) = Buffer(d1)
    BY <2>1, <2>2, FieldFits, Zenon
  <2> QED
    BY <2>1, <2>3, 0 + 2 = 2, Zenon
<1> HIDE DEF d1
<1>2. /\ d2 \in Seq(Bytes) /\ Len(d2) = 4
      /\ \A i \in 1 .. 2 : d2[i] = d1[i]
      /\ \A i \in 1 .. 2 : d2[2 + i] = f2[i]
      /\ BufferWrite(Buffer(d1), f2) = Buffer(d2)
  <2>1. d1 \in Seq(Bytes) /\ Len(d1) = 2 /\ f2 \in Seq(Bytes) /\ Len(f2) = 2
    BY <1>f, <1>1
  <2>2. Len(d1) + Len(f2) <= 26
    BY <2>1
  <2>3. /\ d2 \in Seq(Bytes) /\ Len(d2) = Len(d1) + Len(f2)
        /\ \A i \in 1 .. Len(d1) : d2[i] = d1[i]
        /\ \A i \in 1 .. Len(f2) : d2[Len(d1) + i] = f2[i]
        /\ BufferWrite(Buffer(d1), f2) = Buffer(d2)
    BY <2>1, <2>2, FieldFits, Zenon
  <2> QED
    BY <2>1, <2>3, 2 + 2 = 4, Zenon
<1> HIDE DEF d2
<1>3. /\ d3 \in Seq(Bytes) /\ Len(d3) = 6
      /\ \A i \in 1 .. 4 : d3[i] = d2[i]
      /\ \A i \in 1 .. 2 : d3[4 + i] = f3[i]
      /\ BufferWrite(Buffer(d2), f3) = Buffer(d3)
  <2>1. d2 \in Seq(Bytes) /\ Len(d2) = 4 /\ f3 \in Seq(Bytes) /\ Len(f3) = 2
    BY <1>f, <1>2
  <2>2. Len(d2) + Len(f3) <= 26
    BY <2>1
  <2>3. /\ d3 \in Seq(Bytes) /\ Len(d3) = Len(d2) + Len(f3)
        /\ \A i \in 1 .. Len(d2) : d3[i] = d2[i]
        /\ \A i \in 1 .. Len(f3) : d3[Len(d2) + i] = f3[i]
        /\ BufferWrite(Buffer(d2), f3) = Buffer(d3)
    BY <2>1, <2>2, FieldFits, Zenon
  <2> QED
    BY <2>1, <2>3, 4 + 2 = 6, Zenon
<1> HIDE DEF d3
<1>4. /\ d4 \in Seq(Bytes) /\ Len(d4) = 10
      /\ \A i \in 1 .. 6 : d4[i] = d3[i]
      /\ \A i \in 1 .. 4 : d4[6 + i] = f4[i]
      /\ BufferWrite(Buffer(d3), f4) = Buffer(d4)
  <2>1. d3 \in Seq(Bytes) /\ Len(d3) = 6 /\ f4 \in Seq(Bytes) /\ Len(f4) = 4
    BY <1>f, <1>3
  <2>2. Len(d3) + Len(f4) <= 26
    BY <2>1
  <2>3. /\ d4 \in Seq(Bytes) /\ Len(d4) = Len(d3) + Len(f4)
        /\ \A i \in 1 .. Len(d3) : d4[i] = d3[i]
        /\ \A i \in 1 .. Len(f4) : d4[Len(d3) + i] = f4[i]
        /\ BufferWrite(Buffer(d3), f4) = Buffer(d4)
    BY <2>1, <2>2, FieldFits, Zenon
  <2> QED
    BY <2>1, <2>3, 6 + 4 = 10, Zenon
<1> HIDE DEF d4
<1>5. /\ d5 \in Seq(Bytes) /\ Len(d5) = 14
      /\ \A i \in 1 .. 10 : d5[i] = d4[i]
      /\ \A i \in 1 .. 4 : d5[10 + i] = f5[i]
      /\ BufferWrite(Buffer(d4), f5) = Buffer(d5)
  <2>1. d4 \in Seq(Bytes) /\ Len(d4) = 10 /\ f5 \in Seq(Bytes) /\ Len(f5) = 4
    BY <1>f, <1>4
  <2>2. Len(d4) + Len(f5) <= 26
    BY <2>1
  <2>3. /\ d5 \in Seq(Bytes) /\ Len(d5) = Len(d4) + Len(f5)
        /\ \A i \in 1 .. Len(d4) : d5[i] = d4[i]
        /\ \A i \in 1 .. Len(f5) : d5[Len(d4) + i] = f5[i]
        /\ BufferWrite(Buffer(d4), f5) = Buffer(d5)
    BY <2>1, <2>2, FieldFits, Zenon
  <2> QED
    BY <2>1, <2>3, 10 + 4 = 14, Zenon
<1> HIDE DEF d5
<1>6. /\ d6 \in Seq(Bytes) /\ Len(d6) = 18
      /\ \A i \in 1 .. 14 : d6[i] = d5[i]
      /\ \A i \in 1 .. 4 : d6[14 + i] = f6[i]
      /\ BufferWrite(Buffer(d5), f6) = Buffer(d6)
  <2>1. d5 \in Seq(Bytes) /\ Len(d5) = 14 /\ f6 \in Seq(Bytes) /\ Len(f6) = 4
    BY <1>f, <1>5
  <2>2. Len(d5) + Len(f6) <= 26
    BY <2>1
  <2>3. /\ d6 \in Seq(Bytes) /\ Len(d6) = Len(d5) + Len(f6)
        /\ \A i \in 1 .. Len(d5) : d6[i] = d5[i]
        /\ \A i \in 1 .. Len(f6) : d6[Len(d5) + i] = f6[i]
        /\ BufferWrite(Buffer(d5), f6) = Buffer(d6)
    BY <2>1, <2>2, FieldFits, Zenon
  <2> QED
    BY <2>1, <2>3, 14 + 4 = 18, Zenon
<1> HIDE DEF d6
<1>7. /\ d7 \in Seq(Bytes) /\ Len(d7) = 22
      /\ \A i \in 1 .. 18 : d7[i] = d6[i]
      /\ \A i \in 1 .. 4 : d7[18 + i] = f7[i]
      /\ BufferWrite(Buffer(d6), f7) = Buffer(d7)
  <2>1. d6 \in Seq(Bytes) /\ Len(d6) = 18 /\ f7 \in Seq(Bytes) /\ Len(f7) = 4
    BY <1>f, <1>6
  <2>2. Len(d6) + Len(f7) <= 26
    BY <2>1
  <2>3. /\ d7 \in Seq(Bytes) /\ Len(d7) = Len(d6) + Len(f7)
        /\ \A i \in 1 .. Len(d6) : d7[i] = d6[i]
        /\ \A i \in 1 .. Len(f7) : d7[Len(d6) + i] = f7[i]
        /\ BufferWrite(Buffer(d6), f7) = Buffer(d7)
    BY <2>1, <2>2, FieldFits, Zenon
  <2> QED
    BY <2>1, <2>3, 18 + 4 = 22, Zenon
<1> HIDE DEF d7
<1>8. /\ d8 \in Seq(Bytes) /\ Len(d8) = 26
      /\ \A i \in 1 .. 22 : d8[i] = d7[i]
      /\ \A i \in 1 .. 4 : d8[22 + i] = f8[i]
      /\ BufferWrite(Buffer(d7), f8) = Buffer(d8)
  <2>1. d7 \in Seq(Bytes) /\ Len(d7) = 22 /\ f8 \in Seq(Bytes) /\ Len(f8) = 4
    BY <1>f, <1>7
  <2>2. Len(d7) + Len(f8) <= 26
    BY <2>1
  <2>3. /\ d8 \in Seq(Bytes) /\ Len(d8) = Len(d7) + Len(f8)
        /\ \A i \in 1 .. Len(d7) : d8[i] = d7[i]
        /\ \A i \in 1 .. Len(f8) : d8[Len(d7) + i] = f8[i]
        /\ BufferWrite(Buffer(d7), f8) = Buffer(d8)
    BY <2>1, <2>2, FieldFits, Zenon
  <2> QED
    BY <2>1, <2>3, 22 + 4 = 26, Zenon
<1> HIDE DEF d8
<1>9. BaseMessageSerialize(msg, BaseMessageSize) = d8
  <2> DEFINE b0 == BufferWriteInit(BaseMessageSize)
             b1 == BufferWrite(b0, f1)
             b2 == BufferWrite(b1, f2)
             b3 == BufferWrite(b2, f3)
             b4 == BufferWrite(b3, f4)
             b5 == BufferWrite(b4, f5)
             b6 == BufferWrite(b5, f6)
             b7 == BufferWrite(b6, f7)
             b8 == BufferWrite(b7, f8)
  <2>1. BaseMessageSerialize(msg, BaseMessageSize) = b8.data
    BY DEF BaseMessageSerialize, Put, f1, f2, f3, f4, f5, f6, f7, f8
  <2>2. b0 = Buffer(<< >>)
    BY DEF BufferWriteInit, Buffer
  <2> HIDE DEF b0
  <2>3. b4 = Buffer(d4)
    BY <1>1, <1>2, <1>3, <1>4, <2>2, Zenon
  <2> HIDE DEF b4
  <2>4. b8 = Buffer(d8)
    BY <1>5, <1>6, <1>7, <1>8, <2>3, Zenon
  <2> QED
    BY <2>1, <2>4 DEF Buffer
<1>10. \A i \in 1 .. 18 : d8[i] = d6[i]
  <2>1. \A i \in 1 .. 22 : d8[i] = d7[i]
    BY <1>8
  <2>2. \A i \in 1 .. 18 : d7[i] = d6[i]
    BY <1>7
  <2> QED
    BY <2>1, <2>2
<1>11. \A i \in 1 .. 14 : d8[i] = d5[i]
  BY <1>6, <1>10
<1>12. \A i \in 1 .. 10 : d8[i] = d4[i]
  BY <1>5, <1>11
<1>13. \A i \in 1 .. 6 : d8[i] = d3[i]
  BY <1>4, <1>12
<1>14. \A i \in 1 .. 4 : d8[i] = d2[i]
  BY <1>3, <1>13
<1>15. \A i \in 1 .. 2 : d8[i] = d1[i]
  BY <1>2, <1>14
<1>16. \A i \in 1 .. 2 : d8[0 + i] = f1[i] /\ d8[2 + i] = f2[i]
  BY <1>1, <1>2, <1>14, <1>15
<1>17. \A i \in 1 .. 2 : d8[4 + i] = f3[i]
  BY <1>3, <1>13
<1>18. \A i \in 1 .. 4 : d8[6 + i] = f4[i]
  BY <1>4, <1>12
<1>19. \A i \in 1 .. 4 : d8[10 + i] = f5[i]
  BY <1>5, <1>11
<1> QED
  BY <1>8, <1>9, <1>16, <1>17, <1>18, <1>19 DEF BaseMessageSize, f1, f2, f3, f4, f5, f6, f7, f8

-----------------------------------------------------------------------------
(* Reading a message.                                                      *)

\* A number that an int32_t holds survives being written and read.
LEMMA SignedReadsBack ==
  ASSUME NEW n \in Int, - Word32 <= 2 * n, 2 * n < Word32
  PROVE  Signed(n % Word32) = n
<1>1. PICK w \in Nat \ {0} : w = Word32
  BY ByteFacts DEF Word32
<1>2. CASE n >= 0
  <2>1. n % w = n
    BY <1>1, <1>2
  <2> QED
    BY <1>1, <2>1 DEF Signed
<1>3. CASE n < 0
  <2>1. n = w * (-1) + (n + w) /\ n + w \in 0 .. w - 1
    BY <1>1, <1>3
  <2>2. n % w = n + w
    BY <2>1, Quotient
  <2> QED
    BY <1>1, <1>3, <2>2 DEF Signed
<1> QED
  BY <1>2, <1>3

\* A base message as it is read again: each number as far as its field holds it.
BaseRead(msg, now) ==
  [type |-> msg.type % (Byte * Byte), id |-> msg.id % (Byte * Byte),
   refersTo |-> msg.refersTo % (Byte * Byte),
   sent |-> [sec |-> Signed(msg.sent.sec % Word32), usec |-> Signed(msg.sent.usec % Word32)],
   received |-> now,
   size |-> msg.size % Word32]

\* deserialize_base_msg gives back what base_message_serialize wrote, whatever follows it.
THEOREM BaseMessageReadsBack ==
  ASSUME NEW msg, BaseNumbers(msg), NEW now, NEW body \in Seq(Bytes)
  PROVE  DeserializeBaseMsg(BaseMessageSerialize(msg, BaseMessageSize) \o body, now)
           = BaseRead(msg, now)
<1> DEFINE data == BaseMessageSerialize(msg, BaseMessageSize)
           all == data \o body
<1>1. /\ data \in Seq(Bytes) /\ Len(data) = 26
      /\ \A i \in 1 .. 2 : data[0 + i] = Digits(2, msg.type)[i]
      /\ \A i \in 1 .. 2 : data[2 + i] = Digits(2, msg.id)[i]
      /\ \A i \in 1 .. 2 : data[4 + i] = Digits(2, msg.refersTo)[i]
      /\ \A i \in 1 .. 4 : data[6 + i] = Digits(4, msg.sent.sec)[i]
      /\ \A i \in 1 .. 4 : data[10 + i] = Digits(4, msg.sent.usec)[i]
      /\ \A i \in 1 .. 4 : data[22 + i] = Digits(4, msg.size)[i]
  BY BaseBytesAre DEF BaseMessageSize
<1> HIDE DEF data
<1>2. \A i \in 1 .. 26 : all[i] = data[i]
  <2>1. \A i \in 1 .. Len(data) : all[i] = data[i]
    BY <1>1, Behind, Zenon
  <2> QED
    BY <1>1, <2>1
<1> HIDE DEF all
<1>3. ASSUME NEW at \in {0, 2, 4}, NEW n \in Int, \A i \in 1 .. 2 : data[at + i] = Digits(2, n)[i]
      PROVE  Number(2, all, at + 1) = n % (Byte * Byte)
  <2>0. PICK m \in Nat : m = at + 1
    OBVIOUS
  <2>1. \A i \in 1 .. 2 : all[m + i - 1] = Digits(2, n)[i]
    <3> TAKE i \in 1 .. 2
    <3>1. m + i - 1 = at + i /\ at + i \in 1 .. 26
      BY <2>0
    <3> QED
      BY <1>2, <1>3, <3>1
  <2> QED
    BY <2>0, <2>1, ReadsBack, Zenon
<1>4. ASSUME NEW at \in {6, 10, 22}, NEW n \in Int, \A i \in 1 .. 4 : data[at + i] = Digits(4, n)[i]
      PROVE  Number(4, all, at + 1) = n % Word32
  <2>0. PICK m \in Nat : m = at + 1
    OBVIOUS
  <2>1. \A i \in 1 .. 4 : all[m + i - 1] = Digits(4, n)[i]
    <3> TAKE i \in 1 .. 4
    <3>1. m + i - 1 = at + i /\ at + i \in 1 .. 26
      BY <2>0
    <3> QED
      BY <1>2, <1>4, <3>1
  <2> QED
    BY <2>0, <2>1, ReadsBack, Zenon
<1>5. /\ Number(2, all, 0 + 1) = msg.type % (Byte * Byte)
      /\ Number(2, all, 2 + 1) = msg.id % (Byte * Byte)
      /\ Number(2, all, 4 + 1) = msg.refersTo % (Byte * Byte)
  BY <1>1, <1>3 DEF BaseNumbers
<1>6. /\ Number(4, all, 6 + 1) = msg.sent.sec % Word32
      /\ Number(4, all, 10 + 1) = msg.sent.usec % Word32
      /\ Number(4, all, 22 + 1) = msg.size % Word32
  BY <1>1, <1>4 DEF BaseNumbers
<1>7. 0 + 1 = 1 /\ 2 + 1 = 3 /\ 4 + 1 = 5 /\ 6 + 1 = 7 /\ 10 + 1 = 11 /\ 22 + 1 = 23
  OBVIOUS
<1> QED
  BY <1>5, <1>6, <1>7, Zenon DEF DeserializeBaseMsg, BaseRead, data, all

\* Message m, whose base message reads as head.
Carries(m, head, type, refersTo, body) ==
  /\ m \in Seq(Bytes) /\ Len(m) = BaseMessageSize + Len(body)
  /\ Number(2, m, 1) = type % (Byte * Byte)
  /\ head.type = type % (Byte * Byte) /\ head.refersTo = refersTo % (Byte * Byte)
  /\ head.size = Len(body) % Word32
  /\ Len(SubSeq(m, 1, BaseMessageSize)) = BaseMessageSize
  /\ SubSeq(m, 1, BaseMessageSize)[1] = type % Byte
  /\ SubSeq(m, BaseMessageSize + 1, Len(m)) = body

\* A message of the server: a base message that announces the body, and the body.
LEMMA MessageIs ==
  ASSUME NEW type \in Int, NEW id \in Int, NEW refersTo \in Int, NEW now,
         now.sec \in Int, now.usec \in Int, NEW body \in Seq(Bytes), NEW at
  PROVE  LET m == Message(type, id, refersTo, now, body)
         IN  Carries(m, DeserializeBaseMsg(m, at), type, refersTo, body)
<1> DEFINE msg == [type |-> type, id |-> id, refersTo |-> refersTo, sent |-> now,
                   received |-> [sec |-> 0, usec |-> 0], size |-> Len(body)]
           data == BaseMessageSerialize(msg, BaseMessageSize)
           m == data \o body
<1>1. BaseNumbers(msg)
  BY LenProperties DEF BaseNumbers
<1>2. /\ msg.type = type /\ msg.id = id /\ msg.refersTo = refersTo /\ msg.size = Len(body)
  OBVIOUS
<1>3. Message(type, id, refersTo, now, body) = m
  BY DEF Message
<1> HIDE DEF msg
<1>4. /\ data \in Seq(Bytes) /\ Len(data) = 26
      /\ \A i \in 1 .. 2 : data[0 + i] = Digits(2, type)[i]
  BY <1>1, <1>2, BaseBytesAre DEF BaseMessageSize
<1>5. DeserializeBaseMsg(m, at) = BaseRead(msg, at)
  BY <1>1, BaseMessageReadsBack
<1> HIDE DEF data
<1>6. /\ m \in Seq(Bytes) /\ Len(m) = Len(data) + Len(body)
      /\ \A i \in 1 .. Len(data) : m[i] = data[i]
      /\ \A i \in 1 .. Len(body) : m[Len(data) + i] = body[i]
  BY <1>4, Behind, Zenon
<1>7. m[1] = type % Byte
  <2>1. m[1] = data[0 + 1] /\ data[0 + 1] = Digits(2, type)[1]
    <3>1. m[1] = data[1]
      BY <1>4, <1>6
    <3> QED
      BY <1>4, <3>1
  <2>2. type \div 1 = type
    OBVIOUS
  <2> QED
    BY <2>1, <2>2 DEF Digits, Weight
<1> HIDE DEF m
<1>8. Number(2, m, 1) = type % (Byte * Byte) /\ DeserializeBaseMsg(m, at).type = type % (Byte * Byte)
      /\ DeserializeBaseMsg(m, at).refersTo = refersTo % (Byte * Byte)
      /\ DeserializeBaseMsg(m, at).size = Len(body) % Word32
  BY <1>2, <1>5 DEF BaseRead, DeserializeBaseMsg
<1>9. /\ Len(SubSeq(m, 1, 26)) = 26
      /\ SubSeq(m, 1, 26)[1] = m[1]
  BY <1>4, <1>6
<1>10. SubSeq(m, 26 + 1, Len(m)) = body
  <2> DEFINE e == SubSeq(m, 26 + 1, Len(m))
  <2>1. Len(m) = 26 + Len(body) /\ Len(body) \in Nat
    BY <1>4, <1>6
  <2>2. e \in Seq(Bytes) /\ Len(e) = Len(body)
    BY <1>6, <2>1
  <2>3. \A i \in 1 .. Len(body) : e[i] = m[26 + i]
    BY <1>6, <2>1
  <2>4. \A i \in 1 .. Len(body) : e[i] = body[i]
    BY <1>4, <1>6, <2>3
  <2> HIDE DEF e
  <2>5. e = body
    BY <2>2, <2>4, SeqEqual
  <2> QED
    BY <2>5 DEF e
<1> QED
  BY <1>3, <1>4, <1>6, <1>7, <1>8, <1>9, <1>10 DEF BaseMessageSize, Carries

\* Reading the two fields of a time.
LEMMA ReadsTwice ==
  ASSUME NEW data
  PROVE  LET sec == BufferRead(BufferReadInit(data, 8), 4)
             usec == BufferRead(sec, 4)
         IN  /\ sec.value = Number(4, data, 1)
             /\ usec.value = Number(4, data, 5) /\ usec.result = 0
<1>1. PICK b : b = BufferReadInit(data, 8)
  OBVIOUS
<1>2. b = [data |-> data, size |-> 8, index |-> 0, result |-> 0, value |-> 0]
  BY <1>1 DEF BufferReadInit
<1>3. PICK sec : sec = BufferRead(b, 4)
  OBVIOUS
<1>4. sec = [data |-> data, size |-> 8, index |-> 4, result |-> 0, value |-> Number(4, data, 1)]
  <2>1. PICK v : v = Number(4, data, 1)
    OBVIOUS
  <2>2. b.size = 8 /\ b.index = 0 /\ b.data = data
    BY <1>2
  <2>3. Number(4, b.data, b.index + 1) = v
    BY <2>1, <2>2, 0 + 1 = 1, Zenon
  <2>4. ~(b.size - b.index < 4) /\ b.index + 4 = 4
    BY <2>2
  <2>5. sec = [b EXCEPT !.index = 4, !.value = v]
    BY <1>3, <2>3, <2>4 DEF BufferRead
  <2>6. sec = [data |-> data, size |-> 8, index |-> 4, result |-> 0, value |-> v]
    BY <1>2, <2>5
  <2> QED
    BY <2>1, <2>6
<1>5. PICK usec : usec = BufferRead(sec, 4)
  OBVIOUS
<1>6. usec.value = Number(4, data, 5) /\ usec.result = 0
  BY <1>4, <1>5 DEF BufferRead
<1> QED
  BY <1>1, <1>3, <1>4, <1>5, <1>6

\* time_message_deserialize gives back the two fields of a time, negative ones too.
THEOREM LatencyReadsBack ==
  ASSUME NEW tv, tv.sec \in Int, tv.usec \in Int,
         - Word32 <= 2 * tv.sec, 2 * tv.sec < Word32,
         - Word32 <= 2 * tv.usec, 2 * tv.usec < Word32
  PROVE  /\ Tv(tv) \in Seq(Bytes) /\ Len(Tv(tv)) = 8
         /\ TimeMessageDeserialize(Tv(tv), 8)
              = [result |-> 0, latency |-> [sec |-> tv.sec, usec |-> tv.usec]]
<1> DEFINE s == Digits(4, tv.sec)
           u == Digits(4, tv.usec)
           data == s \o u
<1>1. s \in Seq(Bytes) /\ Len(s) = 4 /\ u \in Seq(Bytes) /\ Len(u) = 4
  BY DigitsType
<1>2. \A i \in 1 .. 4 : s[i] = Digits(4, tv.sec)[i] /\ u[i] = Digits(4, tv.usec)[i]
  OBVIOUS
<1> HIDE DEF s, u
<1>3. /\ data \in Seq(Bytes) /\ Len(data) = Len(s) + Len(u)
      /\ \A i \in 1 .. Len(s) : data[i] = s[i]
      /\ \A i \in 1 .. Len(u) : data[Len(s) + i] = u[i]
  BY <1>1, Behind, Zenon
<1> HIDE DEF data
<1>4. Number(4, data, 1) = tv.sec % Word32
  <2>1. \A i \in 1 .. 4 : data[1 + i - 1] = Digits(4, tv.sec)[i]
    <3> TAKE i \in 1 .. 4
    <3>1. 1 + i - 1 = i
      OBVIOUS
    <3> QED
      BY <1>1, <1>2, <1>3, <3>1
  <2> QED
    BY <2>1, ReadsBack, 1 \in Nat, Zenon
<1>5. Number(4, data, 5) = tv.usec % Word32
  <2>1. \A i \in 1 .. 4 : data[5 + i - 1] = Digits(4, tv.usec)[i]
    <3> TAKE i \in 1 .. 4
    <3>1. 5 + i - 1 = 4 + i
      OBVIOUS
    <3> QED
      BY <1>1, <1>2, <1>3, <3>1
  <2> QED
    BY <2>1, ReadsBack, 5 \in Nat, Zenon
<1>6. Signed(Number(4, data, 1)) = tv.sec /\ Signed(Number(4, data, 5)) = tv.usec
  BY <1>4, <1>5, SignedReadsBack
<1> DEFINE sec == BufferRead(BufferReadInit(data, 8), 4)
           usec == BufferRead(sec, 4)
<1>7. sec.value = Number(4, data, 1) /\ usec.value = Number(4, data, 5) /\ usec.result = 0
  BY ReadsTwice
<1>9. TimeMessageDeserialize(data, 8)
        = [result |-> usec.result,
           latency |-> [sec |-> Signed(sec.value), usec |-> Signed(usec.value)]]
  BY DEF TimeMessageDeserialize
<1> HIDE DEF sec, usec
<1>10. TimeMessageDeserialize(data, 8) = [result |-> 0, latency |-> [sec |-> tv.sec, usec |-> tv.usec]]
  BY <1>6, <1>7, <1>9
<1>11. Tv(tv) = data
  BY DEF Tv, data, s, u
<1>12. Len(data) = 8
  BY <1>1, <1>3
<1> QED
  BY <1>3, <1>10, <1>11, <1>12

\* The parts of a body are bytes.
LEMMA PartTypes ==
  /\ \A bytes \in Seq(Bytes) : Counted(bytes) \in Seq(Bytes) /\ Len(Counted(bytes)) = 4 + Len(bytes)
  /\ \A tv : tv.sec \in Int /\ tv.usec \in Int => Tv(tv) \in Seq(Bytes) /\ Len(Tv(tv)) = 8
<1>1. ASSUME NEW bytes \in Seq(Bytes)
      PROVE  Counted(bytes) \in Seq(Bytes) /\ Len(Counted(bytes)) = 4 + Len(bytes)
  <2>1. Len(bytes) \in Int
    BY LenProperties
  <2>2. Digits(4, Len(bytes)) \in Seq(Bytes) /\ Len(Digits(4, Len(bytes))) = 4
    BY <2>1, DigitsType
  <2>3. Counted(bytes) \in Seq(Bytes) /\ Len(Counted(bytes)) = Len(Digits(4, Len(bytes))) + Len(bytes)
    BY <2>2, Behind, Zenon DEF Counted
  <2> QED
    BY <2>2, <2>3
<1>2. ASSUME NEW tv, tv.sec \in Int, tv.usec \in Int
      PROVE  Tv(tv) \in Seq(Bytes) /\ Len(Tv(tv)) = 8
  <2>1. /\ Digits(4, tv.sec) \in Seq(Bytes) /\ Len(Digits(4, tv.sec)) = 4
        /\ Digits(4, tv.usec) \in Seq(Bytes) /\ Len(Digits(4, tv.usec)) = 4
    BY <1>2, DigitsType
  <2>2. /\ Tv(tv) \in Seq(Bytes)
        /\ Len(Tv(tv)) = Len(Digits(4, tv.sec)) + Len(Digits(4, tv.usec))
    BY <2>1, Behind, Zenon DEF Tv
  <2> QED
    BY <2>1, <2>2, 4 + 4 = 8, Zenon
<1> QED
  BY <1>1, <1>2

\* The numbers are large enough for the types and for a body of some bytes.
LEMMA Ranges ==
  /\ Byte * Byte \in Nat /\ Byte * Byte >= 49
  /\ Word32 \in Nat /\ Word32 >= 49 * (Byte * Byte)
<1>1. Byte \in Nat /\ Byte >= 7
  BY ByteFacts
<1>2. PICK s \in Nat : s = Byte * Byte
  BY <1>1
<1>3. s >= 49
  <2>1. Byte * Byte >= 7 * Byte
    BY <1>1
  <2> QED
    BY <1>1, <1>2, <2>1
<1>4. Word32 = s * s
  <2>1. PICK c \in Nat : c = s * Byte
    BY <1>1, <1>2
  <2>2. Word32 = c * Byte
    BY <1>2, <2>1 DEF Word32
  <2>3. (s * Byte) * Byte = s * (Byte * Byte)
    BY <1>1
  <2> QED
    BY <1>2, <2>1, <2>2, <2>3, Zenon
<1>5. s * s >= 49 * s
  BY <1>3
<1>6. s * s \in Nat
  OBVIOUS
<1> QED
  BY <1>2, <1>3, <1>4, <1>5, <1>6
=============================================================================
