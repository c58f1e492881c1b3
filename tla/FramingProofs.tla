---------------------------- MODULE FramingProofs ----------------------------
(***************************************************************************)
(* Proofs about Framing, for any byte base, block size and texts.  A text  *)
(* is read from the block that was written for it, whatever lies behind,   *)
(* and a request cut short in a cleared buffer is read as nothing.  Along  *)
(* a chain of any number of relays, whole blocks arrive however reads are  *)
(* cut, and while none is, each relay acts on its own setup.               *)
(***************************************************************************)
EXTENDS Framing, TLAPS

\* Division by the base, as the shifts of changeIntTo4ByteCharArray do it.
LEMMA DivideByBase ==
    ASSUME NEW n \in Nat
    PROVE  /\ n \div Base \in Nat /\ n % Base \in Byte
           /\ n = (n \div Base) * Base + (n % Base)
  BY SizesAssumption DEF Byte

\* A quotient is small when the number is.
LEMMA QuotientBound ==
    ASSUME NEW n \in Nat, NEW k \in Nat, n < k * Base
    PROVE  n \div Base < k
  <1>1. (n \div Base) * Base <= n
    BY DivideByBase, SizesAssumption DEF Byte
  <1>2. ASSUME n \div Base >= k PROVE FALSE
    <2>1. PICK d \in Nat : n \div Base = k + d
      BY <1>2, DivideByBase
    <2>2. (n \div Base) * Base = k * Base + d * Base
      BY <2>1, SizesAssumption
    <2>3. d * Base \in Nat
      BY SizesAssumption
    <2> QED BY <1>1, <2>2, <2>3, SizesAssumption
  <1> QED BY <1>2, DivideByBase

LEMMA HalfBound == Half \in Nat /\ Half <= Base * Base * Base * Base
  <1>1. Base \div 2 \in Nat /\ Base \div 2 <= Base
    BY SizesAssumption
  <1>2. Base * Base * Base \in Nat
    BY SizesAssumption
  <1> DEFINE c == Base * Base * Base
             e == Base - (Base \div 2)
  <1>3. e \in Nat /\ Base = (Base \div 2) + e
    BY <1>1, SizesAssumption
  <1>4. c * Base = c * (Base \div 2) + c * e
    BY <1>1, <1>2, <1>3, SizesAssumption
  <1>5. c * e \in Nat /\ c * (Base \div 2) \in Nat
    <2>1. \A x, y \in Nat : x * y \in Nat
      OBVIOUS
    <2> QED BY <1>1, <1>2, <1>3, <2>1
  <1> QED BY <1>4, <1>5 DEF Half

\* The four bytes of a length are bytes, and make the length again.
LEMMA DigitsMakeLength ==
    ASSUME NEW n \in Nat, n < Half
    PROVE  /\ Digits(n) \in Seq(Byte) /\ Len(Digits(n)) = 4
           /\ ((Digits(n)[1] * Base + Digits(n)[2]) * Base + Digits(n)[3]) * Base + Digits(n)[4] = n
  <1> DEFINE q == n \div Base
             r == q \div Base
             s == r \div Base
  <1>1. q \in Nat /\ n % Base \in Byte /\ n = q * Base + (n % Base)
    BY DivideByBase
  <1>2. r \in Nat /\ q % Base \in Byte /\ q = r * Base + (q % Base)
    BY <1>1, DivideByBase
  <1>3. s \in Nat /\ r % Base \in Byte /\ r = s * Base + (r % Base)
    BY <1>2, DivideByBase
  <1>4. s < Base
    <2>1. n < Base * Base * Base * Base
      BY HalfBound, SizesAssumption
    <2>2. q < Base * Base * Base
      BY <2>1, QuotientBound, SizesAssumption
    <2>3. r < Base * Base
      BY <1>1, <2>2, QuotientBound, SizesAssumption
    <2> QED BY <1>2, <2>3, QuotientBound, SizesAssumption
  <1>5. s % Base = s /\ s \in Byte
    BY <1>3, <1>4, SizesAssumption DEF Byte
  <1>6. Digits(n) = <<s, r % Base, q % Base, n % Base>>
    BY <1>5 DEF Digits
  <1>7. ((s * Base + (r % Base)) * Base + (q % Base)) * Base + (n % Base) = n
    BY <1>1, <1>2, <1>3
  <1>8. ASSUME NEW w \in Byte, NEW x \in Byte, NEW y \in Byte, NEW z \in Byte
        PROVE  /\ <<w, x, y, z>> \in Seq(Byte) /\ Len(<<w, x, y, z>>) = 4
               /\ <<w, x, y, z>>[1] = w /\ <<w, x, y, z>>[2] = x
               /\ <<w, x, y, z>>[3] = y /\ <<w, x, y, z>>[4] = z
    OBVIOUS
  <1>9. Digits(n) \in Seq(Byte) /\ Len(Digits(n)) = 4
    BY <1>1, <1>2, <1>3, <1>5, <1>6, <1>8
  <1>10. /\ Digits(n)[1] = s /\ Digits(n)[2] = r % Base
         /\ Digits(n)[3] = q % Base /\ Digits(n)[4] = n % Base
    BY <1>1, <1>2, <1>3, <1>5, <1>6, <1>8
  <1> DEFINE make(w, x, y, z) == ((w * Base + x) * Base + y) * Base + z
  <1>11. make(Digits(n)[1], Digits(n)[2], Digits(n)[3], Digits(n)[4])
            = make(s, r % Base, q % Base, n % Base)
    <2> HIDE DEF make, q, r, s
    <2> QED BY <1>10
  <1> HIDE DEF q, r, s
  <1> QED BY <1>7, <1>9, <1>11

\* Where the four bytes of n stand in a block, LengthAt finds n.
LEMMA LengthFound ==
    ASSUME NEW n \in Nat, n < Half, NEW b, NEW i,
           b[i] = Digits(n)[1], b[i + 1] = Digits(n)[2],
           b[i + 2] = Digits(n)[3], b[i + 3] = Digits(n)[4]
    PROVE  LengthAt(b, i) = n
  BY DigitsMakeLength DEF LengthAt, NumberAt

\* A text that stands in a block behind a head is what SubSeq takes from there.
LEMMA TextFound ==
    ASSUME NEW head \in Seq(Byte), NEW t \in Seq(Byte), NEW m \in Seq(Byte)
    PROVE  /\ \A i \in 1..Len(head) : (head \o t \o m)[i] = head[i]
           /\ Copied(head \o t \o m, Len(head) + 1, Len(t)) = t
  <1> DEFINE b == head \o t \o m
             c == SubSeq(b, Len(head) + 1, Len(head) + Len(t))
  <1>1. head \o t \in Seq(Byte) /\ Len(head \o t) = Len(head) + Len(t)
    OBVIOUS
  <1>2. b \in Seq(Byte) /\ Len(b) = Len(head) + Len(t) + Len(m)
    BY <1>1
  <1>3. \A i \in 1..Len(head) : b[i] = head[i]
    BY <1>1
  <1>4. \A i \in 1..Len(t) : b[Len(head) + i] = t[i]
    BY <1>1
  <1>5. c \in Seq(Byte) /\ Len(c) = Len(t) /\ \A i \in 1..Len(t) : c[i] = b[Len(head) + i]
    BY <1>2
  <1>6. c = t
    <2> HIDE DEF b, c
    <2> QED BY <1>4, <1>5
  <1>7. Copied(b, Len(head) + 1, Len(t)) = c
    <2>1. Len(head) \in Nat /\ Len(t) \in Nat /\ Len(m) \in Nat
      OBVIOUS
    <2>2. Len(head) + 1 + Len(t) - 1 = Len(head) + Len(t)
      BY <2>1
    <2>3. (IF Len(head) + Len(t) < Len(b) THEN Len(head) + Len(t) ELSE Len(b)) = Len(head) + Len(t)
      BY <1>2, <2>1
    <2> QED BY <2>2, <2>3 DEF Copied
  <1> QED BY <1>3, <1>6, <1>7

LEMMA Behind ==
    ASSUME NEW c \in Seq(Byte), NEW d \in Seq(Byte)
    PROVE  /\ c \o d \in Seq(Byte) /\ Len(c \o d) = Len(c) + Len(d)
           /\ \A i \in 1..Len(c) : (c \o d)[i] = c[i]
           /\ \A i \in 1..Len(d) : (c \o d)[Len(c) + i] = d[i]
  OBVIOUS

LEMMA HeadOfBlock ==
    ASSUME NEW c \in Seq(Byte), NEW d \in Seq(Byte), Len(c) = 1, Len(d) = 4
    PROVE  /\ c \o d \in Seq(Byte) /\ Len(c \o d) = 5
           /\ (c \o d)[2] = d[1] /\ (c \o d)[3] = d[2]
           /\ (c \o d)[4] = d[3] /\ (c \o d)[5] = d[4]
  <1> DEFINE f == c \o d
  <1>1. f \in Seq(Byte) /\ Len(f) = Len(c) + Len(d)
    BY Behind, Zenon
  <1>2. \A i \in 1..Len(d) : f[Len(c) + i] = d[i]
    BY Behind, Zenon
  <1> HIDE DEF f
  <1>3. f[2] = d[1] /\ f[3] = d[2] /\ f[4] = d[3] /\ f[5] = d[4]
    <2>1. \A i \in 1..4 : f[1 + i] = d[i]
      BY <1>2
    <2> QED BY <2>1
  <1> QED BY <1>1, <1>3 DEF f

LEMMA TextIsBytes == \A t \in Texts : t \in Seq(Byte) /\ Len(t) \in Nat /\ Len(t) < Half
  BY TextsAssumption

\* What a client writes is what the relay and the proxy read, whatever the
\* code is and whatever lies in memory behind the block
\* (Node/JsonPacketDeserialization.cpp:101-112).
THEOREM RequestRead ==
    ASSUME NEW code \in Byte, NEW t \in Texts, NEW m \in Seq(Byte)
    PROVE  /\ ReadRequest(Request(code, t) \o m) = t
           /\ LengthAt(Request(code, t) \o m, 2) = Len(t)
  <1> DEFINE n == Len(t)
             d == Digits(n)
             head == <<code>> \o d
             b == head \o t \o m
  <1>1. t \in Seq(Byte) /\ n \in Nat /\ n < Half
    BY TextIsBytes
  <1>2. d \in Seq(Byte) /\ Len(d) = 4
    BY <1>1, DigitsMakeLength
  <1>3. /\ head \in Seq(Byte) /\ Len(head) = 5
        /\ head[2] = d[1] /\ head[3] = d[2] /\ head[4] = d[3] /\ head[5] = d[4]
    <2> DEFINE c == <<code>>
    <2>1. c \in Seq(Byte) /\ Len(c) = 1
      OBVIOUS
    <2> HIDE DEF c, d
    <2>2. head = c \o d
      BY DEF c
    <2> HIDE DEF head
    <2> QED BY <1>2, <2>1, <2>2, HeadOfBlock
  <1>4. /\ \A i \in 1..5 : b[i] = head[i]
        /\ Copied(b, 6, n) = t
    <2> HIDE DEF head
    <2>1. (\A i \in 1..Len(head) : b[i] = head[i]) /\ Copied(b, Len(head) + 1, Len(t)) = t
      BY <1>1, <1>3, TextFound, Zenon
    <2>2. Len(head) = 5 /\ Len(head) + 1 = 6
      BY <1>3
    <2> HIDE DEF b
    <2> QED BY <2>1, <2>2
  <1>5. b[2] = d[1] /\ b[2 + 1] = d[2] /\ b[2 + 2] = d[3] /\ b[2 + 3] = d[4]
    <2> HIDE DEF b, head, d
    <2> QED BY <1>3, <1>4
  <1>6. LengthAt(b, 2) = n
    <2> HIDE DEF b, n
    <2> QED BY <1>1, <1>5, LengthFound
  <1> QED BY <1>4, <1>6 DEF Request, ReadRequest

\* What the proxy answers is what a client reads (ClientGUI/main.py:42-47).
THEOREM AnswerRead ==
    ASSUME NEW t \in Texts, NEW m \in Seq(Byte)
    PROVE  ReadAnswer(Answer(t) \o m) = t
  <1> DEFINE n == Len(t)
             d == Digits(n)
             b == d \o t \o m
  <1>1. t \in Seq(Byte) /\ n \in Nat /\ n < Half
    BY TextIsBytes
  <1>2. d \in Seq(Byte) /\ Len(d) = 4
    BY <1>1, DigitsMakeLength
  <1>3. /\ \A i \in 1..4 : b[i] = d[i]
        /\ Copied(b, 5, n) = t
    <2> HIDE DEF d
    <2>1. (\A i \in 1..Len(d) : b[i] = d[i]) /\ Copied(b, Len(d) + 1, Len(t)) = t
      BY <1>1, <1>2, TextFound, Zenon
    <2>2. Len(d) = 4 /\ Len(d) + 1 = 5
      BY <1>2
    <2> HIDE DEF b
    <2> QED BY <2>1, <2>2
  <1>4. b[1] = d[1] /\ b[1 + 1] = d[2] /\ b[1 + 2] = d[3] /\ b[1 + 3] = d[4]
    <2> HIDE DEF b, d
    <2> QED BY <1>3
  <1>5. LengthAt(b, 1) = n
    <2> HIDE DEF b, n
    <2> QED BY <1>1, <1>4, LengthFound
  <1> QED BY <1>3, <1>5 DEF Answer, ReadAnswer

LEMMA LengthIsNat == ASSUME NEW b \in Seq(Byte), Len(b) >= 5 PROVE LengthAt(b, 2) \in Nat
  <1>1. \A i \in 2..5 : b[i] \in Byte
    OBVIOUS
  <1>2. Byte \subseteq Nat
    BY DEF Byte
  <1>3. b[2] \in Nat /\ b[2 + 1] \in Nat /\ b[2 + 2] \in Nat /\ b[2 + 3] \in Nat
    <2>1. 2 \in 2..5 /\ 2 + 1 \in 2..5 /\ 2 + 2 \in 2..5 /\ 2 + 3 \in 2..5
      OBVIOUS
    <2> QED BY <1>1, <1>2, <2>1, Zenon
  <1>4. ((b[2] * Base + b[2 + 1]) * Base + b[2 + 2]) * Base + b[2 + 3] \in Nat
    <2>1. \A w, x \in Nat : w * Base + x \in Nat
      BY SizesAssumption
    <2> QED BY <1>3, <2>1, Zenon
  <1> QED BY <1>4 DEF LengthAt, NumberAt

LEMMA CopiedPart ==
    ASSUME NEW b \in Seq(Byte), Len(b) >= 5, NEW k \in Nat
    PROVE  \A i \in 1..Len(Copied(b, 6, k)) :
              5 + i <= Len(b) /\ Copied(b, 6, k)[i] = b[5 + i]
  BY DEF Copied

\* A request of which only a part was read, into a buffer that was cleared, is
\* acted on by nobody: whatever is left of its length, what stands behind its
\* head is no text (Node/Server.cpp:212-222, 321-332).
THEOREM CutRequestIgnored ==
    ASSUME NEW code \in Byte, NEW t \in Texts, 5 + Len(t) <= BlockSize,
           NEW n \in 1..4 + Len(t)
    PROVE  Parsed(ReadRequest(First(Request(code, t), n) \o Rest(Zeros, n))) = {}
  <1> DEFINE r == Request(code, t)
             b == First(r, n) \o Rest(Zeros, n)
             c == ReadRequest(b)
  <1>1. t \in Seq(Byte) /\ Len(t) \in Nat /\ Len(t) < Half
    BY TextIsBytes
  <1>2. r \in Seq(Byte) /\ Len(r) = 5 + Len(t) /\ \A i \in 1..Len(t) : r[5 + i] = t[i]
    <2> DEFINE head == <<code>> \o Digits(Len(t))
    <2>1. head \in Seq(Byte) /\ Len(head) = 5
      <3> DEFINE d == Digits(Len(t))
                 o == <<code>>
      <3>1. o \in Seq(Byte) /\ Len(o) = 1
        OBVIOUS
      <3>2. d \in Seq(Byte) /\ Len(d) = 4
        BY <1>1, DigitsMakeLength
      <3> HIDE DEF d, o
      <3>3. o \o d \in Seq(Byte) /\ Len(o \o d) = 5
        BY <3>1, <3>2, HeadOfBlock
      <3> QED BY <3>3 DEF d, o
    <2>2. r = head \o t
      BY DEF Request
    <2> HIDE DEF head, r
    <2>3. r \in Seq(Byte) /\ Len(r) = Len(head) + Len(t)
      BY <1>1, <2>1, <2>2, Behind, Zenon
    <2>4. \A i \in 1..Len(t) : r[Len(head) + i] = t[i]
      BY <1>1, <2>1, <2>2, Behind, Zenon
    <2> QED BY <2>1, <2>3, <2>4
  <1>3. /\ Zeros \in Seq(Byte) /\ Len(Zeros) = BlockSize
        /\ \A i \in 1..BlockSize : Zeros[i] = 0
    BY SizesAssumption DEF Zeros, Byte
  <1>4. First(r, n) \in Seq(Byte) /\ Len(First(r, n)) = n /\ \A i \in 1..n : First(r, n)[i] = r[i]
    <2> HIDE DEF r
    <2> QED BY <1>1, <1>2 DEF First
  <1>5. /\ Rest(Zeros, n) \in Seq(Byte) /\ Len(Rest(Zeros, n)) = BlockSize - n
        /\ \A i \in 1..BlockSize - n : Rest(Zeros, n)[i] = 0
    <2>1. n \in Nat /\ n < BlockSize
      BY <1>1, SizesAssumption
    <2> QED BY <1>3, <2>1, SizesAssumption DEF Rest
  <1>6. /\ b \in Seq(Byte) /\ Len(b) = BlockSize
        /\ \A i \in 1..n : b[i] = r[i]
        /\ \A i \in 1..BlockSize : i > n => b[i] = 0
    <2> DEFINE x == First(r, n)
               y == Rest(Zeros, n)
    <2>1. x \in Seq(Byte) /\ y \in Seq(Byte) /\ b = x \o y
      BY <1>4, <1>5
    <2> HIDE DEF x, y
    <2>2. /\ x \o y \in Seq(Byte) /\ Len(x \o y) = Len(x) + Len(y)
          /\ \A i \in 1..Len(x) : (x \o y)[i] = x[i]
          /\ \A i \in 1..Len(x) + Len(y) : i > Len(x) => (x \o y)[i] = y[i - Len(x)]
      BY <2>1
    <2>3. Len(x) = n /\ Len(y) = BlockSize - n
      BY <1>4, <1>5 DEF x, y
    <2>4. (\A i \in 1..n : x[i] = r[i]) /\ (\A i \in 1..BlockSize - n : y[i] = 0)
      BY <1>4, <1>5 DEF x, y
    <2> HIDE DEF b, r
    <2> QED BY SMTT(30), <1>1, <2>1, <2>2, <2>3, <2>4, SizesAssumption
  <1>7. \A i \in 1..Len(c) : 5 + i <= BlockSize /\ c[i] = b[5 + i]
    <2> HIDE DEF b
    <2>1. LengthAt(b, 2) \in Nat
      BY <1>6, LengthIsNat, SizesAssumption
    <2> QED BY <1>6, <2>1, CopiedPart, SizesAssumption DEF ReadRequest
  <1> SUFFICES Parsed(c) = {}
    OBVIOUS
  <1>8. SUFFICES ASSUME NEW s \in Texts, Len(s) <= Len(c), First(c, Len(s)) = s
                 PROVE  FALSE
    <2> HIDE DEF c
    <2> QED BY DEF Parsed
  <1>9. s \in Seq(Byte \ {0}) /\ s \in Seq(Byte) /\ s # <<>>
    BY TextsAssumption
  <1>10. \A i \in 1..Len(s) : s[i] = c[i] /\ s[i] # 0
    <2>1. Len(c) \in Nat /\ \A i \in 1..Len(s) : First(c, Len(s))[i] = c[i]
      <3> c \in Seq(Byte)
        <4> HIDE DEF b
        <4>1. LengthAt(b, 2) \in Nat
          BY <1>6, LengthIsNat, SizesAssumption
        <4> QED BY <1>6, <4>1 DEF ReadRequest, Copied
      <3> HIDE DEF c
      <3> QED BY <1>8, <1>9 DEF First
    <2> HIDE DEF c
    <2> QED BY <1>8, <1>9, <2>1
  <1>11. \A i \in 1..Len(s) : 5 + i <= n /\ s[i] = r[5 + i]
    <2> HIDE DEF b, c, r
    <2> TAKE i \in 1..Len(s)
    <2>1. i \in 1..Len(c)
      BY <1>8, <1>9
    <2>2. 5 + i \in 1..BlockSize /\ s[i] = b[5 + i] /\ s[i] # 0
      BY <1>7, <1>10, <2>1
    <2> QED BY <1>1, <1>6, <2>2
  <1>12. Len(s) < Len(t)
    BY <1>1, <1>9, <1>11
  <1>13. SubSeq(t, 1, Len(s)) = s
    <2> DEFINE u == SubSeq(t, 1, Len(s))
    <2>1. Len(s) \in Nat /\ u \in Seq(Byte) /\ Len(u) = Len(s) /\ \A i \in 1..Len(s) : u[i] = t[i]
      BY <1>1, <1>9, <1>12
    <2>2. \A i \in 1..Len(s) : u[i] = s[i]
      <3> HIDE DEF u, r
      <3> QED BY SMTT(30), <1>1, <1>2, <1>9, <1>11, <1>12, <2>1
    <2> HIDE DEF u
    <2> QED BY <1>9, <2>1, <2>2
  <1> QED BY <1>1, <1>12, <1>13, TextsAssumption

\* The database server reads what the proxy writes (PythonServer/ProxyHandler.py:12-16).
LEMMA DatabaseRequestRead ==
    ASSUME NEW code \in Byte, NEW t \in Texts
    PROVE  ReadDatabaseRequest(DatabaseRequest(code, t)) = t
  BY TextIsBytes DEF ReadDatabaseRequest, DatabaseRequest

\* Of a length below a third of the int's bytes the first digit is zero.
LEMMA FirstDigitZero ==
    ASSUME NEW n \in Nat, n < Base * Base * Base, n < Half
    PROVE  Digits(n)[1] = 0
  <1> DEFINE q == n \div Base
             r == q \div Base
             s == r \div Base
  <1>1. q \in Nat /\ q < Base * Base
    BY DivideByBase, QuotientBound, SizesAssumption
  <1>2. r \in Nat /\ r < Base
    BY <1>1, DivideByBase, QuotientBound, SizesAssumption
  <1>3. s = 0
    <2>1. r < 1 * Base
      BY <1>2, SizesAssumption
    <2>2. s < 1 /\ s \in Nat
      BY <1>2, <2>1, DivideByBase, QuotientBound
    <2> QED BY <2>2
  <1>4. s % Base = 0
    BY <1>3, SizesAssumption
  <1>5. Digits(n)[1] = s % Base
    BY DEF Digits
  <1> QED BY <1>4, <1>5

\* What the proxy copies of an answer of the database server is more than the
\* text: it looks for the length one byte too far and finds more than Base times
\* the true one.  The answer is understood if the memory behind it, which nobody
\* has written, happens to begin with a zero, where the parser stops, and else
\* not at all (ProxyServer/JsonPacketDeserialization.cpp:139-150,
\* DatabaseServerCommunication.cpp:25-40).
THEOREM DatabaseAnswerOverread ==
    ASSUME NEW t \in Texts, NEW m \in Seq(Byte), m # <<>>,
           Len(t) * Base + Base <= Half
    PROVE  /\ NumberAt(Answer(t) \o m, 2) = Len(t) * Base + t[1]
           /\ LET r == ReadDatabaseAnswer(Answer(t) \o m)
              IN  /\ Len(r) > Len(t) /\ First(r, Len(t)) = t
                  /\ Parsed(r) = IF m[1] = 0 THEN {t} ELSE {}
  <1> DEFINE n == Len(t)
             d == Digits(n)
             b == d \o t \o m
             k == n * Base + t[1]
  <1>1. t \in Seq(Byte) /\ n \in Nat /\ n < Half /\ n > 0 /\ t[1] \in Byte
    BY TextIsBytes, TextsAssumption
  <1>2. d \in Seq(Byte) /\ Len(d) = 4
    BY <1>1, DigitsMakeLength
  <1>3. /\ b \in Seq(Byte) /\ Len(b) = 4 + n + Len(m) /\ Len(m) > 0
        /\ b[2] = d[2] /\ b[3] = d[3] /\ b[4] = d[4] /\ b[5] = t[1]
    <2> DEFINE c == d \o t
    <2> HIDE DEF d
    <2>1. /\ c \in Seq(Byte) /\ Len(c) = Len(d) + Len(t)
          /\ \A i \in 1..Len(d) : c[i] = d[i]
          /\ \A i \in 1..Len(t) : c[Len(d) + i] = t[i]
      BY <1>1, <1>2, Behind, Zenon
    <2>2. b = c \o m
      OBVIOUS
    <2> HIDE DEF b, c, n
    <2>3. b \in Seq(Byte) /\ Len(b) = Len(c) + Len(m) /\ \A i \in 1..Len(c) : b[i] = c[i]
      BY <2>1, <2>2, Behind, Zenon
    <2>4. Len(m) \in Nat /\ Len(m) > 0 /\ Len(t) = n
      BY DEF n
    <2>5. Len(c) = 4 + n /\ (\A i \in 1..4 : c[i] = d[i]) /\ (\A i \in 1..n : c[4 + i] = t[i])
      BY <1>2, <2>1, <2>4
    <2>6. c[5] = t[1]
      <3>1. 1 \in 1..n /\ 4 + 1 = 5
        BY <1>1
      <3> QED BY <2>5, <3>1
    <2> QED BY <1>1, <2>3, <2>4, <2>5, <2>6
  <1>4. n < Base * Base * Base
    <2>1. n * Base < Base * Base * Base * Base
      BY <1>1, HalfBound, SizesAssumption
    <2>2. ASSUME n >= Base * Base * Base PROVE FALSE
      BY <1>1, <2>1, <2>2, SizesAssumption
    <2> QED BY <1>1, <2>2, SizesAssumption
  <1>5. (d[2] * Base + d[3]) * Base + d[4] = n
    <2>1. d[1] = 0 /\ ((d[1] * Base + d[2]) * Base + d[3]) * Base + d[4] = n
      BY <1>1, <1>4, DigitsMakeLength, FirstDigitZero
    <2>2. d[2] \in Byte
      <3> HIDE DEF d
      <3>1. 2 \in 1..Len(d)
        BY <1>2
      <3>2. \A s \in Seq(Byte) : \A i \in 1..Len(s) : s[i] \in Byte
        OBVIOUS
      <3> QED BY <1>2, <3>1, <3>2, Zenon
    <2>3. 0 * Base + d[2] = d[2]
      <3> HIDE DEF d
      <3> QED BY <2>2, SizesAssumption DEF Byte
    <2> HIDE DEF d, n
    <2> QED BY <2>1, <2>3
  <1>6. NumberAt(b, 2) = k /\ k < Half
    <2> HIDE DEF b, d, n
    <2>1. ((b[2] * Base + b[2 + 1]) * Base + b[2 + 2]) * Base + b[2 + 3] = k
      BY <1>3, <1>5
    <2>2. k < Half
      <3>1. n * Base \in Nat /\ n * Base + Base <= Half
        BY <1>1, SizesAssumption DEF n
      <3> QED BY <1>1, <3>1, HalfBound, SizesAssumption DEF Byte
    <2> QED BY <2>1, <2>2 DEF NumberAt
  <1>7. k \in Nat /\ k >= n
    <2> HIDE DEF n
    <2>1. n * Base \in Nat /\ n * Base >= n
      BY <1>1, SizesAssumption
    <2>2. \A x \in Nat, y \in Byte : x + y \in Nat /\ x + y >= x
      BY DEF Byte, SizesAssumption
    <2>3. k \in Nat /\ k >= n * Base
      BY <1>1, <2>1, <2>2
    <2> HIDE DEF k
    <2> QED BY <1>1, <2>1, <2>3
  <1>8. ReadDatabaseAnswer(b) = Copied(b, 5, k + 1)
    <2> HIDE DEF b, k
    <2> QED BY <1>6 DEF ReadDatabaseAnswer
  <1> DEFINE r == Copied(b, 5, k + 1)
  <1>9. /\ r \in Seq(Byte) /\ Len(r) \in Nat /\ Len(r) > n
        /\ \A i \in 1..n + 1 : r[i] = b[4 + i]
    <2> HIDE DEF b, k, n
    <2> QED BY <1>1, <1>3, <1>7 DEF Copied
  \* The text, and the first byte of the memory.
  <1>10. (\A i \in 1..n : b[4 + i] = t[i]) /\ b[4 + (n + 1)] = m[1]
    <2> DEFINE c == d \o t
    <2> HIDE DEF d
    <2>1. /\ c \in Seq(Byte) /\ Len(c) = Len(d) + Len(t)
          /\ \A i \in 1..Len(t) : c[Len(d) + i] = t[i]
      BY <1>1, <1>2, Behind, Zenon
    <2>2. b = c \o m
      OBVIOUS
    <2> HIDE DEF b, c
    <2>3. /\ \A i \in 1..Len(c) : b[i] = c[i]
          /\ \A i \in 1..Len(m) : b[Len(c) + i] = m[i]
      BY <2>1, <2>2, Behind, Zenon
    <2>4. Len(c) = 4 + n /\ n = Len(t) /\ \A i \in 1..n : c[4 + i] = t[i] /\ 4 + i \in 1..4 + n
      BY <1>1, <1>2, <2>1
    <2> HIDE DEF n
    <2>5. b[(4 + n) + 1] = m[1] /\ (4 + n) + 1 = 4 + (n + 1)
      <3>1. 1 \in 1..Len(m)
        BY <1>3
      <3> QED BY <1>1, <2>3, <2>4, <3>1
    <2>6. \A i \in 1..n : b[4 + i] = t[i]
      BY <2>3, <2>4
    <2> QED BY <2>5, <2>6
  <1> HIDE DEF b, d, r
  <1>11. (\A i \in 1..n : r[i] = t[i]) /\ r[n + 1] = m[1]
    <2>1. n + 1 \in 1..n + 1 /\ \A i \in 1..n : i \in 1..n + 1
      BY <1>1
    <2> QED BY <1>9, <1>10, <2>1
  <1>12. First(r, n) = t
    <2> DEFINE u == SubSeq(r, 1, n)
    <2>1. u \in Seq(Byte) /\ Len(u) = n /\ \A i \in 1..n : u[i] = r[i]
      BY <1>1, <1>9
    <2>2. \A i \in 1..n : u[i] = t[i]
      BY <1>11, <2>1
    <2> HIDE DEF u
    <2>3. u = t
      BY <1>1, <2>1, <2>2
    <2> QED BY <2>3 DEF u, First
  \* No other text begins so.
  <1>13. ASSUME NEW s \in Texts, Len(s) <= Len(r), First(r, Len(s)) = s PROVE s = t
    <2>1. s \in Seq(Byte) /\ Len(s) \in Nat
      BY TextIsBytes
    <2>2. \A i \in 1..Len(s) : s[i] = r[i]
      <3> DEFINE u == SubSeq(r, 1, Len(s))
      <3>1. \A i \in 1..Len(s) : u[i] = r[i]
        BY <1>9, <1>13, <2>1
      <3>2. u = s
        BY <1>13 DEF First
      <3> HIDE DEF u
      <3> QED BY <3>1, <3>2
    <2>3. CASE Len(s) <= n
      <3> DEFINE u == SubSeq(t, 1, Len(s))
      <3>1. u \in Seq(Byte) /\ Len(u) = Len(s) /\ \A i \in 1..Len(s) : u[i] = t[i]
        BY <1>1, <2>1, <2>3
      <3>2. \A i \in 1..Len(s) : u[i] = s[i]
        BY <1>1, <1>11, <2>1, <2>2, <2>3, <3>1
      <3> HIDE DEF u
      <3>3. u = s
        BY <2>1, <3>1, <3>2
      <3> QED BY <2>3, <3>3, TextsAssumption DEF u
    <2>4. CASE n <= Len(s)
      <3> DEFINE u == SubSeq(s, 1, n)
      <3>1. u \in Seq(Byte) /\ Len(u) = n /\ \A i \in 1..n : u[i] = s[i]
        BY <1>1, <2>1, <2>4
      <3>2. \A i \in 1..n : u[i] = t[i]
        BY <1>1, <1>11, <2>1, <2>2, <2>4, <3>1
      <3> HIDE DEF u
      <3>3. u = t
        BY <1>1, <3>1, <3>2
      <3> QED BY <2>4, <3>3, TextsAssumption DEF u
    <2> QED BY <1>1, <2>1, <2>3, <2>4
  <1>14. Parsed(r) = IF m[1] = 0 THEN {t} ELSE {}
    <2>1. Len(t) = n /\ Len(t) <= Len(r) /\ Len(r) # Len(t) /\ First(r, Len(t)) = t /\ r[Len(t) + 1] = m[1]
      BY <1>1, <1>9, <1>11, <1>12
    <2>2. Parsed(r) \subseteq {t}
      <3> HIDE DEF n
      <3> QED BY <1>13 DEF Parsed
    <2>3. t \in Parsed(r) <=> m[1] = 0
      <3> HIDE DEF n
      <3> QED BY <2>1 DEF Parsed
    <2> HIDE DEF n
    <2> QED BY <2>2, <2>3
  <1>15. Answer(t) \o m = b
    BY DEF Answer, b, d
  <1> QED BY <1>6, <1>8, <1>9, <1>12, <1>14, <1>15 DEF r
------------------------------------------------------------------------------
(* The chain: types, and what whole reads do.                              *)

\* Where block i + 1 of a stream begins.
Start(i) == i * BlockSize

LEMMA StartFacts ==
    /\ Start(0) = 0
    /\ \A i \in Nat : Start(i) \in Nat /\ Start(i + 1) = Start(i) + BlockSize
    /\ \A i, j \in Nat : i <= j => Start(i) <= Start(j)
    /\ \A i, j \in Nat : i < j => Start(i) + BlockSize <= Start(j)
  <1>1. \A i \in Nat : Start(i) \in Nat /\ Start(i + 1) = Start(i) + BlockSize
    BY SizesAssumption DEF Start
  <1>2. ASSUME NEW i \in Nat, NEW d \in Nat PROVE Start(i + d) = Start(i) + Start(d)
    BY SizesAssumption DEF Start
  <1>3. ASSUME NEW i \in Nat, NEW j \in Nat, i <= j PROVE Start(i) <= Start(j)
    <2>1. PICK d \in Nat : j = i + d
      BY <1>3
    <2>2. Start(j) = Start(i) + Start(d) /\ Start(i) \in Nat /\ Start(d) \in Nat
      BY <1>1, <1>2, <2>1
    <2> HIDE DEF Start
    <2> QED BY <2>2
  <1>4. ASSUME NEW i \in Nat, NEW j \in Nat, i < j PROVE Start(i) + BlockSize <= Start(j)
    <2>1. i + 1 \in Nat /\ i + 1 <= j
      BY <1>4
    <2> QED BY <1>1, <1>3, <2>1
  <1>5. Start(0) = 0
    BY SizesAssumption DEF Start
  <1> QED BY <1>1, <1>3, <1>4, <1>5

LEMMA StartDivides ==
    ASSUME NEW i \in Nat
    PROVE  Start(i) % BlockSize = 0 /\ Start(i) \div BlockSize = i
  BY SizesAssumption DEF Start

\* The parts of a read.
LEMMA Parts ==
    ASSUME NEW b \in Seq(Byte), NEW n \in 0..Len(b)
    PROVE  /\ First(b, n) \in Seq(Byte) /\ Len(First(b, n)) = n
           /\ Rest(b, n) \in Seq(Byte) /\ Len(Rest(b, n)) = Len(b) - n
  BY DEF First, Rest

LEMMA ZerosType == Zeros \in Seq(Byte) /\ Len(Zeros) = BlockSize
  BY SizesAssumption DEF Zeros, Byte

LEMMA RequestType ==
    ASSUME NEW t \in Texts
    PROVE  Request(0, t) \in Seq(Byte) /\ Len(Request(0, t)) = 5 + Len(t)
  <1> DEFINE d == Digits(Len(t))
             o == <<0>>
  <1>1. o \in Seq(Byte) /\ Len(o) = 1
    BY SizesAssumption DEF Byte
  <1>2. d \in Seq(Byte) /\ Len(d) = 4
    BY TextIsBytes, DigitsMakeLength
  <1>3. t \in Seq(Byte)
    BY TextIsBytes
  <1> HIDE DEF d, o
  <1>4. o \o d \in Seq(Byte) /\ Len(o \o d) = 5
    BY <1>1, <1>2, HeadOfBlock
  <1>5. (o \o d) \o t \in Seq(Byte) /\ Len((o \o d) \o t) = 5 + Len(t)
    <2> DEFINE h == o \o d
    <2> HIDE DEF h
    <2>1. h \in Seq(Byte) /\ Len(h) = 5
      BY <1>4 DEF h
    <2>2. h \o t \in Seq(Byte) /\ Len(h \o t) = Len(h) + Len(t)
      BY <1>3, <2>1, Behind, Zenon
    <2> QED BY <2>1, <2>2 DEF h
  <1> QED BY <1>5 DEF Request, d, o

\* A request and what lies behind it fill a block.
LEMMA BlockSent ==
    ASSUME NEW t \in Setups \cup Earlier, NEW m \in Seq(Byte), Len(m) = BlockSize
    PROVE  LET b == Request(0, t) \o Rest(m, Len(Request(0, t)))
           IN  b \in Seq(Byte) /\ Len(b) = BlockSize
  <1> DEFINE r == Request(0, t)
             x == Rest(m, Len(r))
  <1>1. t \in Texts /\ 5 + Len(t) <= BlockSize /\ Len(t) \in Nat
    BY SetupsAssumption, TextIsBytes, SizesAssumption
  <1>2. r \in Seq(Byte) /\ Len(r) = 5 + Len(t)
    BY <1>1, RequestType
  <1> HIDE DEF r
  <1>3. x \in Seq(Byte) /\ Len(x) = BlockSize - Len(r)
    BY <1>1, <1>2, Parts, SizesAssumption
  <1> HIDE DEF x
  <1>4. r \o x \in Seq(Byte) /\ Len(r \o x) = BlockSize
    BY <1>2, <1>3, Behind, SizesAssumption
  <1> QED BY <1>4 DEF r, x

LEMMA SameSequence ==
    ASSUME NEW s \in Seq(Byte), NEW u \in Seq(Byte), Len(s) = Len(u),
           \A i \in 1..Len(s) : s[i] = u[i]
    PROVE  s = u
  OBVIOUS

LEMMA Associative ==
    ASSUME NEW s \in Seq(Byte), NEW u \in Seq(Byte), NEW v \in Seq(Byte)
    PROVE  (s \o u) \o v = s \o (u \o v)
  <1>1. s \o u \in Seq(Byte) /\ u \o v \in Seq(Byte)
    BY Behind, Zenon
  <1>2. /\ (s \o u) \o v \in Seq(Byte) /\ s \o (u \o v) \in Seq(Byte)
        /\ Len((s \o u) \o v) = Len(s \o (u \o v))
    OBVIOUS
  <1>3. \A i \in 1..Len((s \o u) \o v) : ((s \o u) \o v)[i] = (s \o (u \o v))[i]
    OBVIOUS
  <1> QED BY <1>2, <1>3, SameSequence

\* The bytes a + 1 to z of a stream.
Part(s, a, z) == SubSeq(s, a + 1, z)

LEMMA PartFacts ==
    ASSUME NEW s \in Seq(Byte), NEW a \in Nat, NEW z \in Nat, a <= z, z <= Len(s)
    PROVE  /\ Part(s, a, z) \in Seq(Byte) /\ Len(Part(s, a, z)) = z - a
           /\ \A i \in 1..z - a : Part(s, a, z)[i] = s[a + i]
           /\ a = z => Part(s, a, z) = <<>>
  BY DEF Part

LEMMA PartSplit ==
    ASSUME NEW s \in Seq(Byte), NEW a \in Nat, NEW m \in Nat, NEW z \in Nat,
           a <= m, m <= z, z <= Len(s)
    PROVE  /\ First(Part(s, a, z), m - a) = Part(s, a, m)
           /\ Rest(Part(s, a, z), m - a) = Part(s, m, z)
  <1> DEFINE p == Part(s, a, z)
             f == First(p, m - a)
             r == Rest(p, m - a)
  <1>0. a <= z /\ m <= Len(s)
    OBVIOUS
  <1>1. p \in Seq(Byte) /\ Len(p) = z - a /\ \A i \in 1..z - a : p[i] = s[a + i]
    BY <1>0, PartFacts, Zenon
  <1> HIDE DEF p
  <1>2. /\ f \in Seq(Byte) /\ Len(f) = m - a /\ \A i \in 1..m - a : f[i] = p[i]
        /\ r \in Seq(Byte) /\ Len(r) = z - m /\ \A i \in 1..z - m : r[i] = p[m - a + i]
    BY <1>1 DEF First, Rest
  <1>3. /\ Part(s, a, m) \in Seq(Byte) /\ Len(Part(s, a, m)) = m - a
        /\ \A i \in 1..m - a : Part(s, a, m)[i] = s[a + i]
    BY <1>0, PartFacts, Zenon
  <1>4. /\ Part(s, m, z) \in Seq(Byte) /\ Len(Part(s, m, z)) = z - m
        /\ \A i \in 1..z - m : Part(s, m, z)[i] = s[m + i]
    BY <1>0, PartFacts, Zenon
  <1> HIDE DEF f, r
  <1>5. f = Part(s, a, m)
    BY <1>1, <1>2, <1>3, SameSequence
  <1>6. r = Part(s, m, z)
    <2>1. ASSUME NEW i \in 1..z - m PROVE r[i] = s[m + i]
      <3>1. m - a + i \in 1..z - a /\ a + (m - a + i) = m + i
        OBVIOUS
      <3>2. p[m - a + i] = s[a + (m - a + i)]
        BY <1>1, <3>1, Zenon
      <3>3. r[i] = p[m - a + i]
        BY <1>2
      <3> QED BY <3>1, <3>2, <3>3
    <2> QED BY <1>2, <1>4, <2>1, SameSequence
  <1> QED BY <1>5, <1>6 DEF f, r, p

LEMMA PartJoin ==
    ASSUME NEW s \in Seq(Byte), NEW a \in Nat, NEW m \in Nat, NEW z \in Nat,
           a <= m, m <= z, z <= Len(s)
    PROVE  Part(s, a, m) \o Part(s, m, z) = Part(s, a, z)
  <1> DEFINE x == Part(s, a, m)
             y == Part(s, m, z)
             p == Part(s, a, z)
  <1>0. a <= z /\ m <= Len(s)
    OBVIOUS
  <1>1. x \in Seq(Byte) /\ Len(x) = m - a /\ \A i \in 1..m - a : x[i] = s[a + i]
    BY <1>0, PartFacts, Zenon
  <1>2. y \in Seq(Byte) /\ Len(y) = z - m /\ \A i \in 1..z - m : y[i] = s[m + i]
    BY <1>0, PartFacts, Zenon
  <1>3. p \in Seq(Byte) /\ Len(p) = z - a /\ \A i \in 1..z - a : p[i] = s[a + i]
    BY <1>0, PartFacts, Zenon
  <1> HIDE DEF x, y, p
  <1>4. x \o y \in Seq(Byte) /\ Len(x \o y) = Len(p)
    BY <1>1, <1>2, <1>3
  <1>5. \A i \in 1..Len(x \o y) : (x \o y)[i] = p[i]
    <2>1. /\ \A i \in 1..Len(x) : (x \o y)[i] = x[i]
          /\ \A i \in 1..Len(y) : (x \o y)[Len(x) + i] = y[i]
      BY <1>1, <1>2, Behind, Zenon
    <2> TAKE i \in 1..Len(x \o y)
    <2>2. CASE i <= m - a
      BY <1>1, <1>3, <1>4, <2>1, <2>2
    <2>3. CASE i > m - a
      <3>1. PICK j \in 1..z - m : i = m - a + j
        BY <1>3, <1>4, <2>3
      <3>2. (x \o y)[i] = s[m + j]
        BY <1>1, <1>2, <2>1, <3>1
      <3>3. i \in 1..z - a /\ a + i = m + j
        <4>1. m - a \in Nat /\ z - m \in Nat /\ j \in Nat /\ 1 <= j /\ j <= z - m
          BY <3>1
        <4>2. (m - a) + j <= z - a /\ 1 <= (m - a) + j /\ a + ((m - a) + j) = m + j
          BY <4>1
        <4> QED BY <3>1, <4>1, <4>2
      <3>4. p[i] = s[a + i]
        BY <1>3, <3>3
      <3> QED BY <3>2, <3>3, <3>4
    <2> QED BY <2>2, <2>3
  <1> QED BY <1>3, <1>4, <1>5, SameSequence DEF x, y, p

LEMMA PartAppended ==
    ASSUME NEW s \in Seq(Byte), NEW c \in Seq(Byte)
    PROVE  /\ \A a, z \in Nat : a <= z /\ z <= Len(s) => Part(s \o c, a, z) = Part(s, a, z)
           /\ Part(s \o c, Len(s), Len(s) + Len(c)) = c
  <1> DEFINE b == s \o c
  <1>1. /\ b \in Seq(Byte) /\ Len(b) = Len(s) + Len(c) /\ Len(s) \in Nat /\ Len(c) \in Nat
        /\ \A i \in 1..Len(s) : b[i] = s[i]
        /\ \A i \in 1..Len(c) : b[Len(s) + i] = c[i]
    OBVIOUS
  <1> HIDE DEF b
  <1>2. ASSUME NEW a \in Nat, NEW z \in Nat, a <= z, z <= Len(s)
        PROVE  Part(b, a, z) = Part(s, a, z)
    <2>0. z <= Len(b)
      BY <1>1, <1>2
    <2>1. /\ Part(b, a, z) \in Seq(Byte) /\ Len(Part(b, a, z)) = z - a
          /\ \A i \in 1..z - a : Part(b, a, z)[i] = b[a + i]
      BY <1>1, <1>2, <2>0, PartFacts, Zenon
    <2>2. /\ Part(s, a, z) \in Seq(Byte) /\ Len(Part(s, a, z)) = z - a
          /\ \A i \in 1..z - a : Part(s, a, z)[i] = s[a + i]
      BY <1>2, PartFacts, Zenon
    <2>3. \A i \in 1..z - a : b[a + i] = s[a + i]
      BY <1>1, <1>2
    <2> QED BY <2>1, <2>2, <2>3, SameSequence
  <1>3. Part(b, Len(s), Len(s) + Len(c)) = c
    <2> DEFINE p == Part(b, Len(s), Len(s) + Len(c))
    <2>1. p \in Seq(Byte) /\ Len(p) = Len(c) /\ \A i \in 1..Len(c) : p[i] = b[Len(s) + i]
      <3> DEFINE z == Len(s) + Len(c)
      <3>1. z \in Nat /\ Len(s) <= z /\ z <= Len(b) /\ z - Len(s) = Len(c)
        BY <1>1
      <3> HIDE DEF z
      <3>2. /\ Part(b, Len(s), z) \in Seq(Byte) /\ Len(Part(b, Len(s), z)) = z - Len(s)
            /\ \A i \in 1..z - Len(s) : Part(b, Len(s), z)[i] = b[Len(s) + i]
        BY <1>1, <3>1, PartFacts, Zenon
      <3> QED BY <3>1, <3>2 DEF z
    <2> HIDE DEF p
    <2>2. p = c
      BY <1>1, <2>1, SameSequence
    <2> QED BY <2>2 DEF p
  <1> QED BY <1>2, <1>3 DEF b

\* A stream of whole blocks.
Blocks(s) == s \in Seq(Byte) /\ \E k \in Nat : Len(s) = Start(k)

LEMMA BlockAppended ==
    ASSUME NEW s, Blocks(s), NEW b \in Seq(Byte), Len(b) = BlockSize
    PROVE  Blocks(s \o b)
  <1>1. PICK k \in Nat : Len(s) = Start(k)
    BY DEF Blocks
  <1>2. s \in Seq(Byte)
    BY DEF Blocks
  <1>3. s \o b \in Seq(Byte) /\ Len(s \o b) = Len(s) + Len(b)
    BY <1>2, Behind, Zenon
  <1>4. Start(k + 1) = Start(k) + BlockSize /\ k + 1 \in Nat
    BY StartFacts
  <1> QED BY <1>1, <1>3, <1>4 DEF Blocks

Types ==
    /\ plan \in [1..Hops + 1 -> Setups]
    /\ Blocks(written)
    /\ link \in [1..Hops + 1 -> Seq(Byte)] /\ Blocks(link[Hops + 1])
    /\ hop \in [Relays -> Texts \cup {Waiting, Dead}]
    /\ eaten \in [Relays -> Seq(Byte)]
    /\ \A h \in Relays : stale[h] \in Seq(Byte) /\ Len(stale[h]) = BlockSize
    /\ cuts \in 0..MaxCuts

\* What a client sends is a block that begins with the setup.
LEMMA SendSends ==
    ASSUME Types, Send
    PROVE  LET i == Len(written) \div BlockSize + 1
           IN  /\ i <= Hops + 1
               /\ \E x \in Seq(Byte) :
                     LET b == Request(0, plan[i]) \o x
                     IN  /\ b \in Seq(Byte) /\ Len(b) = BlockSize
                         /\ written' = written \o b
                         /\ link' = [link EXCEPT ![1] = @ \o b]
  <1> DEFINE i == Len(written) \div BlockSize + 1
             r == Request(0, plan[i])
  <1>1. PICK k \in Nat : Len(written) = Start(k)
    BY DEF Types, Blocks
  <1>2. i = k + 1
    BY <1>1, StartDivides
  <1>3. i \in 1..Hops + 1 /\ written \in Seq(Byte) /\ link[1] \in Seq(Byte)
    <2>1. i <= Hops + 1
      BY DEF Send
    <2> HIDE DEF i
    <2> QED BY <1>2, <2>1, SizesAssumption DEF Types, Blocks
  <1>4. PICK m \in Memory \cup {Rest(written, Len(written) - BlockSize) : j \in {i} \ {1}} :
              /\ written' = written \o r \o Rest(m, Len(r))
              /\ link' = [link EXCEPT ![1] = @ \o r \o Rest(m, Len(r))]
    BY DEF Send
  <1>5. m \in Seq(Byte) /\ Len(m) = BlockSize
    <2>1. CASE m \in Memory
      BY <2>1, MemoryAssumption
    <2>2. CASE i # 1 /\ m = Rest(written, Len(written) - BlockSize)
      <3>1. k # 0 /\ 0 < k
        BY <1>2, <2>2
      <3>2. Len(written) - BlockSize \in 0..Len(written) /\ Len(written) \in Nat
        <4>1. Start(0) = 0 /\ Start(0) + BlockSize <= Start(k) /\ Start(k) \in Nat
          BY <3>1, StartFacts
        <4> QED BY <1>1, <4>1, SizesAssumption
      <3>3. Len(written) - (Len(written) - BlockSize) = BlockSize
        BY <3>2, SizesAssumption
      <3> HIDE DEF i
      <3> QED BY <1>3, <2>2, <3>2, <3>3, Parts, Zenon
    <2> HIDE DEF i
    <2> QED BY <1>4, <2>1, <2>2
  <1> HIDE DEF i
  <1>6. plan[i] \in Setups
    BY <1>3 DEF Types
  <1> DEFINE x == Rest(m, Len(r))
             b == r \o x
  <1>7. plan[i] \in Texts /\ r \in Seq(Byte) /\ Len(r) = 5 + Len(plan[i])
    BY <1>6, RequestType, SetupsAssumption
  <1>8. b \in Seq(Byte) /\ Len(b) = BlockSize
    BY <1>5, <1>6, BlockSent
  <1>9. x \in Seq(Byte)
    <2>1. 5 + Len(plan[i]) <= BlockSize /\ Len(plan[i]) \in Nat
      BY <1>6, <1>7, SetupsAssumption, TextIsBytes
    <2>2. Len(r) \in 0..Len(m)
      <3> HIDE DEF r
      <3> QED BY <1>5, <1>7, <2>1, SizesAssumption
    <2> HIDE DEF r
    <2> QED BY <1>5, <2>2, Parts, Zenon
  <1>10. (written \o r) \o x = written \o b /\ (link[1] \o r) \o x = link[1] \o b
    <2> HIDE DEF r, x
    <2> QED BY <1>3, <1>7, <1>9, Associative, ZenonT(40) DEF b
  <1>11. written' = written \o b /\ link' = [link EXCEPT ![1] = @ \o b]
    <2> HIDE DEF r, x, b
    <2> QED BY <1>4, <1>10 DEF x
  <1>12. i <= Hops + 1
    BY <1>3
  <1> HIDE DEF x
  <1>13. \E z \in Seq(Byte) :
            LET c == Request(0, plan[i]) \o z
            IN  /\ c \in Seq(Byte) /\ Len(c) = BlockSize
                /\ written' = written \o c
                /\ link' = [link EXCEPT ![1] = @ \o c]
    BY <1>8, <1>9, <1>11, Zenon
  <1> QED BY <1>12, <1>13 DEF i

\* A read takes no more than there is; one that is not cut takes all or a block.
LEMMA ReadTakes ==
    ASSUME Types, NEW h \in Relays, NEW n \in 1..BlockSize, Read(h, n)
    PROVE  /\ n \in 0..Len(link[h]) /\ n \in Nat /\ n <= BlockSize
           /\ cuts' \in 0..MaxCuts
           /\ cuts' = 0 => cuts = 0 /\ (n = BlockSize \/ n = Len(link[h]))
  <1>1. link[h] \in Seq(Byte)
    BY SizesAssumption DEF Types, Relays
  <1>2. Len(link[h]) \in Nat
    BY <1>1
  <1> QED BY SMTT(30), <1>2, SizesAssumption DEF Types, Read

\* What a relay sends on is a block.
LEMMA BlockSentOn ==
    ASSUME NEW s \in Seq(Byte), NEW n \in 0..Len(s), n <= BlockSize
    PROVE  LET b == First(s, n) \o Rest(Zeros, n)
           IN  b \in Seq(Byte) /\ Len(b) = BlockSize
  <1>1. First(s, n) \in Seq(Byte) /\ Len(First(s, n)) = n
    BY Parts, Zenon
  <1>2. n \in 0..Len(Zeros) /\ n \in Nat
    BY ZerosType, SizesAssumption
  <1>3. Rest(Zeros, n) \in Seq(Byte) /\ Len(Rest(Zeros, n)) = BlockSize - n
    BY <1>2, ZerosType, Parts, Zenon
  <1>4. n + (BlockSize - n) = BlockSize
    BY <1>2, SizesAssumption
  <1> QED BY <1>1, <1>3, <1>4, Behind, Zenon

LEMMA TypesInit == Init => Types
  <1> SUFFICES ASSUME Init PROVE Types
    OBVIOUS
  <1>1. Blocks(<<>>)
    BY StartFacts DEF Blocks
  <1>2. ASSUME NEW h \in Relays PROVE stale[h] \in Seq(Byte) /\ Len(stale[h]) = BlockSize
    <2>1. stale[h] \in {Zeros} \cup {Request(0, t) \o Rest(Zeros, 5 + Len(t)) : t \in Earlier}
      BY DEF Init
    <2>2. CASE stale[h] = Zeros
      BY <2>2, ZerosType
    <2>3. CASE \E t \in Earlier : stale[h] = Request(0, t) \o Rest(Zeros, 5 + Len(t))
      <3>1. PICK t \in Earlier : stale[h] = Request(0, t) \o Rest(Zeros, 5 + Len(t))
        BY <2>3
      <3>2. t \in Texts /\ Len(Request(0, t)) = 5 + Len(t)
        BY SetupsAssumption, RequestType
      <3>3. stale[h] = Request(0, t) \o Rest(Zeros, Len(Request(0, t)))
        BY <3>1, <3>2
      <3> QED BY <3>3, ZerosType, BlockSent
    <2> QED BY <2>1, <2>2, <2>3
  <1>3. Hops + 1 \in 1..Hops + 1
    BY SizesAssumption
  <1>4. cuts \in 0..MaxCuts
    BY SizesAssumption DEF Init
  <1> QED BY <1>1, <1>2, <1>3, <1>4 DEF Init, Types, Relays

LEMMA TypesSend == ASSUME Types, Send PROVE Types'
  <1>1. PICK x \in Seq(Byte), b \in Seq(Byte) :
              Len(b) = BlockSize /\ written' = written \o b /\ link' = [link EXCEPT ![1] = @ \o b]
    BY SendSends
  <1>2. Blocks(written')
    BY <1>1, BlockAppended DEF Types
  <1>3. 1 \in 1..Hops + 1 /\ Hops + 1 \in 1..Hops + 1 /\ Hops + 1 # 1
    BY SizesAssumption
  <1>4. link[1] \in Seq(Byte) /\ link[1] \o b \in Seq(Byte)
    BY <1>3, Behind, Zenon DEF Types
  <1>5. link' \in [1..Hops + 1 -> Seq(Byte)] /\ link'[Hops + 1] = link[Hops + 1]
    BY <1>1, <1>3, <1>4 DEF Types
  <1>6. UNCHANGED <<plan, hop, eaten, stale, cuts>>
    BY DEF Send
  <1> QED BY <1>2, <1>5, <1>6 DEF Types

LEMMA TypesBuildPath == ASSUME Types, NEW h \in Relays, BuildPath(h) PROVE Types'
  <1>1. PICK n \in 1..BlockSize :
              /\ Read(h, n)
              /\ eaten' = [eaten EXCEPT ![h] = First(link[h], n)]
              /\ link' = [link EXCEPT ![h] = Rest(@, n)]
              /\ \/ \E t \in Texts : hop' = [hop EXCEPT ![h] = t]
                 \/ hop' = [hop EXCEPT ![h] = Dead]
    BY DEF BuildPath, Parsed
  <1>2. h \in 1..Hops + 1 /\ h # Hops + 1 /\ Hops + 1 \in 1..Hops + 1
    BY SizesAssumption DEF Relays
  <1>3. link[h] \in Seq(Byte)
    BY <1>2 DEF Types
  <1>4. n \in 0..Len(link[h]) /\ cuts' \in 0..MaxCuts
    BY <1>1, ReadTakes
  <1>5. First(link[h], n) \in Seq(Byte) /\ Rest(link[h], n) \in Seq(Byte)
    BY <1>3, <1>4, Parts, Zenon
  <1>6. link' \in [1..Hops + 1 -> Seq(Byte)] /\ link'[Hops + 1] = link[Hops + 1]
    BY <1>1, <1>2, <1>5 DEF Types
  <1>7. eaten' \in [Relays -> Seq(Byte)]
    BY <1>1, <1>5 DEF Types
  <1>8. hop' \in [Relays -> Texts \cup {Waiting, Dead}]
    BY <1>1 DEF Types
  <1>9. UNCHANGED <<plan, written, stale>>
    BY DEF BuildPath
  <1> QED BY <1>4, <1>6, <1>7, <1>8, <1>9 DEF Types

LEMMA TypesHandleRequest == ASSUME Types, NEW h \in Relays, HandleRequest(h) PROVE Types'
  <1>1. PICK n \in 1..BlockSize :
              /\ Read(h, n)
              /\ link' = [link EXCEPT ![h] = Rest(@, n),
                                      ![h + 1] = @ \o First(link[h], n) \o Rest(Zeros, n)]
    BY DEF HandleRequest
  <1> DEFINE f == First(link[h], n)
             z == Rest(Zeros, n)
             b == f \o z
  <1>2. h \in 1..Hops + 1 /\ h + 1 \in 1..Hops + 1 /\ h # Hops + 1 /\ h + 1 # h /\ Hops + 1 \in 1..Hops + 1
    BY SizesAssumption DEF Relays
  <1>3. link[h] \in Seq(Byte) /\ link[h + 1] \in Seq(Byte)
    BY <1>2 DEF Types
  <1>4. n \in 0..Len(link[h]) /\ n \in Nat /\ n <= BlockSize /\ cuts' \in 0..MaxCuts
    BY <1>1, ReadTakes
  <1>5. f \in Seq(Byte) /\ Rest(link[h], n) \in Seq(Byte)
    BY <1>3, <1>4, Parts, Zenon
  <1>6. n \in 0..Len(Zeros)
    BY <1>4, ZerosType, SizesAssumption
  <1>7. z \in Seq(Byte) /\ b \in Seq(Byte) /\ Len(b) = BlockSize
    BY <1>3, <1>4, <1>6, ZerosType, Parts, BlockSentOn, Zenon
  <1>8. (link[h + 1] \o f) \o z = link[h + 1] \o b
    <2> HIDE DEF f, z
    <2> QED BY <1>3, <1>5, <1>7, Associative, Zenon DEF b
  <1>9. link' = [link EXCEPT ![h] = Rest(@, n), ![h + 1] = @ \o b]
    <2> HIDE DEF f, z, b
    <2>1. [link EXCEPT ![h] = Rest(@, n)][h + 1] = link[h + 1]
      BY <1>2 DEF Types
    <2> QED BY <1>1, <1>8, <2>1 DEF f, z
  <1> HIDE DEF b
  <1>10. link[h + 1] \o b \in Seq(Byte)
    BY <1>3, <1>7, Behind, Zenon
  <1>11. link' \in [1..Hops + 1 -> Seq(Byte)]
    BY <1>2, <1>5, <1>9, <1>10 DEF Types
  <1>12. Blocks(link'[Hops + 1])
    <2>1. CASE h = Hops
      <3>1. link'[Hops + 1] = link[Hops + 1] \o b
        BY <1>2, <1>9, <2>1 DEF Types
      <3>2. Blocks(link[Hops + 1])
        BY DEF Types
      <3> QED BY <1>7, <3>1, <3>2, BlockAppended
    <2>2. CASE h # Hops
      <3>1. h + 1 # Hops + 1
        BY <1>2, <2>2, SizesAssumption
      <3> QED BY <1>2, <1>9, <3>1 DEF Types
    <2> QED BY <2>1, <2>2
  <1>13. UNCHANGED <<plan, written, hop, eaten, stale>>
    BY DEF HandleRequest
  <1> QED BY <1>4, <1>11, <1>12, <1>13 DEF Types

LEMMA TypesStep == Types /\ [Next]_vars => Types'
  <1> SUFFICES ASSUME Types, [Next]_vars PROVE Types'
    OBVIOUS
  <1>1. CASE Send
    BY <1>1, TypesSend
  <1>2. ASSUME NEW h \in Relays, BuildPath(h) PROVE Types'
    BY <1>2, TypesBuildPath
  <1>3. ASSUME NEW h \in Relays, HandleRequest(h) PROVE Types'
    BY <1>3, TypesHandleRequest
  <1>4. CASE UNCHANGED vars
    BY <1>4 DEF vars, Types, Blocks
  <1> QED BY <1>1, <1>2, <1>3, <1>4 DEF Next

LEMMA BlocksDivide == ASSUME NEW s, Blocks(s) PROVE s \in Seq(Byte) /\ Len(s) % BlockSize = 0
  BY StartDivides DEF Blocks

\* Types; whole blocks are sent, and whole blocks arrive at the destination
\* however reads were cut (Node/Server.cpp:206-262).
THEOREM FramingTypes == Spec => []TypeOK
  <1>1. Types => TypeOK
    BY BlocksDivide DEF Types, TypeOK
  <1> QED BY <1>1, TypesInit, TypesStep, PTL DEF Spec

\* How far whole reads have come: hop h has k[h] blocks behind it, hop 0 is the
\* client.  What is on its way to h are the blocks that the hop before it has
\* passed on and h has not; block h, with the setup of h, goes no further.
Progress(k) ==
    /\ k \in [0..Hops + 1 -> Nat]
    /\ k[0] <= Hops + 1 /\ Len(written) = Start(k[0])
    /\ \A i \in 1..k[0] : \E x \in Seq(Byte) :
          Part(written, Start(i - 1), Start(i)) = Request(0, plan[i]) \o x
    /\ \A h \in 1..Hops + 1 :
          /\ k[h] <= k[h - 1] /\ k[h - 1] <= k[0]
          /\ link[h] = Part(written, Start(k[h]), Start(k[h - 1]))
    /\ \A h \in Relays :
          \/ /\ hop[h] = Waiting /\ k[h] <= h - 1 /\ (k[h] < h - 1 => k[h] = k[h - 1])
             /\ \A j \in h..Hops + 1 : k[j] = k[h]
          \/ hop[h] = plan[h] /\ k[h] >= h

\* What is on its way to a hop, seen in whole blocks.
LEMMA LinkBlocks ==
    ASSUME Types, NEW k, Progress(k), NEW h \in 1..Hops + 1
    PROVE  /\ k[h] \in Nat /\ k[h - 1] \in Nat /\ k[0] \in Nat
           /\ k[h] <= k[h - 1] /\ k[h - 1] <= k[0] /\ k[h] <= k[0]
           /\ k[h] = k[h - 1] => link[h] = <<>>
           /\ k[h] < k[h - 1] =>
                /\ Len(link[h]) >= BlockSize
                /\ First(link[h], BlockSize) = Part(written, Start(k[h]), Start(k[h] + 1))
                /\ Rest(link[h], BlockSize) = Part(written, Start(k[h] + 1), Start(k[h - 1]))
  <1> DEFINE a == Start(k[h])
             m == Start(k[h] + 1)
             z == Start(k[h - 1])
  <1>1. /\ k[h] \in Nat /\ k[h - 1] \in Nat /\ k[0] \in Nat
        /\ k[h] <= k[h - 1] /\ k[h - 1] <= k[0]
    <2>1. h \in 0..Hops + 1 /\ h - 1 \in 0..Hops + 1 /\ 0 \in 0..Hops + 1
      BY SizesAssumption
    <2> QED BY <2>1 DEF Progress
  <1>2. written \in Seq(Byte) /\ Len(written) = Start(k[0]) /\ link[h] = Part(written, a, z)
    BY DEF Types, Blocks, Progress
  <1>3. a \in Nat /\ m \in Nat /\ z \in Nat /\ m = a + BlockSize /\ a <= z /\ z <= Start(k[0])
    <2>1. k[h] + 1 \in Nat
      BY <1>1
    <2> QED BY <1>1, <2>1, StartFacts
  <1>4. ASSUME k[h] = k[h - 1] PROVE link[h] = <<>>
    <2>1. a = z
      BY <1>4
    <2> HIDE DEF a, z
    <2> QED BY <1>2, <1>3, <2>1, PartFacts
  <1>5. ASSUME k[h] < k[h - 1]
        PROVE  /\ Len(link[h]) >= BlockSize
               /\ First(link[h], BlockSize) = Part(written, a, m)
               /\ Rest(link[h], BlockSize) = Part(written, m, z)
    <2>1. m <= z
      BY <1>1, <1>3, <1>5, StartFacts
    <2> HIDE DEF a, m, z
    <2>2. a <= m /\ m - a = BlockSize /\ a <= z /\ z <= Len(written) /\ z - a >= BlockSize
      BY <1>2, <1>3, <2>1, SizesAssumption
    <2>3. Len(link[h]) = z - a
      <3>1. Len(Part(written, a, z)) = z - a
        BY <1>2, <1>3, <2>2, PartFacts
      <3> QED BY <1>2, <3>1
    <2>4. /\ First(Part(written, a, z), m - a) = Part(written, a, m)
          /\ Rest(Part(written, a, z), m - a) = Part(written, m, z)
      <3>1. /\ written \in Seq(Byte) /\ a \in Nat /\ m \in Nat /\ z \in Nat
            /\ a <= m /\ m <= z /\ z <= Len(written)
        BY <1>2, <1>3, <2>1, <2>2
      <3> QED BY <3>1, PartSplit, Zenon
    <2> QED BY <1>2, <2>2, <2>3, <2>4
  <1>6. k[h] <= k[0]
    BY <1>1
  <1> QED BY <1>1, <1>4, <1>5, <1>6 DEF a, m, z

\* A read that is not cut takes a block.
LEMMA WholeRead ==
    ASSUME Types, NEW k, Progress(k), NEW h \in Relays, NEW n \in 1..BlockSize,
           Read(h, n), cuts' = 0
    PROVE  n = BlockSize /\ k[h] < k[h - 1]
  <1>1. h \in 1..Hops + 1
    BY SizesAssumption DEF Relays
  <1>2. n \in 0..Len(link[h]) /\ n \in Nat /\ n <= BlockSize /\ (n = BlockSize \/ n = Len(link[h]))
    BY ReadTakes
  <1>3. /\ k[h] \in Nat /\ k[h - 1] \in Nat /\ k[h] <= k[h - 1]
        /\ k[h] = k[h - 1] => link[h] = <<>>
        /\ k[h] < k[h - 1] => Len(link[h]) >= BlockSize
    BY <1>1, LinkBlocks
  <1>4. k[h] # k[h - 1]
    <2> SUFFICES ASSUME k[h] = k[h - 1] PROVE FALSE
      OBVIOUS
    <2>1. Len(link[h]) = 0
      BY <1>3
    <2> QED BY <1>2, <2>1
  <1>5. k[h] < k[h - 1]
    BY <1>3, <1>4
  <1>6. Len(link[h]) >= BlockSize /\ Len(link[h]) \in Nat
    <2>1. link[h] \in Seq(Byte)
      BY <1>1 DEF Types
    <2>2. Len(link[h]) \in Nat
      BY <2>1
    <2> QED BY <1>3, <1>5, <2>2
  <1> QED BY <1>2, <1>5, <1>6, SizesAssumption

\* Of a buffer that a whole block fills, nothing that was in it is left.
LEMMA Filled ==
    ASSUME NEW s \in Seq(Byte), Len(s) = BlockSize
    PROVE  Rest(s, BlockSize) = <<>> /\ \A b \in Seq(Byte) : b \o Rest(s, BlockSize) = b
  <1>1. Rest(s, BlockSize) = <<>>
    BY SizesAssumption DEF Rest
  <1>2. \A b \in Seq(Byte) : b \o <<>> = b
    OBVIOUS
  <1> QED BY <1>1, <1>2

LEMMA OneText == \A t \in Texts : Parsed(t) = {t}
  <1> TAKE t \in Texts
  <1>1. t \in Seq(Byte) /\ Len(t) \in Nat
    BY TextIsBytes
  <1>2. First(t, Len(t)) = t
    BY <1>1 DEF First
  <1>3. \A s \in Texts : Len(s) <= Len(t) /\ First(t, Len(s)) = s => s = t
    BY TextsAssumption DEF First
  <1>4. t \in Parsed(t)
    BY <1>1, <1>2 DEF Parsed
  <1> QED BY <1>3, <1>4 DEF Parsed

Whole == cuts = 0 => \E k : Progress(k)

LEMMA WholeInit == Init => Whole
  <1> SUFFICES ASSUME Init PROVE Progress([h \in 0..Hops + 1 |-> 0])
    BY DEF Whole
  <1> DEFINE k == [h \in 0..Hops + 1 |-> 0]
  <1>1. ASSUME NEW h \in 0..Hops + 1 PROVE k[h] = 0
    OBVIOUS
  <1>2. k \in [0..Hops + 1 -> Nat]
    OBVIOUS
  <1> HIDE DEF k
  <1>3. 0 \in 0..Hops + 1 /\ \A h \in 1..Hops + 1 : h \in 0..Hops + 1 /\ h - 1 \in 0..Hops + 1
    BY SizesAssumption
  <1>4. Start(0) = 0
    BY StartFacts
  <1>5. Part(<<>>, 0, 0) = <<>>
    BY DEF Part
  <1>6. \A h \in 1..Hops + 1 : k[h] = 0 /\ k[h - 1] = 0
    BY <1>1, <1>3
  <1>7. k[0] = 0 /\ k[0] <= Hops + 1
    BY <1>1, <1>3, SizesAssumption
  <1>8. ASSUME NEW h \in 1..Hops + 1
        PROVE  k[h] <= k[h - 1] /\ k[h - 1] <= k[0] /\ link[h] = Part(written, Start(k[h]), Start(k[h - 1]))
    BY <1>4, <1>5, <1>6, <1>7 DEF Init
  <1>9. ASSUME NEW h \in Relays
        PROVE  /\ hop[h] = Waiting /\ k[h] <= h - 1 /\ (k[h] < h - 1 => k[h] = k[h - 1])
               /\ \A j \in h..Hops + 1 : k[j] = k[h]
    <2>1. h \in 1..Hops + 1 /\ h - 1 \in Nat /\ \A j \in h..Hops + 1 : j \in 1..Hops + 1
      BY SizesAssumption DEF Relays
    <2> QED BY <1>6, <2>1 DEF Init
  <1>10. Len(written) = Start(k[0])
    BY <1>4, <1>7 DEF Init
  <1>11. \A i \in 1..k[0] : FALSE
    BY <1>7
  <1> QED BY <1>2, <1>7, <1>8, <1>9, <1>10, <1>11 DEF Progress, k

LEMMA WholeSend ==
    ASSUME Types, Types', NEW k, Progress(k), Send
    PROVE  Progress([k EXCEPT ![0] = @ + 1])'
  <1> DEFINE i == Len(written) \div BlockSize + 1
             l == [k EXCEPT ![0] = @ + 1]
  <1>1. 0 \in 0..Hops + 1 /\ k \in [0..Hops + 1 -> Nat] /\ k[0] \in Nat /\ Len(written) = Start(k[0])
    BY SizesAssumption DEF Progress
  <1>2. i = k[0] + 1 /\ i \in Nat /\ i - 1 = k[0]
    BY <1>1, StartDivides
  <1>3. PICK x \in Seq(Byte), b \in Seq(Byte) :
              /\ b = Request(0, plan[i]) \o x /\ Len(b) = BlockSize
              /\ written' = written \o b /\ link' = [link EXCEPT ![1] = @ \o b]
              /\ i <= Hops + 1
    BY SendSends
  <1> HIDE DEF i
  <1>4. /\ l \in [0..Hops + 1 -> Nat] /\ l[0] = k[0] + 1
        /\ \A h \in 1..Hops + 1 : l[h] = k[h] /\ h \in 0..Hops + 1
    BY <1>1, SizesAssumption
  <1> HIDE DEF l
  <1>5. written \in Seq(Byte) /\ UNCHANGED <<plan, hop, eaten, stale, cuts>>
    BY DEF Send, Types, Blocks
  <1>6. /\ Len(written') = Start(k[0]) + BlockSize /\ Start(k[0] + 1) = Start(k[0]) + BlockSize
        /\ Start(k[0]) \in Nat /\ Start(k[0] + 1) \in Nat /\ Start(k[0]) <= Start(k[0] + 1)
    <2>1. Len(written \o b) = Len(written) + Len(b)
      BY <1>5, Behind, Zenon
    <2>2. k[0] + 1 \in Nat /\ k[0] <= k[0] + 1
      BY <1>1
    <2> QED BY <1>1, <1>3, <2>1, <2>2, StartFacts
  <1>7. /\ \A y, z \in Nat : y <= z /\ z <= Len(written) => Part(written', y, z) = Part(written, y, z)
        /\ Part(written', Start(k[0]), Start(k[0] + 1)) = b
    <2>1. Start(k[0] + 1) = Len(written) + Len(b)
      BY <1>1, <1>3, <1>6
    <2>2. \A y, z \in Nat : y <= z /\ z <= Len(written) => Part(written', y, z) = Part(written, y, z)
      <3>1. \A y, z \in Nat : y <= z /\ z <= Len(written) => Part(written \o b, y, z) = Part(written, y, z)
        BY <1>5, PartAppended, Zenon
      <3> QED BY <1>3, <3>1, Zenon
    <2>3. Part(written \o b, Len(written), Len(written) + Len(b)) = b
      BY <1>5, PartAppended, Zenon
    <2> QED BY <1>1, <1>3, <2>1, <2>2, <2>3
  <1>8. \A y, z \in Nat : y <= z /\ z <= k[0]
           => Part(written', Start(y), Start(z)) = Part(written, Start(y), Start(z))
    <2> TAKE y, z \in Nat
    <2> HAVE y <= z /\ z <= k[0]
    <2>1. Start(y) \in Nat /\ Start(z) \in Nat /\ Start(y) <= Start(z) /\ Start(z) <= Len(written)
      BY <1>1, StartFacts
    <2> QED BY <1>7, <2>1
  <1>9. ASSUME NEW j \in 1..l[0]
        PROVE  \E y \in Seq(Byte) : Part(written', Start(j - 1), Start(j)) = Request(0, plan'[j]) \o y
    <2>1. CASE j = k[0] + 1
      <3>1. Part(written', Start(j - 1), Start(j)) = b /\ j = i
        <4>1. j - 1 = k[0]
          BY <1>1, <2>1
        <4> QED BY <1>2, <1>7, <2>1, <4>1
      <3> QED BY <1>3, <1>5, <3>1
    <2>2. CASE j <= k[0]
      <3>1. j \in 1..k[0] /\ j \in Nat /\ j - 1 \in Nat /\ j - 1 <= j
        BY <1>1, <2>2
      <3>2. \E y \in Seq(Byte) : Part(written, Start(j - 1), Start(j)) = Request(0, plan[j]) \o y
        BY <3>1 DEF Progress
      <3>3. Part(written', Start(j - 1), Start(j)) = Part(written, Start(j - 1), Start(j))
        BY <1>8, <2>2, <3>1
      <3> QED BY <1>5, <3>2, <3>3
    <2>3. j = k[0] + 1 \/ j <= k[0]
      BY <1>1, <1>4
    <2> QED BY <2>1, <2>2, <2>3, Zenon
  <1>10. ASSUME NEW h \in 1..Hops + 1
         PROVE  /\ l[h] <= l[h - 1] /\ l[h - 1] <= l[0]
                /\ link'[h] = Part(written', Start(l[h]), Start(l[h - 1]))
    <2>1. /\ k[h] \in Nat /\ k[h - 1] \in Nat /\ k[h] <= k[h - 1] /\ k[h - 1] <= k[0]
          /\ k[h] <= k[0] /\ link[h] = Part(written, Start(k[h]), Start(k[h - 1]))
      BY LinkBlocks DEF Progress
    <2>2. CASE h = 1
      <3>1. h - 1 = 0 /\ l[h] = k[h] /\ l[h - 1] = k[0] + 1 /\ k[h - 1] = k[0]
        BY <1>4, <2>2
      <3>2. link'[h] = link[h] \o b
        BY <1>3, <2>2 DEF Types
      <3>3. /\ Part(written', Start(k[h]), Start(k[0])) = link[h]
            /\ Part(written', Start(k[0]), Start(k[0] + 1)) = b
        BY <1>1, <1>7, <1>8, <2>1, <3>1
      <3>4. Start(k[h]) \in Nat /\ Start(k[h]) <= Start(k[0])
        BY <1>1, <2>1, StartFacts
      <3>5. written' \in Seq(Byte) /\ Start(k[0] + 1) <= Len(written')
        BY <1>6 DEF Types, Blocks
      <3>6. link[h] \o b = Part(written', Start(k[h]), Start(k[0] + 1))
        <4>1. Part(written', Start(k[h]), Start(k[0])) \o Part(written', Start(k[0]), Start(k[0] + 1))
                = Part(written', Start(k[h]), Start(k[0] + 1))
          BY <1>6, <3>4, <3>5, PartJoin, Zenon
        <4> QED BY <3>3, <4>1
      <3> QED BY <1>1, <1>4, <2>1, <3>1, <3>2, <3>6
    <2>3. CASE h # 1
      <3>1. h - 1 \in 1..Hops + 1
        BY <2>3, SizesAssumption
      <3>2. l[h] = k[h] /\ l[h - 1] = k[h - 1]
        BY <1>4, <3>1
      <3>3. link'[h] = link[h]
        BY <1>3, <2>3 DEF Types
      <3> QED BY <1>1, <1>4, <1>8, <2>1, <3>2, <3>3
    <2> QED BY <2>2, <2>3
  <1>11. ASSUME NEW h \in Relays
         PROVE  \/ /\ hop'[h] = Waiting /\ l[h] <= h - 1 /\ (l[h] < h - 1 => l[h] = l[h - 1])
                   /\ \A j \in h..Hops + 1 : l[j] = l[h]
                \/ hop'[h] = plan'[h] /\ l[h] >= h
    <2>1. h \in 1..Hops + 1 /\ \A j \in h..Hops + 1 : j \in 1..Hops + 1
      BY SizesAssumption DEF Relays
    <2>2. \/ /\ hop[h] = Waiting /\ k[h] <= h - 1 /\ (k[h] < h - 1 => k[h] = k[h - 1])
             /\ \A j \in h..Hops + 1 : k[j] = k[h]
          \/ hop[h] = plan[h] /\ k[h] >= h
      BY DEF Progress
    <2>3. l[h] = k[h] /\ \A j \in h..Hops + 1 : l[j] = k[j]
      BY <1>4, <2>1
    <2>4. l[h] < h - 1 => l[h - 1] = k[h - 1]
      <3>1. k[h] \in Nat
        BY <1>1, <1>4, <2>1
      <3>2. l[h] < h - 1 => h - 1 \in 1..Hops + 1
        BY <2>1, <2>3, <3>1, SizesAssumption
      <3> QED BY <1>4, <3>2
    <2> QED BY <1>5, <2>2, <2>3, <2>4
  <1>12. l[0] <= Hops + 1 /\ Len(written') = Start(l[0])
    BY <1>2, <1>3, <1>4, <1>6
  <1> QED BY <1>4, <1>9, <1>10, <1>11, <1>12 DEF Progress, l

LEMMA WholeBuildPath ==
    ASSUME Types, NEW k, Progress(k), NEW h \in Relays, BuildPath(h), cuts' = 0
    PROVE  Progress([j \in 0..Hops + 1 |-> IF j >= h THEN h ELSE k[j]])'
  <1> DEFINE l == [j \in 0..Hops + 1 |-> IF j >= h THEN h ELSE k[j]]
  <1>1. PICK n \in 1..BlockSize :
           LET b == First(link[h], n) \o Rest(stale[h], n)
               found == Parsed(ReadRequest(b))
           IN  /\ Read(h, n)
               /\ link' = [link EXCEPT ![h] = Rest(@, n)]
               /\ \/ \E t \in found : hop' = [hop EXCEPT ![h] = t]
                  \/ /\ found = {} \/ LengthAt(b, 2) > BlockSize - 5
                     /\ hop' = [hop EXCEPT ![h] = Dead]
    BY DEF BuildPath
  <1>2. /\ Hops \in Nat /\ h \in 1..Hops /\ h \in Nat /\ h - 1 \in Nat /\ h \in 1..Hops + 1
        /\ h - 1 \in 0..Hops + 1 /\ h \in 0..Hops + 1 /\ 0 \in 0..Hops + 1
    BY SizesAssumption DEF Relays
  <1>3. n = BlockSize /\ k[h] < k[h - 1]
    BY <1>1, WholeRead
  <1>4. \A j \in 0..Hops + 1 : k[j] \in Nat
    BY DEF Progress
  \* The hop has passed on what comes before its own block, and no more.
  <1>5. k[h] = h - 1 /\ \A j \in h..Hops + 1 : k[j] = h - 1
    <2>1. hop[h] = Waiting /\ plan[h] # Waiting
      <3>1. plan[h] \in Setups
        BY <1>2 DEF Types
      <3>2. hop[h] = Waiting
        BY DEF BuildPath
      <3> QED BY <3>1, <3>2, SetupsAssumption, TextsAssumption
    <2>2. /\ k[h] <= h - 1 /\ (k[h] < h - 1 => k[h] = k[h - 1])
          /\ \A j \in h..Hops + 1 : k[j] = k[h]
      BY <2>1 DEF Progress
    <2>3. k[h] \in Nat /\ k[h - 1] \in Nat
      BY <1>2, <1>4
    <2>4. k[h] = h - 1
      BY <1>2, <1>3, <2>2, <2>3
    <2> QED BY <2>2, <2>4
  <1>6. /\ k[h] + 1 = h /\ k[h - 1] <= k[0]
        /\ First(link[h], BlockSize) = Part(written, Start(h - 1), Start(h))
        /\ Rest(link[h], BlockSize) = Part(written, Start(h), Start(k[h - 1]))
    <2>1. k[h] + 1 = h
      BY <1>2, <1>5
    <2>2. /\ k[h - 1] <= k[0]
          /\ First(link[h], BlockSize) = Part(written, Start(k[h]), Start(k[h] + 1))
          /\ Rest(link[h], BlockSize) = Part(written, Start(k[h] + 1), Start(k[h - 1]))
      BY <1>2, <1>3, LinkBlocks
    <2> QED BY <1>5, <2>1, <2>2
  \* That block holds the hop's setup.
  <1>7. PICK x \in Seq(Byte) : Part(written, Start(h - 1), Start(h)) = Request(0, plan[h]) \o x
    <2>1. k[0] \in Nat /\ k[h - 1] \in Nat /\ h - 1 < k[h - 1]
      BY <1>2, <1>3, <1>4, <1>5
    <2>2. h \in 1..k[0]
      BY <1>2, <1>6, <2>1
    <2> QED BY <2>2 DEF Progress
  <1>8. plan[h] \in Texts /\ plan[h] \in Setups /\ Len(plan[h]) \in Nat /\ 5 + Len(plan[h]) <= BlockSize
    BY <1>2, SetupsAssumption, TextIsBytes DEF Types
  <1>9. hop' = [hop EXCEPT ![h] = plan[h]]
    <2> DEFINE b == First(link[h], n) \o Rest(stale[h], n)
    <2>1. Request(0, plan[h]) \o x \in Seq(Byte)
      BY <1>8, RequestType, Behind, Zenon
    <2>2. b = Request(0, plan[h]) \o x
      <3>1. stale[h] \in Seq(Byte) /\ Len(stale[h]) = BlockSize
        BY DEF Types
      <3> QED BY ZenonT(40), <1>3, <1>6, <1>7, <2>1, <3>1, Filled
    <2>3. 0 \in Byte
      BY SizesAssumption DEF Byte
    <2>4. ReadRequest(b) = plan[h] /\ LengthAt(b, 2) = Len(plan[h])
      BY <1>8, <2>2, <2>3, RequestRead
    <2>5. Parsed(ReadRequest(b)) = {plan[h]} /\ ~ (LengthAt(b, 2) > BlockSize - 5)
      BY <1>8, <2>4, OneText, SizesAssumption
    <2> HIDE DEF b
    <2>6. \/ \E t \in Parsed(ReadRequest(b)) : hop' = [hop EXCEPT ![h] = t]
          \/ Parsed(ReadRequest(b)) = {} \/ LengthAt(b, 2) > BlockSize - 5
      BY <1>1 DEF b
    <2> QED BY <2>5, <2>6
  <1>10. UNCHANGED <<plan, written>>
    BY DEF BuildPath
  <1>11. /\ l \in [0..Hops + 1 -> Nat]
         /\ \A j \in 0..Hops + 1 : l[j] = IF j >= h THEN h ELSE k[j]
    BY <1>2, <1>4
  <1> HIDE DEF l
  <1>12. l[0] = k[0] /\ l[h] = h /\ l[h - 1] = k[h - 1]
    BY <1>2, <1>11
  <1>13. ASSUME NEW j \in 1..Hops + 1
         PROVE  /\ l[j] <= l[j - 1] /\ l[j - 1] <= l[0]
                /\ link'[j] = Part(written', Start(l[j]), Start(l[j - 1]))
    <2>1. j \in 0..Hops + 1 /\ j - 1 \in 0..Hops + 1
      BY <1>2
    <2>2. /\ k[j] \in Nat /\ k[j - 1] \in Nat /\ k[j] <= k[j - 1] /\ k[j - 1] <= k[0]
          /\ link[j] = Part(written, Start(k[j]), Start(k[j - 1]))
          /\ k[j] = k[j - 1] => link[j] = <<>>
      BY LinkBlocks DEF Progress
    <2>3. CASE j < h
      <3>1. l[j] = k[j] /\ l[j - 1] = k[j - 1]
        BY <1>2, <1>11, <2>1, <2>3
      <3>2. link'[j] = link[j]
        BY <1>1, <2>3 DEF Types
      <3> QED BY <1>10, <1>12, <2>2, <3>1, <3>2
    <2>4. CASE j = h
      <3>1. link'[j] = Part(written, Start(h), Start(k[h - 1]))
        BY <1>1, <1>2, <1>3, <1>6, <2>4 DEF Types
      <3>2. h <= k[h - 1]
        BY <1>2, <1>3, <1>4, <1>5
      <3> QED BY <1>6, <1>10, <1>12, <2>4, <3>1, <3>2
    <2>5. CASE j > h
      <3>1. l[j] = h /\ l[j - 1] = h /\ k[j] = h - 1 /\ k[j - 1] = h - 1
        <4>1. j - 1 >= h /\ j - 1 \in h..Hops + 1 /\ j \in h..Hops + 1 /\ j >= h
          BY <1>2, <2>5
        <4> QED BY <1>5, <1>11, <2>1, <4>1
      <3>2. link'[j] = <<>>
        BY <1>1, <2>2, <2>5, <3>1 DEF Types
      <3>3. Part(written, Start(h), Start(h)) = <<>>
        <4>1. Part(written, Start(h), Start(h)) = SubSeq(written, Start(h) + 1, Start(h)) /\ Start(h) \in Nat
          BY <1>2, StartFacts DEF Part
        <4>2. written \in Seq(Byte)
          BY DEF Types, Blocks
        <4> QED BY <4>1, <4>2
      <3>4. h <= k[0]
        BY <1>2, <1>3, <1>4, <1>5, <1>6
      <3> QED BY <1>2, <1>10, <1>12, <3>1, <3>2, <3>3, <3>4
    <2> QED BY <1>2, <2>3, <2>4, <2>5
  <1>14. ASSUME NEW g \in Relays
         PROVE  \/ /\ hop'[g] = Waiting /\ l[g] <= g - 1 /\ (l[g] < g - 1 => l[g] = l[g - 1])
                   /\ \A j \in g..Hops + 1 : l[j] = l[g]
                \/ hop'[g] = plan'[g] /\ l[g] >= g
    <2>1. g \in 1..Hops /\ g \in 0..Hops + 1 /\ g - 1 \in 0..Hops + 1
      BY <1>2 DEF Relays
    <2>2. \/ /\ hop[g] = Waiting /\ k[g] <= g - 1 /\ \A j \in g..Hops + 1 : k[j] = k[g]
          \/ hop[g] = plan[g] /\ k[g] >= g
      BY DEF Progress
    <2>3. CASE g = h
      BY <1>2, <1>9, <1>10, <1>12, <2>3 DEF Types
    <2>4. CASE g > h
      <3>1. k[g] = h - 1 /\ g \in h..Hops + 1
        BY <1>2, <1>5, <2>1, <2>4
      <3>2. hop'[g] = Waiting
        BY <1>2, <1>9, <2>1, <2>2, <2>4, <3>1 DEF Types
      <3>3. l[g] = h /\ l[g - 1] = h
        BY <1>2, <1>11, <2>1, <2>4
      <3>4. \A j \in g..Hops + 1 : l[j] = h
        <4>1. \A j \in g..Hops + 1 : j \in 0..Hops + 1 /\ j >= h
          BY <1>2, <2>1, <2>4
        <4> QED BY <1>11, <4>1
      <3> QED BY <1>2, <2>1, <2>4, <3>2, <3>3, <3>4
    <2>5. CASE g < h
      <3>1. h \in g..Hops + 1 /\ k[g] \in Nat
        BY <1>2, <1>4, <2>1, <2>5
      <3>2. ~ (k[g] <= g - 1 /\ k[h] = k[g])
        BY <1>2, <1>5, <2>1, <2>5, <3>1
      <3>3. hop[g] = plan[g] /\ k[g] >= g
        BY <2>2, <3>1, <3>2
      <3>4. l[g] = k[g] /\ hop'[g] = hop[g]
        BY <1>2, <1>9, <1>11, <2>1, <2>5 DEF Types
      <3> QED BY <1>10, <3>3, <3>4
    <2> QED BY <1>2, <2>1, <2>3, <2>4, <2>5
  <1>15. /\ l[0] <= Hops + 1 /\ Len(written') = Start(l[0])
         /\ \A i \in 1..l[0] : \E y \in Seq(Byte) :
               Part(written', Start(i - 1), Start(i)) = Request(0, plan'[i]) \o y
    BY <1>10, <1>12 DEF Progress
  <1>16. Progress(l)'
    BY <1>11, <1>13, <1>14, <1>15 DEF Progress
  <1> QED BY <1>16 DEF l

LEMMA WholeHandleRequest ==
    ASSUME Types, NEW k, Progress(k), NEW h \in Relays, HandleRequest(h), cuts' = 0
    PROVE  Progress([k EXCEPT ![h] = @ + 1])'
  <1> DEFINE l == [k EXCEPT ![h] = @ + 1]
  <1>1. PICK n \in 1..BlockSize :
              /\ Read(h, n)
              /\ link' = [link EXCEPT ![h] = Rest(@, n),
                                      ![h + 1] = @ \o First(link[h], n) \o Rest(Zeros, n)]
    BY DEF HandleRequest
  <1>2. /\ Hops \in Nat /\ h \in 1..Hops /\ h \in Nat /\ h - 1 \in Nat /\ h \in 1..Hops + 1
        /\ h + 1 \in 1..Hops + 1 /\ h # h + 1 /\ (h + 1) - 1 = h
        /\ h - 1 \in 0..Hops + 1 /\ h \in 0..Hops + 1 /\ 0 \in 0..Hops + 1 /\ h # 0
    BY SizesAssumption DEF Relays
  <1>3. n = BlockSize /\ k[h] < k[h - 1]
    BY <1>1, WholeRead
  <1>4. \A j \in 0..Hops + 1 : k[j] \in Nat
    BY DEF Progress
  <1>5. UNCHANGED <<plan, written, hop>> /\ written \in Seq(Byte) /\ Len(written) = Start(k[0])
    BY DEF HandleRequest, Types, Blocks, Progress
  \* The hop has its own block behind it.
  <1>6. hop[h] = plan[h] /\ k[h] >= h
    <2>1. hop[h] # Waiting
      BY TextsAssumption DEF HandleRequest
    <2> QED BY <2>1 DEF Progress
  <1>7. /\ First(link[h], BlockSize) = Part(written, Start(k[h]), Start(k[h] + 1))
        /\ Rest(link[h], BlockSize) = Part(written, Start(k[h] + 1), Start(k[h - 1]))
        /\ k[h - 1] <= k[0]
    BY <1>2, <1>3, LinkBlocks
  <1>8. /\ k[h + 1] <= k[h] /\ link[h + 1] = Part(written, Start(k[h + 1]), Start(k[h]))
        /\ k[h + 1] \in Nat
    <2>1. /\ k[h + 1] <= k[(h + 1) - 1] /\ k[h + 1] \in Nat
          /\ link[h + 1] = Part(written, Start(k[h + 1]), Start(k[(h + 1) - 1]))
      BY <1>2, LinkBlocks DEF Progress
    <2> QED BY <1>2, <2>1
  <1>9. link[h + 1] \o Part(written, Start(k[h]), Start(k[h] + 1))
          = Part(written, Start(k[h + 1]), Start(k[h] + 1))
    <2> DEFINE a == Start(k[h + 1])
               m == Start(k[h])
               z == Start(k[h] + 1)
    <2>1. k[h] \in Nat /\ k[h] + 1 \in Nat /\ k[0] \in Nat /\ k[h] <= k[h] + 1 /\ k[h] + 1 <= k[0]
      <3>1. k[h] \in Nat /\ k[h - 1] \in Nat /\ k[0] \in Nat
        BY <1>2, <1>4
      <3> QED BY <1>3, <1>7, <3>1
    <2>2. a \in Nat /\ m \in Nat /\ z \in Nat /\ a <= m /\ m <= z /\ z <= Len(written)
      BY <1>5, <1>8, <2>1, StartFacts
    <2> HIDE DEF a, m, z
    <2>3. Part(written, a, m) \o Part(written, m, z) = Part(written, a, z)
      BY <1>5, <2>2, PartJoin, Zenon
    <2> QED BY <1>8, <2>3 DEF a, m, z
  <1>10. link' = [link EXCEPT ![h] = Part(written, Start(k[h] + 1), Start(k[h - 1])),
                              ![h + 1] = Part(written, Start(k[h + 1]), Start(k[h] + 1))]
    <2> DEFINE f == Part(written, Start(k[h]), Start(k[h] + 1))
    <2>1. link[h + 1] \o f \in Seq(Byte)
      <3>1. f \in Seq(Byte)
        <4>1. k[h] \in Nat /\ k[h] + 1 \in Nat /\ k[h] <= k[h] + 1 /\ k[h] + 1 <= k[0] /\ k[0] \in Nat
          <5>1. k[h] \in Nat /\ k[h - 1] \in Nat /\ k[0] \in Nat
            BY <1>2, <1>4
          <5> QED BY <1>3, <1>7, <5>1
        <4>2. /\ Start(k[h]) \in Nat /\ Start(k[h] + 1) \in Nat
              /\ Start(k[h]) <= Start(k[h] + 1) /\ Start(k[h] + 1) <= Len(written)
          BY <1>5, <4>1, StartFacts
        <4> QED BY <1>5, <4>2, PartFacts, Zenon
      <3>2. link[h + 1] \in Seq(Byte)
        BY <1>2 DEF Types
      <3> QED BY <3>1, <3>2, Behind, Zenon
    <2> HIDE DEF f
    <2>2. (link[h + 1] \o f) \o Rest(Zeros, n) = link[h + 1] \o f
      BY <1>3, <2>1, ZerosType, Filled
    <2>3. [link EXCEPT ![h] = Rest(@, n)][h + 1] = link[h + 1]
      BY <1>2 DEF Types
    <2>4. First(link[h], n) = f
      BY <1>3, <1>7 DEF f
    <2>5. link' = [link EXCEPT ![h] = Rest(@, n), ![h + 1] = link[h + 1] \o f]
      BY <1>1, <2>2, <2>3, <2>4
    <2> QED BY <1>3, <1>7, <1>9, <2>5 DEF f
  <1>11. /\ l \in [0..Hops + 1 -> Nat] /\ l[h] = k[h] + 1
         /\ \A j \in 0..Hops + 1 : j # h => l[j] = k[j]
    BY SMTT(30), <1>2, <1>4 DEF Progress
  <1> HIDE DEF l
  <1>12. l[0] = k[0] /\ l[h - 1] = k[h - 1] /\ l[h + 1] = k[h + 1]
    <2>1. h - 1 # h /\ h + 1 \in 0..Hops + 1
      BY <1>2
    <2> QED BY <1>2, <1>11, <2>1
  <1>13. ASSUME NEW j \in 1..Hops + 1
         PROVE  /\ l[j] <= l[j - 1] /\ l[j - 1] <= l[0]
                /\ link'[j] = Part(written', Start(l[j]), Start(l[j - 1]))
    <2>1. j \in 0..Hops + 1 /\ j - 1 \in 0..Hops + 1
      BY <1>2
    <2>2. /\ k[j] \in Nat /\ k[j - 1] \in Nat /\ k[j] <= k[j - 1] /\ k[j - 1] <= k[0]
          /\ link[j] = Part(written, Start(k[j]), Start(k[j - 1]))
      BY LinkBlocks DEF Progress
    <2>3. CASE j = h
      <3>1. link'[j] = Part(written, Start(k[h] + 1), Start(k[h - 1]))
        BY <1>2, <1>10, <2>3 DEF Types
      <3> QED BY <1>3, <1>5, <1>11, <1>12, <2>2, <2>3, <3>1
    <2>4. CASE j = h + 1
      <3>1. link'[j] = Part(written, Start(k[h + 1]), Start(k[h] + 1)) /\ j - 1 = h
        BY <1>2, <1>10, <2>4 DEF Types
      <3>2. k[h] + 1 <= k[0] /\ k[j - 1] = k[h] /\ k[j] = k[h + 1]
        <4>1. k[h] \in Nat /\ k[h - 1] \in Nat /\ k[0] \in Nat
          BY <1>2, <1>4
        <4> QED BY <1>3, <1>7, <2>4, <3>1, <4>1
      <3>3. k[h + 1] <= k[h] + 1
        BY <1>2, <1>4, <1>8
      <3> QED BY <1>5, <1>11, <1>12, <2>4, <3>1, <3>2, <3>3
    <2>5. CASE j # h /\ j # h + 1
      <3>1. j - 1 # h
        BY <1>2, <2>5
      <3>2. link'[j] = link[j]
        BY <1>10, <2>5 DEF Types
      <3> QED BY <1>5, <1>11, <1>12, <2>1, <2>2, <2>5, <3>1, <3>2
    <2> QED BY <2>3, <2>4, <2>5
  <1>14. ASSUME NEW g \in Relays
         PROVE  \/ /\ hop'[g] = Waiting /\ l[g] <= g - 1 /\ (l[g] < g - 1 => l[g] = l[g - 1])
                   /\ \A j \in g..Hops + 1 : l[j] = l[g]
                \/ hop'[g] = plan'[g] /\ l[g] >= g
    <2>1. g \in 1..Hops /\ g \in 0..Hops + 1 /\ g - 1 \in 0..Hops + 1 /\ k[g] \in Nat /\ k[h] \in Nat
      BY <1>2, <1>4 DEF Relays
    <2>2. \/ /\ hop[g] = Waiting /\ k[g] <= g - 1 /\ (k[g] < g - 1 => k[g] = k[g - 1])
             /\ \A j \in g..Hops + 1 : k[j] = k[g]
          \/ hop[g] = plan[g] /\ k[g] >= g
      BY DEF Progress
    <2>3. CASE g = h
      BY <1>2, <1>5, <1>6, <1>11, <2>1, <2>3
    <2>4. CASE g # h /\ hop[g] = plan[g] /\ k[g] >= g
      BY <1>5, <1>11, <2>1, <2>4
    <2>5. CASE /\ g # h /\ hop[g] = Waiting /\ k[g] <= g - 1 /\ (k[g] < g - 1 => k[g] = k[g - 1])
               /\ \A j \in g..Hops + 1 : k[j] = k[g]
      <3>1. g > h
        <4>1. ASSUME g < h PROVE FALSE
          <5>1. h \in g..Hops + 1
            BY <1>2, <2>1, <4>1
          <5>2. k[h] = k[g]
            BY <2>5, <5>1
          <5> QED BY <1>2, <1>6, <2>1, <2>5, <4>1, <5>2
        <4> QED BY <1>2, <2>1, <2>5, <4>1
      <3>2. \A j \in g..Hops + 1 : l[j] = k[j]
        <4>1. \A j \in g..Hops + 1 : j # h /\ j \in 0..Hops + 1
          BY <1>2, <2>1, <3>1
        <4> QED BY <1>11, <4>1
      <3>3. l[g] = k[g]
        BY <1>11, <2>1, <2>5
      <3>4. l[g] < g - 1 => l[g] = l[g - 1]
        <4>1. CASE g - 1 = h
          \* The hop before it has its own block behind it.
          <5>1. ~ (k[g] < g - 1)
            <6>1. k[g] < g - 1 => k[g] = k[h]
              BY <2>5, <4>1
            <6> QED BY <1>2, <1>6, <2>1, <4>1, <6>1
          <5> QED BY <3>3, <5>1
        <4>2. CASE g - 1 # h
          <5>1. l[g - 1] = k[g - 1]
            BY <1>11, <2>1, <4>2
          <5> QED BY <2>5, <3>3, <5>1
        <4> QED BY <4>1, <4>2
      <3> QED BY <1>5, <2>5, <3>2, <3>3, <3>4
    <2> QED BY <2>2, <2>3, <2>4, <2>5
  <1>15. /\ l[0] <= Hops + 1 /\ Len(written') = Start(l[0])
         /\ \A i \in 1..l[0] : \E y \in Seq(Byte) :
               Part(written', Start(i - 1), Start(i)) = Request(0, plan'[i]) \o y
    BY <1>5, <1>12 DEF Progress
  <1>16. Progress(l)'
    BY <1>11, <1>13, <1>14, <1>15 DEF Progress
  <1> QED BY <1>16 DEF l

LEMMA WholeStep == Types /\ Types' /\ Whole /\ [Next]_vars => Whole'
  <1> SUFFICES ASSUME Types, Types', Whole, [Next]_vars, cuts' = 0
               PROVE  \E k : Progress(k)'
    BY DEF Whole
  <1>1. cuts = 0
    <2>1. CASE Send \/ UNCHANGED vars
      BY <2>1 DEF Send, vars
    <2>2. CASE \E h \in Relays : BuildPath(h) \/ HandleRequest(h)
      <3>1. PICK h \in Relays, n \in 1..BlockSize : Read(h, n)
        BY <2>2 DEF BuildPath, HandleRequest
      <3> QED BY <3>1, ReadTakes
    <2> QED BY <2>1, <2>2 DEF Next
  <1>2. PICK k : Progress(k)
    BY <1>1 DEF Whole
  <1>3. CASE Send
    BY <1>2, <1>3, WholeSend
  <1>4. ASSUME NEW h \in Relays, BuildPath(h) PROVE \E l : Progress(l)'
    BY <1>2, <1>4, WholeBuildPath
  <1>5. ASSUME NEW h \in Relays, HandleRequest(h) PROVE \E l : Progress(l)'
    BY <1>2, <1>5, WholeHandleRequest
  <1>6. CASE UNCHANGED vars
    <2>1. Progress(k)'
      BY <1>2, <1>6 DEF vars, Progress
    <2> QED BY <2>1
  <1> QED BY <1>3, <1>4, <1>5, <1>6 DEF Next

\* If every read returns all that was sent, no relay of the chain fails and
\* each acts on its own setup, however many relays there are and whatever their
\* buffers held: when it reads, exactly the setups of the ones before it have
\* been read (Node/Server.cpp:207-260, 316-332).
THEOREM WholeReadsCorrect == Spec => []WholeReadsBuild
  <1>1. Whole => WholeReadsBuild
    BY DEF Whole, Progress, WholeReadsBuild
  <1> QED BY <1>1, TypesInit, TypesStep, WholeInit, WholeStep, PTL DEF Spec
=============================================================================
