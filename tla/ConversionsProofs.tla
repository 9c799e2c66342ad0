-------------------------- MODULE ConversionsProofs --------------------------
(***************************************************************************)
(* derToIeeeP1363 for every buffer and every width: what it does not refuse *)
(* it converts without changing either number; the answers of /sign and    *)
(* /identity/sign that rest on it; the two ways a gateway sends tags; and  *)
(* the spellings of a hash, for every hash of every width.                 *)
(***************************************************************************)
EXTENDS Conversions, SequenceTheorems, FiniteSetTheorems, WellFoundedInduction, TLAPS

\* Cutting the zeros for which there is no room leaves the number.
LEMMA StripKeeps ==
  ASSUME NEW n \in Nat, NEW c \in Seq(Byte), Fits(c, n)
  PROVE  /\ StripLeadingZeros(c, n) \in Seq(Byte)
         /\ Len(StripLeadingZeros(c, n)) <= n
         /\ \A k \in Nat : ByteAt(StripLeadingZeros(c, n), k) = ByteAt(c, k)
<1> DEFINE z == Surplus(c, n)
           d == StripLeadingZeros(c, n)
<1>1. Len(c) \in Nat /\ z \in 0..Len(c) /\ Len(c) - z <= n
  BY LenProperties DEF Surplus
<1>2. \A i \in (z + 1)..Len(c) : c[i] \in Byte
  BY <1>1, ElementOfSeq
<1>3. /\ d \in Seq(Byte)
      /\ Len(d) = Len(c) - z
      /\ \A i \in 1..(Len(c) - z) : d[i] = c[z + i]
  <2>1. /\ SubSeq(c, z + 1, Len(c)) \in Seq(Byte)
        /\ Len(SubSeq(c, z + 1, Len(c))) =
             IF z + 1 <= Len(c) THEN Len(c) - (z + 1) + 1 ELSE 0
        /\ \A i \in 1..(Len(c) - (z + 1) + 1) :
             SubSeq(c, z + 1, Len(c))[i] = c[z + 1 + i - 1]
    <3>1. z + 1 \in Int /\ Len(c) \in Int
      BY <1>1
    <3> QED BY <1>2, <3>1, SubSeqProperties
  <2> QED BY <1>1, <2>1 DEF StripLeadingZeros
<1>4. ASSUME NEW k \in Nat
      PROVE  ByteAt(d, k) = ByteAt(c, k)
  <2>1. CASE k < Len(c) - z
    <3>1. d[Len(d) - k] = c[z + (Len(d) - k)]
      BY <1>1, <1>3, <2>1
    <3> QED BY <1>1, <1>3, <2>1, <3>1 DEF ByteAt
  <2>2. CASE ~(k < Len(c) - z) /\ k < Len(c)
    <3>1. Len(c) - k \in 1..z
      BY <1>1, <2>2
    <3>2. c[Len(c) - k] = 0
      BY <3>1 DEF Fits
    <3> QED BY <1>1, <1>3, <2>2, <3>2 DEF ByteAt
  <2>3. CASE ~(k < Len(c))
    BY <1>1, <1>3, <2>3 DEF ByteAt
  <2> QED BY <1>1, <2>1, <2>2, <2>3
<1> QED BY <1>1, <1>3, <1>4

\* Writing a number to the right edge of n bytes leaves it.
LEMMA PaddedKeeps ==
  ASSUME NEW n \in Nat, NEW c \in Seq(Byte), Len(c) <= n
  PROVE  /\ Padded(c, n) \in Seq(Byte)
         /\ Len(Padded(c, n)) = n
         /\ \A k \in Nat : ByteAt(Padded(c, n), k) = ByteAt(c, k)
<1>1. Len(c) \in Nat
  BY LenProperties
<1>2. \A i \in 1..n : Padded(c, n)[i] \in Byte
  <2> SUFFICES ASSUME NEW i \in 1..n PROVE Padded(c, n)[i] \in Byte
    OBVIOUS
  <2>1. CASE i <= n - Len(c)
    BY <2>1 DEF Padded, Byte
  <2>2. CASE ~(i <= n - Len(c))
    <3>1. i - (n - Len(c)) \in 1..Len(c)
      BY <1>1, <2>2
    <3>2. c[i - (n - Len(c))] \in Byte
      BY <3>1, ElementOfSeq
    <3> QED BY <2>2, <3>2 DEF Padded
  <2> QED BY <2>1, <2>2
<1>3. Padded(c, n) \in [1..n -> Byte]
  BY <1>2 DEF Padded
<1>4. Padded(c, n) \in Seq(Byte)
  BY <1>3, SeqDef
<1>5. Len(Padded(c, n)) = n
  <2>1. DOMAIN Padded(c, n) = 1..n
    BY DEF Padded
  <2>2. DOMAIN Padded(c, n) = 1..Len(Padded(c, n)) /\ Len(Padded(c, n)) \in Nat
    BY <1>4, LenProperties
  <2> QED BY <2>1, <2>2
<1>6. ASSUME NEW k \in Nat
      PROVE  ByteAt(Padded(c, n), k) = ByteAt(c, k)
  <2>1. CASE k < n
    <3>1. n - k \in 1..n
      BY <2>1
    <3>2. Padded(c, n)[n - k] =
            IF n - k <= n - Len(c) THEN 0 ELSE c[(n - k) - (n - Len(c))]
      BY <3>1 DEF Padded
    <3>3. (n - k) - (n - Len(c)) = Len(c) - k /\ (n - k <= n - Len(c) <=> k >= Len(c))
      BY <1>1
    <3> QED BY <1>1, <1>5, <2>1, <3>2, <3>3 DEF ByteAt
  <2>2. CASE ~(k < n)
    BY <1>1, <1>5, <2>2 DEF ByteAt
  <2> QED BY <2>1, <2>2
<1> QED BY <1>4, <1>5, <1>6

\* One component of the signature.
LEMMA ComponentKeeps ==
  ASSUME NEW n \in Nat, NEW c \in Seq(Byte), Fits(c, n)
  PROVE  /\ Padded(StripLeadingZeros(c, n), n) \in Seq(Byte)
         /\ Len(Padded(StripLeadingZeros(c, n), n)) = n
         /\ SameNumber(Padded(StripLeadingZeros(c, n), n), c)
<1>1. /\ Padded(StripLeadingZeros(c, n), n) \in Seq(Byte)
      /\ Len(Padded(StripLeadingZeros(c, n), n)) = n
      /\ \A k \in Nat : ByteAt(Padded(StripLeadingZeros(c, n), n), k) = ByteAt(c, k)
  BY StripKeeps, PaddedKeeps
<1>2. Len(c) \in Nat
  BY LenProperties
<1> QED BY <1>1, <1>2 DEF SameNumber

\* The bytes of an INTEGER that HoldsInteger has found are bytes of the buffer.
LEMMA ContentIsBytes ==
  ASSUME NEW der \in Seq(Byte), NEW offset \in Nat, HoldsInteger(der, offset)
  PROVE  /\ Content(der, offset) \in Seq(Byte)
         /\ IntegerEnd(der, offset) \in Nat
<1>1. Len(der) \in Nat
  BY LenProperties
<1>2. der[offset + 2] \in Nat
  <2>1. offset + 2 \in 1..Len(der)
    BY <1>1 DEF HoldsInteger
  <2>2. der[offset + 2] \in Byte
    BY <2>1, ElementOfSeq
  <2>3. \A b \in Byte : b \in Nat
    BY DEF Byte
  <2> QED BY <2>2, <2>3
<1>3. IntegerEnd(der, offset) \in Nat /\ IntegerEnd(der, offset) <= Len(der)
  BY <1>1, <1>2 DEF IntegerEnd, HoldsInteger
<1>4. \A i \in (offset + 3)..IntegerEnd(der, offset) : der[i] \in Byte
  BY <1>1, <1>3, ElementOfSeq
<1>5. offset + 3 \in Int /\ IntegerEnd(der, offset) \in Int
  BY <1>3
<1> QED BY <1>3, <1>4, <1>5, SubSeqProperties DEF Content

\* What Buffer.concat joins can be taken apart again.
LEMMA JoinedParts ==
  ASSUME NEW n \in Nat \ {0}, NEW p \in Seq(Byte), NEW q \in Seq(Byte),
         Len(p) = n, Len(q) = n
  PROVE  /\ p \o q \in Seq(Byte) /\ Len(p \o q) = n + n
         /\ SubSeq(p \o q, 1, n) = p /\ SubSeq(p \o q, n + 1, n + n) = q
<1>1. /\ p \o q \in Seq(Byte) /\ Len(p \o q) = n + n
      /\ \A i \in 1..(n + n) : (p \o q)[i] = IF i <= n THEN p[i] ELSE q[i - n]
  <2>1. /\ p \o q \in Seq(Byte)
        /\ Len(p \o q) = Len(p) + Len(q)
        /\ \A i \in 1..(Len(p) + Len(q)) :
             (p \o q)[i] = IF i <= Len(p) THEN p[i] ELSE q[i - Len(p)]
    BY ConcatProperties, Zenon
  <2> QED BY <2>1
<1>2. \A i \in 1..(n + n) : (p \o q)[i] \in Byte
  BY <1>1, ElementOfSeq
<1>3. SubSeq(p \o q, 1, n) = p
  <2>1. /\ SubSeq(p \o q, 1, n) \in Seq(Byte)
        /\ Len(SubSeq(p \o q, 1, n)) = n
        /\ \A i \in 1..n : SubSeq(p \o q, 1, n)[i] = (p \o q)[i]
    BY <1>2, SubSeqProperties
  <2>2. \A i \in 1..n : SubSeq(p \o q, 1, n)[i] = p[i]
    BY <1>1, <2>1
  <2> QED BY <2>1, <2>2, SeqEqual
<1>4. SubSeq(p \o q, n + 1, n + n) = q
  <2>1. /\ SubSeq(p \o q, n + 1, n + n) \in Seq(Byte)
        /\ Len(SubSeq(p \o q, n + 1, n + n)) = n
        /\ \A i \in 1..n : SubSeq(p \o q, n + 1, n + n)[i] = (p \o q)[n + i]
    <3>1. /\ SubSeq(p \o q, n + 1, n + n) \in Seq(Byte)
          /\ Len(SubSeq(p \o q, n + 1, n + n)) =
               IF n + 1 <= n + n THEN (n + n) - (n + 1) + 1 ELSE 0
          /\ \A i \in 1..((n + n) - (n + 1) + 1) :
               SubSeq(p \o q, n + 1, n + n)[i] = (p \o q)[(n + 1) + i - 1]
      BY <1>2, SubSeqProperties
    <3> QED BY <3>1
  <2>2. \A i \in 1..n : SubSeq(p \o q, n + 1, n + n)[i] = q[i]
    BY <1>1, <2>1
  <2> QED BY <2>1, <2>2, SeqEqual
<1> QED BY <1>1, <1>3, <1>4

\* derToIeeeP1363 refuses a buffer or returns twice n bytes, which are the two
\* INTEGERs behind the header: no input makes it return another number, or a
\* signature of another length.
THEOREM ConversionExact ==
  ASSUME NEW n \in Nat \ {0}, NEW der \in Seq(Byte), DerToIeeeP1363(der, n) # Thrown
  PROVE  LET r == HeaderEnd(der)
             s == IntegerEnd(der, r)
         IN /\ HoldsInteger(der, r) /\ HoldsInteger(der, s)
            /\ DerToIeeeP1363(der, n) \in Seq(Byte)
            /\ Halves(DerToIeeeP1363(der, n), n, Content(der, r), Content(der, s))
<1> DEFINE r == HeaderEnd(der)
           s == IntegerEnd(der, r)
           p == Padded(StripLeadingZeros(Content(der, r), n), n)
           q == Padded(StripLeadingZeros(Content(der, s), n), n)
<1>1. /\ HoldsInteger(der, r) /\ HoldsInteger(der, s)
      /\ Fits(Content(der, r), n) /\ Fits(Content(der, s), n)
      /\ DerToIeeeP1363(der, n) = p \o q
  BY DEF DerToIeeeP1363
<1>2. r \in Nat
  <2>1. CASE Len(der) < 2
    BY <2>1 DEF HeaderEnd
  <2>2. CASE ~(Len(der) < 2)
    <3>1. 2 \in 1..Len(der)
      BY <2>2, LenProperties
    <3>2. der[2] \in Byte
      BY <3>1, ElementOfSeq
    <3> QED BY <3>2 DEF HeaderEnd, Byte
  <2> QED BY <2>1, <2>2
<1>3. Content(der, r) \in Seq(Byte) /\ s \in Nat
  BY <1>1, <1>2, ContentIsBytes
<1>4. Content(der, s) \in Seq(Byte)
  BY <1>1, <1>3, ContentIsBytes
<1>5. /\ p \in Seq(Byte) /\ Len(p) = n /\ SameNumber(p, Content(der, r))
      /\ q \in Seq(Byte) /\ Len(q) = n /\ SameNumber(q, Content(der, s))
  BY <1>1, <1>3, <1>4, ComponentKeeps
<1> HIDE DEF r, s, p, q
<1>6. /\ p \o q \in Seq(Byte) /\ Len(p \o q) = n + n
      /\ SubSeq(p \o q, 1, n) = p /\ SubSeq(p \o q, n + 1, n + n) = q
  BY <1>5, JoinedParts
<1>7. 2 * n = n + n
  OBVIOUS
<1>8. Halves(p \o q, n, Content(der, r), Content(der, s))
  BY <1>5, <1>6, <1>7 DEF Halves
<1> QED BY <1>1, <1>6, <1>8 DEF r, s

(***************************************************************************)
(* What crypto.sign returns                                                *)
(***************************************************************************)
\* SameNumber says that two buffers agree in every byte, counted from the right.
LEMMA SameNumberIs ==
  ASSUME NEW a \in Seq(Byte), NEW b \in Seq(Byte)
  PROVE  SameNumber(a, b) <=> \A k \in Nat : ByteAt(a, k) = ByteAt(b, k)
<1>1. Len(a) \in Nat /\ Len(b) \in Nat
  BY LenProperties
<1>2. ASSUME SameNumber(a, b), NEW k \in Nat PROVE ByteAt(a, k) = ByteAt(b, k)
  <2>1. CASE k \in 0..(Len(a) + Len(b))
    BY <1>2, <2>1 DEF SameNumber
  <2>2. CASE k \notin 0..(Len(a) + Len(b))
    BY <1>1, <2>2 DEF ByteAt
  <2> QED BY <2>1, <2>2
<1>3. ASSUME \A k \in Nat : ByteAt(a, k) = ByteAt(b, k) PROVE SameNumber(a, b)
  BY <1>1, <1>3 DEF SameNumber
<1> QED BY <1>2, <1>3

\* A number that is not 0 has a first byte that is not.
LEMMA FirstByte ==
  ASSUME NEW c \in Seq(Byte), NEW i \in 1..Len(c), c[i] # 0
  PROVE  \E f \in 1..Len(c) : c[f] # 0 /\ \A j \in 1..(f - 1) : c[j] = 0
<1>1. Len(c) \in Nat
  BY LenProperties
<1> DEFINE places == {j \in 1..Len(c) : c[j] # 0}
<1>2. places \in SUBSET Nat /\ places # {}
  BY <1>1
<1>3. PICK f \in places : \A m \in places : ~(<<m, f>> \in OpToRel(<, Nat))
  BY <1>2, NatLessThanWellFounded, WFMin
<1>4. \A m \in places : ~(m < f)
  BY <1>2, <1>3 DEF OpToRel
<1>5. \A j \in 1..(f - 1) : j \notin places
  BY <1>1, <1>4
<1> QED BY <1>1, <1>5

\* An INTEGER has the number, in at most one byte more, and then that is 0.
LEMMA MinimalKeeps ==
  ASSUME NEW c \in Seq(Byte), \E i \in 1..Len(c) : c[i] # 0,
         NEW m, m = MinimalInteger(c)
  PROVE  /\ m \in Seq(Byte) /\ Len(m) \in 1..(Len(c) + 1)
         /\ Len(m) > Len(c) => m[1] = 0
         /\ \A k \in Nat : ByteAt(m, k) = ByteAt(c, k)
<1>1. Len(c) \in Nat
  BY LenProperties
<1> DEFINE IsFirst(f) == (c[f] # 0 \/ f = Len(c)) /\ \A j \in 1..(f - 1) : c[j] = 0
           first == CHOOSE f \in 1..Len(c) : IsFirst(f)
<1>2. first \in 1..Len(c) /\ \A j \in 1..(first - 1) : c[j] = 0
  <2>1. \E f \in 1..Len(c) : IsFirst(f)
    BY FirstByte
  <2>2. first \in 1..Len(c) /\ IsFirst(first)
    <3> HIDE DEF IsFirst
    <3> QED BY <2>1
  <2> QED BY <2>2
<1>3. PICK g : g = SubSeq(c, first, Len(c))
  OBVIOUS
<1>4. m = IF g[1] < 128 THEN g ELSE <<0>> \o g
  BY <1>3 DEF MinimalInteger
<1> HIDE DEF first
<1>5. /\ g \in Seq(Byte) /\ Len(g) = Len(c) - first + 1
      /\ \A i \in 1..(Len(c) - first + 1) : g[i] = c[first + i - 1]
  <2>1. \A i \in first..Len(c) : c[i] \in Byte
    BY <1>1, <1>2, ElementOfSeq
  <2>2. /\ SubSeq(c, first, Len(c)) \in Seq(Byte)
        /\ Len(SubSeq(c, first, Len(c))) = IF first <= Len(c) THEN Len(c) - first + 1 ELSE 0
        /\ \A i \in 1..(Len(c) - first + 1) : SubSeq(c, first, Len(c))[i] = c[first + i - 1]
    <3>1. first \in Int /\ Len(c) \in Int
      BY <1>1, <1>2
    <3> QED BY <2>1, <3>1, SubSeqProperties
  <2> QED BY <1>1, <1>2, <1>3, <2>2
<1>6. ASSUME NEW k \in Nat PROVE ByteAt(g, k) = ByteAt(c, k)
  <2>1. CASE k < Len(g)
    <3>1. g[Len(g) - k] = c[first + (Len(g) - k) - 1]
      BY <1>1, <1>2, <1>5, <2>1
    <3>2. first + (Len(g) - k) - 1 = Len(c) - k /\ k < Len(c)
      BY <1>1, <1>2, <1>5, <2>1
    <3> QED BY <2>1, <3>1, <3>2 DEF ByteAt
  <2>2. CASE ~(k < Len(g)) /\ k < Len(c)
    <3>1. Len(c) - k \in 1..(first - 1)
      BY <1>1, <1>2, <1>5, <2>2
    <3> QED BY <1>2, <2>2, <3>1 DEF ByteAt
  <2>3. CASE ~(k < Len(c))
    BY <1>1, <1>2, <1>5, <2>3 DEF ByteAt
  <2> QED BY <2>1, <2>2, <2>3
<1>7. CASE g[1] < 128
  BY <1>1, <1>2, <1>4, <1>5, <1>6, <1>7
<1>8. CASE ~(g[1] < 128)
  <2>1. PICK z : z = <<0>>
    OBVIOUS
  <2>2. z \in Seq(Byte) /\ Len(z) = 1 /\ z[1] = 0
    BY <2>1 DEF Byte
  <2>3. Len(g) \in Nat /\ Len(g) <= Len(c) /\ Len(g) >= 1
    BY <1>1, <1>2, <1>5
  <2>4. /\ z \o g \in Seq(Byte) /\ Len(z \o g) = Len(g) + 1
        /\ \A i \in 1..(Len(g) + 1) : (z \o g)[i] = IF i <= 1 THEN z[i] ELSE g[i - 1]
    <3>1. /\ z \o g \in Seq(Byte)
          /\ Len(z \o g) = Len(z) + Len(g)
          /\ \A i \in 1..(Len(z) + Len(g)) : (z \o g)[i] = IF i <= Len(z) THEN z[i] ELSE g[i - Len(z)]
      BY <1>5, <2>2, ConcatProperties, Zenon
    <3> QED BY <2>2, <2>3, <3>1
  <2>5. m = z \o g
    BY <1>4, <1>8, <2>1
  <2>6. m \in Seq(Byte) /\ Len(m) = Len(g) + 1 /\ m[1] = 0
    BY <2>2, <2>3, <2>4, <2>5
  <2>7. ASSUME NEW k \in Nat PROVE ByteAt(m, k) = ByteAt(g, k)
    <3>1. CASE k < Len(g)
      <4>1. Len(m) - k \in 2..(Len(g) + 1) /\ (Len(m) - k) - 1 = Len(g) - k
        BY <2>3, <2>6, <3>1
      <4>2. m[Len(m) - k] = g[(Len(m) - k) - 1]
        BY <2>3, <2>4, <2>5, <4>1
      <4> QED BY <2>3, <2>6, <3>1, <4>1, <4>2 DEF ByteAt
    <3>2. CASE k = Len(g)
      <4>1. Len(m) - k = 1
        BY <2>3, <2>6, <3>2
      <4> QED BY <2>3, <2>6, <3>2, <4>1 DEF ByteAt
    <3>3. CASE k > Len(g)
      BY <2>3, <2>6, <3>3 DEF ByteAt
    <3> QED BY <2>3, <3>1, <3>2, <3>3
  <2> QED BY <1>1, <1>6, <2>3, <2>6, <2>7
<1> QED BY <1>7, <1>8

\* What may be a byte.
LEMMA ByteIs ==
  ASSUME NEW x \in 0..255
  PROVE  x \in Byte
BY DEF Byte

\* A buffer of one byte,
LEMMA OneByte ==
  ASSUME NEW x \in Byte, NEW c, c = <<x>>
  PROVE  c \in Seq(Byte) /\ Len(c) = 1 /\ c[1] = x
OBVIOUS

\* and of two.
LEMMA TwoBytes ==
  ASSUME NEW x \in Byte, NEW y \in Byte, NEW c, c = <<x, y>>
  PROVE  c \in Seq(Byte) /\ Len(c) = 2 /\ c[1] = x /\ c[2] = y
OBVIOUS

\* A buffer joined from two.
IsJoined(d, a, b) ==
  /\ d \in Seq(Byte) /\ Len(d) = Len(a) + Len(b)
  /\ Len(a) \in Nat /\ Len(b) \in Nat
  /\ \A i \in 1..Len(a) : d[i] = a[i]
  /\ \A i \in 1..Len(b) : d[Len(a) + i] = b[i]

\* Buffer.concat, byte by byte.
LEMMA Joined ==
  ASSUME NEW a \in Seq(Byte), NEW b \in Seq(Byte), NEW d, d = a \o b
  PROVE  IsJoined(d, a, b)
<1>1. Len(a) \in Nat /\ Len(b) \in Nat
  BY LenProperties
<1>2. /\ d \in Seq(Byte)
      /\ Len(d) = Len(a) + Len(b)
      /\ \A i \in 1..(Len(a) + Len(b)) : d[i] = IF i <= Len(a) THEN a[i] ELSE b[i - Len(a)]
  BY ConcatProperties, Zenon
<1>3. \A i \in 1..Len(a) : d[i] = a[i]
  BY <1>1, <1>2
<1>4. ASSUME NEW i \in 1..Len(b) PROVE d[Len(a) + i] = b[i]
  <2>1. Len(a) + i \in 1..(Len(a) + Len(b)) /\ ~(Len(a) + i <= Len(a)) /\ (Len(a) + i) - Len(a) = i
    BY <1>1
  <2> QED BY <1>2, <2>1
<1> QED BY <1>1, <1>2, <1>3, <1>4 DEF IsJoined

\* An INTEGER of up to 255 bytes behind its tag and its length.
LEMMA TlvIs ==
  ASSUME NEW m \in Seq(Byte), Len(m) \in 0..255, NEW t, t = Tlv(m)
  PROVE  /\ t \in Seq(Byte) /\ Len(t) = Len(m) + 2 /\ t[1] = 2 /\ t[2] = Len(m)
         /\ \A i \in 1..Len(m) : t[2 + i] = m[i]
<1>1. Len(m) \in Nat
  OBVIOUS
<1>2. Len(m) \in Byte /\ 2 \in Byte
  <2>1. 2 \in Byte
    BY DEF Byte
  <2> QED BY <2>1, ByteIs
<1>3. PICK head : head = <<2, Len(m)>>
  OBVIOUS
<1>4. head \in Seq(Byte) /\ Len(head) = 2 /\ head[1] = 2 /\ head[2] = Len(m)
  BY <1>2, <1>3, TwoBytes
<1>5. t = head \o m
  BY <1>3 DEF Tlv
<1>6. /\ t \in Seq(Byte) /\ Len(t) = Len(head) + Len(m)
      /\ \A i \in 1..Len(head) : t[i] = head[i]
      /\ \A i \in 1..Len(m) : t[Len(head) + i] = m[i]
  <2>1. IsJoined(t, head, m)
    BY <1>4, <1>5, Joined
  <2> QED BY <2>1 DEF IsJoined
<1>7. t[1] = head[1] /\ t[2] = head[2]
  <2>1. \A i \in 1..2 : t[i] = head[i]
    BY <1>4, <1>6, Zenon
  <2>2. 1 \in 1..2 /\ 2 \in 1..2
    OBVIOUS
  <2> QED BY <2>1, <2>2, Zenon
<1>8. Len(t) = Len(m) + 2
  <2>1. Len(t) = Len(head) + Len(m) /\ Len(head) = 2
    BY <1>4, <1>6, Zenon
  <2> QED BY <1>1, <2>1
<1> QED BY <1>4, <1>6, <1>7, <1>8

\* An INTEGER that lies somewhere in a buffer is found there.
LEMMA TlvFound ==
  ASSUME NEW m \in Seq(Byte), Len(m) \in 0..255, NEW der \in Seq(Byte), NEW h \in Nat,
         h + Len(m) + 2 <= Len(der),
         \A i \in 1..(Len(m) + 2) : der[h + i] = Tlv(m)[i]
  PROVE  /\ HoldsInteger(der, h) /\ IntegerEnd(der, h) = h + Len(m) + 2
         /\ Content(der, h) = m
<1>1. Len(m) \in Nat /\ Len(der) \in Nat
  BY LenProperties
<1>2. PICK t : t = Tlv(m)
  OBVIOUS
<1>3. t[1] = 2 /\ t[2] = Len(m) /\ \A i \in 1..Len(m) : t[2 + i] = m[i]
  BY <1>2, TlvIs
<1>4. \A i \in 1..(Len(m) + 2) : der[h + i] = t[i]
  BY <1>2
<1>5. der[h + 1] = 2 /\ der[h + 2] = Len(m)
  <2>1. 1 \in 1..(Len(m) + 2) /\ 2 \in 1..(Len(m) + 2)
    BY <1>1
  <2>2. der[h + 1] = t[1] /\ der[h + 2] = t[2]
    BY <1>4, <2>1
  <2> QED BY <1>3, <2>2
<1>6. IntegerEnd(der, h) = h + Len(m) + 2
  BY <1>1, <1>5 DEF IntegerEnd
<1>7. HoldsInteger(der, h)
  BY <1>1, <1>5 DEF HoldsInteger
<1>8. Content(der, h) = SubSeq(der, h + 3, h + Len(m) + 2)
  BY <1>6 DEF Content
<1>9. PICK a, b : a = h + 3 /\ b = h + Len(m) + 2
  OBVIOUS
<1>10. \A i \in a..b : der[i] \in Byte
  BY <1>1, <1>9, ElementOfSeq
<1>11. /\ SubSeq(der, a, b) \in Seq(Byte)
       /\ Len(SubSeq(der, a, b)) = IF a <= b THEN b - a + 1 ELSE 0
       /\ \A i \in 1..(b - a + 1) : SubSeq(der, a, b)[i] = der[a + i - 1]
  <2>1. a \in Int /\ b \in Int
    BY <1>1, <1>9
  <2> QED BY <1>10, <2>1, SubSeqProperties
<1>12. Len(SubSeq(der, a, b)) = Len(m)
  BY <1>1, <1>9, <1>11
<1>13. ASSUME NEW i \in 1..Len(m) PROVE SubSeq(der, a, b)[i] = m[i]
  <2>1. i \in 1..(b - a + 1) /\ a + i - 1 = h + (2 + i) /\ 2 + i \in 1..(Len(m) + 2)
    BY <1>1, <1>9
  <2>2. SubSeq(der, a, b)[i] = der[h + (2 + i)]
    BY <1>11, <2>1
  <2> QED BY <1>3, <1>4, <2>1, <2>2
<1>14. SubSeq(der, a, b) = m
  BY <1>11, <1>12, <1>13, SeqEqual
<1> QED BY <1>6, <1>7, <1>8, <1>9, <1>14

\* Two INTEGERs lie one behind the other,
IsPair(der, h, m, n) ==
  /\ Len(der) = h + (Len(m) + Len(n) + 4)
  /\ \A i \in 1..(Len(m) + 2) : der[h + i] = Tlv(m)[i]
  /\ \A i \in 1..(Len(n) + 2) : der[(h + Len(m) + 2) + i] = Tlv(n)[i]

\* and are found.
Finds(der, h, m, n) ==
  /\ HoldsInteger(der, h) /\ Content(der, h) = m
  /\ HoldsInteger(der, IntegerEnd(der, h)) /\ Content(der, IntegerEnd(der, h)) = n

\* Two INTEGERs of up to 125 bytes behind a header are both found.
LEMMA BothFound ==
  ASSUME NEW m \in Seq(Byte), NEW n \in Seq(Byte), NEW der \in Seq(Byte), NEW h \in 2..3,
         Len(m) \in 1..125, Len(n) \in 1..125, IsPair(der, h, m, n)
  PROVE  Finds(der, h, m, n)
<1> DEFINE lm == Len(m)
           ln == Len(n)
<1>1. /\ lm \in 1..125 /\ ln \in 1..125 /\ lm = Len(m) /\ ln = Len(n)
      /\ Len(der) = h + (lm + ln + 4)
      /\ \A i \in 1..(lm + 2) : der[h + i] = Tlv(m)[i]
      /\ \A i \in 1..(ln + 2) : der[(h + lm + 2) + i] = Tlv(n)[i]
  BY DEF IsPair
<1> HIDE DEF lm, ln
<1>2. /\ h \in Nat /\ h + lm + 2 \in Nat /\ lm \in 0..255 /\ ln \in 0..255
      /\ h + lm + 2 <= h + (lm + ln + 4) /\ (h + lm + 2) + ln + 2 <= h + (lm + ln + 4)
  <2>1. lm \in 1..125 /\ ln \in 1..125
    BY <1>1, Zenon
  <2> QED BY <2>1
<1>3. h + Len(m) + 2 <= Len(der) /\ (h + lm + 2) + Len(n) + 2 <= Len(der)
  BY <1>1, <1>2, Zenon
<1>4. Len(m) \in 0..255 /\ Len(n) \in 0..255
  BY <1>1, <1>2, Zenon
<1>5. /\ HoldsInteger(der, h) /\ IntegerEnd(der, h) = h + Len(m) + 2
      /\ Content(der, h) = m
  BY <1>1, <1>2, <1>3, <1>4, TlvFound
<1>6. PICK k : k = h + lm + 2
  OBVIOUS
<1>7. k \in Nat /\ k + Len(n) + 2 <= Len(der) /\ \A i \in 1..(Len(n) + 2) : der[k + i] = Tlv(n)[i]
  BY <1>1, <1>2, <1>3, <1>6, Zenon
<1>8. HoldsInteger(der, k) /\ Content(der, k) = n
  BY <1>4, <1>7, TlvFound
<1> QED BY <1>1, <1>5, <1>6, <1>8, Zenon DEF Finds

\* In what crypto.sign returns, derToIeeeP1363 finds the two numbers.
LEMMA DerIs ==
  ASSUME NEW r \in Seq(Byte), NEW s \in Seq(Byte), Len(r) <= 124, Len(s) <= 124,
         \E i \in 1..Len(r) : r[i] # 0, \E i \in 1..Len(s) : s[i] # 0,
         NEW der, der = Der(r, s), NEW h, h = HeaderEnd(der), NEW e, e = IntegerEnd(der, h)
  PROVE  /\ der \in Seq(Byte) /\ h \in Nat \ {0}
         /\ HoldsInteger(der, h) /\ Content(der, h) = MinimalInteger(r)
         /\ HoldsInteger(der, e) /\ Content(der, e) = MinimalInteger(s)
<1>1. PICK m : m = MinimalInteger(r)
  OBVIOUS
<1>2. PICK n : n = MinimalInteger(s)
  OBVIOUS
<1>3. m \in Seq(Byte) /\ n \in Seq(Byte)
  BY <1>1, <1>2, MinimalKeeps
<1>4. PICK lm, ln : lm = Len(m) /\ ln = Len(n)
  OBVIOUS
<1>5. lm \in 1..125 /\ ln \in 1..125
  <2>1. Len(r) \in Nat /\ Len(s) \in Nat
    BY LenProperties
  <2>2. lm \in 1..(Len(r) + 1)
    BY <1>1, <1>4, MinimalKeeps
  <2>3. ln \in 1..(Len(s) + 1)
    BY <1>2, <1>4, MinimalKeeps
  <2> QED BY <2>1, <2>2, <2>3
<1>6. PICK t, u : t = Tlv(m) /\ u = Tlv(n)
  OBVIOUS
<1>7. t \in Seq(Byte) /\ Len(t) = lm + 2
  <2>1. Len(m) \in 0..255
    <3>1. lm \in 0..255
      BY <1>5
    <3> QED BY <1>4, <3>1
  <2>2. t \in Seq(Byte) /\ Len(t) = Len(m) + 2
    BY <1>3, <1>6, <2>1, TlvIs
  <2> QED BY <1>4, <2>2
<1>8. u \in Seq(Byte) /\ Len(u) = ln + 2
  <2>1. Len(n) \in 0..255
    <3>1. ln \in 0..255
      BY <1>5
    <3> QED BY <1>4, <3>1
  <2>2. u \in Seq(Byte) /\ Len(u) = Len(n) + 2
    BY <1>3, <1>6, <2>1, TlvIs
  <2> QED BY <1>4, <2>2
<1>9. PICK body : body = t \o u
  OBVIOUS
<1>10. /\ body \in Seq(Byte) /\ Len(body) = Len(t) + Len(u)
       /\ \A i \in 1..Len(t) : body[i] = t[i]
       /\ \A i \in 1..Len(u) : body[Len(t) + i] = u[i]
  <2>1. IsJoined(body, t, u)
    BY <1>7, <1>8, <1>9, Joined
  <2> QED BY <2>1 DEF IsJoined
<1>11. PICK lb : lb = Len(body)
  OBVIOUS
<1>12. lb = lm + ln + 4 /\ lb \in 6..254
  BY <1>5, <1>7, <1>8, <1>10, <1>11
<1>13. PICK tag, length : tag = <<48>> /\ length = LengthOf(lb)
  OBVIOUS
<1>14. tag \in Seq(Byte) /\ Len(tag) = 1 /\ tag[1] = 48
  <2>1. 48 \in Byte
    <3>1. 48 \in 0..255
      OBVIOUS
    <3> QED BY <3>1, ByteIs
  <2> QED BY <1>13, <2>1, OneByte, Zenon
<1>15. /\ length \in Seq(Byte) /\ Len(length) \in 1..2
       /\ Len(length) = 1 => length[1] < 128
       /\ Len(length) = 2 => length[1] = 129
  <2>1. lb \in Byte /\ 129 \in Byte
    <3>1. lb \in 0..255 /\ 129 \in 0..255
      BY <1>12
    <3> QED BY <3>1, ByteIs
  <2>2. CASE lb < 128
    <3>1. length = <<lb>>
      BY <1>13, <2>2 DEF LengthOf
    <3>2. length \in Seq(Byte) /\ Len(length) = 1 /\ length[1] = lb
      BY <2>1, <3>1, OneByte, Zenon
    <3> QED BY <2>2, <3>2
  <2>3. CASE ~(lb < 128)
    <3>1. length = <<129, lb>>
      BY <1>13, <2>3 DEF LengthOf
    <3>2. length \in Seq(Byte) /\ Len(length) = 2 /\ length[1] = 129
      BY <2>1, <3>1, TwoBytes
    <3> QED BY <3>2
  <2> QED BY <2>2, <2>3
<1>16. PICK head : head = tag \o length
  OBVIOUS
<1>17. /\ head \in Seq(Byte) /\ Len(head) = 1 + Len(length)
       /\ head[1] = 48 /\ head[2] = length[1]
  <2>1. /\ head \in Seq(Byte) /\ Len(head) = Len(tag) + Len(length)
        /\ \A i \in 1..Len(tag) : head[i] = tag[i]
        /\ \A i \in 1..Len(length) : head[Len(tag) + i] = length[i]
    <3>1. IsJoined(head, tag, length)
      BY <1>14, <1>15, <1>16, Joined
    <3> QED BY <3>1 DEF IsJoined
  <2>2. 1 \in 1..Len(tag) /\ 1 \in 1..Len(length) /\ Len(tag) + 1 = 2
    BY <1>14, <1>15
  <2>3. head[1] = tag[1] /\ head[2] = length[1]
    BY <2>1, <2>2
  <2> QED BY <1>14, <2>1, <2>3
<1>18. der = head \o body
  BY <1>1, <1>2, <1>6, <1>9, <1>11, <1>13, <1>16 DEF Der
<1>19. /\ der \in Seq(Byte) /\ Len(der) = Len(head) + Len(body)
       /\ \A i \in 1..Len(head) : der[i] = head[i]
       /\ \A i \in 1..Len(body) : der[Len(head) + i] = body[i]
  <2>1. IsJoined(der, head, body)
    BY <1>10, <1>17, <1>18, Joined
  <2> QED BY <2>1 DEF IsJoined
<1>20. PICK ld : ld = Len(der)
  OBVIOUS
<1>21. h = Len(head) /\ h \in 2..3 /\ ld = h + lb
  <2>1. PICK lh, ll : lh = Len(head) /\ ll = Len(length)
    OBVIOUS
  <2>2. ll \in 1..2 /\ lh = 1 + ll /\ ld = lh + lb
    BY <1>11, <1>15, <1>17, <1>19, <1>20, <2>1
  <2>3. 1 \in 1..lh /\ 2 \in 1..lh /\ ld \in Int /\ ld > 3 /\ lh \in 2..3
    <3>1. lb \in 6..254
      BY <1>12
    <3> QED BY <2>2, <3>1
  <2>4. der[1] = 48 /\ der[2] = length[1]
    BY <1>17, <1>19, <2>1, <2>3
  <2>5. CASE ll = 1
    <3>1. der[2] < 128
      BY <1>15, <2>1, <2>4, <2>5
    <3>2. HeaderEnd(der) = 2
      BY <1>20, <2>3, <2>4, <3>1 DEF HeaderEnd
    <3> QED BY <2>1, <2>2, <2>5, <3>2
  <2>6. CASE ll = 2
    <3>1. der[2] = 129
      BY <1>15, <2>1, <2>4, <2>6
    <3>2. HeaderEnd(der) = 3
      BY <1>20, <2>3, <2>4, <3>1 DEF HeaderEnd
    <3> QED BY <2>1, <2>2, <2>6, <3>2
  <2> QED BY <2>2, <2>5, <2>6
<1>22. /\ \A i \in 1..(lm + 2) : der[h + i] = Tlv(m)[i]
       /\ \A i \in 1..(ln + 2) : der[(h + lm + 2) + i] = Tlv(n)[i]
  <2>1. ASSUME NEW i \in 1..(lm + 2) PROVE der[h + i] = Tlv(m)[i]
    <3>1. i \in 1..Len(t) /\ i \in 1..Len(body)
      BY <1>5, <1>7, <1>11, <1>12
    <3>2. der[h + i] = body[i] /\ body[i] = t[i]
      BY <1>10, <1>19, <1>21, <3>1
    <3> QED BY <1>6, <3>2
  <2>2. ASSUME NEW i \in 1..(ln + 2) PROVE der[(h + lm + 2) + i] = Tlv(n)[i]
    <3>1. i \in 1..Len(u) /\ Len(t) + i \in 1..Len(body)
      BY <1>5, <1>7, <1>8, <1>11, <1>12
    <3>2. (h + lm + 2) + i = Len(head) + (Len(t) + i)
      BY <1>5, <1>7, <1>21
    <3>3. der[Len(head) + (Len(t) + i)] = body[Len(t) + i] /\ body[Len(t) + i] = u[i]
      BY <1>10, <1>19, <3>1
    <3> QED BY <1>6, <3>2, <3>3
  <2> QED BY <2>1, <2>2
<1>23. h \in 2..3 /\ Len(der) = h + (lm + ln + 4)
  BY <1>12, <1>20, <1>21
<1>24. Finds(der, h, m, n)
  <2>1. IsPair(der, h, m, n)
    BY <1>4, <1>22, <1>23, Zenon DEF IsPair
  <2>2. Len(m) \in 1..125 /\ Len(n) \in 1..125
    BY <1>4, <1>5, Zenon
  <2> QED BY <1>3, <1>19, <1>23, <2>1, <2>2, BothFound
<1>25. h \in Nat \ {0}
  BY <1>23
<1> QED BY <1>1, <1>2, <1>19, <1>24, <1>25 DEF Finds

\* The number of a key, as a buffer.
LEMMA NumberIs ==
  ASSUME NEW n \in 1..124, NEW c \in Numbers(n)
  PROVE  c \in Seq(Byte) /\ Len(c) = n /\ \E i \in 1..Len(c) : c[i] # 0
<1>1. c \in [1..n -> Byte] /\ \E i \in 1..n : c[i] # 0
  BY ConversionsAssumption DEF Numbers
<1>2. n \in Nat
  OBVIOUS
<1>3. c \in Seq(Byte)
  BY <1>1, <1>2, SeqDef
<1>4. Len(c) = n
  <2>1. DOMAIN c = 1..n
    BY <1>1
  <2>2. DOMAIN c = 1..Len(c) /\ Len(c) \in Nat
    BY <1>3, LenProperties
  <2> QED BY <1>2, <2>1, <2>2
<1> QED BY <1>1, <1>3, <1>4

\* A minimal INTEGER of a number that has room fits.
LEMMA MinimalFits ==
  ASSUME NEW n \in Nat, NEW c \in Seq(Byte), \E i \in 1..Len(c) : c[i] # 0, Len(c) <= n
  PROVE  Fits(MinimalInteger(c), n)
<1>1. PICK m : m = MinimalInteger(c)
  OBVIOUS
<1>2. m \in Seq(Byte) /\ Len(m) \in 1..(Len(c) + 1) /\ (Len(m) > Len(c) => m[1] = 0)
  BY <1>1, MinimalKeeps
<1>3. PICK lm, lc : lm = Len(m) /\ lc = Len(c)
  OBVIOUS
<1>4. lc \in Nat /\ lm \in 1..(lc + 1) /\ (lm > lc => m[1] = 0) /\ lc <= n
  BY <1>2, <1>3, LenProperties
<1>5. CASE lm > n
  <2>1. lm = n + 1 /\ lm > lc
    BY <1>4, <1>5
  <2>2. Surplus(m, n) = 1
    BY <1>3, <2>1 DEF Surplus
  <2> QED BY <1>1, <1>4, <2>1, <2>2 DEF Fits
<1>6. CASE ~(lm > n)
  <2>1. Surplus(m, n) = 0
    BY <1>3, <1>6 DEF Surplus
  <2> QED BY <1>1, <2>1 DEF Fits
<1> QED BY <1>5, <1>6

\* Half of a signature is a buffer, and has the number that its INTEGER has.
LEMMA HalvesOf ==
  ASSUME NEW n \in Nat, NEW x \in Seq(Byte), NEW a \in Seq(Byte), NEW b \in Seq(Byte),
         NEW r \in Seq(Byte), NEW s \in Seq(Byte), Halves(x, n, a, b),
         \A k \in Nat : ByteAt(a, k) = ByteAt(r, k),
         \A k \in Nat : ByteAt(b, k) = ByteAt(s, k)
  PROVE  Halves(x, n, r, s)
<1>1. PICK p, q : p = SubSeq(x, 1, n) /\ q = SubSeq(x, n + 1, 2 * n)
  OBVIOUS
<1>2. Len(x) = 2 * n /\ SameNumber(p, a) /\ SameNumber(q, b)
  BY <1>1 DEF Halves
<1>3. \A i \in 1..Len(x) : x[i] \in Byte
  BY ElementOfSeq
<1>4. p \in Seq(Byte)
  <2>1. \A i \in 1..n : x[i] \in Byte
    BY <1>2, <1>3
  <2>2. 1 \in Int /\ n \in Int
    OBVIOUS
  <2> QED BY <1>1, <2>1, <2>2, SubSeqProperties
<1>5. q \in Seq(Byte)
  <2>1. PICK f, l : f = n + 1 /\ l = 2 * n
    OBVIOUS
  <2>2. f \in Int /\ l \in Int /\ \A i \in f..l : x[i] \in Byte
    BY <1>2, <1>3, <2>1
  <2> QED BY <1>1, <2>1, <2>2, SubSeqProperties
<1>6. \A k \in Nat : ByteAt(p, k) = ByteAt(a, k)
  BY <1>2, <1>4, SameNumberIs
<1>7. \A k \in Nat : ByteAt(q, k) = ByteAt(b, k)
  BY <1>2, <1>5, SameNumberIs
<1>8. \A k \in Nat : ByteAt(p, k) = ByteAt(r, k)
  BY <1>6
<1>9. \A k \in Nat : ByteAt(q, k) = ByteAt(s, k)
  BY <1>7
<1>10. SameNumber(p, r) /\ SameNumber(q, s)
  BY <1>4, <1>5, <1>8, <1>9, SameNumberIs
<1> QED BY <1>1, <1>2, <1>10 DEF Halves

\* What is signed with a key comes out with its two numbers, and does come out if
\* they have room.
LEMMA SignedExact ==
  ASSUME NEW n \in 1..124, NEW r \in Numbers(n), NEW s \in Numbers(n),
         NEW x, x = DerToIeeeP1363(Der(r, s), ComponentBytes)
  PROVE  /\ x # Thrown => Halves(x, ComponentBytes, r, s)
         /\ n <= ComponentBytes => x # Thrown
<1>1. r \in Seq(Byte) /\ Len(r) = n /\ \E i \in 1..Len(r) : r[i] # 0
  BY NumberIs
<1>2. s \in Seq(Byte) /\ Len(s) = n /\ \E i \in 1..Len(s) : s[i] # 0
  BY NumberIs
<1>3. PICK der : der = Der(r, s)
  OBVIOUS
<1>4. PICK h : h = HeaderEnd(der)
  OBVIOUS
<1>5. PICK e : e = IntegerEnd(der, h)
  OBVIOUS
<1>6. PICK a, b : a = MinimalInteger(r) /\ b = MinimalInteger(s)
  OBVIOUS
<1>7. Len(r) <= 124 /\ Len(s) <= 124
  BY <1>1, <1>2
<1>8. /\ der \in Seq(Byte) /\ h \in Nat \ {0}
      /\ HoldsInteger(der, h) /\ Content(der, h) = a
      /\ HoldsInteger(der, e) /\ Content(der, e) = b
  BY <1>1, <1>2, <1>3, <1>4, <1>5, <1>6, <1>7, DerIs
<1>9. a \in Seq(Byte) /\ \A k \in Nat : ByteAt(a, k) = ByteAt(r, k)
  BY <1>1, <1>6, MinimalKeeps
<1>10. b \in Seq(Byte) /\ \A k \in Nat : ByteAt(b, k) = ByteAt(s, k)
  BY <1>2, <1>6, MinimalKeeps
<1>11. ComponentBytes \in Nat \ {0}
  BY SigningAssumption
<1>12. ASSUME x # Thrown PROVE Halves(x, ComponentBytes, r, s)
  <2>1. x \in Seq(Byte) /\ Halves(x, ComponentBytes, a, b)
    BY <1>3, <1>4, <1>5, <1>8, <1>11, <1>12, ConversionExact
  <2> QED BY <1>1, <1>2, <1>9, <1>10, <1>11, <2>1, HalvesOf
<1>13. ASSUME n <= ComponentBytes PROVE x # Thrown
  <2>1. Fits(a, ComponentBytes)
    BY <1>1, <1>6, <1>11, <1>13, MinimalFits
  <2>2. Fits(b, ComponentBytes)
    BY <1>2, <1>6, <1>11, <1>13, MinimalFits
  <2>3. PICK p : p = Padded(StripLeadingZeros(a, ComponentBytes), ComponentBytes)
    OBVIOUS
  <2>4. PICK q : q = Padded(StripLeadingZeros(b, ComponentBytes), ComponentBytes)
    OBVIOUS
  <2>5. x = p \o q
    BY <1>3, <1>4, <1>5, <1>8, <2>1, <2>2, <2>3, <2>4 DEF DerToIeeeP1363
  <2>6. p \in Seq(Byte) /\ Len(p) = ComponentBytes
    BY <1>9, <1>11, <2>1, <2>3, ComponentKeeps
  <2>7. q \in Seq(Byte) /\ Len(q) = ComponentBytes
    BY <1>10, <1>11, <2>2, <2>4, ComponentKeeps
  <2>8. IsJoined(x, p, q)
    BY <2>5, <2>6, <2>7, Joined
  <2>9. Len(x) = ComponentBytes + ComponentBytes
    BY <2>6, <2>7, <2>8 DEF IsJoined
  <2> QED BY <1>11, <2>9 DEF Thrown
<1> QED BY <1>12, <1>13

(***************************************************************************)
(* Signatures                                                              *)
(***************************************************************************)
\* However a fault alters a buffer, it is one still.
LEMMA AlteredIsBytes ==
  ASSUME NEW der \in Seq(Byte), Len(der) >= 2, NEW a \in Altered(der)
  PROVE  a \in Seq(Byte)
<1>1. Len(der) \in Nat
  BY LenProperties
<1>2. ASSUME NEW m \in Int, NEW n \in Int, m >= 1, n <= Len(der) PROVE SubSeq(der, m, n) \in Seq(Byte)
  <2>1. \A i \in m..n : der[i] \in Byte
    BY <1>1, <1>2, ElementOfSeq
  <2> QED BY <2>1, SubSeqProperties
<1>3. ASSUME NEW n \in 0..Len(der), a = SubSeq(der, 1, n) PROVE a \in Seq(Byte)
  BY <1>1, <1>2, <1>3
<1>4. CASE a = der \o <<0>>
  <2>1. 0 \in Byte
    BY DEF Byte
  <2>2. <<0>> \in Seq(Byte)
    BY <2>1, OneByte
  <2> QED BY <1>4, <2>2, Joined DEF IsJoined
<1>5. CASE a = <<48, 129, der[2]>> \o SubSeq(der, 3, Len(der))
  <2>1. 48 \in Byte /\ 129 \in Byte
    BY DEF Byte
  <2>2. der[2] \in Byte
    BY <1>1, ElementOfSeq
  <2>3. PICK head : head = <<48, 129, der[2]>>
    OBVIOUS
  <2>4. head \in Seq(Byte)
    BY <2>1, <2>2, <2>3
  <2>5. PICK rest : rest = SubSeq(der, 3, Len(der))
    OBVIOUS
  <2>6. rest \in Seq(Byte)
    BY <1>1, <1>2, <2>5
  <2>7. a = head \o rest
    BY <1>5, <2>3, <2>5
  <2> QED BY <2>4, <2>6, <2>7, Joined DEF IsJoined
<1>6. ASSUME NEW i \in DOMAIN der, NEW b \in Fillers, a = [der EXCEPT ![i] = b] PROVE a \in Seq(Byte)
  <2>1. b \in Byte
    BY ConversionsAssumption
  <2>2. DOMAIN der = 1..Len(der) /\ \A j \in 1..Len(der) : der[j] \in Byte
    BY <1>1, ElementOfSeq, LenProperties
  <2>3. a \in [1..Len(der) -> Byte]
    BY <1>6, <2>1, <2>2
  <2> QED BY <1>1, <2>3, SeqDef
<1> QED BY <1>3, <1>4, <1>5, <1>6 DEF Altered

\* What crypto.sign returns is a buffer of two bytes at least.
LEMMA DerIsBytes ==
  ASSUME NEW n \in 1..124, NEW r \in Numbers(n), NEW s \in Numbers(n), NEW der, der = Der(r, s)
  PROVE  der \in Seq(Byte) /\ Len(der) >= 2
<1>1. r \in Seq(Byte) /\ Len(r) = n /\ \E i \in 1..Len(r) : r[i] # 0
  BY NumberIs
<1>2. s \in Seq(Byte) /\ Len(s) = n /\ \E i \in 1..Len(s) : s[i] # 0
  BY NumberIs
<1>3. PICK h : h = HeaderEnd(der)
  OBVIOUS
<1>4. Len(r) <= 124 /\ Len(s) <= 124
  BY <1>1, <1>2
<1>5. der \in Seq(Byte) /\ h # 0
  <2>1. PICK e : e = IntegerEnd(der, h)
    OBVIOUS
  <2> QED BY <1>1, <1>2, <1>3, <1>4, <2>1, DerIs
<1>6. Len(der) \in Nat
  BY <1>5, LenProperties
<1>7. ~(Len(der) < 2)
  BY <1>3, <1>5 DEF HeaderEnd
<1> QED BY <1>5, <1>6, <1>7

\* Where the header of a buffer may end.
LEMMA HeaderEndIs ==
  ASSUME NEW der \in Seq(Byte), NEW h, h = HeaderEnd(der)
  PROVE  h = 0 \/ h \in 2..6
<1>1. CASE Len(der) < 2
  BY <1>1 DEF HeaderEnd
<1>2. CASE ~(Len(der) < 2)
  <2>1. 2 \in 1..Len(der)
    BY <1>2, LenProperties
  <2>2. der[2] \in Byte
    BY <2>1, ElementOfSeq
  <2>3. PICK d : d = der[2]
    OBVIOUS
  <2>4. d \in 0..255
    BY <2>2, <2>3 DEF Byte
  <2>5. h = IF der[1] # 48 THEN 0 ELSE IF d < 128 THEN 2
            ELSE IF d - 128 \in 1..4 /\ d - 127 < Len(der) THEN d - 126 ELSE 0
    BY <1>2, <2>3 DEF HeaderEnd
  <2> QED BY <2>4, <2>5
<1> QED BY <1>1, <1>2

\* A signature that derToIeeeP1363 returns has the two INTEGERs of its buffer.
LEMMA ReturnedIsHeld ==
  ASSUME NEW der \in Seq(Byte), NEW x, x = DerToIeeeP1363(der, ComponentBytes), x # Thrown
  PROVE  \E rs \in Integers2(der) : Halves(x, ComponentBytes, rs[1], rs[2])
<1>1. PICK h : h = HeaderEnd(der)
  OBVIOUS
<1>2. PICK e : e = IntegerEnd(der, h)
  OBVIOUS
<1>3. /\ HoldsInteger(der, h) /\ HoldsInteger(der, e)
      /\ Halves(x, ComponentBytes, Content(der, h), Content(der, e))
  BY <1>1, <1>2, ConversionExact, SigningAssumption
<1>4. h \in 2..6
  <2>1. h # 0
    BY <1>1 DEF DerToIeeeP1363
  <2> QED BY <1>1, <2>1, HeaderEndIs
<1>5. Len(der) \in Nat
  BY LenProperties
<1>6. PICK d : d = der[h + 2]
  OBVIOUS
<1>7. d \in 0..255
  <2>1. h + 2 \in 1..Len(der)
    BY <1>3, <1>4, <1>5 DEF HoldsInteger
  <2>2. der[h + 2] \in Byte
    BY <2>1, ElementOfSeq
  <2> QED BY <1>6, <2>2 DEF Byte
<1>8. e = h + 2 + d
  BY <1>2, <1>6 DEF IntegerEnd
<1>9. /\ h + 3 < Len(der) /\ h + 4 + d <= Len(der)
      /\ der[h + 1] = 2 /\ der[h + 3 + d] = 2
  <2>1. e + 1 < Len(der) /\ der[e + 1] = 2 /\ der[h + 1] = 2
    BY <1>3 DEF HoldsInteger
  <2>2. e + 1 = h + 3 + d
    BY <1>4, <1>7, <1>8
  <2> QED BY <1>4, <1>5, <1>7, <2>1, <2>2
<1>10. PICK a, b : a = Content(der, h) /\ b = Content(der, e)
  OBVIOUS
<1>11. a = SubSeq(der, h + 3, h + 2 + d)
  BY <1>2, <1>8, <1>10 DEF Content
<1>12. b = SubSeq(der, h + 5 + d, h + 4 + d + der[h + 4 + d])
  <2>1. b = SubSeq(der, e + 3, e + 2 + der[e + 2])
    BY <1>10 DEF Content, IntegerEnd
  <2>2. e + 3 = h + 5 + d /\ e + 2 = h + 4 + d
    BY <1>4, <1>7, <1>8
  <2> QED BY <2>1, <2>2, Zenon
<1>13. <<a, b>> \in Integers2(der)
  BY <1>4, <1>6, <1>9, <1>11, <1>12, Zenon DEF Integers2
<1> QED BY <1>3, <1>10, <1>13, Zenon

\* Zeros that lead a number, the sign byte and a number that fills its component
\* come out as they went in: what derToIeeeP1363 returns are the numbers of the
\* DER, however it was damaged, and every signature of a key of the configured
\* curve is returned.
THEOREM SignatureExactHolds == Spec => []SignatureExact
<1>1. Init => SignatureExact
  BY DEF Init, SignatureExact
<1>2. SignatureExact /\ [Next]_vars => SignatureExact'
  <2> SUFFICES ASSUME SignatureExact, [Next]_vars PROVE SignatureExact'
    OBVIOUS
  <2>1. CASE ConvertDer
    <3>1. PICK n \in KeyBytes : \E r, s \in Numbers(n) : \E der \in Altered(Der(r, s)) :
            Convert([kind |-> "der", der |-> der], DerToIeeeP1363(der, ComponentBytes))
      BY <2>1 DEF ConvertDer
    <3>2. PICK r \in Numbers(n), s \in Numbers(n) : \E der \in Altered(Der(r, s)) :
            Convert([kind |-> "der", der |-> der], DerToIeeeP1363(der, ComponentBytes))
      BY <3>1
    <3>3. PICK der \in Altered(Der(r, s)) :
            Convert([kind |-> "der", der |-> der], DerToIeeeP1363(der, ComponentBytes))
      BY <3>2
    <3>4. n \in 1..124
      BY ConversionsAssumption
    <3>5. der \in Seq(Byte)
      <4>1. PICK made : made = Der(r, s)
        OBVIOUS
      <4>2. made \in Seq(Byte) /\ Len(made) >= 2
        BY <3>4, <4>1, DerIsBytes
      <4> QED BY <3>3, <4>1, <4>2, AlteredIsBytes
    <3>6. job' = [kind |-> "der", der |-> der] /\ outcome' = DerToIeeeP1363(der, ComponentBytes)
      BY <3>3 DEF Convert
    <3>7. job'.kind = "der" /\ job'.der = der
      BY <3>6
    <3>8. outcome' = Thrown \/ \E rs \in Integers2(der) : Halves(outcome', ComponentBytes, rs[1], rs[2])
      BY <3>5, <3>6, ReturnedIsHeld
    <3> QED BY <3>7, <3>8 DEF SignatureExact
  <2>2. CASE Sign
    <3>1. PICK enabled \in BOOLEAN, bytes \in 0..1, format \in {"der", "p1363"},
              key \in {"pem", "kms", "none"}, n \in KeyBytes :
            \E r, s \in Numbers(n) :
              Convert([kind |-> "sign", format |-> format, key |-> key, r |-> r, s |-> s],
                      PostSign(enabled, bytes, format, key, r, s))
      BY <2>2 DEF Sign
    <3>2. PICK r \in Numbers(n), s \in Numbers(n) :
              Convert([kind |-> "sign", format |-> format, key |-> key, r |-> r, s |-> s],
                      PostSign(enabled, bytes, format, key, r, s))
      BY <3>1
    <3>3. /\ job'.kind = "sign" /\ job'.format = format /\ job'.key = key
          /\ job'.r = r /\ job'.s = s
          /\ outcome' = PostSign(enabled, bytes, format, key, r, s)
      BY <3>2 DEF Convert
    <3>4. n \in 1..124
      BY ConversionsAssumption
    <3>5. Len(r) = n
      BY <3>4, NumberIs
    <3>6. PICK x : x = DerToIeeeP1363(Der(r, s), ComponentBytes)
      OBVIOUS
    <3>7. x # Thrown => Halves(x, ComponentBytes, r, s)
      BY <3>4, <3>6, SignedExact
    <3>8. n <= ComponentBytes => x # Thrown
      BY <3>4, <3>6, SignedExact
    <3>9. n \in Int /\ ComponentBytes \in Int
      BY <3>4, SigningAssumption
    <3>10. format = "p1363" => SignCose(key, r, s) = IF key = "pem" THEN x ELSE Thrown
      BY <3>6 DEF SignCose
    <3>11. CASE format = "p1363"
      <4>1. outcome' = IF ~enabled THEN Answered(501, Thrown)
                       ELSE IF bytes = 0 THEN Answered(400, Thrown)
                       ELSE Signed(IF key = "pem" THEN x ELSE Thrown)
        BY <3>3, <3>10, <3>11 DEF PostSign
      <4>2. outcome'.status = 200 => outcome'.body = x /\ x # Thrown
        BY <4>1 DEF Answered, Signed
      <4>3. outcome'.status = 500 => key # "pem" \/ x = Thrown
        BY <4>1 DEF Answered, Signed
      <4> QED BY <3>3, <3>5, <3>7, <3>8, <3>9, <4>2, <4>3 DEF SignatureExact
    <3>12. CASE format # "p1363"
      BY <3>3, <3>12 DEF SignatureExact
    <3> QED BY <3>11, <3>12
  <2>3. CASE SignIdentity
    <3>1. job'.kind = "identity"
      BY <2>3 DEF SignIdentity, Convert
    <3> QED BY <3>1 DEF SignatureExact
  <2>4. CASE Compare
    <3>1. job'.kind = "hash"
      BY <2>4 DEF Compare, Convert
    <3> QED BY <3>1 DEF SignatureExact
  <2>5. CASE Parse
    <3>1. job'.kind = "text"
      BY <2>5 DEF Parse, Convert
    <3> QED BY <3>1 DEF SignatureExact
  <2>6. CASE Decode
    <3>1. job'.kind = "tags"
      BY <2>6 DEF Decode, Convert
    <3> QED BY <3>1 DEF SignatureExact
  <2>7. CASE UNCHANGED vars
    BY <2>7 DEF vars, SignatureExact
  <2> QED BY <2>1, <2>2, <2>3, <2>4, <2>5, <2>6, <2>7 DEF Next
<1> QED BY <1>1, <1>2, PTL DEF Spec

\* The estimate is at least what is decoded and at most three bytes above.
LEMMA EstimateIsNear ==
  ASSUME NEW chars \in Nat, NEW padding \in 0..2
  PROVE  /\ Decoded(chars) \in Nat /\ EstimatedBytes(chars, padding) \in Nat
         /\ Decoded(chars) <= EstimatedBytes(chars, padding)
         /\ EstimatedBytes(chars, padding) <= Decoded(chars) + 3
<1>1. PICK a, b : a = chars * 3 /\ b = (chars + padding) * 3 + 3
  OBVIOUS
<1>2. a \in Nat /\ b \in Nat /\ a <= b /\ b <= a + 9
  BY <1>1
<1>3. a \div 4 \in Nat /\ b \div 4 \in Nat /\ a \div 4 <= b \div 4 /\ b \div 4 <= a \div 4 + 3
  BY <1>2
<1> QED BY <1>1, <1>3 DEF Decoded, EstimatedBytes

\* The limit of /identity/sign, taken from the length of base64 text with padding
\* or without: nothing above it is signed, and no payload is refused that is three
\* bytes below.
THEOREM PayloadLimitHolds == Spec => []PayloadLimit
<1>1. Init => PayloadLimit
  BY DEF Init, PayloadLimit
<1>2. PayloadLimit /\ [Next]_vars => PayloadLimit'
  <2> SUFFICES ASSUME PayloadLimit, [Next]_vars PROVE PayloadLimit'
    OBVIOUS
  <2>1. CASE SignIdentity
    <3>1. PICK enabled \in BOOLEAN, complete \in BOOLEAN, isBase64 \in BOOLEAN,
              wallet \in {"same", "other", "invalid"},
              chars \in 0..(2 * MaxPayloadBytes), padding \in 0..2, key \in {"pem", "kms"},
              r \in Numbers(1) :
            Convert([kind |-> "identity", chars |-> chars, key |-> key],
                    IdentitySign(enabled, complete, wallet, isBase64, chars, padding, key, r, r))
      BY <2>1 DEF SignIdentity
    <3>2. /\ job'.chars = chars
          /\ outcome' = IdentitySign(enabled, complete, wallet, isBase64, chars, padding, key, r, r)
      BY <3>1 DEF Convert
    <3>3. outcome'.status = 200 => ~PayloadTooLarge(chars, padding)
      BY <3>2 DEF IdentitySign, Answered, Signed
    <3>4. outcome'.status = 413 => PayloadTooLarge(chars, padding)
      BY <3>2 DEF IdentitySign, Answered, Signed
    <3>5. PICK d, e : d = Decoded(chars) /\ e = EstimatedBytes(chars, padding)
      OBVIOUS
    <3>6. d \in Nat /\ e \in Nat /\ d <= e /\ e <= d + 3
      <4>1. chars \in Nat
        BY SigningAssumption
      <4> QED BY <3>5, <4>1, EstimateIsNear
    <3>7. PayloadTooLarge(chars, padding) <=> e > MaxPayloadBytes
      BY <3>5 DEF PayloadTooLarge
    <3>8. MaxPayloadBytes \in Nat
      BY SigningAssumption
    <3>9. (outcome'.status = 200 => d <= MaxPayloadBytes) /\ (outcome'.status = 413 => d + 3 > MaxPayloadBytes)
      BY <3>3, <3>4, <3>6, <3>7, <3>8
    <3> QED BY <3>2, <3>5, <3>9 DEF PayloadLimit
  <2>2. CASE ConvertDer
    <3>1. job'.kind = "der"
      BY <2>2 DEF ConvertDer, Convert
    <3> QED BY <3>1 DEF PayloadLimit
  <2>3. CASE Sign
    <3>1. job'.kind = "sign"
      BY <2>3 DEF Sign, Convert
    <3> QED BY <3>1 DEF PayloadLimit
  <2>4. CASE Compare
    <3>1. job'.kind = "hash"
      BY <2>4 DEF Compare, Convert
    <3> QED BY <3>1 DEF PayloadLimit
  <2>5. CASE Parse
    <3>1. job'.kind = "text"
      BY <2>5 DEF Parse, Convert
    <3> QED BY <3>1 DEF PayloadLimit
  <2>6. CASE Decode
    <3>1. job'.kind = "tags"
      BY <2>6 DEF Decode, Convert
    <3> QED BY <3>1 DEF PayloadLimit
  <2>7. CASE UNCHANGED vars
    BY <2>7 DEF vars, PayloadLimit
  <2> QED BY <2>1, <2>2, <2>3, <2>4, <2>5, <2>6, <2>7 DEF Next
<1> QED BY <1>1, <1>2, PTL DEF Spec

(***************************************************************************)
(* Tags                                                                    *)
(***************************************************************************)
\* Of some positions one is the first.
LEMMA FirstIs ==
  ASSUME NEW n \in Nat, NEW of \in SUBSET (1..n), of # {}
  PROVE  Min(of) \in of
<1>1. of \in SUBSET Nat
  OBVIOUS
<1>2. PICK f \in of : \A m \in of : ~(<<m, f>> \in OpToRel(<, Nat))
  BY <1>1, NatLessThanWellFounded, WFMin
<1>3. \A m \in of : f =< m
  <2>1. \A m \in of : ~(m < f)
    BY <1>1, <1>2 DEF OpToRel
  <2> QED BY <1>1, <2>1
<1> QED BY <1>3 DEF Min

\* The two parts of a text.
LEMMA TextIs ==
  \A says, layers : Text(says, layers).says = says /\ Text(says, layers).layers = layers
BY DEF Text

\* No tags are no positions.
LEMMA NoneIsEmpty == DOMAIN <<>> = {}
<1>1. PICK none : none = <<>>
  OBVIOUS
<1>2. none \in Seq(Nat) /\ Len(none) = 0
  BY <1>1
<1>3. DOMAIN none = 1..0
  BY <1>2, LenProperties
<1> QED BY <1>1, <1>3

\* Tags that are plain and say what was said.
IsPlain(read, said, n) ==
  /\ DOMAIN read = 1..n
  /\ \A i \in 1..n : /\ read[i].name = Text(said[i][1], 0)
                     /\ read[i].value = Text(said[i][2], 0)

\* What is said first under a name.
SaidUnder(said, n, name) ==
  LET of == {i \in 1..n : Lowered(said[i][1]) = name}
  IN Text(IF of = {} THEN "" ELSE said[Min(of)][2], 0)

\* Tags that are all encoded, or that are plain and have a known name among them,
\* are plain once decoded.
LEMMA DecodedIsPlain ==
  ASSUME NEW n \in Nat, NEW layers \in 0..1, NEW said \in [1..n -> Names \X Values],
         layers = 1 \/ \E i \in 1..n : said[i][1] \in KnownNames,
         NEW tags, tags = [i \in 1..n |-> Tag(said[i][1], said[i][2], layers)],
         NEW read, read = DecodeTags(tags)
  PROVE  IsPlain(read, said, n)
<1>1. DOMAIN tags = 1..n
  OBVIOUS
<1>2. \A i \in 1..n : /\ tags[i].name = Text(said[i][1], layers)
                      /\ tags[i].value = Text(said[i][2], layers)
  BY DEF Tag
<1>3. \A i \in 1..n : /\ tags[i].name.says = said[i][1] /\ tags[i].name.layers = layers
                      /\ tags[i].value.says = said[i][2] /\ tags[i].value.layers = layers
  <2> SUFFICES ASSUME NEW i \in 1..n
               PROVE  /\ tags[i].name.says = said[i][1] /\ tags[i].name.layers = layers
                      /\ tags[i].value.says = said[i][2] /\ tags[i].value.layers = layers
    BY Zenon
  <2>1. PICK a, b : a = tags[i].name /\ b = tags[i].value
    OBVIOUS
  <2>2. a = Text(said[i][1], layers) /\ b = Text(said[i][2], layers)
    BY <1>2, <2>1, Zenon
  <2>3. a.says = said[i][1] /\ a.layers = layers
    BY <2>2, TextIs
  <2>4. b.says = said[i][2] /\ b.layers = layers
    BY <2>2, TextIs
  <2> QED BY <2>1, <2>3, <2>4, Zenon
<1>4. CASE layers = 1
  <2>1. ~AlreadyPlain(tags)
    BY <1>1, <1>3, <1>4 DEF AlreadyPlain
  <2>2. CASE n = 0
    <3>1. DOMAIN read = DOMAIN tags
      BY DEF DecodeTags
    <3>2. 1..n = {}
      BY <2>2
    <3> QED BY <1>1, <3>1, <3>2 DEF IsPlain
  <2>3. CASE n # 0
    <3>1. 1 \in 1..n
      BY <2>3
    <3>2. Base64Url(tags[1].name)
      BY <1>3, <1>4, <3>1 DEF Base64Url
    <3>3. tags # <<>>
      BY <1>1, <3>1, NoneIsEmpty, Zenon
    <3>4. read = [i \in DOMAIN tags |->
                    [name |-> DecodeText(tags[i].name), value |-> DecodeText(tags[i].value)]]
      BY <2>1, <3>2, <3>3 DEF DecodeTags
    <3>5. ASSUME NEW i \in 1..n
          PROVE  /\ DecodeText(tags[i].name) = Text(said[i][1], 0)
                 /\ DecodeText(tags[i].value) = Text(said[i][2], 0)
      <4>1. tags[i].name.says = said[i][1] /\ tags[i].name.layers = 1
        BY <1>3, <1>4, Zenon
      <4>2. tags[i].value.says = said[i][2] /\ tags[i].value.layers = 1
        BY <1>3, <1>4, Zenon
      <4>3. DecodeText(tags[i].name) = Text(said[i][1], 0)
        BY <4>1, Zenon DEF DecodeText
      <4>4. DecodeText(tags[i].value) = Text(said[i][2], 0)
        BY <4>2, Zenon DEF DecodeText
      <4> QED BY <4>3, <4>4
    <3>6. ASSUME NEW i \in 1..n
          PROVE  /\ read[i].name = DecodeText(tags[i].name)
                 /\ read[i].value = DecodeText(tags[i].value)
      <4>1. PICK a, b : a = DecodeText(tags[i].name) /\ b = DecodeText(tags[i].value)
        OBVIOUS
      <4>2. read[i] = [name |-> a, value |-> b]
        BY <1>1, <3>4, <4>1, Zenon
      <4>3. read[i].name = a /\ read[i].value = b
        BY <4>2
      <4> QED BY <4>1, <4>3, Zenon
    <3>7. DOMAIN read = 1..n
      BY <1>1, <3>4
    <3> QED BY <3>5, <3>6, <3>7, Zenon DEF IsPlain
  <2> QED BY <2>2, <2>3
<1>5. CASE layers # 1
  <2>1. layers = 0
    BY <1>5
  <2>2. AlreadyPlain(tags)
    BY <1>1, <1>3, <1>5, <2>1 DEF AlreadyPlain
  <2>3. read = tags
    BY <2>2 DEF DecodeTags
  <2> QED BY <1>1, <1>2, <2>1, <2>3 DEF IsPlain
<1> QED BY <1>4, <1>5

\* getTagValue of plain tags is the value said first under the name.
LEMMA PlainIsRead ==
  ASSUME NEW n \in Nat, NEW said \in [1..n -> Names \X Values], NEW read,
         IsPlain(read, said, n), NEW name
  PROVE  GetTagValue(read, name) = SaidUnder(said, n, name)
<1>1. PICK of : of = {i \in 1..n : Lowered(said[i][1]) = name}
  OBVIOUS
<1>2. \A i \in 1..n : read[i].name.layers = 0 /\ read[i].name.says = said[i][1]
  <2> SUFFICES ASSUME NEW i \in 1..n
               PROVE  read[i].name.layers = 0 /\ read[i].name.says = said[i][1]
    BY Zenon
  <2>1. PICK a : a = read[i].name
    OBVIOUS
  <2>2. a = Text(said[i][1], 0)
    BY <2>1, Zenon DEF IsPlain
  <2>3. a.layers = 0 /\ a.says = said[i][1]
    BY <2>2, TextIs
  <2> QED BY <2>1, <2>3, Zenon
<1>3. of = {i \in DOMAIN read : read[i].name.layers = 0 /\ Lowered(read[i].name.says) = name}
  BY <1>1, <1>2 DEF IsPlain
<1>4. GetTagValue(read, name) = IF of = {} THEN Text("", 0) ELSE read[Min(of)].value
  BY <1>3 DEF GetTagValue
<1>5. CASE of = {}
  BY <1>1, <1>4, <1>5 DEF SaidUnder
<1>6. CASE of # {}
  <2>1. Min(of) \in 1..n
    BY <1>1, <1>6, FirstIs
  <2>2. read[Min(of)].value = Text(said[Min(of)][2], 0)
    BY <2>1 DEF IsPlain
  <2> QED BY <1>1, <1>4, <1>6, <2>2 DEF SaidUnder
<1> QED BY <1>5, <1>6

\* The tags of a transaction read the same whether the gateway sends them encoded
\* or plain, whatever the order and the other tags, as long as plain ones have one
\* of the names decodeTags knows.
THEOREM ReadEitherWayHolds == Spec => []ReadEitherWay
<1>1. Init => ReadEitherWay
  <2>1. Init => job.kind = "none"
    BY DEF Init
  <2> QED BY <2>1 DEF ReadEitherWay
<1>2. ReadEitherWay /\ [Next]_vars => ReadEitherWay'
  <2> SUFFICES ASSUME ReadEitherWay, [Next]_vars PROVE ReadEitherWay'
    OBVIOUS
  <2>1. CASE Decode
    <3>1. PICK n \in 0..MaxTags, layers \in 0..1 :
            \E said \in [1..n -> Names \X Values] :
              LET tags == DecodeTags([i \in 1..n |-> Tag(said[i][1], said[i][2], layers)])
              IN Convert([kind |-> "tags", said |-> said, layers |-> layers],
                         [name \in Names |-> GetTagValue(tags, name)])
      BY <2>1 DEF Decode
    <3>2. PICK said \in [1..n -> Names \X Values] :
            Convert([kind |-> "tags", said |-> said, layers |-> layers],
              [name \in Names |->
                 GetTagValue(DecodeTags([i \in 1..n |-> Tag(said[i][1], said[i][2], layers)]), name)])
      BY <3>1
    <3>3. PICK tags : tags = [i \in 1..n |-> Tag(said[i][1], said[i][2], layers)]
      OBVIOUS
    <3>4. PICK read : read = DecodeTags(tags)
      OBVIOUS
    <3>5. /\ job'.said = said /\ job'.layers = layers
          /\ outcome' = [name \in Names |-> GetTagValue(read, name)]
      BY <3>2, <3>3, <3>4 DEF Convert
    <3>6. DOMAIN said = 1..n /\ n \in Nat
      BY ConversionsAssumption
    <3>7. CASE layers = 1 \/ \E i \in 1..n : said[i][1] \in KnownNames
      <4>1. IsPlain(read, said, n)
        BY <3>3, <3>4, <3>6, <3>7, DecodedIsPlain, Zenon
      <4>2. \A name \in Names : outcome'[name] = SaidUnder(said, n, name)
        BY <3>5, <3>6, <4>1, PlainIsRead
      <4>3. ASSUME NEW name \in Names, NEW of, of = {i \in 1..n : Lowered(said[i][1]) = name}
            PROVE  /\ outcome'[name].says = (IF of = {} THEN "" ELSE said[Min(of)][2])
                   /\ outcome'[name].layers = 0
        <5>1. PICK t, says : t = outcome'[name] /\ says = (IF of = {} THEN "" ELSE said[Min(of)][2])
          OBVIOUS
        <5>2. t = Text(says, 0)
          BY <4>2, <4>3, <5>1 DEF SaidUnder
        <5>3. t.says = says /\ t.layers = 0
          BY <5>2, TextIs
        <5> QED BY <5>1, <5>3, Zenon
      <4> QED BY <3>5, <3>6, <4>3 DEF ReadEitherWay
    <3>8. CASE ~(layers = 1 \/ \E i \in 1..n : said[i][1] \in KnownNames)
      BY <3>5, <3>6, <3>8 DEF ReadEitherWay
    <3> QED BY <3>7, <3>8
  <2>2. CASE ConvertDer
    <3>1. job'.kind = "der"
      BY <2>2 DEF ConvertDer, Convert
    <3> QED BY <3>1 DEF ReadEitherWay
  <2>3. CASE Sign
    <3>1. job'.kind = "sign"
      BY <2>3 DEF Sign, Convert
    <3> QED BY <3>1 DEF ReadEitherWay
  <2>4. CASE SignIdentity
    <3>1. job'.kind = "identity"
      BY <2>4 DEF SignIdentity, Convert
    <3> QED BY <3>1 DEF ReadEitherWay
  <2>5. CASE Compare
    <3>1. job'.kind = "hash"
      BY <2>5 DEF Compare, Convert
    <3> QED BY <3>1 DEF ReadEitherWay
  <2>6. CASE Parse
    <3>1. job'.kind = "text"
      BY <2>6 DEF Parse, Convert
    <3> QED BY <3>1 DEF ReadEitherWay
  <2>7. CASE UNCHANGED vars
    BY <2>7 DEF vars, ReadEitherWay
  <2> QED BY <2>1, <2>2, <2>3, <2>4, <2>5, <2>6, <2>7 DEF Next
<1> QED BY <1>1, <1>2, PTL DEF Spec

(***************************************************************************)
(* The spellings of a hash                                                 *)
(***************************************************************************)
\* A string of n characters.
IsText(s, n) == n \in Nat /\ DOMAIN s = 1..n /\ s = [i \in 1..n |-> s[i]]

IsDigit(char) == \E n \in 0..15 : char = Digits[n + 1]

IsHexText(h) == IsText(h, Width \div 4) /\ \A i \in 1..(Width \div 4) : IsDigit(h[i])

\* The sixteen digits differ, and are read as the numbers they stand for.
LEMMA DigitIs ==
  ASSUME NEW n \in 0..15
  PROVE  /\ Nibble(Digits[n + 1]) = n
         /\ \A k \in 0..15 : Digits[k + 1] = Digits[n + 1] => k = n
<1>1. \A k \in 0..15 : Digits[k + 1] = Digits[n + 1] => k = n
  <2>1. n \in {0, 1, 2, 3, 4, 5, 6, 7, 8, 9, 10, 11, 12, 13, 14, 15}
    OBVIOUS
  <2> QED BY <2>1 DEF Digits
<1>2. Nibble(Digits[n + 1]) \in 0..15 /\ Digits[Nibble(Digits[n + 1]) + 1] = Digits[n + 1]
  BY DEF Nibble
<1> QED BY <1>1, <1>2

\* A character of a word, told from the blank.
LEMMA DarkIs ==
  ASSUME NEW c, c \in {"0", "1", "2", "3", "4", "5", "6", "7", "8", "9", "a", "b", "c",
                       "d", "e", "f", "A", "B", "C", "D", "E", "F"}
  PROVE  c # Blank
BY Zenon DEF Blank

\* Zero, one, and the characters that are no digits.
LEMMA DigitsAre ==
  /\ Digits[1] = "0" /\ Digits[2] = "1"
  /\ Nibble("0") = 0 /\ Nibble("1") = 1
  /\ \A n \in 0..15 : Digits[n + 1] # "x" /\ Digits[n + 1] # "X" /\ Digits[n + 1] # Blank
<1>1. Digits[1] = "0" /\ Digits[2] = "1"
  BY DEF Digits
<1>2. Nibble("0") = 0 /\ Nibble("1") = 1
  <2>1. Nibble(Digits[0 + 1]) = 0 /\ Nibble(Digits[1 + 1]) = 1
    BY DigitIs
  <2> QED BY <1>1, <2>1
<1>3. ASSUME NEW n \in 0..15
      PROVE  Digits[n + 1] # "x" /\ Digits[n + 1] # "X" /\ Digits[n + 1] # Blank
  <2>1. n \in {0, 1, 2, 3, 4, 5, 6, 7, 8, 9, 10, 11, 12, 13, 14, 15}
    OBVIOUS
  <2>2. Digits[n + 1] # "x" /\ Digits[n + 1] # "X"
    BY <2>1 DEF Digits
  <2>3. Digits[n + 1] \in {"0", "1", "2", "3", "4", "5", "6", "7", "8", "9", "a", "b", "c",
                           "d", "e", "f", "A", "B", "C", "D", "E", "F"}
    BY <2>1 DEF Digits
  <2> QED BY <2>2, <2>3, DarkIs
<1> QED BY <1>1, <1>2, <1>3

\* toLowerCase on a capital.
LEMMA LowerCapital ==
  ASSUME NEW i \in 1..6
  PROVE  /\ Lower(Capitals[i]) = Digits[10 + i]
         /\ Capitals[i] # "X" /\ Capitals[i] # Blank
         /\ \A n \in 0..15 : Digits[n + 1] # Capitals[i]
<1>1. DOMAIN Capitals = 1..6
  BY DEF Capitals
<1>2. \A k \in 1..6 : Capitals[k] = Capitals[i] => k = i
  BY DEF Capitals
<1>3. i \in {1, 2, 3, 4, 5, 6}
  OBVIOUS
<1>6. Capitals[i] # "X" /\ Capitals[i] # Blank
  <2>1. Capitals[i] # "X"
    BY <1>3 DEF Capitals
  <2>2. Capitals[i] \in {"0", "1", "2", "3", "4", "5", "6", "7", "8", "9", "a", "b", "c",
                         "d", "e", "f", "A", "B", "C", "D", "E", "F"}
    BY <1>3 DEF Capitals
  <2> QED BY <2>1, <2>2, DarkIs
<1>4. ASSUME NEW n \in 0..15
      PROVE  Digits[n + 1] # Capitals[i]
  <2>1. n \in {0, 1, 2, 3, 4, 5, 6, 7, 8, 9, 10, 11, 12, 13, 14, 15}
    OBVIOUS
  <2> QED BY <1>3, <2>1 DEF Capitals, Digits
<1>5. (CHOOSE k \in DOMAIN Capitals : Capitals[k] = Capitals[i]) = i
  BY <1>1, <1>2
<1> QED BY <1>1, <1>4, <1>5, <1>6 DEF Lower

\* toLowerCase on a digit and on what toUpperCase makes of it.
LEMMA LowerDigit ==
  ASSUME NEW n \in 0..15
  PROVE  /\ Lower(Digits[n + 1]) = Digits[n + 1]
         /\ Lower(Capital(Digits[n + 1])) = Digits[n + 1]
         /\ Capital(Digits[n + 1]) # Blank
<1>1. DOMAIN Capitals = 1..6
  BY DEF Capitals
<1>2. Lower(Digits[n + 1]) = Digits[n + 1]
  BY <1>1, DigitsAre, LowerCapital DEF Lower
<1>3. CASE \E i \in 1..6 : Digits[10 + i] = Digits[n + 1]
  <2> DEFINE k == CHOOSE i \in DOMAIN Capitals : Digits[10 + i] = Digits[n + 1]
  <2>1. k \in 1..6 /\ Digits[10 + k] = Digits[n + 1]
    BY <1>1, <1>3
  <2>2. Capital(Digits[n + 1]) = Capitals[k]
    BY <1>1, <1>3 DEF Capital
  <2>3. Lower(Capitals[k]) = Digits[10 + k] /\ Capitals[k] # Blank
    BY <2>1, LowerCapital
  <2> QED BY <1>2, <2>1, <2>2, <2>3
<1>4. CASE ~ \E i \in 1..6 : Digits[10 + i] = Digits[n + 1]
  <2>1. Capital(Digits[n + 1]) = Digits[n + 1]
    BY <1>1, <1>4 DEF Capital
  <2> QED BY <1>2, <2>1, DigitsAre
<1> QED BY <1>2, <1>3, <1>4

\* A string is a sequence of its characters.
LEMMA StringIs ==
  ASSUME NEW n, NEW s, IsText(s, n)
  PROVE  s \in Seq({s[i] : i \in 1..n}) /\ Len(s) = n
<1>1. n \in Nat /\ DOMAIN s = 1..n
  BY DEF IsText
<1>2. s \in [1..n -> {s[i] : i \in 1..n}]
  BY DEF IsText
<1>3. s \in Seq({s[i] : i \in 1..n})
  BY <1>1, <1>2, SeqDef
<1>4. Len(s) \in Nat /\ 1..Len(s) = 1..n
  BY <1>1, <1>3, LenProperties
<1> QED BY <1>1, <1>3, <1>4

\* Two strings of the same characters are one.
LEMMA SameText ==
  ASSUME NEW n, NEW s, NEW t, IsText(s, n), IsText(t, n), \A i \in 1..n : s[i] = t[i]
  PROVE  s = t
BY DEF IsText

\* u is the m characters of s before the n characters of t.
Joins(u, s, m, t, n) ==
  /\ IsText(u, m + n)
  /\ \A i \in 1..m : u[i] = s[i]
  /\ \A i \in 1..n : u[m + i] = t[i]

\* Characters of two strings that are joined.
LEMMA JoinedText ==
  ASSUME NEW m, NEW n, NEW s, NEW t, IsText(s, m), IsText(t, n)
  PROVE  Joins(s \o t, s, m, t, n)
<1> DEFINE S == {s[i] : i \in 1..m} \cup {t[i] : i \in 1..n}
<1>1. m \in Nat /\ n \in Nat /\ Len(s) = m /\ Len(t) = n
  BY StringIs DEF IsText
<1>2. s \in Seq(S) /\ t \in Seq(S)
  <2>1. s \in [1..m -> S] /\ t \in [1..n -> S]
    BY DEF IsText
  <2> HIDE DEF S
  <2> QED BY <1>1, <2>1, SeqDef
<1> HIDE DEF S
<1>3. /\ s \o t \in Seq(S) /\ Len(s \o t) = m + n
      /\ \A i \in 1..(m + n) : (s \o t)[i] = IF i <= m THEN s[i] ELSE t[i - m]
  BY <1>1, <1>2, ConcatProperties
<1>4. s \o t \in [1..(m + n) -> S]
  BY <1>3, LenProperties
<1>5. IsText(s \o t, m + n)
  BY <1>1, <1>4 DEF IsText
<1>6. \A i \in 1..m : (s \o t)[i] = s[i]
  BY <1>1, <1>3
<1>7. \A i \in 1..n : (s \o t)[m + i] = t[i]
  BY <1>1, <1>3
<1> QED BY <1>5, <1>6, <1>7 DEF Joins

\* A part of a string.
LEMMA PartOfText ==
  ASSUME NEW n, NEW s, IsText(s, n), NEW a \in Nat, NEW b \in Nat, 1 <= a, a <= b, b <= n
  PROVE  /\ IsText(SubSeq(s, a, b), b - a + 1)
         /\ \A i \in 1..(b - a + 1) : SubSeq(s, a, b)[i] = s[a + i - 1]
<1> DEFINE S == {s[i] : i \in 1..n}
<1>1. n \in Nat
  BY DEF IsText
<1>2. \A i \in a..b : s[i] \in S
  BY <1>1
<1> HIDE DEF S
<1>3. /\ SubSeq(s, a, b) \in Seq(S) /\ Len(SubSeq(s, a, b)) = b - a + 1
      /\ \A i \in 1..(b - a + 1) : SubSeq(s, a, b)[i] = s[a + i - 1]
  <2>1. a \in Int /\ b \in Int
    OBVIOUS
  <2>2. /\ SubSeq(s, a, b) \in Seq(S)
        /\ Len(SubSeq(s, a, b)) = IF a <= b THEN b - a + 1 ELSE 0
        /\ \A i \in 1..(b - a + 1) : SubSeq(s, a, b)[i] = s[a + i - 1]
    BY <1>2, <2>1, SubSeqProperties
  <2> QED BY <2>2
<1>4. SubSeq(s, a, b) \in [1..(b - a + 1) -> S]
  BY <1>3, LenProperties
<1>5. b - a + 1 \in Nat
  OBVIOUS
<1>6. IsText(SubSeq(s, a, b), b - a + 1)
  BY <1>4, <1>5 DEF IsText
<1> QED BY <1>3, <1>6

\* trim: what is between the first and the last character that is no blank.
LEMMA TrimIs ==
  ASSUME NEW n, NEW s, IsText(s, n), NEW a \in 1..n, NEW b \in a..n,
         s[a] # Blank, s[b] # Blank,
         \A i \in 1..n : i < a \/ i > b => s[i] = Blank
  PROVE  Trim(s) = SubSeq(s, a, b)
<1> DEFINE dark == {i \in DOMAIN s : s[i] # Blank}
<1>1. n \in Nat /\ DOMAIN s = 1..n
  BY DEF IsText
<1>2. a \in dark /\ b \in dark /\ \A i \in dark : a <= i /\ i <= b /\ i \in Nat
  BY <1>1
<1>3. Min(dark) = a
  BY <1>2 DEF Min
<1>4. Max(dark) = b
  BY <1>2 DEF Max
<1> QED BY <1>2, <1>3, <1>4 DEF Trim

\* A string that neither begins nor ends with a blank is not trimmed.
LEMMA TrimKeeps ==
  ASSUME NEW n, NEW s, IsText(s, n), n > 0, s[1] # Blank, s[n] # Blank
  PROVE  Trim(s) = s
<1>1. n \in Nat
  BY DEF IsText
<1>2. Trim(s) = SubSeq(s, 1, n)
  BY <1>1, TrimIs
<1>3. IsText(SubSeq(s, 1, n), n) /\ \A i \in 1..n : SubSeq(s, 1, n)[i] = s[i]
  <2>1. /\ IsText(SubSeq(s, 1, n), n - 1 + 1)
        /\ \A i \in 1..(n - 1 + 1) : SubSeq(s, 1, n)[i] = s[1 + i - 1]
    BY <1>1, PartOfText
  <2> QED BY <1>1, <2>1
<1> QED BY <1>2, <1>3, SameText
\* A hash has as many hex digits as it has quarters of bits, and at least two.
LEMMA WidthIs ==
  /\ Width \in Nat /\ Width \div 4 \in Nat /\ 4 * (Width \div 4) = Width /\ Width >= 8
  /\ Width \div 8 \in Nat /\ 2 * (Width \div 8) = Width \div 4
BY WidthAssumption

\* The hex digits of a hash.
LEMMA HexTextIs ==
  ASSUME NEW h, IsHexText(h)
  PROVE  /\ IsText(h, Width \div 4)
         /\ \A i \in 1..(Width \div 4) :
              /\ h[i] # "x" /\ h[i] # Blank
              /\ Lower(h[i]) = h[i] /\ Lower(Capital(h[i])) = h[i] /\ Capital(h[i]) # Blank
BY LowerDigit, DigitsAre DEF IsHexText, IsDigit

\* Whatever is the digits of a hash in lower case is the hash.
LEMMA CleanedPlain ==
  ASSUME NEW h, IsHexText(h), NEW s, IsText(s, Width \div 4),
         \A i \in 1..(Width \div 4) : Lower(s[i]) = h[i]
  PROVE  Cleaned(s) = h
<1> DEFINE l == [i \in DOMAIN s |-> Lower(s[i])]
<1>1. DOMAIN s = 1..(Width \div 4)
  BY DEF IsText
<1>2. IsText(l, Width \div 4)
  BY <1>1, WidthIs DEF IsText
<1>3. l = h
  BY <1>1, <1>2, HexTextIs, SameText
<1>4. l[2] # "x"
  BY <1>3, HexTextIs, WidthIs
<1> QED BY <1>3, <1>4 DEF Cleaned

\* Strings of one and of two characters.
LEMMA ShortText ==
  ASSUME NEW a, NEW b
  PROVE  /\ IsText(<<a>>, 1) /\ <<a>>[1] = a
         /\ IsText(<<a, b>>, 2) /\ <<a, b>>[1] = a /\ <<a, b>>[2] = b
<1>1. <<a>> \in Seq({a}) /\ Len(<<a>>) = 1
  OBVIOUS
<1>2. <<a, b>> \in Seq({a, b}) /\ Len(<<a, b>>) = 2
  OBVIOUS
<1>3. <<a>> \in [1..1 -> {a}]
  BY <1>1, LenProperties
<1>4. <<a, b>> \in [1..2 -> {a, b}]
  BY <1>2, LenProperties
<1>5. \A t, S, n : n \in Nat /\ t \in [1..n -> S] => IsText(t, n)
  BY DEF IsText
<1>6. IsText(<<a>>, 1)
  BY <1>3, <1>5
<1>7. IsText(<<a, b>>, 2)
  BY <1>4, <1>5
<1> QED BY <1>6, <1>7

\* So is what has 0x or 0X before them.
LEMMA CleanedPrefixed ==
  ASSUME NEW h, IsHexText(h), NEW x, IsText(x, 2), x[1] = "0", Lower(x[2]) = "x"
  PROVE  IsText(x \o h, Width \div 4 + 2) /\ Cleaned(x \o h) = h
<1> DEFINE q == Width \div 4
           s == x \o h
           l == [i \in DOMAIN s |-> Lower(s[i])]
<1>1. q \in Nat
  BY WidthIs
<1>2. IsText(h, q) /\ \A i \in 1..q : Lower(h[i]) = h[i]
  BY HexTextIs
<1> HIDE DEF q
<1>4. Joins(s, x, 2, h, q)
  <2>1. IsText(x, 2) /\ IsText(h, q)
    BY <1>2
  <2> QED BY <2>1, JoinedText
<1> HIDE DEF s
<1>5. s[1] = "0" /\ s[2] = x[2] /\ \A i \in 1..q : s[2 + i] = h[i]
  <2>1. 1 \in 1..2 /\ 2 \in 1..2
    OBVIOUS
  <2>2. s[1] = x[1] /\ s[2] = x[2]
    BY <1>4, <2>1 DEF Joins
  <2> QED BY <1>4, <2>2 DEF Joins
<1>6. DOMAIN s = 1..(2 + q)
  BY <1>4 DEF Joins, IsText
<1>7. IsText(l, 2 + q) /\ Len(l) = 2 + q
  <2>1. IsText(l, 2 + q)
    BY <1>1, <1>6 DEF IsText
  <2> QED BY <2>1, StringIs
<1>8. l[1] = "0" /\ l[2] = "x" /\ \A i \in 1..q : l[2 + i] = h[i]
  <2>1. Lower("0") = "0"
    <3>1. Lower(Digits[0 + 1]) = Digits[0 + 1]
      BY LowerDigit
    <3> QED BY <3>1, DigitsAre
  <2> QED BY <1>1, <1>2, <1>5, <1>6, <2>1
<1>9. SubSeq(l, 3, 2 + q) = h
  <2>1. /\ IsText(SubSeq(l, 3, 2 + q), 2 + q - 3 + 1)
        /\ \A i \in 1..(2 + q - 3 + 1) : SubSeq(l, 3, 2 + q)[i] = l[3 + i - 1]
    <3>1. 3 <= 2 + q
      BY WidthIs DEF q
    <3> QED BY <1>1, <1>7, <3>1, PartOfText
  <2>2. 2 + q - 3 + 1 = q
    BY <1>1
  <2>3. \A i \in 1..q : SubSeq(l, 3, 2 + q)[i] = h[i]
    <3> SUFFICES ASSUME NEW i \in 1..q PROVE SubSeq(l, 3, 2 + q)[i] = h[i]
      OBVIOUS
    <3>1. 3 + i - 1 = 2 + i
      BY <1>1
    <3> QED BY <1>8, <2>1, <2>2, <3>1
  <2> QED BY <1>2, <2>1, <2>2, <2>3, SameText
<1>10. Cleaned(s) = h
  <2>1. Len(l) >= 2
    BY <1>1, <1>7
  <2> QED BY <1>7, <1>8, <1>9, <2>1 DEF Cleaned
<1>11. IsText(s, q + 2)
  BY <1>1, <1>4 DEF Joins
<1> QED BY <1>10, <1>11 DEF s, q
\* The four bits of a digit and the digit of four bits.
LEMMA FourBits ==
  ASSUME NEW a \in 0..1, NEW b \in 0..1, NEW c \in 0..1, NEW d \in 0..1
  PROVE  /\ 8 * a + 4 * b + 2 * c + d \in 0..15
         /\ Bit(8 * a + 4 * b + 2 * c + d, 1) = a /\ Bit(8 * a + 4 * b + 2 * c + d, 2) = b
         /\ Bit(8 * a + 4 * b + 2 * c + d, 3) = c /\ Bit(8 * a + 4 * b + 2 * c + d, 4) = d
<1>1. Weights[1] = 8 /\ Weights[2] = 4 /\ Weights[3] = 2 /\ Weights[4] = 1
  BY DEF Weights
<1>2. a \in {0, 1} /\ b \in {0, 1} /\ c \in {0, 1} /\ d \in {0, 1}
  OBVIOUS
<1> QED BY <1>1, <1>2 DEF Bit

\* No two digits have the same four bits.
LEMMA BitsOfDigit ==
  ASSUME NEW n \in 0..15
  PROVE  /\ \A k \in 1..4 : Bit(n, k) \in 0..1
         /\ 8 * Bit(n, 1) + 4 * Bit(n, 2) + 2 * Bit(n, 3) + Bit(n, 4) = n
<1>1. Weights[1] = 8 /\ Weights[2] = 4 /\ Weights[3] = 2 /\ Weights[4] = 1
  BY DEF Weights
<1>2. n \in {0, 1, 2, 3, 4, 5, 6, 7, 8, 9, 10, 11, 12, 13, 14, 15}
  OBVIOUS
<1>3. /\ Bit(n, 1) = (n \div 8) % 2 /\ Bit(n, 2) = (n \div 4) % 2
      /\ Bit(n, 3) = (n \div 2) % 2 /\ Bit(n, 4) = (n \div 1) % 2
  BY <1>1 DEF Bit
<1>4. \A k \in 1..4 : Bit(n, k) \in 0..1
  <2>1. Bit(n, 1) \in 0..1 /\ Bit(n, 2) \in 0..1 /\ Bit(n, 3) \in 0..1 /\ Bit(n, 4) \in 0..1
    BY <1>3
  <2>2. \A k \in 1..4 : k = 1 \/ k = 2 \/ k = 3 \/ k = 4
    OBVIOUS
  <2> QED BY <2>1, <2>2
<1>5. 8 * Bit(n, 1) + 4 * Bit(n, 2) + 2 * Bit(n, 3) + Bit(n, 4) = n
  <2>1. 8 * ((n \div 8) % 2) + 4 * ((n \div 4) % 2) + 2 * ((n \div 2) % 2)
          + ((n \div 1) % 2) = n
    BY <1>2
  <2> QED BY <1>3, <2>1
<1> QED BY <1>4, <1>5

\* A hash in hex: the number of each digit is the four bits it stands for.
NibbleOf(p, i) ==
  8 * One(p, 4 * i - 3) + 4 * One(p, 4 * i - 2) + 2 * One(p, 4 * i - 1) + One(p, 4 * i)

\* HexOf gives digits, and Nibble reads them.
LEMMA HexOfIs ==
  ASSUME NEW p
  PROVE  /\ IsHexText(HexOf(p))
         /\ \A i \in 1..(Width \div 4) :
              /\ NibbleOf(p, i) \in 0..15 /\ HexOf(p)[i] = Digits[1 + NibbleOf(p, i)]
              /\ Nibble(HexOf(p)[i]) = NibbleOf(p, i)
<1>1. \A i : One(p, i) \in 0..1
  BY DEF One
<1>2. \A i \in 1..(Width \div 4) : NibbleOf(p, i) \in 0..15
  BY <1>1, FourBits DEF NibbleOf
<1>3. \A i \in 1..(Width \div 4) : HexOf(p)[i] = Digits[1 + NibbleOf(p, i)]
  <2> SUFFICES ASSUME NEW i \in 1..(Width \div 4)
               PROVE  HexOf(p)[i] = Digits[1 + NibbleOf(p, i)]
    OBVIOUS
  <2>1. /\ One(p, 4 * i - 3) \in 0..1 /\ One(p, 4 * i - 2) \in 0..1
        /\ One(p, 4 * i - 1) \in 0..1 /\ One(p, 4 * i) \in 0..1
    BY <1>1
  <2>2. 1 + NibbleOf(p, i) = 1 + 8 * One(p, 4 * i - 3) + 4 * One(p, 4 * i - 2)
                               + 2 * One(p, 4 * i - 1) + One(p, 4 * i)
    BY <2>1 DEF NibbleOf
  <2> QED BY <2>2 DEF HexOf
<1>4. \A i \in 1..(Width \div 4) : Digits[1 + NibbleOf(p, i)] = Digits[NibbleOf(p, i) + 1]
  BY <1>2
<1>5. \A i \in 1..(Width \div 4) : IsDigit(HexOf(p)[i])
  BY <1>2, <1>3, <1>4 DEF IsDigit
<1>6. \A i \in 1..(Width \div 4) : Nibble(HexOf(p)[i]) = NibbleOf(p, i)
  BY <1>2, <1>3, <1>4, DigitIs
<1>7. IsText(HexOf(p), Width \div 4)
  BY WidthIs DEF HexOf, IsText
<1> QED BY <1>2, <1>3, <1>5, <1>6, <1>7 DEF IsHexText

\* BinaryOf gives zeros and ones.
LEMMA BinaryOfIs ==
  ASSUME NEW p
  PROVE  /\ IsText(BinaryOf(p), Width)
         /\ \A i \in 1..Width :
              /\ BinaryOf(p)[i] = Digits[1 + One(p, i)] /\ Nibble(BinaryOf(p)[i]) = One(p, i)
              /\ BinaryOf(p)[i] \in {"0", "1"} /\ (BinaryOf(p)[i] = "1" <=> i \in p)
<1>1. IsText(BinaryOf(p), Width)
  BY WidthIs DEF BinaryOf, IsText
<1>2. ASSUME NEW i \in 1..Width
      PROVE  /\ BinaryOf(p)[i] = Digits[1 + One(p, i)] /\ Nibble(BinaryOf(p)[i]) = One(p, i)
             /\ BinaryOf(p)[i] \in {"0", "1"} /\ (BinaryOf(p)[i] = "1" <=> i \in p)
  <2>1. BinaryOf(p)[i] = IF i \in p THEN "1" ELSE "0"
    BY DEF BinaryOf
  <2>2. CASE i \in p
    BY <2>1, <2>2, DigitsAre DEF One
  <2>3. CASE i \notin p
    BY <2>1, <2>3, DigitsAre DEF One
  <2> QED BY <2>2, <2>3
<1> QED BY <1>1, <1>2
\* The place of a bit: which digit, and which of its four.
LEMMA PlaceIs ==
  ASSUME NEW i \in 1..Width
  PROVE  \E j \in 1..(Width \div 4), k \in 1..4 :
           /\ (i - 1) \div 4 + 1 = j /\ ((i - 1) % 4) + 1 = k
           /\ i = 4 * j - 4 + k
<1>1. (i - 1) \div 4 + 1 \in 1..(Width \div 4) /\ ((i - 1) % 4) + 1 \in 1..4
  BY WidthIs
<1>2. i = 4 * ((i - 1) \div 4 + 1) - 4 + (((i - 1) % 4) + 1)
  BY WidthIs
<1> QED BY <1>1, <1>2

\* Each bit of a hash in hex is the bit of the hash.
LEMMA BitOfNibble ==
  ASSUME NEW p, NEW j \in 1..(Width \div 4), NEW k \in 1..4
  PROVE  Bit(NibbleOf(p, j), k) = One(p, 4 * j - 4 + k)
<1>1. /\ One(p, 4 * j - 3) \in 0..1 /\ One(p, 4 * j - 2) \in 0..1
      /\ One(p, 4 * j - 1) \in 0..1 /\ One(p, 4 * j) \in 0..1
  BY DEF One
<1>2. /\ Bit(NibbleOf(p, j), 1) = One(p, 4 * j - 3) /\ Bit(NibbleOf(p, j), 2) = One(p, 4 * j - 2)
      /\ Bit(NibbleOf(p, j), 3) = One(p, 4 * j - 1) /\ Bit(NibbleOf(p, j), 4) = One(p, 4 * j)
  BY <1>1, FourBits DEF NibbleOf
<1>3. /\ 4 * j - 4 + 1 = 4 * j - 3 /\ 4 * j - 4 + 2 = 4 * j - 2
      /\ 4 * j - 4 + 3 = 4 * j - 1 /\ 4 * j - 4 + 4 = 4 * j
  BY WidthIs
<1>4. k = 1 \/ k = 2 \/ k = 3 \/ k = 4
  OBVIOUS
<1> QED BY <1>2, <1>3, <1>4

\* hexToBinaryString undoes HexOf.
LEMMA HexToBits ==
  ASSUME NEW p, NEW s, Cleaned(s) = HexOf(p)
  PROVE  HexToBinaryString(s) = BinaryOf(p)
<1>1. ASSUME NEW i \in 1..Width
      PROVE  Digits[1 + Bit(Nibble(Cleaned(s)[(i - 1) \div 4 + 1]), ((i - 1) % 4) + 1)]
               = BinaryOf(p)[i]
  <2>1. PICK j \in 1..(Width \div 4), k \in 1..4 :
          (i - 1) \div 4 + 1 = j /\ ((i - 1) % 4) + 1 = k /\ i = 4 * j - 4 + k
    BY PlaceIs
  <2>2. Nibble(Cleaned(s)[(i - 1) \div 4 + 1]) = NibbleOf(p, j)
    BY <2>1, HexOfIs
  <2>3. Bit(NibbleOf(p, j), k) = One(p, i)
    BY <2>1, BitOfNibble
  <2>4. BinaryOf(p)[i] = Digits[1 + One(p, i)]
    BY BinaryOfIs
  <2> QED BY <2>1, <2>2, <2>3, <2>4
<1>2. IsText(HexToBinaryString(s), Width)
  BY WidthIs DEF HexToBinaryString, IsText
<1>3. \A i \in 1..Width : HexToBinaryString(s)[i] = BinaryOf(p)[i]
  BY <1>1 DEF HexToBinaryString
<1> QED BY <1>2, <1>3, BinaryOfIs, SameText

\* binaryStringToHex of the bits is HexOf.
LEMMA BitsToHex ==
  ASSUME NEW p
  PROVE  BinaryStringToHex(BinaryOf(p)) = HexOf(p)
<1>1. ASSUME NEW i \in 1..(Width \div 4)
      PROVE  /\ Nibble(BinaryOf(p)[4 * i - 3]) = One(p, 4 * i - 3)
             /\ Nibble(BinaryOf(p)[4 * i - 2]) = One(p, 4 * i - 2)
             /\ Nibble(BinaryOf(p)[4 * i - 1]) = One(p, 4 * i - 1)
             /\ Nibble(BinaryOf(p)[4 * i]) = One(p, 4 * i)
  <2>1. /\ 4 * i - 3 \in 1..Width /\ 4 * i - 2 \in 1..Width
        /\ 4 * i - 1 \in 1..Width /\ 4 * i \in 1..Width
    BY WidthIs
  <2> QED BY <2>1, BinaryOfIs
<1> QED BY <1>1 DEF BinaryStringToHex, HexOf

(***************************************************************************)
(* What the service makes of a spelling                                    *)
(***************************************************************************)
\* A string is read as the hash with the one bits p.
Reads(s, p) ==
  /\ NormalizePHashToBinary(s) = BinaryOf(p)
  /\ NormalizePHashToHex(s) = HexOf(p)

\* Whatever lower case and 0x bring down to the digits of a hash is read as that hash.
LEMMA HexReads ==
  ASSUME NEW p, NEW s, NEW n, IsText(s, n), n # Width, Cleaned(s) = HexOf(p)
  PROVE  Reads(s, p)
<1>1. ~ IsValidBinaryPHash(s)
  BY StringIs DEF IsValidBinaryPHash
<1>2. IsValidHexPHash(s)
  <2>1. Len(HexOf(p)) = Width \div 4
    BY HexOfIs, StringIs DEF IsHexText
  <2>2. DOMAIN Digits = 1..16
    BY DEF Digits
  <2>3. ToSet(HexOf(p)) \subseteq ToSet(Digits)
    <3>1. ASSUME NEW i \in DOMAIN HexOf(p)
          PROVE  HexOf(p)[i] \in ToSet(Digits)
      <4>1. i \in 1..(Width \div 4)
        BY HexOfIs DEF IsHexText, IsText
      <4>2. PICK d \in 0..15 : HexOf(p)[i] = Digits[d + 1]
        BY <4>1, HexOfIs DEF IsHexText, IsDigit
      <4>3. d + 1 \in DOMAIN Digits
        BY <2>2
      <4> QED BY <4>2, <4>3 DEF ToSet
    <3> QED BY <3>1 DEF ToSet
  <2> QED BY <2>1, <2>3 DEF IsValidHexPHash
<1>3. NormalizePHashToBinary(s) = BinaryOf(p)
  BY <1>1, <1>2, HexToBits DEF NormalizePHashToBinary
<1>4. NormalizePHashToHex(s) = HexOf(p)
  BY <1>2 DEF NormalizePHashToHex
<1> QED BY <1>3, <1>4 DEF Reads

\* So are the bits themselves, which are no hex.
LEMMA BinaryReads ==
  ASSUME NEW p
  PROVE  Reads(BinaryOf(p), p)
<1> DEFINE s == BinaryOf(p)
           l == [i \in DOMAIN s |-> Lower(s[i])]
<1>1. IsText(s, Width) /\ \A i \in 1..Width : s[i] \in {"0", "1"}
  BY BinaryOfIs
<1>2. IsValidBinaryPHash(s)
  BY <1>1, StringIs DEF IsValidBinaryPHash, IsText, ToSet
<1>3. Lower("0") = "0" /\ Lower("1") = "1"
  <2>1. Lower(Digits[0 + 1]) = Digits[0 + 1] /\ Lower(Digits[1 + 1]) = Digits[1 + 1]
    BY LowerDigit
  <2> QED BY <2>1, DigitsAre
<1> HIDE DEF s
<1>4. l = s
  BY <1>1, <1>3 DEF IsText
<1>5. l[2] # "x"
  BY <1>1, <1>4, WidthIs
<1>6. Cleaned(s) = s
  BY <1>4, <1>5 DEF Cleaned
<1>7. ~ IsValidHexPHash(s)
  <2>1. Len(s) = Width /\ Width # Width \div 4
    <3>1. Len(s) = Width
      BY <1>1, StringIs
    <3> QED BY <3>1, WidthIs
  <2> QED BY <1>6, <2>1 DEF IsValidHexPHash
<1>8. NormalizePHashToBinary(s) = s
  BY <1>2 DEF NormalizePHashToBinary
<1>9. NormalizePHashToHex(s) = BinaryStringToHex(s)
  BY <1>2, <1>7 DEF NormalizePHashToHex
<1> QED BY <1>8, <1>9, BitsToHex DEF Reads, s
\* Two digits make a byte, and the byte the digits.
LEMMA ByteOfDigits ==
  ASSUME NEW a \in 0..15, NEW b \in 0..15
  PROVE  (16 * a + b) \div 16 = a /\ (16 * a + b) % 16 = b
OBVIOUS

\* A soft-binding value, carried as bytes, comes back as it was.
LEMMA BytesAndBack ==
  ASSUME NEW h, IsHexText(h)
  PROVE  SoftBindingBytesToPHashHex(PHashHexToSoftBindingBytes(h)) = h
<1> DEFINE q == Width \div 4
           e == Width \div 8
           bytes == PHashHexToSoftBindingBytes(h)
           back == SoftBindingBytesToPHashHex(bytes)
<1>1. q \in Nat /\ e \in Nat /\ 2 * e = q /\ q \div 2 = e
  BY WidthIs
<1>2. IsText(h, q) /\ Len(h) = q
  BY StringIs DEF IsHexText
<1>3. \A i \in 1..q : Nibble(h[i]) \in 0..15 /\ Digits[1 + Nibble(h[i])] = h[i]
  <2> SUFFICES ASSUME NEW i \in 1..q
               PROVE  Nibble(h[i]) \in 0..15 /\ Digits[1 + Nibble(h[i])] = h[i]
    OBVIOUS
  <2>1. PICK n \in 0..15 : h[i] = Digits[n + 1]
    BY DEF IsHexText, IsDigit
  <2>2. Nibble(h[i]) = n /\ n + 1 = 1 + n
    BY <2>1, DigitIs
  <2> QED BY <2>1, <2>2
<1>4. IsText(bytes, e) /\ \A i \in 1..e : bytes[i] = 16 * Nibble(h[2 * i - 1]) + Nibble(h[2 * i])
  BY <1>1, <1>2 DEF PHashHexToSoftBindingBytes, IsText
<1> HIDE DEF bytes, q, e
<1>5. Len(bytes) = e
  BY <1>4, StringIs
<1>6. IsText(back, q)
  BY <1>1, <1>5 DEF SoftBindingBytesToPHashHex, IsText
<1>7. ASSUME NEW i \in 1..q
      PROVE  back[i] = h[i]
  <2>1. back[i] = Digits[1 + (IF i % 2 = 1 THEN bytes[(i + 1) \div 2] \div 16
                              ELSE bytes[i \div 2] % 16)]
    BY <1>1, <1>5 DEF SoftBindingBytesToPHashHex
  <2>2. CASE i % 2 = 1
    <3>1. (i + 1) \div 2 \in 1..e /\ 2 * ((i + 1) \div 2) - 1 = i
      BY <1>1, <2>2
    <3>2. 2 * ((i + 1) \div 2) \in 1..q
      BY <1>1, <3>1
    <3>3. bytes[(i + 1) \div 2] = 16 * Nibble(h[i]) + Nibble(h[2 * ((i + 1) \div 2)])
      BY <1>4, <3>1
    <3>4. bytes[(i + 1) \div 2] \div 16 = Nibble(h[i])
      BY <1>3, <3>2, <3>3, ByteOfDigits
    <3> QED BY <1>3, <2>1, <2>2, <3>4
  <2>3. CASE i % 2 # 1
    <3>1. i \div 2 \in 1..e /\ 2 * (i \div 2) = i
      BY <1>1, <2>3
    <3>2. 2 * (i \div 2) - 1 \in 1..q
      BY <1>1, <3>1
    <3>3. bytes[i \div 2] = 16 * Nibble(h[2 * (i \div 2) - 1]) + Nibble(h[i])
      BY <1>4, <3>1
    <3>4. bytes[i \div 2] % 16 = Nibble(h[i])
      BY <1>3, <3>2, <3>3, ByteOfDigits
    <3> QED BY <1>3, <2>1, <2>3, <3>4
  <2> QED BY <2>2, <2>3
<1> QED BY <1>2, <1>6, <1>7, SameText DEF bytes

\* However a hash is written, the trimmed spelling is read as the hash.
LEMMA SpelledReads ==
  ASSUME NEW p, NEW how \in Spellings
  PROVE  Reads(Trim(Spelled(p, how)), p)
<1> DEFINE q == Width \div 4
           h == HexOf(p)
           s == Spelled(p, how)
<1>1. IsHexText(h) /\ IsText(h, q)
  BY HexOfIs DEF IsHexText
<1>2. q \in Nat /\ q >= 2 /\ q # Width /\ q + 2 # Width
  BY WidthIs
<1>3. \A i \in 1..q : /\ h[i] # Blank /\ Lower(h[i]) = h[i]
                      /\ Lower(Capital(h[i])) = h[i] /\ Capital(h[i]) # Blank
  BY <1>1, HexTextIs
<1>4. Cleaned(h) = h
  BY <1>1, <1>3, CleanedPlain
<1>5. Reads(h, p)
  BY <1>1, <1>2, <1>4, HexReads
<1>6. Trim(h) = h
  BY <1>1, <1>2, <1>3, TrimKeeps
<1>7. "0" # Blank
  BY DarkIs
<1>8. ASSUME NEW x, Lower(x) = "x", s = <<"0", x>> \o h
      PROVE  Reads(Trim(s), p)
  <2> DEFINE pre == <<"0", x>>
  <2>1. IsText(pre, 2) /\ pre[1] = "0" /\ pre[2] = x
    BY ShortText
  <2> HIDE DEF pre
  <2>2. IsText(pre \o h, q + 2) /\ Cleaned(pre \o h) = h
    BY <1>1, <1>8, <2>1, CleanedPrefixed
  <2>3. Joins(pre \o h, pre, 2, h, q)
    BY <1>1, <2>1, JoinedText
  <2> DEFINE t == pre \o h
  <2> HIDE DEF t, h, q
  <2>4. IsText(t, q + 2) /\ Cleaned(t) = h /\ Joins(t, pre, 2, h, q)
    BY <2>2, <2>3 DEF t, h, q
  <2>5. t[1] = "0" /\ t[q + 2] = h[q]
    BY <1>2, <2>1, <2>4 DEF Joins
  <2>6. Trim(t) = t
    <3>1. t[q + 2] # Blank /\ q + 2 > 0
      BY <1>2, <1>3, <2>5
    <3> QED BY <1>7, <2>4, <2>5, <3>1, TrimKeeps
  <2>7. Reads(t, p)
    BY <1>2, <2>4, HexReads DEF h
  <2> QED BY <1>8, <2>6, <2>7 DEF t, pre, h
<1>9. CASE how = "binary"
  <2>1. s = BinaryOf(p)
    BY <1>9 DEF Spelled
  <2>2. IsText(BinaryOf(p), Width) /\ \A i \in 1..Width : BinaryOf(p)[i] \in {"0", "1"}
    BY BinaryOfIs
  <2>3. \A i \in 1..Width : BinaryOf(p)[i] # Blank
    BY <2>2, DarkIs
  <2>4. Trim(BinaryOf(p)) = BinaryOf(p)
    <3>1. 1 \in 1..Width /\ Width \in 1..Width
      BY WidthIs
    <3> QED BY <2>2, <2>3, <3>1, TrimKeeps
  <2> QED BY <2>1, <2>4, BinaryReads
<1>10. CASE how = "hex"
  BY <1>5, <1>6, <1>10 DEF Spelled
<1>11. CASE how = "capitals"
  <2> DEFINE c == [i \in DOMAIN h |-> Capital(h[i])]
  <2>1. s = c
    BY <1>11 DEF Spelled
  <2>2. IsText(c, q) /\ \A i \in 1..q : c[i] = Capital(h[i])
    BY <1>1 DEF IsText
  <2> HIDE DEF c
  <2>3. Cleaned(c) = h
    BY <1>1, <1>3, <2>2, CleanedPlain
  <2>4. Trim(c) = c
    BY <1>2, <1>3, <2>2, TrimKeeps
  <2> QED BY <1>2, <2>1, <2>2, <2>3, <2>4, HexReads
<1>12. CASE how = "0x"
  <2>1. s = <<"0", "x">> \o h
    BY <1>12 DEF Spelled
  <2>2. Lower("x") = "x"
    BY LowerCapital DEF Lower, Capitals
  <2> QED BY <1>8, <2>1, <2>2
<1>13. CASE how = "0X"
  <2>1. s = <<"0", "X">> \o h
    BY <1>13 DEF Spelled
  <2>2. Lower("X") = "x"
    BY DEF Lower
  <2> QED BY <1>8, <2>1, <2>2
<1>14. CASE how = "spaced"
  <2> DEFINE l == <<Blank>> \o h
             t == l \o <<Blank, Blank>>
  <2>1. s = t
    BY <1>14 DEF Spelled
  <2>2. IsText(<<Blank>>, 1) /\ <<Blank>>[1] = Blank
    BY ShortText
  <2>3. IsText(<<Blank, Blank>>, 2) /\ <<Blank, Blank>>[1] = Blank /\ <<Blank, Blank>>[2] = Blank
    BY ShortText
  <2>4. Joins(l, <<Blank>>, 1, h, q)
    BY <1>1, <2>2, JoinedText
  <2>5. IsText(l, 1 + q)
    BY <2>4 DEF Joins
  <2>6. Joins(t, l, 1 + q, <<Blank, Blank>>, 2)
    BY <2>3, <2>5, JoinedText
  <2> HIDE DEF l, t, h, q
  <2>7. l[1] = Blank /\ \A i \in 1..q : l[1 + i] = h[i]
    BY <2>2, <2>4 DEF Joins
  <2>8. \A i \in 1..(1 + q) : t[i] = l[i]
    BY <2>6 DEF Joins
  <2>9. t[1 + q + 1] = Blank /\ t[1 + q + 2] = Blank
    BY <2>3, <2>6 DEF Joins
  <2>10. IsText(t, q + 3)
    <3>1. 1 + q + 2 = q + 3
      BY <1>2
    <3> QED BY <2>6, <3>1 DEF Joins
  <2>11. t[1] = Blank /\ \A i \in 1..q : t[1 + i] = h[i]
    BY <1>2, <2>7, <2>8
  <2>12. t[2] # Blank /\ t[q + 1] # Blank
    BY <1>2, <1>3, <2>11
  <2>13. \A i \in 1..(q + 3) : i < 2 \/ i > q + 1 => t[i] = Blank
    BY <1>2, <2>9, <2>11
  <2>14. Trim(t) = SubSeq(t, 2, q + 1)
    <3>1. 2 \in 1..(q + 3) /\ q + 1 \in 2..(q + 3)
      BY <1>2
    <3> QED BY <2>10, <2>12, <2>13, <3>1, TrimIs
  <2>15. IsText(SubSeq(t, 2, q + 1), q) /\ \A i \in 1..q : SubSeq(t, 2, q + 1)[i] = t[1 + i]
    <3>1. /\ IsText(SubSeq(t, 2, q + 1), q + 1 - 2 + 1)
          /\ \A i \in 1..(q + 1 - 2 + 1) : SubSeq(t, 2, q + 1)[i] = t[2 + i - 1]
      BY <1>2, <2>10, PartOfText
    <3>2. q + 1 - 2 + 1 = q /\ \A i \in 1..q : 2 + i - 1 = 1 + i
      BY <1>2
    <3> QED BY <3>1, <3>2
  <2>16. SubSeq(t, 2, q + 1) = h
    BY <1>1, <2>11, <2>15, SameText
  <2> QED BY <1>5, <2>1, <2>14, <2>16
<1>15. CASE how = "base64"
  <2>1. s = h
    BY <1>1, <1>15, BytesAndBack DEF Spelled
  <2> QED BY <1>5, <1>6, <2>1
<1> QED BY <1>9, <1>10, <1>11, <1>12, <1>13, <1>14, <1>15 DEF Spellings
(***************************************************************************)
(* How far two hashes are apart                                            *)
(***************************************************************************)
\* The places at which two hashes differ.
Differing(p, q) == (p \ q) \cup (q \ p)

\* Places of a hash can be counted.
LEMMA DifferingIs ==
  ASSUME NEW p \in SUBSET (1..Width), NEW q \in SUBSET (1..Width)
  PROVE  Differing(p, q) \subseteq 1..Width /\ IsFiniteSet(Differing(p, q))
<1>1. Differing(p, q) \in SUBSET (1..Width)
  BY DEF Differing
<1>2. IsFiniteSet(1..Width)
  BY WidthIs, FS_Interval
<1> QED BY <1>1, <1>2, FS_Subset

\* hammingDistance counts them.
LEMMA HammingIs ==
  ASSUME NEW p \in SUBSET (1..Width), NEW q \in SUBSET (1..Width)
  PROVE  HammingDistance(BinaryOf(p), BinaryOf(q)) = Cardinality(Differing(p, q))
<1>1. DOMAIN BinaryOf(p) = 1..Width
  BY DEF BinaryOf
<1>2. \A i \in 1..Width : BinaryOf(p)[i] # BinaryOf(q)[i] <=> i \in Differing(p, q)
  BY DEF BinaryOf, Differing
<1>3. {i \in DOMAIN BinaryOf(p) : BinaryOf(p)[i] # BinaryOf(q)[i]} = Differing(p, q)
  BY <1>1, <1>2, DifferingIs
<1> QED BY <1>3 DEF HammingDistance

\* The squared distance of the stored floats is the same number.
LEMMA SquaredIs ==
  ASSUME NEW p \in SUBSET (1..Width), NEW q \in SUBSET (1..Width)
  PROVE  SquaredL2(BinaryStringToFloatArray(BinaryOf(p)), BinaryStringToFloatArray(BinaryOf(q)))
           = Cardinality(Differing(p, q))
<1> DEFINE a == BinaryStringToFloatArray(BinaryOf(p))
           b == BinaryStringToFloatArray(BinaryOf(q))
           D == Differing(p, q)
           cells == UNION {{i} \X (1..((a[i] - b[i]) * (a[i] - b[i]))) : i \in DOMAIN a}
<1>1. DOMAIN a = 1..Width
  BY DEF BinaryStringToFloatArray
<1>2. \A i \in 1..Width : a[i] = One(p, i) /\ b[i] = One(q, i)
  BY BinaryOfIs DEF BinaryStringToFloatArray, One
<1>3. ASSUME NEW i \in 1..Width
      PROVE  (a[i] - b[i]) * (a[i] - b[i]) = IF i \in D THEN 1 ELSE 0
  <2>1. a[i] = (IF i \in p THEN 1 ELSE 0) /\ b[i] = (IF i \in q THEN 1 ELSE 0)
    BY <1>2 DEF One
  <2> HIDE DEF a, b
  <2>2. i \in D <=> ~(i \in p <=> i \in q)
    BY DEF Differing
  <2>3. CASE i \in p /\ i \in q
    BY <2>1, <2>2, <2>3
  <2>4. CASE i \in p /\ i \notin q
    BY <2>1, <2>2, <2>4
  <2>5. CASE i \notin p /\ i \in q
    BY <2>1, <2>2, <2>5
  <2>6. CASE i \notin p /\ i \notin q
    BY <2>1, <2>2, <2>6
  <2> QED BY <2>3, <2>4, <2>5, <2>6
<1> HIDE DEF a, b, D
<1>4. ASSUME NEW i \in 1..Width
      PROVE  {i} \X (1..((a[i] - b[i]) * (a[i] - b[i]))) = IF i \in D THEN {i} \X {1} ELSE {}
  <2>1. CASE i \in D
    <3>1. 1..((a[i] - b[i]) * (a[i] - b[i])) = {1}
      BY <1>3, <2>1
    <3> QED BY <2>1, <3>1
  <2>2. CASE i \notin D
    <3>1. 1..((a[i] - b[i]) * (a[i] - b[i])) = {}
      BY <1>3, <2>2
    <3> QED BY <2>2, <3>1
  <2> QED BY <2>1, <2>2
<1>5. D \subseteq 1..Width /\ IsFiniteSet(D)
  BY DifferingIs DEF D
<1>6. cells = D \X {1}
  <2>1. ASSUME NEW c \in cells PROVE c \in D \X {1}
    <3>1. PICK i \in 1..Width : c \in {i} \X (1..((a[i] - b[i]) * (a[i] - b[i])))
      BY <1>1
    <3>2. i \in D /\ c \in {i} \X {1}
      BY <1>4, <3>1
    <3> QED BY <3>2
  <2>2. ASSUME NEW c \in D \X {1} PROVE c \in cells
    <3>1. PICK i \in D : c \in {i} \X {1}
      BY <2>2
    <3>2. i \in 1..Width
      BY <1>5
    <3>3. c \in {i} \X (1..((a[i] - b[i]) * (a[i] - b[i])))
      BY <1>4, <3>1, <3>2
    <3> QED BY <1>1, <3>2, <3>3
  <2> QED BY <2>1, <2>2
<1>7. Cardinality(D \X {1}) = Cardinality(D)
  <2>1. IsFiniteSet({1}) /\ Cardinality({1}) = 1
    BY FS_Singleton
  <2>2. Cardinality(D \X {1}) = Cardinality(D) * 1
    BY <1>5, <2>1, FS_Product
  <2>3. Cardinality(D) \in Nat
    BY <1>5, FS_CardinalityType
  <2> QED BY <2>2, <2>3
<1>8. SquaredL2(a, b) = Cardinality(cells)
  BY DEF SquaredL2
<1> QED BY <1>6, <1>7, <1>8 DEF a, b, D

\* The floats give the bits back.
LEMMA FloatsAndBack ==
  ASSUME NEW p
  PROVE  FloatArrayToBinaryString(BinaryStringToFloatArray(BinaryOf(p))) = BinaryOf(p)
BY BinaryOfIs DEF FloatArrayToBinaryString, BinaryStringToFloatArray, BinaryOf

\* What comes out for two hashes, however they are written.
LEMMA ComparedIs ==
  ASSUME NEW p \in SUBSET (1..Width), NEW q \in SUBSET (1..Width),
         NEW s, NEW t, Reads(Trim(s), p), Reads(Trim(t), q)
  PROVE  /\ Compared(s, t).bits = BinaryOf(p)
         /\ Compared(s, t).back = BinaryOf(p)
         /\ Compared(s, t).distance = Cardinality(Differing(p, q))
         /\ Compared(s, t).l2 = Cardinality(Differing(p, q))
         /\ Compared(s, t).hex = HexOf(p)
<1>1. ParsePHash(s) = BinaryOf(p) /\ ParsePHash(t) = BinaryOf(q)
  BY DEF ParsePHash, Reads
<1>2. \A r : BinaryOf(r) # Invalid
  <2> SUFFICES ASSUME NEW r PROVE BinaryOf(r) # <<>>
    BY DEF Invalid
  <2>1. Len(BinaryOf(r)) = Width
    BY BinaryOfIs, StringIs
  <2>2. Len(<<>>) = 0
    BY EmptySeq
  <2> QED BY <2>1, <2>2, WidthIs
<1>3. ComparePHashes(Trim(s), Trim(t)) = Cardinality(Differing(p, q))
  BY <1>2, HammingIs DEF ComparePHashes, Reads
<1>4. Compared(s, t).bits = BinaryOf(p)
  BY <1>1 DEF Compared
<1>5. Compared(s, t).back = BinaryOf(p)
  BY <1>1, FloatsAndBack DEF Compared
<1>6. Compared(s, t).distance = Cardinality(Differing(p, q))
  BY <1>3 DEF Compared
<1>7. Compared(s, t).l2 = Cardinality(Differing(p, q))
  BY <1>1, SquaredIs DEF Compared
<1>8. Compared(s, t).hex = HexOf(p)
  BY DEF Compared, Reads
<1> QED BY <1>4, <1>5, <1>6, <1>7, <1>8
(***************************************************************************)
(* Texts that are read                                                     *)
(***************************************************************************)
\* Of some positions one is the first and one the last.
LEMMA EndsAre ==
  ASSUME NEW n \in Nat, NEW of \in SUBSET (1..n), of # {}
  PROVE  /\ Min(of) \in of /\ Max(of) \in of
         /\ \A m \in of : Min(of) <= m /\ m <= Max(of)
<1>1. Min(of) \in of
  BY FirstIs
<1>2. \E f \in of : \A m \in of : f >= m
  <2> DEFINE left == {n - m : m \in of}
  <2>1. left \in SUBSET Nat /\ left # {}
    <3>1. \A m \in of : n - m \in Nat
      OBVIOUS
    <3>2. PICK m \in of : TRUE
      OBVIOUS
    <3>3. n - m \in left
      OBVIOUS
    <3> QED BY <3>1, <3>3
  <2>2. PICK k \in left : \A m \in left : ~(<<m, k>> \in OpToRel(<, Nat))
    BY <2>1, NatLessThanWellFounded, WFMin
  <2>3. PICK f \in of : k = n - f
    BY <2>2
  <2>4. ASSUME NEW m \in of PROVE f >= m
    <3>1. ~(n - m < k)
      <4>1. n - m \in left /\ n - m \in Nat /\ k \in Nat
        BY <2>1
      <4> QED BY <2>2, <4>1 DEF OpToRel
    <3> QED BY <2>3, <3>1
  <2> QED BY <2>4
<1>3. Max(of) \in of /\ \A m \in of : Max(of) >= m
  BY <1>2 DEF Max
<1>4. \E f \in of : \A m \in of : f =< m
  <2>1. of \in SUBSET Nat
    OBVIOUS
  <2>2. PICK f \in of : \A m \in of : ~(<<m, f>> \in OpToRel(<, Nat))
    BY <2>1, NatLessThanWellFounded, WFMin
  <2>3. \A m \in of : ~(m < f)
    BY <2>1, <2>2 DEF OpToRel
  <2> QED BY <2>1, <2>3
<1>5. \A m \in of : Min(of) =< m
  BY <1>4 DEF Min
<1>6. \A m \in of : Min(of) <= m /\ m <= Max(of)
  BY <1>1, <1>3, <1>5
<1> QED BY <1>1, <1>3, <1>6

\* trim leaves a string.
LEMMA TrimmedIsText ==
  ASSUME NEW n, NEW s, IsText(s, n)
  PROVE  \E m : IsText(Trim(s), m)
<1> DEFINE dark == {i \in DOMAIN s : s[i] # Blank}
<1>1. n \in Nat /\ DOMAIN s = 1..n
  BY DEF IsText
<1>2. CASE dark = {}
  <2>1. Trim(s) = <<>>
    BY <1>2 DEF Trim
  <2>2. PICK none : none = <<>>
    OBVIOUS
  <2>3. none \in Seq(Nat) /\ Len(none) = 0
    BY <2>2
  <2>4. none \in [1..0 -> Nat]
    BY <2>3, LenProperties
  <2>5. IsText(none, 0)
    BY <2>4 DEF IsText
  <2> QED BY <2>1, <2>2, <2>5
<1>3. CASE dark # {}
  <2>1. Trim(s) = SubSeq(s, Min(dark), Max(dark))
    BY <1>3 DEF Trim
  <2>2. dark \in SUBSET (1..n)
    BY <1>1
  <2> HIDE DEF dark
  <2>3. Min(dark) \in dark /\ Max(dark) \in dark /\ \A m \in dark : Min(dark) <= m /\ m <= Max(dark)
    BY <1>1, <1>3, <2>2, EndsAre
  <2>4. /\ Min(dark) \in Nat /\ Max(dark) \in Nat /\ 1 <= Min(dark)
        /\ Min(dark) <= Max(dark) /\ Max(dark) <= n
    <3>1. Min(dark) \in 1..n /\ Max(dark) \in 1..n
      BY <2>2, <2>3
    <3>2. Min(dark) <= Max(dark)
      BY <2>3
    <3> QED BY <1>1, <3>1, <3>2
  <2>5. IsText(SubSeq(s, Min(dark), Max(dark)), Max(dark) - Min(dark) + 1)
    BY <2>4, PartOfText
  <2> QED BY <2>1, <2>5
<1> QED BY <1>2, <1>3

\* The one bits of a string, and the string in lower case.
Ones(bits) == {i \in 1..Width : bits[i] = "1"}
InLower(t) == [i \in DOMAIN t |-> Lower(t[i])]

\* Zeros and ones are the bits they say.
LEMMA BinaryIsSpelled ==
  ASSUME NEW m, NEW t, IsText(t, m), IsValidBinaryPHash(t)
  PROVE  InLower(t) = BinaryOf(Ones(t))
<1>1. m = Width
  BY StringIs DEF IsValidBinaryPHash
<1>2. \A i \in 1..Width : t[i] \in {"0", "1"}
  BY <1>1 DEF IsValidBinaryPHash, ToSet, IsText
<1>3. Lower("0") = "0" /\ Lower("1") = "1"
  <2>1. Lower(Digits[0 + 1]) = Digits[0 + 1] /\ Lower(Digits[1 + 1]) = Digits[1 + 1]
    BY LowerDigit
  <2> QED BY <2>1, DigitsAre
<1>4. DOMAIN t = 1..Width
  BY <1>1 DEF IsText
<1>5. IsText(InLower(t), Width)
  BY <1>4, WidthIs DEF IsText, InLower
<1>6. \A i \in 1..Width : InLower(t)[i] = BinaryOf(Ones(t))[i]
  <2> SUFFICES ASSUME NEW i \in 1..Width PROVE InLower(t)[i] = BinaryOf(Ones(t))[i]
    OBVIOUS
  <2>1. InLower(t)[i] = t[i]
    BY <1>2, <1>3, <1>4 DEF InLower
  <2>2. BinaryOf(Ones(t))[i] = IF t[i] = "1" THEN "1" ELSE "0"
    BY DEF BinaryOf, Ones
  <2> QED BY <1>2, <2>1, <2>2
<1> QED BY <1>5, <1>6, BinaryOfIs, SameText

\* A number in binary has a one at the places its bits say.
LEMMA HexIsSpelled ==
  ASSUME NEW t, NEW c, IsHexText(c), Cleaned(t) = c
  PROVE  c = HexOf(Ones(HexToBinaryString(t)))
<1> DEFINE bits == HexToBinaryString(t)
           p == Ones(bits)
<1>1. ASSUME NEW j \in 1..(Width \div 4)
      PROVE  c[j] = HexOf(p)[j]
  <2>1. PICK d \in 0..15 : c[j] = Digits[d + 1]
    BY DEF IsHexText, IsDigit
  <2>2. Nibble(c[j]) = d
    BY <2>1, DigitIs
  <2>3. ASSUME NEW k \in 1..4
        PROVE  One(p, 4 * j - 4 + k) = Bit(d, k)
    <3> DEFINE i == 4 * j - 4 + k
    <3>1. i \in 1..Width /\ (i - 1) \div 4 + 1 = j /\ ((i - 1) % 4) + 1 = k
      BY WidthIs
    <3> HIDE DEF i
    <3>2. bits[i] = Digits[1 + Bit(d, k)]
      BY <2>2, <3>1 DEF HexToBinaryString
    <3>3. Bit(d, k) \in {0, 1}
      <4>1. Bit(d, k) \in 0..1
        BY BitsOfDigit
      <4> QED BY <4>1
    <3>4. bits[i] = "1" <=> Bit(d, k) = 1
      BY <3>2, <3>3, DigitsAre
    <3>5. One(p, i) = Bit(d, k)
      BY <3>1, <3>3, <3>4 DEF One, Ones
    <3> QED BY <3>5 DEF i
  <2> HIDE DEF p
  <2>4. NibbleOf(p, j) = d
    <3>1. /\ One(p, 4 * j - 3) = Bit(d, 1) /\ One(p, 4 * j - 2) = Bit(d, 2)
          /\ One(p, 4 * j - 1) = Bit(d, 3) /\ One(p, 4 * j) = Bit(d, 4)
      <4>1. /\ One(p, 4 * j - 4 + 1) = Bit(d, 1) /\ One(p, 4 * j - 4 + 2) = Bit(d, 2)
            /\ One(p, 4 * j - 4 + 3) = Bit(d, 3) /\ One(p, 4 * j - 4 + 4) = Bit(d, 4)
        BY <2>3
      <4>2. /\ 4 * j - 4 + 1 = 4 * j - 3 /\ 4 * j - 4 + 2 = 4 * j - 2
            /\ 4 * j - 4 + 3 = 4 * j - 1 /\ 4 * j - 4 + 4 = 4 * j
        BY WidthIs
      <4> QED BY <4>1, <4>2
    <3>2. 8 * Bit(d, 1) + 4 * Bit(d, 2) + 2 * Bit(d, 3) + Bit(d, 4) = d
      BY BitsOfDigit
    <3> QED BY <3>1, <3>2 DEF NibbleOf
  <2>5. HexOf(p)[j] = Digits[1 + NibbleOf(p, j)] /\ 1 + d = d + 1
    BY HexOfIs
  <2> QED BY <2>1, <2>4, <2>5
<1>2. IsText(HexOf(p), Width \div 4) /\ IsText(c, Width \div 4)
  BY HexOfIs DEF IsHexText
<1> QED BY <1>1, <1>2, SameText

\* What is taken for hex is, in lower case, its digits or 0x before them.
LEMMA CleanedFrom ==
  ASSUME NEW m, NEW t, IsText(t, m), IsValidHexPHash(t)
  PROVE  /\ IsHexText(Cleaned(t))
         /\ InLower(t) = Cleaned(t) \/ InLower(t) = <<"0", "x">> \o Cleaned(t)
<1> DEFINE l == InLower(t)
           q == Width \div 4
           c == Cleaned(t)
           prefixed == Len(l) >= 2 /\ l[1] = "0" /\ l[2] = "x"
<1>1. IsText(l, m) /\ Len(l) = m /\ m \in Nat
  <2>1. m \in Nat /\ DOMAIN t = 1..m
    BY DEF IsText
  <2>2. IsText(l, m)
    BY <2>1 DEF IsText, InLower
  <2> QED BY <2>1, <2>2, StringIs
<1>2. c = IF prefixed THEN SubSeq(l, 3, Len(l)) ELSE l
  BY DEF Cleaned, InLower
<1>3. Len(c) = q /\ ToSet(c) \subseteq ToSet(Digits)
  BY DEF IsValidHexPHash
<1>4. q \in Nat /\ q >= 2
  BY WidthIs
<1>5. \A k : IsText(c, k) => IsHexText(c)
  <2> SUFFICES ASSUME NEW k, IsText(c, k) PROVE IsHexText(c)
    OBVIOUS
  <2>1. k = q
    BY <1>3, StringIs
  <2>2. DOMAIN Digits = 1..16
    BY DEF Digits
  <2>3. ASSUME NEW i \in 1..q PROVE IsDigit(c[i])
    <3>1. c[i] \in ToSet(Digits)
      BY <1>3, <2>1, <2>3 DEF ToSet, IsText
    <3>2. PICK d \in 1..16 : c[i] = Digits[d]
      BY <2>2, <3>1 DEF ToSet
    <3>3. d - 1 \in 0..15 /\ d - 1 + 1 = d
      OBVIOUS
    <3> QED BY <3>2, <3>3 DEF IsDigit
  <2> QED BY <2>1, <2>3 DEF IsHexText
<1> HIDE DEF c, l, q
<1>6. CASE ~prefixed
  BY <1>1, <1>2, <1>5, <1>6 DEF c, l
<1>7. CASE prefixed
  <2>1. c = SubSeq(l, 3, m)
    BY <1>1, <1>2, <1>7
  <2>2. m >= 3
    <3>1. CASE m = 2
      <4>1. SubSeq(l, 3, m) = <<>>
        BY <3>1, SubSeqEmpty
      <4>2. Len(<<>>) = 0
        BY EmptySeq
      <4>3. Len(c) = 0
        BY <2>1, <4>1, <4>2, Zenon
      <4> QED BY <1>3, <1>4, <4>3
    <3> QED BY <1>1, <1>7, <3>1
  <2>3. IsText(c, m - 3 + 1) /\ \A i \in 1..(m - 3 + 1) : c[i] = l[3 + i - 1]
    BY <1>1, <2>1, <2>2, PartOfText
  <2>4. IsHexText(c)
    BY <1>5, <2>3
  <2> DEFINE x == <<"0", "x">>
  <2>5. IsText(x, 2) /\ x[1] = "0" /\ x[2] = "x"
    BY ShortText
  <2> HIDE DEF x
  <2>6. Joins(x \o c, x, 2, c, m - 3 + 1)
    BY <2>3, <2>5, JoinedText
  <2> DEFINE u == x \o c
  <2> HIDE DEF u
  <2>7. Joins(u, x, 2, c, m - 3 + 1)
    BY <2>6 DEF u
  <2>8. 2 + (m - 3 + 1) = m
    BY <1>1
  <2>9. IsText(u, m)
    BY <2>7, <2>8 DEF Joins
  <2>10. \A i \in 1..m : l[i] = u[i]
    <3> SUFFICES ASSUME NEW i \in 1..m PROVE l[i] = u[i]
      OBVIOUS
    <3>1. u[1] = "0" /\ u[2] = "x"
      <4>1. 1 \in 1..2 /\ 2 \in 1..2
        OBVIOUS
      <4> QED BY <2>5, <2>7, <4>1 DEF Joins
    <3>2. CASE i = 1 \/ i = 2
      BY <1>7, <3>1, <3>2
    <3>3. CASE i > 2
      <4>1. i - 2 \in 1..(m - 3 + 1) /\ 3 + (i - 2) - 1 = i /\ 2 + (i - 2) = i
        BY <1>1, <3>3
      <4>2. c[i - 2] = l[3 + (i - 2) - 1] /\ u[2 + (i - 2)] = c[i - 2]
        BY <2>3, <2>7, <4>1 DEF Joins
      <4> QED BY <4>1, <4>2
    <3> QED BY <1>1, <3>2, <3>3
  <2>11. l = u
    BY <1>1, <2>9, <2>10, SameText
  <2> QED BY <2>4, <2>11 DEF u, x, c, l
<1> QED BY <1>6, <1>7
\* A text that is read is a spelling, in lower case, of the hash it is read as.
LEMMA ReadTextIsSpelled ==
  ASSUME NEW n, NEW text, IsText(text, n), ParsePHash(text) # Invalid
  PROVE  InLower(Trim(text))
           \in {Spelled(Ones(ParsePHash(text)), how) : how \in {"binary", "hex", "0x"}}
<1> DEFINE t == Trim(text)
           p == Ones(ParsePHash(text))
<1>1. PICK m : IsText(t, m)
  BY TrimmedIsText
<1>2. /\ Spelled(p, "binary") = BinaryOf(p)
      /\ Spelled(p, "hex") = HexOf(p)
      /\ Spelled(p, "0x") = <<"0", "x">> \o HexOf(p)
  BY DEF Spelled
<1>3. CASE IsValidBinaryPHash(t)
  <2>1. ParsePHash(text) = t
    BY <1>3 DEF ParsePHash, NormalizePHashToBinary
  <2>2. InLower(t) = BinaryOf(p)
    BY <1>1, <1>3, <2>1, BinaryIsSpelled
  <2> QED BY <1>2, <2>2
<1>4. CASE ~ IsValidBinaryPHash(t)
  <2>1. IsValidHexPHash(t) /\ ParsePHash(text) = HexToBinaryString(t)
    BY <1>4 DEF ParsePHash, NormalizePHashToBinary
  <2>2. /\ IsHexText(Cleaned(t))
        /\ InLower(t) = Cleaned(t) \/ InLower(t) = <<"0", "x">> \o Cleaned(t)
    BY <1>1, <2>1, CleanedFrom
  <2>3. Cleaned(t) = HexOf(p)
    BY <2>1, <2>2, HexIsSpelled
  <2> QED BY <1>2, <2>2, <2>3
<1> QED BY <1>3, <1>4

\* All spellings of a hash are the same bits in the same order, through floats and
\* back, and two hashes are as far apart as they have bits that differ, for
\* comparePHashes and for the database alike; a text that is none of them is
\* refused.
THEOREM SameBitsHolds == Spec => []SameBits
<1>1. Init => SameBits
  <2>1. Init => job.kind = "none"
    BY DEF Init
  <2> QED BY <2>1 DEF SameBits
<1>2. SameBits /\ [Next]_vars => SameBits'
  <2> SUFFICES ASSUME SameBits, [Next]_vars PROVE SameBits'
    OBVIOUS
  <2>1. CASE Compare
    <3>1. PICK p \in SUBSET (1..Width), q \in Others, how \in Spellings, also \in Spellings :
            Convert([kind |-> "hash", p |-> p, q |-> q],
                    Compared(Spelled(p, how), Spelled(q, also)))
      BY <2>1 DEF Compare
    <3>2. q \in SUBSET (1..Width)
      BY ConversionsAssumption
    <3>3. /\ job'.kind = "hash" /\ job'.p = p /\ job'.q = q
          /\ outcome' = Compared(Spelled(p, how), Spelled(q, also))
      BY <3>1 DEF Convert
    <3>4. Reads(Trim(Spelled(p, how)), p) /\ Reads(Trim(Spelled(q, also)), q)
      BY SpelledReads
    <3>5. /\ outcome'.bits = BinaryOf(p) /\ outcome'.back = BinaryOf(p)
          /\ outcome'.distance = Cardinality(Differing(p, q))
          /\ outcome'.l2 = Cardinality(Differing(p, q))
          /\ outcome'.hex = HexOf(p)
      BY <3>2, <3>3, <3>4, ComparedIs
    <3> QED BY <3>3, <3>5 DEF SameBits, Differing
  <2>2. CASE Parse
    <3>1. PICK n \in 0..MaxText : \E text \in [1..n -> Characters] :
            Convert([kind |-> "text", text |-> text], ParsePHash(text))
      BY <2>2 DEF Parse
    <3>2. PICK text \in [1..n -> Characters] :
            Convert([kind |-> "text", text |-> text], ParsePHash(text))
      BY <3>1
    <3>3. job'.kind = "text" /\ job'.text = text /\ outcome' = ParsePHash(text)
      BY <3>2 DEF Convert
    <3>4. IsText(text, n)
      BY ConversionsAssumption DEF IsText
    <3>5. outcome' # Invalid =>
            InLower(Trim(text)) \in {Spelled(Ones(outcome'), how) : how \in {"binary", "hex", "0x"}}
      BY <3>3, <3>4, ReadTextIsSpelled
    <3> QED BY <3>3, <3>5 DEF SameBits, InLower, Ones
  <2>3. CASE ConvertDer
    <3>1. job'.kind = "der"
      BY <2>3 DEF ConvertDer, Convert
    <3> QED BY <3>1 DEF SameBits
  <2>4. CASE Sign
    <3>1. job'.kind = "sign"
      BY <2>4 DEF Sign, Convert
    <3> QED BY <3>1 DEF SameBits
  <2>5. CASE SignIdentity
    <3>1. job'.kind = "identity"
      BY <2>5 DEF SignIdentity, Convert
    <3> QED BY <3>1 DEF SameBits
  <2>6. CASE Decode
    <3>1. job'.kind = "tags"
      BY <2>6 DEF Decode, Convert
    <3> QED BY <3>1 DEF SameBits
  <2>7. CASE UNCHANGED vars
    BY <2>7 DEF vars, SameBits
  <2> QED BY <2>1, <2>2, <2>3, <2>4, <2>5, <2>6, <2>7 DEF Next
<1> QED BY <1>1, <1>2, PTL DEF Spec
=============================================================================
