---------------------------- MODULE PHashFormats ----------------------------
(***************************************************************************)
(* The spellings of a perceptual hash: bits, hex with or without 0x, and   *)
(* the floats the database compares (src/utils/bit-vector.ts and the       *)
(* string half of src/services/phash.service.ts), and the bytes of a       *)
(* soft-binding value.  A string is the sequence of its characters; the    *)
(* empty string stands for a throw: no spelling of a hash is empty.        *)
(***************************************************************************)
EXTENDS Integers, SequencesExt

CONSTANT Width   \* 64

ASSUME WidthAssumption == Width \in Nat /\ Width % 8 = 0 /\ Width > 0

Digits == <<"0", "1", "2", "3", "4", "5", "6", "7",
            "8", "9", "a", "b", "c", "d", "e", "f">>
Capitals == <<"A", "B", "C", "D", "E", "F">>

Blank == " "
Invalid == <<>>
\* The bits of a digit, the heaviest first.
Weights == <<8, 4, 2, 1>>
Bit(n, place) == (n \div Weights[place]) % 2
Nibble(char) == CHOOSE n \in 0..15 : Digits[n + 1] = char

\* toLowerCase, and the 0x that may lead.
Lower(char) ==
  IF char = "X" THEN "x"
  ELSE IF \E i \in DOMAIN Capitals : Capitals[i] = char
  THEN Digits[10 + CHOOSE i \in DOMAIN Capitals : Capitals[i] = char]
  ELSE char

Cleaned(s) ==
  LET l == [i \in DOMAIN s |-> Lower(s[i])]
  IN IF Len(l) >= 2 /\ l[1] = "0" /\ l[2] = "x" THEN SubSeq(l, 3, Len(l)) ELSE l

Trim(s) ==
  LET dark == {i \in DOMAIN s : s[i] # Blank}
  IN IF dark = {} THEN <<>> ELSE SubSeq(s, Min(dark), Max(dark))

IsValidBinaryPHash(s) == Len(s) = Width /\ ToSet(s) \subseteq {"0", "1"}

IsValidHexPHash(s) ==
  Len(Cleaned(s)) = Width \div 4 /\ ToSet(Cleaned(s)) \subseteq ToSet(Digits)

\* Fault variant of HexToBinaryString: the last bit of a digit comes first.
HexToBinaryMirrored(s) ==
  [i \in 1..Width |->
     Digits[1 + Bit(Nibble(Cleaned(s)[(i - 1) \div 4 + 1]), 4 - ((i - 1) % 4))]]

HexToBinaryString(s) ==
  [i \in 1..Width |->
     Digits[1 + Bit(Nibble(Cleaned(s)[(i - 1) \div 4 + 1]), ((i - 1) % 4) + 1)]]

BinaryStringToHex(s) ==
  [i \in 1..(Width \div 4) |->
     Digits[1 + 8 * (Nibble(s[4 * i - 3])) + 4 * Nibble(s[4 * i - 2])
              + 2 * Nibble(s[4 * i - 1]) + Nibble(s[4 * i])]]

BinaryStringToFloatArray(s) == [i \in 1..Width |-> IF s[i] = "1" THEN 1 ELSE 0]

FloatArrayToBinaryString(floats) == [i \in 1..Width |-> IF floats[i] = 1 THEN "1" ELSE "0"]

\* normalizePHashToBinary; parsePHash trims first.
NormalizePHashToBinary(s) ==
  IF IsValidBinaryPHash(s) THEN s
  ELSE IF IsValidHexPHash(s) THEN HexToBinaryString(s)
  ELSE Invalid

ParsePHash(s) == NormalizePHashToBinary(Trim(s))

NormalizePHashToHex(s) ==
  IF IsValidHexPHash(s) THEN Cleaned(s)
  ELSE IF IsValidBinaryPHash(s) THEN BinaryStringToHex(s)
  ELSE Invalid

HammingDistance(a, b) == Cardinality({i \in DOMAIN a : a[i] # b[i]})

\* What array_distance squares: the L2 distance of the stored floats.  The sum is
\* the number of cells of one square per place.
SquaredL2(a, b) ==
  Cardinality(UNION {{i} \X (1..((a[i] - b[i]) * (a[i] - b[i]))) : i \in DOMAIN a})

\* comparePHashes: the distance, or -1 when a hash is refused.
ComparePHashes(a, b) ==
  LET p == NormalizePHashToBinary(a)
      q == NormalizePHashToBinary(b)
  IN IF p = Invalid \/ q = Invalid THEN -1 ELSE HammingDistance(p, q)

(***************************************************************************)
(* The bytes of a soft-binding value, in base64 outside                    *)
(***************************************************************************)
PHashHexToSoftBindingBytes(s) ==
  [i \in 1..(Len(s) \div 2) |-> 16 * Nibble(s[2 * i - 1]) + Nibble(s[2 * i])]

SoftBindingBytesToPHashHex(bytes) ==
  [i \in 1..(2 * Len(bytes)) |->
     Digits[1 + (IF i % 2 = 1 THEN bytes[(i + 1) \div 2] \div 16
                 ELSE bytes[i \div 2] % 16)]]
=============================================================================
