---------------------------- MODULE Conversions ----------------------------
(***************************************************************************)
(* The conversions between formats, each against what it has to preserve.  *)
(* They keep no state: a job is taken, carried out in one step and         *)
(* compared with what went in.                                             *)
(***************************************************************************)
EXTENDS Signing, PHashFormats, TagDecoding

CONSTANTS
  KeyBytes,     \* component lengths of the keys that may be configured
  Samples,      \* bound on the bytes of a signature
  Fillers,      \* bound on the bytes a DER signature is altered to
  Others,       \* bound on the hashes one is compared with
  Characters,   \* bound on the characters of a text
  MaxText,      \* bound on their number
  MaxTags       \* bound on the tags of a transaction

\* The widest key that may be configured is one of P-521, 66 bytes; up to 124, DER needs
\* one byte for the length of a signature.
ASSUME ConversionsAssumption ==
  /\ KeyBytes \subseteq 1..124 /\ Samples \subseteq Byte /\ Fillers \subseteq Byte
  /\ Others \subseteq SUBSET (1..Width)
  /\ MaxText \in Nat /\ MaxTags \in Nat

VARIABLES
  job,       \* what is converted: [kind, ...]
  outcome    \* what comes out

vars == <<job, outcome>>

Init == job = [kind |-> "none"] /\ outcome = <<>>

Convert(j, o) ==
  /\ job' = j
  /\ outcome' = o

(***************************************************************************)
(* Signatures                                                              *)
(***************************************************************************)
\* The numbers ECDSA gives for a key: not 0.
Numbers(n) == {c \in [1..n -> Samples] : \E i \in 1..n : c[i] # 0}

\* DER that a fault has cut, lengthened, given a long length or changed in a byte.
Altered(der) ==
  {SubSeq(der, 1, n) : n \in 0..Len(der)}
  \cup {der \o <<0>>, <<48, 129, der[2]>> \o SubSeq(der, 3, Len(der))}
  \cup {[der EXCEPT ![i] = b] : i \in DOMAIN der, b \in Fillers}

ConvertDer ==
  \E n \in KeyBytes : \E r, s \in Numbers(n) : \E der \in Altered(Der(r, s)) :
    Convert([kind |-> "der", der |-> der], DerToIeeeP1363(der, ComponentBytes))

Sign ==
  \E enabled \in BOOLEAN, bytes \in 0..1, format \in {"der", "p1363"},
     key \in {"pem", "kms", "none"}, n \in KeyBytes :
    \E r, s \in Numbers(n) :
      Convert([kind |-> "sign", format |-> format, key |-> key, r |-> r, s |-> s],
              PostSign(enabled, bytes, format, key, r, s))

SignIdentity ==
  \E enabled, complete, isBase64 \in BOOLEAN, wallet \in {"same", "other", "invalid"},
     chars \in 0..(2 * MaxPayloadBytes), padding \in 0..2, key \in {"pem", "kms"}, r \in Numbers(1) :
      Convert([kind |-> "identity", chars |-> chars, key |-> key],
              IdentitySign(enabled, complete, wallet, isBase64, chars, padding, key, r, r))

(***************************************************************************)
(* Hashes                                                                  *)
(***************************************************************************)
Spellings == {"binary", "hex", "capitals", "0x", "0X", "spaced", "base64"}

One(p, i) == IF i \in p THEN 1 ELSE 0

HexOf(p) ==
  [i \in 1..(Width \div 4) |->
     Digits[1 + 8 * One(p, 4 * i - 3) + 4 * One(p, 4 * i - 2) + 2 * One(p, 4 * i - 1)
              + One(p, 4 * i)]]

Capital(char) ==
  IF \E i \in DOMAIN Capitals : Digits[10 + i] = char
  THEN Capitals[CHOOSE i \in DOMAIN Capitals : Digits[10 + i] = char]
  ELSE char

BinaryOf(p) == [i \in 1..Width |-> IF i \in p THEN "1" ELSE "0"]

\* A hash, the set of its one bits, as somebody writes it; "base64" is the way of
\* a soft-binding value.
Spelled(p, how) ==
  CASE how = "binary"   -> BinaryOf(p)
    [] how = "hex"      -> HexOf(p)
    [] how = "capitals" -> [i \in DOMAIN HexOf(p) |-> Capital(HexOf(p)[i])]
    [] how = "0x"       -> <<"0", "x">> \o HexOf(p)
    [] how = "0X"       -> <<"0", "X">> \o HexOf(p)
    [] how = "spaced"   -> <<Blank>> \o HexOf(p) \o <<Blank, Blank>>
    [] how = "base64"   -> SoftBindingBytesToPHashHex(PHashHexToSoftBindingBytes(HexOf(p)))

Compared(a, b) ==
  LET p == ParsePHash(a)
      q == ParsePHash(b)
  IN [bits     |-> p,
      distance |-> ComparePHashes(Trim(a), Trim(b)),
      l2       |-> SquaredL2(BinaryStringToFloatArray(p), BinaryStringToFloatArray(q)),
      back     |-> FloatArrayToBinaryString(BinaryStringToFloatArray(p)),
      hex      |-> NormalizePHashToHex(Trim(a))]

Compare ==
  \E p \in SUBSET (1..Width), q \in Others, how, also \in Spellings :
    Convert([kind |-> "hash", p |-> p, q |-> q], Compared(Spelled(p, how), Spelled(q, also)))

Parse ==
  \E n \in 0..MaxText : \E text \in [1..n -> Characters] :
    Convert([kind |-> "text", text |-> text], ParsePHash(text))

(***************************************************************************)
(* Tags                                                                    *)
(***************************************************************************)
Decode ==
  \E n \in 0..MaxTags, layers \in 0..1 :
    \E said \in [1..n -> Names \X Values] :
      LET tags == DecodeTags([i \in 1..n |-> Tag(said[i][1], said[i][2], layers)])
      IN Convert([kind |-> "tags", said |-> said, layers |-> layers],
                 [name \in Names |-> GetTagValue(tags, name)])

Next ==
  /\ job.kind = "none"
  /\ ConvertDer \/ Sign \/ SignIdentity \/ Compare \/ Parse \/ Decode

Spec == Init /\ [][Next]_vars

(***************************************************************************)
(* Properties                                                              *)
(***************************************************************************)
\* Two INTEGERs behind a header of two to six bytes.
Integers2(der) ==
  {<<SubSeq(der, h + 3, h + 2 + der[h + 2]),
     SubSeq(der, h + 5 + der[h + 2], h + 4 + der[h + 2] + der[h + 4 + der[h + 2]])>> :
     h \in {i \in 2..6 : /\ i + 3 < Len(der)
                         /\ i + 4 + der[i + 2] <= Len(der)
                         /\ der[i + 1] = 2 /\ der[i + 3 + der[i + 2]] = 2}}

\* Zeros that lead a number, the sign byte and a number that fills its component
\* come out as they went in: what is returned are the numbers of the DER, however
\* it was damaged on the way, and never bytes that only look like a signature; and
\* every signature made by a key of the configured curve is returned.
SignatureExact ==
  /\ job.kind = "der" =>
       \/ outcome = Thrown
       \/ \E rs \in Integers2(job.der) : Halves(outcome, ComponentBytes, rs[1], rs[2])
  /\ (job.kind = "sign" /\ job.format = "p1363") =>
       /\ outcome.status = 200 => Halves(outcome.body, ComponentBytes, job.r, job.s)
       /\ outcome.status = 500 => job.key # "pem" \/ Len(job.r) > ComponentBytes

\* The limit of /identity/sign, taken from the length of base64 text with padding
\* or without: nothing above it is signed, and no payload is refused that is three
\* bytes below.
PayloadLimit ==
  job.kind = "identity" =>
    /\ outcome.status = 200 => Decoded(job.chars) <= MaxPayloadBytes
    /\ outcome.status = 413 => Decoded(job.chars) + 3 > MaxPayloadBytes

\* All spellings of a hash are the same bits in the same order, through floats and
\* back, and two hashes are as far apart as they have bits that differ, for
\* comparePHashes and for the database alike; a text that is none of them is
\* refused.
SameBits ==
  /\ job.kind = "hash" =>
       /\ outcome.bits = BinaryOf(job.p) /\ outcome.back = outcome.bits
       /\ outcome.distance = Cardinality((job.p \ job.q) \cup (job.q \ job.p))
       /\ outcome.l2 = outcome.distance
       /\ outcome.hex = HexOf(job.p)
  /\ (job.kind = "text" /\ outcome # Invalid) =>
       LET p == {i \in 1..Width : outcome[i] = "1"}
           lower == [i \in DOMAIN Trim(job.text) |-> Lower(Trim(job.text)[i])]
       IN lower \in {Spelled(p, how) : how \in {"binary", "hex", "0x"}}

\* The tags of a transaction read the same whether the gateway sends them encoded
\* or plain, whatever the order and the other tags, as long as plain ones have one
\* of the names decodeTags knows.
ReadEitherWay ==
  (job.kind = "tags"
     /\ (job.layers = 1 \/ \E i \in DOMAIN job.said : job.said[i][1] \in KnownNames)) =>
    \A name \in Names \ {"protocol"} :
      LET of == {i \in DOMAIN job.said : Lowered(job.said[i][1]) = name}
      IN outcome[name].says = (IF of = {} THEN "" ELSE job.said[Min(of)][2])
         /\ outcome[name].layers = 0
=============================================================================
