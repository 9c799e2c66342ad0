------------------------------- MODULE Signing -------------------------------
(***************************************************************************)
(* The signing oracle: the DER to IEEE P1363 conversion and the two ways   *)
(* to sign (src/services/signing.service.ts) and the answers of /sign and  *)
(* /identity/sign (src/routes/sign.ts).  Bytes are numbers, buffers are    *)
(* sequences, and the empty sequence stands for a throw: no signature is   *)
(* empty.                                                                  *)
(***************************************************************************)
EXTENDS Integers, Sequences

CONSTANTS
  ComponentBytes,    \* sigBytes / 2 of SIGNING_ALGORITHM: 32 or 48
  MaxPayloadBytes    \* maxPayloadBytes of /identity/sign, 10 MB

ASSUME SigningAssumption ==
  ComponentBytes \in Nat \ {0} /\ MaxPayloadBytes \in Nat

Byte == 0..255
Thrown == <<>>

(***************************************************************************)
(* derToIeeeP1363                                                          *)
(***************************************************************************)
\* The offset of r behind the SEQUENCE header, in short or long form; 0 if the
\* header is refused.  What the length says is not compared with the buffer.
HeaderEnd(der) ==
  IF Len(der) < 2 \/ der[1] # 48 THEN 0
  ELSE IF der[2] < 128 THEN 2
  ELSE IF der[2] - 128 \in 1..4 /\ der[2] - 127 < Len(der) THEN der[2] - 126
  ELSE 0

HoldsInteger(der, offset) ==
  /\ offset + 1 < Len(der)
  /\ der[offset + 1] = 2
  /\ offset + 2 + der[offset + 2] <= Len(der)

IntegerEnd(der, offset) == offset + 2 + der[offset + 2]

Content(der, offset) == SubSeq(der, offset + 3, IntegerEnd(der, offset))

\* The leading bytes of an INTEGER for which a component has no room.
Surplus(c, n) == IF Len(c) > n THEN Len(c) - n ELSE 0

\* Fault variant of Fits: one zero is taken for all of them.
FitsByFirst(c, n) == Surplus(c, n) = 0 \/ c[1] = 0

\* stripLeadingZeros returns if the surplus is all zeros, and throws otherwise.
Fits(c, n) == \A i \in 1..Surplus(c, n) : c[i] = 0

StripLeadingZeros(c, n) == SubSeq(c, Surplus(c, n) + 1, Len(c))

\* Buffer.alloc and copy: the number at the right edge of n bytes.
Padded(c, n) ==
  [i \in 1..n |-> IF i <= n - Len(c) THEN 0 ELSE c[i - (n - Len(c))]]

DerToIeeeP1363(der, n) ==
  LET r == HeaderEnd(der)
      s == IntegerEnd(der, r)
  IN IF /\ r # 0
        /\ HoldsInteger(der, r) /\ HoldsInteger(der, s)
        /\ Fits(Content(der, r), n) /\ Fits(Content(der, s), n)
     THEN Padded(StripLeadingZeros(Content(der, r), n), n)
          \o Padded(StripLeadingZeros(Content(der, s), n), n)
     ELSE Thrown

(***************************************************************************)
(* What a conversion has to preserve                                       *)
(***************************************************************************)
\* The k-th byte from the right of a number.
ByteAt(c, k) == IF k < Len(c) THEN c[Len(c) - k] ELSE 0

SameNumber(a, b) == \A k \in 0..(Len(a) + Len(b)) : ByteAt(a, k) = ByteAt(b, k)

\* A P1363 signature is two numbers of n bytes.
Halves(signature, n, r, s) ==
  /\ Len(signature) = 2 * n
  /\ SameNumber(SubSeq(signature, 1, n), r)
  /\ SameNumber(SubSeq(signature, n + 1, 2 * n), s)

(***************************************************************************)
(* crypto.sign with dsaEncoding 'der'                                      *)
(***************************************************************************)
\* DER writes a positive number in as few bytes as leave its first bit 0.
MinimalInteger(c) ==
  LET first == CHOOSE i \in 1..Len(c) :
                 (c[i] # 0 \/ i = Len(c)) /\ \A j \in 1..(i - 1) : c[j] = 0
      significant == SubSeq(c, first, Len(c))
  IN IF significant[1] < 128 THEN significant ELSE <<0>> \o significant

Tlv(content) == <<2, Len(content)>> \o content

\* A length of up to 255 bytes, in short or long form.
LengthOf(n) == IF n < 128 THEN <<n>> ELSE <<129, n>>

Der(r, s) ==
  LET body == Tlv(MinimalInteger(r)) \o Tlv(MinimalInteger(s))
  IN (<<48>> \o LengthOf(Len(body))) \o body

(***************************************************************************)
(* Signing with a key: "pem", or only "kms", or "none"                     *)
(***************************************************************************)
\* KMS is not implemented.
SignCose(key, r, s) ==
  IF key = "pem" THEN DerToIeeeP1363(Der(r, s), ComponentBytes) ELSE Thrown

SignDer(key, r, s) == IF key = "pem" THEN Der(r, s) ELSE Thrown

Answered(status, body) == [status |-> status, body |-> body]

Signed(signature) ==
  IF signature = Thrown THEN Answered(500, Thrown) ELSE Answered(200, signature)

\* POST /sign.
PostSign(enabled, bytes, format, key, r, s) ==
  IF ~enabled THEN Answered(501, Thrown)
  ELSE IF bytes = 0 THEN Answered(400, Thrown)
  ELSE Signed(IF format = "der" THEN SignDer(key, r, s) ELSE SignCose(key, r, s))

\* What Buffer.from makes of base64 text: chars of the alphabet, then padding.
Decoded(chars) == (chars * 3) \div 4

\* Math.ceil over the length of the text, padding included.
EstimatedBytes(chars, padding) == ((chars + padding) * 3 + 3) \div 4

\* Fault variant of PayloadTooLarge: the padding is not counted, nor rounded up.
PayloadTooLargeByChars(chars, padding) == chars > MaxPayloadBytes

PayloadTooLarge(chars, padding) == EstimatedBytes(chars, padding) > MaxPayloadBytes

\* POST /identity/sign: wallet is what verifyMessage makes of the three wallet
\* fields, the payload is text of the base64 alphabet with up to two "=" behind,
\* or not.
IdentitySign(enabled, complete, wallet, isBase64, chars, padding, key, r, s) ==
  IF ~enabled THEN Answered(501, Thrown)
  ELSE IF ~complete \/ chars + padding = 0 \/ wallet = "invalid" THEN Answered(400, Thrown)
  ELSE IF wallet = "other" THEN Answered(403, Thrown)
  ELSE IF ~isBase64 THEN Answered(400, Thrown)
  ELSE IF PayloadTooLarge(chars, padding) THEN Answered(413, Thrown)
  ELSE Signed(SignDer(key, r, s))
=============================================================================
