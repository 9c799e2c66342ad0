SPECIFICATION Spec
CONSTANTS
  ComponentBytes = 2
  MaxPayloadBytes = 12
  Width = 8
  KeyBytes <- MCKeyBytes
  Samples <- MCSamples
  Fillers <- MCFillers
  Others <- MCOthers
  Characters <- MCCharacters
  MaxText = 4
  MaxTags = 3
INVARIANTS
  SignatureExact
  PayloadLimit
  SameBits
  ReadEitherWay
CHECK_DEADLOCK FALSE
