SPECIFICATION Spec
CONSTANTS
  id = id  a = a  b = b  d = d  v = v
  None = None
  TxIds <- MCTxIds
  Heights <- MCHeights
  ManifestIds <- MCManifestIds
  Locations <- MCUrls
  Urls <- MCUrls
  SafeUrls <- MCSafeUrls
  Digests <- MCDigests
  HashValues <- MCValues
  EightByteValues <- MCValues
  ProofLocatorsEnabled = TRUE
  ChainTags <- MCChainTags
  MaxNodes = 2
INVARIANTS
  OneSourceLocator
  VerifiedIfProof
PROPERTIES
  NotFoundIsJustified
CHECK_DEADLOCK FALSE
