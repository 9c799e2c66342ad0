SPECIFICATION Spec
CONSTANTS
  m1 = m1  m2 = m2  repo = repo
  u1 = u1  u2 = u2  refused = refused
  None = None
  Missing = Missing
  Malformed = Malformed
  TxIds <- MCTxIds
  Heights <- MCHeights
  ManifestIds <- MCManifestIds
  Manifests <- MCManifestIds
  Locations <- MCLocations
  Digests <- MCDigests
  Bits <- MCBits
  HintValues <- MCHintValues
  Urls <- MCUrls
  AllowedUrls <- MCAllowedUrls
  HostOf <- MCHostOf
  MaxAsked = 2
  DefaultAsked = 1
  MatchThreshold = 1
  MaxThreshold = 2
  MaxRedirects = 1
  MaxBytes = 1
  Timeout = 1
  MaxChunk = 1
  MaxWait = 1
INVARIANTS
  LatestEndpoint
  OtherSourceSuffices
  
  LimitIsExact
  AnswerFitsRequest
  BindingRoomHalfFilled
PROPERTIES
  QueriesEnd
CHECK_DEADLOCK FALSE
