SPECIFICATION FairSpec
CONSTANTS
  None = None
  t1 = t1  t2 = t2  m1 = m1  m2 = m2
  v1 = v1  v2 = v2  badValue = badValue
  safeUrl = safeUrl  unsafeUrl = unsafeUrl  d1 = d1
  h1 = h1  h2 = h2
  TxIds <- MCTxIds
  ManifestIds <- MCManifestIds
  HashValues <- MCHashValues
  EightByteValues <- MCEightByteValues
  Urls <- MCUrls
  SafeUrls <- MCSafeUrls
  Digests <- MCDigests
  ProofLocatorsEnabled = TRUE

  Handlers <- TwoHandlers
  Deliveries <- RuleDeliveries
  MaxDeliveries = 3
  MaxCrashes = 1
  AfterNestedBegin = {"open", "aborted"}
  CommitOfAborted = {"refused", "rolledBack"}
  CommitMayFail = TRUE
  StatementMayFail = TRUE
INVARIANTS
  UniqueManifests
PROPERTIES
  FirstWriteWins
  EveryRequestAnswered
  TransactionEnds
CHECK_DEADLOCK FALSE
