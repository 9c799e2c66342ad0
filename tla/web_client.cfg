SPECIFICATION Spec
CONSTANTS
  m1 = m1  m2 = m2
  None = None
  Manifests <- MCManifests
  Searches <- MCSearches
  Visits <- MCVisits
  Bits <- MCBits
  Threshold = 1
  AllBits = 2
  ContentLimit = 1
  PageLimit = 1
  IndexLimit = 1
INVARIANTS
  LoadingMeansOutstanding
  ShownIsNear
PROPERTIES
  MissingIsNotListed
