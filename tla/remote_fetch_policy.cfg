SPECIFICATION FetchSpec
CONSTANTS
  Missing = Missing
  u1 = u1  u2 = u2  refused = refused
  Urls <- MCUrls
  AllowedUrls <- MCAllowedUrls
  HostOf <- MCHostOf
  MaxRedirects = 2
  MaxBytes = 3
  Timeout = 2
  MaxChunk = 2
  MaxWait = 4
INVARIANT
  NeverHeldByPrivateHost
CHECK_DEADLOCK FALSE
