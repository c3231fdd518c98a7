CONSTANTS
  me = me
  p1 = p1
  p2 = p2
  c1 = c1
  c2 = c2
  Local = me
  Others = {p1, p2}
  Cores = {c1, c2}
  Writer <- MCWriter
  FirstStore <- MCFirstStore
  MaxLength = 17
  MaxChanges = 1
  MaxConnections = 2
  None = None
  BitsPerByte = 2
  BytesPerWord = 2
  BitsPerTreeBlock = 2
  BitsPerPage = 8
  PagesPerSegment = 2
  VarintBase = 8
SPECIFICATION StateSpec
CHECK_DEADLOCK FALSE
INVARIANTS
  HavesArrive
  NoDataToSyncIsTrue
  CacheIsFresh
  RoundTrip
