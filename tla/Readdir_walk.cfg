SPECIFICATION WalkSpec
CONSTANTS
  Fd = {3, 4}
  Entries <- MCEntries
  Dot = "."
  DotDot = ".."
  LongNames <- MCLongNames
  MaxLen = 9
  None = None
  Walker = {3}
INVARIANTS CacheTogether CacheCurrentWhileDisciplined ListsWhileDisciplined
PROPERTIES ListingsEnd
