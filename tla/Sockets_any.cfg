SPECIFICATION FairSpec
CONSTANTS
  own = own  file = file  offset = offset  s1 = s1  s2 = s2
  KeySpace = 5
  None = None
  End <- MCEnd
  Pipe = {own}
  File = {own, file}
  Sock <- MCSock
  Fd <- MCFd
  BufferCap = 1
  MaxLen = 2
  MaxBytes = 1
  Kept = {own, file}
  Inputs = {own}
  Outputs = {file}
  Pool = {"known"}
  Addr = {"known"}
  MaxPending = 1
  MaxMade = 5
INVARIANTS RefsMatch EntriesTold BytesAccounted EndMeansEnd
PROPERTIES CallsEnd
CHECK_DEADLOCK FALSE
