SPECIFICATION DisciplinedSpec
CONSTANTS
  Fd = {f1, f2}
  Byte = {a, b}
  Zero = zero
  MAX_OFFSET = 2
  MaxLen = 2
  None = None
  Appending = Appending
INVARIANTS TypeOK InSync
PROPERTIES AppendsAppend ImplementsPosixFile
CHECK_DEADLOCK FALSE
