SPECIFICATION Spec
CONSTANTS
  Fd = {f1}
  Byte = {a, b}
  Zero = zero
  MAX_OFFSET = 3
  MaxLen = 2
  None = None
  Appending = Appending
PROPERTIES AppendsAppend
CHECK_DEADLOCK FALSE
