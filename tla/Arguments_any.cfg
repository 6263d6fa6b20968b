\* A guest that asks for arguments, environment and preopens in any order.
SPECIFICATION Spec
CONSTANTS
  KeySpace = 7
  None = None
  Base = 1
  ArenaSize = 36
  Word = 2
  Absent = Absent
  Builders <- MCBuilders
  NsPerSec = 2
  MaxTime = 4
  MAX_DESCRIPTORS = 5
  GuestFd = {2, 3, 4}
  GuestBuffer = 101
  Clockid = {"realtime", "monotonic", "cputime"}
  Reading <- MCReading
  Length = {1, 2}
  MaxOpens = 2
INVARIANTS SameAsHost TrapsOnlyWhenFull RegionsApart StartupInPlace
CHECK_DEADLOCK FALSE
