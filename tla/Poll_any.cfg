SPECIFICATION FairSpec
CONSTANTS
  KeySpace = 4
  None = None
  OsStream = {"file"}
  MemoryStream = {"pipe"}
  MaxU64 = 15
  Millisecond = 2
  MaxI32 = 2
  MaxNow = 4
  MaxSignals = 1
  Subscription <- MCSubscription
  MaxSubs = 2
  BadFd = {"bad"}
  EventSize = 3
  PollableSize = 2
  MaxOthers = 2
INVARIANTS NoClobber EventsMatch TableRestored SleepsLongEnough SomethingReported
PROPERTIES CallsKeepOthers ClockPollsEnd
