SPECIFICATION HistorySpec
CONSTANTS
  MAX_DESCRIPTORS = 5
  NumPreopens = 1
  GuestFd <- MCGuestFd
  Handle = {h1, h2, h3, h4, h5}
  None = None
INVARIANTS HandlesLive HandlesUnshared FreelistWhileDisciplined
PROPERTIES LeaksNowhereElse FailedCallsKeepDescriptors ImplementsFdTable
SYMMETRY Symmetry
CHECK_DEADLOCK FALSE
