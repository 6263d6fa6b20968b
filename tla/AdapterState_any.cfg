SPECIFICATION FairSpec
CONSTANTS
  Function <- MCFunction
  Guarded <- MCGuarded
  Mut <- MCMut
  Fd <- MCFd
  List <- MCList
  Buffer <- MCBuffer
  Import = "cabi_import_realloc"
  Export = "cabi_export_realloc"
INVARIANTS ModesMatchImports BorrowsMatchCalls CreatedOnce TrapsExplained
PROPERTIES CallsReturn
CHECK_DEADLOCK FALSE
