SPECIFICATION CalmSpec
CONSTANTS
  Function <- MCFunction
  Guarded <- MCGuarded
  Mut <- MCMut
  Fd <- MCFd
  List <- MCList
  Buffer <- MCBuffer
  Import = "cabi_import_realloc"
  Export = "cabi_export_realloc"
INVARIANTS NeverTraps
CHECK_DEADLOCK FALSE
