SPECIFICATION Spec
CONSTANTS
  p1 = p1
  p2 = p2
  a1 = a1
  a2 = a2
  a3 = a3
  Proc <- MCProc
  Account <- MCAccount
  NoAccount = NoAccount
  Free = Free
  Stale = Stale
  Limit = 2
  MaxToken = 4
SYMMETRY Symmetry
INVARIANTS
  StoredTokensLive
  NothingForgotten
PROPERTIES
  RollbackKept
  ImplementsBook
