SPECIFICATION Spec
CONSTANTS
  c1 = c1
  c2 = c2
  c3 = c3
  Coro = {main, c1, c2, c3}
  Main = main
  Void = {}
  Null = Null
  useSymmetricHandoff = TRUE
  BorrowedAwait = FALSE
  DropOnStack = TRUE
SYMMETRY Symmetry
INVARIANT
  NoDestroyOnStack
