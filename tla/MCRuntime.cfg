SPECIFICATION FairSpec
CONSTANTS
  c1 = c1
  c2 = c2
  c3 = c3
  Coro = {main, c1, c2}
  Main = main
  Void = {c2}
  Null = Null
  useSymmetricHandoff = TRUE
  BorrowedAwait = FALSE
  DropOnStack = FALSE
INVARIANTS
  TypeOK
  ResumeIsSafe
  WakeupsAreExact
  PollOnlyWhenIdle
  ExitWithResult
PROPERTY ReadyRuns
