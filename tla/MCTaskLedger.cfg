SPECIFICATION Spec
CONSTANTS
  p1 = p1
  p2 = p2
  Procs = {p1, p2}
  Does <- MCDoes
  Strategies = 2
  RetryBudget = 1
  MaxCommands = 3
  MaxFaults = 1
CHECK_DEADLOCK FALSE
INVARIANTS
  LedgerInv
PROPERTIES
  CommitIsDurable
  JournalIsReplayed
