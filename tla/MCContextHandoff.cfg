SPECIFICATION Spec
CONSTANTS
  s1 = s1
  s2 = s2
  supervisor = supervisor
  Sessions = {s1, s2, supervisor}
  Programs <- MCPrograms
  Kinds = {"inference", "execution"}
  Limit = 1
  MaxCommands <- MCMaxCommands
  MaxRevision = 2
  MaxFaults = 1
CHECK_DEADLOCK FALSE
INVARIANTS
  HandoffInv
PROPERTIES
  BindingIsNotUndone
  LeaseIsKept
