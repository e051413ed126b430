CONSTANTS
  Tab = {a, b}
  None = None
  MaxKept = 3
  MaxSessions = 5
  MaxCopies = 2
SPECIFICATION AccountSpec
INVARIANTS TabsSettle SignedOutIsOut NewestIsAccepted
CONSTRAINT Scope
SYMMETRY Symmetry
CHECK_DEADLOCK FALSE
