CONSTANTS
  Owner = o
  Member = m
  Guest = {m, g}
  Kinds = {"quick", "scheduled"}
  InvitationsVisible = TRUE
  MaxUses = 1
  MaxReports = 1
SPECIFICATION Spec
PROPERTIES CancelledIsFinal CancelledNeverHeld RevokedLinkOpensNothing
CHECK_DEADLOCK FALSE
