CONSTANTS
  Conn = {o, a, m}
  None = None
  Owned = TRUE
  OwnerConn = {o}
  AdminConn = {a}
  SignedInConn = {o, a, m}
  GuestConn = {}
  CoHostConn = {m}
  MaxCoHosts = 1
  Capacities = {2}
  OpeningCapacity = 2
  Locks = {FALSE}
  GivenRoles = {"co-host", "member"}
  MaxRooms = 1
SPECIFICATION Spec
INVARIANTS OneHost NoGhostPeers
PROPERTIES EntryIsApproved NoEntryAfterGoodbye HostSuccession
CHECK_DEADLOCK FALSE
