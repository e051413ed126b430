CONSTANTS
  Conn = {o, m}
  None = None
  Owned = TRUE
  OwnerConn = {o}
  AdminConn = {}
  SignedInConn = {o, m}
  GuestConn = {}
  CoHostConn = {}
  MaxCoHosts = 1
  Capacities = {1, 2}
  OpeningCapacity = 2
  Locks = {FALSE, TRUE}
  GivenRoles = {"co-host", "member"}
  MaxRooms = 2
SPECIFICATION FairSpec
PROPERTIES GonePeersRemoved WaitersReleased LeftRoomRemoved EntryRespectsSettings
CHECK_DEADLOCK FALSE
