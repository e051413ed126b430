CONSTANTS
  Peer = {a, b}
  MaxRooms = 3
  MaxCrashes = 1
SPECIFICATION FairSpec
INVARIANTS OneLiveRoom NoOrphanMedia JoinedOnOneRouter
PROPERTY EmptiedRoomCloses
CHECK_DEADLOCK FALSE
