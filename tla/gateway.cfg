CONSTANTS
  Socket = {s1, s2}
  Session = {u}
  Guest = Guest
  IP = {i1, i2}
  NoIP = NoIP
  MaxPerIp = 1
  MaxTracked = 1
SPECIFICATION FairSpec
INVARIANT CountsKept
PROPERTY DeadSocketsGo
PROPERTY EndedIsRefused
CHECK_DEADLOCK FALSE
