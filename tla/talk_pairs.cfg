CONSTANTS
  h = h
  c = c
  m = m
  n = n
  None = None
  Peer = {h, c, m, n}
  InitialRole <- Roles4
  SignedIn = {h, c}
  Unlimited = {h, c, m, n}
  Publishers = {}
  Speakers = {}
  SfuMayFail = TRUE
  MaxTalks = 2
  Leavers = {c}
SPECIFICATION Spec
INVARIANT OneTalkEach
SYMMETRY Symmetry
CHECK_DEADLOCK FALSE
