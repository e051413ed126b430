CONSTANTS
  h = h
  c = c
  m = m
  n = n
  None = None
  Peer = {h, c, m}
  InitialRole <- Roles3
  SignedIn = {h}
  Unlimited = {c, m}
  Publishers = {m}
  Speakers = {c}
  SfuMayFail = TRUE
  MaxTalks = 1
  Leavers = {h}
SPECIFICATION FairSpec
INVARIANTS LivePrivateAudioInTalk
PROPERTIES ActivationResolves LimitedTalksEnd
CHECK_DEADLOCK FALSE
