CONSTANTS
  p = p
  q = q
  en = en
  hi = hi
  Peer = {p, q}
  Segment = {1}
  Language = {en, hi}
  Offered = {hi}
  Speaks <- MCSpeaks
  Google = TRUE
  RoomConcurrency = 2
  MaxSpeech = 1
  MaxStates = 2
SPECIFICATION Spec
INVARIANTS OnceEach SlotsReturned TranscriptKept
CHECK_DEADLOCK FALSE
