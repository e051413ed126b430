CONSTANTS
  Peer = {a, b, c}
  None = None
  Kickable = {b}
SPECIFICATION Spec
INVARIANTS HolderElected EnvelopesAccepted EveryoneKeyed
PROPERTY KeysAsPromised
SYMMETRY Symmetry
CHECK_DEADLOCK FALSE
