CONSTANTS
  Upload = {u1, u2}
  Change = {c1, c2, c3}
  Viewer = {v}
  None = None
  MaxUploads = 1
  MaxFaults = 1
SPECIFICATION LinksSpec
INVARIANTS AccessEnds LinkOpens
SYMMETRY Symmetry
CHECK_DEADLOCK FALSE
