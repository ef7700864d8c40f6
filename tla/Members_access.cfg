SPECIFICATION Spec
CONSTANTS
  None = None
  People = {ann, bob, cid}
  Founder = ann
  Invitations = {i1, i2, i3}
  SeatLimits = {1, 2}
  Conns = {c1, c2}
SYMMETRY Symmetry
INVARIANTS
  SeatsBounded
  AccessIsEarned
PROPERTIES
  ImplementsDirectory
