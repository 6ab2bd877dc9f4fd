SPECIFICATION RoomsSpec
CONSTANTS
  Users = {u1, u2, u3, u4, u5}
  Requests = {r1, r2, r3}
  Capacity = 2
SYMMETRY MCSymmetry
INVARIANTS
  OccupancyBound
