SPECIFICATION Spec
CONSTANTS
  Names = {admin, ann}
  Admin = admin
  Passwords = {pass, secret}
  SeedPassword = secret
  ZoneCount = 2
  RoomIds = {i1, i2}
  Requests = {r1}
  Seeds = {s1, s2}
  None = None
SYMMETRY MCSymmetry
INVARIANTS
  AdminsOnly
  ZonesOnce
PROPERTY
  LoginCurrent
