SPECIFICATION Spec
CONSTANTS
  ann = ann
  bob = bob
  a1 = a1
  a2 = a2
  a3 = a3
  b1 = b1
  s1 = s1
  s2 = s2
  Conns = {a1, a2, a3, b1}
  Users = {ann, bob}
  Owner <- MCOwner
  Sessions = {s1, s2}
  CommonArea = CommonArea
  None = None
SYMMETRY MCSymmetry
VIEW MCView
INVARIANTS
  RegistrySound
  OneAvatarPerUser
  InAssignedRoom
  ViewsHonest
  OnlineHasSocket
PROPERTY
  ImplementsMap
