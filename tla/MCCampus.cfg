SPECIFICATION Spec
CONSTANTS
  ann = ann
  bob = bob
  s1 = s1
  s2 = s2
  Users = {ann, bob}
  Sessions = {s1, s2}
  Host <- MCHost
  Speakers = {bob}
  Calls = {c1, c2}
  CommonArea = CommonArea
  Nowhere = Nowhere
  Environments <- MCEnvironments
SYMMETRY MCSymmetry
VIEW MCView
CONSTRAINT MCBound
INVARIANTS
  ShownAtHome
  EndedRoomEmpty
  VoiceEnds

  
