SPECIFICATION Spec
CONSTANTS
  room = room
  host = host
  ann = ann
  bob = bob
  c1 = c1
  c2 = c2
  Sessions = {room}
  Users = {host, ann, bob}
  Calls = {c1, c2}
  Host <- MCHost
  Protected <- MCProtected
  Invitees <- MCInvitees
INVARIANT
  EndedHasNoGuest
