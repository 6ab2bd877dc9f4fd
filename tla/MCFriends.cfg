SPECIFICATION Spec
CONSTANTS
  Ann = Ann
  Bob = Bob
  RowIds = {r1, r2, r3}
  Requests = {q1, q2, q3}
  Absent = Absent
  Idle = Idle
SYMMETRY MCSymmetry
\* The ids of rows are used up in the end.
CHECK_DEADLOCK FALSE
INVARIANTS
  OneRow
  FriendsByConsent
PROPERTIES
  FriendshipEndsByRemoval
  KeepsContract
