SPECIFICATION FairSpec
CONSTANTS
  tray1 = tray1
  tray2 = tray2
  lib = lib
  s1 = s1
  d1 = d1
  d2 = d2
  FileIds = {tray1, tray2, lib}
  Requests = {d1, d2}
  Sessions = {s1}
  Library = Library
  Context <- MCContext
  Environments <- MCEnvironments
\* Every id is used up in the end, and then nothing is left to do.
CHECK_DEADLOCK FALSE
INVARIANTS
  StoredHasObject
  PendingIsReleased
  NoOrphan
  TrayIsEmptied
PROPERTIES
  SlotIsFreed
  EndedIsCleaned
