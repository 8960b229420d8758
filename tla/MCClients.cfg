CONSTANTS
  MaxInterfaces = 3
  Indexes = {0, 1, 2}
SPECIFICATION Spec
INVARIANT InfosOwnList
INVARIANT OpensRequestedMouse
INVARIANT ModeRestored
CHECK_DEADLOCK FALSE
