CONSTANTS
  Clients = {c1, c2}
  Paths = {p1, p2}
  None = None
  Backends = {"linux", "mac", "windows"}
  CircumstanceSets <- AnyCircumstances
SYMMETRY SamePaths
SPECIFICATION Spec
INVARIANT AllOrNothing
INVARIANT OpenedOnce
INVARIANT RemovalMarked
PROPERTY ListsAttached
CHECK_DEADLOCK FALSE
