SPECIFICATION Spec
INVARIANT AccessesInBounds
INVARIANT LayoutIsReadingOrder
CHECK_DEADLOCK FALSE
