SPECIFICATION Spec
CONSTANTS
  Names = {"endpoint", "user"}
  MaxCreates = 2
  MaxFaults = 0
INVARIANT NoPanic
