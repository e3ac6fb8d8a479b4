CONSTANTS
  Callers = {c1, c2, c3}
  Keys = {k1}
  Locks = {l1, l2, l3}
  Background = {c1}
  None = None
SPECIFICATION FairSpec
INVARIANTS MutualExclusion UnlockSucceeds NoStaleEntry
PROPERTIES ImplementsKeyedMutex BackgroundCallerAcquires
