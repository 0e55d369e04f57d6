\* Three threads calling every entry point.
CONSTANTS
  t1 = t1
  t2 = t2
  t3 = t3
  NoOwner = NoOwner
  Threads <- MCThreads3
SPECIFICATION Spec
INVARIANT ContextLiveWhenStored
PROPERTY LockReleased
