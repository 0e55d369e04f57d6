\* Two threads: is the context allocated whenever it is read?
CONSTANTS
  t1 = t1
  t2 = t2
  t3 = t3
  NoOwner = NoOwner
  Threads <- MCThreads
SPECIFICATION Spec
INVARIANT ContextLiveWhenRead
