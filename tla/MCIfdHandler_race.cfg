\* Two threads: is the CT-API of the reader ever entered twice at once?
CONSTANTS
  t1 = t1
  t2 = t2
  t3 = t3
  NoOwner = NoOwner
  Threads <- MCThreads
SPECIFICATION Spec
INVARIANT NoConcurrentCT
