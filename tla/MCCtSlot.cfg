\* Three slot objects on two terminals, every outcome of every callee;
\* replies of the reader may be lost, writes and termios calls may fail.
CONSTANTS
  sA = sA
  sB = sB
  sC = sC
  tA = tA
  tB = tB
  Slots <- MCSlots
  Terminals <- MCTerminals
  TermOf <- MCTermOf
  ReaderKinds <- MCReaderKinds
  Faults = {"READ", "WRITE", "TERMIOS"}
SPECIFICATION Spec
VIEW CtView
CONSTRAINT LiveBound
INVARIANT SlotShape
INVARIANT NoLeak
PROPERTY InitSettlesLink
