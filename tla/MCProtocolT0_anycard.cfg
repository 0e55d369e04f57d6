\* Any card, and any write to the reader may fail.
CONSTANTS
  MaxShortResponse = 5
  MaxNulls = 2
  MaxLc = 2
  ExtLc = 4
  ExtLe = 5
  MaxRspData = 6
  CardCompliant = FALSE
  WriteFaults = TRUE
  NoRsp = NoRsp
  NoApdu = NoApdu
SPECIFICATION Spec
VIEW MCView
CONSTRAINT TPDUBound
INVARIANT TypeOK
INVARIANT NoBufferOverflow
