\* A card that keeps sending ~ACK data bytes past Le.
CONSTANTS
  MaxShortResponse = 5
  MaxNulls = 2
  MaxLc = 2
  ExtLc = 4
  ExtLe = 5
  MaxRspData = 6
  CardCompliant = FALSE
  WriteFaults = FALSE
  NoRsp = NoRsp
  NoApdu = NoApdu
SPECIFICATION Spec
VIEW MCView
CONSTRAINT TPDUBound
INVARIANT OkExchangeEndsWithStatus
