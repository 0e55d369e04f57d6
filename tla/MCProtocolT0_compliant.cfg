\* A card that follows ISO 7816-3; reads may time out, writes succeed.
CONSTANTS
  MaxShortResponse = 5
  MaxNulls = 2
  MaxLc = 2
  ExtLc = 4
  ExtLe = 5
  MaxRspData = 6
  CardCompliant = TRUE
  WriteFaults = FALSE
  NoRsp = NoRsp
  NoApdu = NoApdu
SPECIFICATION Spec
VIEW MCView
CONSTRAINT TPDUBound
PROPERTY NoTransmitAfterReceive
PROPERTY T0CommandRefined
