\* A compliant card answering an extended Get Response with an error.
CONSTANTS
  MaxShortResponse = 5
  MaxNulls = 2
  MaxLc = 2
  ExtLc = 4
  ExtLe = 5
  MaxRspData = 6
  CardCompliant = TRUE
  WriteFaults = FALSE
  NoRsp = NoRsp
  NoApdu = NoApdu
SPECIFICATION Spec
VIEW MCView
CONSTRAINT TPDUBound
PROPERTY Case3EStopsOnError
