\* A compliant card announcing its remaining bytes with 61xx.
CONSTANTS
  MaxShortResponse = 5
  MaxNulls = 2
  MaxLc = 2
  ExtLc = 4
  ExtLe = 5
  MaxRspData = 6
  CardCompliant = TRUE
  WriteFaults = FALSE
  NoRsp = NoRsp
  NoApdu = NoApdu
SPECIFICATION Spec
VIEW MCView
CONSTRAINT TPDUBound
PROPERTY GetResponseAsksAnnounced
