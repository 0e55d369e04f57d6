\* A card whose ATR names no known type; reader commands succeed.
CONSTANTS
  ByteMod = 8
  MemLen = 4
  MaxTrials = 2
  CardKinds = {"OTHER", "2W"}
  Images <- BlankImages
  P1 = P1
  P2 = P2
  P0 = P0
  Pins = {P1, P2}
  CardPin = P1
  ZeroPin = P0
  IfdFaults = FALSE
  CardFaults = FALSE
SPECIFICATION Spec
INVARIANT InitErrorPowersDown
