\* I2C short, I2C long and 2-wire cards over four DIR layouts; reader and
\* EEPROM faults.
CONSTANTS
  ByteMod = 8
  MemLen = 16
  MaxTrials = 2
  CardKinds = {"I2C_SHORT", "I2C_LONG", "2W"}
  Images <- CardImages
  P1 = P1
  P2 = P2
  P0 = P0
  Pins = {P1, P2}
  CardPin = P1
  ZeroPin = P0
  IfdFaults = TRUE
  CardFaults = TRUE
  Offsets = {0, 2}
  Les = {3}
  Lcs = {3}
  Datas = {1}
  Fids = {16128, 12033, 12032}
  Aids <- MCAids
  PathLens = {0, 1, 65535}
  MaxUpdates = 1
SPECIFICATION PsSpec
VIEW PsView
INVARIANT PsTypeOK
INVARIANT SelectedFileInMemory
INVARIANT PowerFrameAccepted
INVARIANT CreatedAtrDescribesCard
PROPERTY ReadEffect
PROPERTY UpdateEffect
PROPERTY VerifyOkMeansPin
PROPERTY TrialLossReported
