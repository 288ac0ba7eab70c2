SPECIFICATION Spec
CONSTANTS
  Cards = {c1, c2}
  NoCard = NoCard
  Purses = {0}
  Opening = 3
  SubOpening = 0
  OpeningCount = 1
  Minimum = 1
  DayLimit = 3
  Limit_MoneySign = 255
  MonthDays = 2
  CNT = 3
  ULONG = 8
  Amounts = {0, 1}
  Prices = {1}
  Modes = {"CONSUM_MONEY"}
  Faults = {"write", "miss"}
  MaxPlaced = 3
  MaxMissed = 1
  MaxDay = 0
  MaxElsewhere = 1
INVARIANTS
  PurseIsReadable
  PlacedPaysOnce
PROPERTIES
  RecordTellsBalance
  TillSpec
