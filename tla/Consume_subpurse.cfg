SPECIFICATION Spec
CONSTANTS
  Cards = {c1}
  NoCard = NoCard
  Purses = {0, 1}
  Opening = 1
  SubOpening = 4
  OpeningCount = 0
  Minimum = 2
  DayLimit = 2
  Limit_MoneySign = 255
  MonthDays = 2
  CNT = 3
  ULONG = 8
  Amounts = {0, 1}
  Prices = {1}
  Modes = {"CONSUM_MONEY"}
  Faults = {}
  MaxPlaced = 3
  MaxMissed = 0
  MaxDay = 0
  MaxElsewhere = 0
INVARIANT PurseIsReadable
