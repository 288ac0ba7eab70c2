SPECIFICATION Spec
CONSTANTS
  Cards = {c1}
  NoCard = NoCard
  Purses = {0}
  Opening = 5
  SubOpening = 0
  OpeningCount = 0
  Minimum = 1
  DayLimit = 2
  Limit_MoneySign = 255
  MonthDays = 2
  CNT = 3
  ULONG = 8
  Amounts = {0, 2}
  Prices = {1}
  Modes = {"CONSUM_MONEY"}
  Faults = {}
  MaxPlaced = 3
  MaxMissed = 0
  MaxDay = 1
  MaxElsewhere = 1
INVARIANT DayLimitIsKept
