SPECIFICATION Spec
CONSTANTS
  Cards = {c1}
  NoCard = NoCard
  Purses = {0}
  Opening = 3
  SubOpening = 0
  OpeningCount = 0
  Minimum = 1
  DayLimit = 3
  Limit_MoneySign = 255
  MonthDays = 2
  CNT = 3
  ULONG = 8
  Amounts = {0, 1, 3}
  Prices = {1}
  Modes = {"CONSUM_MONEY"}
  Faults = {"qt"}
  MaxPlaced = 2
  MaxMissed = 0
  MaxDay = 0
  MaxElsewhere = 0
INVARIANT MinimumIsKept
