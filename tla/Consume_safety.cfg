SPECIFICATION Spec
CONSTANTS
  Cards = {c1}
  NoCard = NoCard
  Purses = {0, 1}
  Opening = 4
  SubOpening = 1
  OpeningCount = 0
  Minimum = 1
  DayLimit = 2
  Limit_MoneySign = 255
  MonthDays = 2
  CNT = 3
  ULONG = 8
  Amounts = {0, 1}
  Prices = {1}
  Modes = {"CONSUM_MONEY", "CONSUM_PLAN"}
  Faults = {"read", "write", "miss", "power", "tear"}
  MaxPlaced = 3
  MaxMissed = 1
  MaxDay = 1
  MaxElsewhere = 0
INVARIANTS
  TypeOK
  DebitAtMostOnce
  MinimumIsKept
  DayLimitIsKept
