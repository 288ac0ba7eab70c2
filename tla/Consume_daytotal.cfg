SPECIFICATION Spec
CONSTANTS
  Cards = {c1, c2}
  NoCard = NoCard
  Purses = {0}
  Opening = 4
  SubOpening = 0
  OpeningCount = 0
  Minimum = 1
  DayLimit = 2
  Limit_MoneySign = 255
  MonthDays = 2
  CNT = 3
  ULONG = 8
  Amounts = {0, 1, 2}
  Prices = {1}
  Modes = {"CONSUM_MONEY"}
  Faults = {}
  MaxPlaced = 3
  MaxMissed = 0
  MaxDay = 0
  MaxElsewhere = 0
PROPERTY DayTotalIsOwn
