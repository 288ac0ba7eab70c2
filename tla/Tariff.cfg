SPECIFICATION Spec
CONSTANTS
  Cards <- MCCards
  Plans <- MCPlans
  NoPlan = NoPlan
  NoCard = NoCard
  NoBuffer = NoBuffer
  Calendar <- MCCalendar
  Installed <- MCInstalled
  Downloads <- MCDownloads
  ROWLEN = 1
  UCHAR = 3
  Modes = {"CONSUM_PLAN", "CONSUM_RATION"}
  Amounts = {3}
  Times = {1}
  MaxRows = 4
  MaxSales = 3
  MaxFaults = 3
INVARIANTS
  TypeOK
  PriceIsOfAPlan
  MealsWithinPlan
PROPERTIES
  ListedIsRefused
  RecordHasItsTime
