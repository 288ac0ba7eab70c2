SPECIFICATION Spec
CONSTANTS
  MAXRECORD_NUM = 100
  RD_BATCH = 2
  RD_TRIES = 3
  UCHAR = 6
  MaxTxn = 4
  MaxFaults = 2
  Midway = {}
INVARIANTS
  TypeOK
  CollectedWasReceived
  PassedWasReceived
  NextIdIsFree
  CountedWasReceived
PROPERTIES
  LedgerSpec
