SPECIFICATION FairSpec
CONSTANTS
  MAXRECORD_NUM = 100
  RD_BATCH = 2
  RD_TRIES = 3
  UCHAR = 5
  MaxTxn = 3
  MaxFaults = 1
  Midway = {}
PROPERTIES
  StoredIsReceived
