SPECIFICATION FairSpec
CONSTANTS
  Keys = {"CommEncryptKey", "MatchCode", "DayLimetMoney", "CardMinBalance"}
  Values = {"v1", "v2"}
  Garbage = "garbage"
  NoBody = NoBody
  Shipped <- MCShipped
  RdAddr <- MCRdAddr
  Bodies <- MCBodies
  Strays <- MCStrays
  MaxStrays = 1
  MaxRequests = 2
  MaxCuts = 1
INVARIANTS
  TypeOK
  OnlyMineIsExecuted
  ConfirmedIsKept
  AnswerIsTrue
  RamIsFile
PROPERTIES
  SettingsSpec
  RequestIsAnswered
CHECK_DEADLOCK FALSE
