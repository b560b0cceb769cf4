SPECIFICATION Spec
CONSTANTS
  PieceLimit = 2
  BufferSize = 7
  WEATHER_DAY_MAX = 2
  Answers <- MCAnswers
  MaxRequests = 3
INVARIANTS TypeOK TextIsTerminated RecordsOfSuccessOnly
PROPERTY OnePieceUnderstood
CHECK_DEADLOCK FALSE
