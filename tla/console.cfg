SPECIFICATION Spec
CONSTANTS
  MAX_ARGS = 5
  RawMsgSize = 8
  Words <- MCWords
  Size <- MCSize
  Number <- MCNumber
  Begins <- MCBegins
  Fragments <- MCFragments
  Lines <- MCLines
  Unset = Unset
INVARIANTS
  TypeOK
  MemoAsTyped
  FileAsTyped
  EveryMatchOffered
  OffersAreKnown
CHECK_DEADLOCK FALSE
