SPECIFICATION FairSpec
CONSTANTS
  MAX_MSGLEN = 3
  Lengths <- MCLengths
  MaxTexts = 3
INVARIANTS
  TypeOK
  LostInCompanyOnly
PROPERTIES
  ImplementsLossyChannel
  LoneTextIsHandled
CHECK_DEADLOCK FALSE
