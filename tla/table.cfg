SPECIFICATION Spec
CONSTANTS
  Chars <- MCChars
  Quotes <- MCQuotes
  Tables <- NoRows
  USER_NAME_SIZE = 2
  MAX_CLIENTNUM = 3
  MAX_MSGLEN = 2
  Conns = {c1, c2, c3}
  ClientFds = {f1, f2, f3}
  ServerFd = ServerFd
  StdinFd = StdinFd
  NoFd = NoFd
  NoConn = NoConn
  MessageDocs <- TableDocs
  MaxSent = 1
SYMMETRY Symmetry
INVARIANTS
  TypeOK
  CountMatchesTable
  SlotsOwnSockets
  PollResultsHaveOwner
  NamesStoredOnce
PROPERTIES
  FreeSlotIsTaken
  AccountsKept
  ImplementsSessionPool
