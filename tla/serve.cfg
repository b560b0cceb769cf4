SPECIFICATION FairSpec
CONSTANTS
  Chars <- MCChars
  Quotes <- MCQuotes
  Tables <- NoRows
  USER_NAME_SIZE = 2
  MAX_CLIENTNUM = 3
  MAX_MSGLEN = 1
  Conns = {c1, c2}
  ClientFds = {f1, f2}
  ServerFd = ServerFd
  StdinFd = StdinFd
  NoFd = NoFd
  NoConn = NoConn
  MessageDocs <- ServeDocs
  MaxSent = 2
PROPERTIES
  PendingIsAccepted
  PolledIsServed
