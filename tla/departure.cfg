SPECIFICATION Spec
CONSTANTS
  Chars <- MCChars
  Quotes <- MCQuotes
  Tables <- NoRows
  USER_NAME_SIZE = 2
  MAX_CLIENTNUM = 3
  MAX_MSGLEN = 2
  Conns = {c1, c2}
  ClientFds = {f1, f2}
  ServerFd = ServerFd
  StdinFd = StdinFd
  NoFd = NoFd
  NoConn = NoConn
  MessageDocs <- OneDoc
  MaxSent = 1
INVARIANT SurvivesDepartures
