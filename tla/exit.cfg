SPECIFICATION FairSpec
CONSTANTS
  MAX_CLIENTNUM = 3
  Conns = {c1, c2}
  c1 = c1
  c2 = c2
  ClientFds = {f1, f2}
  f1 = f1
  f2 = f2
  ServerFd = ServerFd
  StdinFd = StdinFd
  NoFd = NoFd
  NoConn = NoConn
  Senders = {c1}
  InitOutcomes <- AllOutcomes
INVARIANTS TypeOK ClientsAtExitClosed
PROPERTIES ExitShrinks ExitCompletes
