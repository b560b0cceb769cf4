SPECIFICATION Spec
CONSTANTS
  Conns = {c1, c2}
  c1 = c1
  c2 = c2
  ClientFds = {f1, f2}
  f1 = f1
  f2 = f2
  AllFd = AllFd
  NoFd = NoFd
  NoConn = NoConn
  Commands <- MCCommands
  HeaderSize = 1
  FileSizes <- MCFileSizes
  WeatherSize = 1
  SendRoom = 2
  MaxJobs = 2
INVARIANTS TypeOK BufferReleased ReplyHasOneReceiver StrayFileMeansDeparture
CHECK_DEADLOCK FALSE
SYMMETRY Symmetry
