SPECIFICATION Spec
CONSTANTS
  Conns = {c1}
  c1 = c1
  ClientFds = {f1}
  f1 = f1
  AllFd = AllFd
  NoFd = NoFd
  NoConn = NoConn
  Commands <- MCCommands
  HeaderSize = 1
  FileSizes <- SmallFile
  WeatherSize = 1
  SendRoom = 8
  MaxJobs = 1
INVARIANT HeaderThenPayload
CHECK_DEADLOCK FALSE
