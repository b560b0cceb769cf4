SPECIFICATION Spec
CONSTANTS
  Chars <- MCChars
  Quotes <- MCQuotes
  Tables <- NoRows
  USER_NAME_SIZE = 2
  Procs = {p1, p2, p3}
  NoProc = NoProc
  MessageDocs <- MCMessageDocs
SYMMETRY Symmetry
INVARIANTS
  TypeOK
  SelectStillTrue
  ThreadHasDatabase
  OnlyAcceptedNamesStored
PROPERTY
  ImplementsAccountBook
