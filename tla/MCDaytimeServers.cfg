SPECIFICATION BothSpec
CONSTANTS
  Clients = {k1, k2}
  BothClients = {k1}
  NoClient = NoClient
  Spare = Spare
  MaxCopies = 2
  InboxSize = 2
INVARIANTS
  CleanMeansPrinted
  AnsweredOnceToSender
PROPERTIES
  ClientsEnd
  EveryDatagramAnswered
CHECK_DEADLOCK FALSE
