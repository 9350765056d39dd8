SPECIFICATION Spec
CONSTANTS
  Clients = {k1, k2}
  NoClient = NoClient
  Spare = Spare
PROPERTIES
  CallbackOnLiveObject
CHECK_DEADLOCK FALSE
