SPECIFICATION Spec
CONSTANTS
  lirc = lirc
  input = input
  c1 = c1
  c2 = c2
  ReaderNames <- BothReaders
  Clients = {c1}
  MaxSize = 1
  MaxEvents = 2
  NoEvent = NoEvent
  NoClient = NoClient
INVARIANT ReaderSurvivesClients
CHECK_DEADLOCK FALSE
