SPECIFICATION EitherSpec
CONSTANTS
  lirc = lirc
  input = input
  c1 = c1
  c2 = c2
  ReaderNames <- BothReaders
  Clients = {c1, c2}
  MaxSize = 2
  MaxEvents = 3
  NoEvent = NoEvent
  NoClient = NoClient
INVARIANTS TypeOK LosesOnlyOldest NeverRepeats KeepsUpGetsAll ErrorIsInStream
PROPERTIES NeverStalls QueuedIsWritten
CHECK_DEADLOCK FALSE
