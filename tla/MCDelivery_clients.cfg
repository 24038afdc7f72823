\* A client and the console come and go.  The history wraps around, and a queue
\* is empty, partly filled or full when history and live notifications meet in it.
SPECIFICATION FairSpec
CONSTANTS
  Client = {c1}
  Emitter = {e1}
  bufferSize = 2
  sendCap = 2
  MaxNote = 3
  None = None
  Console = {console}
INVARIANTS TypeOK AtMostOnce InOrder NothingLostUnlessFull
PROPERTY GoneClientsForgotten
CHECK_DEADLOCK FALSE
