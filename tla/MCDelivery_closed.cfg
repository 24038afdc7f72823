\* A notification is emitted while a subscriber ends.
SPECIFICATION Spec
CONSTANTS
  Client = {c1}
  Emitter = {e1}
  bufferSize = 2
  sendCap = 2
  MaxNote = 3
  None = None
  Console = {console}
INVARIANT EmitNeverPanics
CHECK_DEADLOCK FALSE
