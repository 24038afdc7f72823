\* Two emitters wrap around a ring of three, while up to three subscribers come
\* and go.
SPECIFICATION Spec
CONSTANTS
  Note = {m1, m2}
  Emitter = {e1, e2}
  bufferSize = 3
  MaxToken = 3
  None = None
INVARIANT TypeOK
PROPERTY ImplementsEventLog
