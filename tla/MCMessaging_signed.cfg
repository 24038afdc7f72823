\* The receiver of an envelope that this version signed.
SPECIFICATION Spec
CONSTANTS
  Addr = {a1}
  Older = {}
  Stream = {s1}
  Caller = {c1}
  Nonce = {n1}
  window = 1
  MaxIn = 1
  None = None
INVARIANT SignedEnvelopesHandled
CHECK_DEADLOCK FALSE
