SPECIFICATION Spec
CONSTANTS
  MaxReq = 2
  Window = 1
  FirstKinds = {"OTHER"}
  StunModes = {FALSE}
  KeepaliveCSeq = 2
  MaxKeepalives = 0
  QueueLimit = 2
  StunLosses = 0
INVARIANTS
  ResponsesRelayed
CHECK_DEADLOCK FALSE
