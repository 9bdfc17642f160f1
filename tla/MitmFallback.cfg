SPECIFICATION Spec
CONSTANTS
  MaxReq = 3
  Window = 1
  FirstKinds = {"OTHER"}
  StunModes = {FALSE}
  KeepaliveCSeq = 99
  MaxKeepalives = 0
  QueueLimit = 2
  StunLosses = 0
INVARIANTS
  FallbackTransparent
CHECK_DEADLOCK FALSE
