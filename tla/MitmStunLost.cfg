SPECIFICATION FairSpec
CONSTANTS
  MaxReq = 3
  Window = 2
  FirstKinds = {"OTHER"}
  StunModes = {TRUE}
  KeepaliveCSeq = 99
  MaxKeepalives = 0
  QueueLimit = 2
  StunLosses = 0
PROPERTIES
  EveryRequestForwarded
CHECK_DEADLOCK FALSE
