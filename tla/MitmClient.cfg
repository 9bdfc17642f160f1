SPECIFICATION FairSpec
CONSTANTS
  MaxReq = 3
  Window = 1
  FirstKinds = {"OTHER"}
  StunModes = {TRUE, FALSE}
  KeepaliveCSeq = 99
  MaxKeepalives = 2
  QueueLimit = 1
  StunLosses = 1
INVARIANTS
  TypeOK NoLostWakeup RequestConserved SetupPointsToUs PlayDetected
PROPERTIES
  EveryRequestAnswered
CHECK_DEADLOCK FALSE
