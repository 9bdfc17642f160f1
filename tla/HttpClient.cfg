SPECIFICATION FairSpec
CONSTANTS
  Calls <- MC_Calls
  StunModes = {TRUE, FALSE}
  MaxKeepalives = 2
  StunLosses = 1
INVARIANTS
  TypeOK RepliesMatch DialogueWhole
PROPERTIES
  AdmissionExact DialogueEnds
CHECK_DEADLOCK FALSE
