SPECIFICATION FairSpec
CONSTANTS
  PoolSize = 2
  TsSize = 2
  HttpLimit = 1
  MitmLimit = 1
  FirstDatagrams <- MC_FirstDatagrams
  Datagrams <- MC_Datagrams
  MaxReplies = 1
  MaxOthers = 1
  MaxTs = 3
INVARIANTS
  TypeOK PoolAccounted FramesWhole SyncPointFirst PipelineCorrect MediaWakesClient
PROPERTIES
  PacketCompleted
