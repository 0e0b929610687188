SPECIFICATION FairSpec
CONSTANTS
  Queue = {"m_sendMsgQueue", "m_recvMsgQueue", "m_recvSyncMsgQueue"}
  Producer = {"recvMsg", "dealConsensusData", "dealSyncData", "m_timerLoop", "mp_paceMaker"}
  Timer = {"m_timerLoop", "mp_paceMaker"}
  LoopTimer = {"m_timerLoop", "mp_paceMaker"}
  TimerThread = {1}
  Capacity <- MCCapacity
INVARIANTS
  TypeOK
  NoLostWakeup
  StopLeavesNothing
  EngineOutlivesUsers
PROPERTIES
  ShutdownCompletes
CHECK_DEADLOCK FALSE
