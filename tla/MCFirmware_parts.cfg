SPECIFICATION Spec
CONSTANTS
  MaxOps = 2
  MaxLate = 2
  t1 = t1
  t2 = t2
  Loggers <- TwoLoggers
  mMaxLine = 4
  DrawLineCounts <- OneOrTwo
  NumFiles = 2
  NumFrames = 2
  NumSegments = 2
  ETH_RXBUFNB = 2
  PBUF_POOL_SIZE = 2
  TCPIP_MBOX_SIZE = 1
  MaxFrames = 5
CHECK_DEADLOCK FALSE
INVARIANTS
  TypeOK
  ShownIsComplete
  NoTearing
  SignalsAccounted
  LinesInRange
  NewestIsShown
  NoTouchLost
  TableIsOfOneFile
  WaveIsOfTheFile
  AudioKept
  FramesInOrder
  PbufsKept
  NeverBusy
  NothingLeft
PROPERTIES
  TasksGoOn
  LoaderGoesOn
  IsUsbDevice
  HostGoesOn
