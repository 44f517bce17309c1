SPECIFICATION WireSpec
CONSTANTS
  \* SecureChannel
  WindowSize = 2
  MaxCounter = 4
  Senders = {"host"}
  Codes = {code, other}
  Headers = {header}
  \* SequenceTracker
  LateWindow = 3
  MaxSequence = 7
  MaxCount = 4
  \* FragmentReassembler
  MaxInFlight = 3
  GcAge = 1
  MaxStarted = 3
  FragmentCounts = {1, 2, 3}
  MaxCompleted = 0
  \* JitterBuffer
  TargetMs = 2
  HighWatermark = 1
  MaxFrame = 2
  MaxWait = 2
  \* MediaReceiver
  MaxSent = 2
  FragmentsOf <- MCFragmentsOf
  MaxCopies <- MCMaxCopies
  RequestInterval = 0
  MaxSince = 1
  \* UdpTransport
  Silence = 1
  MaxSwitches = 2
  \* UdpLifecycle
  Callers = {rumble}
  MaxPosted = 3
  MaxBinds = 2
  \* AudioCapture
  FrameSize = 2
  FifoBytes = 8
  BlockSizes = {1, 3, 5}
  MaxCaptured = 6
  \* AudioPlayback
  QueueCap = 2
  MaxPackets = 3
  MaxBatch = 2
  StallTicks = 1
INVARIANTS
  WireTypeOK
  NonceUsedOnce
  WindowIsExact
  LostAccountsForMissing
  HandsUpWholeFrames
  NeverOverfull
  ThreadKeepsItsContext
  SoundStaysInStep
PROPERTIES
  DeliversAtMostOnce
  PopsInOrder
  HeldFramesLeave
  SilentClientFallsBack
  SoundThreadsEnd
\* The bounded channel and the bounded streams come to an end.
CHECK_DEADLOCK FALSE
