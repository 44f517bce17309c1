SPECIFICATION MCSpec
CONSTANTS
  \* MediaSetup and its coordinators
  player = player
  bo = bo
  cy = cy
  Clients <- MCClients
  PlayerSlots = 2
  MaxClients = 2
  MaxEvents = 2
  MaxJoins = 2
  \* InputInjector
  key = key
  arrow = arrow
  button = button
  PlayerIndexes <- MCPlayerIndexes
  PermissionSets <- MCPermissions
  Keys <- MCKeys
  ExtendedKeys <- MCExtendedKeys
  Buttons <- MCButtons
  MaxPads = 1
  PadFails = TRUE
  InputFails = FALSE
  \* SignalingServer
  c1 = c1
  c2 = c2
  c3 = c3
  Conns <- MCConns
  MAX_PLAYERS = 2
  UdpUsed = TRUE
  TimePasses = TRUE
  \* TcpRelay
  MaxData = 2
  \* SignalingClient
  MaxNotices = 3
INVARIANTS
  MediaFollowsSession
  SlotsAreUnique
  InputFollowsPermissions
  HostKnowsPlayers
  RegistryFollowsHosts
PROPERTIES
  NobodyWaitsForEver
  PairEndsTogether
  CallsReturn
\* Players leave, the host stops, and connections end at last.
CHECK_DEADLOCK FALSE
