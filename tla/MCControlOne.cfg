\* One player, every user command, network fault and late timer.
SPECIFICATION Spec
CONSTANTS
  c1 = c1
  c2 = c2
  c3 = c3
  Ids = {c1}
  MaxClients = 1
  PreferredCodec = "HEVC"
  CodecChoices <- SomeCodecs
  AutoApprove = FALSE
  MaxBacklog = 2
  HelloTimeout = 0
  ApprovalTimeout = 0
  HostHeartbeatTimeout = 0
  ClientHeartbeatTimeout = 0
  Env = {"app", "keys", "input", "kick", "leave", "cut", "stop"}
  PromptDelivery = FALSE
INVARIANTS
  TypeOK
  HandshakeFollowsApproval
  EventsTrackTable
  PermissionsAgree
  AppMessagesAreExpected
  AppMessagesFindConnected
PROPERTIES
  DisconnectedIsFinal
