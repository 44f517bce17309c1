\* One player under fair scheduling; users and the network may do anything.
SPECIFICATION FairSpec
CONSTANTS
  c1 = c1
  c2 = c2
  c3 = c3
  Ids = {c1}
  MaxClients = 1
  PreferredCodec = "HEVC"
  CodecChoices <- SomeCodecs
  AutoApprove = FALSE
  MaxBacklog = 2
  HelloTimeout = 1
  ApprovalTimeout = 2
  HostHeartbeatTimeout = 1
  ClientHeartbeatTimeout = 1
  Env = {"keys", "kick", "leave", "cut", "stop"}
  PromptDelivery = FALSE
PROPERTIES
  HostForgetsGoneClients
  ClientsNoticeTheEnd
  JoinIsResolved
