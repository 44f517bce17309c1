\* Both coordinators confirm their keys.
SPECIFICATION Spec
CONSTANTS
  c1 = c1
  c2 = c2
  c3 = c3
  Ids = {c1}
  MaxClients = 1
  PreferredCodec = "HEVC"
  CodecChoices <- OnlyH264
  AutoApprove = FALSE
  MaxBacklog = 2
  HelloTimeout = 1
  ApprovalTimeout = 2
  HostHeartbeatTimeout = 1
  ClientHeartbeatTimeout = 1
  Env = {"keys"}
  PromptDelivery = TRUE
PROPERTY KeyReadyConfirms
