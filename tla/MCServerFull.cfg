\* Two players, one slot, and a host that kicks.
SPECIFICATION Spec
CONSTANTS
  c1 = c1
  c2 = c2
  c3 = c3
  Ids = {c1, c2}
  MaxClients = 1
  PreferredCodec = "HEVC"
  CodecChoices <- OnlyH264
  AutoApprove = FALSE
  MaxBacklog = 2
  HelloTimeout = 1
  ApprovalTimeout = 2
  HostHeartbeatTimeout = 1
  ClientHeartbeatTimeout = 1
  Env = {"kick"}
  PromptDelivery = TRUE
PROPERTY ServerFullMeansFull
