\* The timeouts of the code in ticks of 2 s; nobody leaves, nothing is lost.
SPECIFICATION Spec
CONSTANTS
  c1 = c1
  c2 = c2
  c3 = c3
  Ids = {c1}
  MaxClients = 1
  PreferredCodec = "HEVC"
  CodecChoices <- OnlyH264
  AutoApprove = FALSE
  MaxBacklog = 2
  HelloTimeout = 5
  ApprovalTimeout = 37
  HostHeartbeatTimeout = 7
  ClientHeartbeatTimeout = 6
  Env = {}
  PromptDelivery = TRUE
INVARIANT ApprovalWindowHonoured
