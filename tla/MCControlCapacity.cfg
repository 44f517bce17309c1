\* Two players compete for one slot.
SPECIFICATION Spec
CONSTANTS
  c1 = c1
  c2 = c2
  c3 = c3
  Ids = {c1, c2}
  MaxClients = 1
  PreferredCodec = "HEVC"
  CodecChoices <- OnlyH264
  AutoApprove = TRUE
  MaxBacklog = 2
  HelloTimeout = 0
  ApprovalTimeout = 0
  HostHeartbeatTimeout = 0
  ClientHeartbeatTimeout = 0
  Env = {"kick", "leave"}
  PromptDelivery = FALSE
SYMMETRY ClientSymmetry
INVARIANTS
  PlayersWithinLimit
