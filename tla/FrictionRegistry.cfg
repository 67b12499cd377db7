CONSTANTS
  Clients = {a, b, c, d}
  Nobody = Nobody
  MaxClients = 2
  PenaltyTTL = 2
  PenaltyMin = 2
  Tools = {"del", "read"}
  ToolConfig <- OneTool
  Groups = {}
  GroupConfig <- NoGroups
  Unit = 4
  WindowSize = 1
  Alpha = 4
  AdjustmentRate = 4
  AsymmetricDecay = 1
  DeadZone = 1
  Warmup = 1
  SatThreshold = 4
  SatWindow = 0
  SatRelief = 1
  DefaultBudget = Unlimited
  Unlimited = Unlimited
  NoTime = NoTime
  MaxTime = 2
  Decayed <- HalfPerTick
SPECIFICATION Spec
SYMMETRY AnyClient
INVARIANTS TypeOK OrderMatchesLive PenaltyOnlyForEvicted ReconnectRestoresFriction
PROPERTIES EvictionPrunes
