CONSTANTS
  a = a
  ta = ta
  tn = tn
  Unknown = Unknown
  Clients = {a, Unknown}
  Requests = {p, q}
  Tokens = {ta, tn}
  None = None
  Bound = {ta, tn}
  Exp <- NoExpiry
  Lag = 0
  ClientClaim <- Claims
  Controlled = {"del"}
  Nobody = Nobody
  MaxClients = 1
  PenaltyTTL = 1
  PenaltyMin = 2
  Tools = {"del", "read"}
  ToolConfig <- OneTool
  Groups = {}
  GroupConfig <- NoGroups
  Unit = 4
  WindowSize = 2
  Alpha = 4
  AdjustmentRate = 4
  AsymmetricDecay = 1
  DeadZone = 1
  Warmup = 1
  SatThreshold = 4
  SatWindow = 0
  SatRelief = 1
  DefaultBudget = 3
  Unlimited = Unlimited
  NoTime = NoTime
  MaxTime = 1
  Decayed <- HalfPerTick
SPECIFICATION ServerSpec
SYMMETRY AnyRequest
INVARIANTS ServerTypeOK WindowIsWhatRan BudgetPaysForRuns NeverOverdrawn
PROPERTIES IndependentClients
