CONSTANTS
  Tools = {"del", "read"}
  Groups = {}
  Unit = 6
  WindowSize = 3
  Alpha = 3
  AdjustmentRate = 6
  AsymmetricDecay = 2
  DeadZone = 2
  Warmup = 2
  SatThreshold = 5
  SatWindow = 2
  SatRelief = 1
  DefaultBudget = 3
  Unlimited = Unlimited
  NoTime = NoTime
  MaxTime = 2
  Decayed <- HalfPerTick
  Target = 2
  OtherTarget = 3
  ToolConfigs <- Retargeted
  GroupConfigs <- NoGroups
  Restorable <- Snapshots
  Budgets = {3}
  Stamps = {0, 1, 2}
  MaxOverdraft = 1
  Reader = "read"
SPECIFICATION Spec
INVARIANT ConfiguredTargetSteers


