CONSTANTS
  Tools = {"del", "upd"}
  Groups = {"mutations"}
  Unit = 4
  WindowSize = 2
  Alpha = 2
  AdjustmentRate = 4
  AsymmetricDecay = 2
  DeadZone = 1
  Warmup = 2
  SatThreshold = 3
  SatWindow = 2
  SatRelief = 1
  DefaultBudget = Unlimited
  Unlimited = Unlimited
  NoTime = NoTime
  MaxTime = 2
  Decayed <- HalfPerTick
  Target = 2
  OtherTarget = 3
  ToolConfigs <- BothTools
  GroupConfigs <- Mutations
  Restorable <- Snapshots
  Budgets = {0}
  Stamps = {0, 1, 2}
  MaxOverdraft = 0
  Reader = "upd"
SPECIFICATION ReaderSpec
INVARIANTS TypeOK WindowCountsAgree SaturationReportedOnce WaitingNeverHurts
PROPERTIES ReliefIsKept RaisedOnlyByOvershoot ColdToolSpared OtherCallsRecover
