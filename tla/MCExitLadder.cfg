SPECIFICATION Spec
CONSTANTS
  MaxPrice = 9
  MaxQty = 3
  MaxRisk = 2
  QuickGap = 1
  LockGap = 1
  StepGap = 3
  ConfirmGap = 2
  TrailGap = 2
  TickGap = 1
  ExtensionGap = 7
  MaxLoss = 4
  AddRiskGap = 3
  MaxScaleUps = 1
INVARIANT TypeOK RiskBounded OneLadder
PROPERTY StopKept
