CONSTANTS
  None = None
  CalcValues <- Discharge
  ChargeValue = 3
  ManualValues = {}
  OverrideValues = {7}
  LimitChoices <- WideOnly
  Sources = {"primary"}
  Policies = {}
SPECIFICATION Spec
PROPERTIES RestoreWithinLimits
