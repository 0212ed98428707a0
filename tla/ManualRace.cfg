CONSTANTS
  None = None
  CalcValues <- Discharge
  ChargeValue = 3
  ManualValues = {1, 2}
  OverrideValues = {}
  LimitChoices <- WideOnly
  Sources = {"primary"}
  Policies = {}
SPECIFICATION Spec
PROPERTIES ManualNotLost
