CONSTANTS
  None = None
  CalcValues <- DischargeOrCharge
  ChargeValue = 3
  ManualValues = {}
  OverrideValues = {}
  LimitChoices <- WideAndAbove
  Sources = {"primary", "backup"}
  Policies = {"flag", "precharge", "ev"}
SPECIFICATION Spec
PROPERTIES RegulatesOnVerifiedGrid FeedbackOnce ForcedChargeEnds
