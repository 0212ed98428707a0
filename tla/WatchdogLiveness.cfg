CONSTANTS
  None = None
  ControlValues = {5}
  OverrideValues = {5, 7}
  HoldEnabled = TRUE
  Hold = 1
  Timeout = 1
  CheckInterval = 1
  RefreshInterval = 1
  RetryInterval = 1
  OverrideInterval = 1
SPECIFICATION FairSpec
PROPERTIES StalledLoopIsReplaced OutageIsCovered OverrideIsMaintained RecoveryCompletes
