SPECIFICATION ShiftSpec
CONSTANTS
  Residuals = {0, 50}
  Qualities = {1}
  Delays = {0}
  max_history = 5
  Window = 2
  MaxAge = 2
  TargetInterval = 1
PROPERTIES
  ModelIsMaintained
