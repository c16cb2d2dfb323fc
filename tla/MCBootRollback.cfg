CONSTANTS
  Rows = 2
  Images = {v1, v2, hung, unsigned}
  Signed = {v1, v2, hung}
  Healthy = {v1, v2, unsigned}
  Factory = v1
  Blank = blank
  MaxPowerCuts = 0
SPECIFICATION Spec
CHECK_DEADLOCK FALSE
PROPERTIES RollsBack
