\* An image that never starts its CM4 side and one that does not validate.
CONSTANTS
  Rows = 3
  Images = {v1, v2, hung, unsigned}
  Signed = {v1, v2, hung}
  Healthy = {v1, v2, unsigned}
  Factory = v1
  Blank = blank
  MaxPowerCuts = 2
SPECIFICATION Spec
CHECK_DEADLOCK FALSE
INVARIANTS TypeOK OnlyWholeImagesRun FlashWritesUndisturbed CopyKeepsSource
PROPERTIES NeverBricked ImplementsServiceSafety ImplementsServiceLiveness
