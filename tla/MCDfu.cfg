\* Hosts that act within five seconds and hosts that may fall silent at any point,
\* two faults, an image of two rows, five seconds of three rounds.
CONSTANTS
  Rows = 2
  Images = {v2, unsigned}
  Signed = {v2}
  Factory = v1
  Blank = blank
  Limit = 3
  CountMod = 5
  MaxFaults = 2
  HostPaces = {"prompt", "slow"}
SPECIFICATION Spec
INVARIANTS TypeOK AcknowledgedRowsStored 
PROPERTIES ImplementsServiceSafety NotDroppedEarly AbandonedSessionEnds UpgradeEventually
