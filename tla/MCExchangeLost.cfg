CONSTANTS
  DeviceId = 170
  Builds = {"reread"}
  MaxResets = 0
  NoWord = NoWord
SPECIFICATION Spec
PROPERTIES RequestAnswered
