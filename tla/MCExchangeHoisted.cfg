CONSTANTS
  DeviceId = 170
  Builds = {"hoisted"}
  MaxResets = 0
  NoWord = NoWord
SPECIFICATION Spec
PROPERTIES AnswerStartsDfu
