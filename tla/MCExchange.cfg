\* Both outcomes of the compiler for the loop of dfu_task.
CONSTANTS
  DeviceId = 170
  Builds = {"reread", "hoisted"}
  MaxResets = 2
  NoWord = NoWord
SPECIFICATION Spec
INVARIANTS TypeOK NoIpcAssert AnsweredOnlyIfAsked DfuNeedsDeviceId MessagePaths
PROPERTIES SeenCommandAnswered ImplementsServiceSafety ImplementsServiceLiveness
