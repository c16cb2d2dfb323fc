\* A build without assertions: main() goes on after a failed driver call.
CONSTANTS
  Families = {1024}
  Asserts = {FALSE}
  MaxResets = 0
SPECIFICATION Spec
CHECK_DEADLOCK FALSE
INVARIANTS StartsOnlyLocked
