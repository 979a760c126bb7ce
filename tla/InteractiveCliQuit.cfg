CONSTANTS
  MaxInputs = 1
  MaxEvents = 1
SPECIFICATION Spec
INVARIANT ConvergesBeforeCleanup
