CONSTANTS
  Processes = {s}
  Environments <- OneWindow
  Files <- Empty
  Inputs <- TwoModels
  DefaultWindow = 6
  DefaultOutput = 2
  Down = Down
  Idle = Idle
  MaxSaves = 2
SPECIFICATION Spec
INVARIANT ComesUpAgain
CHECK_DEADLOCK FALSE
