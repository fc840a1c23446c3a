SPECIFICATION MCSpec
CONSTANTS
  MAX_CMD_LENGTH = 10
  W = 3
  H = 2
  Lines <- MCLines
  Typed <- MCTyped
  Garbage <- MCGarbage
  Prompt <- MCPrompt
  Outputs <- MCOutputs
INVARIANTS
  TypeOK
  CommandsRun
  LineShownIfClean
  HardwareCursorHere
PROPERTIES
  LineSpec
