SPECIFICATION MCSpec
CONSTANTS
  MAX_CMD_LENGTH = 10
  W = 3
  H = 2
  Lines <- MCEraseLines
  Typed <- MCTyped
  Garbage <- MCGarbage
  Prompt <- MCPrompt
  Outputs <- MCOutputs
INVARIANTS
  LineShown
