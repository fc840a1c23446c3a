SPECIFICATION MCSpec
CONSTANTS
  W = 2
  H = 3
  MaxAbove = 2
  PrintChars <- MCPrintChars
  PrintAttrs <- MCPrintAttrs
INVARIANTS
  TypeOK
  BelowBlank
PROPERTIES
  PaperSpec
