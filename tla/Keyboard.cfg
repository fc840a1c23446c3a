SPECIFICATION FairSpec
CONSTANTS
  KBD_BUFF = 4
  TableSize = 4
  Scancodes <- MCScancodes
  scancode_to_ascii <- MCTable
  Chars <- MCChars
  NUL = NUL
  Empty = Empty
INVARIANTS
  TypeOK
  NoStuckByte
  InServiceWhileHandled
  ReaderSlotStable
  UnreadAreChars
PROPERTIES
  QueueSpec
  EveryCharRead
  EveryByteTaken
