SPECIFICATION FairBootSpec
CONSTANTS
  KBD_BUFF = 3
  TableSize = 3
  Scancodes <- MCScancodes
  scancode_to_ascii <- MCTable
  Chars <- MCChars
  NUL = NUL
  Empty = Empty
  IDT_SIZE = 48
  Framebuffers <- MCFramebuffers
  Garbage <- MCGarbage
  ADDRESSES = 268
  RAM <- MCRAM
  KernelImage <- MCKernelImage
  Unit = 1
  TssAddress <- MCTssAddress
  Was = Was
  Black = Black
  Red = Red
  Green = Green
  Blue = Blue
  None = None
INVARIANTS
  BootTypeOK
  StuckOnlyIfLost
  OnlyFramebufferWritten
  SegmentsCover
  BootTaskKept
  BadMagicInert
PROPERTIES
  KeyboardSpec
  CanvasSpec
  EveryKeyTaken
CHECK_DEADLOCK FALSE
