SPECIFICATION Spec
CONSTANTS
  Files <- MCFiles
  FrameCounts <- MCFrameCounts
  PageCells = 2
  SlotPages = 4
  IdentityPages <- MCIdentity
  U64 = 32
  UserTop = 23
  StackPages <- MCStack
  HeaderSize = 2
  PhSize = 1
  MaxImage = 8
  UserBase = 2
  CodePage = 4
  StubStack = 5
  KernelPage = 1
  MessageAt = 8
  MessageLength = 2
  MaxLine = 3
  MaxValidated = 4
  Buffers <- MCBuffers
  Lengths <- MCLengths
  MaxCalls = 1
INVARIANTS LoadExact FramesExact ReadsAreTheCallers
CHECK_DEADLOCK FALSE
