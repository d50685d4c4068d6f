SPECIFICATION Spec
CONSTANTS
  Byte = {0, 1}
  Zero = 0
  kCheapPrepend = 2
  kInitialSize = 2
  ExtraBuf = 2
  MaxLen = 3
  MaxSize = 8
INVARIANT TypeOK
PROPERTIES IsByteQueue GrowsOnlyWhenFull HeaderRoomKept
