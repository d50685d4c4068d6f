SPECIFICATION Spec
CONSTANTS
  Uppers = {"GET", "POST", "HEAD", "PUT", "DELETE"}
  Words = {"x", "Connection", "Keep-Alive", "close"}
  Paths = {"/a"}
  Versions = {"HTTP/1.0", "HTTP/1.1"}
  Messages <- MCMessages
  MaxSent = 1
  MaxReads = 2
INVARIANT OffsetInBuffer
CHECK_DEADLOCK FALSE
