SPECIFICATION Spec
CONSTANTS
  Bytes = {"a"}
  MaxSize = 4
INVARIANT BufferIsText
