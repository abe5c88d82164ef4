CONSTANTS
 Values = {1, 2}
 BufferSize = 2
 MaxItems = 4
 MaxMap = 4
SPECIFICATION Spec
INVARIANT EndInBuffer
CHECK_DEADLOCK FALSE
