SPECIFICATION Spec
CONSTANTS
  Capacity = 14
  Cut = Cut
  Earlier = Earlier
  BlockSize = 2
  MaxInput = 1
  HeaderSize = 3
  BlockHeaderSize = 2
INVARIANT OutputBytesIsSize
CHECK_DEADLOCK FALSE
