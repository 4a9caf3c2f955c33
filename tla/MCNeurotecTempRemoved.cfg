SPECIFICATION Uninterrupted
CONSTANTS
  Names = {ann, bob}
  Temp = Temp
  Ids = {0, 1, 2, 3}
  Slots = 3
  MaxOpened = 2
INVARIANT TempRemoved
