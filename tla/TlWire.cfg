SPECIFICATION Spec
CONSTANTS
  MaxElements = 2
  MaxFlags = 2
  Lengths = {0, 1, 2, 3, 4, 5, 127, 252, 253, 254, 255, 256, 257, 258, 65535, 65536, 16777215}
INVARIANTS
  RequestUnderstood
  ValueUnderstood
