\* Arrays of up to six of four keys; the caller says three are different.
CONSTANTS
  Capacity = 3
  Keys = {1, 2, 3, 4}
  Values = {}
  MaxLen = 6
SPECIFICATION CountSpec
INVARIANT Counted
