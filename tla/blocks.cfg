SPECIFICATION Spec
CONSTANTS
  RangeStart = 6
  RangeSize = 11
  Grain = 2
  MaxBlocks = 5
  Sizes = {1, 3}
  Grains <- MCGrains
  Positions = {6, 8, 9, 11, 12, 14, 16}
INVARIANTS
  BlocksInv
  AllocatesIfItFits
PROPERTIES
  AllocMeetsRequest
  ImplementsAddressSpace
