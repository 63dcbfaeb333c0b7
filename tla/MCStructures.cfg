CONSTANTS
  empty = empty
  small = small
  middle = middle
  large = large
  NoRecord = NoRecord
  PageSize = 32
  SlotOverhead = 4
  Record <- MCRecord
  Size <- MCSize
  SlotId = {1, 2, 3, 4, 5, 6, 7}
  Order = 3
SPECIFICATION MCSpec
INVARIANTS
  TypeOK
  NeverOverfull
  SlotsArePeak
  NodesAreWellFormed
  SearchesFindAll
PROPERTIES
  HandlesStay
  ImplementsSortedMap
