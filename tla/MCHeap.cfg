SPECIFICATION Spec
CONSTANTS
  HeapStart = 4
  HeapSize = 312
  SIZE_CLASSES <- MCClasses
  RegionPages = 9
  MAX_ORDER = 3
  Requests = {1, 2, 3}
  Layouts <- MCLayouts
  Callers = {c1, c2}
  NoCall = NoCall
INVARIANTS NoOverlap SlabConserved AlignedInRegion Tiled BitmapMatchesLists NoFalseOutOfMemory
SYMMETRY MCSymmetry
