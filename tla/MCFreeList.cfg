SPECIFICATION FreeListSpec
CONSTANTS
  Nodes = {n1, n2, n3}
  None = None
SYMMETRY Symmetry
INVARIANTS Linked
