SPECIFICATION Spec
CONSTANTS
  Names = {n1, n2, n3}
  MaxAliases = 2
  Wrap = 4
  MaxOps = 3
INVARIANT
  TableFits
