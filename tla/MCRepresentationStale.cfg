CONSTANTS
  c1 = c1  c2 = c2  p1 = p1  p2 = p2  p3 = p3
  Comps <- MCComps
  Pdbs <- MCPdbs
  Header <- MCHeader
  Templates <- MCTemplates
  Located <- MCLocated
  Ranges <- MCRanges
  Offsets = {0}
  Nums = {1}
  MaxFrags = 3
SPECIFICATION Spec
INVARIANT ReprRowsNameOwnModel
