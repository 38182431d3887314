CONSTANTS
  CXMS = CXMS
  PDB = PDB
  EMDB = EMDB
  a1 = a1
  a2 = a2
  d1 = d1
  d2 = d2
  Kinds <- MCKinds
  DupKinds <- MCDupKinds
  Attrs <- MCAttrs
  Details <- MCDetails
  MaxObjs = 3

SPECIFICATION Spec

INVARIANT NoDuplicateDatasets
INVARIANT HeldRefsResolve
INVARIANT GroupsAreSnapshots
PROPERTY DumpListsEveryDataset
