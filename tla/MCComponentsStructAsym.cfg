CONSTANTS
  c1 = c1  c2 = c2  c3 = c3  s1 = s1  s2 = s2  f1 = f1  f2 = f2
  Comps <- MCComps3
  Seqs <- MCSeqs
  Files <- MCFiles
  Located = {f1}
  Recreate = FALSE
  MaxCalls = 5
SPECIFICATION Spec
INVARIANT StructAsymWritten
