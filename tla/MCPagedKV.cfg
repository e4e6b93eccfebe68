SPECIFICATION Spec
CONSTANTS
  s1 = s1
  s2 = s2
  NoBytes = NoBytes
  SeqIds = {s1, s2}
  NumPages = 3
  BlockSize = 2
  MaxWrite = 3
SYMMETRY Symmetry
INVARIANTS
    PagesConserved
    PrefixIntact
