SPECIFICATION Spec
CONSTANTS
  Posts = {p1, p2}
  Dims = {256, 1024}
  MaxVersion = 2
  NoFile = NoFile
  NoPost = NoPost
SYMMETRY Symmetry
INVARIANTS
  IndexIsCurrent
PROPERTIES
  KeptOnFailure
