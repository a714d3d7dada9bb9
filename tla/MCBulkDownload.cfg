SPECIFICATION Spec
CONSTANTS
  Workers = {w1, w2}
  Inodes = {i1, i2, i3, i4}
  NoFile = NoFile
  Pages = 2
  Chunks = 2
  MaxRetries = 1
INVARIANTS
  TypeOK
  PublishedIsComplete
  NoRemains
