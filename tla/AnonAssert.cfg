SPECIFICATION Spec
CONSTANTS
  NULL = NULL
  ENOENT = ENOENT
  ENOMEM = ENOMEM
  a = a
  b = b
  c = c
  d = d
  e = e
  Names = {a, b, c, d, e}
  Hashes = {0, 1, 2, 3}
  Zero = 0
  Raws = {int}
  HashOf <- HashFull
INVARIANTS
  AssertHolds
