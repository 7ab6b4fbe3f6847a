\* Unsized literals of the same width as random_num, as the language defines them.
CONSTANTS
  e1 = e1
  e2 = e2
  Elements <- MCElements
  NoElement = NoElement
  LENGTH = 1
  RANDOM_BITS = 3
  LITERAL_BITS = 3
  MaxElements = 2
SPECIFICATION Spec
INVARIANTS IdSaved
