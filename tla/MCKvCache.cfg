CONSTANTS
  Tokens = {a, b}
  Zero = Zero
  a = a
  b = b
  Formats <- MCFormats
  Sink = 1
  Group = 2
  MaxSeqLen = 5
  MaxChunk = 2
  MaxForwards = 4
SYMMETRY TokenSymmetry
SPECIFICATION Spec
INVARIANTS TypeOK LayoutExact RowsAreText ReadsAgree
