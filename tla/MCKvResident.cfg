CONSTANTS
  Tokens = {a, b}
  Zero = Zero
  SpecKs = {1, 2, 3}
  Tile = 4
  MaxRows = 8
  PromptRows = 1
SPECIFICATION Spec
INVARIANTS TypeOK AttendsToHostRows
