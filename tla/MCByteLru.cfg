SPECIFICATION Spec
CONSTANTS
  Key = {k1, k2, k3}
  Bytes = {0, 2, 3, 6}
  MaxBytes = 5
  MaxClock = 5
INVARIANTS TypeOK AccountingExact WithinBudget HeapTracksEntries CutMatchesLoop
PROPERTY ImplementsLru
