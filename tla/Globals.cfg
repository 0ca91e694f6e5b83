CONSTANTS
  Core = {0, 1, 2, 3, 4}
  total = total
  items = items
  Name = {total, items}
  Programs <- MCPrograms
  None = None
SPECIFICATION Spec
INVARIANTS MapAccessesExclude CopiedAtRest SharedCellsAreElements LostOnlyByOverlap
PROPERTY ImplementsAtomic
