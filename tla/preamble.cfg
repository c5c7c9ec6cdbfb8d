SPECIFICATION AdapterSpec
CONSTANTS
  Contexts <- MCContexts
  Tables <- MCTables
  Segmentations <- MCSegmentations
  Corpora <- MCCorpora
  Selections <- MCSelections
  Tolerance = 1
  FloatKeeps <- MCFloatKeeps
INVARIANT OfficialTableIsWhole
CHECK_DEADLOCK FALSE
