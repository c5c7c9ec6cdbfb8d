SPECIFICATION Spec
CONSTANTS
  RecordWorkloads <- MCRecordWorkloads
  MediaWorkloads <- MCMediaWorkloads
  Opaque = Opaque
  Unit = 6
  AsFloat <- MCAsFloat
  FloatSum <- MCFloatSum
  InverseFrequency <- MCInverseFrequency
  Saturation <- MCSaturation
  FrameSize <- MCFrameSize
  MaxDimension = 65500
  Contexts <- MCContexts
  Tables <- MCTables
  Segmentations <- MCSegmentations
  Corpora <- MCCorpora
  Selections <- MCSelections
  Tolerance = 1
  FloatKeeps <- MCFloatKeeps
INVARIANTS
  DocumentsRestoreBoundaries
  RecordsKeepTheirLine
  SegmentsTileTheVideo
  TopKIsTheBest
  GroupsPartitionTheRecords
  MatchesComeFirst
  RequestsCompose
  FramesKeepTheirOrder
  SheetShowsEveryImage
CHECK_DEADLOCK FALSE
