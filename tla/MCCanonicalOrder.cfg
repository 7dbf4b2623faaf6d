\* Any two documents, keys that compare equal included.
SPECIFICATION DocumentsSpec
CONSTANTS
  Keys = {"k1", "k2", "k3"}
  Rank <- Ranks
  Documents <- SmallDocuments
  Depth <- Depths
INVARIANT OneMeaningOneHash
CHECK_DEADLOCK FALSE
