SPECIFICATION Spec
CONSTANTS
  Cases <- AllCases
  JsonTexts <- AllJson
  Namespaced = TRUE
  Capacity = 2
  ChunkPieces = 3
CHECK_DEADLOCK FALSE
   
PROPERTIES TaskEnds
