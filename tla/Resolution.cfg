\* Five components, one at a time, with the fairness of each.
SPECIFICATION Spec
CONSTANTS
  Total = 5
  First = 2
  Silence = 1
  MaxChunks = 2
  MaxNow = 7
PROPERTIES
  CallsEndWell
  QueueComesToRest
  DocumentsComeToRest
  SpaceComesToRest
  RunEndsWell
CHECK_DEADLOCK FALSE
