\* What must happen in the end, under the fairness of FairSpec.
SPECIFICATION FairSpec
CONSTANTS
  Items = {i1}
  NoItem = NoItem
  Absent = Absent
  GoodsData = GoodsData
  MaxDay = 2
  MaxFaults = 1
  MaxOpens = 2
  MaxPending = 2
  MaxRestarts = 1
PROPERTIES SubmissionEnds HomeCatchesUp
CHECK_DEADLOCK FALSE
