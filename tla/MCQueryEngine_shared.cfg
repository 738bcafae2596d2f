SPECIFICATION FairSpec
CONSTANTS
  None = None
  Job = {j1, j2}
  Sql <- MCTexts
INVARIANTS TypeOK DatasetKept OwnDataOnly SoloJobsAnswered
PROPERTIES EveryJobSettles TransactionEnds
CHECK_DEADLOCK FALSE
