\* Two tasks and one slot in each semaphore; a post and a letter are scheduled.
CONSTANTS
  NoJob = NoJob
  row = row
  Tasks = {1, 2}
  Kinds = {"plain"}
  Sched = {row}
  Strategies = {"standard", "mock"}
  Slots = 1
  Ranges = 3
  Workers = 2
  Winning = {0}
  MaxCrashes = 1
  MaxFailures = 1
  MaxSends = 2
SPECIFICATION FairSpec
INVARIANTS
  
  SentOnce
  MarkedHasRow
PROPERTIES
  
  CancelEnds
