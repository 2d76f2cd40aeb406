\* One search with a stop event: no future of it ever searches its range.
CONSTANTS
  row = row
  NoJob = NoJob
  Tasks = {1}
  Kinds = {"getpubkey"}
  Sched = {row}
  Strategies = {"standard"}
  Slots = 1
  Ranges = 2
  Workers = 1
  Winning = {0, 1}
  MaxCrashes = 0
  MaxFailures = 0
  MaxSends = 1
SPECIFICATION SearchSpec
PROPERTY SearchEnds
CHECK_DEADLOCK FALSE
