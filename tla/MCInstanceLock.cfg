\* Three processes in one data directory.
CONSTANTS
  Procs = {p1, p2, p3}
  Stale = stale
  NoFile = NoFile
  Blank = Blank
SPECIFICATION Spec
SYMMETRY Symmetry
CHECK_DEADLOCK FALSE
INVARIANTS
  OneOwnerWithoutOverlap
  NotAllRefused
