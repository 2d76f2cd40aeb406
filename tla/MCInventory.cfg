\* An object of the network and one of ours, room for one in memory, two lossy connections, a crash.
CONSTANTS
  Objs = {a, b}
  Own = {b}
  Readers = {r1, r2}
  Maint = Maint
  NoObj = NoObj
  InvMax = 1
  KnownMax = 2
  KnownKeep = 1
  MaxPending = 1
  Lossy = TRUE
  MaxAccepted = 3
  MaxWipes = 0
  MaxCrashes = 1
  MaxDbErrors = 0
  MaxForgotten = 0
SPECIFICATION Spec
SYMMETRY Symmetry
INVARIANTS
  TypeOK
  HandledOnce
  KnownIsHeld
  StoredIsKnown
