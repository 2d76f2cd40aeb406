\* One object, two connections, a wipe, under fairness.
CONSTANTS
  Objs = {a}
  Own = {}
  Readers = {r1, r2}
  Maint = Maint
  NoObj = NoObj
  InvMax = 1
  KnownMax = 1
  KnownKeep = 1
  MaxPending = 1
  Lossy = FALSE
  MaxAccepted = 3
  MaxWipes = 1
  MaxCrashes = 0
  MaxDbErrors = 0
  MaxForgotten = 0
SPECIFICATION FairSpec
PROPERTIES
  PendingResolves
  
