\* Two messages to two contacts, one that the builders reject, and a crash.
CONSTANTS
  m1 = m1
  m2 = m2
  alice = alice
  bob = bob
  NoMsg = NoMsg
  Msgs = {m1, m2}
  Contacts = {alice, bob}
  To <- MCToEach
  Unbuildable = {m2}
  Callers = {"send", "retry-failed"}
  Pruners = {0}
  MaxAttempts = 2
  MaxRetries = 1
  MaxCrashes = 1
SPECIFICATION Spec
INVARIANT DeliveredWasAnnounced
PROPERTY LifeCycle
