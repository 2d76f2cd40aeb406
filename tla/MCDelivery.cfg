\* One message, every caller, two attempts, no crash.
CONSTANTS
  m1 = m1
  m2 = m2
  alice = alice
  bob = bob
  NoMsg = NoMsg
  Msgs = {m1}
  Contacts = {alice}
  To <- MCToOne
  Unbuildable = {}
  Callers = {"send", "pubkey", "resend", "retry-failed", "retry-queued"}
  Pruners = {0}
  MaxAttempts = 2
  MaxRetries = 1
  MaxCrashes = 0
SPECIFICATION Spec
INVARIANTS
  TypeOK
  OneWorkerPerMessage
  InFlightExact
  AckNotLost
