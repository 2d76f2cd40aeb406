\* One message, every caller, one attempt and a crash at any point, under fairness.
CONSTANTS
  m1 = m1
  m2 = m2
  alice = alice
  bob = bob
  NoMsg = NoMsg
  Msgs = {m1}
  Contacts = {alice}
  To <- MCToOne
  Unbuildable = {}
  Callers = {"send", "pubkey", "resend", "retry-failed", "retry-queued"}
  Pruners = {0}
  MaxAttempts = 1
  MaxRetries = 1
  MaxCrashes = 1
SPECIFICATION FairSpec
PROPERTIES
  SendingResolves
  
  
