\* Messages for an identity that is added, disabled and deleted, a post of its
\* channel, and a request for the key of the first identity.
CONSTANTS
  home = home
  other = other
  m1 = m1
  m2 = m2
  p = p
  r = r
  Addrs = {home, other}
  Msgs = {m1, m2}
  Posts = {p}
  Requests = {r}
  For <- MCFor
  Acked = {m1}
  Conns = {c}
  Gui = Gui
  NoObj = NoObj
  NoAddr = NoAddr
  First = {home}
  ReparseLimit = 2
  MaxOps = 2
  MaxDeletes = 1
  MaxUpsets = 1
SPECIFICATION Spec
INVARIANTS
  TypeOK
  OneRowPerObject
  AckOnce
  IdentitiesKept
PROPERTY ReparseRecovers
CHECK_DEADLOCK FALSE
