\* Two messages of new and known senders and two requests of the owner.
SPECIFICATION Spec
CONSTANTS
  k1 = k1
  m1 = m1
  m2 = m2
  o1 = o1
  o2 = o2
  tg = tg
  phone = phone
  name = name
  mail = mail
  owner = owner
  MaxDependents = 1
  Externals <- Ids
  Kind <- KindOf
  Owners = {owner}
  Known = {k1}
  Profile <- ProfileOf
  Messages = {m1, m2}
  Contacts <- People
  Requests = {o1, o2}
  Targets = {"supplier", "customer", "none"}
SYMMETRY Symmetry
CHECK_DEADLOCK FALSE
INVARIANTS
  TypeOK
  OneCustomerPerSender
  OrphansComeFromFailures
  NobodyIsLost
PROPERTIES
  ResolvedExists
  SwitchIsAtomic
