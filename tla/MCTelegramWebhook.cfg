SPECIFICATION Spec
CONSTANTS
  u1 = u1
  u2 = u2
  chat = chat
  Updates = {u1, u2}
  Chat <- SameChat
  DedupTTL = 1
  LockTTL = 1
  MaxDeliveries = 2
INVARIANTS
  TypeOK
  OneAtATime
  AnsweredIsHandled
PROPERTIES
  NoRepeatWithinTTL
  EveryDeliveryEnds
