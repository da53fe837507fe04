\* One reply of the owner chat and three requests: enough for a decision,
\* a deletion that deadlocks with it, and a request that waits behind both.
SPECIFICATION Spec
CONSTANTS
  r1 = r1
  r2 = r2
  q1 = q1
  q2 = q2
  q3 = q3
  Replies <- MCOwnerChat
  OwnerChat <- MCOwnerChat
  Requests <- MCRequests
  NoRequest = NoRequest
  NoReply = NoReply
PROPERTIES
  EveryRequestAnswered
