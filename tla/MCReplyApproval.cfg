\* Two replies and three requests in every interleaving.
SPECIFICATION Spec
CONSTANTS
  r1 = r1
  r2 = r2
  q1 = q1
  q2 = q2
  q3 = q3
  Replies <- MCReplies
  OwnerChat <- MCOwnerChat
  Requests <- MCRequests
  NoRequest = NoRequest
  NoReply = NoReply
SYMMETRY Symmetry
INVARIANTS
  TypeOK
  Agreement
  ApprovedRecordHasItsMessage
  ApprovedRepliesGoWithTheirChat
PROPERTIES
  ImplementsGate
