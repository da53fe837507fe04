\* The audit trail against what was delivered.
SPECIFICATION Spec
CONSTANTS
  r1 = r1
  r2 = r2
  q1 = q1
  q2 = q2
  q3 = q3
  Replies <- MCReplies
  OwnerChat <- MCOwnerChat
  Requests <- MCRequests
  NoRequest = NoRequest
  NoReply = NoReply
SYMMETRY Symmetry
INVARIANTS
  RejectedIsNotDelivered
