\* Three exchanges of a sender, at once with approvals of held replies, or
\* one after the other.
SPECIFICATION Spec
CONSTANTS
  m1 = m1
  m2 = m2
  m3 = m3
  Exchanges <- Three
  Threshold = 2
  Recent = 2
SYMMETRY Symmetry
INVARIANTS
  TypeOK
  CountsStoredMessages
  RepliesFollowTheirMessage
  CountIsExact
PROPERTIES
  SummaryGrows
