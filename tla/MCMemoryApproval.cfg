\* Two proposals and three requests that overlap as they like, on profile
\* texts of every form.
SPECIFICATION Spec
CONSTANTS
  p1 = p1
  p2 = p2
  q1 = q1
  q2 = q2
  q3 = q3
  Items <- MCItems
  Key <- MCKey
  Class <- MCClass
  MaxItems = 2
  Blank = ""
  Placeholder = "nothing stored"
  Texts <- MCTexts
  Learned <- MCLearned
  OwnerLearned <- MCOwnerLearned
  Risky <- MCRisky
  Proposals <- TwoProposals
  Requests <- ThreeRequests
  NoProposal = NoProposal
INVARIANTS
  TypeOK
  ProfileHoldsOnlyApproved
  AppliedIsKnown
  MergeAgrees
PROPERTIES
  ApprovingAgainTeachesNothing
SYMMETRY RequestNames
