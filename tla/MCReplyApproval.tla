-------------------------- MODULE MCReplyApproval --------------------------
(* Small instances of ReplyApproval for TLC.                               *)
EXTENDS ReplyApproval, TLC

CONSTANTS r1, r2, q1, q2, q3

(* One reply held from the owner's chat and one from a customer's thread.  *)
MCReplies   == {r1, r2}
MCOwnerChat == {r1}
MCRequests  == {q1, q2, q3}

Symmetry == Permutations(MCRequests)
=============================================================================
