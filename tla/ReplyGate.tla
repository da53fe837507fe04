----------------------------- MODULE ReplyGate -----------------------------
(***************************************************************************)
(* What the reply-approval service promises its owner, without tables,     *)
(* locks, transactions or telegram calls: a held reply waits for a         *)
(* decision, a decision is indivisible, and the customer only ever         *)
(* receives a reply for a decision that approved it, at most once for each *)
(* such decision.  ReplyApproval is shown to implement it.                 *)
(*                                                                         *)
(* The promise is as weak as the code makes it: a decided reply may be     *)
(* decided again, and a delivery may come after a later rejection.         *)
(***************************************************************************)
CONSTANTS
    Replies,    \* held replies
    Requests    \* owner decisions, each made by one HTTP request

VARIABLES
    verdict,    \* what the owner's dashboard and the audit trail say of a reply
    approvals,  \* pairs <<reply, request>>: the approvals that took effect
    deliveries  \* pairs <<reply, request>>: what was put before the customer

gateVars == <<verdict, approvals, deliveries>>

Known(r) == verdict[r] \in {"pending", "approved", "rejected"}

GateInit ==
    /\ verdict = [r \in Replies |-> "absent"]
    /\ approvals = {}
    /\ deliveries = {}

(* The pipeline holds a reply that the risk node did not let through. *)
Hold(r) ==
    /\ verdict[r] = "absent"
    /\ verdict' = [verdict EXCEPT ![r] = "pending"]
    /\ UNCHANGED <<approvals, deliveries>>

Approve(r, q) ==
    /\ Known(r)
    /\ <<r, q>> \notin approvals
    /\ verdict' = [verdict EXCEPT ![r] = "approved"]
    /\ approvals' = approvals \union {<<r, q>>}
    /\ UNCHANGED deliveries

Reject(r) ==
    /\ Known(r)
    /\ verdict' = [verdict EXCEPT ![r] = "rejected"]
    /\ UNCHANGED <<approvals, deliveries>>

(* Deleting an owner chat forgets some replies: each of them altogether. *)
Forget(S) ==
    /\ verdict' = [r \in Replies |-> IF r \in S /\ Known(r) THEN "deleted"
                                                            ELSE verdict[r]]
    /\ UNCHANGED <<approvals, deliveries>>

Deliver(r, q) ==
    /\ <<r, q>> \in approvals \ deliveries
    /\ deliveries' = deliveries \union {<<r, q>>}
    /\ UNCHANGED <<verdict, approvals>>

GateNext ==
    \/ \E r \in Replies : Hold(r) \/ Reject(r)
    \/ \E r \in Replies, q \in Requests : Approve(r, q) \/ Deliver(r, q)
    \/ \E S \in SUBSET Replies : Forget(S)

Gate == GateInit /\ [][GateNext]_gateVars
=============================================================================
