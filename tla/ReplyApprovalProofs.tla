------------------------ MODULE ReplyApprovalProofs ------------------------
(***************************************************************************)
(* Proofs about ReplyApproval, for any set of replies and of requests.     *)
(*                                                                         *)
(* The invariant IInv says who holds which lock at which statement.  From  *)
(* it: types, agreement of the three tables, integrity of the audit        *)
(* record's message, what outlives a deleted chat, and that the service    *)
(* implements ReplyGate.  Each action has a lemma with a step for each     *)
(* conjunct of IInv it can disturb; the conjuncts whose variables it       *)
(* leaves alone share one step.                                            *)
(***************************************************************************)
EXTENDS ReplyApproval, TLAPS

(* A row is the held reply, the card or the audit record of one reply.     *)
LEMMA RowFacts ==
  /\ \A r \in Replies :
        /\ Held(r) \in Rows /\ Approval(r) \in Rows /\ Record(r) \in Rows
        /\ Held(r)[2] = r /\ Approval(r)[2] = r /\ Record(r)[2] = r
  /\ \A r, s \in Replies : /\ Held(r) # Approval(s)
                           /\ Held(r) # Record(s)
                           /\ Approval(r) # Record(s)
  /\ \A x \in Rows : /\ x[2] \in Replies
                     /\ x = Held(x[2]) \/ x = Approval(x[2]) \/ x = Record(x[2])
  BY DEF Rows, Tables, Held, Approval, Record

(* What a request's program point tells of its operation.                  *)
LEMMA OpAt ==
  ASSUME TypeOK, ControlInv, NEW q \in Requests
  PROVE  /\ op[q] \in {"approve", "reject", "review"} => target[q] \in Replies
         /\ pc[q] \in {"held", "approval"} => op[q] \in {"approve", "reject"}
         /\ pc[q] \in {"message", "send", "memory"} => op[q] = "approve"
         /\ pc[q] = "record" => op[q] \in {"approve", "reject", "review"}
         /\ pc[q] = "idle" <=> op[q] = "none"
         /\ pc[q] \in DeletePoints \ {"commit"} => op[q] = "delete"
         /\ pc[q] = "store" => op[q] = "turn"
  BY DEF TypeOK, ControlInv, PointsOf, Operations, DecisionPoints,
         DeletePoints, TurnPoints, AfterPoints, Ended

(* A request that has not started holds no row.                            *)
LEMMA IdleHoldsNothing ==
  ASSUME TypeOK, LockInv, NEW q \in Requests, pc[q] = "idle"
  PROVE  \A x \in Rows : lock[x] # q
  BY NoneAssumption DEF TypeOK, LockInv, InTx, TxPoints, DecisionPoints,
                        DeletePoints, TurnPoints

(* A request that moves on, without entering a deletion's transaction,     *)
(* committing a message or revealing a row, leaves the races as they are.  *)
LEMMA RaceMoved ==
  ASSUME TypeOK, ControlInv, DecidedInv, RaceInv, NEW q \in Requests, NEW p,
         pc' = [pc EXCEPT ![q] = p], op[q] # "delete" \/ p \in Ended,
         UNCHANGED <<messages, unlinked, op, target, snaps>>,
         \A r \in Replies : Exists(Held(r))' => Exists(Held(r)),
         \A r \in Replies : status[Held(r)] # "absent" => status'[Held(r)] # "absent"
  PROVE  DecidedInv' /\ RaceInv'
<1>1. DecidedInv'
  BY OpAt DEF DecidedInv, Decides
<1>2. \A d \in Requests : Deletes(d)' => Deletes(d) /\ pc'[d] = pc[d]
  BY DEF Deletes, InTx, TxPoints, DecisionPoints, DeletePoints, TurnPoints, Ended,
         TypeOK
<1>3. \A d \in Requests : HasReadTheDecided(d) => HasReadTheDecided(d)'
  BY OwnerChatAssumption DEF HasReadTheDecided, Decides, snaps
<1>4. \A d \in Requests : HasDroppedTheApproved(d) => HasDroppedTheApproved(d)'
  BY DEF HasDroppedTheApproved, snaps
<1>5. \A d \in Requests : pc'[d] = pc[d] =>
          /\ HeldRead(d)' = HeldRead(d)
          /\ MessagesDropped(d)' = MessagesDropped(d)
  BY DEF HeldRead, MessagesDropped
<1> QED
  BY <1>1, <1>2, <1>3, <1>4, <1>5 DEF RaceInv, snaps

(* A deletion that has not deleted its messages yet moves on.              *)
LEMMA DeletionMoved ==
  ASSUME TypeOK, DecidedInv, RaceInv, NEW q \in Requests, NEW p,
         op[q] = "delete", InTx(q), pc' = [pc EXCEPT ![q] = p],
         p \in DeletePoints \ {"unlink", "commit"}, HeldRead(q)' => HeldRead(q),
         UNCHANGED <<status, messages, unlinked, op, target, snapHeld>>,
         \A d \in Requests \ {q} : snapMessages'[d] = snapMessages[d]
  PROVE  DecidedInv' /\ RaceInv'
<1>1. DecidedInv'
  BY DEF DecidedInv, Decides
<1>2. \A d \in Requests : Deletes(d)' => d = q
  BY DEF RaceInv, Deletes, InTx, TypeOK
<1>3. ~MessagesDropped(q)' /\ pc'[q] # "commit"
  BY DEF MessagesDropped, TypeOK
<1>4. HasReadTheDecided(q) => HasReadTheDecided(q)'
  BY DEF HasReadTheDecided, Decides, Exists
<1> QED
  BY <1>1, <1>2, <1>3, <1>4 DEF RaceInv, Deletes

(* The invariant holds initially.                                          *)
LEMMA InitIInv == Init => IInv
<1> SUFFICES ASSUME Init PROVE IInv
  OBVIOUS
<1>1. TypeOK
  BY DEF Init, TypeOK, Status, Points, Operations
<1>2. Agreement /\ LinkInv
  BY RowFacts DEF Init, Agreement, LinkInv, Exists
<1>3. ControlInv
  BY DEF Init, ControlInv, PointsOf, Decides
<1>4. HistoryInv
  BY DEF Init, HistoryInv, AfterPoints
<1>5. LockInv /\ DecisionInv /\ ReviewInv /\ DeleteInv /\ DecidedInv /\ RaceInv
  BY DEF Init, LockInv, DecisionInv, ReviewInv, DeleteInv, DecidedInv, RaceInv,
         Deletes, Decides
<1>6. ThreadInv
  BY DEF Init, ThreadInv
<1> QED
  BY <1>1, <1>2, <1>3, <1>4, <1>5, <1>6 DEF IInv

(* hold_reply inserts the three rows of a reply at once.                   *)
LEMMA HoldReplyStep ==
  ASSUME IInv, NEW r \in Replies, HoldReply(r)
  PROVE  IInv'
<1>0. TypeOK /\ Agreement /\ ControlInv /\ HistoryInv /\ LinkInv /\ LockInv
        /\ DecisionInv /\ ReviewInv /\ DeleteInv /\ DecidedInv /\ RaceInv /\ ThreadInv
  BY DEF IInv
<1>1. TypeOK'
  BY <1>0 DEF HoldReply, TypeOK, asked, snaps, ghosts, Status
<1>2. Agreement'
  BY <1>0, RowFacts DEF HoldReply, Agreement, tables
<1>3. ControlInv' /\ HistoryInv' /\ DecisionInv' /\ ReviewInv' /\ ThreadInv'
  BY <1>0 DEF HoldReply, ControlInv, asked, HistoryInv, ghosts,
     DecisionInv, Decides, ReviewInv, ThreadInv, ThreadMessages,
     SharesThread
<1>4. LinkInv'
  BY <1>0, RowFacts DEF HoldReply, LinkInv, ghosts, asked, Exists
<1>5. LockInv'
  BY <1>0 DEF HoldReply, LockInv, Exists, InTx
<1>6. DeleteInv'
  BY <1>0, RowFacts DEF HoldReply, DeleteInv, asked, snaps, ghosts, Exists,
     InTx, HeldDropped, RecordsDropped, ApprovalsDropped, MessagesDropped, HeldRead, TypeOK
<1>7. DecidedInv' /\ RaceInv'
  <2>1. /\ UNCHANGED <<pc, messages, unlinked, op, target, snaps>>
        /\ \A s \in Replies : status'[Held(s)] =
              IF s = r THEN "pending" ELSE status[Held(s)]
    BY RowFacts DEF HoldReply, asked
  <2>2. \A p \in Requests : Decides(p) => target[p] \in Replies \ {r}
    BY <1>0, OpAt DEF HoldReply, DecidedInv, Decides
  <2>3. DecidedInv'
    BY <1>0, <2>1, <2>2 DEF DecidedInv, Decides
  <2>4. \A d \in Requests : HasReadTheDecided(d) => HasReadTheDecided(d)'
    BY <2>1, <2>2 DEF HasReadTheDecided, Decides, Exists, snaps
  <2>5. \A d \in Requests : HasDroppedTheApproved(d) => HasDroppedTheApproved(d)'
    BY <2>1 DEF HasDroppedTheApproved, snaps
  <2> QED
    BY <1>0, <2>1, <2>3, <2>4, <2>5 DEF RaceInv, Deletes, InTx, HeldRead,
       MessagesDropped, snaps
<1> QED
  BY <1>1, <1>2, <1>3, <1>4, <1>5, <1>6, <1>7 DEF IInv

(* An owner's decision arrives: the new request holds nothing yet.         *)
LEMMA DecideStep ==
  ASSUME IInv, NEW q \in Requests, NEW o \in Operations, NEW r \in Replies,
         Decide(q, o, r)
  PROVE  IInv'
<1>0. TypeOK /\ Agreement /\ ControlInv /\ HistoryInv /\ LinkInv /\ LockInv
        /\ DecisionInv /\ ReviewInv /\ DeleteInv /\ DecidedInv /\ RaceInv /\ ThreadInv
  BY DEF IInv
<1>1. TypeOK'
  BY <1>0 DEF Decide, Start, TypeOK, tables, snaps, ghosts, Points,
     TxPoints, TurnPoints, DecisionPoints
<1>2. Agreement'
  BY <1>0 DEF Decide, Start, Agreement, tables
<1>3. ControlInv'
  BY <1>0 DEF Decide, Start, ControlInv, PointsOf, DecisionPoints, TypeOK
<1>4. HistoryInv'
  BY <1>0, OpAt DEF Decide, Start, HistoryInv, tables, ghosts, AfterPoints
<1>5. LinkInv'
  <2>1. q \notin approvedBy
    BY <1>0 DEF Decide, Start, HistoryInv, AfterPoints, Ended
  <2> QED
    BY <1>0, <2>1 DEF Decide, Start, LinkInv, tables, ghosts, Exists, TypeOK
<1>6. LockInv'
  BY <1>0 DEF Decide, Start, InTx, LockInv, tables, Exists, TxPoints, TurnPoints,
     DecisionPoints
<1>7. DecisionInv'
  BY <1>0, IdleHoldsNothing DEF Decide, Start, DecisionInv, Decides
<1>8. ReviewInv'
  BY <1>0, OpAt DEF Decide, Start, ReviewInv
<1>9. DeleteInv'
  BY <1>0, OpAt DEF Decide, Start, EventLoopFree, InTx, DeleteInv
<1>10. ThreadInv'
  BY <1>0, OpAt DEF Decide, Start, ThreadInv, tables, ThreadMessages,
     SharesThread, HistoryInv
<1>11. DecidedInv' /\ RaceInv'
  <2>1. DecidedInv'
    BY <1>0, RowFacts DEF Decide, Start, tables, TypeOK, DecidedInv, Decides,
       Agreement
  <2>2. \A d \in Requests : ~Deletes(d)'
    BY <1>0 DEF Decide, Start, EventLoopFree, Deletes, InTx, TypeOK
  <2> QED
    BY <2>1, <2>2 DEF RaceInv
<1> QED
  BY <1>1, <1>2, <1>3, <1>4, <1>5, <1>6, <1>7, <1>8, <1>9, <1>10, <1>11 DEF IInv

(* A review of an audit record arrives.                                    *)
LEMMA ReviewStep ==
  ASSUME IInv, NEW q \in Requests, NEW r \in Replies, Review(q, r)
  PROVE  IInv'
<1>0. TypeOK /\ Agreement /\ ControlInv /\ HistoryInv /\ LinkInv /\ LockInv
        /\ DecisionInv /\ ReviewInv /\ DeleteInv /\ DecidedInv /\ RaceInv /\ ThreadInv
  BY DEF IInv
<1>1. TypeOK'
  BY <1>0 DEF Review, Start, TypeOK, tables, snaps, ghosts, Points,
     TxPoints, TurnPoints, DecisionPoints, Operations
<1>2. Agreement'
  BY <1>0 DEF Review, Start, Agreement, tables
<1>3. ControlInv'
  BY <1>0 DEF Review, Start, ControlInv, PointsOf, TypeOK
<1>4. HistoryInv'
  BY <1>0, OpAt DEF Review, Start, HistoryInv, tables, ghosts, AfterPoints
<1>5. LinkInv'
  <2>1. q \notin approvedBy
    BY <1>0 DEF Review, Start, HistoryInv, AfterPoints, Ended
  <2> QED
    BY <1>0, <2>1 DEF Review, Start, LinkInv, tables, ghosts, Exists, TypeOK
<1>6. LockInv'
  BY <1>0 DEF Review, Start, InTx, LockInv, tables, Exists, TxPoints, TurnPoints,
     DecisionPoints
<1>7. DecisionInv'
  BY <1>0, OpAt DEF Review, Start, DecisionInv, Decides
<1>8. ReviewInv'
  BY <1>0, IdleHoldsNothing DEF Review, Start, ReviewInv
<1>9. DeleteInv'
  BY <1>0, OpAt DEF Review, Start, EventLoopFree, InTx, DeleteInv
<1>10. ThreadInv'
  BY <1>0, OpAt DEF Review, Start, ThreadInv, tables, ThreadMessages,
     SharesThread, HistoryInv
<1>11. DecidedInv' /\ RaceInv'
  <2>1. DecidedInv'
    BY <1>0 DEF Review, Start, tables, TypeOK, DecidedInv, Decides
  <2>2. \A d \in Requests : ~Deletes(d)'
    BY <1>0 DEF Review, Start, EventLoopFree, Deletes, InTx, TypeOK
  <2> QED
    BY <2>1, <2>2 DEF RaceInv
<1> QED
  BY <1>1, <1>2, <1>3, <1>4, <1>5, <1>6, <1>7, <1>8, <1>9, <1>10, <1>11 DEF IInv

(* A request to delete the owner chat arrives.                             *)
LEMMA DeleteThreadStep ==
  ASSUME IInv, NEW q \in Requests, DeleteThread(q)
  PROVE  IInv'
<1>0. TypeOK /\ Agreement /\ ControlInv /\ HistoryInv /\ LinkInv /\ LockInv
        /\ DecisionInv /\ ReviewInv /\ DeleteInv /\ DecidedInv /\ RaceInv /\ ThreadInv
  BY DEF IInv
<1>1. TypeOK'
  BY <1>0 DEF DeleteThread, Start, TypeOK, tables, snaps, ghosts, Points,
     TxPoints, TurnPoints, DeletePoints, Operations
<1>2. Agreement'
  BY <1>0 DEF DeleteThread, Start, Agreement, tables
<1>3. ControlInv'
  BY <1>0 DEF DeleteThread, Start, ControlInv, PointsOf, DeletePoints,
     TypeOK
<1>4. HistoryInv'
  BY <1>0, OpAt DEF DeleteThread, Start, HistoryInv, tables, ghosts,
     AfterPoints
<1>5. LinkInv'
  <2>1. q \notin approvedBy
    BY <1>0 DEF DeleteThread, Start, HistoryInv, AfterPoints, Ended
  <2> QED
    BY <1>0, <2>1 DEF DeleteThread, Start, LinkInv, tables, ghosts, Exists, TypeOK
<1>6. LockInv'
  BY <1>0, OpAt DEF DeleteThread, Start, InTx, LockInv, tables, Exists,
     TxPoints, TurnPoints, DecisionPoints
<1>7. DecisionInv'
  BY <1>0, OpAt DEF DeleteThread, Start, DecisionInv, Decides
<1>8. ReviewInv'
  BY <1>0, OpAt DEF DeleteThread, Start, ReviewInv
<1>9. DeleteInv'
  BY <1>0, NoneAssumption, OpAt DEF DeleteThread, Start, EventLoopFree,
     InTx, DeleteInv, TxPoints, TurnPoints, DecisionPoints, DropPoints, HeldDropped,
     RecordsDropped, ApprovalsDropped, MessagesDropped, HeldRead, LockInv
<1>10. ThreadInv'
  BY <1>0, OpAt DEF DeleteThread, Start, ThreadInv, tables, ThreadMessages,
     SharesThread, HistoryInv
<1>11. DecidedInv' /\ RaceInv'
  <2>1. DecidedInv'
    BY <1>0 DEF DeleteThread, Start, tables, TypeOK, DecidedInv, Decides
  <2>2. \A d \in Requests : Deletes(d)' => d = q
    BY <1>0 DEF DeleteThread, Start, EventLoopFree, Deletes, InTx, TypeOK
  <2>3. pc'[q] = "thread"
    BY <1>0 DEF DeleteThread, Start, TypeOK
  <2> QED
    BY <2>1, <2>2, <2>3 DEF RaceInv, HeldRead, MessagesDropped
<1> QED
  BY <1>1, <1>2, <1>3, <1>4, <1>5, <1>6, <1>7, <1>8, <1>9, <1>10, <1>11 DEF IInv

(* ROLLBACK gives back every lock and changes no row.                      *)
LEMMA RollbackStep ==
  ASSUME IInv, NEW q \in Requests, InTx(q) \/ pc[q] = "send", Rollback(q)
  PROVE  IInv'
<1>0. TypeOK /\ Agreement /\ ControlInv /\ HistoryInv /\ LinkInv /\ LockInv
        /\ DecisionInv /\ ReviewInv /\ DeleteInv /\ DecidedInv /\ RaceInv /\ ThreadInv
  BY DEF IInv
<1>1. TypeOK'
  BY <1>0 DEF Rollback, Released, Goto, TypeOK, tables, asked, snaps,
     ghosts, Points, Ended
<1>2. Agreement' /\ LinkInv'
  BY <1>0 DEF Rollback, Agreement, tables, LinkInv, asked, ghosts, Exists
<1>3. ControlInv'
  BY <1>0, OpAt DEF Rollback, Goto, ControlInv, asked, PointsOf,
     Operations, TxPoints, TurnPoints, DecisionPoints, Ended, TypeOK, InTx
<1>4. HistoryInv'
  BY <1>0 DEF Rollback, Goto, HistoryInv, tables, asked, ghosts,
     AfterPoints, Ended
<1>5. LockInv'
  BY <1>0 DEF Rollback, Released, Goto, LockInv, tables, Exists, InTx
<1>6. DecisionInv'
  BY <1>0, RowFacts, NoneAssumption, OpAt DEF Rollback, Released, Goto,
     DecisionInv, asked, Decides, TypeOK
<1>7. ReviewInv'
  BY <1>0, NoneAssumption DEF Rollback, Released, ReviewInv, asked
<1>8. DeleteInv'
  BY <1>0, RowFacts, NoneAssumption DEF Rollback, Released, Goto,
     DeleteInv, tables, asked, snaps, ghosts, Exists, InTx, TxPoints, TurnPoints,
     DecisionPoints, DeletePoints, HeldDropped, RecordsDropped,
     ApprovalsDropped, MessagesDropped, HeldRead, TypeOK
<1>9. ThreadInv'
  BY <1>0 DEF Rollback, Goto, ThreadInv, tables, asked, ThreadMessages,
     SharesThread
<1>10. DecidedInv' /\ RaceInv'
  BY <1>0, RaceMoved DEF Rollback, Goto, tables, asked, Exists, Ended
<1> QED
  BY <1>1, <1>2, <1>3, <1>4, <1>5, <1>6, <1>7, <1>8, <1>9, <1>10 DEF IInv

(* The first UPDATE of a decision takes the held reply's row.              *)
LEMMA UpdateHeldStep ==
  ASSUME IInv, NEW q \in Requests, UpdateHeld(q)
  PROVE  IInv'
<1>0. TypeOK /\ Agreement /\ ControlInv /\ HistoryInv /\ LinkInv /\ LockInv
        /\ DecisionInv /\ ReviewInv /\ DeleteInv /\ DecidedInv /\ RaceInv /\ ThreadInv
  BY DEF IInv
<1>1. TypeOK'
  BY <1>0 DEF UpdateHeld, UpdateRow, Goto, TypeOK, tables, asked, snaps,
     ghosts, Points, TxPoints, TurnPoints, DecisionPoints
<1>2. Agreement' /\ LinkInv'
  BY <1>0 DEF UpdateHeld, UpdateRow, Exists, Agreement, tables, LinkInv,
     asked, ghosts
<1>3. ControlInv'
  BY <1>0, OpAt DEF UpdateHeld, UpdateRow, Goto, ControlInv, asked, PointsOf,
     Operations, DecisionPoints, DeletePoints, Ended, TypeOK, TurnPoints
<1>4. HistoryInv'
  BY <1>0 DEF UpdateHeld, UpdateRow, Goto, HistoryInv, tables, asked,
     ghosts, AfterPoints, Ended
<1>5. LockInv'
  BY <1>0 DEF UpdateHeld, UpdateRow, Goto, Exists, LockInv, tables, InTx,
     TxPoints, TurnPoints, DecisionPoints
<1>6. DecisionInv'
  BY <1>0, RowFacts, NoneAssumption, OpAt DEF UpdateHeld, UpdateRow, Free,
     Goto, DecisionInv, asked, Decides, TypeOK
<1>7. ReviewInv'
  BY <1>0, OpAt DEF UpdateHeld, UpdateRow, ReviewInv, asked
<1>8. DeleteInv'
  BY <1>0, NoneAssumption, OpAt DEF UpdateHeld, UpdateRow, Free, Goto,
     Exists, DeleteInv, tables, asked, snaps, ghosts, InTx, HeldDropped,
     RecordsDropped, ApprovalsDropped, MessagesDropped, HeldRead
<1>9. ThreadInv'
  BY <1>0 DEF UpdateHeld, UpdateRow, Goto, ThreadInv, tables, asked,
     ThreadMessages, SharesThread
<1>10. DecidedInv' /\ RaceInv'
  <2>1. op[q] # "delete"
    BY <1>0, OpAt DEF UpdateHeld, Decides
  <2> QED
    BY <1>0, <2>1, RaceMoved DEF UpdateHeld, UpdateRow, Goto, tables, asked, Exists
<1> QED
  BY <1>1, <1>2, <1>3, <1>4, <1>5, <1>6, <1>7, <1>8, <1>9, <1>10 DEF IInv

(* The INSERT of the message shares the thread's row.                      *)
LEMMA InsertMessageStep ==
  ASSUME IInv, NEW q \in Requests, InsertMessage(q)
  PROVE  IInv'
<1>0. TypeOK /\ Agreement /\ ControlInv /\ HistoryInv /\ LinkInv /\ LockInv
        /\ DecisionInv /\ ReviewInv /\ DeleteInv /\ DecidedInv /\ RaceInv /\ ThreadInv
  BY DEF IInv
<1>1. TypeOK'
  BY <1>0 DEF InsertMessage, Goto, TypeOK, tables, asked, snaps, ghosts,
     Points, TxPoints, TurnPoints, DecisionPoints
<1>2. Agreement' /\ LinkInv' /\ ReviewInv'
  BY <1>0 DEF InsertMessage, Agreement, tables, LinkInv, asked, ghosts, Exists,
     ReviewInv
<1>3. ControlInv'
  BY <1>0, OpAt DEF InsertMessage, Goto, ControlInv, asked, PointsOf, Operations,
     DecisionPoints, DeletePoints, Ended, TypeOK, TurnPoints
<1>4. HistoryInv'
  BY <1>0 DEF InsertMessage, Goto, HistoryInv, tables, asked, ghosts,
     AfterPoints, Ended
<1>5. LockInv'
  BY <1>0 DEF InsertMessage, Goto, LockInv, tables, Exists, InTx, TxPoints, TurnPoints,
     DecisionPoints
<1>6. DecisionInv'
  BY <1>0 DEF InsertMessage, Goto, DecisionInv, asked, Decides
<1>7. DeleteInv'
  BY <1>0, OpAt DEF InsertMessage, Goto, DeleteInv, tables, asked, snaps,
     ghosts, Exists, InTx, HeldDropped, RecordsDropped, ApprovalsDropped, MessagesDropped, HeldRead
<1>8. ThreadInv'
  BY <1>0 DEF InsertMessage, Goto, ThreadInv, tables, asked,
     ThreadMessages, SharesThread
<1>9. DecidedInv' /\ RaceInv'
  <2>1. op[q] # "delete"
    BY <1>0, OpAt DEF InsertMessage, Decides
  <2> QED
    BY <1>0, <2>1, RaceMoved DEF InsertMessage, Goto, tables, asked, Exists
<1> QED
  BY <1>1, <1>2, <1>3, <1>4, <1>5, <1>6, <1>7, <1>8, <1>9 DEF IInv

(* A decision that has the held reply finds its audit record.              *)
LEMMA UpdateRecordStep ==
  ASSUME IInv, NEW q \in Requests, UpdateRecord(q)
  PROVE  IInv'
<1>0. TypeOK /\ Agreement /\ ControlInv /\ HistoryInv /\ LinkInv /\ LockInv
        /\ DecisionInv /\ ReviewInv /\ DeleteInv /\ DecidedInv /\ RaceInv /\ ThreadInv
  BY DEF IInv
<1>1. TypeOK'
  BY <1>0 DEF UpdateRecord, UpdateRow, Goto, TypeOK, tables, asked, snaps,
     ghosts, Points, TxPoints, TurnPoints, DecisionPoints
<1>2. Agreement' /\ LinkInv'
  BY <1>0 DEF UpdateRecord, UpdateRow, Exists, Agreement, tables, LinkInv,
     asked, ghosts
<1>3. ControlInv'
  BY <1>0 DEF UpdateRecord, UpdateRow, Goto, Decides, ControlInv, asked,
     PointsOf, DecisionPoints, TypeOK
<1>4. HistoryInv'
  BY <1>0 DEF UpdateRecord, UpdateRow, Goto, HistoryInv, tables, asked,
     ghosts, AfterPoints, Ended
<1>5. LockInv'
  BY <1>0 DEF UpdateRecord, UpdateRow, Goto, Exists, LockInv, tables, InTx,
     TxPoints, TurnPoints, DecisionPoints
<1>6. DecisionInv'
  BY <1>0, RowFacts, NoneAssumption, OpAt DEF UpdateRecord, UpdateRow,
     Goto, Exists, Decides, DecisionInv, asked, TypeOK, LockInv, Agreement
<1>7. ReviewInv'
  BY <1>0, NoneAssumption DEF UpdateRecord, UpdateRow, ReviewInv, asked, Decides
<1>8. DeleteInv'
  BY <1>0, NoneAssumption, OpAt DEF UpdateRecord, UpdateRow, Free, Goto,
     Exists, DeleteInv, tables, asked, snaps, ghosts, InTx, HeldDropped,
     RecordsDropped, ApprovalsDropped, MessagesDropped, HeldRead
<1>9. ThreadInv'
  BY <1>0 DEF UpdateRecord, UpdateRow, Goto, ThreadInv, tables, asked,
     ThreadMessages, SharesThread
<1>10. DecidedInv' /\ RaceInv'
  <2>1. op[q] # "delete"
    BY <1>0, OpAt DEF UpdateRecord, Decides
  <2> QED
    BY <1>0, <2>1, RaceMoved DEF UpdateRecord, UpdateRow, Goto, tables, asked, Exists
<1> QED
  BY <1>1, <1>2, <1>3, <1>4, <1>5, <1>6, <1>7, <1>8, <1>9, <1>10 DEF IInv

(* A decision that has both rows finds its pending approval.               *)
LEMMA UpdateApprovalStep ==
  ASSUME IInv, NEW q \in Requests, UpdateApproval(q)
  PROVE  IInv'
<1>0. TypeOK /\ Agreement /\ ControlInv /\ HistoryInv /\ LinkInv /\ LockInv
        /\ DecisionInv /\ ReviewInv /\ DeleteInv /\ DecidedInv /\ RaceInv /\ ThreadInv
  BY DEF IInv
<1>1. TypeOK'
  BY <1>0 DEF UpdateApproval, UpdateRow, Goto, TypeOK, tables, asked,
     snaps, ghosts, Points, TxPoints, TurnPoints, DecisionPoints
<1>2. Agreement' /\ LinkInv'
  BY <1>0 DEF UpdateApproval, UpdateRow, Exists, Agreement, tables,
     LinkInv, asked, ghosts
<1>3. ControlInv'
  BY <1>0, OpAt DEF UpdateApproval, UpdateRow, Goto, ControlInv, asked, PointsOf,
     Operations, DecisionPoints, DeletePoints, TypeOK, TurnPoints
<1>4. HistoryInv'
  BY <1>0 DEF UpdateApproval, UpdateRow, Goto, HistoryInv, tables, asked,
     ghosts, AfterPoints, Ended
<1>5. LockInv'
  BY <1>0 DEF UpdateApproval, UpdateRow, Goto, Exists, LockInv, tables,
     InTx, TxPoints, TurnPoints, DecisionPoints
<1>6. DecisionInv'
  BY <1>0, RowFacts, OpAt DEF UpdateApproval, UpdateRow, Goto, Exists,
     DecisionInv, asked, Decides, TypeOK, LockInv, Agreement
<1>7. ReviewInv'
  BY <1>0, NoneAssumption, OpAt DEF UpdateApproval, UpdateRow, ReviewInv,
     asked
<1>8. DeleteInv'
  BY <1>0, NoneAssumption, OpAt DEF UpdateApproval, UpdateRow, Free, Goto,
     Exists, DeleteInv, tables, asked, snaps, ghosts, InTx, HeldDropped,
     RecordsDropped, ApprovalsDropped, MessagesDropped, HeldRead
<1>9. ThreadInv'
  BY <1>0, OpAt DEF UpdateApproval, UpdateRow, Goto, ThreadInv, tables, asked,
     ThreadMessages, SharesThread
<1>10. DecidedInv' /\ RaceInv'
  <2>1. op[q] # "delete"
    BY <1>0, OpAt DEF UpdateApproval, Decides
  <2> QED
    BY <1>0, <2>1, RaceMoved DEF UpdateApproval, UpdateRow, Goto, tables, asked, Exists
<1> QED
  BY <1>1, <1>2, <1>3, <1>4, <1>5, <1>6, <1>7, <1>8, <1>9, <1>10 DEF IInv

(* The commit of an approval settles all three rows and the message.       *)
LEMMA CommitApprovalStep ==
  ASSUME IInv, NEW q \in Requests, CommitApproval(q)
  PROVE  IInv'
<1>0. TypeOK /\ Agreement /\ ControlInv /\ HistoryInv /\ LinkInv /\ LockInv
        /\ DecisionInv /\ ReviewInv /\ DeleteInv /\ DecidedInv /\ RaceInv /\ ThreadInv
  BY DEF IInv
<1>1. TypeOK'
  BY <1>0 DEF CommitApproval, Settled, Outcome, Released, Goto, TypeOK,
     asked, snaps, Status, Points, AfterPoints
<1>2. Agreement'
  BY <1>0, RowFacts DEF CommitApproval, Settled, Agreement, DecisionInv,
     Decides
<1>3. ControlInv'
  BY <1>0 DEF CommitApproval, Goto, ControlInv, asked, PointsOf,
     AfterPoints, TypeOK
<1>4. HistoryInv'
  BY <1>0 DEF CommitApproval, Goto, HistoryInv, asked, AfterPoints, Ended,
     TypeOK
<1>5. LinkInv'
  BY <1>0, RowFacts, NoneAssumption DEF CommitApproval, Settled, Outcome,
     LinkInv, asked, Exists, DecisionInv, Decides
<1>6. LockInv'
  BY <1>0 DEF CommitApproval, Settled, Released, Goto, LockInv, Exists,
     InTx
<1>7. DecisionInv'
  BY <1>0, RowFacts, NoneAssumption, OpAt DEF CommitApproval, Released,
     Goto, DecisionInv, asked, Decides, TypeOK
<1>8. ReviewInv'
  BY <1>0, NoneAssumption DEF CommitApproval, Released, ReviewInv, asked
<1>9. DeleteInv'
  BY <1>0, RowFacts, NoneAssumption DEF CommitApproval, Settled, Outcome,
     Released, Goto, DeleteInv, asked, snaps, Exists, InTx, DropPoints,
     HeldDropped, RecordsDropped, ApprovalsDropped, MessagesDropped, HeldRead, TypeOK, LockInv, Ended,
     AfterPoints, HistoryInv
<1>10. ThreadInv'
  BY <1>0 DEF CommitApproval, Goto, ThreadInv, tables, asked,
     ThreadMessages, SharesThread
<1>11. DecidedInv' /\ RaceInv'
  <2>1. /\ q \in Requests /\ Decides(q) /\ op[q] = "approve" /\ target[q] \in Replies
        /\ pc' = [pc EXCEPT ![q] = "send"]
        /\ messages' = messages \union {q}
        /\ UNCHANGED <<unlinked, op, target, snaps>>
    BY <1>0, OpAt DEF CommitApproval, Goto, Decides, asked
  <2>2. \A r \in Replies : /\ Exists(Held(r))' => Exists(Held(r))
                           /\ status[Held(r)] # "absent" => status'[Held(r)] # "absent"
    BY <1>0, RowFacts, NoneAssumption DEF CommitApproval, Settled, Outcome, Exists,
       LockInv
  <2>3. DecidedInv'
    BY <1>0, <2>1, <2>2, OpAt DEF DecidedInv, Decides
  <2>4. \A d \in Requests : HasReadTheDecided(d) => HasReadTheDecided(d)'
    BY <2>1, <2>2, OwnerChatAssumption DEF HasReadTheDecided, Decides, snaps
  <2>5. \A d \in Requests : Deletes(d)' => Deletes(d) /\ pc'[d] = pc[d] /\ d # q
    BY <1>0, <2>1 DEF Deletes, InTx, TypeOK
  <2>6. ASSUME NEW d \in Requests, Deletes(d), MessagesDropped(d), d # q
        PROVE  target[q] \notin OwnerChat
    <3> SUFFICES ASSUME target[q] \in OwnerChat PROVE FALSE
      OBVIOUS
    <3>1. lock[Held(target[q])] = q /\ Exists(Held(target[q]))
      BY <1>0, <2>1, RowFacts, NoneAssumption DEF CommitApproval, DecisionInv, LockInv
    <3>2. target[q] \in snapHeld[d]
      BY <1>0, <2>1, <2>6, <3>1 DEF RaceInv, HasReadTheDecided, HeldRead,
         MessagesDropped
    <3>3. lock[Held(target[q])] = d
      BY <1>0, <2>6, <3>1, <3>2 DEF DeleteInv, Deletes, HeldDropped
    <3> QED
      BY <2>6, <3>1, <3>3
  <2>7. ASSUME NEW d \in Requests, Deletes(d), MessagesDropped(d), d # q
        PROVE  HasDroppedTheApproved(d)'
    <3>1. HasDroppedTheApproved(d)
      BY <1>0, <2>7 DEF RaceInv
    <3> QED
      BY <2>1, <2>6, <2>7, <3>1 DEF HasDroppedTheApproved, snaps
  <2> QED
    BY <1>0, <2>1, <2>3, <2>4, <2>5, <2>7 DEF RaceInv, HeldRead, MessagesDropped,
       snaps
<1> QED
  BY <1>1, <1>2, <1>3, <1>4, <1>5, <1>6, <1>7, <1>8, <1>9, <1>10, <1>11 DEF IInv

(* The commit of a rejection settles all three rows.                       *)
LEMMA CommitRejectionStep ==
  ASSUME IInv, NEW q \in Requests, CommitRejection(q)
  PROVE  IInv'
<1>0. TypeOK /\ Agreement /\ ControlInv /\ HistoryInv /\ LinkInv /\ LockInv
        /\ DecisionInv /\ ReviewInv /\ DeleteInv /\ DecidedInv /\ RaceInv /\ ThreadInv
  BY DEF IInv
<1>1. TypeOK'
  BY <1>0 DEF CommitRejection, Settled, Outcome, Released, Goto, TypeOK,
     asked, snaps, ghosts, Status, Points, Ended
<1>2. Agreement'
  BY <1>0, RowFacts DEF CommitRejection, Settled, Agreement, DecisionInv,
     Decides
<1>3. ControlInv'
  BY <1>0 DEF CommitRejection, Goto, ControlInv, asked, PointsOf, Ended,
     TypeOK
<1>4. HistoryInv'
  BY <1>0 DEF CommitRejection, Goto, HistoryInv, asked, ghosts, AfterPoints
<1>5. LinkInv'
  BY <1>0, RowFacts DEF CommitRejection, Settled, Outcome, LinkInv, ghosts,
     asked, Exists
<1>6. LockInv'
  BY <1>0 DEF CommitRejection, Settled, Released, Goto, LockInv, Exists,
     InTx
<1>7. DecisionInv'
  BY <1>0, RowFacts, NoneAssumption, OpAt DEF CommitRejection, Released,
     Goto, DecisionInv, asked, Decides, TypeOK
<1>8. ReviewInv'
  BY <1>0, NoneAssumption DEF CommitRejection, Released, ReviewInv, asked
<1>9. DeleteInv'
  BY <1>0, RowFacts, NoneAssumption DEF CommitRejection, Settled, Outcome,
     Released, Goto, DeleteInv, asked, snaps, ghosts, Exists, InTx,
     HeldDropped, RecordsDropped, ApprovalsDropped, MessagesDropped, HeldRead, TypeOK, LockInv
<1>10. ThreadInv'
  BY <1>0 DEF CommitRejection, Goto, ThreadInv, tables, asked,
     ThreadMessages, SharesThread
<1>11. DecidedInv' /\ RaceInv'
  <2>1. \A r \in Replies : /\ Exists(Held(r))' => Exists(Held(r))
                           /\ status[Held(r)] # "absent" => status'[Held(r)] # "absent"
    BY <1>0, RowFacts, NoneAssumption DEF CommitRejection, Settled, Outcome, Exists,
       LockInv
  <2> QED
    BY <1>0, <2>1, RaceMoved DEF CommitRejection, Goto, asked
<1> QED
  BY <1>1, <1>2, <1>3, <1>4, <1>5, <1>6, <1>7, <1>8, <1>9, <1>10, <1>11 DEF IInv

(* The telegram call follows the commit.                                   *)
LEMMA SendStep ==
  ASSUME IInv, NEW q \in Requests, Send(q)
  PROVE  IInv'
<1>0. TypeOK /\ Agreement /\ ControlInv /\ HistoryInv /\ LinkInv /\ LockInv
        /\ DecisionInv /\ ReviewInv /\ DeleteInv /\ DecidedInv /\ RaceInv /\ ThreadInv
  BY DEF IInv
<1>1. TypeOK'
  BY <1>0 DEF Send, Goto, TypeOK, tables, asked, snaps, Points, AfterPoints
<1>2. Agreement' /\ LinkInv' /\ ReviewInv'
  BY <1>0 DEF Send, Agreement, tables, LinkInv, asked, ghosts, Exists, ReviewInv
<1>3. ControlInv'
  BY <1>0, OpAt DEF Send, Goto, ControlInv, asked, PointsOf, Operations,
     DecisionPoints, DeletePoints, AfterPoints, Ended, TypeOK, TurnPoints
<1>4. HistoryInv'
  BY <1>0 DEF Send, Goto, HistoryInv, tables, asked, AfterPoints, TypeOK
<1>5. LockInv'
  BY <1>0, OpAt DEF Send, Goto, LockInv, tables, Exists, InTx, TxPoints, TurnPoints,
     DecisionPoints
<1>6. DecisionInv'
  BY <1>0 DEF Send, Goto, DecisionInv, asked, Decides
<1>7. DeleteInv'
  BY <1>0, OpAt DEF Send, Goto, DeleteInv, tables, asked, snaps, Exists,
     InTx, HeldDropped, RecordsDropped, ApprovalsDropped, MessagesDropped, HeldRead
<1>8. ThreadInv'
  BY <1>0 DEF Send, Goto, ThreadInv, tables, asked, ThreadMessages,
     SharesThread
<1>9. DecidedInv' /\ RaceInv'
  <2>1. op[q] # "delete"
    BY <1>0, OpAt DEF Send, Decides
  <2> QED
    BY <1>0, <2>1, RaceMoved DEF Send, Goto, tables, asked, Exists
<1> QED
  BY <1>1, <1>2, <1>3, <1>4, <1>5, <1>6, <1>7, <1>8, <1>9 DEF IInv

(* The memory update changes none of these tables.                         *)
LEMMA UpdateMemoryStep ==
  ASSUME IInv, NEW q \in Requests, UpdateMemory(q)
  PROVE  IInv'
<1>0. TypeOK /\ Agreement /\ ControlInv /\ HistoryInv /\ LinkInv /\ LockInv
        /\ DecisionInv /\ ReviewInv /\ DeleteInv /\ DecidedInv /\ RaceInv /\ ThreadInv
  BY DEF IInv
<1>1. TypeOK'
  BY <1>0 DEF UpdateMemory, Goto, TypeOK, tables, asked, snaps, ghosts,
     Points, Ended
<1>2. Agreement' /\ LinkInv' /\ ReviewInv'
  BY <1>0 DEF UpdateMemory, Agreement, tables, LinkInv, asked, ghosts, Exists,
     ReviewInv
<1>3. ControlInv'
  BY <1>0 DEF UpdateMemory, Goto, ControlInv, asked, PointsOf, Operations,
     Ended, TypeOK
<1>4. HistoryInv'
  BY <1>0 DEF UpdateMemory, Goto, HistoryInv, tables, asked, ghosts,
     AfterPoints, Ended
<1>5. LockInv'
  BY <1>0, OpAt DEF UpdateMemory, Goto, LockInv, tables, Exists, InTx,
     TxPoints, TurnPoints, DecisionPoints
<1>6. DecisionInv'
  BY <1>0 DEF UpdateMemory, Goto, DecisionInv, asked, Decides
<1>7. DeleteInv'
  BY <1>0, OpAt DEF UpdateMemory, Goto, DeleteInv, tables, asked, snaps,
     ghosts, Exists, InTx, HeldDropped, RecordsDropped, ApprovalsDropped, MessagesDropped, HeldRead
<1>8. ThreadInv'
  BY <1>0 DEF UpdateMemory, Goto, ThreadInv, tables, asked, ThreadMessages,
     SharesThread
<1>9. DecidedInv' /\ RaceInv'
  <2>1. op[q] # "delete"
    BY <1>0, OpAt DEF UpdateMemory, Decides
  <2> QED
    BY <1>0, <2>1, RaceMoved DEF UpdateMemory, Goto, tables, asked, Exists
<1> QED
  BY <1>1, <1>2, <1>3, <1>4, <1>5, <1>6, <1>7, <1>8, <1>9 DEF IInv

(* A review takes the row of its record.                                   *)
LEMMA LabelRecordStep ==
  ASSUME IInv, NEW q \in Requests, LabelRecord(q)
  PROVE  IInv'
<1>0. TypeOK /\ Agreement /\ ControlInv /\ HistoryInv /\ LinkInv /\ LockInv
        /\ DecisionInv /\ ReviewInv /\ DeleteInv /\ DecidedInv /\ RaceInv /\ ThreadInv
  BY DEF IInv
<1>1. TypeOK'
  BY <1>0 DEF LabelRecord, UpdateRow, Goto, TypeOK, tables, asked, snaps,
     ghosts, Points, TxPoints, TurnPoints, DecisionPoints
<1>2. Agreement' /\ LinkInv'
  BY <1>0 DEF LabelRecord, UpdateRow, Exists, Agreement, tables, LinkInv,
     asked, ghosts
<1>3. ControlInv'
  BY <1>0 DEF LabelRecord, UpdateRow, Goto, ControlInv, asked, PointsOf,
     TypeOK
<1>4. HistoryInv'
  BY <1>0 DEF LabelRecord, UpdateRow, Goto, HistoryInv, tables, asked,
     ghosts, AfterPoints
<1>5. LockInv'
  BY <1>0 DEF LabelRecord, UpdateRow, Goto, Exists, LockInv, tables, InTx,
     TxPoints, TurnPoints, DecisionPoints
<1>6. DecisionInv'
  BY <1>0, NoneAssumption DEF LabelRecord, UpdateRow, Free, Goto,
     DecisionInv, asked, Decides
<1>7. ReviewInv'
  BY <1>0 DEF LabelRecord, UpdateRow, ReviewInv, asked
<1>8. DeleteInv'
  BY <1>0, NoneAssumption DEF LabelRecord, UpdateRow, Free, Goto, Exists,
     DeleteInv, tables, asked, snaps, ghosts, InTx, HeldDropped,
     RecordsDropped, ApprovalsDropped, MessagesDropped, HeldRead
<1>9. ThreadInv'
  BY <1>0 DEF LabelRecord, UpdateRow, Goto, ThreadInv, tables, asked,
     ThreadMessages, SharesThread
<1>10. DecidedInv' /\ RaceInv'
  <2>1. op[q] # "delete"
    BY <1>0, OpAt DEF LabelRecord, Decides
  <2> QED
    BY <1>0, <2>1, RaceMoved DEF LabelRecord, UpdateRow, Goto, tables, asked, Exists
<1> QED
  BY <1>1, <1>2, <1>3, <1>4, <1>5, <1>6, <1>7, <1>8, <1>9, <1>10 DEF IInv

(* The commit of a review leaves every decision as it is.                  *)
LEMMA CommitReviewStep ==
  ASSUME IInv, NEW q \in Requests, CommitReview(q)
  PROVE  IInv'
<1>0. TypeOK /\ Agreement /\ ControlInv /\ HistoryInv /\ LinkInv /\ LockInv
        /\ DecisionInv /\ ReviewInv /\ DeleteInv /\ DecidedInv /\ RaceInv /\ ThreadInv
  BY DEF IInv
<1>1. TypeOK'
  BY <1>0, OpAt DEF CommitReview, Released, Goto, TypeOK, asked, snaps,
     ghosts, Points, Ended
<1>2. Agreement' /\ LinkInv'
  BY <1>0 DEF CommitReview, Agreement, LinkInv, asked, ghosts, Exists
<1>3. ControlInv'
  BY <1>0 DEF CommitReview, Goto, ControlInv, asked, PointsOf, Ended,
     TypeOK
<1>4. HistoryInv'
  BY <1>0 DEF CommitReview, Goto, HistoryInv, asked, ghosts, AfterPoints
<1>5. LockInv'
  BY <1>0 DEF CommitReview, Released, Goto, LockInv, Exists, InTx
<1>6. DecisionInv'
  BY <1>0, RowFacts, NoneAssumption, OpAt DEF CommitReview, Released, Goto,
     DecisionInv, asked, Decides
<1>7. ReviewInv'
  BY <1>0, NoneAssumption DEF CommitReview, Released, ReviewInv, asked
<1>8. DeleteInv'
  BY <1>0, RowFacts, NoneAssumption DEF CommitReview, Released, Goto,
     DeleteInv, asked, snaps, ghosts, Exists, InTx, HeldDropped,
     RecordsDropped, ApprovalsDropped, MessagesDropped, HeldRead, TypeOK
<1>9. ThreadInv'
  BY <1>0 DEF CommitReview, Goto, ThreadInv, tables, asked, ThreadMessages,
     SharesThread
<1>10. DecidedInv' /\ RaceInv'
  <2>1. op[q] # "delete"
    BY DEF CommitReview
  <2> QED
    BY <1>0, <2>1, RaceMoved DEF CommitReview, Goto, tables, asked, Exists
<1> QED
  BY <1>1, <1>2, <1>3, <1>4, <1>5, <1>6, <1>7, <1>8, <1>9, <1>10 DEF IInv

(* A deletion looks its thread up.                                         *)
LEMMA FindThreadStep ==
  ASSUME IInv, NEW q \in Requests, FindThread(q)
  PROVE  IInv'
<1>0. TypeOK /\ Agreement /\ ControlInv /\ HistoryInv /\ LinkInv /\ LockInv
        /\ DecisionInv /\ ReviewInv /\ DeleteInv /\ DecidedInv /\ RaceInv /\ ThreadInv
  BY DEF IInv
<1>1. TypeOK'
  BY <1>0 DEF FindThread, Goto, TypeOK, tables, asked, snaps, ghosts,
     Points, TxPoints, TurnPoints, DeletePoints, Ended
<1>2. Agreement' /\ LinkInv' /\ ReviewInv'
  BY <1>0 DEF FindThread, Agreement, tables, LinkInv, asked, ghosts, Exists,
     ReviewInv
<1>3. ControlInv'
  BY <1>0, OpAt DEF FindThread, Goto, ControlInv, asked, PointsOf, Operations,
     DecisionPoints, DeletePoints, AfterPoints, Ended, TypeOK, TurnPoints
<1>4. HistoryInv'
  BY <1>0 DEF FindThread, Goto, HistoryInv, tables, asked, ghosts,
     AfterPoints, Ended, TypeOK
<1>5. LockInv'
  BY <1>0, OpAt, RowFacts DEF FindThread, Goto, LockInv, tables, Exists,
     InTx, TxPoints, TurnPoints, DecisionPoints, TypeOK, DeleteInv, DropPoints
<1>6. DecisionInv'
  BY <1>0 DEF FindThread, Goto, DecisionInv, asked, Decides, TypeOK
<1>7. DeleteInv'
  BY <1>0 DEF FindThread, Goto, DeleteInv, tables, asked, snaps, ghosts,
     Exists, InTx, TxPoints, TurnPoints, DecisionPoints, DeletePoints, DropPoints,
     HeldDropped, RecordsDropped, ApprovalsDropped, MessagesDropped, HeldRead, TypeOK
<1>8. ThreadInv'
  BY <1>0 DEF FindThread, Goto, ThreadInv, tables, asked, ThreadMessages,
     SharesThread, TypeOK
<1>9. DecidedInv' /\ RaceInv'
  <2>1. op[q] = "delete" /\ InTx(q)
    BY <1>0, OpAt DEF FindThread, DeletePoints, InTx, TxPoints
  <2>2. CASE threadOpen
    BY <1>0, <2>1, <2>2, DeletionMoved DEF FindThread, Goto, tables, asked, snaps,
       DeletePoints, HeldRead, TypeOK
  <2>3. CASE ~threadOpen
    BY <1>0, <2>3, RaceMoved DEF FindThread, Goto, tables, asked, Exists, Ended
  <2> QED
    BY <2>2, <2>3
<1> QED
  BY <1>1, <1>2, <1>3, <1>4, <1>5, <1>6, <1>7, <1>8, <1>9 DEF IInv

(* The messages a deletion reads belong to replies of the owner chat.      *)
LEMMA ReadMessagesStep ==
  ASSUME IInv, NEW q \in Requests, ReadMessages(q)
  PROVE  IInv'
<1>0. TypeOK /\ Agreement /\ ControlInv /\ HistoryInv /\ LinkInv /\ LockInv
        /\ DecisionInv /\ ReviewInv /\ DeleteInv /\ DecidedInv /\ RaceInv /\ ThreadInv
  BY DEF IInv
<1>1. TypeOK'
  BY <1>0 DEF ReadMessages, Goto, ThreadMessages, TypeOK, tables, asked,
     ghosts, Points, TxPoints, TurnPoints, DeletePoints
<1>2. Agreement' /\ LinkInv' /\ ReviewInv'
  BY <1>0 DEF ReadMessages, Agreement, tables, LinkInv, asked, ghosts, Exists,
     ReviewInv
<1>3. ControlInv'
  BY <1>0, OpAt DEF ReadMessages, Goto, ControlInv, asked, PointsOf, Operations,
     DecisionPoints, DeletePoints, AfterPoints, Ended, TypeOK, TurnPoints
<1>4. HistoryInv'
  BY <1>0 DEF ReadMessages, Goto, HistoryInv, tables, asked, ghosts,
     AfterPoints, Ended
<1>5. LockInv'
  BY <1>0 DEF ReadMessages, Goto, LockInv, tables, Exists, InTx, TxPoints, TurnPoints,
     DeletePoints
<1>6. DecisionInv'
  BY <1>0 DEF ReadMessages, Goto, DecisionInv, asked, Decides
<1>7. DeleteInv'
  BY <1>0, NoneAssumption DEF ReadMessages, Goto, ThreadMessages,
     DeleteInv, tables, asked, ghosts, Exists, InTx, TxPoints, TurnPoints,
     DeletePoints, DropPoints, HeldDropped, RecordsDropped,
     ApprovalsDropped, MessagesDropped, HeldRead, TypeOK, LinkInv, HistoryInv
<1>8. ThreadInv'
  BY <1>0 DEF ReadMessages, Goto, ThreadMessages, ThreadInv, tables, asked,
     SharesThread
<1>9. DecidedInv' /\ RaceInv'
  <2>1. op[q] = "delete" /\ InTx(q)
    BY <1>0, OpAt DEF ReadMessages, DeletePoints, InTx, TxPoints
  <2> QED
    BY <1>0, <2>1, DeletionMoved DEF ReadMessages, Goto, tables, asked,
       DeletePoints, HeldRead, TypeOK
<1> QED
  BY <1>1, <1>2, <1>3, <1>4, <1>5, <1>6, <1>7, <1>8, <1>9 DEF IInv

(* The replies a deletion reads cover the records of the messages it read. *)
LEMMA ReadHeldStep ==
  ASSUME IInv, NEW q \in Requests, ReadHeld(q)
  PROVE  IInv'
<1>0. TypeOK /\ Agreement /\ ControlInv /\ HistoryInv /\ LinkInv /\ LockInv
        /\ DecisionInv /\ ReviewInv /\ DeleteInv /\ DecidedInv /\ RaceInv /\ ThreadInv
  BY DEF IInv
<1>1. TypeOK'
  BY <1>0, OwnerChatAssumption DEF ReadHeld, Goto, TypeOK, tables, asked,
     ghosts, Points, TxPoints, TurnPoints, DeletePoints
<1>2. Agreement' /\ LinkInv' /\ ReviewInv'
  BY <1>0 DEF ReadHeld, Exists, Agreement, tables, LinkInv, asked, ghosts,
     ReviewInv
<1>3. ControlInv'
  BY <1>0, OpAt DEF ReadHeld, Goto, ControlInv, asked, PointsOf, Operations,
     DecisionPoints, DeletePoints, AfterPoints, Ended, TypeOK, TurnPoints
<1>4. HistoryInv'
  BY <1>0 DEF ReadHeld, Goto, HistoryInv, tables, asked, ghosts,
     AfterPoints, Ended
<1>5. LockInv'
  BY <1>0 DEF ReadHeld, Goto, Exists, LockInv, tables, InTx, TxPoints, TurnPoints,
     DeletePoints
<1>6. DecisionInv'
  BY <1>0 DEF ReadHeld, Goto, DecisionInv, asked, Decides
<1>7. DeleteInv'
  BY <1>0, NoneAssumption DEF ReadHeld, Goto, Exists, DeleteInv, tables,
     asked, ghosts, InTx, TxPoints, TurnPoints, DeletePoints, DropPoints, HeldDropped,
     RecordsDropped, ApprovalsDropped, MessagesDropped, HeldRead, TypeOK, LinkInv, Agreement
<1>8. ThreadInv'
  BY <1>0 DEF ReadHeld, Goto, ThreadInv, tables, asked, ThreadMessages,
     SharesThread
<1>9. DecidedInv' /\ RaceInv'
  <2>1. op[q] = "delete" /\ InTx(q)
    BY <1>0, OpAt DEF ReadHeld, DeletePoints, InTx, TxPoints
  <2>2. DecidedInv'
    BY <1>0 DEF ReadHeld, tables, asked, DecidedInv, Decides
  <2>3. \A d \in Requests : Deletes(d)' => d = q
    BY <1>0, <2>1 DEF ReadHeld, Goto, RaceInv, Deletes, InTx, asked, TypeOK
  <2>4. HasReadTheDecided(q)'
    BY <1>0 DEF ReadHeld, tables, asked, HasReadTheDecided, Exists, Decides, TypeOK
  <2>5. ~MessagesDropped(q)' /\ pc'[q] # "commit"
    BY <1>0 DEF ReadHeld, Goto, MessagesDropped, TypeOK
  <2> QED
    BY <2>2, <2>3, <2>4, <2>5 DEF RaceInv
<1> QED
  BY <1>1, <1>2, <1>3, <1>4, <1>5, <1>6, <1>7, <1>8, <1>9 DEF IInv

(* A DELETE takes one more row of a reply the deletion has read.           *)
LEMMA DropRowStep ==
  ASSUME IInv, NEW q \in Requests, DropRow(q)
  PROVE  IInv'
<1>0. TypeOK /\ Agreement /\ ControlInv /\ HistoryInv /\ LinkInv /\ LockInv
        /\ DecisionInv /\ ReviewInv /\ DeleteInv /\ DecidedInv /\ RaceInv /\ ThreadInv
  BY DEF IInv
<1>1. TypeOK'
  BY <1>0 DEF DropRow, ToDrop, Selected, TypeOK, tables, asked, snaps,
     ghosts
<1>2. Agreement' /\ ControlInv' /\ HistoryInv' /\ LinkInv' /\ ThreadInv'
  BY <1>0 DEF DropRow, Exists, Agreement, tables, ControlInv, asked,
     HistoryInv, ghosts, LinkInv, ThreadInv, ThreadMessages, SharesThread
<1>3. LockInv'
  BY <1>0 DEF DropRow, ToDrop, Selected, Exists, LockInv, tables, InTx,
     TxPoints, TurnPoints, DeletePoints
<1>4. DecisionInv'
  BY <1>0, NoneAssumption, OpAt DEF DropRow, ToDrop, Selected, Free,
     DecisionInv, asked, Decides, DeletePoints
<1>5. ReviewInv'
  BY <1>0, OpAt DEF DropRow, ToDrop, Selected, ReviewInv, asked,
     DeletePoints
<1>6. DeleteInv'
  BY <1>0, RowFacts, NoneAssumption DEF DropRow, ToDrop, Selected, Free,
     Exists, DeleteInv, tables, asked, snaps, ghosts, InTx, HeldDropped,
     RecordsDropped, ApprovalsDropped, MessagesDropped, HeldRead, TypeOK
<1>7. DecidedInv' /\ RaceInv'
  BY <1>0 DEF DropRow, tables, asked, snaps, DecidedInv, RaceInv, Deletes, InTx,
     Decides, HeldRead, HasReadTheDecided, Exists, MessagesDropped,
     HasDroppedTheApproved
<1> QED
  BY <1>1, <1>2, <1>3, <1>4, <1>5, <1>6, <1>7 DEF IInv

(* A DELETE that has nothing left to take holds all it selects.            *)
LEMMA DropDoneStep ==
  ASSUME IInv, NEW q \in Requests, DropDone(q)
  PROVE  IInv'
<1>0. TypeOK /\ Agreement /\ ControlInv /\ HistoryInv /\ LinkInv /\ LockInv
        /\ DecisionInv /\ ReviewInv /\ DeleteInv /\ DecidedInv /\ RaceInv /\ ThreadInv
  BY DEF IInv
<1>1. TypeOK'
  BY <1>0 DEF DropDone, AfterDrop, Goto, DropPoints, TypeOK, tables, asked,
     snaps, ghosts, Points, TxPoints, TurnPoints, DeletePoints
<1>2. Agreement' /\ LinkInv' /\ ReviewInv'
  BY <1>0 DEF DropDone, Exists, Agreement, tables, LinkInv, asked, ghosts,
     ReviewInv
<1>3. ControlInv'
  BY <1>0, OpAt DEF DropDone, AfterDrop, Goto, DropPoints, ControlInv, asked,
     PointsOf, Operations, DecisionPoints, DeletePoints, AfterPoints,
     Ended, TypeOK, TurnPoints
<1>4. HistoryInv'
  BY <1>0 DEF DropDone, AfterDrop, Goto, DropPoints, HistoryInv, tables,
     asked, ghosts, AfterPoints, Ended
<1>5. LockInv'
  BY <1>0 DEF DropDone, AfterDrop, Goto, DropPoints, Exists, LockInv,
     tables, InTx, TxPoints, TurnPoints, DeletePoints
<1>6. DecisionInv'
  BY <1>0 DEF DropDone, AfterDrop, Goto, DropPoints, DecisionInv, asked,
     Decides
<1>7. DeleteInv'
  BY <1>0 DEF DropDone, ToDrop, Selected, AfterDrop, Goto, DropPoints,
     Exists, DeleteInv, tables, asked, snaps, ghosts, InTx, TxPoints, TurnPoints,
     DeletePoints, HeldDropped, RecordsDropped, ApprovalsDropped, MessagesDropped, HeldRead
<1>8. ThreadInv'
  BY <1>0 DEF DropDone, AfterDrop, Goto, DropPoints, ThreadInv, tables,
     asked, ThreadMessages, SharesThread
<1>9. DecidedInv' /\ RaceInv'
  <2>1. op[q] = "delete" /\ InTx(q)
    BY <1>0, OpAt DEF DropDone, DropPoints, DeletePoints, InTx, TxPoints
  <2>2. AfterDrop[pc[q]] \in DeletePoints \ {"unlink", "commit"} /\ HeldRead(q)
    BY DEF DropDone, DropPoints, AfterDrop, DeletePoints, HeldRead
  <2> QED
    BY <1>0, <2>1, <2>2, DeletionMoved DEF DropDone, Goto, tables, asked, snaps
<1> QED
  BY <1>1, <1>2, <1>3, <1>4, <1>5, <1>6, <1>7, <1>8, <1>9 DEF IInv

(* No record that stays points to a message that goes.                     *)
LEMMA DropMessagesStep ==
  ASSUME IInv, NEW q \in Requests, DropMessages(q)
  PROVE  IInv'
<1>0. TypeOK /\ Agreement /\ ControlInv /\ HistoryInv /\ LinkInv /\ LockInv
        /\ DecisionInv /\ ReviewInv /\ DeleteInv /\ DecidedInv /\ RaceInv /\ ThreadInv
  BY DEF IInv
<1>1. TypeOK'
  BY <1>0 DEF DropMessages, Goto, ThreadMessages, TypeOK, tables, asked,
     ghosts, Points, TxPoints, DeletePoints
<1>2. Agreement' /\ LinkInv' /\ ReviewInv'
  BY <1>0 DEF DropMessages, Exists, Agreement, tables, LinkInv, asked, ghosts,
     ReviewInv
<1>3. ControlInv'
  BY <1>0, OpAt DEF DropMessages, Goto, ControlInv, asked, PointsOf, Operations,
     DecisionPoints, DeletePoints, TypeOK, TurnPoints
<1>4. HistoryInv'
  BY <1>0 DEF DropMessages, Goto, HistoryInv, tables, asked, ghosts,
     AfterPoints, Ended
<1>5. LockInv'
  BY <1>0 DEF DropMessages, Goto, Exists, LockInv, tables, InTx, TxPoints,
     DeletePoints
<1>6. DecisionInv'
  BY <1>0, OpAt DEF DropMessages, Goto, DecisionInv, asked, Decides,
     DeletePoints
<1>7. DeleteInv'
  BY <1>0, RowFacts, NoneAssumption DEF DropMessages, ForeignKeyError,
     Goto, ThreadMessages, Exists, DeleteInv, tables, asked, ghosts, InTx,
     TxPoints, TurnPoints, DeletePoints, HeldDropped, RecordsDropped, ApprovalsDropped, MessagesDropped, HeldRead,
     TypeOK, LinkInv, HistoryInv
<1>8. ThreadInv'
  BY <1>0, OpAt DEF DropMessages, Goto, ThreadMessages, ThreadInv, tables,
     asked, SharesThread, DeletePoints
<1>9. DecidedInv' /\ RaceInv'
  <2>1. op[q] = "delete" /\ InTx(q) /\ HeldRead(q)
    BY <1>0, OpAt DEF DropMessages, DeletePoints, InTx, TxPoints, HeldRead
  <2>2. DecidedInv'
    BY <1>0 DEF DropMessages, tables, asked, DecidedInv, Decides
  <2>3. \A d \in Requests : Deletes(d)' => d = q
    BY <1>0, <2>1 DEF DropMessages, Goto, RaceInv, Deletes, InTx, asked, TypeOK
  <2>4. HasReadTheDecided(q)'
    BY <1>0, <2>1 DEF DropMessages, tables, asked, RaceInv, Deletes,
       HasReadTheDecided, Exists, Decides
  <2>5. HasDroppedTheApproved(q)'
    <3>1. \A m \in messages : target[m] \in OwnerChat => m \notin unlinked
      BY <1>0, OwnerChatAssumption, NoneAssumption
      DEF HistoryInv, ControlInv, TypeOK
    <3> QED
      BY <1>0, <3>1 DEF DropMessages, tables, asked, HasDroppedTheApproved,
         ThreadMessages, TypeOK
  <2>6. pc'[q] # "commit"
    BY <1>0 DEF DropMessages, Goto, TypeOK
  <2> QED
    BY <2>2, <2>3, <2>4, <2>5, <2>6 DEF RaceInv
<1> QED
  BY <1>1, <1>2, <1>3, <1>4, <1>5, <1>6, <1>7, <1>8, <1>9 DEF IInv

(* A turn of the owner arrives.                                            *)
LEMMA OwnerTurnStep ==
  ASSUME IInv, NEW q \in Requests, OwnerTurn(q)
  PROVE  IInv'
<1>0. TypeOK /\ Agreement /\ ControlInv /\ HistoryInv /\ LinkInv /\ LockInv
        /\ DecisionInv /\ ReviewInv /\ DeleteInv /\ DecidedInv /\ RaceInv /\ ThreadInv
  BY DEF IInv
<1>1. TypeOK'
  BY <1>0 DEF OwnerTurn, Start, TypeOK, tables, snaps, ghosts, Points,
     TxPoints, TurnPoints, Operations
<1>2. Agreement'
  BY <1>0 DEF OwnerTurn, Start, Agreement, tables
<1>3. ControlInv'
  BY <1>0 DEF OwnerTurn, Start, ControlInv, PointsOf, TurnPoints, TypeOK, tables
<1>4. HistoryInv'
  BY <1>0, OpAt DEF OwnerTurn, Start, HistoryInv, tables, ghosts, AfterPoints, Ended, TypeOK
<1>5. LinkInv'
  <2>1. q \notin approvedBy
    BY <1>0 DEF OwnerTurn, Start, HistoryInv, AfterPoints, Ended
  <2> QED
    BY <1>0, <2>1 DEF OwnerTurn, Start, LinkInv, tables, ghosts, Exists, TypeOK
<1>6. LockInv'
  BY <1>0, OpAt DEF OwnerTurn, Start, InTx, LockInv, tables, Exists,
     TxPoints, DecisionPoints, DeletePoints, TurnPoints
<1>7. DecisionInv' /\ ReviewInv'
  BY <1>0, IdleHoldsNothing DEF OwnerTurn, Start, DecisionInv, ReviewInv, Decides, TypeOK
<1>8. DeleteInv'
  BY <1>0, OpAt DEF OwnerTurn, Start, EventLoopFree, InTx, DeleteInv
<1>9. DecidedInv' /\ RaceInv'
  <2>1. DecidedInv'
    BY <1>0 DEF OwnerTurn, Start, tables, TypeOK, DecidedInv, Decides
  <2>2. \A d \in Requests : ~Deletes(d)'
    BY <1>0 DEF OwnerTurn, Start, EventLoopFree, Deletes, InTx, TypeOK
  <2> QED
    BY <2>1, <2>2 DEF RaceInv
<1>10. ThreadInv'
  BY <1>0, OpAt DEF OwnerTurn, Start, ThreadInv, tables, ThreadMessages,
     SharesThread, HistoryInv, Ended
<1> QED
  BY <1>1, <1>2, <1>3, <1>4, <1>5, <1>6, <1>7, <1>8, <1>9, <1>10 DEF IInv

(* The flush of a turn shares the thread's row, if there is one.           *)
LEMMA StoreTurnStep ==
  ASSUME IInv, NEW q \in Requests, StoreTurn(q) \/ StoreElsewhere(q)
  PROVE  IInv'
<1>0. TypeOK /\ Agreement /\ ControlInv /\ HistoryInv /\ LinkInv /\ LockInv
        /\ DecisionInv /\ ReviewInv /\ DeleteInv /\ DecidedInv /\ RaceInv /\ ThreadInv
  BY DEF IInv
<1> DEFINE p == IF threadOpen THEN "commit" ELSE "ok"
<1>1. /\ pc[q] = "store" /\ op[q] = "turn" /\ pc' = [pc EXCEPT ![q] = p]
      /\ UNCHANGED <<tables, lock, asked, snaps, ghosts>>
      /\ p \in {"commit", "ok"} /\ (~threadOpen => p = "ok")
  BY <1>0, OpAt DEF StoreTurn, StoreElsewhere, Goto
<1> HIDE DEF p
<1>2. TypeOK'
  BY <1>0, <1>1 DEF TypeOK, tables, asked, snaps, ghosts, Points, TxPoints, TurnPoints, Ended
<1>3. Agreement' /\ LinkInv' /\ ReviewInv'
  BY <1>0, <1>1 DEF Agreement, tables, LinkInv, asked, Exists, ReviewInv, ghosts
<1>4. ControlInv'
  BY <1>0, <1>1 DEF ControlInv, asked, PointsOf, TurnPoints, Ended, TypeOK, Decides, tables
<1>5. HistoryInv'
  BY <1>0, <1>1 DEF HistoryInv, tables, asked, ghosts, AfterPoints, Ended, TypeOK
<1>6. LockInv'
  <2>1. \A x \in Rows : lock[x] # q
    BY <1>0, <1>1 DEF ReviewInv
  <2> QED
    BY <1>0, <1>1, <2>1 DEF LockInv, tables, Exists, InTx, TxPoints, TurnPoints
<1>7. DecisionInv'
  BY <1>0, <1>1 DEF DecisionInv, asked, Decides
<1>8. DeleteInv'
  BY <1>0, <1>1 DEF DeleteInv, tables, asked, snaps, ghosts, Exists, InTx,
     HeldDropped, RecordsDropped, ApprovalsDropped, MessagesDropped, HeldRead
<1>9. DecidedInv' /\ RaceInv'
  BY <1>0, <1>1, RaceMoved DEF tables, asked, Exists
<1>10. ThreadInv'
  BY <1>0, <1>1 DEF ThreadInv, tables, asked, ThreadMessages, SharesThread
<1> QED
  BY <1>2, <1>3, <1>4, <1>5, <1>6, <1>7, <1>8, <1>9, <1>10 DEF IInv

(* A turn commits a message that belongs to no reply.                      *)
LEMMA CommitTurnStep ==
  ASSUME IInv, NEW q \in Requests, CommitTurn(q)
  PROVE  IInv'
<1>0. TypeOK /\ Agreement /\ ControlInv /\ HistoryInv /\ LinkInv /\ LockInv
        /\ DecisionInv /\ ReviewInv /\ DeleteInv /\ DecidedInv /\ RaceInv /\ ThreadInv
  BY DEF IInv
<1>1. TypeOK'
  BY <1>0 DEF CommitTurn, Goto, TypeOK, asked, snaps, ghosts, Points, Ended
<1>2. Agreement' /\ LinkInv' /\ ReviewInv'
  BY <1>0 DEF CommitTurn, Agreement, LinkInv, asked, Exists, ReviewInv, ghosts
<1>3. ControlInv'
  BY <1>0 DEF CommitTurn, Goto, ControlInv, asked, PointsOf, Ended, TypeOK, Decides
<1>4. HistoryInv'
  BY <1>0 DEF CommitTurn, Goto, HistoryInv, asked, ghosts, AfterPoints, Ended, TypeOK
<1>5. LockInv'
  <2>1. \A x \in Rows : lock[x] # q
    BY <1>0 DEF CommitTurn, ReviewInv
  <2> QED
    BY <1>0, <2>1 DEF CommitTurn, Goto, LockInv, Exists, InTx
<1>6. DecisionInv'
  BY <1>0 DEF CommitTurn, Goto, DecisionInv, asked, Decides
<1>7. DeleteInv'
  BY <1>0 DEF CommitTurn, Goto, DeleteInv, asked, snaps, ghosts, Exists, InTx,
     HeldDropped, RecordsDropped, ApprovalsDropped, MessagesDropped, HeldRead
<1>8. DecidedInv' /\ RaceInv'
  <2>1. /\ op[q] = "turn" /\ target[q] \notin OwnerChat /\ ~Deletes(q)'
        /\ pc' = [pc EXCEPT ![q] = "ok"]
        /\ messages' = messages \union {q}
        /\ UNCHANGED <<status, unlinked, op, target, snaps>>
    BY <1>0, NoneAssumption, OwnerChatAssumption DEF CommitTurn, Goto, asked, Deletes,
       ControlInv
  <2>2. DecidedInv'
    BY <1>0, <2>1 DEF DecidedInv, Decides
  <2>3. \A d \in Requests : HasReadTheDecided(d) => HasReadTheDecided(d)'
    BY <2>1 DEF HasReadTheDecided, Decides, Exists, snaps
  <2>4. \A d \in Requests : HasDroppedTheApproved(d) => HasDroppedTheApproved(d)'
    BY <2>1 DEF HasDroppedTheApproved, snaps
  <2>5. \A d \in Requests : Deletes(d)' => Deletes(d) /\ pc'[d] = pc[d]
    BY <1>0, <2>1 DEF Deletes, InTx, TypeOK
  <2> QED
    BY <1>0, <2>1, <2>2, <2>3, <2>4, <2>5 DEF RaceInv, HeldRead, MessagesDropped,
       snaps
<1>9. ThreadInv'
  BY <1>0 DEF CommitTurn, Goto, ThreadInv, SharesThread
<1> QED
  BY <1>1, <1>2, <1>3, <1>4, <1>5, <1>6, <1>7, <1>8, <1>9 DEF IInv

(* The flush finds only messages of the owner's turns.                     *)
LEMMA UnlinkMessagesStep ==
  ASSUME IInv, NEW q \in Requests, UnlinkMessages(q)
  PROVE  IInv'
<1>0. TypeOK /\ Agreement /\ ControlInv /\ HistoryInv /\ LinkInv /\ LockInv
        /\ DecisionInv /\ ReviewInv /\ DeleteInv /\ DecidedInv /\ RaceInv /\ ThreadInv
  BY DEF IInv
<1>1. TypeOK'
  BY <1>0 DEF UnlinkMessages, Goto, ThreadMessages, TypeOK, tables, asked,
     ghosts, Points, TxPoints, TurnPoints, DecisionPoints, DeletePoints
<1>2. Agreement' /\ LinkInv' /\ ReviewInv'
  BY <1>0 DEF UnlinkMessages, Exists, Agreement, tables, LinkInv, asked,
     ReviewInv, ghosts
<1>3. ControlInv'
  BY <1>0, OpAt DEF UnlinkMessages, Goto, ControlInv, asked, PointsOf, DeletePoints,
     TypeOK, Decides, tables
<1>4. HistoryInv'
  BY <1>0 DEF UnlinkMessages, Goto, HistoryInv, tables, asked, ghosts,
     AfterPoints, Ended
<1>5. LockInv'
  BY <1>0 DEF UnlinkMessages, Goto, Exists, LockInv, tables, InTx, TxPoints, TurnPoints,
     DecisionPoints
<1>6. DecisionInv'
  BY <1>0, OpAt DEF UnlinkMessages, Goto, DecisionInv, asked, Decides,
     DeletePoints
<1>7. DeleteInv'
  BY <1>0, RowFacts, NoneAssumption DEF UnlinkMessages, Goto, Exists, DeleteInv,
     tables, asked, ghosts, InTx, TxPoints, TurnPoints, DeletePoints, DropPoints, HeldDropped,
     RecordsDropped, ApprovalsDropped, MessagesDropped, HeldRead, TypeOK
<1>8. DecidedInv' /\ RaceInv'
  <2>1. op[q] = "delete" /\ InTx(q) /\ HeldRead(q) /\ MessagesDropped(q)
    BY <1>0, OpAt DEF UnlinkMessages, DeletePoints, InTx, TxPoints, HeldRead, MessagesDropped
  <2>2. HasReadTheDecided(q) /\ HasDroppedTheApproved(q)
    BY <1>0, <2>1 DEF RaceInv, Deletes
  <2>3. DecidedInv'
    BY <1>0 DEF UnlinkMessages, tables, asked, DecidedInv, Decides
  <2>4. \A d \in Requests : Deletes(d)' => d = q
    BY <1>0, <2>1 DEF UnlinkMessages, Goto, RaceInv, Deletes, InTx, asked, TypeOK
  <2>5. HasReadTheDecided(q)' /\ HasDroppedTheApproved(q)'
    BY <2>2 DEF UnlinkMessages, tables, asked, HasReadTheDecided, Exists, Decides,
       HasDroppedTheApproved
  <2>6. snapLate'[q] \subseteq {m \in messages : op[m] = "turn"} \ snapMessages[q]
    BY <1>0, <2>2 DEF UnlinkMessages, ThreadMessages, HasDroppedTheApproved, TypeOK
  <2> QED
    BY <2>3, <2>4, <2>5, <2>6 DEF RaceInv, UnlinkMessages, tables, asked
<1>9. ThreadInv'
  BY <1>0, OpAt DEF UnlinkMessages, Goto, ThreadMessages, ThreadInv, tables,
     asked, SharesThread, DeletePoints
<1> QED
  BY <1>1, <1>2, <1>3, <1>4, <1>5, <1>6, <1>7, <1>8, <1>9 DEF IInv

(* The commit of a deletion removes a reply from all tables or from none.  *)
LEMMA CommitDeleteStep ==
  ASSUME IInv, NEW q \in Requests, CommitDelete(q)
  PROVE  IInv'
<1>0. TypeOK /\ Agreement /\ ControlInv /\ HistoryInv /\ LinkInv /\ LockInv
        /\ DecisionInv /\ ReviewInv /\ DeleteInv /\ DecidedInv /\ RaceInv /\ ThreadInv
  BY DEF IInv
<1>1. TypeOK'
  BY <1>0 DEF CommitDelete, Released, Goto, TypeOK, asked, snaps, ghosts,
     Status, Points, Ended
<1>2. Agreement'
  BY <1>0, RowFacts, NoneAssumption DEF CommitDelete, Exists, Agreement,
     DeleteInv, HeldDropped, RecordsDropped, ApprovalsDropped, MessagesDropped, HeldRead, LockInv
<1>3. ControlInv'
  BY <1>0 DEF CommitDelete, Goto, ControlInv, asked, PointsOf, Ended,
     TypeOK
<1>d. /\ Deletes(q) /\ MessagesDropped(q) /\ HasDroppedTheApproved(q)
      /\ snapLate[q] \subseteq {m \in messages : op[m] = "turn"} \ snapMessages[q]
  BY <1>0 DEF CommitDelete, Deletes, InTx, TxPoints, DeletePoints, MessagesDropped,
     RaceInv
<1>4. HistoryInv'
  BY <1>0, <1>d DEF CommitDelete, Goto, HistoryInv, asked, ghosts, AfterPoints, Ended,
     HasDroppedTheApproved
<1>5. LinkInv'
  <2>1. \A r \in Replies : linked[r] \in snapMessages[q] => lock[Record(r)] = q
    BY <1>0, <1>d DEF DeleteInv, Deletes
  <2> QED
    BY <1>0, <2>1, RowFacts DEF CommitDelete, Exists, LinkInv, asked, ghosts
<1>6. LockInv'
  BY <1>0 DEF CommitDelete, Released, Goto, Exists, LockInv, InTx
<1>7. DecisionInv'
  BY <1>0, RowFacts, NoneAssumption, OpAt DEF CommitDelete, Released, Goto,
     DecisionInv, asked, Decides
<1>8. ReviewInv'
  BY <1>0, NoneAssumption DEF CommitDelete, Released, ReviewInv, asked
<1>9. DeleteInv'
  BY <1>0, RowFacts, NoneAssumption DEF CommitDelete, Released, Goto,
     Exists, DeleteInv, asked, snaps, ghosts, InTx, TxPoints, TurnPoints,
     DecisionPoints, HeldDropped, RecordsDropped, ApprovalsDropped, MessagesDropped, HeldRead, TypeOK
<1>10. ThreadInv'
  <2>1. \A m \in messages' : target[m] \notin OwnerChat
    BY <1>d DEF CommitDelete, HasDroppedTheApproved
  <2>2. ThreadMessages' = {}
    BY <2>1 DEF CommitDelete, ForeignKeyError, ThreadMessages, asked
  <2>3. \A p \in Requests : ~SharesThread(p)'
    BY <1>0 DEF CommitDelete, SharesThread, Goto, asked, TypeOK
  <2> QED
    BY <2>1, <2>2, <2>3 DEF ThreadInv, CommitDelete, asked
<1>11. DecidedInv' /\ RaceInv'
  <2>1. op[q] = "delete" /\ Deletes(q)
    BY DEF CommitDelete, Deletes, InTx, TxPoints, DeletePoints
  <2>2. DecidedInv'
    BY <1>0, OpAt, RowFacts DEF CommitDelete, asked, DecidedInv, Decides
  <2>3. \A d \in Requests : ~Deletes(d)'
    BY <1>0, <2>1 DEF CommitDelete, Goto, RaceInv, Deletes, InTx, TxPoints,
       DecisionPoints, DeletePoints, TurnPoints, asked, TypeOK
  <2> QED
    BY <2>2, <2>3 DEF RaceInv
<1> QED
  BY <1>1, <1>2, <1>3, <1>4, <1>5, <1>6, <1>7, <1>8, <1>9, <1>10, <1>11 DEF IInv

(* A crash rolls every transaction back.                                   *)
LEMMA CrashStep ==
  ASSUME IInv, Crash
  PROVE  IInv'
<1>0. TypeOK /\ Agreement /\ ControlInv /\ HistoryInv /\ LinkInv /\ LockInv
        /\ DecisionInv /\ ReviewInv /\ DeleteInv /\ DecidedInv /\ RaceInv /\ ThreadInv
  BY DEF IInv
<1>1. TypeOK'
  BY <1>0 DEF Crash, Ended, TypeOK, tables, asked, snaps, ghosts, Points
<1>2. Agreement' /\ LinkInv'
  BY <1>0 DEF Crash, Agreement, tables, LinkInv, asked, ghosts, Exists
<1>3. ControlInv'
  BY <1>0 DEF Crash, Ended, ControlInv, asked, PointsOf, Operations, TypeOK
<1>4. HistoryInv'
  BY <1>0 DEF Crash, Ended, HistoryInv, tables, asked, ghosts, AfterPoints,
     TypeOK
<1>5. LockInv'
  BY <1>0 DEF Crash, LockInv
<1>6. DecisionInv'
  BY <1>0, NoneAssumption DEF Crash, Ended, DecisionInv
<1>7. ReviewInv'
  BY <1>0, NoneAssumption DEF Crash, ReviewInv
<1>8. DeleteInv'
  BY <1>0 DEF Crash, Ended, DeleteInv, InTx, TxPoints, TurnPoints, DecisionPoints,
     DeletePoints
<1>9. ThreadInv'
  BY <1>0 DEF Crash, ThreadInv, tables, asked, ThreadMessages, SharesThread
<1>10. DecidedInv' /\ RaceInv'
  <2>1. \A d \in Requests : ~Deletes(d)'
    BY <1>0 DEF Crash, Ended, Deletes, InTx, TxPoints, DecisionPoints, DeletePoints,
       TurnPoints, TypeOK
  <2> QED
    BY <1>0, <2>1 DEF Crash, tables, asked, DecidedInv, Decides, RaceInv
<1> QED
  BY <1>1, <1>2, <1>3, <1>4, <1>5, <1>6, <1>7, <1>8, <1>9, <1>10 DEF IInv

(* The statements of decisions, reviews and deletions preserve it.         *)
LEMMA ServeStep ==
  ASSUME IInv, NEW q \in Requests, Serve(q)
  PROVE  IInv'
<1>1. CASE ServeDecision(q)
  <2>1. HeldNotFound(q) => InTx(q) /\ Rollback(q)
    BY DEF HeldNotFound, InTx, TxPoints, DecisionPoints
  <2> QED
    BY <1>1, <2>1, UpdateHeldStep, InsertMessageStep, UpdateRecordStep,
       UpdateApprovalStep, CommitApprovalStep, CommitRejectionStep, SendStep,
       UpdateMemoryStep, RollbackStep DEF ServeDecision
<1>2. CASE ServeReview(q)
  <2>1. RecordNotFound(q) => InTx(q) /\ Rollback(q)
    BY DEF RecordNotFound, InTx, TxPoints, DecisionPoints
  <2> QED
    BY <1>2, <2>1, LabelRecordStep, CommitReviewStep, RollbackStep
    DEF ServeReview
<1>3. CASE ServeDelete(q)
  BY <1>3, FindThreadStep, ReadMessagesStep, ReadHeldStep, DropRowStep,
     DropDoneStep, DropMessagesStep, UnlinkMessagesStep, CommitDeleteStep
  DEF ServeDelete
<1>6. CASE ServeTurn(q)
  BY <1>6, StoreTurnStep, CommitTurnStep DEF ServeTurn
<1>4. CASE AbortOnForeignKey(q)
  <2>1. InTx(q) /\ Rollback(q)
    BY <1>4 DEF AbortOnForeignKey, ForeignKeyError, InTx, TxPoints,
                DecisionPoints, DeletePoints
  <2> QED
    BY <2>1, RollbackStep
<1>5. CASE DeadlockAbort(q)
  <2>1. InTx(q)
    <3>1. PICK S \in SUBSET Requests : q \in S /\ \A p \in S : WaitsFor(p, S)
      BY <1>5 DEF DeadlockAbort, Deadlocked
    <3>2. WaitsFor(q, S)
      BY <3>1
    <3> QED
      BY <3>2 DEF WaitsFor, Wanted, InTx, TxPoints, DecisionPoints,
                  DeletePoints, DropPoints
  <2> QED
    BY <1>5, <2>1, RollbackStep DEF DeadlockAbort
<1> QED
  BY <1>1, <1>2, <1>3, <1>4, <1>5, <1>6 DEF Serve

(* The invariant is inductive.                                             *)
LEMMA NextIInv ==
  ASSUME IInv, [Next]_vars
  PROVE  IInv'
<1>1. CASE \E r \in Replies : HoldReply(r)
  BY <1>1, HoldReplyStep
<1>2. CASE \E q \in Requests, r \in Replies :
             Review(q, r) \/ \E o \in Operations : Decide(q, o, r)
  BY <1>2, ReviewStep, DecideStep
<1>3. CASE \E q \in Requests : DeleteThread(q) \/ OwnerTurn(q) \/ Serve(q) \/ Fail(q)
  BY <1>3, DeleteThreadStep, OwnerTurnStep, ServeStep, RollbackStep DEF Fail
<1>4. CASE Crash
  BY <1>4, CrashStep
<1>5. CASE UNCHANGED vars
  BY <1>5 DEF vars, tables, asked, snaps, ghosts, IInv, TypeOK, Agreement,
     ControlInv, HistoryInv, LinkInv, LockInv, DecisionInv, ReviewInv,
     DeleteInv, DecidedInv, RaceInv, ThreadInv, Exists, InTx, Decides, Deletes,
     HasReadTheDecided, HasDroppedTheApproved, HeldDropped,
     RecordsDropped, ApprovalsDropped, MessagesDropped, HeldRead,
     ThreadMessages, SharesThread
<1> QED
  BY <1>1, <1>2, <1>3, <1>4, <1>5 DEF Next, Quiescent

(* Every reachable state satisfies it.                                     *)
THEOREM Invariance == Spec => []IInv
<1>1. IInv /\ [Next]_vars => IInv'
  BY NextIInv
<1> QED
  BY InitIInv, <1>1, PTL DEF Spec

(* Every variable keeps its type.                                          *)
THEOREM TypeCorrect == Spec => []TypeOK
<1>1. IInv => TypeOK
  BY DEF IInv
<1> QED
  BY Invariance, <1>1, PTL

(* The held reply, the dashboard's card and the audit record always tell   *)
(* the same decision, for any number of concurrent requests.               *)
THEOREM TablesAgree == Spec => []Agreement
<1>1. IInv => Agreement
  BY DEF IInv
<1> QED
  BY Invariance, <1>1, PTL

(* An audit record that says approved_and_sent has the message it names.   *)
THEOREM AuditedMessageExists == Spec => []ApprovedRecordHasItsMessage
<1>1. IInv => ApprovedRecordHasItsMessage
  BY DEF IInv, LinkInv, HistoryInv, ApprovedRecordHasItsMessage
<1> QED
  BY Invariance, <1>1, PTL

(* No approved reply outlives the chat it was approved in, however         *)
(* approvals, the owner's turns and the deletion interleave.               *)
THEOREM DeletionTakesApprovedReplies == Spec => []ApprovedRepliesGoWithTheirChat
<1>1. IInv => ApprovedRepliesGoWithTheirChat
  BY DEF IInv, ThreadInv, ApprovedRepliesGoWithTheirChat
<1> QED
  BY Invariance, <1>1, PTL

-----------------------------------------------------------------------------
(* Refinement.                                                             *)

(* Only a commit, an insertion by hold_reply, or a telegram call can be    *)
(* seen through the gate.                                                  *)
LEMMA Invisible ==
  ASSUME UNCHANGED <<status, approvedBy, delivered>>,
         \A q \in approvedBy \union delivered : target'[q] = target[q]
  PROVE  UNCHANGED Gate!gateVars
<1>1. UNCHANGED [r \in Replies |-> status[Held(r)]]
  BY DEF Held
<1>2. UNCHANGED {<<target[q], q>> : q \in approvedBy}
  OBVIOUS
<1>3. UNCHANGED {<<target[q], q>> : q \in delivered}
  OBVIOUS
<1> QED
  BY <1>1, <1>2, <1>3 DEF Gate!gateVars

(* A started request never becomes one the gate has already counted.       *)
LEMMA StartInvisible ==
  ASSUME IInv, NEW q \in Requests, NEW o, NEW r, NEW p, Start(q, o, r, p)
  PROVE  UNCHANGED Gate!gateVars
<1>1. q \notin approvedBy /\ q \notin delivered
  BY DEF IInv, HistoryInv, Start, AfterPoints, Ended
<1> QED
  BY <1>1, Invisible DEF Start, tables, ghosts, IInv, TypeOK

(* Every statement of a decision is a step of the gate or invisible.       *)
LEMMA ServeImplements ==
  ASSUME IInv, NEW q \in Requests, Serve(q)
  PROVE  [Gate!GateNext]_(Gate!gateVars)
<1>0. TypeOK /\ ControlInv /\ HistoryInv /\ LockInv /\ DecisionInv
  BY DEF IInv
<1>1. CASE CommitApproval(q)
  <2>1. Decides(q) /\ target[q] \in Replies /\ q \notin approvedBy
    BY <1>0, <1>1, OpAt DEF CommitApproval, Decides, HistoryInv, AfterPoints, Ended
  <2>2. lock[Held(target[q])] = q /\ Exists(Held(target[q]))
    BY <1>0, <1>1, <2>1, RowFacts, NoneAssumption
    DEF CommitApproval, DecisionInv, LockInv
  <2>3. \A r \in Replies : status'[Held(r)] =
          IF r = target[q] THEN "approved" ELSE status[Held(r)]
    BY <1>0, <1>1, <2>1, <2>2, RowFacts
    DEF CommitApproval, Settled, Outcome, DecisionInv
  <2>4. \A p \in approvedBy : <<target[p], p>> # <<target[q], q>>
    BY <2>1
  <2>5. Gate!Approve(target[q], q)
    BY <1>0, <1>1, <2>1, <2>2, <2>3, <2>4
    DEF CommitApproval, Gate!Approve, Gate!Known, Exists, asked, TypeOK
  <2> QED
    BY <2>1, <2>5 DEF Gate!GateNext
<1>2. CASE CommitRejection(q)
  <2>1. Decides(q) /\ target[q] \in Replies
    BY <1>0, <1>2, OpAt DEF CommitRejection, Decides
  <2>2. lock[Held(target[q])] = q /\ Exists(Held(target[q]))
    BY <1>0, <1>2, <2>1, RowFacts, NoneAssumption
    DEF CommitRejection, DecisionInv, LockInv
  <2>3. \A r \in Replies : status'[Held(r)] =
          IF r = target[q] THEN "rejected" ELSE status[Held(r)]
    BY <1>0, <1>2, <2>1, <2>2, RowFacts
    DEF CommitRejection, Settled, Outcome, DecisionInv
  <2>4. Gate!Reject(target[q])
    BY <1>0, <1>2, <2>1, <2>2, <2>3
    DEF CommitRejection, Gate!Reject, Gate!Known, Exists, asked, ghosts
  <2> QED
    BY <2>1, <2>4 DEF Gate!GateNext
<1>3. CASE CommitDelete(q)
  <2> DEFINE S == {r \in Replies : lock[Held(r)] = q}
  <2>1. \A r \in S : Exists(Held(r))
    BY <1>0, RowFacts, NoneAssumption DEF LockInv
  <2>2. \A r \in Replies : status'[Held(r)] =
          IF r \in S THEN "deleted" ELSE status[Held(r)]
    BY <1>3, RowFacts DEF CommitDelete
  <2>3. Gate!Forget(S)
    BY <1>3, <2>1, <2>2
    DEF CommitDelete, Gate!Forget, Gate!Known, Exists, asked, ghosts
  <2> QED
    BY <2>3 DEF Gate!GateNext
<1>4. CASE Send(q)
  <2>1. q \in approvedBy /\ q \notin delivered /\ target[q] \in Replies
    BY <1>0, <1>4, OpAt DEF Send, HistoryInv, AfterPoints
  <2>2. CASE delivered' = delivered \union {q}
    <3>1. <<target[q], q>> \in {<<target[p], p>> : p \in approvedBy}
                                \ {<<target[p], p>> : p \in delivered}
      BY <2>1
    <3>2. Gate!Deliver(target[q], q)
      BY <1>4, <2>2, <3>1 DEF Send, Gate!Deliver, tables, asked
    <3> QED
      BY <2>1, <3>2 DEF Gate!GateNext
  <2>3. CASE delivered' = delivered
    BY <1>4, <2>3, Invisible DEF Send, tables, asked
  <2> QED
    BY <1>4, <2>2, <2>3 DEF Send
<1>5. CASE ~ \/ CommitApproval(q) \/ CommitRejection(q)
             \/ CommitDelete(q) \/ Send(q)
  <2>1. UNCHANGED <<status, approvedBy, delivered, target>>
    BY <1>5 DEF Serve, ServeDecision, ServeReview, ServeDelete, UpdateHeld,
       HeldNotFound, InsertMessage, UpdateRecord, UpdateApproval, UpdateRow,
       UpdateMemory, LabelRecord, RecordNotFound, CommitReview, FindThread,
       ReadMessages, ReadHeld, DropRow, DropDone, DropMessages, UnlinkMessages,
       ServeTurn, StoreTurn, StoreElsewhere, CommitTurn,
       AbortOnForeignKey, DeadlockAbort, Rollback, tables, asked, ghosts
  <2> QED
    BY <2>1, Invisible
<1> QED
  BY <1>1, <1>2, <1>3, <1>4, <1>5

(* Every step of the service is a step of the gate or invisible.           *)
LEMMA NextImplements ==
  ASSUME IInv, [Next]_vars
  PROVE  [Gate!GateNext]_(Gate!gateVars)
<1>1. ASSUME NEW r \in Replies, HoldReply(r)
      PROVE  Gate!Hold(r)
  <2>1. \A s \in Replies : status'[Held(s)] =
          IF s = r THEN "pending" ELSE status[Held(s)]
    BY <1>1, RowFacts DEF HoldReply
  <2> QED
    BY <1>1, <2>1 DEF HoldReply, Gate!Hold, asked, ghosts
<1>2. ASSUME NEW q \in Requests, NEW r \in Replies, NEW o \in Operations,
             Review(q, r) \/ Decide(q, o, r) \/ DeleteThread(q)
      PROVE  UNCHANGED Gate!gateVars
  BY <1>2, StartInvisible DEF Review, Decide, DeleteThread
<1>3. ASSUME NEW q \in Requests, DeleteThread(q) \/ OwnerTurn(q)
      PROVE  UNCHANGED Gate!gateVars
  BY <1>3, StartInvisible DEF DeleteThread, OwnerTurn
<1>4. ASSUME NEW q \in Requests, Fail(q)
      PROVE  UNCHANGED Gate!gateVars
  BY <1>4, Invisible DEF Fail, Rollback, tables, asked, ghosts
<1>5. CASE Crash
  BY <1>5, Invisible DEF Crash, tables, asked, ghosts
<1>6. CASE UNCHANGED vars
  BY <1>6, Invisible DEF vars, tables, asked, ghosts
<1>7. CASE \E r \in Replies : HoldReply(r)
  BY <1>1, <1>7 DEF Gate!GateNext
<1>8. CASE \E q \in Requests, r \in Replies :
             Review(q, r) \/ \E o \in Operations : Decide(q, o, r)
  <2>1. "none" \in Operations
    BY DEF Operations
  <2> QED
    BY <1>2, <1>8, <2>1
<1>9. CASE \E q \in Requests : DeleteThread(q) \/ OwnerTurn(q) \/ Serve(q) \/ Fail(q)
  BY <1>3, <1>4, <1>9, ServeImplements
<1> QED
  BY <1>5, <1>6, <1>7, <1>8, <1>9 DEF Next, Quiescent

(* The approval service implements the abstract gate: a decision becomes   *)
(* visible in one step, and a customer receives a reply only for a         *)
(* committed approval of it, once for each.                                *)
THEOREM Refinement == Spec => ImplementsGate
<1>1. Init => Gate!GateInit
  BY RowFacts DEF Init, Gate!GateInit
<1>2. IInv /\ [Next]_vars => [Gate!GateNext]_(Gate!gateVars)
  BY NextImplements
<1> QED
  BY Invariance, <1>1, <1>2, PTL DEF Spec, ImplementsGate, Gate!Gate
=============================================================================
