--------------------------- MODULE ReplyApproval ---------------------------
(***************************************************************************)
(* The human-in-the-loop gate: services/approval_service.py (hold_reply,   *)
(* approve_reply, reject_reply, review_reply_record) and the deletion of   *)
(* an owner chat (delete_owner_chat_thread), which touch the same rows;    *)
(* and the message that a turn of the owner adds to that chat meanwhile    *)
(* (intake_node).                                                          *)
(*                                                                         *)
(* A held reply has one row in each of three tables.  Every HTTP request   *)
(* runs in one PostgreSQL transaction at READ COMMITTED: a statement that  *)
(* changes a row takes the row's lock, waits while another transaction has *)
(* it, and keeps it until COMMIT or ROLLBACK; the new values become        *)
(* visible at COMMIT.  One action is one statement, so that the requests   *)
(* of several dashboard tabs interleave between their statements.          *)
(*                                                                         *)
(* A request identifier is used once, and also names the message row the   *)
(* request inserts (message_id = uuid4()).                                 *)
(***************************************************************************)
EXTENDS FiniteSets

CONSTANTS
    Replies,     \* replies the pipeline may hold
    OwnerChat,   \* those whose thread_id is the owner-chat thread
    Requests,    \* HTTP requests
    NoRequest,   \* "no transaction" for a free row, "no message" for a record
    NoReply      \* the target of a request that has none

ASSUME OwnerChatAssumption == OwnerChat \subseteq Replies
ASSUME NoneAssumption == NoRequest \notin Requests /\ NoReply \notin Replies

Tables == {"held_replies", "pending_approvals", "reply_review_records"}
Rows   == Tables \X Replies

(* The status column (final_decision in reply_review_records, where the    *)
(* words are held_pending_review, approved_and_sent and rejected), or why  *)
(* there is no row.                                                        *)
Status == {"absent", "pending", "approved", "rejected", "deleted"}

Operations == {"none", "approve", "reject", "review", "delete", "turn"}

VARIABLES
    status,     \* committed status of each row
    linked,     \* reply_review_records.message_id, committed
    messages,   \* committed rows of messages inserted by approvals and turns
    unlinked,   \* messages whose conversation_thread_id was set to NULL
    labelled,   \* replies whose review record carries a committed review_label
    threadOpen, \* the owner-chat thread row exists
    lock,       \* the transaction that holds each row's lock
    pc,         \* the statement each request is about to execute
    op,         \* what each request does
    target,     \* the reply it is about
    snapMessages, \* message_ids read by a deletion
    snapHeld,   \* held_reply_ids read by a deletion
    snapLate,   \* messages a deletion finds in the thread when it is flushed
    approvedBy, \* history: requests whose approval was committed
    delivered   \* history: requests whose telegram message reached the customer

tables == <<status, linked, messages, unlinked, labelled, threadOpen>>
asked  == <<op, target>>
snaps  == <<snapMessages, snapHeld, snapLate>>
ghosts == <<approvedBy, delivered>>
vars   == <<tables, lock, pc, asked, snaps, ghosts>>

-----------------------------------------------------------------------------
(* Program points.  Each name is that of the statement about to run.       *)

DecisionPoints == {"held", "message", "record", "approval", "commit"}
DeletePoints   == {"thread", "readMessages", "readHeld", "dropApprovals",
                   "dropRecordsOfMessages", "dropRecordsOfHeld", "dropHeld",
                   "dropMessages", "unlink", "commit"}
TurnPoints     == {"store", "commit"}
TxPoints       == DecisionPoints \union DeletePoints \union TurnPoints
AfterPoints    == {"send", "memory"}
Ended          == {"ok", "error"}

Points == {"idle"} \union TxPoints \union AfterPoints \union Ended

Decides(q)  == op[q] \in {"approve", "reject"}
InTx(q)     == pc[q] \in TxPoints
Exists(x)   == status[x] \in {"pending", "approved", "rejected"}
Held(r)     == <<"held_replies", r>>
Approval(r) == <<"pending_approvals", r>>
Record(r)   == <<"reply_review_records", r>>

(* Messages of the owner-chat thread. *)
ThreadMessages ==
    {m \in messages \ unlinked : op[m] = "turn" \/ target[m] \in OwnerChat}

(* Who has inserted a message into the owner-chat thread keeps a lock on   *)
(* the thread's row until it commits.                                      *)
SharesThread(q) ==
    \/ /\ op[q] = "approve"
       /\ target[q] \in OwnerChat
       /\ pc[q] \in {"record", "approval", "commit"}
    \/ op[q] = "turn" /\ pc[q] = "commit"

Init ==
    /\ status = [x \in Rows |-> "absent"]
    /\ linked = [r \in Replies |-> NoRequest]
    /\ messages = {}
    /\ unlinked = {}
    /\ labelled = {}
    /\ threadOpen = TRUE
    /\ lock = [x \in Rows |-> NoRequest]
    /\ pc = [q \in Requests |-> "idle"]
    /\ op = [q \in Requests |-> "none"]
    /\ target = [q \in Requests |-> NoReply]
    /\ snapMessages = [q \in Requests |-> {}]
    /\ snapHeld = [q \in Requests |-> {}]
    /\ snapLate = [q \in Requests |-> {}]
    /\ approvedBy = {}
    /\ delivered = {}

-----------------------------------------------------------------------------
(* hold_reply: three INSERTs of new rows in one transaction.  No other     *)
(* transaction can see or wait for a row before the COMMIT, so the whole   *)
(* function is one step; if it fails nothing is left behind.               *)
HoldReply(r) ==
    /\ status[Held(r)] = "absent"
    /\ status' = [x \in Rows |-> IF x[2] = r THEN "pending" ELSE status[x]]
    /\ UNCHANGED <<linked, messages, unlinked, labelled, threadOpen, lock, pc,
                   asked, snaps, ghosts>>

-----------------------------------------------------------------------------
(* Requests arrive.                                                        *)

(* Mutant of EventLoopFree: the delete endpoint is a "def", which runs in  *)
(* the thread pool like the others.                                        *)
EventLoopAlwaysFree == TRUE

(* The delete endpoint is an "async def" that runs its statements on the   *)
(* event loop of the only uvicorn worker: no request starts until it ends, *)
(* while handlers already in the thread pool go on.                        *)
EventLoopFree == \A q \in Requests : op[q] = "delete" => ~InTx(q)

Start(q, o, r, p) ==
    /\ pc[q] = "idle"
    /\ EventLoopFree
    /\ op' = [op EXCEPT ![q] = o]
    /\ target' = [target EXCEPT ![q] = r]
    /\ pc' = [pc EXCEPT ![q] = p]
    /\ UNCHANGED <<tables, lock, snaps, ghosts>>

(* The dashboard lists what is pending, but a tab left open keeps its list *)
(* and neither the page, its route nor the service looks at the status     *)
(* again: the owner may decide anything that was ever listed.              *)
Decide(q, o, r) ==
    /\ o \in {"approve", "reject"}
    /\ status[Approval(r)] # "absent"
    /\ Start(q, o, r, "held")

Review(q, r) ==
    /\ status[Record(r)] # "absent"
    /\ Start(q, "review", r, "record")

DeleteThread(q) == Start(q, "delete", NoReply, "thread")

OwnerTurn(q) == Start(q, "turn", NoReply, "store")

-----------------------------------------------------------------------------
(* Locks, COMMIT and ROLLBACK.                                             *)

Free(x) == lock[x] = NoRequest

Released(q) == [x \in Rows |-> IF lock[x] = q THEN NoRequest ELSE lock[x]]

Goto(q, p) == pc' = [pc EXCEPT ![q] = p]

(* Mutant of Rollback: an except clause without session.rollback().        *)
RollbackKeepingLocks(q) ==
    /\ Goto(q, "error")
    /\ UNCHANGED <<tables, lock, asked, snaps, ghosts>>

Rollback(q) ==
    /\ lock' = Released(q)
    /\ Goto(q, "error")
    /\ UNCHANGED <<tables, asked, snaps, ghosts>>

(* An UPDATE by held_reply_id: changes the row if there is one.            *)
UpdateRow(q, x, p) ==
    /\ Free(x)
    /\ lock' = [lock EXCEPT ![x] = IF Exists(x) THEN q ELSE NoRequest]
    /\ Goto(q, p)
    /\ UNCHANGED <<tables, asked, snaps, ghosts>>

-----------------------------------------------------------------------------
(* The statements of approve_reply and reject_reply.                       *)

(* UPDATE held_replies ... RETURNING: no guard on the status it had.       *)
UpdateHeld(q) ==
    /\ pc[q] = "held"
    /\ Exists(Held(target[q]))
    /\ UpdateRow(q, Held(target[q]),
                 IF op[q] = "approve" THEN "message" ELSE "record")

(* No row returned: ValueError, answered with status 500.                  *)
HeldNotFound(q) ==
    /\ pc[q] = "held"
    /\ Free(Held(target[q])) /\ ~Exists(Held(target[q]))
    /\ Rollback(q)

(* Mutant of InsertMessage: telegram is called before the commit.          *)
InsertMessageAndSend(q) ==
    /\ pc[q] = "message"
    /\ target[q] \in OwnerChat => threadOpen
    /\ delivered' = delivered \union {q}
    /\ Goto(q, "record")
    /\ UNCHANGED <<tables, lock, asked, snaps, approvedBy>>

(* INSERT INTO messages, whose thread must exist; the sender's counter is  *)
(* incremented in the same step of the transaction.                        *)
InsertMessage(q) ==
    /\ pc[q] = "message"
    /\ target[q] \in OwnerChat => threadOpen
    /\ Goto(q, "record")
    /\ UNCHANGED <<tables, lock, asked, snaps, ghosts>>

UpdateRecord(q) ==
    /\ pc[q] = "record"
    /\ Decides(q)
    /\ UpdateRow(q, Record(target[q]), "approval")

(* Mutant of UpdateApproval: only an approval clears the dashboard's card. *)
UpdateApprovalOfApproved(q) ==
    /\ pc[q] = "approval"
    /\ IF op[q] = "approve"
       THEN UpdateRow(q, Approval(target[q]), "commit")
       ELSE /\ Goto(q, "commit")
            /\ UNCHANGED <<tables, lock, asked, snaps, ghosts>>

UpdateApproval(q) ==
    /\ pc[q] = "approval"
    /\ UpdateRow(q, Approval(target[q]), "commit")

(* Mutant of Outcome: the audit record's word is used for every table.     *)
OutcomeInAuditWords(q) ==
    IF op[q] = "approve" THEN "approved_and_sent" ELSE "rejected"

(* The value a committed decision leaves in the rows it has locked.        *)
Outcome(q) == IF op[q] = "approve" THEN "approved" ELSE "rejected"

Settled(q) == [x \in Rows |-> IF lock[x] = q THEN Outcome(q) ELSE status[x]]

(* Mutant of CommitApproval: the message is left to a later transaction.   *)
CommitApprovalWithoutMessage(q) ==
    /\ pc[q] = "commit"
    /\ op[q] = "approve"
    /\ status' = Settled(q)
    /\ linked' = [r \in Replies |-> IF lock[Record(r)] = q THEN q ELSE linked[r]]
    /\ approvedBy' = approvedBy \union {q}
    /\ lock' = Released(q)
    /\ Goto(q, "send")
    /\ UNCHANGED <<messages, unlinked, labelled, threadOpen, asked, snaps,
                   delivered>>

CommitApproval(q) ==
    /\ pc[q] = "commit"
    /\ op[q] = "approve"
    /\ status' = Settled(q)
    /\ linked' = [r \in Replies |-> IF lock[Record(r)] = q THEN q ELSE linked[r]]
    /\ messages' = messages \union {q}
    /\ approvedBy' = approvedBy \union {q}
    /\ lock' = Released(q)
    /\ Goto(q, "send")
    /\ UNCHANGED <<unlinked, labelled, threadOpen, asked, snaps, delivered>>

CommitRejection(q) ==
    /\ pc[q] = "commit"
    /\ op[q] = "reject"
    /\ status' = Settled(q)
    /\ lock' = Released(q)
    /\ Goto(q, "ok")
    /\ UNCHANGED <<linked, messages, unlinked, labelled, threadOpen, asked,
                   snaps, ghosts>>

(* send_telegram_reply, after the commit; its result is ignored.           *)
Send(q) ==
    /\ pc[q] = "send"
    /\ delivered' \in {delivered, delivered \union {q}}
    /\ Goto(q, "memory")
    /\ UNCHANGED <<tables, lock, asked, snaps, approvedBy>>

(* memory_update_node swallows its errors, and the handler returns.        *)
UpdateMemory(q) ==
    /\ pc[q] = "memory"
    /\ Goto(q, "ok")
    /\ UNCHANGED <<tables, lock, asked, snaps, ghosts>>

-----------------------------------------------------------------------------
(* review_reply_record: a label on the review record, found by its id.     *)

LabelRecord(q) ==
    /\ pc[q] = "record"
    /\ op[q] = "review"
    /\ Exists(Record(target[q]))
    /\ UpdateRow(q, Record(target[q]), "commit")

RecordNotFound(q) ==
    /\ pc[q] = "record"
    /\ op[q] = "review"
    /\ Free(Record(target[q])) /\ ~Exists(Record(target[q]))
    /\ Rollback(q)

CommitReview(q) ==
    /\ pc[q] = "commit"
    /\ op[q] = "review"
    /\ labelled' = labelled \union {target[q]}
    /\ lock' = Released(q)
    /\ Goto(q, "ok")
    /\ UNCHANGED <<status, linked, messages, unlinked, threadOpen, asked, snaps,
                   ghosts>>

-----------------------------------------------------------------------------
(* intake_node of a turn of the owner, in the thread pool: the UPDATE of   *)
(* the thread and the INSERT of the message are flushed together.  A second*)
(* turn waits for the first one's row, which only delays it.               *)

StoreTurn(q) ==
    /\ pc[q] = "store"
    /\ threadOpen
    /\ Goto(q, "commit")
    /\ UNCHANGED <<tables, lock, asked, snaps, ghosts>>

(* Without the thread the message goes into another one, or is not stored. *)
StoreElsewhere(q) ==
    /\ pc[q] = "store"
    /\ ~threadOpen
    /\ Goto(q, "ok")
    /\ UNCHANGED <<tables, lock, asked, snaps, ghosts>>

CommitTurn(q) ==
    /\ pc[q] = "commit"
    /\ op[q] = "turn"
    /\ messages' = messages \union {q}
    /\ Goto(q, "ok")
    /\ UNCHANGED <<status, linked, unlinked, labelled, threadOpen, lock, asked,
                   snaps, ghosts>>

-----------------------------------------------------------------------------
(* delete_owner_chat_thread: two reads that the later statements rely on,  *)
(* then one DELETE after another.  A DELETE locks its rows one by one.     *)

FindThread(q) ==
    /\ pc[q] = "thread"
    /\ IF threadOpen THEN Goto(q, "readMessages") ELSE Goto(q, "error")
    /\ UNCHANGED <<tables, lock, asked, snaps, ghosts>>

ReadMessages(q) ==
    /\ pc[q] = "readMessages"
    /\ snapMessages' = [snapMessages EXCEPT ![q] = ThreadMessages]
    /\ Goto(q, "readHeld")
    /\ UNCHANGED <<tables, lock, asked, snapHeld, snapLate, ghosts>>

ReadHeld(q) ==
    /\ pc[q] = "readHeld"
    /\ snapHeld' = [snapHeld EXCEPT ![q] = {r \in OwnerChat : Exists(Held(r))}]
    /\ Goto(q, "dropApprovals")
    /\ UNCHANGED <<tables, lock, asked, snapMessages, snapLate, ghosts>>

(* The rows the WHERE clause of the current DELETE selects.                *)
Selected(q) ==
    CASE pc[q] = "dropApprovals" -> {Approval(r) : r \in snapHeld[q]}
      [] pc[q] = "dropRecordsOfMessages" ->
            {Record(r) : r \in {s \in Replies : linked[s] \in snapMessages[q]}}
      [] pc[q] = "dropRecordsOfHeld" -> {Record(r) : r \in snapHeld[q]}
      [] pc[q] = "dropHeld" -> {Held(r) : r \in snapHeld[q]}
      [] OTHER -> {}

ToDrop(q) == {x \in Selected(q) : Exists(x) /\ lock[x] # q}

DropPoints == {"dropApprovals", "dropRecordsOfMessages", "dropRecordsOfHeld",
               "dropHeld"}

AfterDrop == [p \in DropPoints |->
    CASE p = "dropApprovals"         -> "dropRecordsOfMessages"
      [] p = "dropRecordsOfMessages" -> "dropRecordsOfHeld"
      [] p = "dropRecordsOfHeld"     -> "dropHeld"
      [] p = "dropHeld"              -> "dropMessages"]

(* Statements PostgreSQL refuses: a message in a thread that is gone; a    *)
(* held reply, a message or a thread that other rows still point to, such  *)
(* as a message committed after the flush has looked for messages.         *)
ForeignKeyError(q) ==
    \/ /\ pc[q] = "message"
       /\ target[q] \in OwnerChat
       /\ ~threadOpen
    \/ /\ pc[q] = "dropHeld"
       /\ \E r \in snapHeld[q] : \E x \in {Approval(r), Record(r)} :
             Exists(x) /\ lock[x] # q
    \/ /\ pc[q] = "dropMessages"
       /\ \E r \in Replies : /\ Exists(Record(r)) /\ lock[Record(r)] # q
                             /\ linked[r] \in ThreadMessages
    \/ /\ pc[q] = "commit"
       /\ op[q] = "delete"
       /\ ~(ThreadMessages \subseteq snapMessages[q] \union snapLate[q])

DropRow(q) ==
    /\ pc[q] \in DropPoints
    /\ ~ForeignKeyError(q)
    /\ \E x \in ToDrop(q) : Free(x) /\ lock' = [lock EXCEPT ![x] = q]
    /\ UNCHANGED <<tables, pc, asked, snaps, ghosts>>

DropDone(q) ==
    /\ pc[q] \in DropPoints
    /\ ~ForeignKeyError(q)
    /\ ToDrop(q) = {}
    /\ Goto(q, AfterDrop[pc[q]])
    /\ UNCHANGED <<tables, lock, asked, snaps, ghosts>>

(* From here on snapMessages holds the messages that were deleted.         *)
DropMessages(q) ==
    /\ pc[q] = "dropMessages"
    /\ ~ForeignKeyError(q)
    /\ snapMessages' = [snapMessages EXCEPT ![q] = ThreadMessages]
    /\ Goto(q, "unlink")
    /\ UNCHANGED <<tables, lock, asked, snapHeld, snapLate, ghosts>>

(* The router's commit flushes session.delete(thread).  The relationship   *)
(* has no cascade: the ORM selects the messages the thread still has, sets *)
(* their thread to NULL, ...                                               *)
UnlinkMessages(q) ==
    /\ pc[q] = "unlink"
    /\ snapLate' = [snapLate EXCEPT ![q] = ThreadMessages \ snapMessages[q]]
    /\ Goto(q, "commit")
    /\ UNCHANGED <<tables, lock, asked, snapMessages, snapHeld, ghosts>>

(* ... and deletes the thread, which waits for those who share its row.    *)
CommitDelete(q) ==
    /\ pc[q] = "commit"
    /\ op[q] = "delete"
    /\ \A p \in Requests : ~SharesThread(p)
    /\ ~ForeignKeyError(q)
    /\ status' = [x \in Rows |-> IF lock[x] = q THEN "deleted" ELSE status[x]]
    /\ linked' = [r \in Replies |-> IF lock[Record(r)] = q THEN NoRequest
                                                           ELSE linked[r]]
    /\ labelled' = {r \in labelled : lock[Record(r)] # q}
    /\ messages' = messages \ snapMessages[q]
    /\ unlinked' = unlinked \union snapLate[q]
    /\ threadOpen' = FALSE
    /\ lock' = Released(q)
    /\ Goto(q, "ok")
    /\ UNCHANGED <<asked, snaps, ghosts>>

-----------------------------------------------------------------------------
(* What can go wrong.                                                      *)

AbortOnForeignKey(q) ==
    /\ ForeignKeyError(q)
    /\ (pc[q] = "commit") => \A p \in Requests : ~SharesThread(p)
    /\ Rollback(q)

(* Any statement may lose its connection or time out, and looking up the   *)
(* bot token before the send may raise: the except clause rolls back, too  *)
(* late in the second case, and the owner sees an error in both.           *)
Fail(q) ==
    /\ InTx(q) \/ pc[q] = "send"
    /\ Rollback(q)

(* The rows a request is about to lock, and whether it waits for S.        *)
Wanted(q) ==
    CASE pc[q] = "held"          -> {Held(target[q])}
      [] pc[q] = "record"        -> {Record(target[q])}
      [] pc[q] = "approval"      -> {Approval(target[q])}
      [] pc[q] \in DropPoints    -> ToDrop(q)
      [] OTHER                   -> {}

WaitsFor(q, S) ==
    \/ Wanted(q) # {} /\ \A x \in Wanted(q) : lock[x] \in S \ {q}
    \/ /\ pc[q] = "commit" /\ op[q] = "delete"
       /\ \E p \in S \ {q} : SharesThread(p)

Deadlocked(q) ==
    \E S \in SUBSET Requests : q \in S /\ \A p \in S : WaitsFor(p, S)

(* PostgreSQL's deadlock detector aborts one transaction of a cycle.       *)
DeadlockAbort(q) == Deadlocked(q) /\ Rollback(q)

(* The process dies: its transactions are rolled back by the server, and   *)
(* what follows a commit is never done, now or after the restart.          *)
Crash ==
    /\ \E q \in Requests : pc[q] \notin {"idle"} \union Ended
    /\ lock' = [x \in Rows |-> NoRequest]
    /\ pc' = [q \in Requests |-> IF pc[q] \in {"idle"} \union Ended THEN pc[q]
                                                                 ELSE "error"]
    /\ UNCHANGED <<tables, asked, snaps, ghosts>>

(* Nothing is left to do in an instance with finitely many requests.       *)
Quiescent ==
    /\ \A q \in Requests : pc[q] \in Ended
    /\ UNCHANGED vars

-----------------------------------------------------------------------------
(* The specification.                                                      *)

ServeDecision(q) ==
    \/ UpdateHeld(q) \/ HeldNotFound(q) \/ InsertMessage(q)
    \/ UpdateRecord(q) \/ UpdateApproval(q)
    \/ CommitApproval(q) \/ CommitRejection(q)
    \/ Send(q) \/ UpdateMemory(q)

ServeReview(q) == LabelRecord(q) \/ RecordNotFound(q) \/ CommitReview(q)

ServeDelete(q) ==
    \/ FindThread(q) \/ ReadMessages(q) \/ ReadHeld(q)
    \/ DropRow(q) \/ DropDone(q) \/ DropMessages(q) \/ UnlinkMessages(q)
    \/ CommitDelete(q)

ServeTurn(q) == StoreTurn(q) \/ StoreElsewhere(q) \/ CommitTurn(q)

Serve(q) ==
    \/ ServeDecision(q) \/ ServeReview(q) \/ ServeDelete(q) \/ ServeTurn(q)
    \/ AbortOnForeignKey(q) \/ DeadlockAbort(q)

Next ==
    \/ \E r \in Replies : HoldReply(r)
    \/ \E q \in Requests, r \in Replies :
          Review(q, r) \/ \E o \in Operations : Decide(q, o, r)
    \/ \E q \in Requests : DeleteThread(q) \/ OwnerTurn(q) \/ Serve(q) \/ Fail(q)
    \/ Crash
    \/ Quiescent

(* A handler that has started keeps running in its thread.                 *)
Spec == Init /\ [][Next]_vars /\ \A q \in Requests : WF_vars(Serve(q))

-----------------------------------------------------------------------------
(* Properties.                                                             *)

(* The status columns, the links and the program points take no other      *)
(* values than the code and the schema give them.                          *)
TypeOK ==
    /\ status \in [Rows -> Status]
    /\ linked \in [Replies -> Requests \union {NoRequest}]
    /\ messages \subseteq Requests
    /\ unlinked \subseteq Requests
    /\ labelled \subseteq Replies
    /\ threadOpen \in BOOLEAN
    /\ lock \in [Rows -> Requests \union {NoRequest}]
    /\ pc \in [Requests -> Points]
    /\ op \in [Requests -> Operations]
    /\ target \in [Requests -> Replies \union {NoReply}]
    /\ snapMessages \in [Requests -> SUBSET Requests]
    /\ snapHeld \in [Requests -> SUBSET Replies]
    /\ snapLate \in [Requests -> SUBSET Requests]
    /\ approvedBy \subseteq Requests
    /\ delivered \subseteq Requests

(* The three tables never contradict each other, whatever requests, chat   *)
(* deletions, failures and crashes interleave: the held reply, the card on *)
(* the dashboard and the audit record tell the same decision, and a reply  *)
(* is deleted from all of them or from none.                               *)
Agreement ==
    \A r \in Replies : /\ status[Approval(r)] = status[Held(r)]
                       /\ status[Record(r)] = status[Held(r)]

(* An audit record that says approved_and_sent points to a message that is *)
(* there, was written for that same reply, and by an approval that took    *)
(* effect, also when chats are deleted while approvals run.                *)
ApprovedRecordHasItsMessage ==
    \A r \in Replies : status[Record(r)] = "approved" =>
        /\ linked[r] \in messages \intersect approvedBy
        /\ target[linked[r]] = r

(* A chat is deleted with every reply that was approved in it: an approval *)
(* that races the deletion is refused, waited for, or its message deleted, *)
(* while a message of the owner that comes late may outlive the chat       *)
(* without a thread.                                                       *)
ApprovedRepliesGoWithTheirChat ==
    ~threadOpen => /\ ThreadMessages = {}
                   /\ \A m \in messages : target[m] \notin OwnerChat

(* Every request that reached the service is answered: the lock orders of  *)
(* a decision and a deletion are opposite, so they can deadlock, and no    *)
(* failure leaves a lock behind that would block the others for ever.      *)
EveryRequestAnswered ==
    \A q \in Requests : pc[q] # "idle" ~> pc[q] \in Ended

(* The service implements the abstract gate: a decision is one step for    *)
(* all to see, and the customer receives a reply only by an approval of    *)
(* that reply that was already committed, once for each approval.          *)
Gate == INSTANCE ReplyGate WITH
    verdict    <- [r \in Replies |-> status[Held(r)]],
    approvals  <- {<<target[q], q>> : q \in approvedBy},
    deliveries <- {<<target[q], q>> : q \in delivered}

ImplementsGate == Gate!Gate

(* What the documentation says of the audit trail (paper.tex, the review   *)
(* records are a "complete audit trail"): a reply on record as rejected    *)
(* has not been delivered.  The code lets a rejection overwrite the record *)
(* of an approval that was already sent.                                   *)
RejectedIsNotDelivered ==
    \A q \in delivered : status[Record(target[q])] # "rejected"

-----------------------------------------------------------------------------
(* The inductive invariant behind Agreement and its companions: who holds  *)
(* which lock at which statement, and what a deletion's reads are good for *)
(* by the time its later statements rely on them.                          *)

(* The program points each kind of request goes through.                   *)
PointsOf(o) ==
    CASE o = "none"    -> {"idle"}
      [] o = "approve" -> DecisionPoints \union AfterPoints \union Ended
      [] o = "reject"  -> (DecisionPoints \ {"message"}) \union Ended
      [] o = "review"  -> {"record", "commit"} \union Ended
      [] o = "delete"  -> DeletePoints \union Ended
      [] o = "turn"    -> TurnPoints \union Ended

ControlInv ==
    \A q \in Requests :
        /\ pc[q] \in PointsOf(op[q])
        /\ op[q] \in {"approve", "reject", "review"} => target[q] \in Replies
        /\ op[q] = "turn" => target[q] = NoReply

(* What a request has committed, and what its later steps rely on.         *)
HistoryInv ==
    /\ \A q \in approvedBy : /\ op[q] = "approve"
                             /\ pc[q] \in AfterPoints \union Ended
    /\ unlinked \subseteq messages
    /\ \A m \in messages : m \in approvedBy \/ (op[m] = "turn" /\ pc[m] \in Ended)
    /\ \A m \in unlinked : op[m] = "turn"
    /\ delivered \subseteq approvedBy
    /\ \A q \in Requests : /\ pc[q] \in AfterPoints => q \in approvedBy
                           /\ pc[q] = "send" => q \notin delivered

(* A record's message is there, was written for this reply, and blocks     *)
(* nobody: its request has committed.                                      *)
LinkInv ==
    \A r \in Replies :
        /\ linked[r] # NoRequest => /\ Exists(Record(r))
                                    /\ linked[r] \in messages \intersect approvedBy
                                    /\ target[linked[r]] = r
        /\ status[Record(r)] = "approved" => linked[r] # NoRequest

(* Only running transactions hold locks, of rows that exist.               *)
LockInv ==
    \A x \in Rows : lock[x] # NoRequest => Exists(x) /\ InTx(lock[x])

(* A decision holds the rows it has updated, and no others.                *)
DecisionInv ==
    \A q \in Requests : Decides(q) =>
        /\ \A x \in Rows : lock[x] = q => x[2] = target[q]
        /\ pc[q] \in {"message", "record", "approval", "commit"}
              => lock[Held(target[q])] = q
        /\ pc[q] \in {"approval", "commit"} => lock[Record(target[q])] = q
        /\ pc[q] = "commit" => lock[Approval(target[q])] = q

(* A review holds its record only, a turn none of the rows.                *)
ReviewInv ==
    \A q \in Requests : op[q] \in {"review", "turn"} =>
        \A x \in Rows : lock[x] = q => op[q] = "review" /\ x = Record(target[q])

(* A deletion holds rows of the replies it has read only, and what it has  *)
(* read still covers the messages and the rows its statements select.      *)
HeldRead(q)         == pc[q] \notin {"thread", "readMessages", "readHeld"}
MessagesDropped(q)  == pc[q] \in {"unlink", "commit"}
HeldDropped(q)      == pc[q] = "dropMessages" \/ MessagesDropped(q)
RecordsDropped(q)   == HeldDropped(q) \/ pc[q] = "dropHeld"
ApprovalsDropped(q) == RecordsDropped(q)
                         \/ pc[q] \in {"dropRecordsOfMessages", "dropRecordsOfHeld"}

DeleteInv ==
    \A q \in Requests : op[q] = "delete" /\ InTx(q) =>
        /\ \/ \A m \in snapMessages[q] : m \in approvedBy \/ op[m] = "turn"
           \/ pc[q] \in {"thread", "readMessages"}
        /\ pc[q] = "readHeld" =>
              \A r \in Replies : linked[r] \in snapMessages[q] => r \in OwnerChat
        /\ pc[q] \in DropPoints \union {"dropMessages"} =>
              \A r \in Replies : linked[r] \in snapMessages[q] => r \in snapHeld[q]
        /\ \A x \in Rows : lock[x] = q =>
              /\ x[2] \in snapHeld[q]
              /\ pc[q] \in DropPoints \union {"dropMessages", "unlink", "commit"}
        /\ \A r \in snapHeld[q] :
              /\ status[Held(r)] = "absent" => ~HeldRead(q)
              /\ Exists(Approval(r)) /\ ApprovalsDropped(q) => lock[Approval(r)] = q
              /\ Exists(Record(r)) /\ RecordsDropped(q) => lock[Record(r)] = q
              /\ Exists(Held(r)) /\ HeldDropped(q) => lock[Held(r)] = q
        /\ MessagesDropped(q) =>
              \A r \in Replies : linked[r] \in snapMessages[q] => lock[Record(r)] = q

(* Who decides has seen a row.  The only deletion that runs has read every *)
(* reply of the chat that a decision is about, and what it has not deleted *)
(* is of the owner's turns.                                                *)
DecidedInv ==
    \A q \in Requests : Decides(q) => status[Held(target[q])] # "absent"

Deletes(q) == op[q] = "delete" /\ InTx(q)

HasReadTheDecided(q) ==
    \A p \in Requests :
        Decides(p) /\ target[p] \in OwnerChat /\ Exists(Held(target[p]))
            => target[p] \in snapHeld[q]

HasDroppedTheApproved(q) ==
    /\ snapMessages[q] \subseteq messages \ unlinked
    /\ \A m \in messages : target[m] \in OwnerChat => m \in snapMessages[q]

RaceInv ==
    /\ \A p, q \in Requests : Deletes(p) /\ Deletes(q) => p = q
    /\ \A q \in Requests : Deletes(q) =>
          /\ HeldRead(q) => HasReadTheDecided(q)
          /\ MessagesDropped(q) => HasDroppedTheApproved(q)
          /\ pc[q] = "commit" =>
                snapLate[q] \subseteq {m \in messages : op[m] = "turn"} \ snapMessages[q]

(* Nobody can be writing to a thread that is gone.                         *)
ThreadInv ==
    ~threadOpen => /\ ThreadMessages = {}
                   /\ \A m \in messages : target[m] \notin OwnerChat
                   /\ \A q \in Requests : ~SharesThread(q)

IInv ==
    /\ TypeOK
    /\ Agreement
    /\ ControlInv
    /\ HistoryInv
    /\ LinkInv
    /\ LockInv
    /\ DecisionInv
    /\ ReviewInv
    /\ DeleteInv
    /\ DecidedInv
    /\ RaceInv
    /\ ThreadInv
=============================================================================
