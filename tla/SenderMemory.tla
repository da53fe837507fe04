---------------------------- MODULE SenderMemory ----------------------------
(***************************************************************************)
(* What the system remembers of an external sender: the thread row, its    *)
(* messages, and the row of conversation_sender_memories that holds a      *)
(* summary and message_count_since_update (services/conversation_memory.py,*)
(* agents/memory_agent.py, nodes/intake.py, api/router.py,                 *)
(* integrations/telegram_webhook.py).                                      *)
(*                                                                         *)
(* An exchange is one inbound message with its reply.  Its transactions    *)
(* read rows through the ORM and write at their end what they computed     *)
(* from what they read: one action for each read, one for the flush with   *)
(* the COMMIT.  Row locks between flush and COMMIT only delay another      *)
(* writer, who then writes what it had computed before, so they are left   *)
(* out.                                                                    *)
(*                                                                         *)
(* A /start is answered by the webhook itself: message and answer go into  *)
(* the thread in one transaction, past the chat lock and past the counter. *)
(***************************************************************************)
EXTENDS Naturals, Sequences, FiniteSets

CONSTANTS
    Exchanges,   \* messages of one sender, each with its reply
    Threshold,   \* profiles.sender_summary_threshold
    Recent       \* messages a refresh reads (limit=30)

ASSUME ThresholdAssumption == Threshold \in Nat \ {0}
ASSUME RecentAssumption == Recent \in Nat \ {0}

Messages == Exchanges \X {"inbound", "outbound"}

VARIABLES
    serial,     \* exchanges run one at a time (the chat lock of the webhook)
                \* and the owner decides nothing meanwhile; never changes
    thread,     \* the conversation_threads row of the sender is committed
    log,        \* committed messages of the thread, oldest first
    counter,    \* message_count_since_update, as a set: {} is "no row"
    summary,    \* places in log whose message went into the summary
    pc,         \* the step each exchange is about to take
    sawThread,  \* the thread was there when the exchange looked
    seen,       \* the counter as the exchange read it
    base,       \* the summary as it read it
    recent,     \* places in log it read for the summary
    approved,   \* exchanges whose held reply the owner approved
    started,    \* exchanges that are a /start with its answer
    unstored    \* exchanges whose inbound message was lost in a failed COMMIT

stored == <<serial, thread, log, counter, summary>>
reads  == <<sawThread, seen, base, recent>>
status == <<approved, started, unstored>>
vars   == <<stored, reads, pc, status>>

Points == {"new", "greet", "thread", "counter", "store", "answer", "fallback",
           "unthreaded", "held", "recall", "recent", "summarise", "replyCounter", "saveReply", "done"}

Init ==
    /\ serial \in BOOLEAN
    /\ thread = FALSE
    /\ log = <<>>
    /\ counter = {}
    /\ summary = {}
    /\ pc = [m \in Exchanges |-> "new"]
    /\ sawThread = [m \in Exchanges |-> FALSE]
    /\ seen = [m \in Exchanges |-> {}]
    /\ base = [m \in Exchanges |-> {}]
    /\ recent = [m \in Exchanges |-> {}]
    /\ approved = {}
    /\ started = {}
    /\ unstored = {}

Goto(m, p) == pc' = [pc EXCEPT ![m] = p]

(* A held reply waits for the owner outside the webhook's lock, and is     *)
(* finished by the approval request; a /start never takes the lock.        *)
Running(m) == pc[m] \notin {"new", "greet", "held", "done"} /\ m \notin approved

-----------------------------------------------------------------------------
(* _handle_start_message looks for the thread, or prepares a new one, ...  *)

Greet(m) ==
    /\ pc[m] = "new"
    /\ started' = started \union {m}
    /\ sawThread' = [sawThread EXCEPT ![m] = thread]
    /\ Goto(m, "greet")
    /\ UNCHANGED <<stored, seen, base, recent, approved, unstored>>

(* ... and commits both messages.  A failure rolls both back (Stop); so    *)
(* does a thread that was inserted meanwhile.                              *)
StoreGreeting(m) ==
    /\ pc[m] = "greet"
    /\ ~sawThread[m] => ~thread
    /\ thread' = TRUE
    /\ log' = log \o <<<<m, "inbound">>, <<m, "outbound">>>>
    /\ Goto(m, "done")
    /\ UNCHANGED <<serial, counter, summary, reads, status>>

-----------------------------------------------------------------------------
(* intake_node: thread, inbound message and counter in one transaction.    *)

Arrive(m) ==
    /\ pc[m] = "new"
    /\ serial => \A n \in Exchanges : ~Running(n)
    /\ Goto(m, "thread")
    /\ UNCHANGED <<stored, reads, status>>

FindThread(m) ==
    /\ pc[m] = "thread"
    /\ sawThread' = [sawThread EXCEPT ![m] = thread]
    /\ Goto(m, "counter")
    /\ UNCHANGED <<stored, seen, base, recent, status>>

(* increment_sender_memory_counter reads the row ...                       *)
ReadCounter(m) ==
    /\ pc[m] \in {"counter", "replyCounter"}
    /\ seen' = [seen EXCEPT ![m] = counter]
    /\ Goto(m, IF pc[m] = "counter" THEN "store" ELSE "saveReply")
    /\ UNCHANGED <<stored, sawThread, base, recent, status>>

(* Mutant of Incremented: a new row is incremented as well.                *)
IncrementedTwice(read) == IF read = {} THEN {2} ELSE {n + 1 : n \in read}

(* ... and inserts it with 1, or writes back what it read plus 1.          *)
Incremented(read) == IF read = {} THEN {1} ELSE {n + 1 : n \in read}

(* Inserting a row that another transaction has inserted meanwhile violates*)
(* a unique index.                                                         *)
Inserts(m) == seen[m] = {} => counter = {}

Flushed(m) ==
    /\ pc[m] = "store"
    /\ ~sawThread[m] => ~thread
    /\ Inserts(m)

Committed(m) ==
    /\ thread' = TRUE
    /\ log' = Append(log, <<m, "inbound">>)
    /\ counter' = Incremented(seen[m])

StoreInbound(m) ==
    /\ Flushed(m)
    /\ Committed(m)
    /\ Goto(m, "answer")
    /\ UNCHANGED <<serial, summary, reads, status>>

(* Mutant of IntakeFails: the handler goes on with the thread it had found.*)
IntakeFailsThreaded(m) ==
    /\ pc[m] \in {"thread", "counter", "store"}
    /\ Goto(m, "answer")
    /\ UNCHANGED <<stored, reads, status>>

(* Any exception before the COMMIT, a violated index among them, rolls the *)
(* transaction back; the message is processed as one of an unknown customer*)
(* without a thread.                                                       *)
IntakeFails(m) ==
    /\ pc[m] \in {"thread", "counter", "store"}
    /\ Goto(m, "unthreaded")
    /\ UNCHANGED <<stored, reads, status>>

(* When the COMMIT itself fails, or succeeds and seems to fail, the handler*)
(* has set conversation_thread_id already.  If that thread exists, the     *)
(* reply goes there; otherwise saving the reply fails as well.             *)
CommitFails(m) ==
    /\ Flushed(m)
    /\ \/ /\ Committed(m)
          /\ Goto(m, "fallback")
          /\ UNCHANGED <<serial, summary, reads, status>>
       \/ /\ unstored' = unstored \union {m}
          /\ Goto(m, IF sawThread[m] THEN "fallback" ELSE "unthreaded")
          /\ UNCHANGED <<stored, reads, approved, started>>

-----------------------------------------------------------------------------
(* The pipeline holds the reply or lets it pass.  Without a thread there is*)
(* nothing to summarise, and the reply is saved under no thread.  A held   *)
(* reply keeps thread_id, which after a failure of intake is not the       *)
(* thread's.                                                               *)

Hold(m) ==
    /\ pc[m] \in {"answer", "fallback", "unthreaded"}
    /\ Goto(m, IF pc[m] = "answer" THEN "held" ELSE "done")
    /\ UNCHANGED <<stored, reads, status>>

Release(m) ==
    /\ pc[m] \in {"answer", "fallback", "unthreaded"}
    /\ Goto(m, IF pc[m] = "unthreaded" THEN "done" ELSE "recall")
    /\ UNCHANGED <<stored, reads, status>>

(* approve_reply inserts the outbound message and counts it, and runs the  *)
(* memory update afterwards; reject_reply touches neither.                 *)
Approve(m) ==
    /\ pc[m] = "held"
    /\ ~serial
    /\ approved' = approved \union {m}
    /\ Goto(m, "replyCounter")
    /\ UNCHANGED <<stored, reads, started, unstored>>

SaveReply(m) ==
    /\ pc[m] = "saveReply"
    /\ Inserts(m)
    /\ log' = Append(log, <<m, "outbound">>)
    /\ counter' = Incremented(seen[m])
    /\ Goto(m, IF m \in approved THEN "recall" ELSE "done")
    /\ UNCHANGED <<serial, thread, summary, reads, status>>

(* A restart, or an exception outside intake: what is not committed is not *)
(* done, and nothing takes it up again.                                    *)
Stop(m) ==
    /\ pc[m] \notin {"new", "held", "done"}
    /\ Goto(m, "done")
    /\ UNCHANGED <<stored, reads, status>>

-----------------------------------------------------------------------------
(* _maybe_refresh_sender_summary, in the transaction of memory_update_node.*)

AfterMemory(m) == IF m \in approved THEN "done" ELSE "replyCounter"

(* A row that is not there, or not due, is left alone.                     *)
Due(c) == \E n \in c : n >= Threshold

Recall(m) ==
    /\ pc[m] = "recall"
    /\ base' = [base EXCEPT ![m] = summary]
    /\ Goto(m, IF Due(counter) THEN "recent" ELSE AfterMemory(m))
    /\ UNCHANGED <<stored, sawThread, seen, recent, status>>

(* Mutant of LastMessages: the window is not cut off at the first message. *)
LastMessagesUncut == IF Len(log) > Recent THEN 1 + Len(log) - Recent .. Len(log)
                     ELSE 0 .. Len(log)

LastMessages == {i \in DOMAIN log : i + Recent > Len(log)}

ReadRecent(m) ==
    /\ pc[m] = "recent"
    /\ recent' = [recent EXCEPT ![m] = LastMessages]
    /\ Goto(m, "summarise")
    /\ UNCHANGED <<stored, sawThread, seen, base, status>>

(* Mutant of SaveSummary: the prompt has no previous summary.              *)
SaveSummaryAfresh(m) ==
    /\ pc[m] = "summarise"
    /\ summary' = recent[m]
    /\ counter' = {0}
    /\ Goto(m, AfterMemory(m))
    /\ UNCHANGED <<serial, thread, log, reads, status>>

(* The LLM folds the messages into the previous summary.  The counter is   *)
(* set to zero, whatever was counted since the messages were read.         *)
SaveSummary(m) ==
    /\ pc[m] = "summarise"
    /\ summary' = base[m] \union recent[m]
    /\ counter' = {0}
    /\ Goto(m, AfterMemory(m))
    /\ UNCHANGED <<serial, thread, log, reads, status>>

(* Mutant of NoSummary: the counter is reset before the answer is looked   *)
(* at.                                                                     *)
NoSummaryButReset(m) ==
    /\ pc[m] \in {"recall", "recent", "summarise"}
    /\ counter' = IF pc[m] = "summarise" THEN {0} ELSE counter
    /\ Goto(m, AfterMemory(m))
    /\ UNCHANGED <<serial, thread, log, summary, reads, status>>

(* An empty answer of the LLM, or an exception anywhere in the node, the   *)
(* storage of proposals included, leaves summary and counter as they were. *)
NoSummary(m) ==
    /\ pc[m] \in {"recall", "recent", "summarise"}
    /\ Goto(m, AfterMemory(m))
    /\ UNCHANGED <<stored, reads, status>>

-----------------------------------------------------------------------------
Step(m) ==
    \/ Greet(m) \/ StoreGreeting(m) \/ Arrive(m) \/ FindThread(m) \/ ReadCounter(m) \/ StoreInbound(m)
    \/ IntakeFails(m) \/ CommitFails(m) \/ Hold(m) \/ Release(m) \/ Approve(m) \/ SaveReply(m)
    \/ Stop(m) \/ Recall(m) \/ ReadRecent(m) \/ SaveSummary(m) \/ NoSummary(m)

(* Every exchange is over, or its reply is held and stays so.              *)
Quiescent ==
    /\ \A m \in Exchanges : pc[m] = "done" \/ (pc[m] = "held" /\ serial)
    /\ UNCHANGED vars

Next == (\E m \in Exchanges : Step(m)) \/ Quiescent

Spec == Init /\ [][Next]_vars

-----------------------------------------------------------------------------
(* Every variable keeps its type.                                          *)
TypeOK ==
    /\ serial \in BOOLEAN
    /\ thread \in BOOLEAN
    /\ log \in Seq(Messages)
    /\ \A S \in {counter} \union {seen[m] : m \in Exchanges} :
           S \subseteq Nat /\ \A x, y \in S : x = y
    /\ summary \subseteq DOMAIN log
    /\ pc \in [Exchanges -> Points]
    /\ sawThread \in [Exchanges -> BOOLEAN]
    /\ \A m \in Exchanges : base[m] \union recent[m] \subseteq DOMAIN log
    /\ approved \subseteq Exchanges
    /\ started \subseteq Exchanges
    /\ unstored \subseteq Exchanges

(* However increments and refreshes overwrite each other, the counter      *)
(* never counts more messages than the thread has: a refresh is never due  *)
(* on the strength of messages that were rolled back or never stored.      *)
CountsStoredMessages == \A n \in counter : n <= Len(log)

(* The history of a thread shows a reply without the message it replies to *)
(* only if the COMMIT of that message failed: an exchange whose intake     *)
(* failed earlier stays out of it altogether.                              *)
RepliesFollowTheirMessage ==
    \A i \in DOMAIN log :
        log[i][2] = "outbound" /\ log[i][1] \notin unstored =>
        \E j \in 1 .. i - 1 : log[j] = <<log[i][1], "inbound">>

(* The last message that went into the summary.                            *)
Summarised == IF summary = {} THEN 0
              ELSE CHOOSE i \in summary : \A j \in summary : j <= i

(* A row that is not there has counted nothing.                            *)
Counted == IF counter = {} THEN {0} ELSE counter

(* What came after it, other than a /start and its answer.                 *)
Fresh == {i \in DOMAIN log : i > Summarised /\ log[i][1] \notin started}

(* When the exchanges of a sender run one at a time and the owner decides  *)
(* nothing meanwhile, the counter is exactly the number of messages after  *)
(* the last one that was summarised, whatever fails and whenever a /start  *)
(* comes in between.  Messages of a /start are never counted.              *)
CountIsExact == serial => Counted = {Cardinality(Fresh)}

(* Then a refresh also never loses what an earlier one had summarised, and *)
(* runs only when Threshold counted messages have come since.              *)
SummaryGrows ==
    [][serial /\ summary' # summary =>
          /\ summary \subseteq summary'
          /\ Cardinality(Fresh) >= Threshold]_vars
=============================================================================
