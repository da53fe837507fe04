-------------------------- MODULE TelegramWebhook --------------------------
(***************************************************************************)
(* The webhook (integrations/telegram_webhook.py): coroutines of one event *)
(* loop that serve the deliveries of updates.  A table in process memory   *)
(* tells redeliveries apart, and an asyncio lock per chat, made on demand  *)
(* and pruned by age, keeps the messages of a chat from being processed at *)
(* the same time.  What stands between two awaits of a coroutine is one    *)
(* action.  A restart loses both tables and everything in progress;        *)
(* Telegram delivers an update again until it has had an answer.           *)
(***************************************************************************)
EXTENDS Naturals, Sequences, FiniteSets, SequencesExt

CONSTANTS
    Updates,
    Chat,               \* chat of each update
    DedupTTL, LockTTL,  \* in ticks of the clock
    MaxDeliveries       \* bound of the model: how often an update is sent

ASSUME WebhookAssumption == {DedupTTL, LockTTL, MaxDeliveries} \subseteq Nat

Chats == {Chat[u] : u \in Updates}
Deliveries == Updates \X (1..MaxDeliveries)
UpdateOf(d) == d[1]
ChatOf(d) == Chat[d[1]]

NoLock == <<>>       \* a lock has the name of the delivery that made it

VARIABLES
    text,        \* what an update says: "/start", only whitespace, or more
    delivered,   \* how often Telegram has sent an update
    answered,    \* updates that Telegram has had a 200 for
    remembered,  \* _PROCESSED_UPDATE_IDS, as ages
    lockOf,      \* _CHAT_LOCKS
    unused,      \* _CHAT_LOCK_LAST_USED, as ages
    waiters,     \* the queue inside each lock
    pc,          \* where each delivery stands
    mine,        \* the lock it uses
    waited,      \* how long it waited for the lock
    handled,     \* updates that were processed to the end
    dropped,     \* updates taken on in vain, and not taken on again since
    sinceTaken   \* how long ago this process took an update on

memory  == <<remembered, lockOf, unused, waiters>>
history == <<waited, handled, dropped, sinceTaken>>
vars    == <<text, delivered, answered, memory, pc, mine, history>>

(* Ages stop growing one tick after all that the code compares them with.  *)
Oldest == (IF DedupTTL > LockTTL THEN DedupTTL ELSE LockTTL) + 1
Absent == Oldest + 1
Older(age) == IF age < Oldest THEN age + 1 ELSE age

Init ==
    /\ text \in [Updates -> {"start", "blank", "message"}]
    /\ delivered = [u \in Updates |-> 0]
    /\ answered = {}
    /\ remembered = [u \in Updates |-> Absent]
    /\ lockOf = [c \in Chats |-> NoLock]
    /\ unused = [c \in Chats |-> Absent]
    /\ waiters = [l \in Deliveries |-> <<>>]
    /\ pc = [d \in Deliveries |-> "none"]
    /\ mine = [d \in Deliveries |-> NoLock]
    /\ waited = [d \in Deliveries |-> 0]
    /\ handled = {}
    /\ dropped = {}
    /\ sinceTaken = [u \in Updates |-> Absent]

Goto(d, p) == pc' = [pc EXCEPT ![d] = p]

Live(d) == pc[d] \notin {"none", "over"}

(* Taken on, and neither processed to the end nor given up.                *)
Working(d) == pc[d] \in {"start", "typing", "lock", "waiting", "woken", "running"}

-----------------------------------------------------------------------------
(* Telegram sends an update as long as it has had no answer, also while an *)
(* earlier request for it is open.                                         *)
Deliver(u) ==
    /\ u \notin answered
    /\ delivered[u] < MaxDeliveries
    /\ delivered' = [delivered EXCEPT ![u] = @ + 1]
    /\ Goto(<<u, delivered[u] + 1>>, "received")
    /\ UNCHANGED <<text, answered, memory, mine, history>>

(* Mutant of Refuse: the update is remembered before the secret is checked.*)
RefuseRemembered(d) ==
    /\ pc[d] = "received"
    /\ Goto(d, "over")
    /\ remembered' = [remembered EXCEPT ![UpdateOf(d)] = 0]
    /\ UNCHANGED <<text, delivered, answered, lockOf, unused, waiters, mine, history>>

(* The secret is unknown, or looking it up fails.                          *)
Refuse(d) ==
    /\ pc[d] = "received"
    /\ Goto(d, "over")
    /\ UNCHANGED <<text, delivered, answered, memory, mine, history>>

(* Mutant of Fresh: an entry is stale as soon as it reaches the age.       *)
FreshBelow(age, ttl) == age # Absent /\ age < ttl

Fresh(age, ttl) == age # Absent /\ age <= ttl

(* Splitting a text of whitespace and taking its first word raises, after  *)
(* the update has been remembered.                                         *)
FirstStep(u) ==
    CASE text[u] = "start"   -> "start"
      [] text[u] = "message" -> "typing"
      [] text[u] = "blank"   -> "over"

(* _remember_update, which drops old entries first, and the dispatch.      *)
Remember(d) ==
    LET u == UpdateOf(d)
        kept == [v \in Updates |->
                    IF Fresh(remembered[v], DedupTTL) THEN remembered[v] ELSE Absent]
    IN
    /\ pc[d] = "received"
    /\ \/ /\ kept[u] # Absent
          /\ remembered' = kept
          /\ Goto(d, "answer") /\ UNCHANGED <<dropped, sinceTaken>>
       \/ /\ kept[u] = Absent
          /\ remembered' = [kept EXCEPT ![u] = 0]
          /\ dropped' = IF text[u] = "blank" THEN dropped \union {u} ELSE dropped \ {u}
          /\ sinceTaken' = [sinceTaken EXCEPT ![u] = 0]
          /\ Goto(d, FirstStep(u))
    /\ UNCHANGED <<text, delivered, answered, lockOf, unused, waiters, mine, waited,
                   handled>>

(* _handle_start_message, in a thread and without the lock; it logs its    *)
(* exceptions.                                                             *)
HandleStart(d) ==
    /\ pc[d] = "start"
    /\ handled' = handled \union {UpdateOf(d)}
    /\ Goto(d, "answer")
    /\ UNCHANGED <<text, delivered, answered, memory, mine, waited, dropped, sinceTaken>>

(* send_telegram_chat_action, in a thread; its errors are swallowed.       *)
SendTyping(d) ==
    /\ pc[d] = "typing"
    /\ Goto(d, "lock")
    /\ UNCHANGED <<text, delivered, answered, memory, mine, history>>

Locked(l) == \E d \in Deliveries : mine[d] = l /\ pc[d] = "running"

(* Mutant of Prunable: locks are pruned by age alone.                      *)
PrunableByAge(c) ==
    lockOf[c] # NoLock /\ ~Fresh(unused[c], LockTTL)

(* _prune_chat_locks.  A released lock whose first waiter has been woken   *)
(* but has not run yet is not locked().                                    *)
Prunable(c) ==
    /\ lockOf[c] # NoLock
    /\ ~Fresh(unused[c], LockTTL)
    /\ ~Locked(lockOf[c])

(* _chat_lock and the entry of "async with": taken at once if it is free   *)
(* and nobody waits.                                                       *)
AskForLock(d) ==
    LET c == ChatOf(d)
        lock == IF lockOf[c] = NoLock \/ Prunable(c) THEN d ELSE lockOf[c]
        free == ~Locked(lock) /\ waiters[lock] = <<>>
    IN
    /\ pc[d] = "lock"
    /\ lockOf' = [a \in Chats |-> IF a = c THEN lock
                                  ELSE IF Prunable(a) THEN NoLock ELSE lockOf[a]]
    /\ unused' = [a \in Chats |-> IF a = c THEN 0
                                    ELSE IF Prunable(a) THEN Absent ELSE unused[a]]
    /\ mine' = [mine EXCEPT ![d] = lock]
    /\ waited' = [waited EXCEPT ![d] = 0]
    /\ \/ free /\ Goto(d, "running") /\ UNCHANGED waiters
       \/ /\ ~free
          /\ Goto(d, "waiting")
          /\ waiters' = [waiters EXCEPT ![lock] = Append(@, d)]
    /\ UNCHANGED <<text, delivered, answered, remembered, handled, dropped, sinceTaken>>

(* Mutant of Awake: releasing the lock wakes nobody.                       *)
AwakeNot(d, next) == [pc EXCEPT ![d] = "answer"]

(* Release wakes the first waiter.                                         *)
Awake(d, next) ==
    [e \in Deliveries |-> IF e = d THEN "answer"
                          ELSE IF next # <<>> /\ e = Head(next) THEN "woken"
                          ELSE pc[e]]

(* process_incoming_message, which ends one way or the other: exceptions   *)
(* are logged.  Leaving "async with" releases the lock.                    *)
Process(d) ==
    /\ pc[d] = "running"
    /\ pc' = Awake(d, waiters[mine[d]])
    /\ mine' = [mine EXCEPT ![d] = NoLock]
    /\ waited' = [waited EXCEPT ![d] = 0]
    /\ handled' = handled \union {UpdateOf(d)}
    /\ UNCHANGED <<text, delivered, answered, memory, dropped, sinceTaken>>

(* Mutant of Acquire: the waiter stays in the queue.                       *)
AcquireStaying(d) ==
    /\ pc[d] = "woken"
    /\ Goto(d, "running")
    /\ UNCHANGED <<text, delivered, answered, memory, mine, history>>

(* A woken waiter runs: it leaves the queue and holds the lock.            *)
Acquire(d) ==
    /\ pc[d] = "woken"
    /\ waiters' = [waiters EXCEPT ![mine[d]] = RemoveFirst(@, d)]
    /\ Goto(d, "running")
    /\ UNCHANGED <<text, delivered, answered, remembered, lockOf, unused,
                   mine, history>>

(* 200, which Telegram gets unless it has closed the connection before.    *)
Answer(d) ==
    /\ pc[d] = "answer"
    /\ Goto(d, "over")
    /\ \/ answered' = answered \union {UpdateOf(d)}
       \/ UNCHANGED answered
    /\ UNCHANGED <<text, delivered, memory, mine, history>>

Restart ==
    /\ \E d \in Deliveries : Live(d)
    /\ remembered' = [u \in Updates |-> Absent]
    /\ lockOf' = [c \in Chats |-> NoLock]
    /\ unused' = [c \in Chats |-> Absent]
    /\ waiters' = [l \in Deliveries |-> <<>>]
    /\ pc' = [d \in Deliveries |-> IF Live(d) THEN "over" ELSE pc[d]]
    /\ mine' = [d \in Deliveries |-> NoLock]
    /\ waited' = [d \in Deliveries |-> 0]
    /\ sinceTaken' = [u \in Updates |-> Absent]
    /\ dropped' = dropped \union {UpdateOf(d) : d \in {e \in Deliveries : Working(e)}}
    /\ UNCHANGED <<text, delivered, answered, handled>>

Aged(ages) == [i \in DOMAIN ages |-> Older(ages[i])]

Tick ==
    /\ remembered' = Aged(remembered)
    /\ unused' = Aged(unused)
    /\ sinceTaken' = Aged(sinceTaken)
    /\ waited' = [d \in Deliveries |-> IF pc[d] \in {"waiting", "woken"}
                                         THEN Older(waited[d]) ELSE waited[d]]
    /\ UNCHANGED <<text, delivered, answered, lockOf, waiters, pc, mine,
                   handled, dropped>>

Step(d) ==
    \/ Remember(d) \/ HandleStart(d) \/ SendTyping(d) \/ AskForLock(d)
    \/ Process(d) \/ Acquire(d) \/ Answer(d)

Next ==
    \/ \E d \in Deliveries : Step(d) \/ Refuse(d)
    \/ \E u \in Updates : Deliver(u)
    \/ Restart \/ Tick

(* The event loop runs some coroutine as long as one can run.  No delivery *)
(* takes more than six steps, so this is all the fairness there is to ask  *)
(* for.                                                                    *)
Fairness == WF_vars(\E d \in Deliveries : Step(d))

Spec == Init /\ [][Next]_vars /\ Fairness

-----------------------------------------------------------------------------
(* What must hold.                                                         *)

(* The types; who waits is in the queue of its lock, once, and nobody else.*)
TypeOK ==
    /\ delivered \in [Updates -> 0..MaxDeliveries]
    /\ UNION {answered, handled, dropped} \subseteq Updates
    /\ {remembered, sinceTaken} \subseteq [Updates -> 0..Absent]
    /\ waited \in [Deliveries -> 0..Oldest]
    /\ \A c \in Chats : lockOf[c] = NoLock <=> unused[c] = Absent
    /\ \A l \in Deliveries :
          /\ IsInjective(waiters[l])
          /\ ToSet(waiters[l]) =
                {d \in Deliveries : mine[d] = l /\ pc[d] \in {"waiting", "woken"}}

(* Two messages of a chat are processed at the same time only if one of    *)
(* them has waited for the lock longer than the age at which it is pruned. *)
OneAtATime ==
    \A d, e \in Deliveries :
        /\ d # e /\ ChatOf(d) = ChatOf(e)
        /\ pc[d] = "running" /\ pc[e] = "running"
        => \E w \in {d, e} : waited[w] > LockTTL

(* A process takes an update on again only when it did so long ago.        *)
NoRepeatWithinTTL ==
    [][\A d \in Deliveries :
          pc[d] = "received" /\ pc'[d] \in {"start", "typing"}
          => sinceTaken[UpdateOf(d)] > DedupTTL]_vars

(* An update that Telegram has had a 200 for was processed to the end, is  *)
(* being worked on, or was lost in one of two ways: its text is blank, or a*)
(* restart cut off the delivery that worked on it and no later delivery has*)
(* taken it on again.  (A redelivery that comes while another one works is *)
(* answered at once.)                                                      *)
AnsweredIsHandled ==
    \A u \in answered \ (handled \union dropped) :
        \E d \in Deliveries : UpdateOf(d) = u /\ Working(d)

(* Nobody waits for the lock of a chat for ever: again and again every     *)
(* delivery has been answered, refused, or cut off by a restart.           *)
EveryDeliveryEnds == []<>(\A d \in Deliveries : ~Live(d))
=============================================================================
