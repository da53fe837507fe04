----------------------- MODULE TelegramWebhookProofs -----------------------
(***************************************************************************)
(* Proofs about TelegramWebhook, for any updates, chats, ages and number of*)
(* deliveries: messages of a chat are processed one at a time, except after*)
(* a wait longer than the age at which locks are pruned, an update is not  *)
(* taken on twice soon, and one that is answered was handled, is in work or*)
(* was lost in one of two ways.                                            *)
(***************************************************************************)
EXTENDS TelegramWebhook, TLAPS

Before == {"none", "received", "start", "typing", "lock"}
Using  == {"waiting", "woken", "running"}
Points == Before \union Using \union {"answer", "over"}

Typed ==
    /\ text \in [Updates -> {"start", "blank", "message"}]
    /\ delivered \in [Updates -> 0..MaxDeliveries]
    /\ answered \subseteq Updates /\ handled \subseteq Updates /\ dropped \subseteq Updates
    /\ remembered \in [Updates -> 0..Absent]
    /\ sinceTaken \in [Updates -> 0..Absent]
    /\ pc \in [Deliveries -> Points]

LocksTyped ==
    /\ lockOf \in [Chats -> Deliveries \union {NoLock}]
    /\ unused \in [Chats -> 0..Absent]
    /\ waiters \in [Deliveries -> Seq(Deliveries)]
    /\ mine \in [Deliveries -> Deliveries \union {NoLock}]
    /\ waited \in [Deliveries -> 0..Oldest]

(* A delivery has a lock while it waits for it or holds it.                *)
HoldsOrWaits == \A d \in Deliveries : mine[d] # NoLock <=> pc[d] \in Using

(* Nobody uses a lock that is not made yet.                                *)
UnmadeIsUnused ==
    \A d \in Deliveries : pc[d] \in Before =>
        /\ \A e \in Deliveries : mine[e] # d
        /\ \A c \in Chats : lockOf[c] # d
        /\ waiters[d] = <<>>

(* A lock is used in the chat it was made for.                             *)
LocksOfTheirChat ==
    /\ \A d \in Deliveries : mine[d] # NoLock => ChatOf(mine[d]) = ChatOf(d)
    /\ \A c \in Chats : lockOf[c] # NoLock => ChatOf(lockOf[c]) = c
    /\ \A c \in Chats : lockOf[c] = NoLock <=> unused[c] = Absent

Queues ==
    \A l \in Deliveries :
        /\ IsInjective(waiters[l])
        /\ ToSet(waiters[l]) =
              {d \in Deliveries : mine[d] = l /\ pc[d] \in {"waiting", "woken"}}

(* A lock has one holder, if a waiter who was woken counts as one, and a   *)
(* queue is only there if it has.                                          *)
Holds(d) == pc[d] \in {"woken", "running"}

OneHolder ==
    \A d, e \in Deliveries : Holds(d) /\ Holds(e) /\ mine[d] = mine[e] => d = e

FirstIsWoken ==
    \A d \in Deliveries :
        pc[d] = "woken" => waiters[mine[d]] # <<>> /\ Head(waiters[mine[d]]) = d

QueueHasHolder ==
    \A l \in Deliveries :
        waiters[l] # <<>> => \E d \in Deliveries : mine[d] = l /\ Holds(d)

(* Who waits for the lock of the table has waited as long as the table has *)
(* not given it out; who uses another lock has waited longer.              *)
WaitedWhileUnused ==
    \A d \in Deliveries :
        pc[d] \in {"waiting", "woken"} /\ lockOf[ChatOf(d)] = mine[d] =>
            waited[d] >= unused[ChatOf(d)]

StrayHasWaited ==
    \A d \in Deliveries :
        mine[d] # NoLock /\ lockOf[ChatOf(d)] # mine[d] => waited[d] > LockTTL

LockInv ==
    /\ LocksTyped /\ HoldsOrWaits /\ UnmadeIsUnused /\ LocksOfTheirChat
    /\ Queues /\ OneHolder /\ FirstIsWoken /\ QueueHasHolder
    /\ WaitedWhileUnused /\ StrayHasWaited

(* An update was processed, is in work, or was lost.                       *)
Accounted(u) ==
    \/ u \in handled \union dropped
    \/ \E d \in Deliveries : UpdateOf(d) = u /\ Working(d)

(* What a process remembers, answers or has answered is accounted for; what*)
(* it has taken on it remembers, or long ago.                              *)
UpdateInv ==
    /\ \A u \in Updates : \A n \in 1..MaxDeliveries :
          n > delivered[u] => pc[<<u, n>>] = "none"
    /\ \A d \in Deliveries : pc[d] = "answer" => Accounted(UpdateOf(d))
    /\ \A u \in Updates : remembered[u] # Absent => Accounted(u)
    /\ \A u \in answered : Accounted(u)
    /\ \A u \in Updates : sinceTaken[u] > DedupTTL \/ remembered[u] = sinceTaken[u]

IInv == Typed /\ LockInv /\ UpdateInv

-----------------------------------------------------------------------------
(* Facts about ages, deliveries and queues.                                *)
LEMMA AgeFacts ==
    /\ DedupTTL \in Nat /\ LockTTL \in Nat /\ MaxDeliveries \in Nat
    /\ Oldest \in Nat /\ Oldest > DedupTTL /\ Oldest > LockTTL /\ Absent = Oldest + 1
    /\ \A a \in 0..Oldest : Older(a) \in 0..Oldest /\ Older(a) >= a
    /\ \A a \in 0..Absent : Older(a) \in 0..Absent /\ (Older(a) = Absent <=> a = Absent)
    /\ \A a, b \in 0..Absent : a >= b /\ a # Absent => Older(a) >= Older(b)
    /\ \A a \in 0..Absent : Older(a) >= a
  BY WebhookAssumption DEF Oldest, Absent, Older

LEMMA DeliveryFacts ==
    /\ NoLock \notin Deliveries
    /\ \A d \in Deliveries : ChatOf(d) \in Chats /\ UpdateOf(d) \in Updates
    /\ \A u \in Updates : \A n \in 1..MaxDeliveries :
          <<u, n>> \in Deliveries /\ UpdateOf(<<u, n>>) = u
    /\ \A d \in Deliveries : d = <<UpdateOf(d), d[2]>> /\ d[2] \in 1..MaxDeliveries
  BY DEF NoLock, Deliveries, ChatOf, UpdateOf, Chats

(* Removing the first element leaves the rest.                             *)
LEMMA RemoveHead ==
    ASSUME NEW S, NEW q \in Seq(S), q # <<>>
    PROVE  RemoveFirst(q, Head(q)) = Tail(q)
  <1> DEFINE I == {i \in 1..Len(q) : q[i] = Head(q)}
  <1>1. 1 \in I /\ \A i \in I : i \in Nat /\ 1 <= i
    OBVIOUS
  <1>2. Min(I) = 1
    BY <1>1 DEF Min
  <1>3. SelectInSeq(q, LAMBDA v : v = Head(q)) = 1
    BY <1>1, <1>2 DEF SelectInSeq
  <1>4. SubSeq(q, 1, 0) \o SubSeq(q, 2, Len(q)) = Tail(q)
    OBVIOUS
  <1>5. \E i \in 1..Len(q) : q[i] = Head(q)
    BY <1>1
  <1>6. RemoveFirst(q, Head(q)) = RemoveAt(q, 1)
    BY <1>3, <1>5 DEF RemoveFirst
  <1>7. RemoveAt(q, 1) = SubSeq(q, 1, 0) \o SubSeq(q, 2, Len(q))
    BY DEF RemoveAt
  <1> QED
    BY <1>4, <1>6, <1>7
-----------------------------------------------------------------------------
(* The inductive invariant holds before the first update.                  *)
LEMMA InitIInv == Init => IInv
  <1> SUFFICES ASSUME Init PROVE IInv
    OBVIOUS
  <1>1. Typed /\ LocksTyped
    BY AgeFacts DEF Init, Typed, LocksTyped, Points, Before
  <1>2. /\ \A d \in Deliveries : pc[d] = "none" /\ mine[d] = NoLock /\ waiters[d] = <<>>
        /\ \A c \in Chats : lockOf[c] = NoLock /\ unused[c] = Absent
    BY DEF Init
  <1>3. Queues
    BY <1>2 DEF Queues, IsInjective, ToSet
  <1>4. HoldsOrWaits /\ UnmadeIsUnused /\ LocksOfTheirChat
    BY <1>2, DeliveryFacts DEF HoldsOrWaits, UnmadeIsUnused, LocksOfTheirChat, Using
  <1>5. /\ OneHolder /\ FirstIsWoken /\ QueueHasHolder
        /\ WaitedWhileUnused /\ StrayHasWaited
    BY <1>2 DEF OneHolder, Holds, FirstIsWoken, QueueHasHolder, WaitedWhileUnused,
                StrayHasWaited
  <1>6. UpdateInv
    BY <1>2, DeliveryFacts, AgeFacts DEF Init, UpdateInv
  <1> QED
    BY <1>1, <1>3, <1>4, <1>5, <1>6 DEF IInv, LockInv

-----------------------------------------------------------------------------
(* A step of d outside the lock.                                           *)
LEMMA OutsideStep ==
    ASSUME Typed, LockInv, NEW d \in Deliveries, NEW p \in Points \ Using,
           pc[d] \notin Using, p \in Before => pc[d] \in Before,
           pc' = [pc EXCEPT ![d] = p],
           UNCHANGED <<lockOf, unused, waiters, mine, waited>>
    PROVE  LockInv'
  <1>1. /\ lockOf' = lockOf /\ unused' = unused /\ waiters' = waiters
        /\ mine' = mine /\ waited' = waited
    OBVIOUS
  <1>2. /\ \A e \in Deliveries : pc'[e] \in Using <=> pc[e] \in Using
        /\ \A e \in Deliveries : pc[e] \in Using => pc'[e] = pc[e]
        /\ \A e \in Deliveries : pc'[e] \in Before => pc[e] \in Before
    BY DEF Typed
  <1>3. \A e \in Deliveries :
            /\ pc'[e] \in {"waiting", "woken"} <=> pc[e] \in {"waiting", "woken"}
            /\ pc'[e] = "woken" <=> pc[e] = "woken"
            /\ Holds(e)' <=> Holds(e)
    BY <1>2 DEF Using, Holds
  <1>4. LocksTyped' /\ HoldsOrWaits' /\ UnmadeIsUnused' /\ LocksOfTheirChat'
    BY <1>1, <1>2 DEF LockInv, LocksTyped, HoldsOrWaits, UnmadeIsUnused, LocksOfTheirChat
  <1>5. Queues'
    BY <1>1, <1>3 DEF LockInv, Queues
  <1>6. OneHolder' /\ FirstIsWoken' /\ QueueHasHolder'
    BY <1>1, <1>3 DEF LockInv, OneHolder, FirstIsWoken, QueueHasHolder
  <1>7. WaitedWhileUnused' /\ StrayHasWaited'
    BY <1>1, <1>3 DEF LockInv, WaitedWhileUnused, StrayHasWaited
  <1> QED
    BY <1>4, <1>5, <1>6, <1>7 DEF LockInv
(* The holder of a lock goes to the next, the first that waits.            *)
LEMMA ProcessLocks ==
    ASSUME Typed, LockInv, NEW d \in Deliveries, Process(d)
    PROVE  LockInv' /\ pc' \in [Deliveries -> Points]
  <1> DEFINE l == mine[d]
             q == waiters[l]
  <1>1. /\ pc[d] = "running" /\ l \in Deliveries /\ l # NoLock /\ q \in Seq(Deliveries)
        /\ lockOf' = lockOf /\ unused' = unused /\ waiters' = waiters
    BY DeliveryFacts DEF Process, memory, LockInv, LocksTyped, HoldsOrWaits, Using
  <1>2. /\ mine' \in [Deliveries -> Deliveries \union {NoLock}]
        /\ waited' \in [Deliveries -> 0..Oldest]
        /\ mine'[d] = NoLock
        /\ \A e \in Deliveries \ {d} : mine'[e] = mine[e] /\ waited'[e] = waited[e]
    BY AgeFacts DEF Process, LockInv, LocksTyped
  <1>3. q # <<>> => /\ Head(q) \in Deliveries /\ pc[Head(q)] = "waiting" /\ Head(q) # d
                    /\ mine[Head(q)] = l
    <2> SUFFICES ASSUME q # <<>>
                 PROVE  /\ Head(q) \in Deliveries /\ pc[Head(q)] = "waiting" /\ Head(q) # d
                        /\ mine[Head(q)] = l
      OBVIOUS
    <2>1. Head(q) \in ToSet(q)
      BY <1>1 DEF ToSet
    <2>2. /\ Head(q) \in Deliveries /\ mine[Head(q)] = l
          /\ pc[Head(q)] \in {"waiting", "woken"}
      BY <1>1, <2>1 DEF LockInv, Queues
    <2>3. pc[Head(q)] # "woken"
      BY <1>1, <2>2 DEF LockInv, OneHolder, Holds
    <2> QED
      BY <1>1, <2>2, <2>3
  <1>4. /\ pc' \in [Deliveries -> Points]
        /\ pc'[d] = "answer"
        /\ q # <<>> => pc'[Head(q)] = "woken"
        /\ \A e \in Deliveries \ {d} : ~(q # <<>> /\ e = Head(q)) => pc'[e] = pc[e]
    BY <1>3 DEF Process, Awake, Typed, Points, Using
  <1> HIDE DEF l, q
  <1>5. \A e \in Deliveries \ {d} :
            /\ pc'[e] \in {"waiting", "woken"} <=> pc[e] \in {"waiting", "woken"}
            /\ pc'[e] \in Using <=> pc[e] \in Using
            /\ pc'[e] \in Before <=> pc[e] \in Before
    BY <1>3, <1>4 DEF Using, Before
  <1>6. pc'[d] \notin Using /\ pc'[d] \notin Before /\ pc[d] \notin {"waiting", "woken"}
    BY <1>1, <1>4 DEF Using, Before
  <1>7. LocksTyped' /\ HoldsOrWaits'
    BY <1>1, <1>2, <1>5, <1>6 DEF LockInv, LocksTyped, HoldsOrWaits
  <1>8. UnmadeIsUnused' /\ LocksOfTheirChat'
    <2>1. UnmadeIsUnused'
      <3> SUFFICES ASSUME NEW e \in Deliveries, pc'[e] \in Before
                   PROVE  /\ \A f \in Deliveries : mine'[f] # e
                          /\ \A a \in Chats : lockOf'[a] # e
                          /\ waiters'[e] = <<>>
        BY DEF UnmadeIsUnused
      <3>1. /\ \A f \in Deliveries : mine[f] # e
            /\ \A a \in Chats : lockOf[a] # e
            /\ waiters[e] = <<>>
        BY <1>5, <1>6 DEF LockInv, UnmadeIsUnused
      <3>2. mine'[d] # e
        BY <1>2, DeliveryFacts
      <3> QED
        BY <1>1, <1>2, <3>1, <3>2
    <2>2. LocksOfTheirChat'
      BY <1>1, <1>2 DEF LockInv, LocksOfTheirChat
    <2> QED
      BY <2>1, <2>2
  <1>9. Queues'
    <2>1. \A k \in Deliveries :
              {e \in Deliveries : mine'[e] = k /\ pc'[e] \in {"waiting", "woken"}}
              = {e \in Deliveries : mine[e] = k /\ pc[e] \in {"waiting", "woken"}}
      BY <1>2, <1>5, <1>6, <1>4
    <2> QED
      BY <1>1, <2>1 DEF LockInv, Queues
  <1>10. \A e \in Deliveries : Holds(e)' =>
              \/ e # d /\ Holds(e) /\ mine'[e] = mine[e]
              \/ q # <<>> /\ e = Head(q) /\ mine'[e] = l
    BY <1>1, <1>2, <1>3, <1>4 DEF Holds
  <1>11. \A e \in Deliveries : Holds(e) /\ mine[e] = l => e = d
    BY <1>1 DEF LockInv, OneHolder, Holds, l
  <1>12. OneHolder'
    BY <1>10, <1>11 DEF LockInv, OneHolder
  <1>13. FirstIsWoken'
    <2> SUFFICES ASSUME NEW e \in Deliveries, pc'[e] = "woken"
                 PROVE  waiters'[mine'[e]] # <<>> /\ Head(waiters'[mine'[e]]) = e
      BY DEF FirstIsWoken
    <2>1. e # d
      BY <1>4 DEF Using
    <2>2. CASE q # <<>> /\ e = Head(q)
      BY <1>1, <1>2, <1>3, <2>1, <2>2 DEF q
    <2>3. CASE ~(q # <<>> /\ e = Head(q))
      <3>1. pc[e] = "woken"
        BY <1>4, <2>1, <2>3
      <3> QED
        BY <1>1, <1>2, <2>1, <3>1 DEF LockInv, FirstIsWoken
    <2> QED
      BY <2>2, <2>3
  <1>14. QueueHasHolder'
    <2> SUFFICES ASSUME NEW k \in Deliveries, waiters[k] # <<>>
                 PROVE  \E e \in Deliveries : mine'[e] = k /\ Holds(e)'
      BY <1>1 DEF QueueHasHolder
    <2>1. CASE k = l
      BY <1>2, <1>3, <1>4, <2>1 DEF Holds, q
    <2>2. CASE k # l
      <3>1. PICK e \in Deliveries : mine[e] = k /\ Holds(e)
        BY DEF LockInv, QueueHasHolder
      <3>2. e # d /\ (q # <<>> => e # Head(q))
        BY <1>3, <2>2, <3>1 DEF l
      <3> QED
        BY <1>2, <1>4, <3>1, <3>2 DEF Holds
    <2> QED
      BY <2>1, <2>2
  <1>15. WaitedWhileUnused'
    BY <1>1, <1>2, <1>4, <1>5, <1>6 DEF LockInv, WaitedWhileUnused
  <1>16. StrayHasWaited'
    BY <1>1, <1>2 DEF LockInv, StrayHasWaited
  <1> QED
    BY <1>4, <1>7, <1>8, <1>9, <1>12, <1>13, <1>14, <1>15, <1>16 DEF LockInv

(* Who was woken takes the lock and leaves the queue.                      *)
LEMMA AcquireLocks ==
    ASSUME Typed, LockInv, NEW d \in Deliveries, Acquire(d)
    PROVE  LockInv' /\ pc' \in [Deliveries -> Points]
  <1> DEFINE l == mine[d]
             q == waiters[l]
  <1>1. /\ pc[d] = "woken" /\ l \in Deliveries /\ q \in Seq(Deliveries)
        /\ q # <<>> /\ Head(q) = d
        /\ lockOf' = lockOf /\ unused' = unused /\ mine' = mine /\ waited' = waited
    BY DeliveryFacts
       DEF Acquire, history, LockInv, LocksTyped, HoldsOrWaits, Using, FirstIsWoken
  <1>2. RemoveFirst(q, d) = Tail(q)
    BY <1>1, RemoveHead
  <1>3. /\ waiters' = [waiters EXCEPT ![l] = Tail(q)]
        /\ pc' = [pc EXCEPT ![d] = "running"]
    BY <1>2 DEF Acquire, Goto
  <1>4. Tail(q) \in Seq(Deliveries)
    BY <1>1
  <1>5. /\ waiters' \in [Deliveries -> Seq(Deliveries)]
        /\ waiters'[l] = Tail(q)
        /\ \A k \in Deliveries \ {l} : waiters'[k] = waiters[k]
    BY <1>1, <1>3, <1>4 DEF LockInv, LocksTyped
  <1>6. /\ pc' \in [Deliveries -> Points]
        /\ pc'[d] = "running"
        /\ \A e \in Deliveries \ {d} : pc'[e] = pc[e]
        /\ \A e \in Deliveries : Holds(e)' <=> Holds(e)
        /\ \A e \in Deliveries : pc'[e] \in Using <=> pc[e] \in Using
        /\ \A e \in Deliveries : pc'[e] \in Before <=> pc[e] \in Before
    BY <1>1, <1>3 DEF Typed, Points, Using, Holds, Before
  <1>7. IsInjective(Tail(q)) /\ ToSet(Tail(q)) = ToSet(q) \ {d}
    <2>1. \A i, j \in 1..Len(q) : q[i] = q[j] => i = j
      BY <1>1 DEF LockInv, Queues, IsInjective
    <2>2. /\ Len(Tail(q)) = Len(q) - 1 /\ Len(q) \in Nat \ {0}
          /\ \A i \in 1..Len(q) - 1 : Tail(q)[i] = q[i + 1]
          /\ DOMAIN Tail(q) = 1..Len(q) - 1 /\ DOMAIN q = 1..Len(q)
          /\ q[1] = d
      BY <1>1
    <2>3. IsInjective(Tail(q))
      BY <2>1, <2>2 DEF IsInjective
    <2>4. \A e \in ToSet(Tail(q)) : e \in ToSet(q) /\ e # d
      BY <2>1, <2>2 DEF ToSet
    <2>5. \A i \in 1..Len(q) : q[i] # d => i - 1 \in 1..Len(q) - 1 /\ Tail(q)[i - 1] = q[i]
      BY <2>2
    <2>6. ASSUME NEW e \in ToSet(q) \ {d} PROVE e \in ToSet(Tail(q))
      <3>1. PICK i \in 1..Len(q) : q[i] = e
        BY <2>2 DEF ToSet
      <3>2. i - 1 \in DOMAIN Tail(q) /\ Tail(q)[i - 1] = e
        BY <2>2, <2>5, <3>1
      <3> QED
        BY <3>2 DEF ToSet
    <2> QED
      BY <2>3, <2>4, <2>6
  <1> HIDE DEF l, q
  <1>8. LocksTyped' /\ HoldsOrWaits'
    BY <1>1, <1>5, <1>6 DEF LockInv, LocksTyped, HoldsOrWaits
  <1>9. UnmadeIsUnused' /\ LocksOfTheirChat'
    <2>1. \A k \in Deliveries : waiters[k] = <<>> => waiters'[k] = <<>>
      BY <1>1, <1>5 DEF q, l
    <2> QED
      BY <1>1, <1>6, <2>1 DEF LockInv, UnmadeIsUnused, LocksOfTheirChat
  <1>10. Queues'
    <2> SUFFICES ASSUME NEW k \in Deliveries
                 PROVE  /\ IsInjective(waiters'[k])
                        /\ ToSet(waiters'[k]) =
                             {e \in Deliveries : mine[e] = k /\ pc'[e] \in {"waiting", "woken"}}
      BY <1>1 DEF Queues
    <2>1. CASE k = l
      <3>1. ToSet(q) = {e \in Deliveries : mine[e] = k /\ pc[e] \in {"waiting", "woken"}}
        BY <2>1 DEF LockInv, Queues, q
      <3> QED
        BY <1>5, <1>6, <1>7, <2>1, <3>1
    <2>2. CASE k # l
      <3>1. mine[d] # k
        BY <2>2 DEF l
      <3>2. {e \in Deliveries : mine[e] = k /\ pc'[e] \in {"waiting", "woken"}}
            = {e \in Deliveries : mine[e] = k /\ pc[e] \in {"waiting", "woken"}}
        BY <1>6, <3>1
      <3> QED
        BY <1>5, <2>2, <3>2 DEF LockInv, Queues
    <2> QED
      BY <2>1, <2>2
  <1>11. OneHolder'
    BY <1>1, <1>6 DEF LockInv, OneHolder
  <1>12. FirstIsWoken'
    <2> SUFFICES ASSUME NEW e \in Deliveries, pc'[e] = "woken"
                 PROVE  waiters'[mine[e]] # <<>> /\ Head(waiters'[mine[e]]) = e
      BY <1>1 DEF FirstIsWoken
    <2>1. e # d /\ pc[e] = "woken" /\ mine[e] # l
      BY <1>1, <1>6 DEF LockInv, OneHolder, Holds, l
    <2>2. mine[e] \in Deliveries
      BY <2>1 DEF LockInv, LocksTyped, HoldsOrWaits, Using
    <2> QED
      BY <1>5, <2>1, <2>2 DEF LockInv, FirstIsWoken
  <1>13. QueueHasHolder'
    <2>1. \A k \in Deliveries : waiters'[k] # <<>> => waiters[k] # <<>>
      BY <1>1, <1>5 DEF q, l
    <2> QED
      BY <1>1, <1>6, <2>1 DEF LockInv, QueueHasHolder
  <1>14. WaitedWhileUnused' /\ StrayHasWaited'
    BY <1>1, <1>6 DEF LockInv, WaitedWhileUnused, StrayHasWaited
  <1> QED
    BY <1>6, <1>8, <1>9, <1>10, <1>11, <1>12, <1>13, <1>14 DEF LockInv
(* A delivery asks for the lock of its chat: old locks are pruned, a lock  *)
(* is made if there is none, and it is taken or waited for.                *)
LEMMA AskLocks ==
    ASSUME Typed, LockInv, NEW d \in Deliveries, AskForLock(d)
    PROVE  LockInv' /\ pc' \in [Deliveries -> Points]
  <1> DEFINE c == ChatOf(d)
             l == IF lockOf[c] = NoLock \/ Prunable(c) THEN d ELSE lockOf[c]
             q == waiters[l]
             free == ~Locked(l) /\ q = <<>>
  <1>1. /\ pc[d] = "lock" /\ c \in Chats /\ l \in Deliveries /\ q \in Seq(Deliveries)
        /\ mine[d] = NoLock /\ waiters[d] = <<>>
        /\ \A e \in Deliveries : mine[e] # d
        /\ \A a \in Chats : lockOf[a] # d
    BY DeliveryFacts DEF AskForLock, LockInv, LocksTyped, HoldsOrWaits, Using,
                         UnmadeIsUnused, Before
  <1>2. /\ lockOf' \in [Chats -> Deliveries \union {NoLock}]
        /\ lockOf'[c] = l
        /\ \A a \in Chats \ {c} : lockOf'[a] = IF Prunable(a) THEN NoLock ELSE lockOf[a]
        /\ unused' \in [Chats -> 0..Absent]
        /\ unused'[c] = 0
        /\ \A a \in Chats \ {c} : unused'[a] = IF Prunable(a) THEN Absent ELSE unused[a]
    BY <1>1, AgeFacts DEF AskForLock, LockInv, LocksTyped
  <1>3. /\ mine' \in [Deliveries -> Deliveries \union {NoLock}]
        /\ mine'[d] = l
        /\ \A e \in Deliveries \ {d} : mine'[e] = mine[e]
        /\ waited' \in [Deliveries -> 0..Oldest]
        /\ waited'[d] = 0
        /\ \A e \in Deliveries \ {d} : waited'[e] = waited[e]
    BY <1>1, AgeFacts DEF AskForLock, LockInv, LocksTyped
  <1>4. \/ free /\ pc' = [pc EXCEPT ![d] = "running"] /\ waiters' = waiters
        \/ /\ ~free /\ pc' = [pc EXCEPT ![d] = "waiting"]
           /\ waiters' = [waiters EXCEPT ![l] = Append(q, d)]
    BY DEF AskForLock, Goto
  <1>5. /\ pc' \in [Deliveries -> Points]
        /\ pc'[d] = IF free THEN "running" ELSE "waiting"
        /\ \A e \in Deliveries \ {d} : pc'[e] = pc[e]
        /\ pc'[d] \in Using /\ pc'[d] \notin Before
    BY <1>4 DEF Typed, Points, Using, Before
  <1>6. /\ waiters' \in [Deliveries -> Seq(Deliveries)]
        /\ waiters'[l] = IF free THEN q ELSE Append(q, d)
        /\ \A k \in Deliveries \ {l} : waiters'[k] = waiters[k]
    <2>1. Append(q, d) \in Seq(Deliveries)
      BY <1>1
    <2> QED
      BY <1>1, <1>4, <2>1 DEF LockInv, LocksTyped
  (* Nobody holds a free lock; one that is not free has a holder.          *)
  <1>7. free => \A e \in Deliveries \ {d} : ~(Holds(e) /\ mine[e] = l)
    BY DEF LockInv, FirstIsWoken, Holds, Locked
  <1>8. ~free => \E e \in Deliveries \ {d} : mine[e] = l /\ Holds(e)
    BY <1>1 DEF LockInv, QueueHasHolder, Locked, Holds
  (* Whoever uses a lock that is pruned has waited as long as the lock was  *)
  (* not asked for.                                                         *)
  <1>9. \A e \in Deliveries : \A a \in Chats :
            mine[e] = lockOf[a] /\ mine[e] # NoLock /\ Prunable(a) /\ ChatOf(e) = a
            => waited[e] > LockTTL
    <2> SUFFICES ASSUME NEW e \in Deliveries, NEW a \in Chats,
                        mine[e] = lockOf[a], mine[e] # NoLock, Prunable(a), ChatOf(e) = a
                 PROVE  waited[e] > LockTTL
      OBVIOUS
    <2>1. pc[e] \in {"waiting", "woken"}
      BY DEF LockInv, HoldsOrWaits, Using, Prunable, Locked
    <2>2. waited[e] >= unused[a]
      BY <2>1 DEF LockInv, WaitedWhileUnused
    <2>3. unused[a] # Absent
      BY DEF LockInv, LocksOfTheirChat
    <2>4. unused[a] > LockTTL
      BY <2>3, AgeFacts DEF Prunable, Fresh, LockInv, LocksTyped
    <2> QED
      BY <2>2, <2>4, AgeFacts DEF LockInv, LocksTyped
  <1>10. ChatOf(l) = c
    BY <1>1 DEF LockInv, LocksOfTheirChat
  <1>11. l = d \/ l = lockOf[c]
    OBVIOUS
  <1>12. l # d => ~Prunable(c)
    OBVIOUS
  <1> HIDE DEF l, q, free, c
  <1>13. LocksTyped' /\ HoldsOrWaits'
    <2>1. HoldsOrWaits'
      BY <1>1, <1>3, <1>5, DeliveryFacts DEF LockInv, HoldsOrWaits
    <2> QED
      BY <1>2, <1>3, <1>6, <2>1 DEF LocksTyped
  <1>14. UnmadeIsUnused'
    <2> SUFFICES ASSUME NEW e \in Deliveries, pc'[e] \in Before
                 PROVE  /\ \A f \in Deliveries : mine'[f] # e
                        /\ \A a \in Chats : lockOf'[a] # e
                        /\ waiters'[e] = <<>>
      BY DEF UnmadeIsUnused
    <2>1. /\ e # d /\ waiters[e] = <<>>
          /\ \A f \in Deliveries : mine[f] # e
          /\ \A a \in Chats : lockOf[a] # e
      BY <1>5 DEF LockInv, UnmadeIsUnused
    <2>2. l # e
      BY <1>1, <1>11, <2>1
    <2> QED
      BY <1>2, <1>3, <1>6, <2>1, <2>2, DeliveryFacts
  <1>15. LocksOfTheirChat'
    <2>1. \A e \in Deliveries : mine'[e] # NoLock => ChatOf(mine'[e]) = ChatOf(e)
      BY <1>3, <1>10 DEF LockInv, LocksOfTheirChat, c
    <2>2. \A a \in Chats : lockOf'[a] # NoLock => ChatOf(lockOf'[a]) = a
      BY <1>2, <1>10 DEF LockInv, LocksOfTheirChat
    <2>3. \A a \in Chats : lockOf'[a] = NoLock <=> unused'[a] = Absent
      <3>1. l # NoLock /\ 0 # Absent
        BY <1>1, DeliveryFacts, AgeFacts
      <3>2. \A a \in Chats : lockOf[a] = NoLock <=> unused[a] = Absent
        BY DEF LockInv, LocksOfTheirChat
      <3> QED
        BY <1>2, <3>1, <3>2
    <2> QED
      BY <2>1, <2>2, <2>3 DEF LocksOfTheirChat
  <1>16. Queues'
    <2> SUFFICES ASSUME NEW k \in Deliveries
                 PROVE  /\ IsInjective(waiters'[k])
                        /\ ToSet(waiters'[k]) =
                             {e \in Deliveries : mine'[e] = k /\ pc'[e] \in {"waiting", "woken"}}
      BY DEF Queues
    <2> DEFINE old == {e \in Deliveries : mine[e] = k /\ pc[e] \in {"waiting", "woken"}}
    <2>1. IsInjective(waiters[k]) /\ ToSet(waiters[k]) = old
      BY DEF LockInv, Queues
    <2>2. d \notin old
      BY <1>1
    <2>3. {e \in Deliveries : mine'[e] = k /\ pc'[e] \in {"waiting", "woken"}}
          = IF k = l /\ ~free THEN old \union {d} ELSE old
      BY <1>1, <1>3, <1>5
    <2>4. CASE k = l /\ ~free
      <3>1. /\ Len(q) \in Nat /\ DOMAIN q = 1..Len(q)
            /\ DOMAIN Append(q, d) = 1..Len(q) + 1
            /\ \A i \in 1..Len(q) : Append(q, d)[i] = q[i]
            /\ Append(q, d)[Len(q) + 1] = d
        BY <1>1
      <3>2. \A i \in 1..Len(q) : q[i] # d
        BY <2>1, <2>2, <2>4, <3>1 DEF ToSet, q
      <3>3. \A i, j \in 1..Len(q) : q[i] = q[j] => i = j
        BY <2>1, <2>4, <3>1 DEF IsInjective, q
      <3>4. IsInjective(Append(q, d))
        BY <3>1, <3>2, <3>3 DEF IsInjective
      <3>5. ToSet(Append(q, d)) = ToSet(q) \union {d}
        <4>1. \A e \in ToSet(Append(q, d)) : e \in ToSet(q) \union {d}
          BY <3>1 DEF ToSet
        <4>2. d \in ToSet(Append(q, d))
          BY <3>1 DEF ToSet
        <4>3. ASSUME NEW e \in ToSet(q) PROVE e \in ToSet(Append(q, d))
          <5>1. PICK i \in 1..Len(q) : q[i] = e
            BY <3>1 DEF ToSet
          <5> QED
            BY <3>1, <5>1 DEF ToSet
        <4> QED
          BY <4>1, <4>2, <4>3
      <3> QED
        BY <1>6, <2>1, <2>3, <2>4, <3>4, <3>5 DEF q
    <2>5. CASE ~(k = l /\ ~free)
      BY <1>6, <2>1, <2>3, <2>5 DEF q
    <2> QED
      BY <2>4, <2>5
  <1>17. OneHolder'
    BY <1>3, <1>5, <1>7 DEF LockInv, OneHolder, Holds
  <1>18. FirstIsWoken'
    <2> SUFFICES ASSUME NEW e \in Deliveries, pc'[e] = "woken"
                 PROVE  waiters'[mine'[e]] # <<>> /\ Head(waiters'[mine'[e]]) = e
      BY DEF FirstIsWoken
    <2>1. e # d /\ pc[e] = "woken" /\ mine'[e] = mine[e] /\ mine[e] \in Deliveries
      BY <1>3, <1>5 DEF LockInv, LocksTyped, HoldsOrWaits, Using
    <2>2. waiters[mine[e]] # <<>> /\ Head(waiters[mine[e]]) = e
      BY <2>1 DEF LockInv, FirstIsWoken
    <2>3. q # <<>> => Append(q, d) # <<>> /\ Head(Append(q, d)) = Head(q)
      BY <1>1
    <2> QED
      BY <1>6, <2>1, <2>2, <2>3 DEF q
  <1>19. QueueHasHolder'
    <2> SUFFICES ASSUME NEW k \in Deliveries, waiters'[k] # <<>>
                 PROVE  \E e \in Deliveries : mine'[e] = k /\ Holds(e)'
      BY DEF QueueHasHolder
    <2>1. \E e \in Deliveries \ {d} : mine[e] = k /\ Holds(e)
      <3>1. CASE k = l /\ ~free
        BY <1>8, <3>1
      <3>2. CASE ~(k = l /\ ~free)
        <4>1. waiters[k] # <<>>
          BY <1>6, <3>2 DEF q
        <4> QED
          BY <1>1, <4>1 DEF LockInv, QueueHasHolder, Holds
      <3> QED
        BY <3>1, <3>2
    <2> QED
      BY <1>3, <1>5, <2>1 DEF Holds
  <1>20. WaitedWhileUnused'
    <2> SUFFICES ASSUME NEW e \in Deliveries, pc'[e] \in {"waiting", "woken"},
                        lockOf'[ChatOf(e)] = mine'[e]
                 PROVE  waited'[e] >= unused'[ChatOf(e)]
      BY DEF WaitedWhileUnused
    <2>1. ChatOf(e) \in Chats /\ waited'[e] \in Nat
      BY <1>3, DeliveryFacts, AgeFacts
    <2>2. CASE ChatOf(e) = c
      BY <1>2, <2>1, <2>2
    <2>3. CASE ChatOf(e) # c
      <3>1. e # d /\ pc[e] \in {"waiting", "woken"} /\ mine'[e] = mine[e] /\ waited'[e] = waited[e]
        BY <1>3, <1>5, <2>3 DEF c
      <3>2. mine[e] # NoLock
        BY <3>1 DEF LockInv, HoldsOrWaits, Using
      <3>3. lockOf[ChatOf(e)] = mine[e] /\ unused'[ChatOf(e)] = unused[ChatOf(e)]
        BY <1>2, <2>1, <2>3, <3>1, <3>2
      <3> QED
        BY <3>1, <3>3 DEF LockInv, WaitedWhileUnused
    <2> QED
      BY <2>2, <2>3
  <1>21. StrayHasWaited'
    <2> SUFFICES ASSUME NEW e \in Deliveries, mine'[e] # NoLock,
                        lockOf'[ChatOf(e)] # mine'[e]
                 PROVE  waited'[e] > LockTTL
      BY DEF StrayHasWaited
    <2>1. e # d
      BY <1>2, <1>3 DEF c
    <2>2. mine[e] # NoLock /\ mine'[e] = mine[e] /\ waited'[e] = waited[e] /\ ChatOf(e) \in Chats
      BY <1>3, <2>1, DeliveryFacts
    <2>3. CASE lockOf[ChatOf(e)] # mine[e]
      BY <2>2, <2>3 DEF LockInv, StrayHasWaited
    <2>4. CASE lockOf[ChatOf(e)] = mine[e]
      <3>1. Prunable(ChatOf(e))
        <4>1. CASE ChatOf(e) = c
          BY <1>2, <1>11, <2>2, <2>4, <4>1 DEF l
        <4>2. CASE ChatOf(e) # c
          BY <1>2, <2>2, <2>4, <4>2
        <4> QED
          BY <4>1, <4>2
      <3> QED
        BY <1>9, <2>2, <2>4, <3>1
    <2> QED
      BY <2>3, <2>4
  <1> QED
    BY <1>5, <1>13, <1>14, <1>15, <1>16, <1>17, <1>18, <1>19, <1>20, <1>21 DEF LockInv
(* A restart leaves nobody with a lock, and no lock.                       *)
LEMMA RestartLocks ==
    ASSUME Typed, LockInv, Restart
    PROVE  LockInv' /\ pc' \in [Deliveries -> Points]
  <1>1. /\ lockOf' = [c \in Chats |-> NoLock]
        /\ unused' = [c \in Chats |-> Absent]
        /\ waiters' = [l \in Deliveries |-> <<>>]
        /\ mine' = [d \in Deliveries |-> NoLock]
        /\ waited' = [d \in Deliveries |-> 0]
    BY DEF Restart
  <1>2. /\ pc' \in [Deliveries -> Points]
        /\ \A d \in Deliveries : pc'[d] \in {"none", "over"}
    BY DEF Restart, Typed, Live, Points
  <1>3. LocksTyped' /\ HoldsOrWaits'
    BY <1>1, <1>2, AgeFacts DEF LocksTyped, HoldsOrWaits, Using
  <1>4. UnmadeIsUnused' /\ LocksOfTheirChat'
    BY <1>1, DeliveryFacts DEF UnmadeIsUnused, LocksOfTheirChat
  <1>5. Queues'
    BY <1>1, <1>2 DEF Queues, IsInjective, ToSet
  <1>6. /\ OneHolder' /\ FirstIsWoken' /\ QueueHasHolder'
        /\ WaitedWhileUnused' /\ StrayHasWaited'
    BY <1>1, <1>2 DEF OneHolder, Holds, FirstIsWoken, QueueHasHolder,
                      WaitedWhileUnused, StrayHasWaited
  <1> QED
    BY <1>2, <1>3, <1>4, <1>5, <1>6 DEF LockInv

(* Time passes alike for the lock in the table and for who waits for it.   *)
LEMMA TickLocks ==
    ASSUME Typed, LockInv, Tick
    PROVE  LockInv'
  <1>1. /\ lockOf' = lockOf /\ waiters' = waiters /\ mine' = mine /\ pc' = pc
        /\ unused \in [Chats -> 0..Absent] /\ waited \in [Deliveries -> 0..Oldest]
    BY DEF Tick, LockInv, LocksTyped
  <1>2. /\ unused' \in [Chats -> 0..Absent]
        /\ \A c \in Chats : unused'[c] = Older(unused[c])
    BY <1>1, AgeFacts DEF Tick, Aged
  <1>3. /\ waited' \in [Deliveries -> 0..Oldest]
        /\ \A d \in Deliveries : waited'[d] >= waited[d]
        /\ \A d \in Deliveries : pc[d] \in {"waiting", "woken"} =>
              waited'[d] = Older(waited[d])
    BY <1>1, AgeFacts DEF Tick
  <1>4. LocksTyped' /\ HoldsOrWaits' /\ UnmadeIsUnused'
    BY <1>1, <1>2, <1>3 DEF LockInv, LocksTyped, HoldsOrWaits, UnmadeIsUnused
  <1>5. LocksOfTheirChat'
    BY <1>1, <1>2, AgeFacts DEF LockInv, LocksOfTheirChat
  <1>6. Queues' /\ OneHolder' /\ FirstIsWoken' /\ QueueHasHolder'
    BY <1>1 DEF LockInv, Queues, OneHolder, Holds, FirstIsWoken, QueueHasHolder
  <1>7. WaitedWhileUnused'
    <2> SUFFICES ASSUME NEW d \in Deliveries, pc[d] \in {"waiting", "woken"},
                        lockOf[ChatOf(d)] = mine[d]
                 PROVE  waited'[d] >= unused'[ChatOf(d)]
      BY <1>1 DEF WaitedWhileUnused
    <2>1. waited[d] >= unused[ChatOf(d)] /\ ChatOf(d) \in Chats
      BY DeliveryFacts DEF LockInv, WaitedWhileUnused
    <2>2. /\ waited[d] \in 0..Absent /\ waited[d] # Absent
          /\ unused[ChatOf(d)] \in 0..Absent
      BY <1>1, <2>1, AgeFacts
    <2> QED
      BY <1>2, <1>3, <2>1, <2>2, AgeFacts
  <1>8. StrayHasWaited'
    <2> SUFFICES ASSUME NEW d \in Deliveries, mine[d] # NoLock,
                        lockOf[ChatOf(d)] # mine[d]
                 PROVE  waited'[d] > LockTTL
      BY <1>1 DEF StrayHasWaited
    <2>1. waited[d] > LockTTL
      BY DEF LockInv, StrayHasWaited
    <2>2. waited[d] \in Nat /\ waited'[d] \in Nat
      BY <1>1, <1>3, AgeFacts
    <2> QED
      BY <1>3, <2>1, <2>2, AgeFacts
  <1> QED
    BY <1>4, <1>5, <1>6, <1>7, <1>8 DEF LockInv

-----------------------------------------------------------------------------
(* Every action preserves the part about the locks.                        *)
LEMMA OutsideLocks ==
    ASSUME Typed, LockInv, UpdateInv,
           NEW d \in Deliveries,
           Refuse(d) \/ Remember(d) \/ HandleStart(d) \/ SendTyping(d) \/ Answer(d)
    PROVE  LockInv' /\ pc' \in [Deliveries -> Points]
  <1>1. UNCHANGED <<lockOf, unused, waiters, mine, waited>>
    BY DEF Refuse, Remember, HandleStart, SendTyping, Answer, memory, history
  <1>2. UpdateOf(d) \in Updates /\ FirstStep(UpdateOf(d)) \in {"start", "typing", "over"}
    BY DeliveryFacts DEF FirstStep, Typed
  <1>3. PICK p \in {"over", "answer", "start", "typing", "lock"} :
            /\ pc' = [pc EXCEPT ![d] = p]
            /\ pc[d] \in {"received", "start", "typing", "answer"}
            /\ p \in Before => pc[d] \in Before
    BY <1>2 DEF Refuse, Remember, HandleStart, SendTyping, Answer, Goto, Before
  <1>4. p \in Points \ Using /\ pc[d] \notin Using
    BY <1>3 DEF Points, Using, Before
  <1>5. pc' \in [Deliveries -> Points]
    BY <1>3, <1>4 DEF Typed
  <1> QED
    BY <1>1, <1>3, <1>4, <1>5, OutsideStep

LEMMA DeliverLocks ==
    ASSUME Typed, LockInv, UpdateInv, NEW u \in Updates, Deliver(u)
    PROVE  LockInv' /\ pc' \in [Deliveries -> Points]
  <1> DEFINE d == <<u, delivered[u] + 1>>
  <1>1. delivered[u] + 1 \in 1..MaxDeliveries /\ delivered[u] + 1 > delivered[u]
    BY AgeFacts DEF Deliver, Typed
  <1>2. d \in Deliveries /\ pc[d] = "none"
    BY <1>1, DeliveryFacts DEF UpdateInv
  <1>3. /\ pc' = [pc EXCEPT ![d] = "received"]
        /\ UNCHANGED <<lockOf, unused, waiters, mine, waited>>
    BY DEF Deliver, Goto, memory, history
  <1>4. "received" \in Points \ Using /\ pc[d] \notin Using /\ pc[d] \in Before
    BY <1>2 DEF Points, Using, Before
  <1> HIDE DEF d
  <1>5. pc' \in [Deliveries -> Points]
    BY <1>3, <1>4 DEF Typed
  <1> QED
    BY <1>2, <1>3, <1>4, <1>5, OutsideStep
-----------------------------------------------------------------------------
(* Every action preserves the part about the updates.                      *)
LEMMA UpdateStep ==
    ASSUME UpdateInv, delivered' = delivered,
           \A u \in Updates : Accounted(u) => Accounted(u)',
           \A e \in Deliveries : pc[e] = "none" => pc'[e] = "none",
           \A e \in Deliveries :
               pc'[e] = "answer" => pc[e] = "answer" \/ Accounted(UpdateOf(e))',
           \A u \in Updates : remembered'[u] # Absent => Accounted(u)',
           \A u \in answered' : Accounted(u)',
           \A u \in Updates : sinceTaken'[u] > DedupTTL \/ remembered'[u] = sinceTaken'[u]
    PROVE  UpdateInv'
  <1>1. ASSUME NEW u \in Updates, NEW n \in 1..MaxDeliveries, n > delivered'[u]
        PROVE  pc'[<<u, n>>] = "none"
    <2>1. <<u, n>> \in Deliveries
      BY DeliveryFacts
    <2> QED
      BY <1>1, <2>1 DEF UpdateInv
  <1>2. \A d \in Deliveries : pc'[d] = "answer" => Accounted(UpdateOf(d))'
    BY DeliveryFacts DEF UpdateInv
  <1> QED
    BY <1>1, <1>2 DEF UpdateInv

(* Steps that take nothing on.                                             *)
LEMMA QuietUpdates ==
    ASSUME Typed, LockInv, UpdateInv, NEW d \in Deliveries,
           \/ Refuse(d) \/ HandleStart(d) \/ SendTyping(d) \/ AskForLock(d)
           \/ Process(d) \/ Acquire(d) \/ Answer(d)
    PROVE  /\ UpdateInv' /\ answered' \subseteq Updates
           /\ handled' \subseteq Updates
           /\ UNCHANGED <<text, delivered, dropped, remembered, sinceTaken>>
  <1>1. UNCHANGED <<text, delivered, dropped, remembered, sinceTaken>>
    BY DEF Refuse, HandleStart, SendTyping, AskForLock, Process, Acquire, Answer,
           memory, history
  <1>2. pc[d] \notin {"none", "over"} /\ (pc[d] = "received" => Refuse(d))
    BY DEF Refuse, HandleStart, SendTyping, AskForLock, Process, Acquire, Answer
  <1>3. Process(d) => \A e \in Deliveries \ {d} : pc'[e] = pc[e] \/ pc[e] = "waiting"
    <2> SUFFICES ASSUME Process(d), NEW e \in Deliveries \ {d}, pc'[e] # pc[e]
                 PROVE  pc[e] = "waiting"
      OBVIOUS
    <2>1. /\ waiters[mine[d]] # <<>> /\ e = Head(waiters[mine[d]])
          /\ mine[d] \in Deliveries /\ pc[d] = "running"
      BY DEF Process, Awake, LockInv, LocksTyped, HoldsOrWaits, Using
    <2>2. e \in ToSet(waiters[mine[d]])
      BY <2>1 DEF ToSet, LockInv, LocksTyped
    <2>3. mine[e] = mine[d] /\ pc[e] \in {"waiting", "woken"}
      BY <2>1, <2>2 DEF LockInv, Queues
    <2>4. ~Holds(e)
      BY <2>1, <2>3 DEF LockInv, OneHolder, Holds
    <2> QED
      BY <2>3, <2>4 DEF Holds
  <1>4. \A e \in Deliveries \ {d} : pc'[e] = pc[e] \/ pc[e] = "waiting"
    <2>1. CASE Process(d)
      BY <1>3, <2>1
    <2>2. CASE ~Process(d)
      BY <2>2 DEF Refuse, HandleStart, SendTyping, AskForLock, Acquire, Answer, Goto, Typed
    <2> QED
      BY <2>1, <2>2
  <1>5. Refuse(d) => pc'[d] = "over"
    BY DEF Refuse, Goto, Typed
  <1>6. answered' \subseteq answered \union {UpdateOf(d)} /\ (answered' # answered => Answer(d))
    BY DEF Refuse, HandleStart, SendTyping, AskForLock, Process, Acquire, Answer
  <1>7. /\ handled \subseteq handled' /\ handled' \subseteq Updates
        /\ HandleStart(d) \/ Process(d) => UpdateOf(d) \in handled'
    BY DeliveryFacts DEF Refuse, HandleStart, SendTyping, AskForLock, Process, Acquire, Answer,
                         history, Typed
  <1>8. \A e \in Deliveries : Working(e) => Working(e)' \/ UpdateOf(e) \in handled'
    <2>1. \A e \in Deliveries \ {d} : Working(e) => Working(e)'
      <3> SUFFICES ASSUME NEW e \in Deliveries \ {d}, Working(e), pc'[e] # pc[e] PROVE Working(e)'
        BY DEF Working
      <3>1. pc[e] = "waiting" /\ Process(d)
        BY <1>3, <1>4 DEF Refuse, HandleStart, SendTyping, AskForLock, Acquire, Answer, Goto, Typed
      <3> QED
        BY <3>1 DEF Process, Awake, Working
    <2>2. Working(d) => Working(d)' \/ HandleStart(d) \/ Process(d)
      BY DEF Refuse, SendTyping, AskForLock, Acquire, Answer, Goto, Working, Typed
    <2> QED
      BY <1>7, <2>1, <2>2
  <1>9. \A u \in Updates : Accounted(u) => Accounted(u)'
    BY <1>1, <1>7, <1>8 DEF Accounted
  <1>10. Answer(d) => Accounted(UpdateOf(d))
    BY DEF Answer, UpdateInv
  <1>11. \A u \in answered' : Accounted(u)'
    BY <1>6, <1>9, <1>10, DeliveryFacts DEF UpdateInv, Typed
  <1>12. \A e \in Deliveries : pc[e] = "none" => pc'[e] = "none"
    BY <1>2, <1>4
  <1>13. \A e \in Deliveries :
             pc'[e] = "answer" => pc[e] = "answer" \/ Accounted(UpdateOf(e))'
    <2>1. pc'[d] = "answer" => HandleStart(d) \/ Process(d)
      BY DEF Refuse, SendTyping, AskForLock, Acquire, Answer, Goto, Typed
    <2>2. \A e \in Deliveries \ {d} : pc'[e] = "answer" => pc[e] = "answer"
      <3> SUFFICES ASSUME NEW e \in Deliveries \ {d}, pc'[e] = "answer", pc[e] # "answer" PROVE FALSE
        OBVIOUS
      <3>1. pc[e] = "waiting" /\ Process(d)
        BY <1>3, <1>4 DEF Refuse, HandleStart, SendTyping, AskForLock, Acquire, Answer, Goto, Typed
      <3> QED
        BY <3>1 DEF Process, Awake
    <2> QED
      BY <1>7, <2>1, <2>2 DEF Accounted
  <1>14. /\ \A u \in Updates : remembered'[u] # Absent => Accounted(u)'
         /\ \A u \in Updates : sinceTaken'[u] > DedupTTL \/ remembered'[u] = sinceTaken'[u]
    BY <1>1, <1>9 DEF UpdateInv
  <1>15. UpdateInv'
    BY <1>1, <1>9, <1>11, <1>12, <1>13, <1>14, UpdateStep
  <1>16. answered' \subseteq Updates
    BY <1>6, DeliveryFacts DEF Typed
  <1> QED
    BY <1>1, <1>7, <1>15, <1>16

(* A delivery is taken on, or found to repeat one that was.                *)
LEMMA RememberUpdates ==
    ASSUME Typed, UpdateInv, NEW d \in Deliveries, Remember(d)
    PROVE  /\ UpdateInv'
           /\ dropped' \subseteq Updates
           /\ remembered' \in [Updates -> 0..Absent]
           /\ sinceTaken' \in [Updates -> 0..Absent]
           /\ UNCHANGED <<text, delivered, answered, handled>>
           /\ pc'[d] \in {"start", "typing"} => sinceTaken[UpdateOf(d)] > DedupTTL
  <1> DEFINE u == UpdateOf(d)
             kept == [v \in Updates |->
                         IF Fresh(remembered[v], DedupTTL) THEN remembered[v] ELSE Absent]
  <1>1. u \in Updates /\ pc[d] = "received"
    BY DeliveryFacts DEF Remember
  <1>2. /\ kept \in [Updates -> 0..Absent]
        /\ \A v \in Updates : kept[v] \in {remembered[v], Absent}
    BY AgeFacts DEF Typed
  <1>3. \A v \in Updates : sinceTaken[v] > DedupTTL \/ kept[v] = sinceTaken[v]
    <2> SUFFICES ASSUME NEW v \in Updates, remembered[v] = sinceTaken[v],
                        kept[v] # remembered[v]
                 PROVE  sinceTaken[v] > DedupTTL
      BY <1>2 DEF UpdateInv
    <2>1. remembered[v] = Absent \/ ~(remembered[v] <= DedupTTL)
      BY DEF Fresh
    <2> QED
      BY <2>1, AgeFacts DEF Typed
  <1>4. kept[u] = Absent => sinceTaken[u] > DedupTTL
    BY <1>1, <1>3, AgeFacts
  <1>5. \/ /\ kept[u] # Absent /\ remembered' = kept
           /\ pc' = [pc EXCEPT ![d] = "answer"]
           /\ dropped' = dropped /\ sinceTaken' = sinceTaken
        \/ /\ kept[u] = Absent /\ remembered' = [kept EXCEPT ![u] = 0]
           /\ dropped' = IF text[u] = "blank" THEN dropped \union {u} ELSE dropped \ {u}
           /\ sinceTaken' = [sinceTaken EXCEPT ![u] = 0]
           /\ pc' = [pc EXCEPT ![d] = FirstStep(u)]
    BY DEF Remember, Goto
  <1> HIDE DEF kept, u
  <1>6. /\ dropped' \subseteq Updates /\ dropped \subseteq dropped' \union {u}
        /\ remembered' \in [Updates -> 0..Absent]
        /\ sinceTaken' \in [Updates -> 0..Absent]
    <2>1. dropped' \subseteq Updates /\ dropped \subseteq dropped' \union {u}
      BY <1>1, <1>5 DEF Typed
    <2>2. 0 \in 0..Absent
      BY AgeFacts
    <2>3. remembered' \in [Updates -> 0..Absent]
      BY <1>2, <1>5, <2>2
    <2>4. sinceTaken' \in [Updates -> 0..Absent]
      BY <1>5, <2>2 DEF Typed
    <2> QED
      BY <2>1, <2>3, <2>4
  <1>7. UNCHANGED <<text, delivered, answered, handled>>
    BY DEF Remember
  <1>8. \A e \in Deliveries \ {d} : pc'[e] = pc[e]
    BY <1>5 DEF Typed
  <1>9. Accounted(u)'
    <2>1. CASE kept[u] # Absent
      <3>1. Accounted(u)
        BY <1>1, <1>2, <2>1 DEF UpdateInv
      <3>2. \A e \in Deliveries : Working(e) => e # d /\ Working(e)'
        BY <1>1, <1>8 DEF Working
      <3> QED
        BY <1>5, <1>7, <2>1, <3>1, <3>2 DEF Accounted
    <2>2. CASE kept[u] = Absent /\ text[u] = "blank"
      BY <1>5, <2>2 DEF Accounted
    <2>3. CASE kept[u] = Absent /\ text[u] # "blank"
      <3>1. FirstStep(u) \in {"start", "typing"}
        BY <1>1, <2>3 DEF FirstStep, Typed
      <3>2. Working(d)'
        BY <1>5, <2>3, <3>1 DEF Working, Typed
      <3> QED
        BY <3>2 DEF Accounted, u
    <2> QED
      BY <2>1, <2>2, <2>3
  <1>10. \A v \in Updates : Accounted(v) => Accounted(v)'
    <2>1. \A e \in Deliveries : Working(e) => Working(e)'
      BY <1>1, <1>8 DEF Working
    <2> QED
      BY <1>6, <1>7, <1>9, <2>1 DEF Accounted
  <1>11. \A v \in Updates : remembered'[v] # Absent => Accounted(v)'
    BY <1>1, <1>2, <1>5, <1>9, <1>10 DEF UpdateInv
  <1>12. \A v \in Updates : sinceTaken'[v] > DedupTTL \/ remembered'[v] = sinceTaken'[v]
    BY <1>1, <1>2, <1>3, <1>5 DEF Typed
  <1>13. \A v \in answered' : Accounted(v)'
    BY <1>7, <1>10 DEF UpdateInv, Typed
  <1>14. \A e \in Deliveries :
             pc'[e] = "answer" => pc[e] = "answer" \/ Accounted(UpdateOf(e))'
    BY <1>8, <1>9 DEF u
  <1>15. \A e \in Deliveries : pc[e] = "none" => pc'[e] = "none"
    BY <1>1, <1>8
  <1>16. UpdateInv'
    BY <1>7, <1>10, <1>11, <1>12, <1>13, <1>14, <1>15, UpdateStep
  <1>17. pc'[d] \in {"start", "typing"} => kept[u] = Absent
    BY <1>5 DEF Typed
  <1> QED
    BY <1>4, <1>6, <1>7, <1>16, <1>17 DEF u

LEMMA DeliverUpdates ==
    ASSUME Typed, UpdateInv, NEW u \in Updates, Deliver(u)
    PROVE  UpdateInv' /\ Typed'
  <1> DEFINE d == <<u, delivered[u] + 1>>
  <1>1. /\ delivered' \in [Updates -> 0..MaxDeliveries]
        /\ delivered'[u] = delivered[u] + 1
        /\ \A v \in Updates \ {u} : delivered'[v] = delivered[v]
        /\ delivered[u] + 1 \in 1..MaxDeliveries
    BY AgeFacts DEF Deliver, Typed
  <1>2. d \in Deliveries /\ UpdateOf(d) = u
    BY <1>1, DeliveryFacts
  <1>3. /\ pc' \in [Deliveries -> Points]
        /\ pc'[d] = "received"
        /\ \A e \in Deliveries \ {d} : pc'[e] = pc[e]
    BY <1>2 DEF Deliver, Goto, Typed, Points, Before
  <1>4. UNCHANGED <<text, answered, handled, dropped, remembered, sinceTaken>>
    BY DEF Deliver, memory, history
  <1>5. Typed'
    BY <1>1, <1>3, <1>4 DEF Typed
  <1>6. ASSUME NEW v \in Updates, NEW n \in 1..MaxDeliveries, n > delivered'[v]
        PROVE  pc'[<<v, n>>] = "none"
    <2>1. n > delivered[v] /\ <<v, n>> # d
      BY <1>1, <1>6 DEF Typed
    <2>2. <<v, n>> \in Deliveries
      BY DeliveryFacts
    <2> QED
      BY <1>3, <2>1, <2>2 DEF UpdateInv
  <1>7. \A e \in Deliveries : Working(e) => Working(e)'
    <2>1. pc[d] = "none"
      <3>1. delivered[u] + 1 > delivered[u]
        BY <1>1 DEF Typed
      <3> QED
        BY <1>1, <3>1 DEF UpdateInv
    <2> QED
      BY <1>3, <2>1 DEF Working
  <1>8. \A v \in Updates : Accounted(v) => Accounted(v)'
    BY <1>4, <1>7 DEF Accounted
  <1>9. \A e \in Deliveries : pc'[e] = "answer" => Accounted(UpdateOf(e))'
    BY <1>3, <1>8, DeliveryFacts DEF UpdateInv
  <1>10. /\ \A v \in Updates : remembered'[v] # Absent => Accounted(v)'
         /\ \A v \in answered' : Accounted(v)'
    BY <1>4, <1>8 DEF UpdateInv, Typed
  <1> QED
    BY <1>4, <1>5, <1>6, <1>9, <1>10 DEF UpdateInv

LEMMA RestartUpdates ==
    ASSUME Typed, UpdateInv, Restart
    PROVE  UpdateInv' /\ Typed'
  <1>1. /\ remembered' = [u \in Updates |-> Absent]
        /\ sinceTaken' = [u \in Updates |-> Absent]
        /\ dropped' = dropped \union {UpdateOf(d) : d \in {e \in Deliveries : Working(e)}}
        /\ UNCHANGED <<text, delivered, answered, handled>>
    BY DEF Restart
  <1>2. /\ pc' \in [Deliveries -> Points]
        /\ \A d \in Deliveries : pc'[d] \in {"none", "over"} /\ (pc[d] = "none" => pc'[d] = "none")
    BY DEF Restart, Typed, Live, Points
  <1>3. Typed'
    <2>1. dropped' \subseteq Updates
      BY <1>1, DeliveryFacts DEF Typed
    <2> QED
      BY <1>1, <1>2, <2>1, AgeFacts DEF Typed
  <1>4. \A u \in Updates : Accounted(u) => Accounted(u)'
    BY <1>1 DEF Accounted
  <1>5. \A u \in answered' : Accounted(u)'
    BY <1>1, <1>4 DEF UpdateInv, Typed
  <1>6. /\ \A u \in Updates : remembered'[u] # Absent => Accounted(u)'
        /\ \A u \in Updates : sinceTaken'[u] > DedupTTL
    BY <1>1, AgeFacts
  <1> QED
    BY <1>1, <1>2, <1>3, <1>4, <1>5, <1>6, UpdateStep

LEMMA TickUpdates ==
    ASSUME Typed, UpdateInv, Tick
    PROVE  UpdateInv' /\ Typed'
  <1>1. /\ remembered' \in [Updates -> 0..Absent]
        /\ sinceTaken' \in [Updates -> 0..Absent]
        /\ \A u \in Updates : /\ remembered'[u] = Older(remembered[u])
                              /\ sinceTaken'[u] = Older(sinceTaken[u])
    BY AgeFacts DEF Tick, Aged, Typed
  <1>2. UNCHANGED <<text, delivered, answered, handled, dropped, pc>>
    BY DEF Tick
  <1>3. Typed'
    BY <1>1, <1>2 DEF Typed
  <1>4. /\ \A u \in Updates : Accounted(u)' <=> Accounted(u)
        /\ \A u \in Updates : remembered'[u] # Absent => remembered[u] # Absent
    BY <1>1, <1>2, AgeFacts DEF Typed, Accounted, Working
  <1>5. \A u \in Updates : sinceTaken'[u] > DedupTTL \/ remembered'[u] = sinceTaken'[u]
    <2> SUFFICES ASSUME NEW u \in Updates
                 PROVE  sinceTaken'[u] > DedupTTL \/ remembered'[u] = sinceTaken'[u]
      OBVIOUS
    <2>1. sinceTaken[u] \in 0..Absent /\ sinceTaken'[u] >= sinceTaken[u]
          /\ sinceTaken'[u] \in 0..Absent
      BY <1>1, AgeFacts DEF Typed
    <2> QED
      BY <1>1, <2>1, AgeFacts DEF UpdateInv
  <1>6. /\ \A u \in Updates : remembered'[u] # Absent => Accounted(u)'
        /\ \A u \in answered' : Accounted(u)'
    BY <1>2, <1>4 DEF UpdateInv, Typed
  <1> QED
    BY <1>2, <1>3, <1>4, <1>5, <1>6, UpdateStep

-----------------------------------------------------------------------------
LEMMA NextIInv == IInv /\ [Next]_vars => IInv'
  <1> SUFFICES ASSUME IInv, [Next]_vars PROVE IInv'
    OBVIOUS
  <1> USE DEF IInv
  <1>1. CASE UNCHANGED vars
    <2>1. UNCHANGED <<text, delivered, answered, remembered, lockOf, unused, waiters,
                      pc, mine, waited, handled, dropped, sinceTaken>>
      BY <1>1 DEF vars, memory, history
    <2>2. Typed' /\ LocksTyped' /\ HoldsOrWaits' /\ UnmadeIsUnused' /\ LocksOfTheirChat'
      BY <2>1 DEF Typed, LockInv, LocksTyped, HoldsOrWaits, UnmadeIsUnused, LocksOfTheirChat
    <2>3. Queues' /\ OneHolder' /\ FirstIsWoken' /\ QueueHasHolder'
      BY <2>1 DEF LockInv, Queues, OneHolder, Holds, FirstIsWoken, QueueHasHolder
    <2>4. WaitedWhileUnused' /\ StrayHasWaited' /\ UpdateInv'
      BY <2>1 DEF LockInv, WaitedWhileUnused, StrayHasWaited, UpdateInv, Accounted,
                       Working
    <2> QED
      BY <2>2, <2>3, <2>4 DEF LockInv
  <1>2. ASSUME NEW d \in Deliveries,
               \/ Refuse(d) \/ HandleStart(d) \/ SendTyping(d) \/ AskForLock(d)
               \/ Process(d) \/ Acquire(d) \/ Answer(d)
        PROVE  IInv'
    <2>1. LockInv' /\ pc' \in [Deliveries -> Points]
      BY <1>2, OutsideLocks, AskLocks, ProcessLocks, AcquireLocks
    <2>2. /\ UpdateInv' /\ answered' \subseteq Updates /\ handled' \subseteq Updates
          /\ UNCHANGED <<text, delivered, dropped, remembered, sinceTaken>>
      BY <1>2, QuietUpdates
    <2> QED
      BY <2>1, <2>2 DEF Typed
  <1>3. ASSUME NEW d \in Deliveries, Remember(d) PROVE IInv'
    <2>1. LockInv' /\ pc' \in [Deliveries -> Points]
      BY <1>3, OutsideLocks
    <2> QED
      BY <1>3, <2>1, RememberUpdates DEF Typed
  <1>4. ASSUME NEW u \in Updates, Deliver(u) PROVE IInv'
    BY <1>4, DeliverLocks, DeliverUpdates
  <1>5. CASE Restart
    BY <1>5, RestartLocks, RestartUpdates
  <1>6. CASE Tick
    BY <1>6, TickLocks, TickUpdates
  <1> QED
    BY <1>1, <1>2, <1>3, <1>4, <1>5, <1>6 DEF Next, Step

(* The inductive invariant holds in every reachable state.                 *)
THEOREM Invariance == Spec => []IInv
  <1> QED
    BY InitIInv, NextIInv, PTL DEF Spec

(* Types, and the queue of a lock holds who waits for it, each once.       *)
THEOREM TypeCorrect == Spec => []TypeOK
  <1>1. IInv => TypeOK
    <2> SUFFICES ASSUME IInv PROVE TypeOK
      OBVIOUS
    <2>1. \A c \in Chats : lockOf[c] = NoLock <=> unused[c] = Absent
      BY DEF IInv, LockInv, LocksOfTheirChat
    <2> QED
      BY <2>1 DEF TypeOK, IInv, Typed, LockInv, LocksTyped, Queues
  <1> QED
    BY <1>1, Invariance, PTL

(* Messages of a chat are processed one at a time, or one of them waited   *)
(* for longer than locks are kept.                                         *)
THEOREM ChatIsSerial == Spec => []OneAtATime
  <1>1. IInv => OneAtATime
    <2> SUFFICES ASSUME IInv, NEW d \in Deliveries, NEW e \in Deliveries,
                        d # e, ChatOf(d) = ChatOf(e), pc[d] = "running", pc[e] = "running"
                 PROVE  \E w \in {d, e} : waited[w] > LockTTL
      BY DEF OneAtATime
    <2>1. mine[d] # NoLock /\ mine[e] # NoLock /\ mine[d] # mine[e]
      BY DEF IInv, LockInv, HoldsOrWaits, Using, OneHolder, Holds
    <2>2. lockOf[ChatOf(d)] # mine[d] \/ lockOf[ChatOf(e)] # mine[e]
      BY <2>1
    <2> QED
      BY <2>1, <2>2 DEF IInv, LockInv, StrayHasWaited
  <1> QED
    BY <1>1, Invariance, PTL

(* What Telegram takes as delivered was processed to the end, is in work,  *)
(* or was lost by a blank text or by a restart in the middle of it.        *)
THEOREM AnsweredUpdatesAreHandled == Spec => []AnsweredIsHandled
  <1>1. IInv => AnsweredIsHandled
    BY DEF IInv, UpdateInv, Accounted, AnsweredIsHandled
  <1> QED
    BY <1>1, Invariance, PTL

(* A process does not take an update on twice within the time it remembers.*)
THEOREM NoEarlyRepeat == Spec => NoRepeatWithinTTL
  <1> DEFINE Late == \A d \in Deliveries :
                         pc[d] = "received" /\ pc'[d] \in {"start", "typing"}
                         => sinceTaken[UpdateOf(d)] > DedupTTL
  <1>1. IInv /\ [Next]_vars => [Late]_vars
    <2> SUFFICES ASSUME IInv, Next, NEW d \in Deliveries,
                        pc[d] = "received", pc'[d] \in {"start", "typing"}
                 PROVE  sinceTaken[UpdateOf(d)] > DedupTTL
      OBVIOUS
    <2>1. Remember(d)
      <3>1. ASSUME NEW e \in Deliveries, Step(e) \/ Refuse(e) PROVE Remember(d)
        <4>1. ASSUME e # d PROVE FALSE
          <5>1. Process(e)
            BY <3>1, <4>1 DEF Step, Refuse, Remember, HandleStart, SendTyping, AskForLock,
                              Acquire, Answer, Goto, IInv, Typed
          <5>2. pc'[d] \in {"answer", "woken", "received"}
            BY <5>1 DEF Process, Awake
          <5> QED
            BY <5>2
        <4> QED
          BY <3>1, <4>1 DEF Step, Refuse, HandleStart, SendTyping, AskForLock, Process,
                            Acquire, Answer, Goto, IInv, Typed
      <3>2. ASSUME NEW u \in Updates, Deliver(u) PROVE FALSE
        BY <3>2 DEF Deliver, Goto, IInv, Typed
      <3>3. ~Restart
        BY DEF Restart, Live
      <3>4. ~Tick
        BY DEF Tick
      <3> QED
        BY <3>1, <3>2, <3>3, <3>4 DEF Next
    <2> QED
      BY <2>1, RememberUpdates DEF IInv
  <1> QED
    BY <1>1, Invariance, PTL DEF Spec, NoRepeatWithinTTL
=============================================================================
