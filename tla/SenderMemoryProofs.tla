-------------------------- MODULE SenderMemoryProofs -------------------------
(***************************************************************************)
(* Proofs about SenderMemory, for any set of exchanges, any threshold and  *)
(* any length of the window a refresh reads.                               *)
(***************************************************************************)
EXTENDS SenderMemory, FiniteSetTheorems, SequenceTheorems, TLAPS

(* What the exchanges have read are sets of numbers.                       *)
ReadsTyped ==
    /\ seen \in [Exchanges -> SUBSET Nat]
    /\ base \in [Exchanges -> SUBSET Nat]
    /\ recent \in [Exchanges -> SUBSET Nat]

(* What an exchange has read of the counter counted no more than is stored *)
(* by now, since messages are only added.                                  *)
SeenIsStored == \A m \in Exchanges : \A n \in seen[m] : n <= Len(log)

(* An exchange that may yet store a reply has its message in the thread,   *)
(* unless the COMMIT of it failed.                                         *)
Replying == {"answer", "fallback", "held", "recall", "recent", "summarise",
             "replyCounter", "saveReply"}

MessageIsStored ==
    \A m \in Exchanges \ unstored :
        pc[m] \in Replying => \E j \in DOMAIN log : log[j] = <<m, "inbound">>

(* Before a message is looked at nothing of it is stored; a /start takes   *)
(* none of the other steps.                                                *)
Greetings ==
    \A m \in Exchanges :
        /\ pc[m] = "new" => \A i \in DOMAIN log : log[i][1] # m
        /\ pc[m] = "greet" => m \in started
        /\ pc[m] \notin {"greet", "done"} => m \notin started

(* One after the other, what an exchange has read of the counter and of    *)
(* the summary is not out of date, what it has read of the messages misses *)
(* only a /start, and a summary, once there is one, has a last message.    *)
Alone == serial =>
    /\ approved = {}
    /\ \A m, n \in Exchanges : Running(m) /\ Running(n) => m = n

LastIsRead(m) ==
    \E k \in recent[m] :
        /\ \A j \in base[m] \union recent[m] : j <= k
        /\ \A i \in DOMAIN log : i > k => log[i][1] \in started

ReadsAreCurrent == serial =>
    \A m \in Exchanges :
        /\ pc[m] \in {"store", "saveReply"} => seen[m] = counter
        /\ pc[m] \in {"recent", "summarise"} => base[m] = summary /\ Due(counter)
        /\ pc[m] = "summarise" => LastIsRead(m)

SummaryHasLast ==
    serial /\ summary # {} => \E i \in summary : \A j \in summary : j <= i

IInv == /\ TypeOK /\ ReadsTyped
        /\ CountsStoredMessages /\ SeenIsStored
        /\ RepliesFollowTheirMessage /\ MessageIsStored /\ Greetings
        /\ Alone /\ ReadsAreCurrent /\ SummaryHasLast /\ CountIsExact

-----------------------------------------------------------------------------
(* The last number of a set is what CHOOSE finds.                          *)
LEMMA LastIsUnique ==
    ASSUME NEW S \in SUBSET Nat, NEW i \in S, \A j \in S : j <= i
    PROVE  (CHOOSE k \in S : \A j \in S : j <= k) = i
  <1>1. PICK k \in S : \A j \in S : j <= k
    OBVIOUS
  <1>2. \A k1 \in S : (\A j \in S : j <= k1) => k1 = i
    OBVIOUS
  <1> QED
    BY <1>2

(* The messages after the last summarised one are finitely many.           *)
LEMMA FreshIsFinite ==
    ASSUME log \in Seq(Messages)
    PROVE  IsFiniteSet(Fresh) /\ Cardinality(Fresh) \in Nat
  <1>1. Len(log) \in Nat /\ Fresh \subseteq 1 .. Len(log)
    BY DEF Fresh
  <1>2. IsFiniteSet(1 .. Len(log))
    BY <1>1, FS_Interval
  <1>3. IsFiniteSet(Fresh)
    BY <1>1, <1>2, FS_Subset
  <1> QED
    BY <1>3, FS_CardinalityType

(* An increment yields one number, at most one more than what was read.    *)
LEMMA IncrementedCounts ==
    ASSUME NEW S \in SUBSET Nat, \A x, y \in S : x = y,
           NEW b \in Nat, \A n \in S : n <= b
    PROVE  /\ Incremented(S) \subseteq Nat
           /\ Incremented(S) # {}
           /\ \A x, y \in Incremented(S) : x = y
           /\ \A n \in Incremented(S) : n <= b + 1
           /\ S # {} => \A n \in Incremented(S) : \A x \in S : n = x + 1
           /\ S = {} => Incremented(S) = {1}
  BY DEF Incremented

-----------------------------------------------------------------------------
(* The inductive invariant holds before the first message.                 *)
LEMMA InitIInv == Init => IInv
  <1> SUFFICES ASSUME Init PROVE IInv
    OBVIOUS
  <1>1. TypeOK /\ ReadsTyped
    <2>1. \A m \in Exchanges : seen[m] = {} /\ base[m] = {} /\ recent[m] = {}
      BY DEF Init
    <2>2. \A S \in {counter} \union {seen[m] : m \in Exchanges} : S = {}
      BY <2>1 DEF Init
    <2>3. log \in Seq(Messages) /\ summary \subseteq DOMAIN log
      BY DEF Init
    <2>4. /\ pc \in [Exchanges -> Points] /\ sawThread \in [Exchanges -> BOOLEAN]
          /\ ReadsTyped
      BY DEF Init, Points, ReadsTyped
    <2>5. /\ serial \in BOOLEAN /\ thread \in BOOLEAN
          /\ approved \subseteq Exchanges /\ started \subseteq Exchanges
          /\ unstored \subseteq Exchanges
      BY DEF Init
    <2> QED
      BY <2>1, <2>2, <2>3, <2>4, <2>5 DEF TypeOK
  <1>2. Summarised = 0
    BY DEF Init, Summarised
  <1>3. CountIsExact
    <2>1. Fresh = {}
      BY DEF Init, Fresh
    <2> QED
      BY <2>1, FS_EmptySet DEF Init, CountIsExact, Counted
  <1>4. /\ CountsStoredMessages /\ SeenIsStored /\ RepliesFollowTheirMessage
        /\ MessageIsStored /\ Greetings /\ SummaryHasLast
    BY DEF Init, CountsStoredMessages, SeenIsStored, RepliesFollowTheirMessage,
           MessageIsStored, Replying, Greetings, SummaryHasLast
  <1>5. Alone /\ ReadsAreCurrent
    BY DEF Init, Alone, ReadsAreCurrent, Running
  <1> QED
    BY <1>1, <1>3, <1>4, <1>5 DEF IInv

(* What a step of m that stores nothing must show.                         *)
LEMMA QuietStep ==
    ASSUME IInv, NEW m \in Exchanges, NEW p \in Points,
           pc' = [pc EXCEPT ![m] = p],
           UNCHANGED stored,
           sawThread' \in [Exchanges -> BOOLEAN],
           ReadsTyped',
           \A n \in Exchanges : /\ seen'[n] \in {seen[n], counter}
                                /\ base'[n] \in {base[n], summary}
                                /\ recent'[n] \in {recent[n], LastMessages},
           \A n \in Exchanges \ {m} :
               seen'[n] = seen[n] /\ base'[n] = base[n] /\ recent'[n] = recent[n],
           approved' \subseteq Exchanges,
           serial => approved' = approved,
           p # "new", p = "greet" => pc[m] = "new",
           p = "done" \/ pc[m] \notin {"greet", "done"},
           started' = IF p = "greet" THEN started \union {m} ELSE started,
           unstored \subseteq unstored', unstored' \subseteq Exchanges,
           p \in Replying => pc[m] \in Replying \/ m \in unstored',
           serial /\ p \notin {"held", "done", "greet"} =>
               Running(m) \/ \A n \in Exchanges : ~Running(n),
           serial => /\ p \in {"store", "saveReply"} => seen'[m] = counter
                     /\ p \in {"recent", "summarise"} =>
                            base'[m] = summary /\ Due(counter)
                     /\ p = "summarise" => recent'[m] = LastMessages
    PROVE  IInv'
  <1>1. /\ pc \in [Exchanges -> Points]
        /\ serial' = serial /\ thread' = thread /\ log' = log
        /\ counter' = counter /\ summary' = summary
    BY DEF IInv, TypeOK, stored
  <1>2. /\ pc' \in [Exchanges -> Points]
        /\ pc'[m] = p
        /\ \A n \in Exchanges \ {m} : pc'[n] = pc[n]
    BY <1>1
  <1>3. LastMessages \subseteq DOMAIN log /\ LastMessages' = LastMessages
    BY <1>1 DEF LastMessages
  <1>4. TypeOK'
    <2>1. \A n \in Exchanges : base'[n] \union recent'[n] \subseteq DOMAIN log'
      BY <1>1, <1>3 DEF IInv, TypeOK
    <2>2. \A S \in {counter'} \union {seen'[n] : n \in Exchanges} :
              S \subseteq Nat /\ \A x, y \in S : x = y
      <3>1. \A S \in {counter} \union {seen[n] : n \in Exchanges} :
                S \subseteq Nat /\ \A x, y \in S : x = y
        BY DEF IInv, TypeOK
      <3>2. \A n \in Exchanges : seen'[n] \in {counter} \union {seen[k] : k \in Exchanges}
        OBVIOUS
      <3>3. {counter'} \union {seen'[n] : n \in Exchanges} \subseteq
                {counter} \union {seen[n] : n \in Exchanges}
        BY <1>1, <3>2
      <3> QED
        BY <3>1, <3>3
    <2> QED
      BY <1>1, <1>2, <2>1, <2>2 DEF IInv, TypeOK
  <1>5. CountsStoredMessages' /\ SeenIsStored'
    BY <1>1 DEF IInv, CountsStoredMessages, SeenIsStored
  <1>6. RepliesFollowTheirMessage'
    BY <1>1 DEF IInv, RepliesFollowTheirMessage
  <1>7. MessageIsStored'
    BY <1>1, <1>2 DEF IInv, MessageIsStored
  <1>8. Alone'
    BY <1>1, <1>2 DEF IInv, Alone, Running
  <1>9. Greetings' /\ \A i \in DOMAIN log : log[i][1] \in started' <=> log[i][1] \in started
    <2>1. pc[m] = "new" => \A i \in DOMAIN log : log[i][1] # m
      BY DEF IInv, Greetings
    <2>2. started' = started \/ (started' = started \union {m} /\ p = "greet")
      OBVIOUS
    <2>3. \A i \in DOMAIN log : log[i][1] \in started' <=> log[i][1] \in started
      BY <2>1, <2>2
    <2> SUFFICES ASSUME NEW n \in Exchanges
                 PROVE  /\ pc'[n] = "new" => \A i \in DOMAIN log : log[i][1] # n
                        /\ pc'[n] = "greet" => n \in started'
                        /\ pc'[n] \notin {"greet", "done"} => n \notin started'
      BY <1>1, <2>3 DEF Greetings
    <2>4. CASE n = m
      BY <1>2, <2>2, <2>4 DEF IInv, Greetings
    <2>5. CASE n # m
      BY <1>2, <2>2, <2>5 DEF IInv, Greetings
    <2> QED
      BY <2>4, <2>5
  <1>10. ReadsAreCurrent'
    <2> SUFFICES ASSUME serial, NEW n \in Exchanges
                 PROVE  /\ pc'[n] \in {"store", "saveReply"} => seen'[n] = counter
                        /\ pc'[n] \in {"recent", "summarise"} =>
                               base'[n] = summary /\ Due(counter)
                        /\ pc'[n] = "summarise" => LastIsRead(n)'
      BY <1>1 DEF ReadsAreCurrent, Due
    <2>1. CASE n # m
      BY <1>1, <1>2, <1>9, <2>1 DEF IInv, ReadsAreCurrent, LastIsRead
    <2>2. CASE n = m
      <3>1. /\ p \in {"store", "saveReply"} => seen'[m] = counter
            /\ p \in {"recent", "summarise"} => base'[m] = summary /\ Due(counter)
            /\ p = "summarise" => recent'[m] = LastMessages
        OBVIOUS
      <3>2. ASSUME p = "summarise" PROVE LastIsRead(m)'
        <4>1. PICK c \in counter : c >= Threshold
          BY <3>1, <3>2 DEF Due
        <4>2. /\ log \in Seq(Messages) /\ Len(log) \in Nat /\ DOMAIN log = 1 .. Len(log)
              /\ summary \subseteq DOMAIN log /\ c \in Nat /\ c <= Len(log)
          BY DEF IInv, TypeOK, CountsStoredMessages
        <4>3. Len(log) \in LastMessages
          BY <4>1, <4>2, ThresholdAssumption, RecentAssumption DEF LastMessages
        <4> QED
          BY <1>1, <1>3, <3>1, <3>2, <4>2, <4>3 DEF LastIsRead
      <3> QED
        BY <1>2, <2>2, <3>1, <3>2
    <2> QED
      BY <2>1, <2>2
  <1>11. SummaryHasLast' /\ CountIsExact'
    <2>1. Summarised' = Summarised
      BY <1>1 DEF Summarised
    <2>2. Fresh' = Fresh
      BY <1>1, <1>9, <2>1 DEF Fresh
    <2> QED
      BY <1>1, <2>2 DEF IInv, SummaryHasLast, CountIsExact, Counted
  <1> QED
    BY <1>4, <1>5, <1>6, <1>7, <1>8, <1>9, <1>10, <1>11 DEF IInv

(* A step of m that commits a message and the counter m worked out.        *)
LEMMA StoringStep ==
    ASSUME IInv, NEW m \in Exchanges, NEW d \in {"inbound", "outbound"},
           NEW p \in Points \ {"new", "greet", "store", "saveReply", "recent", "summarise"},
           pc[m] = IF d = "inbound" THEN "store" ELSE "saveReply",
           pc' = [pc EXCEPT ![m] = p],
           thread' \in BOOLEAN,
           log' = Append(log, <<m, d>>),
           counter' = Incremented(seen[m]),
           UNCHANGED <<serial, summary, reads, status>>
    PROVE  IInv'
  <1>1. /\ pc \in [Exchanges -> Points] /\ log \in Seq(Messages)
        /\ UNCHANGED <<serial, summary, sawThread, seen, base, recent,
                      approved, started, unstored>>
    BY DEF IInv, TypeOK, reads, status
  <1>2. /\ pc' \in [Exchanges -> Points]
        /\ pc'[m] = p
        /\ \A n \in Exchanges \ {m} : pc'[n] = pc[n]
    BY <1>1
  <1>3. <<m, d>> \in Messages
    BY DEF Messages
  <1>4. /\ log' \in Seq(Messages) /\ Len(log) \in Nat /\ Len(log') = Len(log) + 1
        /\ DOMAIN log = 1 .. Len(log) /\ DOMAIN log' = 1 .. Len(log) + 1
        /\ \A i \in DOMAIN log : log'[i] = log[i]
        /\ log'[Len(log) + 1] = <<m, d>>
    BY <1>1, <1>3
  <1>5. /\ seen[m] \in SUBSET Nat /\ \A x, y \in seen[m] : x = y
        /\ \A n \in seen[m] : n <= Len(log)
    BY DEF IInv, TypeOK, ReadsTyped, SeenIsStored
  <1>6. /\ counter' \subseteq Nat /\ counter' # {}
        /\ \A x, y \in counter' : x = y
        /\ \A n \in counter' : n <= Len(log) + 1
        /\ seen[m] # {} => \A n \in counter' : \A x \in seen[m] : n = x + 1
        /\ seen[m] = {} => counter' = {1}
    BY <1>4, <1>5, IncrementedCounts
  <1>7. TypeOK' /\ ReadsTyped'
    <2>1. \A n \in Exchanges : base'[n] \union recent'[n] \subseteq DOMAIN log'
      BY <1>1, <1>4 DEF IInv, TypeOK
    <2>2. \A S \in {counter'} \union {seen'[n] : n \in Exchanges} :
              S \subseteq Nat /\ \A x, y \in S : x = y
      BY <1>1, <1>6 DEF IInv, TypeOK
    <2>3. summary' \subseteq DOMAIN log'
      BY <1>1, <1>4 DEF IInv, TypeOK
    <2> QED
      BY <1>1, <1>2, <1>4, <2>1, <2>2, <2>3 DEF IInv, TypeOK, ReadsTyped
  <1>8. CountsStoredMessages' /\ SeenIsStored'
    <2>1. \A n \in Exchanges : \A x \in seen[n] : x \in Nat /\ x <= Len(log)
      BY DEF IInv, ReadsTyped, SeenIsStored
    <2> QED
      BY <1>1, <1>4, <1>6, <2>1 DEF CountsStoredMessages, SeenIsStored
  <1>9. RepliesFollowTheirMessage'
    <2> SUFFICES ASSUME NEW i \in DOMAIN log', log'[i][2] = "outbound",
                        log'[i][1] \notin unstored'
                 PROVE  \E j \in 1 .. i - 1 : log'[j] = <<log'[i][1], "inbound">>
      BY DEF RepliesFollowTheirMessage
    <2>1. CASE i \in DOMAIN log
      <3>1. PICK j \in 1 .. i - 1 : log[j] = <<log[i][1], "inbound">>
        BY <1>1, <1>4, <2>1 DEF IInv, RepliesFollowTheirMessage
      <3> QED
        BY <1>4, <2>1, <3>1
    <2>2. CASE i = Len(log) + 1
      <3>1. d = "outbound" /\ m \notin unstored
        BY <1>1, <1>4, <2>2
      <3>2. PICK j \in DOMAIN log : log[j] = <<m, "inbound">>
        BY <3>1 DEF IInv, MessageIsStored, Replying
      <3> QED
        BY <1>4, <2>2, <3>2
    <2>3. i \in DOMAIN log \/ i = Len(log) + 1
      BY <1>4
    <2> QED
      BY <2>1, <2>2, <2>3
  <1>10. MessageIsStored'
    <2> SUFFICES ASSUME NEW n \in Exchanges \ unstored', pc'[n] \in Replying
                 PROVE  \E j \in DOMAIN log' : log'[j] = <<n, "inbound">>
      BY DEF MessageIsStored
    <2>1. CASE n = m /\ d = "inbound"
      BY <1>4, <2>1
    <2>2. CASE n # m \/ d = "outbound"
      <3>1. pc[n] \in Replying /\ n \notin unstored
        BY <1>1, <1>2, <2>2 DEF Replying
      <3>2. PICK j \in DOMAIN log : log[j] = <<n, "inbound">>
        BY <3>1 DEF IInv, MessageIsStored
      <3> QED
        BY <1>4, <3>2
    <2> QED
      BY <2>1, <2>2
  <1>11. serial => Running(m) /\ \A n \in Exchanges \ {m} : ~Running(n)
    BY DEF IInv, Alone, Running
  <1>12. Alone'
    BY <1>1, <1>2, <1>11 DEF IInv, Alone, Running
  <1>13. ReadsAreCurrent'
    <2>1. \A n \in Exchanges : serial =>
              pc'[n] \notin {"store", "saveReply", "recent", "summarise"}
      BY <1>1, <1>2, <1>11 DEF Running, IInv, Alone
    <2> QED
      BY <1>1, <2>1 DEF ReadsAreCurrent
  <1>14. SummaryHasLast'
    BY <1>1 DEF IInv, SummaryHasLast
  <1>15. Greetings'
    <2>1. m \notin started
      BY DEF IInv, Greetings
    <2> SUFFICES ASSUME NEW n \in Exchanges
                 PROVE  /\ pc'[n] = "new" => \A i \in DOMAIN log' : log'[i][1] # n
                        /\ pc'[n] = "greet" => n \in started'
                        /\ pc'[n] \notin {"greet", "done"} => n \notin started'
      BY DEF Greetings
    <2>2. CASE n = m
      BY <1>1, <1>2, <2>1, <2>2
    <2>3. CASE n # m
      <3>1. pc'[n] = pc[n] /\ started' = started
        BY <1>1, <1>2, <2>3
      <3>2. pc[n] = "new" => \A i \in DOMAIN log' : log'[i][1] # n
        BY <1>4, <2>3 DEF IInv, Greetings
      <3> QED
        BY <3>1, <3>2 DEF IInv, Greetings
    <2> QED
      BY <2>2, <2>3
  <1>16. CountIsExact'
    <2> SUFFICES ASSUME serial
                 PROVE  counter' = {Cardinality(Fresh')}
      <3>1. serial' = serial /\ Counted' = counter'
        BY <1>1, <1>6 DEF Counted
      <3> QED
        BY <3>1 DEF CountIsExact
    <2>1. seen[m] = counter
      BY DEF IInv, ReadsAreCurrent
    <2>2. Summarised \in Nat /\ Summarised <= Len(log) /\ Summarised' = Summarised
      <3>1. summary \subseteq 1 .. Len(log)
        BY <1>4 DEF IInv, TypeOK
      <3>2. summary # {} => \E i \in summary : \A j \in summary : j <= i
        BY DEF IInv, SummaryHasLast
      <3>3. summary # {} => Summarised \in summary
        BY <3>1, <3>2 DEF Summarised
      <3>4. Summarised' = Summarised
        BY <1>1 DEF Summarised
      <3>5. summary = {} => Summarised = 0
        BY DEF Summarised
      <3>6. CASE summary = {}
        BY <1>4, <3>4, <3>5, <3>6
      <3>7. CASE summary # {}
        <4>1. Summarised \in 1 .. Len(log)
          BY <3>1, <3>3, <3>7, Zenon
        <4> QED
          BY <1>4, <3>4, <4>1
      <3> QED
        BY <3>6, <3>7
    <2>3. Fresh' = Fresh \union {Len(log) + 1} /\ Len(log) + 1 \notin Fresh
      <3>1. m \notin started /\ started' = started
        BY <1>1 DEF IInv, Greetings
      <3>2. \A i \in DOMAIN log' : i \in Fresh' <=> i > Summarised /\ log'[i][1] \notin started
        BY <2>2, <3>1 DEF Fresh
      <3>3. Fresh' \subseteq DOMAIN log' /\ Fresh \subseteq DOMAIN log
        BY DEF Fresh
      <3>4. Len(log) + 1 \in Fresh'
        BY <1>4, <2>2, <3>1, <3>2
      <3>5. \A i \in DOMAIN log : i \in Fresh' <=> i \in Fresh
        BY <1>4, <3>2 DEF Fresh
      <3> QED
        BY <1>4, <3>3, <3>4, <3>5
    <2>4. /\ Cardinality(Fresh) \in Nat
          /\ Cardinality(Fresh') = Cardinality(Fresh) + 1
      BY <1>1, <2>3, FreshIsFinite, FS_AddElement
    <2>5. CASE counter = {}
      <3>1. {0} = {Cardinality(Fresh)}
        BY <2>5 DEF IInv, CountIsExact, Counted
      <3>2. Cardinality(Fresh') = 1
        BY <2>4, <3>1
      <3> QED
        BY <1>6, <2>1, <2>5, <3>2
    <2>6. CASE counter # {}
      <3>1. counter = {Cardinality(Fresh)}
        BY <2>6 DEF IInv, CountIsExact, Counted
      <3>2. \A n \in counter' : n = Cardinality(Fresh')
        BY <1>6, <2>1, <2>4, <2>6, <3>1
      <3> QED
        BY <1>6, <3>2
    <2> QED
      BY <2>5, <2>6
  <1> QED
    BY <1>7, <1>8, <1>9, <1>10, <1>12, <1>13, <1>14, <1>15, <1>16 DEF IInv

(* The two messages of a /start change nothing that is counted.            *)
LEMMA GreetingStep ==
    ASSUME IInv, NEW m \in Exchanges, StoreGreeting(m) PROVE IInv'
  <1>1. /\ pc \in [Exchanges -> Points] /\ pc[m] = "greet"
        /\ pc' = [pc EXCEPT ![m] = "done"] /\ thread' = TRUE
        /\ UNCHANGED <<serial, counter, summary, sawThread, seen, base, recent,
                      approved, started, unstored>>
    BY DEF StoreGreeting, Goto, reads, status, IInv, TypeOK
  <1>2. /\ pc' \in [Exchanges -> Points] /\ pc'[m] = "done"
        /\ \A n \in Exchanges \ {m} : pc'[n] = pc[n]
    BY <1>1 DEF Points
  <1>3. /\ log \in Seq(Messages) /\ Len(log) \in Nat /\ DOMAIN log = 1 .. Len(log)
        /\ log' \in Seq(Messages) /\ Len(log') = Len(log) + 2
        /\ DOMAIN log' = 1 .. Len(log) + 2
        /\ \A i \in DOMAIN log : log'[i] = log[i]
        /\ log'[Len(log) + 1] = <<m, "inbound">>
        /\ log'[Len(log) + 2] = <<m, "outbound">>
    <2> DEFINE two == <<<<m, "inbound">>, <<m, "outbound">>>>
    <2>1. log \in Seq(Messages)
      BY DEF IInv, TypeOK
    <2>2. two \in Seq(Messages) /\ Len(two) = 2
          /\ two[1] = <<m, "inbound">> /\ two[2] = <<m, "outbound">>
      BY DEF Messages
    <2>3. log' = log \o two
      BY DEF StoreGreeting
    <2> HIDE DEF two
    <2>4. /\ log' \in Seq(Messages) /\ Len(log') = Len(log) + Len(two)
          /\ \A i \in 1 .. Len(log) + Len(two) :
                 log'[i] = IF i <= Len(log) THEN log[i] ELSE two[i - Len(log)]
      BY <2>1, <2>2, <2>3, ConcatProperties
    <2>5. \A i \in 1 .. Len(log) : log'[i] = log[i]
      BY <2>1, <2>2, <2>4
    <2>6. log'[Len(log) + 1] = two[1] /\ log'[Len(log) + 2] = two[2]
      BY <2>1, <2>2, <2>4
    <2> QED
      BY <2>1, <2>2, <2>4, <2>5, <2>6
  <1>4. /\ DOMAIN log \subseteq DOMAIN log' /\ m \in started
        /\ \A i \in DOMAIN log' \ DOMAIN log : log'[i][1] = m
    <2>1. \A i \in DOMAIN log' \ DOMAIN log : i = Len(log) + 1 \/ i = Len(log) + 2
      BY <1>3
    <2>2. m \in started
      BY <1>1 DEF IInv, Greetings
    <2>3. \A i \in DOMAIN log' \ DOMAIN log : log'[i][1] = m
      BY <1>3, <2>1
    <2> QED
      BY <1>3, <2>2, <2>3
  <1>5. TypeOK' /\ ReadsTyped'
    <2>1. \A S \in {counter'} \union {seen'[n] : n \in Exchanges} :
              S \subseteq Nat /\ \A x, y \in S : x = y
      BY <1>1 DEF IInv, TypeOK
    <2>2. \A n \in Exchanges : base'[n] \union recent'[n] \subseteq DOMAIN log'
      BY <1>1, <1>4 DEF IInv, TypeOK
    <2> QED
      BY <1>1, <1>2, <1>3, <1>4, <2>1, <2>2 DEF IInv, TypeOK, ReadsTyped
  <1>6. CountsStoredMessages' /\ SeenIsStored'
    <2>1. counter \subseteq Nat /\ \A n \in Exchanges : seen[n] \subseteq Nat
      BY DEF IInv, TypeOK, ReadsTyped
    <2> QED
      BY <1>1, <1>3, <2>1 DEF IInv, CountsStoredMessages, SeenIsStored
  <1>7. RepliesFollowTheirMessage'
    <2> SUFFICES ASSUME NEW i \in DOMAIN log', log'[i][2] = "outbound",
                        log'[i][1] \notin unstored'
                 PROVE  \E j \in 1 .. i - 1 : log'[j] = <<log'[i][1], "inbound">>
      BY DEF RepliesFollowTheirMessage
    <2>1. CASE i \in DOMAIN log
      <3>1. PICK j \in 1 .. i - 1 : log[j] = <<log[i][1], "inbound">>
        BY <1>1, <1>3, <2>1 DEF IInv, RepliesFollowTheirMessage
      <3> QED
        BY <1>3, <2>1, <3>1
    <2>2. CASE i = Len(log) + 1
      BY <1>3, <2>2
    <2>3. CASE i = Len(log) + 2
      <3>1. Len(log) + 1 \in 1 .. i - 1 /\ log'[i][1] = m
        BY <1>3, <2>3
      <3> QED
        BY <1>3, <3>1
    <2> QED
      BY <1>3, <2>1, <2>2, <2>3
  <1>8. MessageIsStored'
    <2> SUFFICES ASSUME NEW n \in Exchanges \ unstored', pc'[n] \in Replying
                 PROVE  \E j \in DOMAIN log' : log'[j] = <<n, "inbound">>
      BY DEF MessageIsStored
    <2>1. PICK j \in DOMAIN log : log[j] = <<n, "inbound">>
      BY <1>1, <1>2 DEF IInv, MessageIsStored, Replying
    <2> QED
      BY <1>3, <1>4, <2>1
  <1>9. Greetings'
    <2> SUFFICES ASSUME NEW n \in Exchanges \ {m}
                 PROVE  /\ pc'[n] = "new" => \A i \in DOMAIN log' : log'[i][1] # n
                        /\ pc'[n] = "greet" => n \in started'
                        /\ pc'[n] \notin {"greet", "done"} => n \notin started'
      BY <1>2 DEF Greetings
    <2>1. pc'[n] = pc[n] /\ started' = started
      BY <1>1, <1>2
    <2>2. pc[n] = "new" => \A i \in DOMAIN log' : log'[i][1] # n
      BY <1>3, <1>4 DEF IInv, Greetings
    <2> QED
      BY <2>1, <2>2 DEF IInv, Greetings
  <1>10. Alone'
    BY <1>1, <1>2 DEF IInv, Alone, Running
  <1>11. ReadsAreCurrent'
    <2> SUFFICES ASSUME serial, NEW n \in Exchanges
                 PROVE  /\ pc'[n] \in {"store", "saveReply"} => seen'[n] = counter
                        /\ pc'[n] \in {"recent", "summarise"} =>
                               base'[n] = summary /\ Due(counter)
                        /\ pc'[n] = "summarise" => LastIsRead(n)'
      BY <1>1 DEF ReadsAreCurrent, Due
    <2>1. pc'[n] \in {"store", "saveReply", "recent", "summarise"} => pc'[n] = pc[n]
      BY <1>2
    <2>2. LastIsRead(n) => LastIsRead(n)'
      BY <1>1, <1>3, <1>4 DEF LastIsRead
    <2> QED
      BY <1>1, <2>1, <2>2 DEF IInv, ReadsAreCurrent
  <1>12. SummaryHasLast'
    BY <1>1 DEF IInv, SummaryHasLast
  <1>13. CountIsExact'
    <2>1. Summarised' = Summarised
      BY <1>1 DEF Summarised
    <2>2. Fresh' = Fresh
      BY <1>1, <1>3, <1>4, <2>1 DEF Fresh
    <2> QED
      BY <1>1, <2>2 DEF IInv, CountIsExact, Counted
  <1> QED
    BY <1>5, <1>6, <1>7, <1>8, <1>9, <1>10, <1>11, <1>12, <1>13 DEF IInv

-----------------------------------------------------------------------------
(* Every action preserves the inductive invariant.                         *)
LEMMA Unread ==
    ASSUME IInv PROVE /\ pc \in [Exchanges -> Points]
                      /\ thread \in BOOLEAN
                      /\ sawThread \in [Exchanges -> BOOLEAN]
                      /\ counter \in SUBSET Nat /\ summary \in SUBSET Nat
                      /\ LastMessages \in SUBSET Nat
                      /\ approved \subseteq Exchanges /\ started \subseteq Exchanges
                      /\ unstored \subseteq Exchanges
                      /\ ReadsTyped
  <1>1. log \in Seq(Messages) /\ LastMessages \subseteq DOMAIN log
    BY DEF IInv, TypeOK, LastMessages
  <1>2. DOMAIN log \subseteq Nat
    BY <1>1
  <1> QED
    BY <1>1, <1>2 DEF IInv, TypeOK

LEMMA GreetIInv ==
    ASSUME IInv, NEW m \in Exchanges, Greet(m) PROVE IInv'
  <1>1. /\ "greet" \in Points /\ pc' = [pc EXCEPT ![m] = "greet"]
        /\ UNCHANGED stored
    BY DEF Greet, Goto, Points
  <1>2. ReadsTyped' /\ sawThread' \in [Exchanges -> BOOLEAN]
    BY Unread, Zenon DEF Greet, ReadsTyped
  <1> QED
    BY <1>1, <1>2, Unread, QuietStep DEF Greet, Replying, ReadsTyped

LEMMA ArriveIInv ==
    ASSUME IInv, NEW m \in Exchanges, Arrive(m) PROVE IInv'
  <1>1. /\ "thread" \in Points /\ pc' = [pc EXCEPT ![m] = "thread"]
        /\ UNCHANGED stored
    BY DEF Arrive, Goto, Points
  <1> QED
    BY <1>1, Unread, QuietStep DEF Arrive, reads, status, Running, Replying, ReadsTyped

LEMMA FindThreadIInv ==
    ASSUME IInv, NEW m \in Exchanges, FindThread(m) PROVE IInv'
  <1> DEFINE p == "counter"
  <1>1. /\ p \in Points /\ pc' = [pc EXCEPT ![m] = p]
        /\ UNCHANGED stored
    BY DEF FindThread, Goto, Points
  <1>2. ReadsTyped' /\ sawThread' \in [Exchanges -> BOOLEAN]
    BY Unread, Zenon DEF FindThread, reads, ReadsTyped
  <1>3. \A n \in Exchanges : /\ seen'[n] \in {seen[n], counter}
                             /\ base'[n] \in {base[n], summary}
                             /\ recent'[n] \in {recent[n], LastMessages}
    BY Unread DEF FindThread, reads, ReadsTyped
  <1>4. \A n \in Exchanges \ {m} :
            seen'[n] = seen[n] /\ base'[n] = base[n] /\ recent'[n] = recent[n]
    BY Unread DEF FindThread, reads, ReadsTyped
  <1>5. /\ p \in Replying => pc[m] \in Replying
        /\ serial /\ p \notin {"held", "done"} => Running(m)
        /\ p \notin {"new", "greet"} /\ pc[m] \notin {"greet", "done"}
    BY Unread DEF FindThread, Running, Replying, IInv, Alone
  <1>6. serial => /\ p \in {"store", "saveReply"} => seen'[m] = counter
                  /\ p \in {"recent", "summarise"} => base'[m] = summary /\ Due(counter)
                  /\ p = "summarise" => recent'[m] = LastMessages
    BY Unread DEF FindThread, IInv, ReadsAreCurrent, reads, ReadsTyped
  <1> HIDE DEF p
  <1> QED
    BY <1>1, <1>2, <1>3, <1>4, <1>5, <1>6, Unread, QuietStep DEF FindThread, status

LEMMA ReadCounterIInv ==
    ASSUME IInv, NEW m \in Exchanges, ReadCounter(m) PROVE IInv'
  <1> DEFINE p == IF pc[m] = "counter" THEN "store" ELSE "saveReply"
  <1>1. /\ p \in Points /\ pc' = [pc EXCEPT ![m] = p]
        /\ UNCHANGED stored
    BY DEF ReadCounter, Goto, Points
  <1>2. ReadsTyped' /\ sawThread' \in [Exchanges -> BOOLEAN]
    BY Unread, Zenon DEF ReadCounter, reads, ReadsTyped
  <1>3. \A n \in Exchanges : /\ seen'[n] \in {seen[n], counter}
                             /\ base'[n] \in {base[n], summary}
                             /\ recent'[n] \in {recent[n], LastMessages}
    BY Unread DEF ReadCounter, reads, ReadsTyped
  <1>4. \A n \in Exchanges \ {m} :
            seen'[n] = seen[n] /\ base'[n] = base[n] /\ recent'[n] = recent[n]
    BY Unread DEF ReadCounter, reads, ReadsTyped
  <1>5. /\ p \in Replying => pc[m] \in Replying
        /\ serial /\ p \notin {"held", "done"} => Running(m)
        /\ p \notin {"new", "greet"} /\ pc[m] \notin {"greet", "done"}
    BY Unread DEF ReadCounter, Running, Replying, IInv, Alone
  <1>6. serial => /\ p \in {"store", "saveReply"} => seen'[m] = counter
                  /\ p \in {"recent", "summarise"} => base'[m] = summary /\ Due(counter)
                  /\ p = "summarise" => recent'[m] = LastMessages
    BY Unread DEF ReadCounter, IInv, ReadsAreCurrent, reads, ReadsTyped
  <1> HIDE DEF p
  <1> QED
    BY <1>1, <1>2, <1>3, <1>4, <1>5, <1>6, Unread, QuietStep DEF ReadCounter, status

LEMMA IntakeFailsIInv ==
    ASSUME IInv, NEW m \in Exchanges, IntakeFails(m) PROVE IInv'
  <1> DEFINE p == "unthreaded"
  <1>1. /\ p \in Points /\ pc' = [pc EXCEPT ![m] = p]
        /\ UNCHANGED stored
    BY DEF IntakeFails, Goto, Points
  <1>2. ReadsTyped' /\ sawThread' \in [Exchanges -> BOOLEAN]
    BY Unread, Zenon DEF IntakeFails, reads, ReadsTyped
  <1>3. \A n \in Exchanges : /\ seen'[n] \in {seen[n], counter}
                             /\ base'[n] \in {base[n], summary}
                             /\ recent'[n] \in {recent[n], LastMessages}
    BY Unread DEF IntakeFails, reads, ReadsTyped
  <1>4. \A n \in Exchanges \ {m} :
            seen'[n] = seen[n] /\ base'[n] = base[n] /\ recent'[n] = recent[n]
    BY Unread DEF IntakeFails, reads, ReadsTyped
  <1>5. /\ p \in Replying => pc[m] \in Replying
        /\ serial /\ p \notin {"held", "done"} => Running(m)
        /\ p \notin {"new", "greet"} /\ pc[m] \notin {"greet", "done"}
    BY Unread DEF IntakeFails, Running, Replying, IInv, Alone
  <1>6. serial => /\ p \in {"store", "saveReply"} => seen'[m] = counter
                  /\ p \in {"recent", "summarise"} => base'[m] = summary /\ Due(counter)
                  /\ p = "summarise" => recent'[m] = LastMessages
    BY Unread DEF IntakeFails, IInv, ReadsAreCurrent, reads, ReadsTyped
  <1> HIDE DEF p
  <1> QED
    BY <1>1, <1>2, <1>3, <1>4, <1>5, <1>6, Unread, QuietStep DEF IntakeFails, status

LEMMA HoldIInv ==
    ASSUME IInv, NEW m \in Exchanges, Hold(m) PROVE IInv'
  <1> DEFINE p == IF pc[m] = "answer" THEN "held" ELSE "done"
  <1>1. /\ p \in Points /\ pc' = [pc EXCEPT ![m] = p]
        /\ UNCHANGED stored
    BY DEF Hold, Goto, Points
  <1>2. ReadsTyped' /\ sawThread' \in [Exchanges -> BOOLEAN]
    BY Unread, Zenon DEF Hold, reads, ReadsTyped
  <1>3. \A n \in Exchanges : /\ seen'[n] \in {seen[n], counter}
                             /\ base'[n] \in {base[n], summary}
                             /\ recent'[n] \in {recent[n], LastMessages}
    BY Unread DEF Hold, reads, ReadsTyped
  <1>4. \A n \in Exchanges \ {m} :
            seen'[n] = seen[n] /\ base'[n] = base[n] /\ recent'[n] = recent[n]
    BY Unread DEF Hold, reads, ReadsTyped
  <1>5. /\ p \in Replying => pc[m] \in Replying
        /\ serial /\ p \notin {"held", "done"} => Running(m)
        /\ p \notin {"new", "greet"} /\ pc[m] \notin {"greet", "done"}
    BY Unread DEF Hold, Running, Replying, IInv, Alone
  <1>6. serial => /\ p \in {"store", "saveReply"} => seen'[m] = counter
                  /\ p \in {"recent", "summarise"} => base'[m] = summary /\ Due(counter)
                  /\ p = "summarise" => recent'[m] = LastMessages
    BY Unread DEF Hold, IInv, ReadsAreCurrent, reads, ReadsTyped
  <1> HIDE DEF p
  <1> QED
    BY <1>1, <1>2, <1>3, <1>4, <1>5, <1>6, Unread, QuietStep DEF Hold, status

LEMMA ReleaseIInv ==
    ASSUME IInv, NEW m \in Exchanges, Release(m) PROVE IInv'
  <1> DEFINE p == IF pc[m] = "unthreaded" THEN "done" ELSE "recall"
  <1>1. /\ p \in Points /\ pc' = [pc EXCEPT ![m] = p]
        /\ UNCHANGED stored
    BY DEF Release, Goto, Points
  <1>2. ReadsTyped' /\ sawThread' \in [Exchanges -> BOOLEAN]
    BY Unread, Zenon DEF Release, reads, ReadsTyped
  <1>3. \A n \in Exchanges : /\ seen'[n] \in {seen[n], counter}
                             /\ base'[n] \in {base[n], summary}
                             /\ recent'[n] \in {recent[n], LastMessages}
    BY Unread DEF Release, reads, ReadsTyped
  <1>4. \A n \in Exchanges \ {m} :
            seen'[n] = seen[n] /\ base'[n] = base[n] /\ recent'[n] = recent[n]
    BY Unread DEF Release, reads, ReadsTyped
  <1>5. /\ p \in Replying => pc[m] \in Replying
        /\ serial /\ p \notin {"held", "done"} => Running(m)
        /\ p \notin {"new", "greet"} /\ pc[m] \notin {"greet", "done"}
    BY Unread DEF Release, Running, Replying, IInv, Alone
  <1>6. serial => /\ p \in {"store", "saveReply"} => seen'[m] = counter
                  /\ p \in {"recent", "summarise"} => base'[m] = summary /\ Due(counter)
                  /\ p = "summarise" => recent'[m] = LastMessages
    BY Unread DEF Release, IInv, ReadsAreCurrent, reads, ReadsTyped
  <1> HIDE DEF p
  <1> QED
    BY <1>1, <1>2, <1>3, <1>4, <1>5, <1>6, Unread, QuietStep DEF Release, status

LEMMA ApproveIInv ==
    ASSUME IInv, NEW m \in Exchanges, Approve(m) PROVE IInv'
  <1>1. /\ "replyCounter" \in Points /\ pc' = [pc EXCEPT ![m] = "replyCounter"]
        /\ UNCHANGED stored
    BY DEF Approve, Goto, Points
  <1> QED
    BY <1>1, Unread, QuietStep DEF Approve, reads, status, Running, Replying, ReadsTyped

LEMMA StopIInv ==
    ASSUME IInv, NEW m \in Exchanges, Stop(m) PROVE IInv'
  <1>1. /\ "done" \in Points /\ pc' = [pc EXCEPT ![m] = "done"]
        /\ UNCHANGED stored
    BY DEF Stop, Goto, Points
  <1> QED
    BY <1>1, Unread, QuietStep DEF Stop, reads, status, Running, Replying, ReadsTyped

LEMMA RecallIInv ==
    ASSUME IInv, NEW m \in Exchanges, Recall(m) PROVE IInv'
  <1> DEFINE p == IF Due(counter) THEN "recent" ELSE AfterMemory(m)
  <1>1. /\ p \in Points /\ pc' = [pc EXCEPT ![m] = p]
        /\ UNCHANGED stored
    BY DEF Recall, Goto, Points, AfterMemory
  <1>2. ReadsTyped' /\ sawThread' \in [Exchanges -> BOOLEAN]
    BY Unread, Zenon DEF Recall, reads, ReadsTyped
  <1>3. \A n \in Exchanges : /\ seen'[n] \in {seen[n], counter}
                             /\ base'[n] \in {base[n], summary}
                             /\ recent'[n] \in {recent[n], LastMessages}
    BY Unread DEF Recall, reads, ReadsTyped
  <1>4. \A n \in Exchanges \ {m} :
            seen'[n] = seen[n] /\ base'[n] = base[n] /\ recent'[n] = recent[n]
    BY Unread DEF Recall, reads, ReadsTyped
  <1>5. /\ p \in Replying => pc[m] \in Replying
        /\ serial /\ p \notin {"held", "done"} => Running(m)
        /\ p \notin {"new", "greet"} /\ pc[m] \notin {"greet", "done"}
    BY Unread DEF Recall, Running, Replying, IInv, Alone, AfterMemory
  <1>6. serial => /\ p \in {"store", "saveReply"} => seen'[m] = counter
                  /\ p \in {"recent", "summarise"} => base'[m] = summary /\ Due(counter)
                  /\ p = "summarise" => recent'[m] = LastMessages
    BY Unread DEF Recall, IInv, ReadsAreCurrent, reads, ReadsTyped, AfterMemory
  <1> HIDE DEF p
  <1> QED
    BY <1>1, <1>2, <1>3, <1>4, <1>5, <1>6, Unread, QuietStep DEF Recall, status

LEMMA ReadRecentIInv ==
    ASSUME IInv, NEW m \in Exchanges, ReadRecent(m) PROVE IInv'
  <1> DEFINE p == "summarise"
  <1>1. /\ p \in Points /\ pc' = [pc EXCEPT ![m] = p]
        /\ UNCHANGED stored
    BY DEF ReadRecent, Goto, Points
  <1>2. ReadsTyped' /\ sawThread' \in [Exchanges -> BOOLEAN]
    BY Unread, Zenon DEF ReadRecent, reads, ReadsTyped
  <1>3. \A n \in Exchanges : /\ seen'[n] \in {seen[n], counter}
                             /\ base'[n] \in {base[n], summary}
                             /\ recent'[n] \in {recent[n], LastMessages}
    BY Unread DEF ReadRecent, reads, ReadsTyped
  <1>4. \A n \in Exchanges \ {m} :
            seen'[n] = seen[n] /\ base'[n] = base[n] /\ recent'[n] = recent[n]
    BY Unread DEF ReadRecent, reads, ReadsTyped
  <1>5. /\ p \in Replying => pc[m] \in Replying
        /\ serial /\ p \notin {"held", "done"} => Running(m)
        /\ p \notin {"new", "greet"} /\ pc[m] \notin {"greet", "done"}
    BY Unread DEF ReadRecent, Running, Replying, IInv, Alone
  <1>6. serial => /\ p \in {"store", "saveReply"} => seen'[m] = counter
                  /\ p \in {"recent", "summarise"} => base'[m] = summary /\ Due(counter)
                  /\ p = "summarise" => recent'[m] = LastMessages
    BY Unread DEF ReadRecent, IInv, ReadsAreCurrent, reads, ReadsTyped
  <1> HIDE DEF p
  <1> QED
    BY <1>1, <1>2, <1>3, <1>4, <1>5, <1>6, Unread, QuietStep DEF ReadRecent, status

LEMMA NoSummaryIInv ==
    ASSUME IInv, NEW m \in Exchanges, NoSummary(m) PROVE IInv'
  <1> DEFINE p == AfterMemory(m)
  <1>1. /\ p \in Points /\ pc' = [pc EXCEPT ![m] = p]
        /\ UNCHANGED stored
    BY DEF NoSummary, Goto, Points, AfterMemory
  <1>2. ReadsTyped' /\ sawThread' \in [Exchanges -> BOOLEAN]
    BY Unread, Zenon DEF NoSummary, reads, ReadsTyped
  <1>3. \A n \in Exchanges : /\ seen'[n] \in {seen[n], counter}
                             /\ base'[n] \in {base[n], summary}
                             /\ recent'[n] \in {recent[n], LastMessages}
    BY Unread DEF NoSummary, reads, ReadsTyped
  <1>4. \A n \in Exchanges \ {m} :
            seen'[n] = seen[n] /\ base'[n] = base[n] /\ recent'[n] = recent[n]
    BY Unread DEF NoSummary, reads, ReadsTyped
  <1>5. /\ p \in Replying => pc[m] \in Replying
        /\ serial /\ p \notin {"held", "done"} => Running(m)
        /\ p \notin {"new", "greet"} /\ pc[m] \notin {"greet", "done"}
    BY Unread DEF NoSummary, Running, Replying, IInv, Alone, AfterMemory
  <1>6. serial => /\ p \in {"store", "saveReply"} => seen'[m] = counter
                  /\ p \in {"recent", "summarise"} => base'[m] = summary /\ Due(counter)
                  /\ p = "summarise" => recent'[m] = LastMessages
    BY Unread DEF NoSummary, IInv, ReadsAreCurrent, reads, ReadsTyped, AfterMemory
  <1> HIDE DEF p
  <1> QED
    BY <1>1, <1>2, <1>3, <1>4, <1>5, <1>6, Unread, QuietStep DEF NoSummary, status

LEMMA StoreInboundIInv ==
    ASSUME IInv, NEW m \in Exchanges, StoreInbound(m) PROVE IInv'
  <1>1. "answer" \in Points \ {"new", "greet", "store", "saveReply", "recent", "summarise"}
    BY DEF Points
  <1> QED
    BY <1>1, StoringStep DEF StoreInbound, Flushed, Committed, Goto

LEMMA CommitFailsIInv ==
    ASSUME IInv, NEW m \in Exchanges, CommitFails(m) PROVE IInv'
  <1>1. CASE Committed(m) /\ Goto(m, "fallback")
             /\ UNCHANGED <<serial, summary, reads, status>>
    <2>1. "fallback" \in Points \ {"new", "greet", "store", "saveReply", "recent", "summarise"}
      BY DEF Points
    <2> QED
      BY <1>1, <2>1, StoringStep DEF CommitFails, Flushed, Committed, Goto
  <1>2. CASE /\ unstored' = unstored \union {m}
             /\ Goto(m, IF sawThread[m] THEN "fallback" ELSE "unthreaded")
             /\ UNCHANGED <<stored, reads, approved, started>>
    <2> DEFINE p == IF sawThread[m] THEN "fallback" ELSE "unthreaded"
    <2>1. p \in {"fallback", "unthreaded"} /\ p \in Points
      BY DEF Points
    <2>2. pc' = [pc EXCEPT ![m] = p]
      BY <1>2 DEF Goto
    <2>3. (serial => Running(m)) /\ pc[m] \notin {"greet", "done"}
      BY DEF CommitFails, Flushed, Running, IInv, Alone
    <2>4. ReadsTyped' /\ UNCHANGED <<sawThread, seen, base, recent>>
      BY <1>2, Unread DEF reads, ReadsTyped
    <2>5. unstored' \subseteq Exchanges /\ m \in unstored' /\ unstored \subseteq unstored'
      BY <1>2, Unread
    <2>6. p \notin {"store", "saveReply", "recent", "summarise"}
      BY <2>1
    <2> HIDE DEF p
    <2> QED
      BY <1>2, <2>1, <2>2, <2>3, <2>4, <2>5, <2>6, Unread, QuietStep
  <1> QED
    BY <1>1, <1>2 DEF CommitFails

LEMMA SaveReplyIInv ==
    ASSUME IInv, NEW m \in Exchanges, SaveReply(m) PROVE IInv'
  <1> DEFINE p == IF m \in approved THEN "recall" ELSE "done"
  <1>1. p \in Points \ {"new", "greet", "store", "saveReply", "recent", "summarise"}
    BY DEF Points
  <1>2. thread' \in BOOLEAN
    BY Unread DEF SaveReply
  <1> HIDE DEF p
  <1> QED
    BY <1>1, <1>2, StoringStep DEF SaveReply, Goto, p

(* A refresh of an exchange that runs alone summarises the last message.   *)
LEMMA SaveSummaryIInv ==
    ASSUME IInv, NEW m \in Exchanges, SaveSummary(m) PROVE IInv'
  <1> DEFINE p == AfterMemory(m)
  <1>1. /\ p \in Points \ {"store", "saveReply", "recent", "summarise", "held"}
        /\ p \in {"done", "replyCounter"}
    BY DEF Points, AfterMemory
  <1>2. /\ pc \in [Exchanges -> Points] /\ pc[m] = "summarise"
        /\ pc' = [pc EXCEPT ![m] = p]
        /\ summary' = base[m] \union recent[m] /\ counter' = {0}
        /\ UNCHANGED <<serial, thread, log, sawThread, seen, base, recent,
                      approved, started, unstored>>
    BY DEF SaveSummary, Goto, reads, status, IInv, TypeOK
  <1> HIDE DEF p
  <1>3. /\ pc' \in [Exchanges -> Points]
        /\ pc'[m] = p
        /\ \A n \in Exchanges \ {m} : pc'[n] = pc[n]
    BY <1>1, <1>2
  <1>4. /\ log \in Seq(Messages) /\ Len(log) \in Nat /\ DOMAIN log = 1 .. Len(log)
        /\ summary' \subseteq DOMAIN log
    BY <1>2 DEF IInv, TypeOK
  <1>5. TypeOK' /\ ReadsTyped'
    <2>1. \A S \in {counter'} \union {seen'[n] : n \in Exchanges} :
              S \subseteq Nat /\ \A x, y \in S : x = y
      <3> SUFFICES ASSUME NEW S \in {counter'} \union {seen'[n] : n \in Exchanges}
                   PROVE  S \subseteq Nat /\ \A x, y \in S : x = y
        OBVIOUS
      <3>1. CASE S = counter'
        BY <1>2, <3>1
      <3>2. CASE S \in {seen[n] : n \in Exchanges}
        BY <3>2 DEF IInv, TypeOK
      <3> QED
        BY <1>2, <3>1, <3>2
    <2>2. \A n \in Exchanges : base'[n] \union recent'[n] \subseteq DOMAIN log'
      BY <1>2 DEF IInv, TypeOK
    <2> QED
      BY <1>2, <1>3, <1>4, <2>1, <2>2 DEF IInv, TypeOK, ReadsTyped
  <1>6. CountsStoredMessages' /\ SeenIsStored' /\ RepliesFollowTheirMessage'
    <2>1. CountsStoredMessages'
      BY <1>2, <1>4 DEF CountsStoredMessages
    <2>2. SeenIsStored'
      BY <1>2 DEF IInv, SeenIsStored
    <2>3. RepliesFollowTheirMessage'
      BY <1>2 DEF IInv, RepliesFollowTheirMessage
    <2> QED
      BY <2>1, <2>2, <2>3
  <1>7. MessageIsStored'
    BY <1>2, <1>3 DEF IInv, MessageIsStored, Replying
  <1>8. serial => Running(m) /\ \A n \in Exchanges \ {m} : ~Running(n)
    BY <1>2 DEF IInv, Alone, Running
  <1>9. Alone'
    BY <1>2, <1>3, <1>8 DEF IInv, Alone, Running
  <1>10. ReadsAreCurrent'
    BY <1>1, <1>2, <1>3, <1>8 DEF IInv, Alone, ReadsAreCurrent, Running
  <1>11. Greetings'
    <2>1. m \notin started
      BY <1>2 DEF IInv, Greetings
    <2> QED
      BY <1>1, <1>2, <1>3, <2>1 DEF IInv, Greetings
  <1>12. serial => \E k \in summary' :
                      /\ \A j \in summary' : j <= k
                      /\ \A i \in DOMAIN log : i > k => log[i][1] \in started
    BY <1>2 DEF IInv, ReadsAreCurrent, LastIsRead
  <1>13. SummaryHasLast'
    BY <1>2, <1>12 DEF SummaryHasLast
  <1>14. CountIsExact'
    <2> SUFFICES ASSUME serial PROVE Fresh' = {}
      <3>1. Counted' = {0}
        BY <1>2 DEF Counted
      <3> QED
        BY <1>2, <3>1, FS_EmptySet DEF CountIsExact
    <2>1. PICK k \in summary' :
              /\ \A j \in summary' : j <= k
              /\ \A i \in DOMAIN log : i > k => log[i][1] \in started
      BY <1>12
    <2>2. (CHOOSE i \in summary' : \A j \in summary' : j <= i) = k
      <3>1. summary' \in SUBSET Nat
        BY <1>4
      <3> QED
        BY <2>1, <3>1, LastIsUnique
    <2>3. Summarised' = k
      BY <2>1, <2>2 DEF Summarised
    <2> QED
      BY <1>2, <2>1, <2>3 DEF Fresh
  <1> QED
    BY <1>5, <1>6, <1>7, <1>9, <1>10, <1>11, <1>13, <1>14 DEF IInv

LEMMA NextIInv == IInv /\ [Next]_vars => IInv'
  <1> SUFFICES ASSUME IInv, [Next]_vars PROVE IInv'
    OBVIOUS
  <1>1. CASE UNCHANGED vars
    <2>1. UNCHANGED <<serial, thread, log, counter, summary, pc, sawThread, seen,
                      base, recent, approved, started, unstored>>
      BY <1>1 DEF vars, stored, reads, status
    <2>2. TypeOK' /\ ReadsTyped'
      BY <2>1 DEF IInv, TypeOK, ReadsTyped
    <2>3. CountsStoredMessages' /\ SeenIsStored'
      BY <2>1 DEF IInv, CountsStoredMessages, SeenIsStored
    <2>4. RepliesFollowTheirMessage' /\ MessageIsStored' /\ Greetings'
      BY <2>1 DEF IInv, RepliesFollowTheirMessage, MessageIsStored, Greetings
    <2>5. Alone' /\ ReadsAreCurrent'
      BY <2>1 DEF IInv, Alone, Running, ReadsAreCurrent, LastIsRead, Due
    <2>6. SummaryHasLast' /\ CountIsExact'
      BY <2>1 DEF IInv, SummaryHasLast, CountIsExact, Counted, Fresh, Summarised
    <2> QED
      BY <2>2, <2>3, <2>4, <2>5, <2>6 DEF IInv
  <1>2. ASSUME NEW m \in Exchanges, Step(m) PROVE IInv'
    BY <1>2, GreetIInv, GreetingStep, ArriveIInv, FindThreadIInv, ReadCounterIInv, StoreInboundIInv,
       IntakeFailsIInv, CommitFailsIInv, HoldIInv, ReleaseIInv, ApproveIInv,
       SaveReplyIInv, StopIInv, RecallIInv, ReadRecentIInv, SaveSummaryIInv,
       NoSummaryIInv DEF Step
  <1> QED
    BY <1>1, <1>2 DEF Next, Quiescent

-----------------------------------------------------------------------------
(* The inductive invariant holds in every reachable state.                 *)
THEOREM Invariance == Spec => []IInv
  <1> QED
    BY InitIInv, NextIInv, PTL DEF Spec

(* Every variable keeps its type.                                          *)
THEOREM TypeCorrect == Spec => []TypeOK
  <1>1. IInv => TypeOK
    BY DEF IInv
  <1> QED
    BY <1>1, Invariance, PTL

(* However exchanges overlap, the counter counts no message that was not   *)
(* stored.                                                                 *)
THEOREM CounterIsBounded == Spec => []CountsStoredMessages
  <1>1. IInv => CountsStoredMessages
    BY DEF IInv
  <1> QED
    BY <1>1, Invariance, PTL

(* A reply without its message is there only after a failed COMMIT.        *)
THEOREM MessageComesFirst == Spec => []RepliesFollowTheirMessage
  <1>1. IInv => RepliesFollowTheirMessage
    BY DEF IInv
  <1> QED
    BY <1>1, Invariance, PTL

(* One exchange after the other, the counter is exact, with a /start at    *)
(* any moment.                                                             *)
THEOREM SerialCountIsExact == Spec => []CountIsExact
  <1>1. IInv => CountIsExact
    BY DEF IInv
  <1> QED
    BY <1>1, Invariance, PTL

(* One exchange after the other, a refresh keeps what was summarised and is *)
(* due.                                                                    *)
THEOREM SerialSummaryGrows == Spec => SummaryGrows
  <1> DEFINE Grows == serial /\ summary' # summary =>
                          /\ summary \subseteq summary'
                          /\ Cardinality(Fresh) >= Threshold
  <1>1. IInv /\ [Next]_vars => [Grows]_vars
    <2> SUFFICES ASSUME IInv, Next, serial, summary' # summary
                 PROVE  /\ summary \subseteq summary'
                        /\ Cardinality(Fresh) >= Threshold
      OBVIOUS
    <2>1. PICK m \in Exchanges : SaveSummary(m)
      BY DEF Next, Step, Quiescent, vars, stored, Greet, StoreGreeting, Arrive, FindThread, ReadCounter,
             StoreInbound, IntakeFails, CommitFails, Committed, Hold, Release, Approve,
             SaveReply, Stop, Recall, ReadRecent, NoSummary
    <2>2. base[m] = summary /\ Due(counter) /\ summary' = base[m] \union recent[m]
      BY <2>1 DEF IInv, ReadsAreCurrent, SaveSummary
    <2>3. PICK n \in counter : n >= Threshold
      BY <2>2 DEF Due
    <2>4. n = Cardinality(Fresh)
      BY DEF IInv, CountIsExact, Counted
    <2> QED
      BY <2>2, <2>3, <2>4
  <1> QED
    BY <1>1, Invariance, PTL DEF Spec, SummaryGrows
=============================================================================
