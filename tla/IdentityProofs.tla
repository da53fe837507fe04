--------------------------- MODULE IdentityProofs ---------------------------
(***************************************************************************)
(* Proofs about Identity, for any external ids, stakeholders, messages and *)
(* requests of the owner: a sender whose messages arrive together gets one *)
(* customer, and what is left in the Auth service comes from a failure.    *)
(***************************************************************************)
EXTENDS Identity, TLAPS

Steps == {"new", "owner", "uuid", "mapping", "link", "create", "user", "store",
          "resolved", "fallback"} \union Roles
Statements == {"idle", "check", "insert", "move", "delete", "revert", "undo", "sync",
               "clean", "ended", "crashed"}

Typed ==
    /\ serial \in BOOLEAN
    /\ table \in [Entities -> Roles \union {"none"}]
    /\ columns \in [Entities -> SUBSET Externals]
    /\ dependents \subseteq Entities
    /\ identities \in [Externals -> Links]
    /\ users \in [Externals -> Roles \union {"none"}]
    /\ contact \in Contacts
    /\ pc \in [Messages -> Steps]
    /\ at \in [Messages -> Nat]
    /\ found \in [Messages -> Links]
    /\ madeUser \subseteq Messages
    /\ op \in [Requests -> Statements]
    /\ source \in [Requests -> Entities \union {"none"}]
    /\ from \in [Requests -> Roles \union {"none"}]
    /\ to \in [Requests -> Roles \union {"none"}]

(* A message looks up an alias it has, and links a row it has found.       *)
Lookups == \A m \in Messages :
    /\ at[m] \in 0..Len(Aliases(m))
    /\ pc[m] = "link" => found[m] # NoLink
    /\ pc[m] = "uuid" => Sender(m) \in Entities

(* A request knows what it is about from its start; only a switch inserts, *)
(* moves and reverts, and only a deletion cleans.                          *)
RequestsKnow == \A o \in Requests :
    /\ IF op[o] = "idle" THEN source[o] = "none" /\ from[o] = "none"
                           ELSE source[o] \in Entities /\ from[o] \in Roles
    /\ op[o] \in {"insert", "move", "sync", "revert", "undo"} => IsSwitch(o)
    /\ op[o] = "clean" => ~IsSwitch(o)

(* A message has a row, and is subject of a request, only after it has been*)
(* resolved; identities are cleaned when the row is gone.                  *)
RowsAreResolved ==
    /\ \A m \in Messages : table[m] # "none" => pc[m] = "resolved"
    /\ \A o \in Requests : source[o] \in Messages => pc[source[o]] = "resolved"
    /\ \A o \in Requests :
          op[o] = "clean" /\ source[o] \in Messages => table[source[o]] = "none"

(* Auth users that intake has made and not recorded.                       *)
Unrecorded(m) == pc[m] \in {"store", "fallback"} \/ WithoutUser(m)

UsersAreMade ==
    /\ linked \subseteq {x \in Externals : users[x] # "none"}
    /\ \A m \in madeUser : users[Sender(m)] # "none" /\ pc[m] \in {"store", "fallback", "resolved"}
    /\ \A x \in {y \in Externals : users[y] # "none"} \ linked :
          \/ \E m \in Messages : Sender(m) = x /\ Unrecorded(m)
          \/ \E o \in Requests : from[o] \in Roles /\ ~IsSwitch(o)

(* The rows that a row was switched to, one switch after the other: the    *)
(* least set that has the row and, with a row, what it was switched to.    *)
Closed(S, e) == e \in S /\ \A o \in Requests : source[o] \in S => o \in S

Chain(e) == {f \in Entities : \A S \in SUBSET Entities : Closed(S, e) => f \in S}

(* The owner deletes a row that a switch has made.                         *)
SwitchedDeleted == \E o, p \in Requests : source[p] = o /\ ~IsSwitch(p)

(* The identity of a sender that got a customer names that customer or     *)
(* what it was switched to.                                                *)
IdentityFollows ==
    \A m \in Messages : table[m] # "none" =>
        \/ SwitchedDeleted
        \/ /\ identities[Sender(m)] # NoLink
           /\ identities[Sender(m)].entity \in Chain(m)

IInv == /\ Typed /\ Lookups /\ RequestsKnow /\ RowsAreResolved
        /\ UsersAreMade /\ IdentityFollows /\ OneCustomerPerSender

-----------------------------------------------------------------------------
(* Facts about the constants.                                              *)
LEMMA Names ==
    /\ "none" \notin Entities /\ "none" \notin Roles
    /\ \A m \in Messages : m \in Entities /\ m \notin Requests /\ m \notin Known
    /\ \A o \in Requests : o \in Entities /\ o \notin Messages /\ o \notin Known
    /\ \A k \in Known : k \in Entities /\ k \notin Messages /\ k \notin Requests
    /\ Targets \subseteq Roles \union {"none"}
  BY IdentityAssumption DEF Entities, Roles

LEMMA LinkFacts ==
    /\ NoLink \in Links
    /\ \A r \in Roles, e \in Entities :
          /\ Link(r, e) \in Links /\ Link(r, e) # NoLink
          /\ Link(r, e).role = r /\ Link(r, e).entity = e
    /\ \A k \in Links : k # NoLink => k.role \in Roles /\ k.entity \in Entities
                                      /\ k = Link(k.role, k.entity)
  BY Names DEF Links, Link, NoLink

LEMMA ContactFacts ==
    ASSUME Typed, NEW m \in Messages
    PROVE  Sender(m) \in Externals /\ Aliases(m) \in Seq(Externals) /\ Len(Aliases(m)) \in Nat
  BY IdentityAssumption DEF Typed, Sender, Aliases

(* Facts about chains of switches.                                         *)
LEMMA ChainFacts ==
    ASSUME NEW m \in Messages
    PROVE  /\ m \in Chain(m)
           /\ Chain(m) \subseteq {m} \union Requests
           /\ \A o \in Requests : source[o] \in Chain(m) => o \in Chain(m)
  <1>1. m \in Chain(m)
    BY Names DEF Chain, Closed
  <1>2. {m} \union Requests \in SUBSET Entities /\ Closed({m} \union Requests, m)
    BY Names DEF Closed
  <1>3. Chain(m) \subseteq {m} \union Requests
    BY <1>2 DEF Chain
  <1>4. \A o \in Requests : source[o] \in Chain(m) => o \in Chain(m)
    BY Names DEF Chain, Closed
  <1> QED
    BY <1>1, <1>3, <1>4

LEMMA ChainBack ==
    ASSUME NEW m \in Messages, NEW o \in Requests, o \in Chain(m)
    PROVE  source[o] \in Chain(m)
  <1> SUFFICES ASSUME source[o] \notin Chain(m) PROVE FALSE
    OBVIOUS
  <1>1. PICK S \in SUBSET Entities : Closed(S, m) /\ source[o] \notin S
    <2>1. CASE source[o] \in Entities
      BY <2>1 DEF Chain
    <2>2. CASE source[o] \notin Entities
      BY <2>2, Names DEF Closed
    <2> QED
      BY <2>1, <2>2
  <1>2. Closed(S \ {o}, m)
    BY <1>1, Names DEF Closed
  <1>3. S \ {o} \in SUBSET Entities
    BY <1>1
  <1> QED
    BY <1>2, <1>3 DEF Chain

(* A request that starts adds to the chains.                               *)
LEMMA ChainGrows ==
    ASSUME NEW m \in Messages,
           \A o \in Requests : source'[o] = source[o] \/ source[o] \notin Entities
    PROVE  Chain(m) \subseteq Chain(m)'
  <1>1. ASSUME NEW S \in SUBSET Entities, Closed(S, m)' PROVE Closed(S, m)
    BY <1>1 DEF Closed
  <1> SUFFICES ASSUME NEW f \in Chain(m), NEW S \in SUBSET Entities, Closed(S, m)'
               PROVE  f \in S
    BY DEF Chain, Closed
  <1> QED
    BY <1>1 DEF Chain
-----------------------------------------------------------------------------
(* The inductive invariant holds at the start.                             *)
LEMMA InitIInv == Init => IInv
  <1> SUFFICES ASSUME Init PROVE IInv
    OBVIOUS
  <1>1. /\ \A m \in Messages : table[m] = "none" /\ pc[m] = "new" /\ at[m] = 0
        /\ \A o \in Requests : op[o] = "idle" /\ source[o] = "none" /\ from[o] = "none"
        /\ \A x \in Externals : users[x] = "none" /\ identities[x] = NoLink
        /\ linked = {} /\ madeUser = {}
    BY Names DEF Init
  <1>2. Typed
    <2>1. /\ "new" \in Steps /\ "idle" \in Statements /\ "customer" \in Roles
      BY DEF Steps, Statements, Roles
    <2>2. \A e \in Known : Profile[e] \in SUBSET Externals
      BY IdentityAssumption
    <2> QED
      BY <2>1, <2>2, LinkFacts, Names DEF Init, Typed
  <1>3. Lookups
    BY <1>1, <1>2, ContactFacts DEF Lookups
  <1>4. RequestsKnow /\ RowsAreResolved
    BY <1>1, Names DEF RequestsKnow, RowsAreResolved
  <1>5. UsersAreMade
    BY <1>1 DEF UsersAreMade
  <1>6. IdentityFollows /\ OneCustomerPerSender
    BY <1>1 DEF IdentityFollows, OneCustomerPerSender
  <1> QED
    BY <1>2, <1>3, <1>4, <1>5, <1>6 DEF IInv

-----------------------------------------------------------------------------
(* What a step of a message that writes nothing must show.                 *)
LEMMA ReadingStep ==
    ASSUME IInv, NEW m \in Messages, NEW p \in Steps,
           pc' = [pc EXCEPT ![m] = p], pc[m] # "resolved",
           pc[m] \in {"store", "fallback"} => p = "fallback",
           UNCHANGED <<serial, rows, accounts, contact, madeUser, requests>>,
           at' \in [Messages -> Nat], found' \in [Messages -> Links],
           \A n \in Messages \ {m} : at'[n] = at[n] /\ found'[n] = found[n],
           at'[m] \in 0..Len(Aliases(m)),
           p = "link" => found'[m] # NoLink,
           p = "uuid" => Sender(m) \in Entities
    PROVE  IInv'
  <1>1. UNCHANGED <<serial, table, columns, dependents, identities, users, linked, contact,
                    madeUser, op, source, from, to>>
    BY DEF rows, accounts, requests
  <1>2. /\ pc' \in [Messages -> Steps]
        /\ pc'[m] = p
        /\ \A n \in Messages \ {m} : pc'[n] = pc[n]
    BY DEF IInv, Typed
  <1>3. \A n \in Messages : Sender(n)' = Sender(n) /\ Aliases(n)' = Aliases(n)
    BY <1>1 DEF Sender, Aliases
  <1>4. Typed'
    BY <1>1, <1>2 DEF IInv, Typed
  <1>5. Lookups'
    BY <1>2, <1>3 DEF IInv, Lookups
  <1>6. RequestsKnow'
    BY <1>1 DEF IInv, RequestsKnow, IsSwitch
  <1>7. RowsAreResolved'
    BY <1>1, <1>2 DEF IInv, RowsAreResolved
  <1>8. UsersAreMade'
    <2>1. m \in madeUser => pc[m] \in {"store", "fallback"} /\ p = "fallback"
      BY DEF IInv, UsersAreMade
    <2>2. \A n \in Messages : Unrecorded(n) => Unrecorded(n)'
      BY <1>1, <1>2 DEF Unrecorded, WithoutUser
    <2>3. \A n \in madeUser : users'[Sender(n)'] # "none"
                              /\ pc'[n] \in {"store", "fallback", "resolved"}
      BY <1>1, <1>2, <1>3, <2>1 DEF IInv, UsersAreMade, Typed
    <2>4. ASSUME NEW x \in {y \in Externals : users'[y] # "none"} \ linked'
          PROVE  \/ \E n \in Messages : Sender(n)' = x /\ Unrecorded(n)'
                 \/ \E o \in Requests : from'[o] \in Roles /\ ~IsSwitch(o)'
      <3>1. \/ \E n \in Messages : Sender(n) = x /\ Unrecorded(n)
            \/ \E o \in Requests : from[o] \in Roles /\ ~IsSwitch(o)
        BY <1>1 DEF IInv, UsersAreMade
      <3> QED
        BY <1>1, <1>3, <2>2, <3>1 DEF IsSwitch
    <2> QED
      BY <1>1, <2>3, <2>4 DEF IInv, UsersAreMade
  <1>9. IdentityFollows'
    <2>1. SwitchedDeleted' <=> SwitchedDeleted
      BY <1>1 DEF SwitchedDeleted, IsSwitch
    <2>2. \A n \in Messages : Chain(n)' = Chain(n)
      BY <1>1 DEF Chain, Closed
    <2> QED
      BY <1>1, <1>3, <2>1, <2>2 DEF IInv, IdentityFollows
  <1>10. OneCustomerPerSender'
    BY <1>1, <1>3 DEF IInv, OneCustomerPerSender, IsSwitch
  <1> QED
    BY <1>4, <1>5, <1>6, <1>7, <1>8, <1>9, <1>10 DEF IInv

(* What a step of a request of the owner must show.                        *)
LEMMA RequestStep ==
    ASSUME IInv, NEW o \in Requests, NEW p \in Statements,
           op' = [op EXCEPT ![o] = p], op[o] # "idle", p # "idle",
           p \in {"insert", "move", "sync", "revert", "undo"} => IsSwitch(o),
           p = "clean" => ~IsSwitch(o),
           p = "clean" /\ source[o] \in Messages => table'[source[o]] = "none",
           UNCHANGED <<serial, intake, source, from, to>>,
           table' \in [Entities -> Roles \union {"none"}],
           columns' \in [Entities -> SUBSET Externals],
           dependents' \subseteq Entities,
           identities' \in [Externals -> Links],
           users' \in [Externals -> Roles \union {"none"}],
           \A m \in Messages : table'[m] \in {table[m], "none"},
           linked' \subseteq linked,
           linked' # linked => ~IsSwitch(o),
           \A x \in Externals : users'[x] = "none" <=> users[x] = "none",
           \A m \in Messages :
               /\ table'[m] # "none"
               /\ identities[Sender(m)] # NoLink
               /\ identities[Sender(m)].entity \in Chain(m)
               => \/ SwitchedDeleted
                  \/ /\ identities'[Sender(m)] # NoLink
                     /\ identities'[Sender(m)].entity \in Chain(m)
    PROVE  IInv'
  <1>1. UNCHANGED <<serial, contact, pc, at, found, madeUser, source, from, to>>
    BY DEF intake
  <1>2. /\ op' \in [Requests -> Statements]
        /\ op'[o] = p
        /\ \A q \in Requests \ {o} : op'[q] = op[q]
    BY DEF IInv, Typed
  <1>3. \A n \in Messages : Sender(n)' = Sender(n) /\ Aliases(n)' = Aliases(n)
    BY <1>1 DEF Sender, Aliases
  <1>4. Typed'
    BY <1>1, <1>2 DEF IInv, Typed
  <1>5. Lookups'
    BY <1>1, <1>3 DEF IInv, Lookups
  <1>6. RequestsKnow'
    BY <1>1, <1>2 DEF IInv, RequestsKnow, IsSwitch
  <1>7. RowsAreResolved'
    BY <1>1, <1>2, Names DEF IInv, RowsAreResolved
  <1>8. UsersAreMade'
    <2>1. \A n \in madeUser : n \in Messages /\ Sender(n)' = Sender(n) /\ Sender(n) \in Externals
      BY <1>3, ContactFacts DEF IInv, Typed
    <2>2. \A n \in madeUser : users'[Sender(n)'] # "none"
                              /\ pc'[n] \in {"store", "fallback", "resolved"}
      BY <1>1, <2>1 DEF IInv, UsersAreMade
    <2>3. linked' \subseteq {x \in Externals : users'[x] # "none"}
      BY DEF IInv, UsersAreMade
    <2>4. ASSUME NEW x \in {y \in Externals : users'[y] # "none"} \ linked'
          PROVE  \/ \E n \in Messages : Sender(n)' = x /\ Unrecorded(n)'
                 \/ \E q \in Requests : from'[q] \in Roles /\ ~IsSwitch(q)'
      <3>1. CASE x \in linked
        <4>1. ~IsSwitch(o) /\ from[o] \in Roles
          BY <3>1 DEF IInv, RequestsKnow
        <4> QED
          BY <1>1, <4>1 DEF IsSwitch
      <3>2. CASE x \notin linked
        <4>1. \/ \E n \in Messages : Sender(n) = x /\ Unrecorded(n)
              \/ \E q \in Requests : from[q] \in Roles /\ ~IsSwitch(q)
          BY <3>2 DEF IInv, UsersAreMade
        <4>2. \A n \in Messages : Unrecorded(n)' <=> Unrecorded(n)
          BY <1>1 DEF Unrecorded, WithoutUser
        <4> QED
          BY <1>1, <1>3, <4>1, <4>2 DEF IsSwitch
      <3> QED
        BY <3>1, <3>2
    <2> QED
      BY <1>1, <2>2, <2>3, <2>4 DEF UsersAreMade
  <1>9. IdentityFollows'
    <2>1. SwitchedDeleted' <=> SwitchedDeleted
      BY <1>1 DEF SwitchedDeleted, IsSwitch
    <2>2. \A n \in Messages : Chain(n)' = Chain(n)
      BY <1>1 DEF Chain, Closed
    <2>3. \A n \in Messages : table'[n] # "none" => table[n] # "none"
      OBVIOUS
    <2> QED
      BY <1>3, <2>1, <2>2, <2>3 DEF IInv, IdentityFollows
  <1>10. OneCustomerPerSender'
    BY <1>1, <1>3 DEF IInv, OneCustomerPerSender, IsSwitch
  <1> QED
    BY <1>4, <1>5, <1>6, <1>7, <1>8, <1>9, <1>10 DEF IInv
(* What the lookups find.                                                  *)
LEMMA UuidIsEntity ==
    ASSUME IInv, NEW m \in Messages, ReadUuid(m) PROVE Sender(m) \in Entities
  BY DEF IInv, Lookups, ReadUuid

LEMMA SoughtType ==
    ASSUME IInv, NEW m \in Messages PROVE Sought(m) \in Externals
  <1>1. /\ Sender(m) \in Externals /\ Aliases(m) \in Seq(Externals)
        /\ Len(Aliases(m)) \in Nat /\ at[m] \in 0..Len(Aliases(m))
    BY ContactFacts DEF IInv, Lookups
  <1> QED
    BY <1>1 DEF Sought

LEMMA FoundHasRole ==
    ASSUME NEW x, NEW r \in Roles, NEW e \in Matches(x, r)
    PROVE  e \in Entities /\ table[e] = r /\ r # "none"
  BY Names DEF Matches

-----------------------------------------------------------------------------
(* The steps of a message.                                                 *)
LEMMA ArriveIInv ==
    ASSUME IInv, NEW m \in Messages, Arrive(m) PROVE IInv'
  <1> DEFINE p == IF Sender(m) \in Owners THEN "owner"
                  ELSE IF Sender(m) \in Entities THEN "uuid" ELSE "mapping"
  <1>1. p \in Steps /\ p # "link" /\ (p = "uuid" => Sender(m) \in Entities)
    BY DEF Steps
  <1>2. /\ pc[m] = "new" /\ pc' = [pc EXCEPT ![m] = p]
        /\ UNCHANGED <<serial, rows, accounts, contact, at, found, madeUser, requests>>
    BY DEF Arrive, Goto
  <1> HIDE DEF p
  <1> QED
    BY <1>1, <1>2, ReadingStep DEF IInv, Typed, Lookups

LEMMA ReadUuidIInv ==
    ASSUME IInv, NEW m \in Messages, ReadUuid(m) PROVE IInv'
  <1>1. /\ pc[m] = "uuid"
        /\ UNCHANGED <<serial, rows, accounts, contact, at, madeUser, requests>>
        /\ "link" \in Steps /\ "mapping" \in Steps
    BY DEF ReadUuid, Steps
  <1>2. CASE table[Sender(m)] # "none" /\ Find(m, table[Sender(m)], Sender(m), "link")
    <2> DEFINE k == Link(table[Sender(m)], Sender(m))
    <2>1. /\ pc' = [pc EXCEPT ![m] = "link"]
          /\ found' = [found EXCEPT ![m] = k]
      BY <1>2 DEF Find, Goto
    <2>2. k \in Links /\ k # NoLink
      <3>1. Sender(m) \in Entities
        BY <1>2, UuidIsEntity
      <3> QED
        BY <1>2, <3>1, LinkFacts DEF IInv, Typed
    <2> HIDE DEF k
    <2>3. /\ found' \in [Messages -> Links] /\ found'[m] # NoLink
          /\ \A n \in Messages \ {m} : found'[n] = found[n]
      BY <2>1, <2>2 DEF IInv, Typed
    <2> QED
      BY <1>1, <2>1, <2>3, ReadingStep DEF IInv, Typed, Lookups
  <1>3. CASE Goto(m, "mapping") /\ UNCHANGED found
    BY <1>1, <1>3, ReadingStep DEF Goto, IInv, Typed, Lookups
  <1> QED
    BY <1>2, <1>3 DEF ReadUuid

LEMMA ReadMappingIInv ==
    ASSUME IInv, NEW m \in Messages, ReadMapping(m) PROVE IInv'
  <1> DEFINE k == identities[Sought(m)]
             p == IF at[m] = 0 THEN "resolved" ELSE "link"
  <1>1. /\ pc[m] = "mapping"
        /\ UNCHANGED <<serial, rows, accounts, contact, at, madeUser, requests>>
        /\ {"link", "resolved", "customer"} \subseteq Steps
    BY DEF ReadMapping, Steps, Roles
  <1>2. k \in Links
    BY SoughtType DEF IInv, Typed
  <1>3. CASE k # NoLink /\ Find(m, k.role, k.entity, p)
    <2>1. pc' = [pc EXCEPT ![m] = p] /\ found' = [found EXCEPT ![m] = k]
      BY <1>2, <1>3, LinkFacts DEF Find, Goto
    <2>2. p \in Steps /\ p # "uuid"
      BY <1>1
    <2> HIDE DEF k, p
    <2>3. /\ found' \in [Messages -> Links] /\ found'[m] # NoLink
          /\ \A n \in Messages \ {m} : found'[n] = found[n]
      BY <1>2, <1>3, <2>1 DEF IInv, Typed
    <2> QED
      BY <1>1, <2>1, <2>2, <2>3, ReadingStep DEF IInv, Typed, Lookups
  <1>4. CASE Goto(m, "customer") /\ UNCHANGED found
    BY <1>1, <1>4, ReadingStep DEF Goto, IInv, Typed, Lookups
  <1> QED
    BY <1>3, <1>4 DEF ReadMapping

LEMMA ReadProfileIInv ==
    ASSUME IInv, NEW m \in Messages, ReadProfile(m) PROVE IInv'
  <1> DEFINE hits == Matches(Sought(m), pc[m])
             rest == at[m] < Len(Aliases(m))
  <1>1. /\ pc[m] \in Roles /\ pc[m] \notin {"resolved", "store", "fallback"}
        /\ UNCHANGED <<serial, rows, accounts, contact, madeUser, requests>>
        /\ {"link", "mapping", "create"} \subseteq Steps
    BY DEF ReadProfile, Steps, Roles
  <1>2. \/ (\E e \in hits : Find(m, pc[m], e, "link")) /\ UNCHANGED at
        \/ pc[m] # "investor" /\ Goto(m, Following[pc[m]]) /\ UNCHANGED <<at, found>>
        \/ rest /\ at' = [at EXCEPT ![m] = @ + 1] /\ Goto(m, "mapping") /\ UNCHANGED found
        \/ Goto(m, "create") /\ UNCHANGED <<at, found>>
    BY DEF ReadProfile
  <1>3. CASE (\E e \in hits : Find(m, pc[m], e, "link")) /\ UNCHANGED at
    <2>1. PICK e \in hits : Find(m, pc[m], e, "link")
      BY <1>3
    <2>2. e \in Entities
      BY <1>1, FoundHasRole
    <2> DEFINE k == Link(pc[m], e)
    <2>3. k \in Links /\ k # NoLink
      BY <1>1, <2>2, LinkFacts
    <2>4. pc' = [pc EXCEPT ![m] = "link"] /\ found' = [found EXCEPT ![m] = k]
      BY <2>1 DEF Find, Goto
    <2> HIDE DEF k
    <2>5. /\ found' \in [Messages -> Links] /\ found'[m] # NoLink
          /\ \A n \in Messages \ {m} : found'[n] = found[n]
      BY <2>3, <2>4 DEF IInv, Typed
    <2> QED
      BY <1>1, <1>3, <2>4, <2>5, ReadingStep DEF IInv, Typed, Lookups
  <1>4. CASE pc[m] # "investor" /\ Goto(m, Following[pc[m]]) /\ UNCHANGED <<at, found>>
    <2> DEFINE p == Following[pc[m]]
    <2>1. p \in Steps /\ p \notin {"link", "uuid"}
      BY <1>1, <1>4 DEF Following, Roles, Steps
    <2>2. pc' = [pc EXCEPT ![m] = p]
      BY <1>4 DEF Goto
    <2> HIDE DEF p
    <2> QED
      BY <1>1, <1>4, <2>1, <2>2, ReadingStep DEF IInv, Typed, Lookups
  <1>5. CASE rest /\ at' = [at EXCEPT ![m] = @ + 1] /\ Goto(m, "mapping") /\ UNCHANGED found
    <2>1. /\ at' \in [Messages -> Nat] /\ at'[m] = at[m] + 1
          /\ \A n \in Messages \ {m} : at'[n] = at[n]
      BY <1>5 DEF IInv, Typed
    <2>2. at'[m] \in 0..Len(Aliases(m))
      BY <1>5, <2>1, ContactFacts DEF IInv, Typed, Lookups
    <2> QED
      BY <1>1, <1>5, <2>1, <2>2, ReadingStep DEF Goto, IInv, Typed
  <1>6. CASE Goto(m, "create") /\ UNCHANGED <<at, found>>
    BY <1>1, <1>6, ReadingStep DEF Goto, IInv, Typed, Lookups
  <1> QED
    BY <1>2, <1>3, <1>4, <1>5, <1>6

LEMMA FlushCustomerIInv ==
    ASSUME IInv, NEW m \in Messages, FlushCustomer(m) PROVE IInv'
  <1>1. /\ "user" \in Steps /\ pc[m] = "create" /\ pc' = [pc EXCEPT ![m] = "user"]
        /\ UNCHANGED <<serial, rows, accounts, contact, at, found, madeUser, requests>>
    BY DEF FlushCustomer, Goto, Steps
  <1> QED
    BY <1>1, ReadingStep DEF IInv, Typed, Lookups

LEMMA IntakeFailsIInv ==
    ASSUME IInv, NEW m \in Messages, IntakeFails(m) PROVE IInv'
  <1>1. /\ "fallback" \in Steps /\ pc[m] # "resolved" /\ pc' = [pc EXCEPT ![m] = "fallback"]
        /\ UNCHANGED <<serial, rows, accounts, contact, at, found, madeUser, requests>>
    BY DEF IntakeFails, Resolving, Goto, Steps
  <1> QED
    BY <1>1, ReadingStep DEF IInv, Typed, Lookups
(* A mapping is added where there was none; a sender with a customer has   *)
(* one already.                                                            *)
LEMMA EnsureIInv ==
    ASSUME IInv, NEW m \in Messages, Ensure(m) PROVE IInv'
  <1>1. /\ pc[m] = "link" /\ found[m] \in Links /\ found[m] # NoLink
        /\ Sender(m) \in Externals
        /\ UNCHANGED <<serial, table, columns, dependents, users, linked, contact, at, found,
                       madeUser, op, source, from, to>>
    BY ContactFacts DEF Ensure, rows, requests, IInv, Typed, Lookups
  <1>2. /\ pc' \in [Messages -> Steps]
        /\ pc'[m] = "resolved"
        /\ \A n \in Messages \ {m} : pc'[n] = pc[n]
    BY DEF Ensure, Goto, IInv, Typed, Steps
  <1>3. /\ identities' \in [Externals -> Links]
        /\ \A x \in Externals : identities[x] # NoLink => identities'[x] = identities[x]
    BY <1>1 DEF Ensure, IInv, Typed
  <1>4. \A n \in Messages : Sender(n)' = Sender(n) /\ Aliases(n)' = Aliases(n)
    BY <1>1 DEF Sender, Aliases
  <1>5. Typed' /\ Lookups' /\ RequestsKnow'
    BY <1>1, <1>2, <1>3, <1>4 DEF IInv, Typed, Lookups, RequestsKnow, IsSwitch
  <1>6. RowsAreResolved'
    BY <1>1, <1>2 DEF IInv, RowsAreResolved
  <1>7. UsersAreMade'
    <2>1. \A n \in Messages : Unrecorded(n) => Unrecorded(n)'
      BY <1>1, <1>2 DEF Unrecorded, WithoutUser
    <2>2. m \notin madeUser
      BY <1>1 DEF IInv, UsersAreMade
    <2> QED
      BY <1>1, <1>2, <1>4, <2>1, <2>2 DEF IInv, Typed, UsersAreMade, IsSwitch
  <1>8. IdentityFollows'
    <2>1. SwitchedDeleted' <=> SwitchedDeleted
      BY <1>1 DEF SwitchedDeleted, IsSwitch
    <2>2. \A n \in Messages : Chain(n)' = Chain(n) /\ Sender(n) \in Externals
      BY <1>1, ContactFacts DEF Chain, Closed, IInv
    <2> QED
      BY <1>1, <1>3, <1>4, <2>1, <2>2 DEF IInv, IdentityFollows
  <1>9. OneCustomerPerSender'
    BY <1>1, <1>4 DEF IInv, OneCustomerPerSender, IsSwitch
  <1> QED
    BY <1>5, <1>6, <1>7, <1>8, <1>9 DEF IInv

LEMMA CreateUserIInv ==
    ASSUME IInv, NEW m \in Messages, CreateUser(m) PROVE IInv'
  <1>1. /\ pc[m] = "user" /\ Sender(m) \in Externals
        /\ UNCHANGED <<serial, table, columns, dependents, identities, linked, contact, at, found,
                       op, source, from, to>>
    BY ContactFacts DEF CreateUser, rows, requests, IInv
  <1>2. /\ pc' \in [Messages -> Steps]
        /\ pc'[m] = "store"
        /\ \A n \in Messages \ {m} : pc'[n] = pc[n]
    BY DEF CreateUser, Goto, IInv, Typed, Steps
  <1>3. /\ users' \in [Externals -> Roles \union {"none"}]
        /\ \A x \in Externals : users[x] # "none" => users'[x] = users[x]
        /\ \/ madeUser' = madeUser /\ users' = users
           \/ /\ madeUser' \in {madeUser, madeUser \union {m}}
              /\ users'[Sender(m)] # "none"
              /\ \A x \in Externals \ {Sender(m)} : users'[x] = users[x]
    <2>1. "customer" \in Roles /\ "customer" # "none"
      BY DEF Roles
    <2> QED
      BY <1>1, <2>1 DEF CreateUser, IInv, Typed
  <1>4. \A n \in Messages : Sender(n)' = Sender(n) /\ Aliases(n)' = Aliases(n)
                            /\ Sender(n) \in Externals
    BY <1>1, ContactFacts DEF Sender, Aliases, IInv
  <1>5. Typed'
    BY <1>1, <1>2, <1>3 DEF IInv, Typed
  <1>6. Lookups' /\ RequestsKnow'
    BY <1>1, <1>2, <1>4 DEF IInv, Lookups, RequestsKnow, IsSwitch
  <1>7. RowsAreResolved'
    BY <1>1, <1>2 DEF IInv, RowsAreResolved
  <1>8. UsersAreMade'
    <2>1. \A n \in madeUser : n # m /\ n \in Messages
      BY <1>1 DEF IInv, Typed, UsersAreMade
    <2>2. linked' \subseteq {x \in Externals : users'[x] # "none"}
      BY <1>1, <1>3 DEF IInv, UsersAreMade
    <2>3. \A n \in madeUser' : users'[Sender(n)'] # "none"
                               /\ pc'[n] \in {"store", "fallback", "resolved"}
      BY <1>1, <1>2, <1>3, <1>4, <2>1 DEF IInv, UsersAreMade
    <2>4. ASSUME NEW x \in {y \in Externals : users'[y] # "none"} \ linked'
          PROVE  \/ \E n \in Messages : Sender(n)' = x /\ Unrecorded(n)'
                 \/ \E q \in Requests : from'[q] \in Roles /\ ~IsSwitch(q)'
      <3>1. CASE users[x] # "none"
        <4>1. \/ \E n \in Messages : Sender(n) = x /\ Unrecorded(n)
              \/ \E q \in Requests : from[q] \in Roles /\ ~IsSwitch(q)
          BY <1>1, <3>1 DEF IInv, UsersAreMade
        <4>2. \A n \in Messages : Unrecorded(n) => Unrecorded(n)'
          BY <1>1, <1>2, <1>3 DEF Unrecorded, WithoutUser
        <4> QED
          BY <1>1, <1>4, <4>1, <4>2 DEF IsSwitch
      <3>2. CASE users[x] = "none"
        <4>1. x = Sender(m)
          BY <1>3, <3>2
        <4> QED
          BY <1>2, <1>4, <4>1 DEF Unrecorded
      <3> QED
        BY <3>1, <3>2
    <2> QED
      BY <2>2, <2>3, <2>4 DEF UsersAreMade
  <1>9. IdentityFollows'
    <2>1. SwitchedDeleted' <=> SwitchedDeleted
      BY <1>1 DEF SwitchedDeleted, IsSwitch
    <2>2. \A n \in Messages : Chain(n)' = Chain(n)
      BY <1>1 DEF Chain, Closed
    <2> QED
      BY <1>1, <1>4, <2>1, <2>2 DEF IInv, IdentityFollows
  <1>10. OneCustomerPerSender'
    BY <1>1, <1>4 DEF IInv, OneCustomerPerSender, IsSwitch
  <1> QED
    BY <1>5, <1>6, <1>7, <1>8, <1>9, <1>10 DEF IInv

(* A customer is stored only where no identity is, so no other message of  *)
(* the sender has one.                                                     *)
LEMMA StoreIInv ==
    ASSUME IInv, NEW m \in Messages, Store(m) PROVE IInv'
  <1>1. /\ pc[m] = "store" /\ identities[Sender(m)] = NoLink
        /\ Sender(m) \in Externals /\ m \in Entities
        /\ UNCHANGED <<serial, dependents, users, contact, at, madeUser, op, source, from, to>>
    BY ContactFacts, Names DEF Store, requests, IInv
  <1>2. /\ pc' \in [Messages -> Steps]
        /\ pc'[m] = "resolved"
        /\ \A n \in Messages \ {m} : pc'[n] = pc[n]
    BY DEF Store, Find, Goto, IInv, Typed, Steps
  <1> DEFINE k == Link("customer", m)
  <1>3. k \in Links /\ k # NoLink /\ k.entity = m
    <2>1. "customer" \in Roles
      BY DEF Roles
    <2> QED
      BY <1>1, <2>1, LinkFacts
  <1>4. /\ identities' = [identities EXCEPT ![Sender(m)] = k]
        /\ found' = [found EXCEPT ![m] = k]
        /\ table' = [table EXCEPT ![m] = "customer"]
        /\ columns' = [columns EXCEPT ![m] = NewColumns(m)]
        /\ linked' = IF m \in madeUser THEN linked \union {Sender(m)} ELSE linked
    BY DEF Store, Find
  <1> HIDE DEF k
  <1>5. NewColumns(m) \in SUBSET Externals
    BY <1>1, ContactFacts DEF NewColumns, IInv
  <1>6. /\ table' \in [Entities -> Roles \union {"none"}]
        /\ table'[m] = "customer"
        /\ \A e \in Entities \ {m} : table'[e] = table[e]
        /\ columns' \in [Entities -> SUBSET Externals]
    BY <1>1, <1>4, <1>5 DEF IInv, Typed, Roles
  <1>7. /\ identities' \in [Externals -> Links]
        /\ identities'[Sender(m)] = k
        /\ \A x \in Externals \ {Sender(m)} : identities'[x] = identities[x]
        /\ found' \in [Messages -> Links]
    BY <1>1, <1>3, <1>4 DEF IInv, Typed
  <1>8. \A n \in Messages : Sender(n)' = Sender(n) /\ Aliases(n)' = Aliases(n)
                            /\ Sender(n) \in Externals
    BY <1>1, ContactFacts DEF Sender, Aliases, IInv
  <1>9. Typed'
    BY <1>1, <1>2, <1>6, <1>7 DEF IInv, Typed
  <1>10. Lookups'
    <2>1. \A n \in Messages \ {m} : found'[n] = found[n]
      BY <1>4 DEF IInv, Typed
    <2> QED
      BY <1>1, <1>2, <1>8, <2>1 DEF IInv, Lookups
  <1>11. RequestsKnow'
    BY <1>1 DEF IInv, RequestsKnow, IsSwitch
  <1>12. \A o \in Requests : source[o] # m
    BY <1>1 DEF IInv, RowsAreResolved
  <1>13. RowsAreResolved'
    BY <1>1, <1>2, <1>6, <1>12, Names DEF IInv, RowsAreResolved
  <1>14. UsersAreMade'
    <2>1. linked' \subseteq {x \in Externals : users'[x] # "none"}
      BY <1>1, <1>4 DEF IInv, UsersAreMade
    <2>2. \A n \in madeUser' : users'[Sender(n)'] # "none"
                               /\ pc'[n] \in {"store", "fallback", "resolved"}
      BY <1>1, <1>2, <1>8 DEF IInv, Typed, UsersAreMade
    <2>3. ASSUME NEW x \in {y \in Externals : users'[y] # "none"} \ linked'
          PROVE  \/ \E n \in Messages : Sender(n)' = x /\ Unrecorded(n)'
                 \/ \E q \in Requests : from'[q] \in Roles /\ ~IsSwitch(q)'
      <3>1. \/ \E n \in Messages : Sender(n) = x /\ Unrecorded(n)
            \/ \E q \in Requests : from[q] \in Roles /\ ~IsSwitch(q)
        BY <1>1, <1>4 DEF IInv, UsersAreMade
      <3>2. m \in madeUser => Sender(m) # x
        BY <1>4
      <3>3. found'[m] = k
        BY <1>4 DEF IInv, Typed
      <3>4. m \notin madeUser => Unrecorded(m)'
        BY <1>1, <1>2, <3>3 DEF Unrecorded, WithoutUser, k
      <3>5. \A n \in Messages \ {m} : Unrecorded(n) => Unrecorded(n)'
        BY <1>1, <1>2, <1>4 DEF Unrecorded, WithoutUser, IInv, Typed
      <3> QED
        BY <1>1, <1>8, <3>1, <3>2, <3>4, <3>5 DEF IsSwitch
    <2> QED
      BY <2>1, <2>2, <2>3 DEF UsersAreMade
  (* Other messages of the sender have no row, or a switched row is deleted. *)
  <1>15. \A n \in Messages \ {m} :
             Sender(n) = Sender(m) => table[n] = "none" \/ SwitchedDeleted
    BY <1>1 DEF IInv, IdentityFollows
  <1>16. SwitchedDeleted' <=> SwitchedDeleted
    BY <1>1 DEF SwitchedDeleted, IsSwitch
  <1>17. IdentityFollows'
    <2>1. \A n \in Messages : Chain(n)' = Chain(n)
      BY <1>1 DEF Chain, Closed
    <2>2. m \in Chain(m)
      BY ChainFacts
    <2> SUFFICES ASSUME NEW n \in Messages, table'[n] # "none", ~SwitchedDeleted
                 PROVE  /\ identities'[Sender(n)] # NoLink
                        /\ identities'[Sender(n)].entity \in Chain(n)
      BY <1>8, <1>16, <2>1 DEF IdentityFollows
    <2>3. CASE n = m
      BY <1>3, <1>7, <2>2, <2>3
    <2>4. CASE n # m
      <3>1. table[n] # "none"
        BY <1>6, <2>4, Names
      <3>2. Sender(n) # Sender(m)
        BY <1>15, <2>4, <3>1
      <3> QED
        BY <1>7, <1>8, <3>1, <3>2 DEF IInv, IdentityFollows
    <2> QED
      BY <2>3, <2>4
  <1>18. OneCustomerPerSender'
    <2> SUFFICES ASSUME NEW n1 \in Messages, NEW n2 \in Messages, n1 # n2,
                        Sender(n1) = Sender(n2),
                        table'[n1] # "none", table'[n2] # "none"
                 PROVE  SwitchedDeleted'
      BY <1>8 DEF OneCustomerPerSender, SwitchedDeleted
    <2>1. CASE n1 = m
      BY <1>6, <1>15, <1>16, <2>1, Names
    <2>2. CASE n2 = m
      BY <1>6, <1>15, <1>16, <2>2, Names
    <2>3. CASE n1 # m /\ n2 # m
      <3>1. table[n1] # "none" /\ table[n2] # "none"
        BY <1>6, <2>3, Names
      <3>2. SwitchedDeleted
        BY <3>1 DEF IInv, OneCustomerPerSender, SwitchedDeleted
      <3> QED
        BY <1>16, <3>2
    <2> QED
      BY <2>1, <2>2, <2>3
  <1> QED
    BY <1>9, <1>10, <1>11, <1>13, <1>14, <1>17, <1>18 DEF IInv
-----------------------------------------------------------------------------
(* The steps of a request of the owner.                                    *)
LEMMA RelinkFacts ==
    ASSUME Typed, NEW old \in Links, NEW new \in Links, Relink(old, new)
    PROVE  /\ identities' \in [Externals -> Links]
           /\ \A x \in Externals :
                 identities'[x] = IF identities[x] = old THEN new ELSE identities[x]
  BY DEF Relink, Typed

(* A statement that touches no row and no account.                         *)
LEMMA StillStep ==
    ASSUME IInv, NEW o \in Requests, NEW p \in Statements,
           op' = [op EXCEPT ![o] = p], op[o] # "idle", p # "idle",
           p \in {"insert", "move", "sync", "revert", "undo"} => IsSwitch(o),
           p = "clean" => op[o] = "clean",
           UNCHANGED <<serial, intake, source, from, to>>, UNCHANGED <<rows, accounts>>
    PROVE  IInv'
  <1>1. UNCHANGED <<table, columns, dependents, identities, users, linked>>
    BY DEF rows, accounts
  <1>2. p = "clean" => /\ ~IsSwitch(o)
                       /\ source[o] \in Messages => table'[source[o]] = "none"
    BY <1>1 DEF IInv, RequestsKnow, RowsAreResolved
  <1>3. \A m \in Messages : table'[m] \in {table[m], "none"}
    BY <1>1
  <1> QED
    BY <1>1, <1>2, <1>3, RequestStep DEF IInv, Typed

LEMMA CheckDependentsIInv ==
    ASSUME IInv, NEW o \in Requests, CheckDependents(o) PROVE IInv'
  <1> DEFINE p == IF source[o] \in dependents THEN "ended"
                  ELSE IF IsSwitch(o) THEN "insert" ELSE "delete"
  <1>1. /\ p \in Statements /\ p \notin {"idle", "clean"}
        /\ p \in {"insert", "move", "sync", "revert", "undo"} => IsSwitch(o)
    BY DEF Statements
  <1>2. /\ op[o] # "idle" /\ op' = [op EXCEPT ![o] = p]
        /\ UNCHANGED <<serial, intake, source, from, to>> /\ UNCHANGED <<rows, accounts>>
    BY DEF CheckDependents, OpGoto, Fixed
  <1> HIDE DEF p
  <1> QED
    BY <1>1, <1>2, StillStep

LEMMA StatementFailsIInv ==
    ASSUME IInv, NEW o \in Requests, StatementFails(o) PROVE IInv'
  <1> DEFINE p == AfterError(o, op[o])
  <1>1. /\ p \in Statements /\ p \notin {"idle", "clean"}
        /\ p \in {"insert", "move", "sync", "revert", "undo"} => IsSwitch(o)
    BY DEF Statements, AfterError, IInv, RequestsKnow
  <1>2. /\ op[o] # "idle" /\ op' = [op EXCEPT ![o] = p]
        /\ UNCHANGED <<serial, intake, source, from, to>> /\ UNCHANGED <<rows, accounts>>
    BY DEF StatementFails, OpGoto, Fixed, Unheeded
  <1> HIDE DEF p
  <1> QED
    BY <1>1, <1>2, StillStep

(* Where a lost answer takes a request.                                    *)
LEMMA LostAnswers ==
    ASSUME NEW o \in Requests, AnswerIsLost(o)
    PROVE  \/ op[o] = "move" /\ OpGoto(o, "ended") /\ Misses(o, "insert")
           \/ op[o] = "delete" /\ IsSwitch(o) /\ OpGoto(o, "undo") /\ Misses(o, "move")
           \/ op[o] = "sync" /\ IsSwitch(o) /\ OpGoto(o, "revert") /\ Misses(o, "delete")
           \/ op[o] \in {"sync", "clean"} /\ ~IsSwitch(o) /\ OpGoto(o, "ended")
              /\ Misses(o, "delete")
           \/ op[o] = "clean" /\ IsSwitch(o)
  BY DEF AnswerIsLost, AfterError, Awaited

LEMMA AnswerIsLostIInv ==
    ASSUME IInv, NEW o \in Requests, AnswerIsLost(o) PROVE IInv'
  <1>1. PICK p \in {"ended", "undo", "revert"} :
            OpGoto(o, p) /\ (p \in {"undo", "revert"} => IsSwitch(o))
    BY LostAnswers DEF IInv, RequestsKnow
  <1>2. /\ p \in Statements /\ p \notin {"idle", "clean"}
        /\ p \in {"insert", "move", "sync", "revert", "undo"} => IsSwitch(o)
    BY <1>1 DEF Statements
  <1>3. /\ op[o] # "idle" /\ op' = [op EXCEPT ![o] = p]
        /\ UNCHANGED <<serial, intake, source, from, to>> /\ UNCHANGED <<rows, accounts>>
    BY <1>1 DEF AnswerIsLost, OpGoto, Fixed
  <1> QED
    BY <1>2, <1>3, StillStep

LEMMA RequestCrashesIInv ==
    ASSUME IInv, NEW o \in Requests, RequestCrashes(o) PROVE IInv'
  <1>1. /\ "crashed" \in Statements
        /\ op[o] # "idle" /\ op' = [op EXCEPT ![o] = "crashed"]
        /\ UNCHANGED <<serial, intake, source, from, to>> /\ UNCHANGED <<rows, accounts>>
    BY DEF RequestCrashes, Switching, OpGoto, Fixed, Statements
  <1> QED
    BY <1>1, StillStep

LEMMA InsertTargetIInv ==
    ASSUME IInv, NEW o \in Requests, InsertTarget(o) PROVE IInv'
  <1>1. /\ "move" \in Statements /\ o \in Entities /\ source[o] \in Entities
        /\ op[o] = "insert" /\ op' = [op EXCEPT ![o] = "move"] /\ IsSwitch(o)
        /\ UNCHANGED <<serial, intake, source, from, to>>
        /\ UNCHANGED <<dependents, identities, users, linked>>
    BY Names DEF InsertTarget, OpGoto, Fixed, accounts, Statements, IInv, RequestsKnow
  <1>2. /\ table' \in [Entities -> Roles \union {"none"}]
        /\ \A e \in Entities \ {o} : table'[e] = table[e]
        /\ columns' \in [Entities -> SUBSET Externals]
    BY <1>1 DEF InsertTarget, IsSwitch, IInv, Typed
  <1>3. \A m \in Messages : table'[m] \in {table[m], "none"}
    BY <1>2, Names
  <1> QED
    BY <1>1, <1>2, <1>3, RequestStep DEF IInv, Typed

LEMMA MoveIdentitiesIInv ==
    ASSUME IInv, NEW o \in Requests, MoveIdentities(o) PROVE IInv'
  <1>1. /\ "delete" \in Statements /\ o \in Entities
        /\ op[o] = "move" /\ op' = [op EXCEPT ![o] = "delete"]
        /\ source[o] \in Entities /\ from[o] \in Roles /\ to[o] \in Roles
        /\ UNCHANGED <<serial, intake, source, from, to>>
        /\ UNCHANGED <<table, columns, dependents, users, linked>>
    BY Names DEF MoveIdentities, OpGoto, Fixed, rows, Statements, IInv, RequestsKnow, IsSwitch
  <1> DEFINE old == Link(from[o], source[o])
             new == Link(to[o], o)
  <1>2. /\ old \in Links /\ old.entity = source[o]
        /\ new \in Links /\ new # NoLink /\ new.entity = o
    BY <1>1, LinkFacts
  <1>3. Relink(old, new)
    BY DEF MoveIdentities
  <1> HIDE DEF old, new
  <1>4. /\ identities' \in [Externals -> Links]
        /\ \A x \in Externals :
              identities'[x] = IF identities[x] = old THEN new ELSE identities[x]
    BY <1>2, <1>3, RelinkFacts DEF IInv
  <1>5. ASSUME NEW m \in Messages,
               identities[Sender(m)] # NoLink, identities[Sender(m)].entity \in Chain(m)
        PROVE  identities'[Sender(m)] # NoLink /\ identities'[Sender(m)].entity \in Chain(m)
    <2>1. Sender(m) \in Externals
      BY ContactFacts DEF IInv
    <2> QED
      BY <1>2, <1>4, <1>5, <2>1, ChainFacts
  <1>6. \A m \in Messages : table'[m] \in {table[m], "none"}
    BY <1>1
  <1> QED
    BY <1>1, <1>4, <1>5, <1>6, RequestStep DEF IInv, Typed

LEMMA RevertIdentitiesIInv ==
    ASSUME IInv, NEW o \in Requests, RevertIdentities(o) PROVE IInv'
  <1>1. /\ "undo" \in Statements /\ o \in Entities /\ IsSwitch(o)
        /\ op[o] = "revert" /\ op' = [op EXCEPT ![o] = "undo"]
        /\ source[o] \in Entities /\ from[o] \in Roles /\ to[o] \in Roles
        /\ UNCHANGED <<serial, intake, source, from, to>>
        /\ UNCHANGED <<table, columns, dependents, users, linked>>
    BY Names DEF RevertIdentities, OpGoto, Fixed, rows, Statements, IInv, RequestsKnow, IsSwitch
  <1> DEFINE old == Link(to[o], o)
             new == Link(from[o], source[o])
  <1>2. /\ old \in Links /\ old.entity = o
        /\ new \in Links /\ new # NoLink /\ new.entity = source[o]
    BY <1>1, LinkFacts
  <1>3. Relink(old, new)
    BY DEF RevertIdentities
  <1> HIDE DEF old, new
  <1>4. /\ identities' \in [Externals -> Links]
        /\ \A x \in Externals :
              identities'[x] = IF identities[x] = old THEN new ELSE identities[x]
    BY <1>2, <1>3, RelinkFacts DEF IInv
  <1>5. ASSUME NEW m \in Messages,
               identities[Sender(m)] # NoLink, identities[Sender(m)].entity \in Chain(m)
        PROVE  identities'[Sender(m)] # NoLink /\ identities'[Sender(m)].entity \in Chain(m)
    <2>1. Sender(m) \in Externals
      BY ContactFacts DEF IInv
    <2> QED
      BY <1>2, <1>4, <1>5, <2>1, ChainBack
  <1>6. \A m \in Messages : table'[m] \in {table[m], "none"}
    BY <1>1
  <1> QED
    BY <1>1, <1>4, <1>5, <1>6, RequestStep DEF IInv, Typed

LEMMA DeleteSourceIInv ==
    ASSUME IInv, NEW o \in Requests, DeleteSource(o) PROVE IInv'
  <1> DEFINE p == IF IsSwitch(o) THEN "sync" ELSE "clean"
  <1>1. /\ p \in Statements /\ p # "idle"
        /\ p \in {"insert", "move", "sync", "revert", "undo"} => IsSwitch(o)
        /\ p = "clean" => ~IsSwitch(o)
    BY DEF Statements
  <1>2. /\ op[o] = "delete" /\ op' = [op EXCEPT ![o] = p]
        /\ UNCHANGED <<serial, intake, source, from, to>>
        /\ UNCHANGED <<columns, dependents, identities, users, linked>>
        /\ table' = [table EXCEPT ![source[o]] = "none"]
    BY DEF DeleteSource, OpGoto, Fixed, accounts
  <1>3. /\ table' \in [Entities -> Roles \union {"none"}]
        /\ \A m \in Messages : table'[m] \in {table[m], "none"}
        /\ source[o] \in Messages => table'[source[o]] = "none"
    BY <1>2, Names DEF IInv, Typed
  <1> HIDE DEF p
  <1> QED
    BY <1>1, <1>2, <1>3, RequestStep DEF IInv, Typed

LEMMA DeleteTargetIInv ==
    ASSUME IInv, NEW o \in Requests, DeleteTarget(o) PROVE IInv'
  <1>1. /\ "ended" \in Statements
        /\ op[o] = "undo" /\ op' = [op EXCEPT ![o] = "ended"]
        /\ UNCHANGED <<serial, intake, source, from, to>>
        /\ UNCHANGED <<columns, dependents, identities, users, linked>>
        /\ table' = [table EXCEPT ![o] = "none"]
    BY DEF DeleteTarget, OpGoto, Fixed, accounts, Statements
  <1>2. /\ table' \in [Entities -> Roles \union {"none"}]
        /\ \A m \in Messages : table'[m] \in {table[m], "none"}
    BY <1>1, Names DEF IInv, Typed
  <1> QED
    BY <1>1, <1>2, RequestStep DEF IInv, Typed

LEMMA SyncAuthRolesIInv ==
    ASSUME IInv, NEW o \in Requests, SyncAuthRoles(o) PROVE IInv'
  <1>1. /\ "ended" \in Statements /\ to[o] \in Roles
        /\ op[o] = "sync" /\ op' = [op EXCEPT ![o] = "ended"]
        /\ UNCHANGED <<serial, intake, source, from, to>>
        /\ UNCHANGED <<table, columns, dependents, identities, linked>>
    BY DEF SyncAuthRoles, OpGoto, Fixed, rows, Statements, IInv, RequestsKnow, IsSwitch
  <1>2. PICK some \in SUBSET linked :
            users' = [x \in Externals |-> IF x \in some THEN to[o] ELSE users[x]]
    BY DEF SyncAuthRoles
  <1>3. /\ users' \in [Externals -> Roles \union {"none"}]
        /\ \A x \in Externals : users'[x] = "none" <=> users[x] = "none"
    BY <1>1, <1>2, Names DEF IInv, Typed, UsersAreMade
  <1>4. \A m \in Messages : table'[m] \in {table[m], "none"}
    BY <1>1
  <1> QED
    BY <1>1, <1>3, <1>4, RequestStep DEF IInv, Typed

LEMMA CleanIdentitiesIInv ==
    ASSUME IInv, NEW o \in Requests, CleanIdentities(o) PROVE IInv'
  <1>1. /\ "ended" \in Statements /\ ~IsSwitch(o)
        /\ op[o] = "clean" /\ op' = [op EXCEPT ![o] = "ended"]
        /\ source[o] \in Entities /\ from[o] \in Roles
        /\ UNCHANGED <<serial, intake, source, from, to>>
        /\ UNCHANGED <<table, columns, dependents, users>>
        /\ linked' \subseteq linked
    BY DEF CleanIdentities, OpGoto, Fixed, rows, Statements, IInv, RequestsKnow
  <1> DEFINE old == Link(from[o], source[o])
  <1>2. old \in Links /\ old.entity = source[o]
    BY <1>1, LinkFacts
  <1>3. Relink(old, NoLink)
    BY DEF CleanIdentities
  <1> HIDE DEF old
  <1>4. /\ identities' \in [Externals -> Links]
        /\ \A x \in Externals :
              identities'[x] = IF identities[x] = old THEN NoLink ELSE identities[x]
    BY <1>2, <1>3, LinkFacts, RelinkFacts DEF IInv
  <1>5. ASSUME NEW m \in Messages, table'[m] # "none",
               identities[Sender(m)] # NoLink, identities[Sender(m)].entity \in Chain(m)
        PROVE  \/ SwitchedDeleted
               \/ identities'[Sender(m)] # NoLink /\ identities'[Sender(m)].entity \in Chain(m)
    <2>1. Sender(m) \in Externals
      BY ContactFacts DEF IInv
    <2>2. CASE identities[Sender(m)] # old
      BY <1>4, <1>5, <2>1, <2>2
    <2>3. CASE identities[Sender(m)] = old
      <3>1. source[o] \in {m} \union Requests
        BY <1>2, <1>5, <2>3, ChainFacts
      <3>2. source[o] # m
        BY <1>1, <1>5 DEF IInv, RowsAreResolved
      <3> QED
        BY <1>1, <3>1, <3>2 DEF SwitchedDeleted
    <2> QED
      BY <2>2, <2>3
  <1>6. \A m \in Messages : table'[m] \in {table[m], "none"}
    BY <1>1
  <1> QED
    BY <1>1, <1>4, <1>5, <1>6, RequestStep DEF IInv, Typed
LEMMA StartRequestIInv ==
    ASSUME IInv, NEW o \in Requests, NEW e \in Entities, NEW target \in Targets,
           StartRequest(o, e, target)
    PROVE  IInv'
  <1>1. /\ op[o] = "idle" /\ source[o] = "none" /\ from[o] = "none"
        /\ table[e] \in Roles /\ table[e] # "none" /\ target \in Roles \union {"none"}
        /\ UNCHANGED <<serial, table, columns, dependents, identities, users, linked, contact,
                       pc, at, found, madeUser>>
    BY Names DEF StartRequest, rows, accounts, intake, IInv, Typed, RequestsKnow
  <1>2. /\ op' \in [Requests -> Statements] /\ op'[o] = "check"
        /\ source' \in [Requests -> Entities \union {"none"}] /\ source'[o] = e
        /\ from' \in [Requests -> Roles \union {"none"}] /\ from'[o] = table[e]
        /\ to' \in [Requests -> Roles \union {"none"}]
    BY <1>1 DEF StartRequest, OpGoto, IInv, Typed, Statements
  <1>3. \A q \in Requests \ {o} :
            op'[q] = op[q] /\ source'[q] = source[q] /\ from'[q] = from[q] /\ to'[q] = to[q]
    BY DEF StartRequest, OpGoto, IInv, Typed
  <1>4. \A n \in Messages : Sender(n)' = Sender(n) /\ Aliases(n)' = Aliases(n)
    BY <1>1 DEF Sender, Aliases
  <1>5. \A n \in Messages : Chain(n) \subseteq Chain(n)'
    BY <1>1, <1>3, Names, ChainGrows
  <1>6. SwitchedDeleted => SwitchedDeleted'
    BY <1>1, <1>3, Names DEF SwitchedDeleted, IsSwitch
  <1>7. Typed' /\ Lookups'
    BY <1>1, <1>2, <1>4 DEF IInv, Typed, Lookups
  <1>8. RequestsKnow'
    BY <1>1, <1>2, <1>3 DEF IInv, RequestsKnow, IsSwitch
  <1>9. RowsAreResolved'
    BY <1>1, <1>2, <1>3 DEF IInv, RowsAreResolved
  <1>10. UsersAreMade'
    <2>1. \A q \in Requests : from[q] \in Roles /\ ~IsSwitch(q) =>
              from'[q] \in Roles /\ ~IsSwitch(q)'
      BY <1>1, <1>3, Names DEF IsSwitch
    <2> QED
      BY <1>1, <1>4, <2>1 DEF IInv, Typed, UsersAreMade, Unrecorded, WithoutUser
  <1>11. IdentityFollows'
    BY <1>1, <1>4, <1>5, <1>6 DEF IInv, IdentityFollows
  <1>12. OneCustomerPerSender'
    <2>1. OneCustomerPerSender <=>
              \A m, n \in Messages : m # n /\ Sender(m) = Sender(n) =>
                  "none" \in {table[m], table[n]} \/ SwitchedDeleted
      BY DEF OneCustomerPerSender, SwitchedDeleted
    <2>2. OneCustomerPerSender' <=>
              \A m, n \in Messages : m # n /\ Sender(m)' = Sender(n)' =>
                  "none" \in {table'[m], table'[n]} \/ SwitchedDeleted'
      BY DEF OneCustomerPerSender, SwitchedDeleted
    <2> QED
      BY <1>1, <1>4, <1>6, <2>1, <2>2 DEF IInv
  <1> QED
    BY <1>7, <1>8, <1>9, <1>10, <1>11, <1>12 DEF IInv

LEMMA NextIInv == IInv /\ [Next]_vars => IInv'
  <1> SUFFICES ASSUME IInv, [Next]_vars PROVE IInv'
    OBVIOUS
  <1>1. CASE UNCHANGED vars \/ \E e \in Entities : AddDependent(e)
    <2>1. /\ UNCHANGED <<serial, table, columns, identities, users, linked, contact, pc, at,
                         found, madeUser, op, source, from, to>>
          /\ dependents' \subseteq Entities
      BY <1>1 DEF vars, AddDependent, rows, accounts, intake, requests, IInv, Typed
    <2>2. \A n \in Messages : Sender(n)' = Sender(n) /\ Aliases(n)' = Aliases(n)
      BY <2>1 DEF Sender, Aliases
    <2>3. SwitchedDeleted' <=> SwitchedDeleted
      BY <2>1 DEF SwitchedDeleted, IsSwitch
    <2>4. \A n \in Messages : Chain(n)' = Chain(n)
      BY <2>1 DEF Chain, Closed
    <2>5. Typed' /\ Lookups' /\ RequestsKnow' /\ RowsAreResolved'
      BY <2>1, <2>2 DEF IInv, Typed, Lookups, RequestsKnow, RowsAreResolved, IsSwitch
    <2>6. UsersAreMade'
      BY <2>1, <2>2 DEF IInv, Typed, UsersAreMade, Unrecorded, WithoutUser, IsSwitch
    <2>7. IdentityFollows'
      BY <2>1, <2>2, <2>3, <2>4 DEF IInv, IdentityFollows
    <2>8. OneCustomerPerSender'
      BY <2>1, <2>2 DEF IInv, OneCustomerPerSender, IsSwitch
    <2> QED
      BY <2>5, <2>6, <2>7, <2>8 DEF IInv
  <1>2. ASSUME NEW m \in Messages, Resolve(m) PROVE IInv'
    BY <1>2, ArriveIInv, ReadUuidIInv, ReadMappingIInv, ReadProfileIInv, EnsureIInv,
       FlushCustomerIInv, CreateUserIInv, StoreIInv, IntakeFailsIInv DEF Resolve
  <1>3. ASSUME NEW o \in Requests, Administer(o) PROVE IInv'
    BY <1>3, StartRequestIInv, CheckDependentsIInv, InsertTargetIInv, MoveIdentitiesIInv,
       DeleteSourceIInv, RevertIdentitiesIInv, DeleteTargetIInv, SyncAuthRolesIInv,
       CleanIdentitiesIInv, StatementFailsIInv, AnswerIsLostIInv, RequestCrashesIInv
       DEF Administer
  <1> QED
    BY <1>1, <1>2, <1>3 DEF Next

-----------------------------------------------------------------------------
(* The inductive invariant holds in every reachable state.                 *)
THEOREM Invariance == Spec => []IInv
  <1> QED
    BY InitIInv, NextIInv, PTL DEF Spec

(* Every variable keeps its type, and no alias is looked up that is not    *)
(* there.                                                                  *)
THEOREM TypeCorrect == Spec => []TypeOK
  <1>1. IInv => TypeOK
    BY DEF IInv, Typed, Lookups, RequestsKnow, UsersAreMade, TypeOK
  <1> QED
    BY <1>1, Invariance, PTL

(* Messages of one sender, however they interleave with each other and with*)
(* the owner's requests, leave one customer.                               *)
THEOREM SendersGetOneCustomer == Spec => []OneCustomerPerSender
  <1>1. IInv => OneCustomerPerSender
    BY DEF IInv
  <1> QED
    BY <1>1, Invariance, PTL

(* An Auth user without identity comes from a failure or a deletion.       *)
THEOREM OrphansAreExplained == Spec => []OrphansComeFromFailures
  <1>1. IInv => OrphansComeFromFailures
    BY DEF IInv, Typed, UsersAreMade, Unrecorded, OrphansComeFromFailures
  <1> QED
    BY <1>1, Invariance, PTL

-----------------------------------------------------------------------------
(* Messages and requests of the owner that do not overlap: a switch moves a*)
(* stakeholder with all its identities or not at all, and messages resolve *)
(* to rows that exist.                                                     *)
(* The table a row is in, if it is there, never changes.                   *)
RoleOf(e) == IF e \in Requests THEN to[e] ELSE "customer"

Fits(k) == k # NoLink => k.role = RoleOf(k.entity)

RolesFit ==
    /\ \A e \in Entities : table[e] \in {"none", RoleOf(e)}
    /\ \A x \in Externals : Fits(identities[x])
    /\ \A m \in Messages : Fits(found[m])
    /\ \A o \in Requests : op[o] # "idle" => from[o] = RoleOf(source[o])

(* Nothing refers to a row that no request has made yet.                   *)
IdleIsUnknown == \A o \in Requests :
    /\ source[o] # o
    /\ op[o] = "idle" =>
          /\ table[o] = "none" /\ to[o] = "none" /\ missed[o] = {}
          /\ \A x \in Externals : identities[x].entity # o
          /\ \A m \in Messages : found[m].entity # o
          /\ \A q \in Requests : source[q] # o

OneByOne == serial =>
    /\ \A o, q \in Requests : Switching(o) /\ Switching(q) => o = q
    /\ \A o \in Requests : \A m \in Messages : ~(Switching(o) /\ Resolving(m))

(* How far a request has come.  It compensates with its source gone, or    *)
(* leaves identities behind, only if it has missed something.              *)
Unnamed(e) == \A x \in Externals : identities[x].entity # e

Phase(o) ==
    /\ op[o] \in {"check", "insert"} =>
          table[source[o]] # "none" /\ table[o] = "none" /\ Unnamed(o)
    /\ op[o] = "move" => table[source[o]] # "none" /\ table[o] # "none" /\ Unnamed(o)
    /\ op[o] = "delete" /\ IsSwitch(o) =>
          table[source[o]] # "none" /\ table[o] # "none" /\ Unnamed(source[o])
    /\ op[o] \in {"revert", "undo"} =>
          (table[source[o]] # "none" \/ "delete" \in missed[o]) /\ table[o] # "none"
    /\ op[o] = "undo" => Unnamed(o) \/ missed[o] \intersect {"move", "revert"} # {}
    /\ op[o] = "sync" => table[source[o]] = "none" /\ table[o] # "none" /\ Unnamed(source[o])

Phases == serial => \A o \in Requests : Phase(o) \/ ~Switching(o)

(* An identity names a row that exists, unless a request has failed or is  *)
(* about to clean it.                                                      *)
Unsound == \E o \in Requests : ~Sound(o)

Cleaning(k) == \E o \in Requests : op[o] = "clean" /\ k = Link(from[o], source[o])

LinksExist == serial =>
    /\ \A x \in Externals :
          identities[x] # NoLink =>
              Exists(identities[x]) \/ Unsound \/ Cleaning(identities[x])
    /\ \A m \in Messages : pc[m] = "link" => Exists(found[m]) \/ Unsound

SInv == /\ missed \in [Requests -> SUBSET Statements]
        /\ RolesFit /\ IdleIsUnknown /\ OneByOne /\ Phases /\ LinksExist

-----------------------------------------------------------------------------
LEMMA InitSInv == Init => SInv
  <1> SUFFICES ASSUME Init PROVE SInv
    OBVIOUS
  <1>1. /\ NoLink.entity = "none"
        /\ \A x \in Externals : identities[x] = NoLink
        /\ \A m \in Messages : found[m] = NoLink /\ pc[m] = "new"
        /\ \A o \in Requests : op[o] = "idle" /\ source[o] = "none" /\ to[o] = "none"
                               /\ missed[o] = {} /\ table[o] = "none" /\ o # "none"
    BY Names DEF Init, NoLink
  <1>2. \A e \in Entities : table[e] \in {"none", RoleOf(e)}
    BY Names DEF Init, RoleOf
  <1>3. RolesFit
    BY <1>1, <1>2 DEF RolesFit, Fits
  <1>4. IdleIsUnknown
    BY <1>1 DEF IdleIsUnknown
  <1>5. OneByOne /\ Phases /\ LinksExist
    BY <1>1 DEF OneByOne, Switching, Resolving, Phases, LinksExist
  <1>6. missed \in [Requests -> SUBSET Statements]
    BY DEF Init
  <1> QED
    BY <1>3, <1>4, <1>5, <1>6 DEF SInv

(* Names of rows that have been made, with the role of their table.        *)
Named(k) == Fits(k) /\ \A o \in Requests : op[o] = "idle" => k.entity # o

(* What a step of a message must show.                                     *)
LEMMA MessageStep ==
    ASSUME IInv, SInv, NEW m \in Messages, NEW p \in Steps,
           pc' = [pc EXCEPT ![m] = p],
           Resolving(m) \/ (serial => Quiet),
           UNCHANGED <<serial, requests>>,
           \A e \in Entities : \/ table'[e] = table[e]
                               \/ e = m /\ table[e] = "none" /\ table'[e] = "customer",
           \A n \in Messages : found'[n] = found[n] \/ (n = m /\ Named(found'[n])),
           serial /\ p = "link" => Exists(found[m])' \/ Unsound,
           \A x \in Externals :
               \/ identities'[x] = identities[x]
               \/ /\ Named(identities'[x])
                  /\ serial => Exists(identities[x])' \/ Unsound
    PROVE  SInv'
  <1>1. UNCHANGED <<serial, op, source, from, to, missed>>
    BY DEF requests
  <1>2. /\ pc'[m] = p
        /\ \A n \in Messages \ {m} : pc'[n] = pc[n]
    BY DEF IInv, Typed
  <1>3. /\ \A e : RoleOf(e)' = RoleOf(e)
        /\ \A o : Switching(o)' <=> Switching(o)
        /\ \A o : Sound(o)' <=> Sound(o)
        /\ Unsound' <=> Unsound
    BY <1>1 DEF RoleOf, Switching, Sound, IsSwitch, Unsound
  <1>4. RolesFit'
    <2>1. \A e \in Entities : table'[e] \in {"none", RoleOf(e)'}
      BY <1>3, Names DEF SInv, RolesFit, RoleOf
    <2>2. \A x \in Externals : Fits(identities[x])'
      BY <1>3 DEF SInv, RolesFit, Named, Fits
    <2>3. \A n \in Messages : Fits(found[n])'
      BY <1>3 DEF SInv, RolesFit, Named, Fits
    <2>4. \A o \in Requests : op'[o] # "idle" => from'[o] = RoleOf(source[o])'
      BY <1>1 DEF SInv, RolesFit, RoleOf
    <2> QED
      BY <2>1, <2>2, <2>3, <2>4 DEF RolesFit
  <1>5. IdleIsUnknown'
    <2>1. \A o \in Requests : table'[o] = table[o]
      BY Names
    <2> QED
      BY <1>1, <2>1 DEF SInv, IdleIsUnknown, Named
  <1>6. serial => \A o \in Requests : ~Switching(o)
    <2>1. Resolving(m) /\ serial => \A o \in Requests : ~Switching(o)
      BY DEF SInv, OneByOne
    <2>2. Quiet => \A o \in Requests : ~Switching(o)
      BY Names DEF Quiet
    <2> QED
      BY <2>1, <2>2
  <1>7. OneByOne' /\ Phases'
    BY <1>1, <1>3, <1>6 DEF OneByOne, Phases
  <1>8. LinksExist'
    <2> SUFFICES ASSUME serial PROVE /\ \A x \in Externals :
                                            identities'[x] # NoLink => Exists(identities[x])' \/ Unsound
                                     /\ \A n \in Messages :
                                            pc'[n] = "link" => Exists(found[n])' \/ Unsound
      BY <1>1, <1>3 DEF LinksExist
    <2>1. \A k : Exists(k) /\ k.entity \in Entities /\ k.role # "none" => Exists(k) /\ table'[k.entity] = k.role
      BY DEF Exists
    <2>2. \A o \in Requests : op[o] # "clean"
      BY <1>6 DEF Switching
    <2>3. ASSUME NEW x \in Externals, identities'[x] # NoLink PROVE Exists(identities[x])' \/ Unsound
      <3>1. CASE identities'[x] = identities[x]
        <4>1. Exists(identities[x]) \/ Unsound
          BY <2>2, <2>3, <3>1 DEF SInv, LinksExist, Cleaning
        <4>2. identities[x].entity \in Entities /\ identities[x].role # "none"
          BY <2>3, <3>1, LinkFacts, Names DEF IInv, Typed
        <4> QED
          BY <2>1, <3>1, <4>1, <4>2 DEF Exists
      <3>2. CASE identities'[x] # identities[x]
        BY <3>2
      <3> QED
        BY <3>1, <3>2
    <2>4. ASSUME NEW n \in Messages, pc'[n] = "link" PROVE Exists(found[n])' \/ Unsound
      <3>1. CASE n = m
        BY <1>2, <2>4, <3>1
      <3>2. CASE n # m
        <4>1. pc[n] = "link" /\ found'[n] = found[n]
          BY <1>2, <2>4, <3>2
        <4>2. Exists(found[n]) \/ Unsound
          BY <4>1 DEF SInv, LinksExist
        <4>3. found[n] # NoLink /\ found[n].entity \in Entities /\ found[n].role # "none"
          BY <4>1, LinkFacts, Names DEF IInv, Typed, Lookups
        <4> QED
          BY <2>1, <4>1, <4>2, <4>3 DEF Exists
      <3> QED
        BY <3>1, <3>2
    <2> QED
      BY <2>3, <2>4
  <1>9. missed' \in [Requests -> SUBSET Statements]
    BY <1>1 DEF SInv
  <1> QED
    BY <1>4, <1>5, <1>7, <1>8, <1>9 DEF SInv

(* A message that has found nothing new.                                   *)
LEMMA UnfoundStep ==
    ASSUME IInv, SInv, NEW m \in Messages, NEW p \in Steps \ {"link"},
           pc' = [pc EXCEPT ![m] = p],
           Resolving(m) \/ (serial => Quiet),
           UNCHANGED <<serial, rows, identities, found, requests>>
    PROVE  SInv'
  BY MessageStep DEF rows

(* A row a message finds has been made, and exists when it is read.        *)
LEMMA ExistingIsNamed ==
    ASSUME SInv, NEW e \in Entities, table[e] # "none"
    PROVE  Named(Link(table[e], e)) /\ Link(table[e], e).entity = e
           /\ Link(table[e], e).role = table[e]
  BY DEF SInv, RolesFit, IdleIsUnknown, Named, Fits, Link

LEMMA IdentityIsNamed ==
    ASSUME SInv, NEW x \in Externals PROVE Named(identities[x])
  BY DEF SInv, RolesFit, IdleIsUnknown, Named

LEMMA FoundIsNamed ==
    ASSUME SInv, NEW m \in Messages PROVE Named(found[m])
  BY DEF SInv, RolesFit, IdleIsUnknown, Named

(* A message that is being resolved overlaps no request.                   *)
LEMMA SerialMapping ==
    ASSUME SInv, serial, NEW m \in Messages, Resolving(m), NEW x \in Externals,
           identities[x] # NoLink
    PROVE  Exists(identities[x]) \/ Unsound
  <1>1. \A o \in Requests : op[o] # "clean"
    BY DEF SInv, OneByOne, Switching
  <1> QED
    BY <1>1 DEF SInv, LinksExist, Cleaning

LEMMA ArriveSInv ==
    ASSUME IInv, SInv, NEW m \in Messages, Arrive(m) PROVE SInv'
  <1> DEFINE p == IF Sender(m) \in Owners THEN "owner"
                  ELSE IF Sender(m) \in Entities THEN "uuid" ELSE "mapping"
  <1>1. p \in Steps \ {"link"}
    BY DEF Steps
  <1>2. /\ pc' = [pc EXCEPT ![m] = p] /\ (serial => Quiet)
        /\ UNCHANGED <<serial, rows, identities, found, requests>>
    BY DEF Arrive, Goto, accounts
  <1> HIDE DEF p
  <1> QED
    BY <1>1, <1>2, UnfoundStep

LEMMA ReadUuidSInv ==
    ASSUME IInv, SInv, NEW m \in Messages, ReadUuid(m) PROVE SInv'
  <1>1. /\ Resolving(m)
        /\ UNCHANGED <<serial, rows, table, identities, requests>>
        /\ "link" \in Steps /\ "mapping" \in Steps \ {"link"}
    BY DEF ReadUuid, Steps, Resolving, accounts, rows
  <1>2. CASE table[Sender(m)] # "none" /\ Find(m, table[Sender(m)], Sender(m), "link")
    <2> DEFINE k == Link(table[Sender(m)], Sender(m))
    <2>1. /\ pc' = [pc EXCEPT ![m] = "link"]
          /\ found' = [found EXCEPT ![m] = k]
      BY <1>2 DEF Find, Goto
    <2>2. Sender(m) \in Entities
      BY UuidIsEntity
    <2>3. Named(k) /\ k.entity = Sender(m) /\ k.role = table[Sender(m)] /\ k # NoLink
      BY <1>2, <2>2, ExistingIsNamed, Names DEF NoLink
    <2> HIDE DEF k
    <2>4. /\ found'[m] = k
          /\ \A n \in Messages : found'[n] = found[n] \/ (n = m /\ Named(found'[n]))
      BY <2>1, <2>3 DEF IInv, Typed
    <2>5. Exists(found[m])'
      BY <1>1, <2>3, <2>4 DEF Exists
    <2> QED
      BY <1>1, <2>1, <2>4, <2>5, MessageStep
  <1>3. CASE Goto(m, "mapping") /\ UNCHANGED found
    BY <1>1, <1>3, UnfoundStep DEF Goto
  <1> QED
    BY <1>2, <1>3 DEF ReadUuid

LEMMA ReadMappingSInv ==
    ASSUME IInv, SInv, NEW m \in Messages, ReadMapping(m) PROVE SInv'
  <1> DEFINE k == identities[Sought(m)]
             p == IF at[m] = 0 THEN "resolved" ELSE "link"
  <1>1. /\ Resolving(m)
        /\ UNCHANGED <<serial, rows, table, identities, requests>>
        /\ p \in Steps /\ "customer" \in Steps \ {"link"}
    BY DEF ReadMapping, Steps, Roles, Resolving, accounts, rows
  <1>2. /\ k \in Links /\ Named(k)
        /\ serial /\ k # NoLink => Exists(k) \/ Unsound
    BY <1>1, SoughtType, IdentityIsNamed, SerialMapping DEF IInv, Typed
  <1>3. CASE k # NoLink /\ Find(m, k.role, k.entity, p)
    <2>1. pc' = [pc EXCEPT ![m] = p] /\ found' = [found EXCEPT ![m] = k]
      BY <1>2, <1>3, LinkFacts DEF Find, Goto
    <2> HIDE DEF k, p
    <2>2. /\ found'[m] = k
          /\ \A n \in Messages : found'[n] = found[n] \/ (n = m /\ Named(found'[n]))
      BY <1>2, <2>1 DEF IInv, Typed
    <2>3. serial => Exists(found[m])' \/ Unsound
      BY <1>1, <1>2, <1>3, <2>2 DEF Exists
    <2> QED
      BY <1>1, <2>1, <2>2, <2>3, MessageStep
  <1>4. CASE Goto(m, "customer") /\ UNCHANGED found
    BY <1>1, <1>4, UnfoundStep DEF Goto
  <1> QED
    BY <1>3, <1>4 DEF ReadMapping

LEMMA ReadProfileSInv ==
    ASSUME IInv, SInv, NEW m \in Messages, ReadProfile(m) PROVE SInv'
  <1>1. /\ Resolving(m) /\ pc[m] \in Roles
        /\ UNCHANGED <<serial, rows, table, identities, requests>>
        /\ "link" \in Steps /\ {"mapping", "create"} \subseteq Steps \ {"link"}
    BY DEF ReadProfile, Steps, Roles, Resolving, accounts, rows
  <1>2. \/ \E e \in Matches(Sought(m), pc[m]) : Find(m, pc[m], e, "link")
        \/ /\ UNCHANGED found
           /\ \/ Goto(m, "mapping") \/ Goto(m, "create")
              \/ pc[m] # "investor" /\ Goto(m, Following[pc[m]])
    BY DEF ReadProfile
  <1>3. CASE \E e \in Matches(Sought(m), pc[m]) : Find(m, pc[m], e, "link")
    <2>1. PICK e \in Matches(Sought(m), pc[m]) : Find(m, pc[m], e, "link")
      BY <1>3
    <2>2. e \in Entities /\ table[e] = pc[m] /\ pc[m] # "none"
      BY <1>1, FoundHasRole
    <2> DEFINE k == Link(pc[m], e)
    <2>3. Named(k) /\ k.entity = e /\ k.role = table[e] /\ k # NoLink
      BY <1>1, <2>2, ExistingIsNamed, LinkFacts, Names
    <2>4. pc' = [pc EXCEPT ![m] = "link"] /\ found' = [found EXCEPT ![m] = k]
      BY <2>1 DEF Find, Goto
    <2> HIDE DEF k
    <2>5. /\ found'[m] = k
          /\ \A n \in Messages : found'[n] = found[n] \/ (n = m /\ Named(found'[n]))
      BY <2>3, <2>4 DEF IInv, Typed
    <2>6. Exists(found[m])'
      BY <1>1, <2>3, <2>5 DEF Exists
    <2> QED
      BY <1>1, <2>4, <2>5, <2>6, MessageStep
  <1>4. CASE (Goto(m, "mapping") \/ Goto(m, "create")) /\ UNCHANGED found
    BY <1>1, <1>4, UnfoundStep DEF Goto
  <1>5. CASE pc[m] # "investor" /\ Goto(m, Following[pc[m]]) /\ UNCHANGED found
    <2> DEFINE p == Following[pc[m]]
    <2>1. p \in Steps \ {"link"}
      BY <1>1, <1>5 DEF Following, Roles, Steps
    <2>2. pc' = [pc EXCEPT ![m] = p]
      BY <1>5 DEF Goto
    <2> HIDE DEF p
    <2> QED
      BY <1>1, <1>5, <2>1, <2>2, UnfoundStep
  <1> QED
    BY <1>2, <1>3, <1>4, <1>5

LEMMA SilentSInv ==
    ASSUME IInv, SInv, NEW m \in Messages,
           FlushCustomer(m) \/ CreateUser(m) \/ IntakeFails(m)
    PROVE  SInv'
  <1>1. /\ Resolving(m)
        /\ UNCHANGED <<serial, rows, identities, found, requests>>
        /\ {"user", "store", "fallback"} \subseteq Steps \ {"link"}
    BY DEF FlushCustomer, CreateUser, IntakeFails, Resolving, Steps, accounts
  <1>2. Goto(m, "user") \/ Goto(m, "store") \/ Goto(m, "fallback")
    BY DEF FlushCustomer, CreateUser, IntakeFails
  <1> QED
    BY <1>1, <1>2, UnfoundStep DEF Goto

LEMMA EnsureSInv ==
    ASSUME IInv, SInv, NEW m \in Messages, Ensure(m) PROVE SInv'
  <1>1. /\ pc[m] = "link" /\ Resolving(m)
        /\ UNCHANGED <<serial, table, found, requests>>
        /\ "resolved" \in Steps /\ pc' = [pc EXCEPT ![m] = "resolved"]
    BY DEF Ensure, Resolving, Steps, Goto, rows
  <1>2. Named(found[m]) /\ (serial => Exists(found[m]) \/ Unsound)
    BY <1>1, FoundIsNamed DEF SInv, LinksExist
  <1>3. ASSUME NEW x \in Externals, identities'[x] # identities[x]
        PROVE  Named(identities'[x]) /\ (serial => Exists(identities[x])' \/ Unsound)
    <2>1. identities'[x] = found[m]
      BY <1>3 DEF Ensure, IInv, Typed
    <2> QED
      BY <1>1, <1>2, <2>1 DEF Exists
  <1> QED
    BY <1>1, <1>3, MessageStep

LEMMA StoreSInv ==
    ASSUME IInv, SInv, NEW m \in Messages, Store(m) PROVE SInv'
  <1> DEFINE k == Link("customer", m)
  <1>1. /\ pc[m] = "store" /\ Resolving(m) /\ m \in Entities
        /\ UNCHANGED <<serial, requests>>
        /\ "resolved" \in Steps /\ pc' = [pc EXCEPT ![m] = "resolved"]
        /\ found' = [found EXCEPT ![m] = k]
        /\ identities' = [identities EXCEPT ![Sender(m)] = k]
        /\ table' = [table EXCEPT ![m] = "customer"]
    BY Names DEF Store, Resolving, Steps, Find, Goto
  <1>2. Named(k) /\ k.entity = m /\ k.role = "customer" /\ k # NoLink
    BY <1>1, Names DEF Named, Fits, Link, RoleOf, NoLink
  <1> HIDE DEF k
  <1>3. /\ table[m] = "none" /\ table'[m] = "customer"
        /\ \A e \in Entities \ {m} : table'[e] = table[e]
    BY <1>1 DEF IInv, Typed, RowsAreResolved
  <1>4. \A n \in Messages : found'[n] = found[n] \/ (n = m /\ Named(found'[n]))
    BY <1>1, <1>2 DEF IInv, Typed
  <1>5. ASSUME NEW x \in Externals, identities'[x] # identities[x]
        PROVE  Named(identities'[x]) /\ (serial => Exists(identities[x])' \/ Unsound)
    <2>1. identities'[x] = k
      BY <1>1, <1>5 DEF IInv, Typed
    <2> QED
      BY <1>2, <1>3, <2>1 DEF Exists
  <1> QED
    BY <1>1, <1>3, <1>4, <1>5, MessageStep

-----------------------------------------------------------------------------
(* What a step of a request must show.                                     *)
LEMMA OwnerStep ==
    ASSUME IInv, SInv, NEW o \in Requests, NEW p \in Statements \ {"idle"},
           op' = [op EXCEPT ![o] = p], Switching(o),
           UNCHANGED <<serial, intake, source, from, to>>,
           missed' \in [Requests -> SUBSET Statements],
           \A q \in Requests \ {o} : missed'[q] = missed[q],
           missed[o] \subseteq missed'[o],
           \A e \in Entities : \/ table'[e] = table[e]
                               \/ e \in {o, source[o]} /\ table'[e] \in {"none", RoleOf(e)},
           \A x \in Externals :
               \/ identities'[x] = identities[x] \/ identities'[x] = NoLink
               \/ Fits(identities'[x]) /\ identities'[x].entity \in {o, source[o]},
           serial => Phase(o)' \/ ~Switching(o)',
           serial => \A x \in Externals :
               identities'[x] # NoLink =>
                   Exists(identities[x])' \/ Unsound' \/ Cleaning(identities[x])'
    PROVE  SInv'
  <1>1. UNCHANGED <<serial, pc, found, source, from, to>>
    BY DEF intake
  <1>2. /\ op'[o] = p /\ p # "idle" /\ op[o] # "idle"
        /\ \A q \in Requests \ {o} : op'[q] = op[q]
        /\ source[o] \in Entities
        /\ \A q \in Requests : op[q] = "idle" <=> op'[q] = "idle"
    BY DEF IInv, Typed, RequestsKnow, Switching
  <1>3. \A e : RoleOf(e)' = RoleOf(e)
    BY <1>1 DEF RoleOf
  <1>4. RolesFit'
    <2>1. \A e \in Entities : table'[e] \in {"none", RoleOf(e)'}
      BY <1>3 DEF SInv, RolesFit
    <2>2. \A x \in Externals : Fits(identities[x])'
      BY <1>3 DEF SInv, RolesFit, Fits
    <2>3. \A n \in Messages : Fits(found[n])'
      BY <1>1, <1>3 DEF SInv, RolesFit, Fits
    <2>4. \A q \in Requests : op'[q] # "idle" => from'[q] = RoleOf(source[q])'
      BY <1>1, <1>2 DEF SInv, RolesFit, RoleOf
    <2> QED
      BY <2>1, <2>2, <2>3, <2>4 DEF RolesFit
  <1>5. IdleIsUnknown'
    <2> SUFFICES ASSUME NEW q \in Requests
                 PROVE  /\ source[q] # q
                        /\ op'[q] = "idle" =>
                              /\ table'[q] = "none" /\ to[q] = "none" /\ missed'[q] = {}
                              /\ \A x \in Externals : identities'[x].entity # q
                              /\ \A m \in Messages : found[m].entity # q
                              /\ \A r \in Requests : source[r] # q
      BY <1>1 DEF IdleIsUnknown
    <2>1. source[q] # q
      BY DEF SInv, IdleIsUnknown
    <2>2. ASSUME op'[q] = "idle"
          PROVE  /\ table'[q] = "none" /\ to[q] = "none" /\ missed'[q] = {}
                 /\ \A x \in Externals : identities'[x].entity # q
                 /\ \A m \in Messages : found[m].entity # q
                 /\ \A r \in Requests : source[r] # q
      <3>1. op[q] = "idle" /\ q # o /\ q # source[o] /\ q \in Entities /\ q # "none"
        BY <1>2, <2>2, Names DEF SInv, IdleIsUnknown
      <3>2. NoLink.entity # q
        BY <3>1 DEF NoLink
      <3> QED
        BY <3>1, <3>2 DEF SInv, IdleIsUnknown
    <2> QED
      BY <2>1, <2>2
  <1>6. \A q \in Requests : Switching(q)' => Switching(q)
    BY <1>2 DEF Switching
  <1>7. OneByOne'
    <2>1. \A m : Resolving(m)' <=> Resolving(m)
      BY <1>1 DEF Resolving
    <2> QED
      BY <1>1, <1>6, <2>1 DEF SInv, OneByOne
  <1>8. Phases'
    <2>1. serial => \A q \in Requests \ {o} : ~Switching(q)'
      BY <1>6 DEF SInv, OneByOne
    <2> QED
      BY <1>1, <2>1 DEF Phases
  <1>9. LinksExist'
    <2>1. serial => \A m \in Messages : pc[m] # "link"
      BY DEF SInv, OneByOne, Resolving
    <2> QED
      BY <1>1, <2>1 DEF LinksExist
  <1> QED
    BY <1>4, <1>5, <1>7, <1>8, <1>9 DEF SInv

(* What a request has missed is never forgotten.                           *)
LEMMA MissedKept ==
    ASSUME SInv, NEW o \in Requests, UNCHANGED missed
    PROVE  /\ missed' \in [Requests -> SUBSET Statements] /\ missed[o] \subseteq missed'[o]
           /\ \A q \in Requests \ {o} : missed'[q] = missed[q]
  BY DEF SInv

LEMMA MissedGrows ==
    ASSUME SInv, NEW o \in Requests, NEW s \in Statements, Misses(o, s)
    PROVE  /\ missed' \in [Requests -> SUBSET Statements]
           /\ missed[o] \subseteq missed'[o] /\ s \in missed'[o]
           /\ \A q \in Requests \ {o} : missed'[q] = missed[q]
  BY DEF SInv, Misses

(* A request that has left something behind stays so.                      *)
LEMMA StaysUnsound ==
    ASSUME IInv, SInv, NEW o \in Requests, NEW p \in Statements,
           op' = [op EXCEPT ![o] = p], Switching(o), UNCHANGED to,
           missed' \in [Requests -> SUBSET Statements],
           \A q \in Requests \ {o} : missed'[q] = missed[q],
           missed[o] \subseteq missed'[o], Unsound
    PROVE  Unsound'
  <1>1. PICK q \in Requests : ~Sound(q)
    BY DEF Unsound
  <1>2. IsSwitch(q)' <=> IsSwitch(q)
    BY DEF IsSwitch
  <1>3. missed[q] \subseteq missed'[q]
    OBVIOUS
  <1>4. op[q] = "crashed" => op'[q] = "crashed"
    BY DEF Switching, IInv, Typed
  <1>5. ~Sound(q)'
    BY <1>1, <1>2, <1>3, <1>4 DEF Sound
  <1> QED
    BY <1>5 DEF Unsound

(* While a request does not clean, what identities name exists, unless a   *)
(* request has left something behind.                                      *)
LEMMA SerialLinks ==
    ASSUME IInv, SInv, serial, NEW o \in Requests, Switching(o), op[o] # "clean",
           NEW x \in Externals, identities[x] # NoLink
    PROVE  /\ Exists(identities[x]) \/ Unsound
           /\ identities[x].entity \in Entities /\ identities[x].role \in Roles
  <1>1. \A q \in Requests : op[q] # "clean"
    BY DEF SInv, OneByOne, Switching
  <1>2. identities[x].entity \in Entities /\ identities[x].role \in Roles
    BY LinkFacts DEF IInv, Typed
  <1> QED
    BY <1>1, <1>2 DEF SInv, LinksExist, Cleaning

(* All identities of a row have the same role.                             *)
LEMMA IdentityFits ==
    ASSUME IInv, SInv, NEW o \in Requests, op[o] # "idle", NEW x \in Externals
    PROVE  /\ identities[x].entity = source[o] => identities[x] = Link(from[o], source[o])
           /\ identities[x].entity = o => identities[x] = Link(to[o], o)
           /\ source[o] # o /\ source[o] \in Entities /\ from[o] \in Roles
           /\ from[o] = RoleOf(source[o]) /\ to[o] = RoleOf(o)
           /\ table[o] \in {"none", to[o]} /\ table[source[o]] \in {"none", from[o]}
  <1>1. /\ identities[x] \in Links /\ NoLink.entity = "none"
        /\ source[o] \in Entities /\ source[o] # "none" /\ o # "none" /\ from[o] \in Roles
    BY Names DEF IInv, Typed, NoLink, RequestsKnow
  <1>2. /\ Fits(identities[x])
        /\ from[o] = RoleOf(source[o]) /\ to[o] = RoleOf(o) /\ source[o] # o
        /\ table[o] \in {"none", to[o]} /\ table[source[o]] \in {"none", from[o]}
    BY <1>1, Names DEF SInv, RolesFit, IdleIsUnknown, RoleOf
  <1> QED
    BY <1>1, <1>2, LinkFacts DEF Fits

(* A step that writes no row and no identity.                              *)
LEMMA KeepingStep ==
    ASSUME IInv, SInv, NEW o \in Requests, NEW p \in Statements \ {"idle"},
           op' = [op EXCEPT ![o] = p], Switching(o),
           UNCHANGED <<serial, intake, source, from, to>>,
           UNCHANGED <<table, identities>>,
           missed' \in [Requests -> SUBSET Statements],
           \A q \in Requests \ {o} : missed'[q] = missed[q],
           missed[o] \subseteq missed'[o],
           op[o] = "clean" => Unsound',
           serial => Phase(o)' \/ ~Switching(o)'
    PROVE  SInv'
  <1>1. ASSUME serial, NEW x \in Externals, identities'[x] # NoLink
        PROVE  Exists(identities[x])' \/ Unsound'
    <2>1. Unsound => Unsound'
      BY StaysUnsound
    <2> QED
      BY <1>1, <2>1, SerialLinks DEF Exists
  <1>2. /\ \A e \in Entities : table'[e] = table[e]
        /\ \A x \in Externals : identities'[x] = identities[x]
    OBVIOUS
  <1>3. serial => \A x \in Externals :
            identities'[x] # NoLink =>
                Exists(identities[x])' \/ Unsound' \/ Cleaning(identities[x])'
    BY <1>1
  <1> QED
    BY <1>2, <1>3, OwnerStep

LEMMA SamePhase ==
    ASSUME SInv, NEW o \in Requests, Switching(o), serial PROVE Phase(o)
  BY DEF SInv, Phases

LEMMA CheckDependentsSInv ==
    ASSUME IInv, SInv, NEW o \in Requests, CheckDependents(o) PROVE SInv'
  <1> DEFINE p == IF source[o] \in dependents THEN "ended"
                  ELSE IF IsSwitch(o) THEN "insert" ELSE "delete"
  <1>1. /\ op[o] = "check" /\ op' = [op EXCEPT ![o] = p] /\ Switching(o)
        /\ UNCHANGED <<serial, intake, source, from, to, table, identities, missed>>
        /\ p \in Statements \ {"idle"}
        /\ p = "ended" \/ p = "insert" \/ (p = "delete" /\ ~IsSwitch(o))
    BY DEF CheckDependents, OpGoto, Switching, Fixed, rows, accounts, Noted, Statements
  <1> HIDE DEF p
  <1>2. op'[o] = p
    BY <1>1 DEF IInv, Typed
  <1>3. serial => Phase(o)' \/ ~Switching(o)'
    BY <1>1, <1>2, SamePhase DEF Phase, Switching, Unnamed, IsSwitch
  <1> QED
    BY <1>1, <1>3, MissedKept, KeepingStep

LEMMA StatementFailsSInv ==
    ASSUME IInv, SInv, NEW o \in Requests, StatementFails(o) PROVE SInv'
  <1> DEFINE p == AfterError(o, op[o])
  <1>1. /\ op' = [op EXCEPT ![o] = p] /\ Switching(o) /\ op[o] # "sync"
        /\ UNCHANGED <<serial, intake, source, from, to, table, identities>>
        /\ IF op[o] \in Unheeded THEN Misses(o, op[o]) ELSE Noted
    BY DEF StatementFails, OpGoto, Switching, Fixed, rows, accounts, Unheeded
  <1>2. /\ p \in Statements \ {"idle"}
        /\ \/ p = "undo" /\ op[o] = "move"
           \/ p = "revert" /\ op[o] = "delete" /\ IsSwitch(o)
           \/ p = "undo" /\ op[o] = "revert"
           \/ p = "ended"
    BY DEF AfterError, Statements
  <1> HIDE DEF p
  <1>3. op'[o] = p /\ op[o] \in Statements
    BY <1>1 DEF IInv, Typed
  <1>4. /\ missed' \in [Requests -> SUBSET Statements] /\ missed[o] \subseteq missed'[o]
        /\ \A q \in Requests \ {o} : missed'[q] = missed[q]
        /\ op[o] \in {"revert", "clean"} => op[o] \in missed'[o]
    BY <1>1, <1>3, MissedKept, MissedGrows DEF Noted, Unheeded
  <1>5. serial => Phase(o)' \/ ~Switching(o)'
    <2>1. CASE p = "ended"
      BY <1>3, <2>1 DEF Switching
    <2>2. CASE p # "ended"
      <3> SUFFICES ASSUME serial PROVE Phase(o)'
        OBVIOUS
      <3>1. Phase(o)
        BY <1>1, SamePhase
      <3>2. /\ table[source[o]] # "none" \/ "delete" \in missed[o]
            /\ table[o] # "none"
            /\ op[o] = "move" => Unnamed(o)
        BY <1>2, <2>2, <3>1 DEF Phase
      <3>3. Unnamed(o)' <=> Unnamed(o)
        BY <1>1 DEF Unnamed
      <3> QED
        BY <1>1, <1>2, <1>3, <1>4, <2>2, <3>2, <3>3 DEF Phase
    <2> QED
      BY <2>1, <2>2
  <1>6. op[o] = "clean" => Unsound'
    BY <1>4 DEF Unsound, Sound
  <1> QED
    BY <1>1, <1>2, <1>4, <1>5, <1>6, KeepingStep

(* The source may be gone, and identities may name a target that is about  *)
(* to be deleted: the request has missed that.                             *)
LEMMA AnswerIsLostSInv ==
    ASSUME IInv, SInv, NEW o \in Requests, AnswerIsLost(o) PROVE SInv'
  <1>1. /\ Switching(o) /\ op[o] # "idle"
        /\ UNCHANGED <<serial, intake, source, from, to, table, identities>>
        /\ op[o] \in {"sync", "move"} => IsSwitch(o)
        /\ op[o] = "clean" => ~IsSwitch(o)
    BY DEF AnswerIsLost, Switching, Fixed, rows, accounts, IInv, RequestsKnow
  <1>2. PICK p \in Statements, s \in {"insert", "move", "delete"} :
            /\ OpGoto(o, p) /\ Misses(o, s)
            /\ \/ p = "ended" /\ op[o] \in {"move", "clean"}
               \/ p = "undo" /\ op[o] = "delete" /\ s = "move" /\ IsSwitch(o)
               \/ p = "revert" /\ op[o] = "sync" /\ s = "delete"
            /\ op[o] = "clean" => s = "delete"
    BY <1>1, LostAnswers DEF Statements
  <1>3. op'[o] = p /\ op' = [op EXCEPT ![o] = p] /\ p # "idle" /\ s \in Statements
    BY <1>2 DEF OpGoto, IInv, Typed, Statements
  <1>4. /\ missed' \in [Requests -> SUBSET Statements]
        /\ missed[o] \subseteq missed'[o] /\ s \in missed'[o]
        /\ \A q \in Requests \ {o} : missed'[q] = missed[q]
    BY <1>2, <1>3, MissedGrows
  <1>5. serial => Phase(o)' \/ ~Switching(o)'
    <2>1. CASE p = "ended"
      BY <1>3, <2>1 DEF Switching
    <2>2. CASE p # "ended"
      BY <1>1, <1>2, <1>3, <1>4, <2>2, SamePhase DEF Phase
    <2> QED
      BY <2>1, <2>2
  <1>6. op[o] = "clean" => Unsound'
    BY <1>2, <1>4 DEF Unsound, Sound
  <1> QED
    BY <1>1, <1>3, <1>4, <1>5, <1>6, KeepingStep

LEMMA RequestCrashesSInv ==
    ASSUME IInv, SInv, NEW o \in Requests, RequestCrashes(o) PROVE SInv'
  <1>1. /\ op' = [op EXCEPT ![o] = "crashed"] /\ Switching(o)
        /\ UNCHANGED <<serial, intake, source, from, to, table, identities, missed>>
        /\ "crashed" \in Statements \ {"idle"}
    BY DEF RequestCrashes, OpGoto, Fixed, rows, accounts, Noted, Statements
  <1>2. op'[o] = "crashed"
    BY <1>1 DEF IInv, Typed
  <1>3. ~Switching(o)'
    BY <1>2 DEF Switching
  <1>4. op[o] = "clean" => Unsound'
    BY <1>1, <1>2 DEF Unsound, Sound, IInv, RequestsKnow, IsSwitch
  <1> QED
    BY <1>1, <1>3, <1>4, MissedKept, KeepingStep

LEMMA SyncAuthRolesSInv ==
    ASSUME IInv, SInv, NEW o \in Requests, SyncAuthRoles(o) PROVE SInv'
  <1>1. /\ op' = [op EXCEPT ![o] = "ended"] /\ Switching(o) /\ op[o] # "clean"
        /\ UNCHANGED <<serial, intake, source, from, to, table, identities, missed>>
        /\ "ended" \in Statements \ {"idle"}
    BY DEF SyncAuthRoles, OpGoto, Switching, Fixed, rows, Noted, Statements
  <1>2. ~Switching(o)'
    BY <1>1 DEF Switching, IInv, Typed
  <1> QED
    BY <1>1, <1>2, MissedKept, KeepingStep

(* A step that writes rows or identities and misses nothing.               *)
LEMMA WritingStep ==
    ASSUME IInv, SInv, NEW o \in Requests, NEW p \in Statements \ {"idle", "clean", "crashed"},
           op' = [op EXCEPT ![o] = p], Switching(o), op[o] # "clean",
           UNCHANGED <<serial, intake, source, from, to, missed>>,
           \A e \in Entities : \/ table'[e] = table[e]
                               \/ e \in {o, source[o]} /\ table'[e] \in {"none", RoleOf(e)},
           \A x \in Externals :
               \/ identities'[x] = identities[x]
               \/ Fits(identities'[x]) /\ identities'[x].entity \in {o, source[o]},
           serial => Phase(o)' \/ ~Switching(o)',
           serial => \A x \in Externals :
               identities'[x] # NoLink /\ identities'[x].entity \in {o, source[o]}
               => Exists(identities[x])' \/ Unsound
    PROVE  SInv'
  <1>1. ASSUME serial, NEW x \in Externals, identities'[x] # NoLink
        PROVE  Exists(identities[x])' \/ Unsound'
    <2>1. Unsound => Unsound'
      BY MissedKept, StaysUnsound
    <2>2. CASE identities'[x].entity \in {o, source[o]}
      BY <1>1, <2>1, <2>2
    <2>3. CASE identities'[x].entity \notin {o, source[o]}
      <3>1. identities'[x] = identities[x]
        BY <2>3
      <3>2. /\ Exists(identities[x]) \/ Unsound
            /\ identities[x].entity \in Entities
        BY <1>1, <3>1, SerialLinks
      <3>3. table'[identities[x].entity] = table[identities[x].entity]
        BY <2>3, <3>1, <3>2
      <3> QED
        BY <1>1, <2>1, <3>1, <3>2, <3>3 DEF Exists
    <2> QED
      BY <2>2, <2>3
  <1>2. serial => \A x \in Externals :
            identities'[x] # NoLink =>
                Exists(identities[x])' \/ Unsound' \/ Cleaning(identities[x])'
    BY <1>1
  <1> QED
    BY <1>2, MissedKept, OwnerStep

LEMMA InsertTargetSInv ==
    ASSUME IInv, SInv, NEW o \in Requests, InsertTarget(o) PROVE SInv'
  <1>1. /\ op[o] = "insert" /\ op' = [op EXCEPT ![o] = "move"] /\ Switching(o)
        /\ UNCHANGED <<serial, intake, source, from, to, missed, identities>>
        /\ table' = [table EXCEPT ![o] = to[o]]
        /\ "move" \in Statements \ {"idle", "clean", "crashed"}
        /\ to[o] \in Roles
    BY DEF InsertTarget, OpGoto, Switching, Fixed, accounts, Noted, Statements,
           IInv, RequestsKnow, IsSwitch
  <1>2. /\ table'[o] = to[o] /\ to[o] # "none" /\ to[o] = RoleOf(o)
        /\ \A e \in Entities \ {o} : table'[e] = table[e]
        /\ op'[o] = "move" /\ source[o] # o /\ source[o] \in Entities
    BY <1>1, Names DEF IInv, Typed, SInv, IdleIsUnknown, RequestsKnow, RoleOf
  <1>3. serial => Phase(o)
    BY <1>1, SamePhase
  <1>4. serial => Phase(o)'
    BY <1>1, <1>2, <1>3 DEF Phase, Unnamed
  <1>5. ASSUME serial, NEW x \in Externals, identities'[x] # NoLink,
               identities'[x].entity \in {o, source[o]}
        PROVE  Exists(identities[x])' \/ Unsound
    <2>1. identities[x].entity # o
      BY <1>1, <1>3, <1>5 DEF Phase, Unnamed
    <2>2. Exists(identities[x]) \/ Unsound
      BY <1>1, <1>5, SerialLinks
    <2> QED
      BY <1>1, <1>2, <1>5, <2>1, <2>2 DEF Exists
  <1> QED
    BY <1>1, <1>2, <1>4, <1>5, WritingStep

LEMMA MoveIdentitiesSInv ==
    ASSUME IInv, SInv, NEW o \in Requests, MoveIdentities(o) PROVE SInv'
  <1> DEFINE old == Link(from[o], source[o])
             new == Link(to[o], o)
  <1>1. /\ op[o] = "move" /\ op' = [op EXCEPT ![o] = "delete"] /\ Switching(o)
        /\ UNCHANGED <<serial, intake, source, from, to, missed, table>>
        /\ Relink(old, new)
        /\ "delete" \in Statements \ {"idle", "clean", "crashed"}
        /\ source[o] \in Entities /\ from[o] \in Roles /\ to[o] \in Roles /\ o \in Entities
    BY Names DEF MoveIdentities, OpGoto, Switching, Fixed, rows, Noted, Statements,
           IInv, RequestsKnow, IsSwitch
  <1>2. /\ new.entity = o /\ new.role = to[o] /\ new # NoLink
        /\ old.entity = source[o] /\ source[o] # o
        /\ table[o] \in {"none", to[o]} /\ to[o] = RoleOf(o)
        /\ \A x \in Externals : identities[x].entity = source[o] => identities[x] = old
    BY <1>1, LinkFacts, IdentityFits, Names DEF SInv, IdleIsUnknown, RolesFit, RoleOf
  <1> HIDE DEF old, new
  <1>3. /\ \A x \in Externals :
              identities'[x] = IF identities[x] = old THEN new ELSE identities[x]
        /\ Fits(new)
    BY <1>1, <1>2 DEF Relink, Fits
  <1>4. /\ op'[o] = "delete" /\ (serial => Phase(o))
        /\ Unnamed(source[o])'
    <2>1. \A x \in Externals : identities'[x].entity # source[o]
      BY <1>2, <1>3
    <2> QED
      BY <1>1, <2>1, SamePhase DEF IInv, Typed, Unnamed
  <1>5. serial => Phase(o)'
    BY <1>1, <1>4 DEF Phase
  <1>6. ASSUME serial, NEW x \in Externals, identities'[x] # NoLink,
               identities'[x].entity \in {o, source[o]}
        PROVE  Exists(identities[x])' \/ Unsound
    <2>1. identities'[x] = new
      BY <1>1, <1>2, <1>3, <1>4, <1>6 DEF Phase, Unnamed
    <2>2. table[o] = to[o]
      BY <1>1, <1>2, <1>4, <1>6 DEF Phase
    <2> QED
      BY <1>1, <1>2, <2>1, <2>2 DEF Exists
  <1> QED
    BY <1>1, <1>2, <1>3, <1>5, <1>6, WritingStep

LEMMA RevertIdentitiesSInv ==
    ASSUME IInv, SInv, NEW o \in Requests, RevertIdentities(o) PROVE SInv'
  <1> DEFINE old == Link(to[o], o)
             new == Link(from[o], source[o])
  <1>1. /\ op[o] = "revert" /\ op' = [op EXCEPT ![o] = "undo"] /\ Switching(o)
        /\ UNCHANGED <<serial, intake, source, from, to, missed, table>>
        /\ Relink(old, new)
        /\ "undo" \in Statements \ {"idle", "clean", "crashed"}
        /\ source[o] \in Entities /\ from[o] \in Roles /\ to[o] \in Roles /\ o \in Entities
    BY Names DEF RevertIdentities, OpGoto, Switching, Fixed, rows, Noted, Statements,
           IInv, RequestsKnow, IsSwitch
  <1>2. /\ new.entity = source[o] /\ new.role = from[o] /\ new # NoLink
        /\ old.entity = o /\ source[o] # o
        /\ table[source[o]] \in {"none", from[o]} /\ from[o] = RoleOf(source[o])
        /\ \A x \in Externals : identities[x].entity = o => identities[x] = old
    BY <1>1, LinkFacts, IdentityFits, Names DEF SInv, IdleIsUnknown, RolesFit
  <1> HIDE DEF old, new
  <1>3. /\ \A x \in Externals :
              identities'[x] = IF identities[x] = old THEN new ELSE identities[x]
        /\ Fits(new)
    BY <1>1, <1>2 DEF Relink, Fits
  <1>4. /\ op'[o] = "undo" /\ (serial => Phase(o))
        /\ Unnamed(o)'
    <2>1. \A x \in Externals : identities'[x].entity # o
      BY <1>2, <1>3
    <2> QED
      BY <1>1, <2>1, SamePhase DEF IInv, Typed, Unnamed
  <1>5. serial => Phase(o)'
    BY <1>1, <1>4 DEF Phase
  <1>6. ASSUME serial, NEW x \in Externals, identities'[x] # NoLink,
               identities'[x].entity \in {o, source[o]}
        PROVE  Exists(identities[x])' \/ Unsound
    <2>1. identities'[x].entity = source[o]
      BY <1>4, <1>6 DEF Unnamed
    <2>2. "delete" \in missed[o] => Unsound
      BY DEF Unsound, Sound
    <2>3. table[source[o]] = from[o] \/ Unsound
      BY <1>1, <1>2, <1>4, <1>6, <2>2 DEF Phase
    <2>4. identities'[x].role = from[o]
      BY <1>2, <1>3, <1>6, <2>1, IdentityFits, <1>1, LinkFacts DEF new
    <2> QED
      BY <1>1, <1>6, <2>1, <2>3, <2>4 DEF Exists
  <1> QED
    BY <1>1, <1>2, <1>3, <1>5, <1>6, WritingStep

LEMMA DeleteSourceSInv ==
    ASSUME IInv, SInv, NEW o \in Requests, DeleteSource(o) PROVE SInv'
  <1>1. /\ op[o] = "delete" /\ Switching(o) /\ op[o] # "idle"
        /\ UNCHANGED <<serial, intake, source, from, to, missed, identities>>
        /\ table' = [table EXCEPT ![source[o]] = "none"]
        /\ source[o] \in Entities /\ source[o] # o /\ o \in Entities
    BY Names DEF DeleteSource, Switching, Fixed, accounts, Noted, IInv, RequestsKnow,
           SInv, IdleIsUnknown
  <1>2. /\ table'[source[o]] = "none"
        /\ \A e \in Entities \ {source[o]} : table'[e] = table[e]
    BY <1>1 DEF IInv, Typed
  <1>3. serial => Phase(o)
    BY <1>1, SamePhase
  <1>4. IsSwitch(o)' <=> IsSwitch(o)
    BY <1>1 DEF IsSwitch
  <1>5. CASE IsSwitch(o)
    <2>1. /\ op' = [op EXCEPT ![o] = "sync"] /\ op'[o] = "sync"
          /\ "sync" \in Statements \ {"idle", "clean", "crashed"}
      BY <1>5 DEF DeleteSource, OpGoto, Statements, IInv, Typed
    <2>2. serial => Phase(o)'
      BY <1>1, <1>2, <1>3, <1>5, <2>1 DEF Phase, Unnamed
    <2>3. ASSUME serial, NEW x \in Externals, identities'[x] # NoLink,
                 identities'[x].entity \in {o, source[o]}
          PROVE  Exists(identities[x])' \/ Unsound
      <3>1. identities[x].entity # source[o]
        BY <1>1, <1>3, <1>5, <2>3 DEF Phase, Unnamed
      <3>2. Exists(identities[x]) \/ Unsound
        BY <1>1, <2>3, SerialLinks
      <3> QED
        BY <1>1, <1>2, <2>3, <3>1, <3>2 DEF Exists
    <2> QED
      BY <1>1, <1>2, <2>1, <2>2, <2>3, WritingStep
  <1>6. CASE ~IsSwitch(o)
    <2>1. /\ op' = [op EXCEPT ![o] = "clean"] /\ op'[o] = "clean"
          /\ "clean" \in Statements \ {"idle"}
      BY <1>6 DEF DeleteSource, OpGoto, Statements, IInv, Typed
    <2>2. serial => Phase(o)'
      BY <2>1 DEF Phase
    <2>3. ASSUME serial, NEW x \in Externals, identities'[x] # NoLink
          PROVE  Exists(identities[x])' \/ Unsound' \/ Cleaning(identities[x])'
      <3>1. Unsound => Unsound'
        BY <1>1, <2>1, MissedKept, StaysUnsound
      <3>2. CASE identities[x].entity = source[o]
        <4>1. identities'[x] = Link(from'[o], source'[o])
          BY <1>1, <3>2, IdentityFits
        <4> QED
          BY <2>1, <4>1 DEF Cleaning
      <3>3. CASE identities[x].entity # source[o]
        <4>1. /\ Exists(identities[x]) \/ Unsound
              /\ identities[x].entity \in Entities
          BY <1>1, <2>3, SerialLinks
        <4>2. table'[identities[x].entity] = table[identities[x].entity]
          BY <1>2, <3>3, <4>1
        <4> QED
          BY <1>1, <3>1, <4>1, <4>2 DEF Exists
      <3> QED
        BY <3>2, <3>3
    <2>4. /\ \A e \in Entities : \/ table'[e] = table[e]
                                 \/ e \in {o, source[o]} /\ table'[e] \in {"none", RoleOf(e)}
          /\ \A x \in Externals : identities'[x] = identities[x]
      BY <1>1, <1>2
    <2> QED
      BY <1>1, <2>1, <2>2, <2>3, <2>4, MissedKept, OwnerStep
  <1> QED
    BY <1>5, <1>6

LEMMA DeleteTargetSInv ==
    ASSUME IInv, SInv, NEW o \in Requests, DeleteTarget(o) PROVE SInv'
  <1>1. /\ op[o] = "undo" /\ op' = [op EXCEPT ![o] = "ended"] /\ Switching(o)
        /\ UNCHANGED <<serial, intake, source, from, to, missed, identities>>
        /\ table' = [table EXCEPT ![o] = "none"]
        /\ "ended" \in Statements \ {"idle", "clean", "crashed"}
        /\ IsSwitch(o) /\ o \in Entities
    BY Names DEF DeleteTarget, OpGoto, Switching, Fixed, accounts, Noted, Statements,
           IInv, RequestsKnow
  <1>2. /\ table'[o] = "none"
        /\ \A e \in Entities \ {o} : table'[e] = table[e]
        /\ ~Switching(o)'
    BY <1>1 DEF IInv, Typed, Switching
  <1>3. serial => Phase(o)
    BY <1>1, SamePhase
  <1>4. ASSUME serial, NEW x \in Externals, identities'[x] # NoLink,
               identities'[x].entity \in {o, source[o]}
        PROVE  Exists(identities[x])' \/ Unsound
    <2>1. missed[o] \intersect {"move", "revert"} # {} => Unsound
      BY DEF Unsound, Sound
    <2>2. identities[x].entity # o \/ Unsound
      BY <1>1, <1>3, <1>4, <2>1 DEF Phase, Unnamed
    <2>3. Exists(identities[x]) \/ Unsound
      BY <1>1, <1>4, SerialLinks
    <2>4. identities[x].entity \in Entities
      BY <1>1, <1>4, SerialLinks
    <2> QED
      BY <1>1, <1>2, <1>4, <2>2, <2>3, <2>4 DEF Exists
  <1> QED
    BY <1>1, <1>2, <1>4, WritingStep

LEMMA CleanIdentitiesSInv ==
    ASSUME IInv, SInv, NEW o \in Requests, CleanIdentities(o) PROVE SInv'
  <1> DEFINE old == Link(from[o], source[o])
  <1>1. /\ op[o] = "clean" /\ op' = [op EXCEPT ![o] = "ended"] /\ Switching(o)
        /\ UNCHANGED <<serial, intake, source, from, to, missed, table>>
        /\ Relink(old, NoLink)
        /\ "ended" \in Statements \ {"idle"}
    BY DEF CleanIdentities, OpGoto, Switching, Fixed, rows, Noted, Statements
  <1>2. serial => \A k : Cleaning(k) => k = old
    BY <1>1 DEF Cleaning, SInv, OneByOne, Switching
  <1> HIDE DEF old
  <1>3. \A x \in Externals :
            identities'[x] = IF identities[x] = old THEN NoLink ELSE identities[x]
    BY <1>1 DEF Relink
  <1>4. ~Switching(o)'
    BY <1>1 DEF Switching, IInv, Typed
  <1>5. ASSUME serial, NEW x \in Externals, identities'[x] # NoLink
        PROVE  Exists(identities[x])' \/ Unsound' \/ Cleaning(identities[x])'
    <2>1. identities'[x] = identities[x] /\ identities[x] # old
      BY <1>3, <1>5
    <2>2. Exists(identities[x]) \/ Unsound
      BY <1>2, <1>5, <2>1 DEF SInv, LinksExist
    <2>3. Unsound => Unsound'
      BY <1>1, MissedKept, StaysUnsound
    <2> QED
      BY <1>1, <2>1, <2>2, <2>3 DEF Exists
  <1>6. /\ \A e \in Entities : table'[e] = table[e]
        /\ \A x \in Externals : identities'[x] = identities[x] \/ identities'[x] = NoLink
    BY <1>1, <1>3
  <1> QED
    BY <1>1, <1>4, <1>5, <1>6, MissedKept, OwnerStep

LEMMA StartRequestSInv ==
    ASSUME IInv, SInv, NEW o \in Requests, NEW e \in Entities, NEW target \in Targets,
           StartRequest(o, e, target)
    PROVE  SInv'
  <1>1. /\ op[o] = "idle" /\ table[o] = "none" /\ to[o] = "none" /\ missed[o] = {}
        /\ \A x \in Externals : identities[x].entity # o
        /\ \A m \in Messages : found[m].entity # o
        /\ \A q \in Requests : source[q] # o
        /\ table[e] # "none" /\ e # o /\ o \in Entities
        /\ serial => Quiet
        /\ UNCHANGED <<serial, table, identities, pc, found, missed>>
    BY Names DEF StartRequest, rows, accounts, intake, SInv, IdleIsUnknown
  <1>2. /\ op'[o] = "check" /\ source'[o] = e /\ from'[o] = table[e]
        /\ \A q \in Requests \ {o} :
              op'[q] = op[q] /\ source'[q] = source[q] /\ from'[q] = from[q] /\ to'[q] = to[q]
    BY DEF StartRequest, OpGoto, IInv, Typed
  <1>3. \A f : f # o => RoleOf(f)' = RoleOf(f)
    BY <1>2 DEF RoleOf
  <1>4. RolesFit'
    <2>1. \A f \in Entities : table'[f] \in {"none", RoleOf(f)'}
      BY <1>1, <1>3 DEF SInv, RolesFit
    <2>2. \A x \in Externals : Fits(identities[x])'
      BY <1>1, <1>3 DEF SInv, RolesFit, Fits
    <2>3. \A m \in Messages : Fits(found[m])'
      BY <1>1, <1>3 DEF SInv, RolesFit, Fits
    <2>4. \A q \in Requests : op'[q] # "idle" => from'[q] = RoleOf(source'[q])
      BY <1>1, <1>2 DEF SInv, RolesFit
    <2>5. \A q \in Requests : source'[q] # o
      BY <1>1, <1>2
    <2>6. \A q \in Requests : op'[q] # "idle" => from'[q] = RoleOf(source[q])'
      BY <1>2, <2>4, <2>5 DEF RoleOf
    <2> QED
      BY <2>1, <2>2, <2>3, <2>6 DEF RolesFit
  <1>5. IdleIsUnknown'
    <2>1. \A q \in Requests : source'[q] # q
      BY <1>1, <1>2 DEF SInv, IdleIsUnknown
    <2>2. \A q \in Requests : op'[q] = "idle" => q # o /\ op[q] = "idle" /\ q # e
      BY <1>1, <1>2 DEF SInv, IdleIsUnknown
    <2> QED
      BY <1>1, <1>2, <2>1, <2>2 DEF SInv, IdleIsUnknown
  <1>6. serial => /\ \A q \in Requests : ~Switching(q)
                  /\ \A m \in Messages : ~Resolving(m)
    BY <1>1, Names DEF Quiet
  <1>7. serial => \A q \in Requests \ {o} : ~Switching(q)'
    BY <1>2, <1>6 DEF Switching
  <1>8. OneByOne'
    BY <1>1, <1>6, <1>7 DEF OneByOne, Resolving
  <1>9. Phases'
    <2>1. Phase(o)'
      BY <1>1, <1>2 DEF Phase, Unnamed
    <2> QED
      BY <1>1, <1>7, <2>1 DEF Phases
  <1>10. LinksExist'
    <2>1. Unsound => Unsound'
      <3>1. Sound(o)
        BY <1>1, Names DEF Sound, IsSwitch
      <3>2. \A q \in Requests \ {o} : Sound(q)' <=> Sound(q)
        BY <1>1, <1>2 DEF Sound, IsSwitch
      <3> QED
        BY <3>1, <3>2 DEF Unsound
    <2>2. serial => \A q \in Requests : op[q] # "clean"
      BY <1>6 DEF Switching
    <2>3. \A k : Exists(k)' <=> Exists(k)
      BY <1>1 DEF Exists
    <2> QED
      BY <1>1, <2>1, <2>2, <2>3 DEF SInv, LinksExist, Cleaning, Exists
  <1> QED
    BY <1>1, <1>4, <1>5, <1>8, <1>9, <1>10 DEF SInv

LEMMA NextSInv == IInv /\ SInv /\ [Next]_vars => SInv'
  <1> SUFFICES ASSUME IInv, SInv, [Next]_vars PROVE SInv'
    OBVIOUS
  <1>1. CASE UNCHANGED vars \/ \E e \in Entities : AddDependent(e)
    <2>1. UNCHANGED <<serial, table, identities, pc, found, op, source, from, to, missed>>
      BY <1>1 DEF vars, AddDependent, rows, accounts, intake, requests
    <2>2. RolesFit' /\ IdleIsUnknown'
      BY <2>1 DEF SInv, RolesFit, Fits, RoleOf, IdleIsUnknown
    <2>3. OneByOne'
      BY <2>1 DEF SInv, OneByOne, Switching, Resolving
    <2>4. Phases'
      BY <2>1 DEF SInv, Phases, Phase, Switching, Unnamed, IsSwitch
    <2>5. LinksExist'
      BY <2>1 DEF SInv, LinksExist, Exists, Unsound, Sound, IsSwitch, Cleaning
    <2> QED
      BY <2>1, <2>2, <2>3, <2>4, <2>5 DEF SInv
  <1>2. ASSUME NEW m \in Messages, Resolve(m) PROVE SInv'
    BY <1>2, ArriveSInv, ReadUuidSInv, ReadMappingSInv, ReadProfileSInv, EnsureSInv,
       SilentSInv, StoreSInv DEF Resolve
  <1>3. ASSUME NEW o \in Requests, Administer(o) PROVE SInv'
    BY <1>3, StartRequestSInv, CheckDependentsSInv, InsertTargetSInv, MoveIdentitiesSInv,
       DeleteSourceSInv, RevertIdentitiesSInv, DeleteTargetSInv, SyncAuthRolesSInv,
       CleanIdentitiesSInv, StatementFailsSInv, AnswerIsLostSInv, RequestCrashesSInv
       DEF Administer
  <1> QED
    BY <1>1, <1>2, <1>3 DEF Next

-----------------------------------------------------------------------------
(* The inductive invariant holds in every reachable state.                 *)
THEOREM SerialInvariance == Spec => []SInv
  <1>1. IInv /\ SInv /\ [Next]_vars => SInv'
    BY NextSInv
  <1> QED
    BY <1>1, InitSInv, Invariance, PTL DEF Spec

(* A message that overlaps no request of the owner resolves to a row that  *)
(* exists in the table of the role it is given, unless a request has missed*)
(* what became of the identities.                                          *)
THEOREM ResolvedRowsExist == Spec => ResolvedExists
  <1>1. ASSUME IInv, SInv, Next, NEW m \in Messages,
               serial, pc[m] # "resolved", pc'[m] = "resolved",
               \A o \in Requests : Sound(o)
        PROVE  Exists(found[m])'
    <2>1. ~Unsound
      BY <1>1 DEF Unsound
    <2>2. Resolve(m)
      <3>1. ASSUME NEW n \in Messages \ {m}, Resolve(n) PROVE pc'[m] = pc[m]
        BY <3>1, <1>1 DEF IInv, Typed, Resolve, Arrive, ReadUuid, ReadMapping, ReadProfile,
                          Ensure, FlushCustomer, CreateUser, Store, IntakeFails, Find, Goto
      <3>2. ASSUME NEW o \in Requests, Administer(o) PROVE UNCHANGED pc
        BY <3>2 DEF Administer, StartRequest, CheckDependents, InsertTarget, MoveIdentities,
                    DeleteSource, RevertIdentities, DeleteTarget, SyncAuthRoles,
                    CleanIdentities, StatementFails, AnswerIsLost, RequestCrashes, Fixed, intake
      <3>3. ASSUME NEW e \in Entities, AddDependent(e) PROVE UNCHANGED pc
        BY <3>3 DEF AddDependent, intake
      <3> QED
        BY <1>1, <3>1, <3>2, <3>3 DEF Next
    <2>3. CASE ReadMapping(m)
      <3> DEFINE k == identities[Sought(m)]
      <3>1. Resolving(m) /\ k \in Links /\ Sought(m) \in Externals
        BY <2>3, <1>1, SoughtType DEF ReadMapping, Resolving, IInv, Typed
      <3>2. k # NoLink /\ found' = [found EXCEPT ![m] = Link(k.role, k.entity)]
        BY <1>1, <2>3 DEF ReadMapping, Find, Goto, IInv, Typed
      <3>3. Exists(k)
        BY <1>1, <2>1, <3>1, <3>2, SerialMapping
      <3>4. Link(k.role, k.entity) = k
        BY <3>1, <3>2, LinkFacts
      <3> HIDE DEF k
      <3>5. found'[m] = k
        BY <1>1, <3>2, <3>4 DEF IInv, Typed
      <3>6. table' = table
        BY <2>3 DEF ReadMapping, rows
      <3> QED
        BY <3>3, <3>5, <3>6 DEF Exists
    <2>4. CASE Ensure(m)
      <3>1. Exists(found[m])
        BY <1>1, <2>1, <2>4 DEF Ensure, SInv, LinksExist
      <3> QED
        BY <2>4, <3>1 DEF Exists, Ensure, rows
    <2>5. CASE Store(m)
      <3>1. found'[m] = Link("customer", m) /\ table'[m] = "customer"
        BY <1>1, <2>5, Names DEF Store, Find, IInv, Typed
      <3>2. Link("customer", m) # NoLink /\ Link("customer", m).entity = m
            /\ Link("customer", m).role = "customer"
        BY Names DEF Link, NoLink
      <3> QED
        BY <3>1, <3>2 DEF Exists
    <2>6. CASE \/ Arrive(m) \/ ReadUuid(m) \/ FlushCustomer(m)
               \/ CreateUser(m) \/ IntakeFails(m)
      BY <1>1, <2>6 DEF IInv, Typed, Arrive, ReadUuid, FlushCustomer, CreateUser,
                        IntakeFails, Find, Goto
    <2>7. CASE ReadProfile(m)
      <3>1. \/ pc[m] # "investor" /\ Goto(m, Following[pc[m]])
            \/ Goto(m, "link") \/ Goto(m, "mapping") \/ Goto(m, "create")
        BY <2>7 DEF ReadProfile, Find
      <3>2. pc[m] \in Roles \ {"investor"} => Following[pc[m]] # "resolved"
        BY DEF Following, Roles
      <3> QED
        BY <1>1, <2>7, <3>1, <3>2 DEF ReadProfile, Goto, IInv, Typed
    <2> QED
      BY <2>2, <2>3, <2>4, <2>5, <2>6, <2>7 DEF Resolve
  <1>2. IInv /\ SInv /\ [Next]_vars =>
            [\A m \in Messages :
                /\ serial /\ pc[m] # "resolved" /\ pc'[m] = "resolved"
                /\ \A o \in Requests : Sound(o)
                => Exists(found[m])']_vars
    BY <1>1
  <1>3. Spec => [][\A m \in Messages :
                      /\ serial /\ pc[m] # "resolved" /\ pc'[m] = "resolved"
                      /\ \A o \in Requests : Sound(o)
                      => Exists(found[m])']_vars
    BY <1>2, Invariance, SerialInvariance, PTL DEF Spec
  <1> QED
    BY <1>3 DEF ResolvedExists

(* A switch that has missed nothing has moved the stakeholder with all its *)
(* identities, or nothing, whichever of its statements failed.             *)
THEOREM SwitchesAreAtomic == Spec => SwitchIsAtomic
  <1> DEFINE Atomic ==
          \A o \in Requests :
              /\ serial /\ Switching(o) /\ op'[o] = "ended"
              /\ IsSwitch(o) /\ missed'[o] = {}
              => LET kept == IF op[o] = "sync" THEN o ELSE source[o]
                     gone == IF op[o] = "sync" THEN source[o] ELSE o
                 IN  /\ table'[kept] # "none"
                     /\ table'[gone] = "none"
                     /\ \A x \in Externals : identities'[x].entity # gone
  <1>1. ASSUME IInv, SInv, Next, NEW o \in Requests,
               serial, Switching(o), op'[o] = "ended", IsSwitch(o), missed'[o] = {}
        PROVE  LET kept == IF op[o] = "sync" THEN o ELSE source[o]
                   gone == IF op[o] = "sync" THEN source[o] ELSE o
               IN  /\ table'[kept] # "none"
                   /\ table'[gone] = "none"
                   /\ \A x \in Externals : identities'[x].entity # gone
    <2>1. Phase(o) /\ op[o] # "ended" /\ op[o] # "idle"
      BY <1>1, SamePhase DEF Switching
    <2>2. /\ source[o] \in Entities /\ source[o] # o /\ o \in Entities
      BY <1>1, <2>1, Names DEF IInv, RequestsKnow, SInv, IdleIsUnknown
    <2>3. Administer(o)
      <3>1. ASSUME NEW q \in Requests \ {o}, Administer(q) PROVE op'[o] = op[o]
        BY <3>1, <1>1 DEF IInv, Typed, Administer, StartRequest, CheckDependents, InsertTarget,
                    MoveIdentities, DeleteSource, RevertIdentities, DeleteTarget, SyncAuthRoles,
                    CleanIdentities, StatementFails, AnswerIsLost, RequestCrashes, OpGoto
      <3>2. ASSUME NEW m \in Messages, Resolve(m) PROVE UNCHANGED op
        BY <3>2 DEF Resolve, Arrive, ReadUuid, ReadMapping, ReadProfile, Ensure, FlushCustomer,
                    CreateUser, Store, IntakeFails, requests
      <3>3. ASSUME NEW e \in Entities, AddDependent(e) PROVE UNCHANGED op
        BY <3>3 DEF AddDependent, requests
      <3> QED
        BY <1>1, <2>1, <3>1, <3>2, <3>3 DEF Next
    <2>4. CASE CheckDependents(o)
      <3>1. op[o] = "check" /\ UNCHANGED <<table, identities>>
        BY <2>4 DEF CheckDependents, rows, accounts
      <3> QED
        BY <2>1, <3>1 DEF Phase, Unnamed
    <2>5. CASE SyncAuthRoles(o)
      <3>1. op[o] = "sync" /\ UNCHANGED <<table, identities>>
        BY <2>5 DEF SyncAuthRoles, rows
      <3> QED
        BY <2>1, <3>1 DEF Phase, Unnamed
    <2>6. CASE DeleteTarget(o)
      <3>1. /\ op[o] = "undo" /\ UNCHANGED <<identities, missed>>
            /\ table'[o] = "none" /\ table'[source[o]] = table[source[o]]
        BY <1>1, <2>2, <2>6 DEF DeleteTarget, accounts, Noted, IInv, Typed
      <3> QED
        BY <1>1, <2>1, <3>1 DEF Phase, Unnamed
    <2>7. CASE StatementFails(o)
      <3>1. /\ op'[o] = AfterError(o, op[o]) /\ UNCHANGED <<table, identities>>
            /\ op[o] \in {"check", "insert", "undo"}
        BY <1>1, <2>7 DEF StatementFails, OpGoto, rows, accounts, IInv, Typed, AfterError,
                          Unheeded, RequestsKnow
      <3>2. op[o] # "undo"
        BY <1>1, <2>7, MissedGrows DEF StatementFails, Unheeded, Statements
      <3> QED
        BY <2>1, <3>1, <3>2 DEF Phase, Unnamed
    <2>8. CASE CleanIdentities(o)
      BY <1>1, <2>8 DEF CleanIdentities, IInv, RequestsKnow
    <2>9. CASE \/ InsertTarget(o) \/ MoveIdentities(o) \/ DeleteSource(o)
               \/ RevertIdentities(o) \/ RequestCrashes(o)
               \/ \E e \in Entities, target \in Targets : StartRequest(o, e, target)
      BY <1>1, <2>9 DEF IInv, Typed, InsertTarget, MoveIdentities, DeleteSource,
                        RevertIdentities, RequestCrashes, StartRequest, OpGoto
    <2>10. CASE AnswerIsLost(o)
      <3>1. PICK s \in {"insert", "move", "delete"} : Misses(o, s)
        BY <1>1, <2>10, LostAnswers DEF IInv, RequestsKnow
      <3> QED
        BY <1>1, <3>1, MissedGrows DEF Statements
    <2> QED
      BY <2>3, <2>4, <2>5, <2>6, <2>7, <2>8, <2>9, <2>10 DEF Administer
  <1>2. IInv /\ SInv /\ [Next]_vars => [Atomic]_vars
    BY <1>1
  <1>3. Spec => [][Atomic]_vars
    BY <1>2, Invariance, SerialInvariance, PTL DEF Spec
  <1> QED
    BY <1>3 DEF SwitchIsAtomic

-----------------------------------------------------------------------------
(* Nobody is lost, also when the requests overlap.  A switch is complete   *)
(* once it has deleted its source; which ones are cannot be told from the  *)
(* state of a request that ended or crashed, so the invariant says that    *)
(* there is such a set.                                                    *)

(* Switches that have made their row and not yet deleted their source.     *)
InWork == {o \in Requests : IsSwitch(o) /\ op[o] \in {"move", "delete"}}

MayBeComplete(W) ==
    \A o \in W : IsSwitch(o) /\ op[o] \in {"sync", "ended", "crashed"}

Kept(S) == \/ \E e \in S : table[e] # "none"
           \/ \E o \in Requests :
                 source[o] \in S /\ (~IsSwitch(o) \/ "delete" \in missed[o])

(* Whoever follows only the completed switches from a stakeholder, or from *)
(* a row some switch relies on, finds a row, or a deletion.                *)
Traced(W) ==
    \A S \in SUBSET (Known \union Requests) :
        /\ \A o \in W : source[o] \in S => o \in S
        /\ S \intersect (Known \union W \union InWork) # {}
        => Kept(S)

(* No row is switched back to one it came from.                            *)
Acyclic ==
    \A o \in Requests : IsSwitch(o) =>
        \E T \in SUBSET Requests : o \in T /\ source[o] \notin T /\ Heirs(T)

LInv == Acyclic /\ \E W \in SUBSET Requests : MayBeComplete(W) /\ Traced(W)

(* The invariant holds before the first message and the first request.     *)
LEMMA InitLInv == Init => LInv
  <1> SUFFICES ASSUME Init PROVE LInv
    OBVIOUS
  <1>1. \A o \in Requests : ~IsSwitch(o)
    BY Names DEF Init, IsSwitch
  <1>2. Acyclic
    BY <1>1 DEF Acyclic
  <1>3. InWork = {} /\ MayBeComplete({})
    BY <1>1 DEF InWork, MayBeComplete
  <1>4. \A k \in Known : table[k] # "none"
    BY Names DEF Init
  <1>5. Traced({})
    BY <1>3, <1>4 DEF Traced, Kept
  <1> QED
    BY <1>2, <1>3, <1>5 DEF LInv

(* Steps that delete no row and start no request.                          *)
LEMMA GrowingStep ==
    ASSUME LInv, UNCHANGED <<source, to>>,
           \A o \in Requests : missed[o] \subseteq missed'[o],
           \A e \in Known \union Requests : table[e] # "none" => table'[e] # "none",
           \A o \in Requests : op[o] \in {"sync", "ended", "crashed"} =>
               op'[o] \in {"sync", "ended", "crashed"},
           \A o \in Requests : IsSwitch(o) /\ op'[o] \in {"move", "delete"} =>
               op[o] \in {"move", "delete"} \/ table'[o] # "none"
    PROVE  LInv'
  <1>1. \A o \in Requests : IsSwitch(o)' <=> IsSwitch(o)
    BY DEF IsSwitch
  <1>2. Acyclic'
    BY <1>1 DEF LInv, Acyclic, Heirs
  <1>3. PICK W \in SUBSET Requests : MayBeComplete(W) /\ Traced(W)
    BY DEF LInv
  <1>4. MayBeComplete(W)'
    BY <1>1, <1>3 DEF MayBeComplete
  <1>5. Traced(W)'
    <2> SUFFICES ASSUME NEW S \in SUBSET (Known \union Requests),
                        \A o \in W : source[o] \in S => o \in S,
                        NEW e \in S, e \in Known \union W \union InWork'
                 PROVE  Kept(S)'
      BY DEF Traced
    <2>1. CASE e \in Known \union W \union InWork
      BY <1>1, <1>3, <2>1 DEF Traced, Kept
    <2>2. CASE e \in InWork' \ InWork
      BY <1>1, <2>2 DEF InWork, Kept
    <2> QED
      BY <2>1, <2>2
  <1> QED
    BY <1>2, <1>4, <1>5 DEF LInv

(* A row is deleted: what the switches that rely on it came to stays.      *)
LEMMA DeleteSourceLInv ==
    ASSUME IInv, SInv, LInv, NEW o \in Requests, DeleteSource(o)
    PROVE  LInv'
  <1>1. /\ UNCHANGED <<source, to, missed>>
        /\ op[o] = "delete" /\ op' = [op EXCEPT ![o] = IF IsSwitch(o) THEN "sync" ELSE "clean"]
        /\ table' = [table EXCEPT ![source[o]] = "none"]
        /\ \A p \in Requests : IsSwitch(p)' <=> IsSwitch(p)
    BY DEF DeleteSource, OpGoto, Fixed, Noted, IsSwitch
  <1>2. op \in [Requests -> Statements] /\ table \in [Entities -> Roles \union {"none"}]
    BY DEF IInv, Typed
  <1>3. \A e \in Entities \ {source[o]} : table'[e] = table[e]
    BY <1>1, <1>2
  <1>4. Acyclic'
    BY <1>1 DEF LInv, Acyclic, Heirs
  <1>5. PICK W \in SUBSET Requests : MayBeComplete(W) /\ Traced(W)
    BY DEF LInv
  <1>6. InWork' = InWork \ {o}
    BY <1>1, <1>2 DEF InWork
  <1>7. CASE IsSwitch(o)
    <2> DEFINE V == W \union {o}
    <2>1. MayBeComplete(V)'
      BY <1>1, <1>2, <1>5, <1>7 DEF MayBeComplete
    <2>2. Traced(V)'
      <3> SUFFICES ASSUME NEW S \in SUBSET (Known \union Requests),
                          \A p \in V : source[p] \in S => p \in S,
                          S \intersect (Known \union V \union InWork) # {}
                   PROVE  Kept(S)'
        BY <1>1, <1>6 DEF Traced
      <3>1. o \in InWork
        BY <1>1, <1>7 DEF InWork
      <3>2. CASE source[o] \notin S
        <4>1. Kept(S)
          BY <1>5, <3>1 DEF Traced
        <4> QED
          BY <1>1, <1>3, <3>2, <4>1, Names DEF Kept
      <3>3. CASE source[o] \in S
        <4>1. PICK T \in SUBSET Requests : o \in T /\ source[o] \notin T /\ Heirs(T)
          BY <1>7 DEF LInv, Acyclic
        <4> DEFINE R == S \intersect T
        <4>2. \A p \in W : source[p] \in R => p \in R
          BY <1>5, <4>1 DEF MayBeComplete, Heirs
        <4>3. o \in R
          BY <3>3, <4>1
        <4>4. Kept(R)
          BY <1>5, <3>1, <4>2, <4>3 DEF Traced
        <4> QED
          BY <1>1, <1>3, <4>1, <4>4, Names DEF Kept
      <3> QED
        BY <3>2, <3>3
    <2> QED
      BY <1>4, <2>1, <2>2 DEF LInv
  <1>8. CASE ~IsSwitch(o)
    <2>1. MayBeComplete(W)'
      BY <1>1, <1>2, <1>5 DEF MayBeComplete
    <2>2. Traced(W)'
      <3> SUFFICES ASSUME NEW S \in SUBSET (Known \union Requests),
                          \A p \in W : source[p] \in S => p \in S,
                          S \intersect (Known \union W \union InWork) # {}
                   PROVE  Kept(S)'
        BY <1>1, <1>6 DEF Traced
      <3>1. CASE source[o] \in S
        BY <1>1, <1>8, <3>1 DEF Kept
      <3>2. CASE source[o] \notin S
        <4>1. Kept(S)
          BY <1>5 DEF Traced
        <4> QED
          BY <1>1, <1>3, <3>2, <4>1, Names DEF Kept
      <3> QED
        BY <3>1, <3>2
    <2> QED
      BY <1>4, <2>1, <2>2 DEF LInv
  <1> QED
    BY <1>7, <1>8

(* An undone switch is not complete, and nobody relies on its row.         *)
LEMMA DeleteTargetLInv ==
    ASSUME IInv, SInv, LInv, NEW o \in Requests, DeleteTarget(o)
    PROVE  LInv'
  <1>1. /\ UNCHANGED <<source, to, missed>>
        /\ op[o] = "undo" /\ op' = [op EXCEPT ![o] = "ended"]
        /\ table' = [table EXCEPT ![o] = "none"]
        /\ \A p \in Requests : IsSwitch(p)' <=> IsSwitch(p)
    BY DEF DeleteTarget, OpGoto, Fixed, Noted, IsSwitch
  <1>2. op \in [Requests -> Statements] /\ table \in [Entities -> Roles \union {"none"}]
    BY DEF IInv, Typed
  <1>3. \A e \in Entities \ {o} : table'[e] = table[e]
    BY <1>1, <1>2
  <1>4. Acyclic'
    BY <1>1 DEF LInv, Acyclic, Heirs
  <1>5. PICK W \in SUBSET Requests : MayBeComplete(W) /\ Traced(W)
    BY DEF LInv
  <1>6. InWork' = InWork /\ o \notin InWork /\ o \notin W
    BY <1>1, <1>2, <1>5 DEF InWork, MayBeComplete
  <1>7. MayBeComplete(W)'
    BY <1>1, <1>2, <1>5 DEF MayBeComplete
  <1>8. Traced(W)'
    <2> SUFFICES ASSUME NEW S \in SUBSET (Known \union Requests),
                        \A p \in W : source[p] \in S => p \in S,
                        S \intersect (Known \union W \union InWork) # {}
                 PROVE  Kept(S)'
      BY <1>1, <1>6 DEF Traced
    <2> DEFINE R == S \ {o}
    <2>1. \A p \in W : source[p] \in R => p \in R
      BY <1>6
    <2>2. R \intersect (Known \union W \union InWork) # {}
      BY <1>6, Names
    <2>3. Kept(R)
      BY <1>5, <2>1, <2>2 DEF Traced
    <2> QED
      BY <1>1, <1>3, <2>3, Names DEF Kept
  <1> QED
    BY <1>4, <1>7, <1>8 DEF LInv

(* A switch is not told that it has deleted its source: it is not complete,*)
(* and its stakeholder may lose its row.                                   *)
LEMMA AnswerIsLostLInv ==
    ASSUME IInv, SInv, LInv, NEW o \in Requests, AnswerIsLost(o)
    PROVE  LInv'
  <1>1. /\ UNCHANGED <<source, to, table>>
        /\ \A p \in Requests : IsSwitch(p)' <=> IsSwitch(p)
        /\ op[o] \in {"sync", "move"} => IsSwitch(o)
        /\ op[o] = "clean" => ~IsSwitch(o)
        /\ op \in [Requests -> Statements]
    BY DEF AnswerIsLost, Fixed, rows, IsSwitch, IInv, Typed, RequestsKnow
  <1>2. PICK p \in {"ended", "undo", "revert"}, s \in {"insert", "move", "delete"} :
            /\ op' = [op EXCEPT ![o] = p] /\ Misses(o, s)
            /\ op[o] = "sync" => s = "delete"
            /\ op[o] \in {"move", "delete", "sync", "clean"}
    BY <1>1, LostAnswers DEF OpGoto
  <1>3. \A q \in Requests : missed[q] \subseteq missed'[q]
    <2>1. s \in Statements
      BY DEF Statements
    <2> QED
      BY <1>2, <2>1, MissedGrows
  <1>4. CASE op[o] # "sync"
    BY <1>1, <1>2, <1>3, <1>4, GrowingStep
  <1>5. CASE op[o] = "sync"
    <2>1. "delete" \in missed'[o]
      BY <1>2, <1>5, MissedGrows DEF Statements
    <2>2. Acyclic'
      BY <1>1 DEF LInv, Acyclic, Heirs
    <2>3. PICK W \in SUBSET Requests : MayBeComplete(W) /\ Traced(W)
      BY DEF LInv
    <2> DEFINE V == W \ {o}
    <2>4. MayBeComplete(V)'
      BY <1>1, <1>2, <2>3 DEF MayBeComplete
    <2>5. InWork' = InWork
      BY <1>1, <1>2, <1>5 DEF InWork
    <2>6. Traced(V)'
      <3> SUFFICES ASSUME NEW S \in SUBSET (Known \union Requests),
                          \A q \in V : source[q] \in S => q \in S,
                          S \intersect (Known \union V \union InWork) # {}
                   PROVE  Kept(S)'
        BY <1>1, <2>5 DEF Traced
      <3>1. CASE source[o] \in S
        BY <1>1, <2>1, <3>1 DEF Kept
      <3>2. CASE source[o] \notin S
        <4>1. Kept(S)
          BY <2>3, <3>2 DEF Traced
        <4> QED
          BY <1>1, <1>3, <4>1 DEF Kept
      <3> QED
        BY <3>1, <3>2
    <2> QED
      BY <2>2, <2>4, <2>6 DEF LInv
  <1> QED
    BY <1>4, <1>5

(* A request starts on a row that is there; its own row is nobody's source.*)
LEMMA StartRequestLInv ==
    ASSUME IInv, SInv, LInv, NEW o \in Requests, NEW e \in Entities, NEW target \in Targets,
           StartRequest(o, e, target)
    PROVE  LInv'
  <1>1. /\ UNCHANGED <<table, missed>>
        /\ op[o] = "idle" /\ op' = [op EXCEPT ![o] = "check"]
        /\ source' = [source EXCEPT ![o] = e] /\ to' = [to EXCEPT ![o] = target]
    BY DEF StartRequest, OpGoto, rows
  <1>2. /\ op \in [Requests -> Statements]
        /\ source \in [Requests -> Entities \union {"none"}]
        /\ to \in [Requests -> Roles \union {"none"}]
    BY DEF IInv, Typed
  <1>3. /\ \A p \in Requests \ {o} : source'[p] = source[p] /\ (IsSwitch(p)' <=> IsSwitch(p))
        /\ source'[o] = e
    BY <1>1, <1>2 DEF IsSwitch
  <1>4. table[e] # "none" /\ table[o] = "none"
    BY <1>1 DEF StartRequest, SInv, IdleIsUnknown
  <1>5. source[o] = "none" /\ ~IsSwitch(o) /\ \A p \in Requests : source[p] # o
    BY <1>1, Names DEF IInv, RequestsKnow, SInv, IdleIsUnknown, IsSwitch
  <1>6. Acyclic'
    <2> SUFFICES ASSUME NEW p \in Requests, IsSwitch(p)'
                 PROVE  \E T \in SUBSET Requests : p \in T /\ source'[p] \notin T /\ Heirs(T)'
      BY DEF Acyclic
    <2>1. CASE p = o
      <3>1. Heirs({o})'
        BY <1>3, <1>4, <1>5 DEF Heirs
      <3> QED
        BY <1>3, <1>4, <2>1, <3>1
    <2>2. CASE p # o
      <3>1. PICK T \in SUBSET Requests : p \in T /\ source[p] \notin T /\ Heirs(T)
        BY <1>3, <2>2 DEF LInv, Acyclic
      <3> DEFINE U == T \union {o}
      <3>2. Heirs(U)'
        BY <1>3, <1>5, <3>1 DEF Heirs
      <3>3. p \in U /\ source'[p] \notin U
        BY <1>3, <1>5, <2>2, <3>1
      <3> QED
        BY <3>2, <3>3
    <2> QED
      BY <2>1, <2>2
  <1>7. PICK W \in SUBSET Requests : MayBeComplete(W) /\ Traced(W)
    BY DEF LInv
  <1>8. o \notin W
    BY <1>1, <1>7 DEF MayBeComplete
  <1>9. MayBeComplete(W)'
    BY <1>1, <1>2, <1>3, <1>7, <1>8 DEF MayBeComplete
  <1>10. InWork' = InWork
    BY <1>1, <1>2, <1>3 DEF InWork
  <1>11. Traced(W)'
    <2> SUFFICES ASSUME NEW S \in SUBSET (Known \union Requests),
                        \A p \in W : source'[p] \in S => p \in S,
                        S \intersect (Known \union W \union InWork) # {}
                 PROVE  Kept(S)'
      BY <1>10 DEF Traced
    <2>1. Kept(S)
      BY <1>3, <1>7, <1>8 DEF Traced
    <2>2. ~(source[o] \in S)
      BY <1>5, Names
    <2> QED
      BY <1>1, <1>3, <2>1, <2>2 DEF Kept
  <1> QED
    BY <1>6, <1>7, <1>9, <1>11 DEF LInv

(* Every step preserves it.                                                *)
LEMMA NextLInv == IInv /\ SInv /\ LInv /\ [Next]_vars => LInv'
  <1> SUFFICES ASSUME IInv, SInv, LInv, [Next]_vars PROVE LInv'
    OBVIOUS
  <1>0. op \in [Requests -> Statements] /\ table \in [Entities -> Roles \union {"none"}]
    BY DEF IInv, Typed
  <1>1. CASE UNCHANGED vars \/ \E e \in Entities : AddDependent(e)
    <2>1. UNCHANGED <<table, op, source, to, missed>>
      BY <1>1 DEF vars, AddDependent, rows, requests
    <2> QED
      BY <2>1, GrowingStep
  <1>2. ASSUME NEW m \in Messages, Resolve(m) PROVE LInv'
    <2>1. UNCHANGED <<op, source, to, missed>>
      BY <1>2 DEF Resolve, Arrive, ReadUuid, ReadMapping, ReadProfile, Ensure, FlushCustomer,
         CreateUser, Store, IntakeFails, requests
    <2>2. UNCHANGED table \/ table' = [table EXCEPT ![m] = "customer"]
      BY <1>2 DEF Resolve, Arrive, ReadUuid, ReadMapping, ReadProfile, Ensure, FlushCustomer,
         CreateUser, Store, IntakeFails, rows
    <2>3. \A e \in Known \union Requests : table'[e] = table[e]
      BY <1>0, <2>2, Names
    <2> QED
      BY <2>1, <2>3, GrowingStep
  <1>3. ASSUME NEW o \in Requests, InsertTarget(o) PROVE LInv'
    <2>1. /\ UNCHANGED <<source, to, missed>> /\ op[o] = "insert"
          /\ op' = [op EXCEPT ![o] = "move"] /\ table' = [table EXCEPT ![o] = to[o]]
      BY <1>3 DEF InsertTarget, OpGoto, Fixed, Noted
    <2>2. to[o] # "none"
      BY <2>1, Names DEF IInv, RequestsKnow, IsSwitch
    <2>3. \A e \in Known \union Requests : table[e] # "none" => table'[e] # "none"
      BY <1>0, <2>1, <2>2, Names
    <2>4. table'[o] # "none"
      BY <1>0, <2>1, <2>2, Names
    <2> QED
      BY <1>0, <2>1, <2>3, <2>4, GrowingStep
  <1>4. ASSUME NEW o \in Requests, UNCHANGED <<table, source, to>>, NEW s,
               \A q \in Requests : missed[q] \subseteq missed'[q],
               op' = [op EXCEPT ![o] = s],
               op[o] \in {"sync", "ended", "crashed"} => s \in {"sync", "ended", "crashed"},
               IsSwitch(o) /\ s \in {"move", "delete"} => op[o] \in {"move", "delete"}
        PROVE  LInv'
    BY <1>0, <1>4, GrowingStep
  <1>5. ASSUME NEW o \in Requests,
               \/ CheckDependents(o) \/ MoveIdentities(o) \/ RevertIdentities(o)
               \/ SyncAuthRoles(o) \/ CleanIdentities(o) \/ StatementFails(o)
               \/ RequestCrashes(o)
        PROVE  LInv'
    <2>1. UNCHANGED <<table, source, to>>
      BY <1>5 DEF CheckDependents, MoveIdentities, RevertIdentities, SyncAuthRoles,
         CleanIdentities, StatementFails, RequestCrashes, rows, Fixed
    <2>2. CASE CheckDependents(o)
      BY <1>4, <2>1, <2>2 DEF CheckDependents, OpGoto, Noted
    <2>3. CASE MoveIdentities(o)
      BY <1>4, <2>1, <2>3 DEF MoveIdentities, OpGoto, Noted
    <2>4. CASE RevertIdentities(o) \/ SyncAuthRoles(o) \/ CleanIdentities(o)
      BY <1>4, <2>1, <2>4 DEF RevertIdentities, SyncAuthRoles, CleanIdentities, OpGoto, Noted
    <2>5. CASE StatementFails(o)
      <3>1. \A q \in Requests : missed[q] \subseteq missed'[q]
        BY <2>5, MissedGrows DEF StatementFails, Noted, Unheeded, Statements
      <3> QED
        BY <1>4, <2>1, <2>5, <3>1 DEF StatementFails, OpGoto, AfterError, Unheeded
    <2>6. CASE RequestCrashes(o)
      BY <1>4, <2>1, <2>6 DEF RequestCrashes, OpGoto, Switching, Noted
    <2> QED
      BY <1>5, <2>2, <2>3, <2>4, <2>5, <2>6
  <1>6. ASSUME NEW o \in Requests, Administer(o) PROVE LInv'
    BY <1>3, <1>5, <1>6, StartRequestLInv, DeleteSourceLInv, DeleteTargetLInv,
       AnswerIsLostLInv DEF Administer
  <1> QED
    BY <1>1, <1>2, <1>6 DEF Next

(* The inductive invariant of overlapping requests.                        *)
THEOREM OverlapInvariance == Spec => []LInv
  <1>1. IInv /\ SInv /\ LInv /\ [Next]_vars => LInv'
    BY NextLInv
  <1> QED
    BY <1>1, InitLInv, Invariance, SerialInvariance, PTL DEF Spec

(* A stakeholder nobody deletes keeps a row, through any number of         *)
(* switches, overlapping, failing and crashing in any way, as long as each *)
(* is told of the rows it deletes.                                         *)
THEOREM StakeholdersKeepARow == Spec => []NobodyIsLost
  <1>1. LInv => NobodyIsLost
    <2> SUFFICES ASSUME LInv, NEW S \in SUBSET (Known \union Requests), Heirs(S),
                        S \intersect Known # {}
                 PROVE  Kept(S)
      BY DEF NobodyIsLost, Kept
    <2>1. PICK W \in SUBSET Requests : MayBeComplete(W) /\ Traced(W)
      BY DEF LInv
    <2>2. \A o \in W : source[o] \in S => o \in S
      BY <2>1 DEF MayBeComplete, Heirs
    <2> QED
      BY <2>1, <2>2 DEF Traced
  <1> QED
    BY <1>1, OverlapInvariance, PTL
=============================================================================
