------------------------------ MODULE Identity ------------------------------
(***************************************************************************)
(* Who a sender is.  The role tables (customers, suppliers, partners,      *)
(* investors) hold the stakeholders; external_identities maps an external  *)
(* id to a role and a row.  Messages resolve their sender, and create a    *)
(* customer when they find none (services/identity_resolution.py); the     *)
(* owner moves stakeholders between the tables or deletes them             *)
(* (frontend, api/roles), one database request after the other, without a  *)
(* transaction around them and without a foreign key from the identities.  *)
(*                                                                         *)
(* Every SELECT is an action, and so is every COMMIT with the rows it      *)
(* writes.  One owner; the external ids are normalised.                    *)
(***************************************************************************)
EXTENDS Naturals, Sequences, FiniteSets

CONSTANTS
    Externals,  \* normalised external ids
    Kind,       \* what _detect_external_type makes of each
    Owners,     \* those that identify the owner
    Known,      \* stakeholders of the initial state, all of them customers ...
    Profile,    \* ... and the external ids in the columns of each
    Messages,   \* inbound messages; the customer one creates has its name
    Contacts,   \* whom the messages may be from: sender, its username and phone
    Requests,   \* requests of the owner; the row a switch creates has its name
    Targets,    \* roles the owner switches to, "none" for deleting
    MaxDependents  \* bound of the model

Roles == {"customer", "supplier", "partner", "investor"}
Kinds == {"telegram_id", "email", "username", "phone"}
Entities == Known \union Messages \union Requests

NoLink == [role |-> "none", entity |-> "none"]
Links == [role : Roles, entity : Entities] \union {NoLink}
Link(r, e) == [role |-> r, entity |-> e]

ASSUME IdentityAssumption ==
    /\ Kind \in [Externals -> Kinds]
    /\ Owners \subseteq Externals
    /\ Profile \in [Known -> SUBSET Externals]
    /\ Contacts \subseteq [Messages -> [sender : Externals, aliases : Seq(Externals)]]
    /\ MaxDependents \in Nat
    /\ Known \intersect Messages = {} /\ Known \intersect Requests = {}
    /\ Messages \intersect Requests = {} /\ "none" \notin Entities
    /\ Targets \subseteq Roles \union {"none"}

VARIABLES
    serial,      \* no two messages or requests overlap; never changes
    table,       \* the table an entity has a row in, or "none"
    columns,     \* external ids in its phone, email and telegram columns
    dependents,  \* entities that orders, contracts or agreements refer to
    identities,  \* the row of external_identities of each external id
    users,       \* role in the metadata of the Supabase Auth user, or "none"
    linked,      \* external ids whose identity_metadata names that user
    contact,     \* whom each message is from
    pc, at,      \* step of each message; which of its aliases it looks up
    found,       \* what it has resolved to
    madeUser,    \* messages that created an Auth user
    op, source, from, to,   \* step, entity and roles of each owner request
    missed       \* statements whose outcome it has not taken note of

rows     == <<table, columns, dependents>>
accounts == <<identities, users, linked>>
intake   == <<contact, pc, at, found, madeUser>>
requests == <<op, source, from, to, missed>>
vars     == <<serial, rows, accounts, intake, requests>>

Init ==
    /\ serial \in BOOLEAN
    /\ table = [e \in Entities |-> IF e \in Known THEN "customer" ELSE "none"]
    /\ columns = [e \in Entities |-> IF e \in Known THEN Profile[e] ELSE {}]
    /\ dependents = {}
    /\ identities = [x \in Externals |-> NoLink]
    /\ users = [x \in Externals |-> "none"]
    /\ linked = {}
    /\ contact \in Contacts
    /\ pc = [m \in Messages |-> "new"]
    /\ at = [m \in Messages |-> 0]
    /\ found = [m \in Messages |-> NoLink]
    /\ madeUser = {}
    /\ op = [o \in Requests |-> "idle"]
    /\ source = [o \in Requests |-> "none"]
    /\ from = [o \in Requests |-> "none"]
    /\ to = [o \in Requests |-> "none"]
    /\ missed = [o \in Requests |-> {}]

Sender(m) == contact[m].sender
Aliases(m) == contact[m].aliases

Resolving(m) == pc[m] \notin {"new", "owner", "resolved", "fallback"}
Switching(o) == op[o] \notin {"idle", "ended", "crashed"}
Quiet == ~\E p \in Messages \union Requests :
              IF p \in Messages THEN Resolving(p) ELSE Switching(p)

Goto(m, p) == pc' = [pc EXCEPT ![m] = p]

-----------------------------------------------------------------------------
(* resolve_or_create_sender.                                               *)

(* An external id that is the UUID of a row is looked up as one first.     *)
Arrive(m) ==
    /\ pc[m] = "new"
    /\ serial => Quiet
    /\ Goto(m, IF Sender(m) \in Owners THEN "owner"
               ELSE IF Sender(m) \in Entities THEN "uuid" ELSE "mapping")
    /\ UNCHANGED <<serial, rows, accounts, contact, at, found, madeUser, requests>>

Find(m, r, e, p) ==
    /\ found' = [found EXCEPT ![m] = Link(r, e)]
    /\ Goto(m, p)

ReadUuid(m) ==
    /\ pc[m] = "uuid"
    /\ \/ /\ table[Sender(m)] # "none"
          /\ Find(m, table[Sender(m)], Sender(m), "link")
       \/ /\ table[Sender(m)] = "none"
          /\ Goto(m, "mapping") /\ UNCHANGED found
    /\ UNCHANGED <<serial, rows, accounts, contact, at, madeUser, requests>>

(* The external id a message looks up: its sender, then its aliases.       *)
Sought(m) == IF at[m] = 0 THEN Sender(m) ELSE Aliases(m)[at[m]]

(* The row an identity names is not read.                                  *)
ReadMapping(m) ==
    /\ pc[m] = "mapping"
    /\ LET link == identities[Sought(m)] IN
       \/ /\ link # NoLink
          /\ Find(m, link.role, link.entity,
                  IF at[m] = 0 THEN "resolved" ELSE "link")
       \/ /\ link = NoLink
          /\ Goto(m, "customer") /\ UNCHANGED found
    /\ UNCHANGED <<serial, rows, accounts, contact, at, madeUser, requests>>

(* A message that searches a table for its profile is at the step named    *)
(* after the role: one SELECT for each table that has the column.  Only    *)
(* customers have a telegram_username, and no lookup goes by telegram id.  *)
Following == [customer |-> "supplier", supplier |-> "partner", partner |-> "investor"]

InAllTables(x) == Kind[x] \in {"phone", "email"}

Matches(x, r) ==
    {e \in Entities : /\ table[e] = r
                      /\ x \in columns[e]
                      /\ InAllTables(x) \/ (Kind[x] = "username" /\ r = "customer")}

ReadProfile(m) ==
    /\ pc[m] \in Roles
    /\ LET x == Sought(m)
           hits == Matches(x, pc[m])
           more == InAllTables(x) /\ pc[m] # "investor"
           rest == at[m] < Len(Aliases(m))
       IN
       \/ /\ \E e \in hits : Find(m, pc[m], e, "link")
          /\ UNCHANGED at
       \/ /\ hits = {} /\ more
          /\ Goto(m, Following[pc[m]]) /\ UNCHANGED <<at, found>>
       \/ /\ hits = {} /\ ~more /\ rest
          /\ at' = [at EXCEPT ![m] = @ + 1]
          /\ Goto(m, "mapping") /\ UNCHANGED found
       \/ /\ hits = {} /\ ~more /\ ~rest
          /\ Goto(m, "create") /\ UNCHANGED <<at, found>>
    /\ UNCHANGED <<serial, rows, accounts, contact, madeUser, requests>>

(* _ensure_external_identity leaves a mapping that is there as it is, and  *)
(* the message goes on with what it had found.                             *)
Ensure(m) ==
    /\ pc[m] = "link"
    /\ identities' = [identities EXCEPT ![Sender(m)] =
                         IF @ = NoLink THEN found[m] ELSE @]
    /\ Goto(m, "resolved")
    /\ UNCHANGED <<serial, rows, users, linked, contact, at, found, madeUser, requests>>

(* The unique index on telegram_user_id makes an INSERT wait for another   *)
(* one that is not committed, and fail after one that is.                  *)
IsTelegram(m) == Kind[Sender(m)] = "telegram_id"

FlushCustomer(m) ==
    /\ pc[m] = "create"
    /\ IsTelegram(m) =>
         /\ \A n \in Messages : Sender(n) = Sender(m) => pc[n] \notin {"user", "store"}
         /\ \A e \in Entities : table[e] = "customer" => Sender(m) \notin columns[e]
    /\ Goto(m, "user")
    /\ UNCHANGED <<serial, rows, accounts, contact, at, found, madeUser, requests>>

(* Mutant of CreateUser: an error counts as a user.                        *)
CreateUserAssumed(m) ==
    /\ pc[m] = "user"
    /\ madeUser' = madeUser \union {m}
    /\ Goto(m, "store")
    /\ UNCHANGED <<serial, rows, accounts, contact, at, found, requests>>

(* _create_supabase_auth_user, which swallows its errors; switched off by  *)
(* default.  It is a call to another service: no rollback undoes it, and   *)
(* the user may be there although its answer was empty, or lost.           *)
CreateUser(m) ==
    /\ pc[m] = "user"
    /\ \/ /\ users[Sender(m)] = "none"
          /\ users' = [users EXCEPT ![Sender(m)] = "customer"]
          /\ madeUser' \in {madeUser, madeUser \union {m}}
       \/ UNCHANGED <<users, madeUser>>
    /\ Goto(m, "store")
    /\ UNCHANGED <<serial, rows, identities, linked, contact, at, found, requests>>

(* The columns a new customer gets.                                        *)
NewColumns(m) ==
    {x \in {Sender(m)} : Kind[x] # "username"}
    \union {Aliases(m)[i] : i \in {j \in DOMAIN Aliases(m) : Kind[Aliases(m)[j]] = "username"}}

(* Mutant of Store: a mapping that is there is overwritten.                *)
StoreOver(m) ==
    /\ pc[m] = "store"
    /\ identities' = [identities EXCEPT ![Sender(m)] = Link("customer", m)]
    /\ linked' = IF m \in madeUser THEN linked \union {Sender(m)} ELSE linked
    /\ table' = [table EXCEPT ![m] = "customer"]
    /\ columns' = [columns EXCEPT ![m] = NewColumns(m)]
    /\ Find(m, "customer", m, "resolved")
    /\ UNCHANGED <<serial, dependents, users, contact, at, madeUser, requests>>

(* Mutant of Store: the metadata of the identity does not name the user.   *)
StoreUnlinked(m) ==
    /\ pc[m] = "store"
    /\ identities[Sender(m)] = NoLink
    /\ identities' = [identities EXCEPT ![Sender(m)] = Link("customer", m)]
    /\ table' = [table EXCEPT ![m] = "customer"]
    /\ columns' = [columns EXCEPT ![m] = NewColumns(m)]
    /\ Find(m, "customer", m, "resolved")
    /\ UNCHANGED <<serial, dependents, users, linked, contact, at, madeUser, requests>>

(* Customer and identity are committed together; the unique index on the   *)
(* external id refuses a second identity.                                  *)
Store(m) ==
    /\ pc[m] = "store"
    /\ identities[Sender(m)] = NoLink
    /\ identities' = [identities EXCEPT ![Sender(m)] = Link("customer", m)]
    /\ linked' = IF m \in madeUser THEN linked \union {Sender(m)} ELSE linked
    /\ table' = [table EXCEPT ![m] = "customer"]
    /\ columns' = [columns EXCEPT ![m] = NewColumns(m)]
    /\ Find(m, "customer", m, "resolved")
    /\ UNCHANGED <<serial, dependents, users, contact, at, madeUser, requests>>

(* Any exception, an index violated among them: intake_node answers an     *)
(* unknown customer, and the transaction is rolled back.                   *)
IntakeFails(m) ==
    /\ Resolving(m)
    /\ Goto(m, "fallback")
    /\ UNCHANGED <<serial, rows, accounts, contact, at, found, madeUser, requests>>

-----------------------------------------------------------------------------
(* The owner switches a stakeholder to another role, or deletes one.       *)

OpGoto(o, p) == op' = [op EXCEPT ![o] = p]
Misses(o, statement) == missed' = [missed EXCEPT ![o] = @ \union {statement}]
Noted == UNCHANGED missed
Fixed == UNCHANGED <<serial, intake, source, from, to>>

StartRequest(o, e, target) ==
    /\ op[o] = "idle"
    /\ serial => Quiet
    /\ table[e] \notin {"none", target}
    /\ OpGoto(o, "check")
    /\ source' = [source EXCEPT ![o] = e]
    /\ from' = [from EXCEPT ![o] = table[e]]
    /\ to' = [to EXCEPT ![o] = target]
    /\ UNCHANGED <<serial, rows, accounts, intake, missed>>

IsSwitch(o) == to[o] \in Roles

(* getStakeholderDependencyError.                                          *)
CheckDependents(o) ==
    /\ op[o] = "check"
    /\ OpGoto(o, IF source[o] \in dependents THEN "ended"
                 ELSE IF IsSwitch(o) THEN "insert" ELSE "delete")
    /\ UNCHANGED <<rows, accounts>> /\ Noted /\ Fixed

(* pickTargetPayload keeps no telegram column: only customers have them,   *)
(* and the target of a customer is another table.                          *)
InsertTarget(o) ==
    /\ op[o] = "insert"
    /\ table' = [table EXCEPT ![o] = to[o]]
    /\ columns' = [columns EXCEPT ![o] =
                      {x \in columns[source[o]] : Kind[x] \in {"phone", "email"}}]
    /\ OpGoto(o, "move")
    /\ UNCHANGED <<dependents, accounts>> /\ Noted /\ Fixed

(* Identities of one entity, as UPDATE ... WHERE finds them.               *)
IdentitiesOf(r, e) == {x \in Externals : identities[x] = Link(r, e)}

Relink(old, new) ==
    identities' = [x \in Externals |->
                      IF identities[x] = old THEN new ELSE identities[x]]

(* Mutant of MoveIdentities: entity_id is not updated.                     *)
MoveIdentitiesRoleOnly(o) ==
    /\ op[o] = "move"
    /\ Relink(Link(from[o], source[o]), Link(to[o], source[o]))
    /\ OpGoto(o, "delete")
    /\ UNCHANGED <<rows, users, linked>> /\ Noted /\ Fixed

MoveIdentities(o) ==
    /\ op[o] = "move"
    /\ Relink(Link(from[o], source[o]), Link(to[o], o))
    /\ OpGoto(o, "delete")
    /\ UNCHANGED <<rows, users, linked>> /\ Noted /\ Fixed

(* Deleting a row that is gone is no error; a row that others refer to     *)
(* cannot be deleted.                                                      *)
Deletable(e) == table[e] # "none" => e \notin dependents

DeleteSource(o) ==
    /\ op[o] = "delete"
    /\ Deletable(source[o])
    /\ table' = [table EXCEPT ![source[o]] = "none"]
    /\ OpGoto(o, IF IsSwitch(o) THEN "sync" ELSE "clean")
    /\ UNCHANGED <<columns, dependents, accounts>> /\ Noted /\ Fixed

(* The identities go back to the source; an error here is ignored.         *)
RevertIdentities(o) ==
    /\ op[o] = "revert"
    /\ Relink(Link(to[o], o), Link(from[o], source[o]))
    /\ OpGoto(o, "undo")
    /\ UNCHANGED <<rows, users, linked>> /\ Noted /\ Fixed

DeleteTarget(o) ==
    /\ op[o] = "undo"
    /\ Deletable(o)
    /\ table' = [table EXCEPT ![o] = "none"]
    /\ OpGoto(o, "ended")
    /\ UNCHANGED <<columns, dependents, accounts>> /\ Noted /\ Fixed

(* syncAuthRolesForStakeholder looks for the identities of the source,     *)
(* which have been moved; it stops at the first error.                     *)
SyncAuthRoles(o) ==
    /\ op[o] = "sync"
    /\ \E some \in SUBSET (IdentitiesOf(from[o], source[o]) \intersect linked) :
          users' = [x \in Externals |-> IF x \in some THEN to[o] ELSE users[x]]
    /\ OpGoto(o, "ended")
    /\ UNCHANGED <<rows, identities, linked>> /\ Noted /\ Fixed

CleanIdentities(o) ==
    /\ op[o] = "clean"
    /\ Relink(Link(from[o], source[o]), NoLink)
    /\ linked' = linked \ IdentitiesOf(from[o], source[o])
    /\ OpGoto(o, "ended")
    /\ UNCHANGED <<rows, users>> /\ Noted /\ Fixed

(* Mutant of AfterError: the error of the INSERT is not looked at.         *)
AfterErrorUnchecked(o, statement) ==
    CASE statement = "insert" -> "move"
      [] statement = "move" -> "undo"
      [] statement = "delete" /\ IsSwitch(o) -> "revert"
      [] statement = "revert" -> "undo"
      [] OTHER -> "ended"

(* Mutant of AfterError: a failed delete of the source is not compensated. *)
AfterErrorStop(o, statement) == IF statement = "move" THEN "undo" ELSE "ended"

(* Where a request goes on after an error of one of its statements.        *)
AfterError(o, statement) ==
    CASE statement = "move" -> "undo"
      [] statement = "delete" /\ IsSwitch(o) -> "revert"
      [] statement = "revert" -> "undo"
      [] OTHER -> "ended"

(* The compensation and the cleaning go on as if they had been executed.   *)
Unheeded == {"revert", "undo", "clean"}

StatementFails(o) ==
    /\ op[o] \in {"check", "insert", "move", "delete"} \union Unheeded
    /\ OpGoto(o, AfterError(o, op[o]))
    /\ IF op[o] \in Unheeded THEN Misses(o, op[o]) ELSE Noted
    /\ UNCHANGED <<rows, accounts>> /\ Fixed

(* The statement that has been executed, and whose answer takes a request  *)
(* to its next step; that of "revert" and "undo" is not looked at.         *)
Awaited == [move |-> "insert", delete |-> "move", sync |-> "delete", clean |-> "delete"]

(* The answer is lost: to the request, the statement has failed.           *)
AnswerIsLost(o) ==
    /\ op[o] \in {"move", "sync", "clean"} \/ (op[o] = "delete" /\ IsSwitch(o))
    /\ OpGoto(o, AfterError(o, Awaited[op[o]]))
    /\ Misses(o, Awaited[op[o]])
    /\ UNCHANGED <<rows, accounts>> /\ Fixed

RequestCrashes(o) ==
    /\ Switching(o)
    /\ OpGoto(o, "crashed")
    /\ UNCHANGED <<rows, accounts>> /\ Noted /\ Fixed

(* An order, a contract or an agreement; no table refers to investors.     *)
AddDependent(e) ==
    /\ table[e] \in Roles \ {"investor"}
    /\ Cardinality(dependents) < MaxDependents
    /\ dependents' = dependents \union {e}
    /\ UNCHANGED <<serial, table, columns, accounts, intake, requests>>

Resolve(m) ==
    \/ Arrive(m) \/ ReadUuid(m) \/ ReadMapping(m) \/ ReadProfile(m) \/ Ensure(m)
    \/ FlushCustomer(m) \/ CreateUser(m) \/ Store(m) \/ IntakeFails(m)

Administer(o) ==
    \/ \E e \in Entities, target \in Targets : StartRequest(o, e, target)
    \/ CheckDependents(o) \/ InsertTarget(o) \/ MoveIdentities(o) \/ DeleteSource(o)
    \/ RevertIdentities(o) \/ DeleteTarget(o) \/ SyncAuthRoles(o) \/ CleanIdentities(o)
    \/ StatementFails(o) \/ AnswerIsLost(o) \/ RequestCrashes(o)

Next ==
    \/ \E m \in Messages : Resolve(m)
    \/ \E o \in Requests : Administer(o)
    \/ \E e \in Entities : AddDependent(e)

Spec == Init /\ [][Next]_vars

-----------------------------------------------------------------------------
(* What must hold.                                                         *)

(* The types, and a message that looks an alias up has it.                 *)
TypeOK ==
    /\ serial \in BOOLEAN
    /\ table \in [Entities -> Roles \union {"none"}]
    /\ columns \in [Entities -> SUBSET Externals]
    /\ dependents \subseteq Entities
    /\ identities \in [Externals -> Links]
    /\ users \in [Externals -> Roles \union {"none"}]
    /\ linked \subseteq {x \in Externals : users[x] # "none"}
    /\ \A m \in Messages : at[m] \in 0..Len(Aliases(m))
    /\ \A m \in Messages : pc[m] = "link" => found[m] # NoLink
    /\ madeUser \subseteq Messages
    /\ \A o \in Requests : op[o] # "idle" => source[o] \in Entities /\ from[o] \in Roles

(* First messages of one sender that arrive together, however they and the *)
(* requests of the owner interleave, leave one customer for the sender,    *)
(* unless the owner deletes the row that an unfinished switch has made.    *)
OneCustomerPerSender ==
    \A m, n \in Messages :
        m # n /\ Sender(m) = Sender(n) =>
            \/ "none" \in {table[m], table[n]}
            \/ \E o, p \in Requests : source[p] = o /\ ~IsSwitch(p)

(* A message made a customer, and heard of no Auth user for it.            *)
WithoutUser(m) ==
    pc[m] = "resolved" /\ found[m] = Link("customer", m) /\ m \notin madeUser

(* An Auth user that no identity names is there only because a message of  *)
(* its sender did not get through, or got no answer from the Auth service, *)
(* or the owner deleted the stakeholder.                                   *)
OrphansComeFromFailures ==
    \A x \in {y \in Externals : users[y] # "none"} \ linked :
        \/ \E m \in Messages :
              Sender(m) = x /\ (pc[m] \in {"store", "fallback"} \/ WithoutUser(m))
        \/ \E o \in Requests : from[o] \in Roles /\ ~IsSwitch(o)

Exists(link) == link # NoLink /\ table[link.entity] = link.role

(* An owner request leaves identities behind only if it took a statement   *)
(* for failed that was not, or the other way round, or if a deletion did   *)
(* not get through to them.                                                *)
Sound(o) == /\ missed[o] \intersect {"move", "delete", "revert", "clean"} = {}
            /\ op[o] = "crashed" => IsSwitch(o)

(* A message that overlaps no request of the owner resolves to a row that  *)
(* exists in the table of the role it is given, also after switches, undone*)
(* switches and crashes in between.                                        *)
ResolvedExists ==
    [][\A m \in Messages :
          /\ serial /\ pc[m] # "resolved" /\ pc'[m] = "resolved"
          /\ \A o \in Requests : Sound(o)
          => Exists(found[m])']_vars

(* A switch that ends, whichever statements of it failed, has moved the    *)
(* stakeholder with all its identities, or nothing, unless it took one for *)
(* failed that was not, or its compensation failed.                        *)
SwitchIsAtomic ==
    [][\A o \in Requests :
          /\ serial /\ Switching(o) /\ op'[o] = "ended"
          /\ IsSwitch(o) /\ missed'[o] = {}
          => LET kept == IF op[o] = "sync" THEN o ELSE source[o]
                 gone == IF op[o] = "sync" THEN source[o] ELSE o
             IN  /\ table'[kept] # "none"
                 /\ table'[gone] = "none"
                 /\ \A x \in Externals : identities'[x].entity # gone]_vars

(* A set that has, with a row, those the owner switched it to.             *)
Heirs(S) == \A o \in Requests : IsSwitch(o) /\ source[o] \in S => o \in S

(* However switches overlap, follow one another, fail and crash, a         *)
(* stakeholder keeps a row in some table, its own or one it was switched   *)
(* to, unless the owner deletes one of these, or a switch was not told that*)
(* it had deleted one.                                                     *)
NobodyIsLost ==
    \A S \in SUBSET (Known \union Requests) :
        Heirs(S) /\ S \intersect Known # {} =>
            \/ \E e \in S : table[e] # "none"
            \/ \E o \in Requests :
                  source[o] \in S /\ (~IsSwitch(o) \/ "delete" \in missed[o])
=============================================================================
