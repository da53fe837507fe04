# One-Man-Business orchestrator: TLA+ models and proofs

This directory holds TLA+ modules that model the back end of the repository, TLC
configurations that check them on small instances, and TLAPS proofs of the results that
should hold for every instance. `src/` below is the root of the repository.

## 1. The system

A small business lets an LLM pipeline answer its customers, suppliers, investors and
partners on Telegram and on a web chat. What the pipeline writes is judged; a harmless reply
is sent by itself, a risky one waits for the owner, who approves or rejects it on a dashboard.

| Component | Where | State it keeps | Operations |
| --- | --- | --- | --- |
| Pipeline graph, orchestrator | `backend/graph`, `backend/agents/orchestrator_agent.py` | `PipelineState` of one message (in memory) | intake, plan, fan-out and fan-in, reply, rules, risk, hold or memory update |
| Approval rules and risk | `backend/nodes/approval_rules.py`, `risk*.py` | flags, `risk_level`, `requires_approval` | rule checkers, `aggregate_risk`, LLM second pass |
| Reply approval gate | `backend/services/approval_service.py` | tables `held_replies`, `pending_approvals`, `reply_review_records`, `messages` | hold, approve, reject, review, record an auto-sent reply |
| Delivery | `backend/api/router.py`, `integrations/telegram_sender.py` | `messages`, the sender's counter | save, send, record, answer |
| Owner chat | `backend/services/conversation_memory.py`, `router.py` | `conversation_threads`, `messages` | list, read, delete a thread with everything that points to it |
| Intake and identity | `backend/nodes/intake.py`, `services/identity_resolution.py` | users, external identities, threads | find or create, resolve the role, store the inbound message |
| Sender memory | `agents/memory_agent.py`, `conversation_memory.py` | summary and message counter per sender | increment, refresh after a threshold |
| Memory approval, profile memory | `approval_service.py`, `memory_agent.py` | `memory_update_proposals`, `memory_entries`, profile texts | propose, approve, reject, merge |
| Telegram webhook | `integrations/telegram_webhook.py` | processed update ids and chat locks (process memory) | deduplicate, serialise per chat, `/start` |
| Orders and stock | `backend/api/__init__.py`, `frontend/src/app/api/orders`, `.../products` | `products.stock_number`, orders | buy, adjust or overwrite the stock, create and delete products |
| Retrieval and policy tools | `backend/tools`, `agents/retrieval_agent.py`, `policy_agent.py` | results and verdicts of one task (in memory) | query by role, judge a discount, search the policies |
| Role switching | `frontend/src/app/api/roles/switch/route.ts`, `roles/[role]/[stakeholderId]/route.ts` | one table per role, external identities, Auth users | move or delete a stakeholder in several requests |
| Dashboard | `frontend/src` | cached lists (refetched every 10 s, not in background tabs) | show, decide, delete |

How they interact: the web chat and the Telegram webhook call `process_incoming_message`,
which runs the graph in a worker thread. The graph calls the database, the LLMs and
`hold_reply`; after it, the router saves, sends and records. The owner's decisions come from
the dashboard through a Next.js route to synchronous endpoints, which FastAPI runs in its
thread pool; the deletion of an owner chat is an `async def` and runs its SQL on the event
loop. All share PostgreSQL at READ COMMITTED. There is one uvicorn process
(`backend/Dockerfile`), so process memory is shared, and lost when it restarts.

What is hard: decisions from several tabs, or from a tab whose list is old, interleave
statement by statement and with chat deletions, in opposite lock orders; a Telegram message
cannot be rolled back; a failure after a commit is reported as if nothing had happened; the
decision to hold is made in one field and the decision to deliver in another; sub-agents
fail in any combination inside a loop that has two limits; counters, summaries and profile
texts are read, changed in Python and written back; the dashboard moves a stakeholder between tables in
separate requests while messages of that stakeholder arrive. `PROJECT.json` lists these hazards at
their lines with the properties that cover them.

What makes each component correct:

- gate: the three tables agree about every reply; nothing is sent before an approval is
  committed, nor more often than approved; an approved record names a message that exists;
  a deleted chat takes every reply approved in it along; no request is blocked for ever;
- pipeline: a held reply is not sent; a severe flag always holds; a question that needs
  evidence is not answered without it; planning is bounded; every run ends;
- identity: a sender gets one customer, however its first messages interleave with each other
  and with the owner; a message resolves to a row that exists; a switch moves a stakeholder
  with all its identities or not at all, and loses none, as long as it learns what became of
  its statements;
- sender memory: the counter never counts what was not stored, and is exact when the exchanges
  of a sender do not overlap; summaries do not lose what they held; a reply follows its message;
- memory approval: nothing a sender said reaches the profile without the owner; what was
  approved is kept, and approving it again adds nothing; merging any text keeps what came first;
- webhook: an update is taken on once within the deduplication time, messages of a chat are
  processed in turn, an answered update is or will be processed unless its text is blank or a
  restart came in between, nobody waits for ever;
- stock: it is what was put in less what was ordered, never negative, and an order takes its
  units in the step in which it appears;
- discounts: cost data stays out of prompts for outsiders, and the offer that the rules look
  at goes without a flag only if the guidance they find allows it.

## 2. The modules

| Module | Models | Extends / instantiates |
| --- | --- | --- |
| `ReplyGate` | the abstract promise of the gate: hold, approve, reject, forget, deliver, each one step | - |
| `ReplyApproval` | `approval_service.py` and `delete_owner_chat_thread`, one action per SQL statement | instance of `ReplyGate` |
| `Pipeline` | one message through graph and router | - |
| `Identity` | who a sender is: lookups and creation by messages, switches and deletions by the owner | - |
| `SenderMemory` | thread, messages, counter and summary of a sender | - |
| `ProfileMemory` | the profile text: parse, merge and render, as operators | - |
| `MemoryApproval` | extraction, proposals, decisions, owner chat, editor | `ProfileMemory` |
| `TelegramWebhook` | deliveries, deduplication, chat locks | - |
| `Inventory` | purchases, stock edits, products | - |
| `RetrievalTools` | which query returns which data to which role; the arithmetic of the discount tool | - |
| `DiscountRequest` | a discount request from the sub-agents to the flags on the reply | `RetrievalTools` |
| `...Proofs` | theorems about the module of the same name | that module, `TLAPS` |
| `MC...` | constants and symmetry for TLC | the module they check |

Operators named "Mutant of ..." in a comment, or placed before a definition whose name they
extend, restate one definition with a plausible bug. They are not part of any specification: each
shows that one property notices that bug.

### ReplyApproval

A held reply has a row in each of three tables; `status` maps a row to its committed status
(the words of `final_decision` are mapped to those of the other two tables). A request is an
HTTP request; `pc[q]` names the statement it is about to run, `op[q]` what it does,
`target[q]` the reply. An UPDATE or DELETE takes the row's lock and waits for it; the new
values appear at the commit, which is why `CommitApproval` changes all rows the request has
locked at once. Further:

- `Decide` accepts any reply that was ever listed, whatever its status now: neither the
  card, the route nor the service looks at it again.
- `InsertMessage` needs the thread's row if the reply belongs to the owner chat, and shares it
  until the end of the transaction (`SharesThread`); `ForeignKeyError` collects the
  statements PostgreSQL refuses. These, row locks and deadlock detection are external code,
  modelled from PostgreSQL's documented behaviour.
- The commit of a deletion flushes `session.delete(thread)`, and the relationship `messages`
  has no cascade: the ORM selects the messages that have come since the bulk delete
  (`UnlinkMessages`, `snapLate`) and sets their thread to NULL (`unlinked`); only one that
  commits between that SELECT and the DELETE of the thread makes the DELETE fail.
- A turn of the owner in the chat is a request too (`op` is `"turn"`): its messages are what may
  come late. `intake_node` stores them from the thread pool, so a deletion meets only a turn that
  had started before it.
- `Fail` aborts any statement, and the step between commit and send (the bot token lookup can
  raise): the transaction is rolled back, which after the commit undoes nothing.
- `Crash` is a restart: open transactions are rolled back, what should follow a commit is
  lost. Nothing resumes it, and the model has no action that does.
- `EventLoopFree`: while a deletion runs on the event loop no request starts; those already in
  the thread pool go on.

Replies of the owner chat (`OwnerChat`) are rare: the risk node lets every reply to the owner pass,
so one is held only if intake failed, took the owner for an unknown customer and kept the
thread id of the request (`nodes/intake.py:160-167`). The rows are there then, and a deletion of
the chat meets them.

Left out: the texts; the sender-memory row an approval also updates and a deletion also
removes (its lock could only delay a request, and its counter is the subject of
`SenderMemory`); the memory update after an approval, which swallows its errors.

### Pipeline

`stage` is the node about to run or the place the router has got to. LangGraph runs in
supersteps: `Superstep` counts them, the sub-agents of a fan-out share one, and a run that
has used them up ends with `RecursionError`. `asks` is the set of keyword groups found in the
message and with the role decides `Path`, the order of the tests in `orchestrator_agent`.
`tasks`, `results` and `completed` are sets of sub-agents: two tasks of one sub-agent in a
fan-out count as completed when one is, as `_has_task_result` has it. A flag is of a kind:
`Severe` (PII, escalation, confidentiality, policy violation, low confidence, high-risk tone),
`Review` (policy requires approval, role risk) or `Minor` (everything else, the flags of the
approval rules among them). Flags are sets where the code has lists, so the same minor flag
found three times is one here; three different ones stand for the case. `route` is
`route_after_risk`, an edge and not a superstep. The flags the LLM adds are recorded for the
owner only and are left out.

In `Risk`, `requiresApproval' = (riskLevel' # "low")` restates three lines of `risk_node`: a flag of
the approval rules is among the flags, so before the second pass `requires_approval` is true
exactly if there is a flag, that is if the level is not low; the second pass sets it only
together with a level it changes.

### Identity

Every SELECT of `resolve_or_create_sender` is an action, the one per role table of a lookup by profile
included (`Following`), and so is every COMMIT with the rows it writes. `pc[m]` is the lookup a
message is about to make, `at[m]` which of its aliases it has
got to, `found[m]` what it has resolved to. `table[e]` is the role table an entity has a row in,
`identities[x]` the row of `external_identities` of an external id, `users` and `linked` the users of
Supabase Auth and the identities that name them. `FlushCustomer` has the wait for, and the
violation of, the unique index on `telegram_user_id`; `CreateUser` is a call to another service that
no rollback undoes, and it may create the user although its answer is lost, which the code takes
for no user and goes on; `IntakeFails` is any exception, after which `intake_node` goes on with an unknown
customer.

A request of the owner is a switch or, with target `"none"`, a deletion. `op[o]` is the statement
it is about to send; every statement may fail (`StatementFails` goes where the code goes on:
`AfterError`), or be executed and its answer be lost (`AnswerIsLost`), which the code cannot tell from
a failure; a restart may cut the request off anywhere. `missed[o]` remembers the statements whose
outcome the request took no note of: those executed unheard, and those that failed where the code
does not look at the error (`Unheeded`). A switch names the row it inserts
after itself, so `source[o]` became `o`. `SyncAuthRoles` looks for identities of the source row, which
have been moved by then; the model keeps that. `serial` is chosen at the start: when it holds no
two messages or requests overlap, and the stronger properties are stated for those behaviours.

Left out: the memory texts intake loads (prompt material), the normalisation of external ids,
other owners, the PATCH that edits the columns of a stakeholder.

### SenderMemory

An exchange is an inbound message with its reply. A transaction reads rows through the ORM and
writes at its end what it computed from them, hence one action per read and one for the
flush with its COMMIT. `seen`, `base` and `recent` are what an exchange has read and may be stale
when it writes. Locks between flush and COMMIT only delay another writer, who then writes what
it had computed before, and are left out. The order of `created_at` is taken to be the order of
the commits. The counter is a set, `{}` when there is no row; `summary` is the set of places in the
log whose messages went into the text. `CommitFails` is the case where `intake_node` has set
`conversation_thread_id` before its COMMIT fails: the reply goes to a thread that lacks its message.

A `/start` (`Greet`, `StoreGreeting`) is answered by the webhook itself: message and answer go into the same
thread in one transaction, without the counter, and past the chat lock, so it may come between any two
steps of another exchange in either regime. `started` remembers which exchanges were one.

`serial` stands for the chat lock of the webhook together with an owner who decides nothing
meanwhile. Neither approvals nor the web chat take that lock, so the two regimes are both real:
overlapping exchanges do lose increments, and what is still true then is
`CountsStoredMessages` and `RepliesFollowTheirMessage`.

### ProfileMemory and MemoryApproval

The profile is a text that code parses into three sections, merges and renders. A text is a
sequence of lines, heading or item; `Parse`, `Merge`, `Render`, `Dedupe` and `BySection` translate the functions of
`conversation_memory.py`, `Records` that of `memory_agent.py`, and `FirstComeFirstKept` compares a merge with its
definition by first occurrence (`FirstDistinct`: an item is kept if no earlier one has its key, and its place
is the number of kept ones up to it). Comparing in lower case is `Key`, guessing the section of a line under no known heading is
`Class`. The line that says that nothing is stored is an item like any other to the next parse
(`Placeholder`).

`MemoryApproval` has two steps per request: what it reads, and its COMMIT. Both decisions update the
proposal first, so the row lock puts the writes of two requests in order, and nothing is read
again after it. A decision may name any proposal that was ever listed, approved ones included: `since[q]`
are the proposals approved after request `q` had read the profile, and `overwritten` those whose
lesson was lost, because an edit or a write from an older text replaced it, or was never written,
because the approval had read a text that held it. `WriteProfile` is the ORM's
habit of writing an attribute only when it has changed.

### TelegramWebhook

All deliveries are coroutines of one event loop, so what stands between two awaits is one
action. A lock is named after the delivery that made it; `waiters` is the queue inside asyncio's
lock, `woken` the state of a waiter whose future is set but who has not run. `Prunable` uses
`locked()` as the code does, which is false between a release and the next holder's turn: this is how
a lock that somebody waits for can be pruned. Ages are counted in ticks and stop growing one tick
after the largest the code compares them with. `text` distinguishes `/start`, a text of white space
(whose first word raises an `IndexError` after the update was remembered) and others. `handled` are the
updates that were processed to the end, `dropped` those that were taken on in vain, because
the text is blank or a restart came, and were not taken on again since. Telegram may
send an update again until it was answered, also while a delivery of it is open. A restart empties
both tables.

### Inventory

A purchase is looked at by the Next.js route without a lock and again by the back end with one;
`seen` is the stock read under the lock. `Locked` says which rows `SELECT ... FOR UPDATE` holds: other
locks, updates and deletes of them wait. The stock route and the product form write a number
worked out from a stock read before, without a lock: `intended` records what the owner's edits meant
to add and `overwritten` the products where an edit replaced a stock it had not read, so that
`StockMatchesLedger` can say precisely what the purchases guarantee and what the edits break. `Units(p)` are the
units of a product that were ordered, `Sold(p)` is their number. The
function `purchase_product_atomic` of `SCHEMA.sql` is called by nothing and not modelled.

### RetrievalTools and DiscountRequest

Rows and columns are reduced to five kinds of data (`Data`), by who may see them. `BoundTools` is what
the agent binds for a role, the discount tool included when the orchestrator lends it.
Percentages are in hundredths, and `Rounded` is `round(_, 2)` on rationals: the code computes with
floats, whose error is far below a hundredth of a percent for prices of any realistic size, and
Python rounds halves to even, so the model may differ from it by one hundredth at an exact half;
`KeepsMargin` leaves room for that. `DiscountRequest` runs the retriever and the policy agent of one
request side by side: the LLM chooses tools, products, quantities and verdicts freely, agents fail and
are asked again, and the rules look at what the code looks at. Guidance is that of the first task that has any: the
last evaluation of the task, or, when it made none, whatever the text of its result claims (`Claims`),
which for a task without tool calls is the LLM's and for a failed one the error's. An offer is a
percentage with its wording: `Noticed` and `PercentRead` say what the pattern makes of it ("20% off" and
"discount of 100%" are not seen, "100% discount" is read as 0). Prices are constants.

## 3. The runs

| Run | Checks | Instance |
| --- | --- | --- |
| `reply_approval` | `TypeOK`, `Agreement`, `ApprovedRecordHasItsMessage`, `ApprovedRepliesGoWithTheirChat`, `ImplementsGate` | 2 replies, one in the owner chat, 3 requests |
| `reply_approval_live` | `EveryRequestAnswered` | 1 reply in the owner chat, 3 requests |
| `reply_audit` | `RejectedIsNotDelivered`, violated | as `reply_approval` |
| `pipeline` | `TypeOK`, `HeldIsNotSent`, `WithheldIsAccountedFor`, `SevereIsNotSent`, `AnswerIsGrounded`, `LlmPlanningIsBounded`, `EveryMessageEnds` | 2 replan cycles, 25 supersteps, 5 flags |
| `pipeline_replan` | `ReplanLimitHolds`, violated | as `pipeline` |
| `pipeline_override` | `RuleFlaggedNeedsOwner`, violated | as `pipeline` |
| `identity` | `TypeOK`, `OneCustomerPerSender`, `OrphansComeFromFailures`, `NobodyIsLost`, `ResolvedExists`, `SwitchIsAtomic` | 1 known customer, 2 messages, 2 requests, 1 dependent row |
| `sender_memory` | `TypeOK`, `CountsStoredMessages`, `RepliesFollowTheirMessage`, `CountIsExact`, `SummaryGrows` | 3 exchanges, threshold 2, window 2 |
| `memory_approval` | `TypeOK`, `ProfileHoldsOnlyApproved`, `ApprovingAgainTeachesNothing`, `AppliedIsKnown`, `MergeAgrees` | 2 proposals, 3 requests, 6 items, 2 per section, 3 initial texts |
| `webhook` | `TypeOK`, `OneAtATime`, `NoRepeatWithinTTL`, `AnsweredIsHandled`, `EveryDeliveryEnds` | 2 updates of one chat, 2 deliveries each, both ages 1 tick |
| `stock` | `TypeOK`, `StockMatchesLedger`, `OrderTakesStock` | 1 product, 2 customers, 2 buyers with 2 clicks, 2 edits, amounts 0 to 2 |
| `discount` | `TypeOK`, `PromptHoldsNoInternals`, `UnflaggedOfferIsCovered` | 2 products, 4 quantities, 3 percentages, 5 offers, 2 calls per task, 2 attempts |

**Bounds.** Three requests are enough for an approval, a rejection and a deletion, or two
approvals and a deletion, to interleave, and for a third to see what two have left behind; a
second reply shows that requests about different replies do not disturb each other and that a
deletion spares replies outside its thread. The liveness run drops the reply outside the
chat, which no deletion touches and on which decisions take their locks in one order. In the
pipeline `MaxReplanCycles` is the value of `config.py`, 25 the default of LangGraph.

Two messages and two requests of `identity` are a race of two first messages, a message between the
statements of a switch, two overlapping switches, and a switch followed by the deletion of what it
made; any of their statements may fail or lose its answer. The messages come twice from one Telegram
account, twice from a mail address nobody has, from a Telegram account with username and phone
and from that number, or from a customer by its id and from the owner. Three exchanges with a threshold of 2 reach a refresh
while another is between read and write and a second refresh on top of the first; a window of 2 is
shorter than the log. The profile texts of `memory_approval` are the empty one, free text without
headings, and one with an item twice under the heading of another section and more rules than a section keeps;
three requests are two decisions and an edit or an owner's message that all overlap. Two
deliveries of two updates are a redelivery during and after the first attempt, and three that use one
lock; an age of 1 lets time pass on either side of it. One product is enough for the stock since
nothing relates two; two buyers race for the last unit while an edit is open. The quantities of
`discount` lie at the limits of the policy bands, of the approval threshold and of the stock, the
percentages at and just above a band, and offers of a hundred percent in both wordings and one in a wording that
is not seen; one product has room for a discount, one is sold below the margin.

**Symmetry** is used for requests, messages, exchanges, buyers, customers and edits, in runs without
liveness only, and never for values that the specification or a definition tells apart.

**Deadlock.** Requests, messages and edits are used once, so a finite instance comes to rest.
`Quiescent` and `Finished` stutter there where an unplanned rest would be a mistake worth finding, and
deadlock checking stays on. `identity`, `stock` and `discount` have `CHECK_DEADLOCK FALSE`: an instance whose
requests, clicks or attempts are used up simply stops, in any of many states; a message that waits
for a unique index, or a purchase that waits for a row, always has `IntakeFails` or `Rollback`.

**Fairness.** `ReplyApproval`: weak fairness of each request's next statement. A handler thread
always goes on, a lock wait ends when the lock is free, and the deadlock detector runs by
itself; which of two waiters gets a lock is not assumed to be fair, a waiter can be overtaken
by the other requests of the instance only once each. New requests, failures and crashes
have no fairness. `Pipeline`: weak fairness of the run's next step, because every call
returns, raises or times out. `TelegramWebhook`: weak fairness of "some coroutine takes its next step": the event loop
runs a coroutine as long as one can run, threads return, and a delivery takes at most six
steps. Neither deliveries, restarts nor the passing of time are fair. The other modules state
safety only and no fairness.

What the three violated runs show (details with quotations in `PROJECT.json`):

- `reply_audit`: a reply is approved and delivered; a rejection from a list loaded before then
  turns its record from `approved_and_sent` into `rejected`. The documentation calls these records
  a complete audit trail.
- `pipeline_replan`: on the discount, terms and policy paths a failing sub-agent is asked again
  before `check_replan_limit` is reached, beyond `MAX_REPLAN_CYCLES`.
- `pipeline_override`: a reply whose flags come from the approval rules alone has medium risk,
  and the LLM second pass may lower that to low and clear `requires_approval`.

## 4. The proofs

All theorems hold for every value of the constants that satisfies the named assumptions. Each proof
module has an inductive invariant (`Identity` and `Inventory` have further ones that build on it), a lemma per
action or group of actions that keeps it, and theorems `Invariance`, `TypeCorrect` and one for each
property that follows.

`ReplyApproval` (any sets of replies and requests; `OwnerChatAssumption`, `NoneAssumption`). What
`Agreement` needs but does not say is who holds which lock at which statement, so the
invariant `IInv` adds: `ControlInv` (which points belong to which operation), `LockInv` (only
open transactions hold locks), `DecisionInv` (a decision past its first UPDATE holds the rows
it has passed, and they still exist, so a commit settles all three or none),
`DeleteInv` (a deletion that has passed a DELETE holds every row of the replies it read, and
the records of the messages it read belong to these replies), `DecidedInv` and `RaceInv` (the one deletion that
runs has read every reply of the chat that a decision is about, and has deleted every message of an
approval: what it finds late is of the owner's turns), `ThreadInv`, `LinkInv` and `HistoryInv`
(a link names a committed message written by an approval of that reply). Each action has a
lemma that it preserves `IInv`. `Refinement` shows with the same invariant that every step is a
step of `ReplyGate` or leaves its variables alone: statements before a commit are
invisible, `CommitApproval` is `Approve`, `CommitRejection` is `Reject`, `CommitDelete` is
`Forget`, `Send` is `Deliver` or nothing.

`Pipeline` (any limits with `RecursionLimit >= 6 + 2 * MaxReplanCycles`, any set of flags with
disjoint `Severe` and `Minor`, some flag in `Severe`). `HeldIsNotSent` needs that the two
fields the routers read agree (`LevelInv`), `AnswerIsGrounded` only the orchestrator's guards,
`LlmPlanningIsBounded` the count of supersteps a stage may have used (`StepsInv`). The
assumption on `RecursionLimit` says that the recursion limit leaves room for what the
replan limit allows; both are settings, and the theorem shows where they must match.

`Identity` (any external ids, kinds, stakeholders, contacts, messages and requests; the assumption says
that known stakeholders, messages and requests are different names). `OneCustomerPerSender` is
not inductive: after a switch the identity of the sender no longer names the customer that its
message created. `IdentityFollows` says that it names that row or one it was switched to, with `Chain(m)` as the
least set closed under switches, until the owner deletes a row that a switch has made. With
`RowsAreResolved` (a message has a row only when it is resolved) a second `Store` then finds the unique index
taken. `UsersAreMade` tracks which Auth users are not yet recorded (`Unrecorded`), for `OrphansComeFromFailures`.

A second invariant, `SInv`, gives the two action properties about behaviours without overlap. `RolesFit`: a row
and all that names it agree on the role, which depends on the entity alone; `IdleIsUnknown`: nothing names a row
that no request has made; `Phase(o)`: what source, target and identities look like at every statement of
a switch, so that at its end exactly one of the two rows is left and no identity names the other
one, unless the request missed what became of a statement; `LinksExist`: what an identity names exists,
unless a request left something behind or is about to clean it. That requests only ever miss more
(`MissedGrows`) carries the exception from a statement to the end of the switch. `SwitchesAreAtomic` and `ResolvedRowsExist` follow from these.

`NobodyIsLost` is about every set closed under switches (`Heirs`), whatever overlaps, and is far from inductive:
which of several switches have deleted their source cannot be told from requests that have ended or
crashed. The third invariant, `LInv`, says that some set of switches may be taken as the completed
ones, such that whoever follows only these from a stakeholder or from a row that a switch is working
on finds a row or a deletion (`Traced`), and that no row is switched back to one it came from
(`Acyclic`). A deletion of a source adds its switch to the set; an undone switch was never in it; and a switch
that was not told of the deletion of its source, and so deletes the target as well, leaves the set, which
the property names as an exception. The theorem holds for chains and trees of switches of any length, the run covers two.

`SenderMemory` (any exchanges, threshold and window above zero). `SeenIsStored` bounds what an exchange has read
by the log, which only grows, so a stale write cannot exceed it either; `MessageIsStored` ties the steps
after intake to the message in the log. For the serial regime, `Alone` says that one exchange runs at a
time, `ReadsAreCurrent` that what it has read of counter and summary is then still true and that a window read
for a summary misses only a `/start`, and `SummaryHasLast` that the summary holds the
last message it was made from: so `CountIsExact` and `SummaryGrows`, which count the messages after it
other than those of a `/start` (`Fresh`); `GreetingStep` shows that a `/start` leaves that number alone.

`TelegramWebhook` (any updates, chats, ages and deliveries). The lock part of the invariant describes
asyncio's lock: a queue has a holder or a woken first waiter (`QueueHasHolder`, `FirstIsWoken`), one
holder per lock (`OneHolder`), and who uses a lock that is not the one in the table has waited longer
than the age of pruning (`StrayHasWaited`, which needs `WaitedWhileUnused`). `OneAtATime` follows, and
`UpdateInv` (what a process remembers, answers or has answered is accounted for) gives the two
properties about updates.

`Inventory` (any products, customers, buyers, edits and amounts). The invariant adds to the types that
the stock read under a lock is the stock of the row, so that the commit takes the units out of what
is there, and that no two purchases hold one row. `StockIsAccounted` needs more: `Ledger` says that orders
refer to products in the table, that the order a purchase is about to insert is not there yet (so its
units are counted once), and that the units of a product, a set of pairs of an order and a number up to
its quantity, are finite. The units ordered are the cardinality of that set, which the
library's theorems on finite sets add up.

`MemoryApproval` and `ProfileMemory` (any items, keys, sections of items, cap above zero, proposals, requests
and initial texts; the assumptions say that texts are sequences of lines and what was learned is grouped by
section). The functions on texts are folds over sequences, and what they compute for texts of any
length is proved by induction all the same: the theorem `Induction` states induction on natural numbers for a
set instead of an operator, from the library's well-foundedness of the order, and `SetFold` that a fold is
the last value of a function which starts with the base and makes one step per element. A loop of
the code then is such a function: `DedupeFacts` and its neighbours show that `Dedupe` keeps the first of every key,
`Parse` reads every item of a text once, and each part of a rendered text is read back into its section.
`RoundTrip` (a rendered text parses to what was rendered) and `MergeIsFirstCome` (a merge is first come, first
kept) are theorems about `ProfileMemory` alone, and give `MergeIsCorrect`. For the others the
inductive invariant adds to the properties that decisions are about proposals that exist
(`DecisionsExist`), that what a request has read and will write back holds only what is allowed
(`ReadHoldsOnlyApproved`: the profile a stale writer puts back was itself made of approved items) and that what it has
read knew every proposal approved before (`ReadIsKnown`): so a write from it can lose
only those of `since`, and `AppliedIsKnown` and `ApprovingAgainTeachesNothing` follow, however requests overlap.

`DiscountRequest` (any products, prices, quantities, percentages and bounds).
`GatheredIsPublic` (what was gathered before a discount was evaluated is fit for the role),
`GuidanceIsEvaluated` (guidance in a task comes from the tool or is a claim of its text), `OneEvaluation` (on the
discount path no task follows one with an evaluation), `PolicyAnswered` and the arithmetic of
rounding: a percentage that is at most the rounded margin leaves 12% up to half a hundredth.

**Only model-checked.** Liveness (`EveryRequestAnswered`, `EveryMessageEnds`, `EveryDeliveryEnds`), because liveness under
fairness is beyond the prover, and the violated properties, which are counterexamples. Every
invariant and action property of a passing run, and the refinement of `ReplyGate`, is a theorem.

## 5. Known exposures without a property

What the code is exposed to and no property promises, because nothing in the repository does or
because it lies outside the models:

- `orchestrator_agent.py:202`: the first orchestrator call of a run resets breaker and denial lists that are global to
  the process, in the middle of other runs; the lists feed logs and the research breaker only.
- `router.py:305` and `:278`: if saving the outbound row fails, the caller of the API gets the reply as if it
  were delivered; a crash after that row is committed leaves a message in the history that was never
  sent. `AnswerAnyway` and `Crash` of `Pipeline` have both.
- `approval_service.py:384`: the result of the send is ignored, and an exception after the commit is answered with
  500, so the owner may approve, and deliver, again; `:313`: a held reply whose chat was deleted can be
  rejected but never approved. `ReplyApproval` has both.
- `conversation_memory.py:1033`: an owner's message that is committed while its chat is deleted survives without a
  thread, where no list shows it (`unlinked`).
- `retrieval_agent.py:488`, `approval_rules.py:106`, `:71`, `:129`, `retrieval_tools.py:296`, `policy_agent.py:44`: the last of
  several evaluations is the guidance, whatever its product; a text that names a maximum counts as
  guidance; wordings and numbers outside the pattern are not seen or misread; only the first percentage
  noticed in a reply is compared; price and stock may change after the evaluation; a verdict outside
  the vocabulary raises no flag.
- `policy_tools.py:284` and `:185`: scores of different scales are compared, and an owner id that is no UUID removes
  the filter by owner from the policy search.
- `conversation_memory.py:46`, `memory_agent.py:627`: a full section of the profile drops what is approved for it; a
  refresh reads the last 30 messages, so with a higher threshold or after failed refreshes older ones
  are never summarised.
- `identity_resolution.py:410`: a sender resolved by an alias records its own external id only; a later message
  from the alias alone may create a second customer.
- `roles/switch/route.ts:202`, `:173`, the deletion in `roles/[role]/[stakeholderId]/route.ts`: errors of the statements that revert a switch are ignored,
  two switches of one stakeholder may both insert a row, and identities that cannot be deleted with
  their stakeholder are left behind; a lost answer to the UPDATE of the identities or to the DELETE of the source
  makes the switch delete the row it had just completed. `Identity` has all four; its properties say how far they go.
- `telegram_sender.py:99`: a piece of a streamed reply that ends in white space repeats the text before it, and
  Telegram refuses such an edit.

## 6. Not modelled, and what remains

Not modelled: the research agent and the ranking of policy passages (scores of external models), context
compression and prompts, the streaming of replies in edited pieces, the PATCH of stakeholder columns,
dashboard rendering and read-only routes, seed data scripts, LLM, embedding and tracing clients. What
they return is a free choice of the models that use it.

What could follow: `MessageLife`, the webhook, the pipeline and the gate composed, with the end-to-end
promise that a reply reaches a sender only if judged harmless or approved; stronger statements about what
overlapping edits and decisions may still promise, proved in the same way.
