--------------------------- MODULE MemoryApproval ---------------------------
(***************************************************************************)
(* What is learned from messages: memory_update_node stores it or proposes *)
(* it to the owner, approve_memory and reject_memory decide a proposal     *)
(* (agents/memory_agent.py, services/approval_service.py), and the owner's *)
(* own chat and the dashboard's editor change the profile text as well.    *)
(*                                                                         *)
(* A request reads what it needs and writes at its COMMIT: approve_memory  *)
(* reads proposal and profile before its first UPDATE takes a lock, and    *)
(* nothing is read again.  Both decisions update the proposal first, so    *)
(* that the locks put the writes of two requests one after the other; the  *)
(* writes of a request are therefore one step, and its reads another.      *)
(***************************************************************************)
EXTENDS ProfileMemory

CONSTANTS
    Texts,         \* profile texts the owner may start with
    Learned,       \* what the LLM may extract from a sender's message
    OwnerLearned,  \* what it may extract from the owner's
    Risky,         \* items with a marker of medium or high risk
    Proposals,     \* memory_update_proposals
    Requests,      \* HTTP requests and owner messages
    NoProposal     \* target of a request that has none

ASSUME NoProposalAssumption == NoProposal \notin Proposals
ASSUME TextsAssumption == Texts \subseteq Seq(Lines)
ASSUME LearnedAssumption == Learned \subseteq Sectioned /\ OwnerLearned \subseteq Sectioned

Operations == {"none", "approve", "reject", "ownerChat", "edit"}

VARIABLES
    profile,   \* profiles.memory_context, committed
    first,     \* the text the owner started with
    proposal,  \* status of each proposal and of its row in pending_approvals
    content,   \* proposed_content, records
    entries,   \* how often a proposal's records were inserted in memory_entries
    low,       \* items inserted there without a proposal
    pc, op, target,
    read,        \* the profile text a request has read
    since,       \* proposals that were approved after it had read it
    overwritten  \* approved, and then lost from the text, or not written to it

tables  == <<profile, first, proposal, content, entries, low>>
history == <<since, overwritten>>
vars    == <<tables, pc, op, target, read, history>>

Init ==
    /\ profile \in Texts
    /\ first = profile
    /\ proposal = [p \in Proposals |-> "absent"]
    /\ content = [p \in Proposals |-> <<>>]
    /\ entries = [p \in Proposals |-> 0]
    /\ low = {}
    /\ pc = [q \in Requests |-> "idle"]
    /\ op = [q \in Requests |-> "none"]
    /\ target = [q \in Requests |-> NoProposal]
    /\ read = [q \in Requests |-> <<>>]
    /\ since = [q \in Requests |-> {}]
    /\ overwritten = {}

ItemsOf(records) == {records[i].item : i \in DOMAIN records}

-----------------------------------------------------------------------------
(* memory_update_node for anyone but the owner.  All its rows are new, so  *)
(* it is one step.  No records, nothing to do.                             *)

(* _calculate_risk looks for its markers in the text of all the records.   *)
LowRisk(records) == ItemsOf(records) \intersect Risky = {}

StoreLowRisk(l) ==
    LET records == Records(l)
    IN  /\ records # <<>>
        /\ LowRisk(records)
        /\ low' = low \union ItemsOf(records)
    /\ UNCHANGED <<profile, first, proposal, content, entries, pc, op, target, read, history>>

(* _insert_memory_proposal: the proposal and its row in pending_approvals. *)
Propose(p, l) ==
    LET records == Records(l)
    IN  /\ proposal[p] = "absent"
        /\ records # <<>>
        /\ ~LowRisk(records)
        /\ proposal' = [proposal EXCEPT ![p] = "pending"]
        /\ content' = [content EXCEPT ![p] = records]
    /\ UNCHANGED <<profile, first, entries, low, pc, op, target, read, history>>

-----------------------------------------------------------------------------
(* Requests.  A decision names any proposal that was ever listed: neither  *)
(* the dashboard nor the service looks at its status.                      *)

Busy(q) == pc[q] \in {"read", "write"}

Start(q, o, p) ==
    /\ pc[q] = "idle"
    /\ o \in {"approve", "reject"} <=> p \in Proposals
    /\ p \in Proposals => proposal[p] # "absent"
    /\ op' = [op EXCEPT ![q] = o]
    /\ target' = [target EXCEPT ![q] = p]
    /\ pc' = [pc EXCEPT ![q] = "read"]
    /\ UNCHANGED <<tables, read, history>>

(* Everything a request reads, the text in the dashboard's editor included.*)
Read(q) ==
    /\ pc[q] = "read"
    /\ read' = [read EXCEPT ![q] = profile]
    /\ pc' = [pc EXCEPT ![q] = "write"]
    /\ UNCHANGED <<tables, op, target, history>>

Done(q, o) ==
    /\ pc[q] = "write"
    /\ op[q] = o
    /\ pc' = [pc EXCEPT ![q] = "done"]
    /\ UNCHANGED <<first, content, low, op, target, read>>

(* The ORM writes an attribute only if its value differs from the loaded.  *)
WriteProfile(q, text) == profile' = IF text = read[q] THEN profile ELSE text

Applied == {p \in Proposals : entries[p] > 0}

(* A decision inserts the records and merges them into the text, whatever  *)
(* became of the proposal before.  A text that already held them is not    *)
(* written, although another one may stand in the row by now; one that did *)
(* not replaces what was approved since it was read.                       *)
CommitApproval(q) ==
    LET p    == target[q]
        text == MergeRecords(read[q], content[p])
    IN  /\ Done(q, "approve")
        /\ proposal' = [proposal EXCEPT ![p] = "approved"]
        /\ entries' = [entries EXCEPT ![p] = @ + 1]
        /\ WriteProfile(q, text)
        /\ since' = [r \in Requests |->
                        IF r # q /\ pc[r] = "write" THEN since[r] \union {p} ELSE {}]
        /\ overwritten' = IF text # read[q] THEN (overwritten \union since[q]) \ {p}
                          ELSE IF profile = read[q] THEN overwritten \ {p}
                          ELSE overwritten \union {p}

Undecided(q) == since' = [since EXCEPT ![q] = {}]

(* Mutant of CommitRejection: copied from the approval with its merge.     *)
CommitRejectionMerging(q) ==
    /\ Done(q, "reject")
    /\ proposal' = [proposal EXCEPT ![target[q]] = "rejected"]
    /\ WriteProfile(q, MergeRecords(read[q], content[target[q]]))
    /\ Undecided(q)
    /\ UNCHANGED <<entries, overwritten>>

CommitRejection(q) ==
    /\ Done(q, "reject")
    /\ proposal' = [proposal EXCEPT ![target[q]] = "rejected"]
    /\ Undecided(q)
    /\ UNCHANGED <<profile, entries, overwritten>>

(* memory_update_node for the owner: merged into the profile directly, if  *)
(* anything was extracted, blank or not.                                   *)
OwnerLearns(q, l) ==
    LET text == IF l = NothingLearned THEN read[q] ELSE Merge(read[q], l)
    IN  /\ Done(q, "ownerChat")
        /\ WriteProfile(q, text)
        /\ overwritten' = IF text = read[q] THEN overwritten ELSE overwritten \union since[q]
    /\ Undecided(q)
    /\ UNCHANGED <<proposal, entries>>

(* The dashboard's editor sends back the whole text, here with one line    *)
(* removed: the owner takes the text into his own hands.                   *)
SaveEdit(q, i) ==
    /\ Done(q, "edit")
    /\ i \in DOMAIN read[q]
    /\ profile' = RemoveAt(read[q], i)
    /\ overwritten' = overwritten \union Applied
    /\ Undecided(q)
    /\ UNCHANGED <<proposal, entries>>

(* An exception or a restart before the COMMIT leaves nothing behind.      *)
Fail(q) ==
    /\ Busy(q)
    /\ pc' = [pc EXCEPT ![q] = "done"]
    /\ Undecided(q)
    /\ UNCHANGED <<tables, op, target, read, overwritten>>

-----------------------------------------------------------------------------
Step(q) ==
    \/ \E o \in Operations \ {"none"}, p \in Proposals \union {NoProposal} :
          Start(q, o, p)
    \/ Read(q)
    \/ CommitApproval(q)
    \/ CommitRejection(q)
    \/ \E l \in OwnerLearned : OwnerLearns(q, l)
    \/ \E i \in 1 .. Len(read[q]) : SaveEdit(q, i)
    \/ Fail(q)

Quiescent ==
    /\ \A q \in Requests : pc[q] = "done"
    /\ UNCHANGED vars

Next ==
    \/ \E l \in Learned : StoreLowRisk(l) \/ \E p \in Proposals : Propose(p, l)
    \/ \E q \in Requests : Step(q)
    \/ Quiescent

Spec == Init /\ [][Next]_vars

-----------------------------------------------------------------------------
ItemLines(text) == {text[i][2] : i \in {j \in DOMAIN text : text[j][1] = "item"}}
InProfile(text) == ItemLines(text) \ {Placeholder}

(* Every variable keeps its type.                                          *)
TypeOK ==
    /\ profile \in Seq(Lines) /\ first \in Seq(Lines)
    /\ proposal \in [Proposals -> {"absent", "pending", "approved", "rejected"}]
    /\ content \in [Proposals -> Seq([type : Types, item : Items])]
    /\ entries \in [Proposals -> Nat]
    /\ low \subseteq Items
    /\ pc \in [Requests -> {"idle", "read", "write", "done"}]
    /\ op \in [Requests -> Operations]
    /\ target \in [Requests -> Proposals \union {NoProposal}]
    /\ read \in [Requests -> Seq(Lines)]
    /\ since \in [Requests -> SUBSET Proposals] /\ overwritten \subseteq Proposals

OwnerItems == UNION {ItemsOf(Records(l)) : l \in OwnerLearned}

(* However decisions, edits and the owner's chat overwrite each other, the *)
(* text that conditions every prompt holds nothing a sender said that the  *)
(* owner has not approved.                                                 *)
ProfileHoldsOnlyApproved ==
    InProfile(profile) \subseteq
        ItemLines(first) \union OwnerItems
            \union UNION {ItemsOf(content[p]) : p \in Applied}

(* What was approved is in its section of a text, or the section is full.  *)
Knows(text, records) ==
    \A i \in DOMAIN records :
        LET known == Parse(text)[SectionOfType(records[i].type)]
        IN  \/ Len(known) = MaxItems
            \/ \E j \in DOMAIN known : Key[known[j]] = Key[records[i].item]

(* However requests overlap, the profile holds what an approved proposal   *)
(* taught, or that section is full, or the owner edited the text after it, *)
(* or two requests met: one that had read the text before the approval     *)
(* wrote over it, or the approval had read a text that held it already and *)
(* did not write.                                                          *)
AppliedIsKnown == \A p \in Applied \ overwritten : Knows(profile, content[p])

(* Nothing keeps a proposal from being approved again, and its records are *)
(* inserted again.  The profile does not take them twice: such an approval *)
(* leaves it with the sections it has, or takes it back to those that were *)
(* read.                                                                   *)
ApprovingAgainTeachesNothing ==
    [][\A q \in Requests :
          /\ CommitApproval(q)
          /\ target[q] \in Applied \ (overwritten \union since[q])
          => Parse(profile') \in {Parse(profile), Parse(read[q])}]_vars

(* The merge of any text agrees with its definition by first occurrence.   *)
MergeAgrees ==
    \A l \in Learned \union OwnerLearned : FirstComeFirstKept(profile, l)
=============================================================================
