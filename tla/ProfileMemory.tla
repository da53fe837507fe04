--------------------------- MODULE ProfileMemory ---------------------------
(***************************************************************************)
(* The owner's long-term memory, a markdown text in profiles.memory_context*)
(* that code reads, merges and renders (services/conversation_memory.py).  *)
(*                                                                         *)
(* A text is a sequence of lines, each a heading or an item; the title line*)
(* and blank lines carry nothing.  A heading names a section or is "none". *)
(* Items are compared by Key (their text in lower case).                   *)
(***************************************************************************)
EXTENDS Naturals, SequencesExt

CONSTANTS
    Items,       \* item texts
    Key,         \* Items -> what they are compared by
    Class,       \* Items -> section, for a line under no known heading
    MaxItems,    \* _PROFILE_MEMORY_MAX_ITEMS
    Blank,       \* an item of white space
    Placeholder  \* "No durable learned preferences or rules stored yet."

ASSUME MaxItemsAssumption == MaxItems \in Nat \ {0}
ASSUME ItemsAssumption == Placeholder \in Items /\ Blank \notin Items

Sections == {"preferences", "rules", "never"}

ASSUME ClassAssumption == /\ DOMAIN Key = Items
                          /\ Class \in [Items -> Sections]

(* A line is a heading of the text or an item; learned items are grouped by*)
(* section, and what the LLM returns may be white space.                   *)
Lines     == ({"heading"} \X (Sections \union {"none"})) \union ({"item"} \X Items)
Sectioned == [Sections -> Seq(Items \union {Blank})]

NothingLearned == [s \in Sections |-> <<>>]

(* Mutants of Dedupe: of two items with one key the later is kept; white   *)
(* space is an item like any other.                                        *)
DedupeLast(items) ==
    FoldLeft(LAMBDA out, item :
                 IF item = Blank THEN out
                 ELSE Append(SelectSeq(out, LAMBDA o : Key[o] # Key[item]), item),
             <<>>, items)

DedupeKeepingBlank(items) ==
    FoldLeft(LAMBDA out, item :
                 IF item \in ToSet(out) THEN out ELSE Append(out, item),
             <<>>, items)

(* The first of the items with one key is kept, white space is dropped.    *)
Dedupe(items) ==
    FoldLeft(LAMBDA out, item :
                 IF item = Blank \/ \E i \in DOMAIN out : Key[out[i]] = Key[item]
                 THEN out ELSE Append(out, item),
             <<>>, items)

(* Mutant of Capped: the list is cut, but nobody looks for duplicates.     *)
CappedOnly(items) ==
    IF Len(items) > MaxItems THEN SubSeq(items, 1, MaxItems) ELSE items

Capped(items) ==
    LET d == Dedupe(items)
    IN  IF Len(d) > MaxItems THEN SubSeq(d, 1, MaxItems) ELSE d

(* parse_profile_memory: a line belongs to the section of the heading above*)
(* it, or else to the one its wording suggests.                            *)
Parse(text) ==
    LET Add(acc, line) ==
            IF line[1] = "heading" THEN [acc EXCEPT !.under = line[2]]
            ELSE LET s == IF acc.under \in Sections THEN acc.under
                          ELSE Class[line[2]]
                 IN  [acc EXCEPT !.found[s] = Append(@, line[2])]
        read == FoldLeft(Add, [under |-> "none", found |-> NothingLearned], text)
    IN  [s \in Sections |-> Capped(read.found[s])]

(* render_profile_memory.  A text without any item gets a line that says   *)
(* so; the next parse reads that line as an item.                          *)
Render(sections) ==
    LET Part(s) ==
            LET items == Capped(sections[s])
            IN  IF items = <<>> THEN <<>>
                ELSE <<<<"heading", s>>>> \o [i \in DOMAIN items |-> <<"item", items[i]>>]
        lines == Part("preferences") \o Part("rules") \o Part("never")
    IN  IF lines = <<>> THEN <<<<"item", Placeholder>>>> ELSE lines

(* merge_profile_memory.                                                   *)
Merge(text, learned) ==
    LET known == Parse(text)
    IN  Render([s \in Sections |-> known[s] \o learned[s]])

Types == {"learned_preference", "learned_rule", "never_rule"}

(* _build_memory_records: what was extracted, deduplicated by kind.        *)
SectionOfType(type) ==
    CASE type = "never_rule" -> "never"
      [] type = "learned_preference" -> "preferences"
      [] OTHER -> "rules"

Records(learned) ==
    LET Of(type) == LET items == Dedupe(learned[SectionOfType(type)])
                    IN  [i \in DOMAIN items |-> [type |-> type, item |-> items[i]]]
    IN  Of("learned_preference") \o Of("learned_rule") \o Of("never_rule")

(* merge_profile_memory_records: back from records to sections.  In the    *)
(* mutant, never rules are not among the known types.                      *)
BySectionWithoutNever(records) ==
    LET Add(found, r) ==
            IF r.type = "never_rule" THEN found
            ELSE [found EXCEPT ![SectionOfType(r.type)] = Append(@, r.item)]
    IN  FoldLeft(Add, NothingLearned, records)

BySection(records) ==
    LET Add(found, r) == [found EXCEPT ![SectionOfType(r.type)] = Append(@, r.item)]
    IN  FoldLeft(Add, NothingLearned, records)

MergeRecords(text, records) == Merge(text, BySection(records))

-----------------------------------------------------------------------------
(* Reference: the first MaxItems items whose key has not occurred before.  *)
FirstDistinct(items) ==
    LET new == {i \in DOMAIN items :
                   /\ items[i] # Blank
                   /\ \A j \in 1 .. i - 1 :
                         items[j] # Blank => Key[items[j]] # Key[items[i]]}
        kept == Min({MaxItems, Cardinality(new)})
        Place(n) == CHOOSE i \in new : Cardinality({j \in new : j <= i}) = n
    IN  [n \in 1 .. kept |-> items[Place(n)]]

(* Merging into any text keeps, in every section and in their order, the   *)
(* first distinct items of what the text says followed by what was learned.*)
FirstComeFirstKept(text, learned) ==
    LET merged == [s \in Sections |-> FirstDistinct(Parse(text)[s] \o learned[s])]
    IN  merged # NothingLearned => Parse(Merge(text, learned)) = merged
=============================================================================
