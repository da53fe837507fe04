-------------------------- MODULE MCMemoryApproval --------------------------
(* Small instances of MemoryApproval for TLC.                              *)
EXTENDS MemoryApproval

CONSTANTS p1, p2, q1, q2, q3

MCItems == {"a", "A", "b", "prefer c", "never d", "nothing stored"}
MCKey   == [i \in MCItems |-> IF i = "A" THEN "a" ELSE i]
MCClass == [i \in MCItems |->
               CASE i \in {"prefer c", "nothing stored"} -> "preferences"
                 [] i = "never d" -> "never"
                 [] OTHER -> "rules"]

Learns(p, r, n) == [preferences |-> p, rules |-> r, never |-> n]

MCLearned == {Learns(<<>>, <<"a", "A">>, <<"never d">>), Learns(<<>>, <<"b">>, <<>>),
              Learns(<<"prefer c">>, <<>>, <<>>)}
MCRisky   == {"prefer c", "never d"}

MCOwnerLearned == {Learns(<<>>, <<>>, <<>>), Learns(<<"">>, <<>>, <<>>),
                   Learns(<<>>, <<"A">>, <<>>)}

Heading(h) == <<"heading", h>>
Item(i)    == <<"item", i>>

(* Nothing yet; free text; an own heading before an item twice and more    *)
(* rules than fit.                                                         *)
MCTexts == {<<>>,
            <<Item("never d"), Item("A")>>,
            <<Heading("never"), Item("b"), Heading("none"), Item("b"),
              Item("prefer c"), Item("a"), Item("A")>>}

TwoProposals == {p1, p2}
ThreeRequests == {q1, q2, q3}

(* The names of the requests mean nothing.                                 *)
RequestNames == Permutations(ThreeRequests)
=============================================================================
