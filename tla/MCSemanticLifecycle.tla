------------------------ MODULE MCSemanticLifecycle ------------------------
(***************************************************************************)
(* A screen with a state, an event of that state and two fields, one of    *)
(* them labelled like the other after a correction; the next versions add  *)
(* a field, lose the evidence or say the same.                             *)
(***************************************************************************)
EXTENDS SemanticLifecycle

None0 == 0
MCItem == 1 .. 7
MCKindOf == <<"module", "screen", "evidence", "field", "field", "state", "event">>

Row(of, label) == [of |-> of, from |-> None0, to |-> None0, via |-> None0, label |-> label]

MCBase == <<Row(0, "module"), Row(1, "title"), Row(2, "dom"), Row(2, "code"), Row(2, "name"),
            Row(2, "form"), [Row(2, "search") EXCEPT !.from = 6]>>
MCFewer == [i \in {1, 2, 4, 5} |-> MCBase[i]]
MCCorrected == [MCBase EXCEPT ![5] = Row(2, "code")]
MCContents == {MCBase, MCFewer}
MCLimit == [k \in Shown |-> 1 + 1]
MCFirstDraft == <<[says |-> "registers", refs |-> {4}], [says |-> "registers", refs |-> {7}]>>
MCDrafts == {<<[says |-> "registers", refs |-> {4}], [says |-> "finds", refs |-> {5}]>>,
             <<[says |-> "registers", refs |-> {4}]>>}

Symmetry == Permutations(Models) \cup Permutations(Reviewers)

=============================================================================
