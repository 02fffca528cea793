------------------------- MODULE PublishedKnowledge -------------------------
(***************************************************************************)
(* What the governed replacement of knowledge promises: an item that is    *)
(* published disappears only after a person confirmed, against that very   *)
(* publication, that it is gone.  The abstract specification of            *)
(* CandidatePipeline.                                                      *)
(***************************************************************************)
VARIABLES published,   \* the items and payloads of the ACTIVE version
          removable    \* the published items a reviewer confirmed as removed

Init == removable = {}

Confirm ==
    /\ published' = published
    /\ \E i \in DOMAIN published : removable' = removable \cup {i}

Publish ==
    /\ DOMAIN published \ DOMAIN published' \subseteq removable
    /\ removable' = {}

Spec == Init /\ [][Confirm \/ Publish]_<<published, removable>>

=============================================================================
