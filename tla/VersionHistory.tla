--------------------------- MODULE VersionHistory ---------------------------
(***************************************************************************)
(* What the promotion of knowledge versions promises: at most one version  *)
(* is published, a version is published at most once and, once replaced,   *)
(* is retired for good.  The abstract specification of the version column  *)
(* of KnowledgeGovernance.                                                 *)
(***************************************************************************)
CONSTANTS Versions,  \* the versions that may be published
          None       \* nothing is published yet

VARIABLES current,   \* the published version, or None
          retired    \* the versions that were published before

Init ==
    /\ current = None
    /\ retired = {}

Publish(v) ==
    /\ v \notin retired \cup {current}
    /\ current' = v
    /\ retired' = retired \cup ({current} \ {None})

Next == \E v \in Versions : Publish(v)

Spec == Init /\ [][Next]_<<current, retired>>

=============================================================================
