--------------------------- MODULE ApprovedLedger ---------------------------
(***************************************************************************)
(* What one channel promises its earners, with everything between the two  *)
(* validators left out: the leader may propose any balance tree, and the   *)
(* approved tree only ever moves to a proposed one, by a transition the    *)
(* OUTPACE rules allow.  Outpace implements this ledger at the follower's  *)
(* sentry, see Outpace!FollowerLedger.                                     *)
(***************************************************************************)
CONSTANTS
  Trees,                  \* balance trees
  EmptyTree,              \* the tree before anything was earned
  ValidTransition(_, _)   \* may the second tree replace the first?

VARIABLES
  proposed,   \* trees the leader has vouched for
  approved    \* the last tree both validators vouched for

Init == proposed = {} /\ approved = EmptyTree

Propose(tree) ==
  /\ proposed' = proposed \cup {tree}
  /\ UNCHANGED approved

Approve(tree) ==
  /\ tree \in proposed
  /\ ValidTransition(approved, tree)
  /\ approved' = tree
  /\ UNCHANGED proposed

Next == \E tree \in Trees : Propose(tree) \/ Approve(tree)

Spec == Init /\ [][Next]_<<proposed, approved>>
=============================================================================
