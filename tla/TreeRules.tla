------------------------------ MODULE TreeRules -----------------------------
(***************************************************************************)
(* What the protocol of Outpace relies on of the arithmetic on balance     *)
(* trees, and no more: the rules are parameters here, and what is asked of *)
(* them are definitions.  Outpace assumes them of whatever it is given;    *)
(* AccountingChainProofs shows that BalanceTrees, what the code computes,  *)
(* meets them.                                                             *)
(***************************************************************************)
EXTENDS Integers, Sequences

CONSTANTS
  Trees, EmptyTree,             \* balance trees, {} in the code
  MergeAggrs(_, _),             \* mergeAggrs on balancesBeforeFees and a batch
  AfterFees(_),                 \* getBalancesAfterFeesTree
  ValidTransition(_, _),        \* isValidTransition(channel, prev, next)
  Health(_, _),                 \* getHealthPromilles(channel, our, approved)
  Full(_)                       \* the tree's sum equals depositAmount

\* What is computed of trees is a tree, whatever batches are merged.
TreesAreClosed(batches) ==
  /\ EmptyTree \in Trees
  /\ \A tree \in Trees : AfterFees(tree) \in Trees
  /\ \A tree \in Trees, batch \in batches : MergeAggrs(tree, batch) \in Trees
  /\ \A tree \in Trees : Full(tree) \in BOOLEAN
  /\ \A our, tree \in Trees : Health(our, tree) \in Int

\* What may follow some tree may also be the first.
AnyTreeFollowsTheEmptyOne ==
  \A prev, next \in Trees : ValidTransition(prev, next) => ValidTransition(EmptyTree, next)

\* A merge goes on from where the one before it ended, so that two batches count as one
\* of both.
MergingGoesOn(histories) ==
  /\ MergeAggrs(EmptyTree, <<>>) = EmptyTree
  /\ \A history \in histories : \A k \in 0..Len(history) :
       MergeAggrs(MergeAggrs(EmptyTree, SubSeq(history, 1, k)),
                  SubSeq(history, k + 1, Len(history)))
         = MergeAggrs(EmptyTree, history)

\* What is counted in addition never makes a proposal healthier.
CountingMoreIsStricter(batches) ==
  \A our, tree \in Trees, batch \in batches :
    Health(AfterFees(MergeAggrs(our, batch)), tree) <= Health(AfterFees(our), tree)
=============================================================================
