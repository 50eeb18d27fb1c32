------------------------------ MODULE MCOutpace -----------------------------
(* Outpace with the trees and the arithmetic of BalanceTrees.               *)
EXTENDS Outpace, BalanceTrees

CONSTANTS Creator, Pub   \* the accounts that earn

\* All trees of the accounts within the deposit, whatever was merged into them.
MCTrees ==
  {tree \in UNION {[accs -> 0..DepositAmount] : accs \in SUBSET {Creator, Pub}} :
     SumMap(tree) <= DepositAmount}

\* The leader takes its fee at the publisher's account, the follower has none.
MCFees == << [addr |-> Pub, fee |-> 1], [addr |-> Creator, fee |-> 0] >>

Pays(acc, amount) == << [acc |-> acc, amount |-> amount] >>

\* Half the deposit to the publisher; CLOSE, the whole deposit to the creator.
MCAggregates == { Pays(Pub, 2), Pays(Creator, DepositAmount) }

\* The operators of BalanceTrees, tabulated once for all arguments.
MergeTable ==
  [tree \in MCTrees |->
     [batch \in BoundedSeq(MCAggregates, 2) |-> MergeBatch(tree, batch)]]
AfterFeesTable == [tree \in MCTrees |-> BalancesAfterFees(tree)]
TransitionTable ==
  [prev \in MCTrees |-> [next \in MCTrees |-> IsValidTransition(prev, next)]]
HealthTable ==
  [our \in MCTrees |-> [approved \in MCTrees |-> HealthPromilles(our, approved)]]
FullTable == [tree \in MCTrees |-> IsExhausted(tree)]

MCMergeAggrs(tree, batch) == MergeTable[tree][batch]
MCAfterFees(tree) == AfterFeesTable[tree]
MCValidTransition(prev, next) == TransitionTable[prev][next]
MCHealth(our, approved) == HealthTable[our][approved]
MCFull(tree) == FullTable[tree]

TicksSymmetry == Permutations(FollowerTicks)

MCMaxAggrs == [v \in {Leader, Follower} |-> IF v = Leader THEN 2 ELSE 1]

Proposal(balances, root, signed) ==
  [type |-> "NewState", balances |-> balances, stateRoot |-> root,
   signed |-> signed, exhausted |-> IsExhausted(balances)]

Tree(creator, pub) == [a \in {Creator, Pub} |-> IF a = Creator THEN creator ELSE pub]

\* test/integration.js "RejectState": a deceptive root, a wrong signature, a
\* tree that takes from the publisher.
Deceptive == Proposal(Tree(3, 1), BadRoot, TRUE)
Forged == Proposal(Tree(0, 2), Tree(0, 2), FALSE)
Regressing == Proposal(Tree(1, 0), Tree(1, 0), TRUE)

MCMisreports == {Deceptive, Forged, Regressing}
NoMisreports == {}
=============================================================================
