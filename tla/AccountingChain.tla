--------------------------- MODULE AccountingChain --------------------------
(***************************************************************************)
(* The Accounting messages the leader and the follower each produce for    *)
(* one channel, as functions of the event aggregates each of them merges.  *)
(* The two see different aggregates in different orders, so the module is  *)
(* the reference for what the arithmetic of BalanceTrees has to guarantee  *)
(* when the follower judges a tree of the leader's by a tree of its own.   *)
(***************************************************************************)
EXTENDS BalanceTrees

CONSTANTS
  Validators,   \* the two validators of the channel
  Aggregates    \* event aggregates, each the sequence of its payouts

\* eventAggregates.events carries what the payment rules computed, never a negative
\* amount.
ASSUME AggregatesAssumption ==
  \A aggr \in Aggregates :
    /\ Len(aggr) \in Nat /\ DOMAIN aggr = 1..Len(aggr)
    /\ \A i \in DOMAIN aggr : aggr[i].amount \in Nat

VARIABLE accounting   \* the latest Accounting message of each validator

Init ==
  accounting =
    [v \in Validators |-> [balancesBeforeFees |-> EmptyMap, balances |-> EmptyMap]]

\* producer.tick with one aggregate; a batch of several is as many steps.
\* Its two trees travel between the steps as decimal strings (toBNStringMap,
\* toBNMap), which keep every non-negative balance; a negative one throws.
MergeAggrs(v, aggr) ==
  LET beforeFees == MergePayouts(accounting[v].balancesBeforeFees, aggr)
  IN  accounting' =
        [accounting EXCEPT ![v] = [balancesBeforeFees |-> beforeFees,
                                   balances |-> BalancesAfterFees(beforeFees)]]

Next == \E v \in Validators, aggr \in Aggregates : MergeAggrs(v, aggr)

Spec == Init /\ [][Next]_accounting

-----------------------------------------------------------------------------
\* What a validator owes never exceeds the deposit, before and after fees, and
\* fees are taken out of the earnings, never added on top of them
\* (mergePayoutsIntoBalances' cap, the flooring in getBalancesAfterFeesTree).
NeverOverspends ==
  \A v \in Validators :
    LET a == accounting[v]
    IN  /\ SumMap(a.balancesBeforeFees) <= DepositAmount
        /\ SumMap(a.balances) <= SumMap(a.balancesBeforeFees)

\* Flooring never strands money: once the events have used up the deposit, the
\* tree that is signed distributes all of it too, which is what leader.js and
\* follower.js test to declare the channel exhausted.
ExhaustedWhenDepositIsSpent ==
  \A v \in Validators :
    IsExhausted(accounting[v].balances)
      <=> IsExhausted(accounting[v].balancesBeforeFees)

\* A validator's own successive trees always satisfy the OUTPACE transition
\* rules: rounding, fees credited to an account that also earns, and the final
\* rounding correction never shrink or drop an account.  So a follower never
\* answers InvalidTransition to a leader that merely keeps counting.
OwnTreesAreValidTransitions ==
  [][\A v \in Validators :
       IsValidTransition(accounting[v].balances, accounting'[v].balances)]_accounting

\* Health is 1000 when the proposed tree gives every account of ours at least
\* what we counted for it, less than that once a single account misses a
\* promille of the deposit, and always within 0..1000: equal sums paid to
\* different earners do not make a tree healthy (getHealthPromilles, sumMins).
PerfectHealthMeansAgreement ==
  \A our, their \in Validators :
    LET ours == accounting[our].balances
        theirs == accounting[their].balances
    IN  /\ HealthPromilles(ours, theirs) \in 0..1000
        /\ (\A acc \in DOMAIN ours : BalanceOf(theirs, acc) >= ours[acc])
             => HealthPromilles(ours, theirs) = 1000
        /\ (\E acc \in DOMAIN ours :
                1000 * (ours[acc] - BalanceOf(theirs, acc)) >= DepositAmount)
             => HealthPromilles(ours, theirs) < 1000
=============================================================================
