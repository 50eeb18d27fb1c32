---------------------------- MODULE BalanceTrees ----------------------------
(***************************************************************************)
(* The arithmetic of one channel: how payouts enter a balance tree, how    *)
(* validator fees leave it, which tree may follow which, and how healthy a *)
(* proposed tree looks to a validator with accounting of its own.          *)
(*                                                                         *)
(* A balance tree (a "BN map" in the code) is a function from a finite set *)
(* of accounts to natural numbers.  Its DOMAIN matters: an account with    *)
(* balance 0 is not the same as no account, see IsValidTransition.         *)
(***************************************************************************)
EXTENDS Integers, SequencesExt

CONSTANTS
  DepositAmount,  \* channel.depositAmount
  Fees            \* channel.spec.validators, as a sequence of [addr, fee],
                  \* addr standing for  v.feeAddr || v.id

TotalValidatorFee == FoldLeft(LAMBDA sum, v : sum + v.fee, 0, Fees)

\* adapters/lib.js rejects channels whose fees exceed the deposit; a deposit of
\* zero passes there (MINIMAL_DEPOSIT is 0) but divides by zero here.
ASSUME DepositAssumption ==
  /\ DepositAmount \in Nat \ {0}
  /\ DOMAIN Fees = 1..2
  /\ \A i \in DOMAIN Fees : Fees[i].fee \in Nat
  /\ TotalValidatorFee <= DepositAmount

EmptyMap == [a \in {} |-> 0]

BalanceOf(tree, acc) == IF acc \in DOMAIN tree THEN tree[acc] ELSE 0

SumMap(tree) == FoldFunction(+, 0, tree)

\* tree with amount more in acc, which it gains if it lacked it
Credit(tree, acc, amount) ==
  [a \in DOMAIN tree \cup {acc} |->
     BalanceOf(tree, a) + (IF a = acc THEN amount ELSE 0)]

-----------------------------------------------------------------------------
(* mergeAggrs: payouts are paid in order until the deposit is used up.  An  *)
(* aggregate is the sequence of its [acc, amount] payouts, a batch the      *)
(* sequence of the aggregates that a tick merges.                           *)

MergePayoutsUncapped(balances, payouts) ==
  FoldLeft(LAMBDA tree, p : Credit(tree, p.acc, p.amount), balances, payouts)

MergePayouts(balances, payouts) ==
  LET pay(tree, p) ==
        LET remaining == DepositAmount - SumMap(tree)
        IN  Credit(tree, p.acc, Min({remaining, p.amount}))
  IN  FoldLeft(pay, balances, payouts)

MergeBatch(balances, aggrs) == FoldLeft(MergePayouts, balances, aggrs)

-----------------------------------------------------------------------------
(* getBalancesAfterFeesTree: every balance is scaled down to leave room for *)
(* the fees, every division floors, and what flooring loses goes to the     *)
(* first validator once the whole deposit is distributed.                   *)

RoundingErrorNeverFixed(distributed, total) == 0

RoundingError(distributed, total) ==
  IF distributed = DepositAmount
  THEN DepositAmount - TotalValidatorFee - total
  ELSE 0

BalancesAfterFeesReplacingEarnings(balances) ==
  LET distributed == SumMap(balances)
      adjusted == [a \in DOMAIN balances |->
        (balances[a] * (DepositAmount - TotalValidatorFee)) \div DepositAmount]
      err == RoundingError(distributed, SumMap(adjusted))
      payFee(tree, i) ==
        LET fee == (Fees[i].fee * distributed) \div DepositAmount
                   + (IF i = 1 THEN err ELSE 0)
        IN  IF fee > 0 THEN [a \in DOMAIN tree \cup {Fees[i].addr} |->
                               IF a = Fees[i].addr THEN fee ELSE tree[a]]
            ELSE tree
  IN  FoldLeft(payFee, adjusted, <<1, 2>>)

BalancesAfterFees(balances) ==
  LET distributed == SumMap(balances)
      adjusted == [a \in DOMAIN balances |->
        (balances[a] * (DepositAmount - TotalValidatorFee)) \div DepositAmount]
      err == RoundingError(distributed, SumMap(adjusted))
      payFee(tree, i) ==
        LET fee == (Fees[i].fee * distributed) \div DepositAmount
                   + (IF i = 1 THEN err ELSE 0)
        IN  IF fee > 0 THEN Credit(tree, Fees[i].addr, fee) ELSE tree
  IN  FoldLeft(payFee, adjusted, <<1, 2>>)

-----------------------------------------------------------------------------
(* followerRules: what a follower accepts after prev, and how much of its   *)
(* own accounting a proposed tree agrees with.                              *)

IsValidTransition(prev, next) ==
  /\ SumMap(next) >= SumMap(prev)
  /\ SumMap(next) <= DepositAmount
  /\ \A acc \in DOMAIN prev : acc \in DOMAIN next /\ next[acc] >= prev[acc]
  /\ \A acc \in DOMAIN next : next[acc] >= 0

SumMins(our, approved) ==
  SumMap([acc \in DOMAIN our |-> Min({our[acc], BalanceOf(approved, acc)})])

HealthOfSums(our, approved) ==
  IF SumMap(approved) >= SumMap(our) THEN 1000
  ELSE 1000 - ((SumMap(our) - SumMap(approved)) * 1000) \div DepositAmount

HealthPromilles(our, approved) ==
  LET sumOur  == SumMap(our)
      sumMins == SumMins(our, approved)
  IN  IF sumMins >= sumOur THEN 1000
      ELSE 1000 - ((sumOur - sumMins) * 1000) \div DepositAmount

\* leader.js and follower.js: a tree that distributes the whole deposit
IsExhausted(tree) == SumMap(tree) = DepositAmount
=============================================================================
