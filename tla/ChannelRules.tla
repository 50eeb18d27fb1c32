----------------------------- MODULE ChannelRules ---------------------------
(***************************************************************************)
(* Which channels a Sentry takes: the schema of POST /channel and           *)
(* validateChannel of the adapters.  These rules are what the rest of the   *)
(* system relies on, BalanceTrees!DepositAssumption above all.              *)
(*                                                                         *)
(* A channel is a record.  A field of type BOOLEAN stands for a check of    *)
(* the contents: hashed, that the id is the hash of the channel;            *)
(* checksummed, that its addresses are.                                     *)
(***************************************************************************)
EXTENDS Naturals, Sequences, SequencesExt

CONSTANTS
  Us,     \* adapter.whoami()
  Limits  \* the part of cfg that limits channels; an empty whitelist lets all pass

ASSUME LimitsAssumption ==
  /\ Limits.maxSpecSize \in Nat /\ Limits.minimalDeposit \in Nat /\ Limits.minimalFee \in Nat
  /\ Limits.oneYear \in Nat

\* The schema: exactly two validators, numericString admits naturals only.
WellFormed(ch) ==
  /\ Len(ch.validators) = 2
  /\ ch.depositAmount \in Nat
  /\ \A i \in DOMAIN ch.validators : ch.validators[i].fee \in Nat

IsOurs(ch) == \E i \in DOMAIN ch.validators : ch.validators[i].id = Us

\* find() takes the first of two equal entries.
OurFee(ch) == ch.validators[IF ch.validators[1].id = Us THEN 1 ELSE 2].fee

\* isChannelValid compares with the clock when it is called, and only then.
InTime(ch, now) ==
  /\ ch.validUntil > now
  /\ ch.validUntil <= now + Limits.oneYear
  /\ ch.withdrawPeriodStart < ch.validUntil

Listed(x, whitelist) == whitelist = {} \/ x \in whitelist

Whitelisted(ch) ==
  /\ \A i \in DOMAIN ch.validators :
       ch.validators[i].id = Us \/ Listed(ch.validators[i].id, Limits.validators)
  /\ Listed(ch.creator, Limits.creators)
  /\ Listed(ch.depositAsset, Limits.tokens)

TotalFee(ch) == FoldLeft(LAMBDA sum, v : sum + v.fee, 0, ch.validators)

\* Wrong: a deposit that covers the fee of each validator, though not of both.
PaysEachFee(ch) ==
  /\ ch.depositAmount >= Limits.minimalDeposit
  /\ OurFee(ch) >= Limits.minimalFee
  /\ \A i \in DOMAIN ch.validators : ch.validators[i].fee <= ch.depositAmount

\* What it pays: a minimum in all and to us, and never more fees than deposit.
PaysEnough(ch) ==
  /\ ch.depositAmount >= Limits.minimalDeposit
  /\ OurFee(ch) >= Limits.minimalFee
  /\ TotalFee(ch) <= ch.depositAmount

IsChannelValid(ch, now) ==
  /\ IsOurs(ch)
  /\ InTime(ch, now)
  /\ Whitelisted(ch)
  /\ ch.specSize <= Limits.maxSpecSize
  /\ PaysEnough(ch)

\* The Ethereum adapter up to its question to the chain, which is all that
\* POST /channel/validate asks.
PreValidated(ch, now) == ch.hashed /\ ch.checksummed /\ IsChannelValid(ch, now)
=============================================================================
