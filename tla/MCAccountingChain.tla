-------------------------- MODULE MCAccountingChain -------------------------
EXTENDS AccountingChain

\* The follower's fee goes to an account that also earns as a publisher.
MCFees == << [addr |-> "leader", fee |-> 1], [addr |-> "pub", fee |-> 2] >>

Pay(acc, amount) == [acc |-> acc, amount |-> amount]

\* An impression, two earners in one aggregate, an earner whose payout is zero,
\* and CLOSE, which pays the whole deposit to the creator.
MCAggregates ==
  { << Pay("pub", 1) >>,
    << Pay("leader", 2), Pay("pub2", 1) >>,
    << Pay("pub2", 0) >>,
    << Pay("creator", DepositAmount) >> }
=============================================================================
