---------------------------- MODULE MCWorkerLoop ----------------------------
(* WorkerLoop with pages of one channel.                                    *)
EXTENDS WorkerLoop

MCLimits ==
  [maxSpecSize |-> 1, minimalDeposit |-> 0, minimalFee |-> 0, oneYear |-> 8,
   validators |-> {}, creators |-> {}, tokens |-> {"DAI"}]

Channel(validUntil, fee) ==
  [hashed |-> TRUE, checksummed |-> TRUE, creator |-> "advertiser", depositAsset |-> "DAI",
   depositAmount |-> 3, validUntil |-> validUntil, withdrawPeriodStart |-> 0, specSize |-> 1,
   validators |-> <<[id |-> "us", fee |-> fee], [id |-> "them", fee |-> 1]>>]

\* "new" expires before the lasting ones, which it precedes in the index;
\* the fees of "dear" are more than its deposit.
MCDef == [c \in Channels |->
  CASE c = "short" -> Channel(2, 1)
    [] c = "new" -> Channel(3, 2)
    [] c = "lasting" -> Channel(7, 1)
    [] c = "lasting2" -> Channel(8, 1)
    [] c = "dear" -> Channel(8, 3)]

MCInitialChannels == <<"short", "lasting", "lasting2">>

MCPosted == [r \in Requests |-> IF r = "other" THEN "dear" ELSE "new"]
=============================================================================
