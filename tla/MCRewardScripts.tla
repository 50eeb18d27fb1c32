---------------------------- MODULE MCRewardScripts -------------------------
(* RewardScripts with two stakers, one with twice the stake of the other.    *)
EXTENDS RewardScripts, TLC

MCAmountOf == ("ann" :> 1) @@ ("bob" :> 2)

\* Two months: a steady history, and one whose second month paid less on its
\* first day than the fee.
MCHistories == {<<6, 4, 6, 6>>, <<6, 0, 1, 2>>}
=============================================================================
