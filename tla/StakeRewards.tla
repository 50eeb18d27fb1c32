------------------------------ MODULE StakeRewards --------------------------
(***************************************************************************)
(* How the two reward scripts divide their money among the stakers.         *)
(*                                                                         *)
(* scripts/distribute-incentives.js pays a rate per second to whoever has   *)
(* stake at that second.  scripts/distribute-rewards-old.js divides a share *)
(* of each day's payouts among the bonds it takes for active that day.      *)
(*                                                                         *)
(* The logs of the staking contract are [name, owner, amount, time], oldest *)
(* first; an owner has one bond at most.  There are no slashes.             *)
(***************************************************************************)
EXTENDS Integers, SequencesExt, FiniteSetsExt

CONSTANTS
  Owners,
  PerSecond, Starts, Ends,   \* DISTRIBUTION_REWARDS_PER_SECOND, _STARTS, _ENDS
  REWARD_NUM, REWARD_DEN,
  OPEN_FEE                   \* REWARD_CHANNEL_OPEN_FEE, INCENTIVE_CHANNEL_OPEN_FEE

ASSUME RewardsAssumption ==
  /\ IsFiniteSet(Owners)
  /\ {PerSecond, Starts, Ends, REWARD_NUM, OPEN_FEE} \subseteq Nat
  /\ Starts < Ends
  /\ REWARD_DEN \in Nat \ {0}

INCENTIVE_TO_DISTRIBUTE == PerSecond * (Ends - Starts)

Zero == [o \in Owners |-> 0]
Total(map) == MapThenSumSet(LAMBDA o : map[o], Owners)

-----------------------------------------------------------------------------
(* getDistributionForPeriod                                                 *)

\* known are the owners that have ever bonded; failed when it divides by zero.
NoLogs == [distribution |-> Zero, staked |-> Zero, bonds |-> {}, known |-> {},
           time |-> 0, failed |-> FALSE]

tally(acc, until, end) ==
  LET delta == Min({end, until}) - Max({Starts, acc.time})
  IN  IF delta <= 0 \/ acc.known = {} THEN acc
      ELSE IF Total(acc.staked) = 0 THEN [acc EXCEPT !.failed = TRUE]
      ELSE [acc EXCEPT !.distribution =
             [o \in Owners |-> @[o] + (PerSecond * delta * acc.staked[o]) \div Total(acc.staked)]]

Apply(acc, log) ==
  CASE log.name = "LogBond" ->
         [acc EXCEPT !.staked[log.owner] = @ + log.amount, !.known = @ \cup {log.owner},
                     !.bonds = @ \cup {log.owner}]
    [] log.name \in {"LogUnbondRequested", "LogUnbonded"} /\ log.owner \in acc.bonds ->
         [acc EXCEPT !.staked[log.owner] = @ - log.amount, !.bonds = @ \ {log.owner}]
    [] OTHER -> acc

\* Wrong: the time before a log is divided by the stakes after it.
StepWithNewStakes(acc, log, end) ==
  [tally(Apply(acc, log), log.time, end) EXCEPT !.time = log.time]

Step(acc, log, end) == [Apply(tally(acc, log.time, end), log) EXCEPT !.time = log.time]

getDistributionForPeriod(logs, end) ==
  tally(FoldLeft(LAMBDA acc, log : Step(acc, log, end), NoLogs, logs), end, end)

-----------------------------------------------------------------------------
(* calculateDistributionForPeriod                                           *)

\* A point is what a day's payouts leave for rewards; the first pays the fee.
Value(payouts, isFirst) ==
  (payouts * REWARD_NUM) \div REWARD_DEN - (IF isFirst THEN OPEN_FEE ELSE 0)

Logged(logs, name, owner) == {i \in DOMAIN logs : logs[i].name = name /\ logs[i].owner = owner}

\* Every bond there is counts from the beginning of time, since seconds are
\* compared with milliseconds, until its unbonding was requested.
IsActive(logs, owner, time) ==
  /\ Logged(logs, "LogBond", owner) # {}
  /\ \A i \in Logged(logs, "LogUnbondRequested", owner) : logs[i].time > time

BondOf(logs, owner) == logs[CHOOSE i \in Logged(logs, "LogBond", owner) : TRUE].amount

Shares(logs, time, value) ==
  LET active == [o \in Owners |-> IF IsActive(logs, o, time) THEN BondOf(logs, o) ELSE 0]
  IN  IF Total(active) = 0 THEN Zero
      ELSE [o \in Owners |-> (value * active[o]) \div Total(active)]

\* points: [time, value], the days of the period that paid anything.
calculateDistributionForPeriod(logs, points) ==
  [o \in Owners |-> MapThenSumSet(LAMBDA p : Shares(logs, p.time, p.value)[o], points)]
=============================================================================
