----------------------------- MODULE RewardScripts --------------------------
(***************************************************************************)
(* The two scripts that reward stakers, which an operator runs now and then *)
(* for one distribution identity.  Both work out what everyone gets, open a *)
(* channel with that money through the relayer, and store a record with the *)
(* signed balances, by which stakers withdraw.  rewards-old opens a channel *)
(* for every month that is over, incentives one channel for all of its      *)
(* time, whose balances it signs anew in each run.                          *)
(*                                                                         *)
(* The relayer and the contracts are external: a transaction is executed if *)
(* its nonce is the identity's, its channel is not open and the money is    *)
(* there.  Days are the unit of time.                                       *)
(***************************************************************************)
EXTENDS StakeRewards

CONSTANTS
  DaysInMonth,
  Histories,   \* what the analytics may say, day by day, was paid
  AmountOf,    \* owner |-> what it bonds
  Deposits,    \* what the identity may have
  MaxTime, MaxLogs, MaxRuns, MaxFaults  \* bounds

ASSUME ScriptsAssumption ==
  /\ DaysInMonth \in Nat \ {0}
  /\ Histories \subseteq [1..MaxTime -> Nat] /\ Deposits \subseteq Nat
  /\ AmountOf \in [Owners -> Nat]
  /\ {MaxTime, MaxLogs, MaxRuns, MaxFaults} \subseteq Nat

Scripts == {"rewards", "incentives"}

VARIABLES
  now,
  paid,      \* per day: what the analytics say of it when it is over
  logs,      \* of the staking contract
  identity,  \* on chain: [nonce, funds], funds in the token fees are paid in
  channels,  \* open on chain: [script, month, amount]
  records,   \* rewardChannels: [channel, balances]
  run,       \* per script
  runs, faults,
  disturbed  \* channels of the runs that died in opening or recording them

vars == <<now, paid, logs, identity, channels, records, run, runs, faults, disturbed>>
world == <<now, paid, logs>>
chain == <<identity, channels>>
counts == <<runs, faults>>

\* A script's run: how far it is, with which jobs left, and the nonce it was told.
At(pc, todo, nonce) == [pc |-> pc, todo |-> todo, nonce |-> nonce]

Off == At("off", <<>>, 0)

Job(script, month, amount, balances) ==
  [channel |-> [script |-> script, month |-> month, amount |-> amount], balances |-> balances]

-----------------------------------------------------------------------------
(* The world.                                                               *)

PassDay ==
  /\ now < MaxTime
  /\ now' = now + 1
  /\ UNCHANGED <<paid, logs, chain, records, run, counts, disturbed>>

Log(name, owner) ==
  /\ Len(logs) < MaxLogs
  /\ logs' = Append(logs, [name |-> name, owner |-> owner, amount |-> AmountOf[owner],
                         time |-> now])
  /\ UNCHANGED <<now, paid, chain, records, run, counts, disturbed>>

Bond(owner) ==
  /\ Logged(logs, "LogBond", owner) = {}
  /\ Log("LogBond", owner)

RequestUnbond(owner) ==
  /\ Logged(logs, "LogBond", owner) # {} /\ Logged(logs, "LogUnbondRequested", owner) = {}
  /\ Log("LogUnbondRequested", owner)

Unbond(owner) ==
  /\ Logged(logs, "LogUnbondRequested", owner) # {} /\ Logged(logs, "LogUnbonded", owner) = {}
  /\ Log("LogUnbonded", owner)

-----------------------------------------------------------------------------
(* rewards-old: what is to be done                                          *)

Recorded(script) == {r \in records : r.channel.script = script}

RecordedMonths == {r.channel.month : r \in Recorded("rewards")}

\* Wrong: the last month again.
StartWithLastMonth == IF RecordedMonths = {} THEN 0 ELSE Max(RecordedMonths)

StartMonth == IF RecordedMonths = {} THEN 0 ELSE Max(RecordedMonths) + 1

\* The month that is not over is left out.
Months == StartMonth..(now \div DaysInMonth) - 1

\* The route takes both ends: what was summed up at the end of a month is the
\* first day of the next one too.  Day d is summed up at its end.
DaysOf(month) ==
  {d \in month * DaysInMonth..(month + 1) * DaysInMonth : d \in 1..now /\ paid[d] > 0}

Points(month) ==
  {[time |-> d, value |-> Value(paid[d], d = Min(DaysOf(month)))] : d \in DaysOf(month)}

\* Wrong: without the assertion.
IsComputableUnasserted(month) == DaysOf(month) # {}

\* The script throws if a month paid nothing at all, or its first day less than
\* the fee.
IsComputable(month) == DaysOf(month) # {} /\ \A p \in Points(month) : p.value >= 0

MonthJob(month) ==
  LET balances == calculateDistributionForPeriod(logs, Points(month))
  IN  Job("rewards", month, Total(balances), balances)

\* Each month costs a fee, but one is counted.
Cost(jobs) == FoldLeft(LAMBDA sum, job : sum + job.channel.amount, OPEN_FEE, jobs)

StartRewards ==
  /\ run["rewards"].pc = "off" /\ runs < MaxRuns
  /\ Months # {} /\ \A month \in Months : IsComputable(month)
  /\ LET jobs == [k \in 1..Cardinality(Months) |-> MonthJob(StartMonth + k - 1)]
     IN  /\ Cost(jobs) <= identity.funds
         /\ run' = [run EXCEPT !["rewards"] = At("asking", jobs, 0)]
  /\ runs' = runs + 1
  /\ UNCHANGED <<world, chain, records, faults, disturbed>>

-----------------------------------------------------------------------------
(* incentives: what is to be done                                           *)

Incentives == getDistributionForPeriod(logs, Min({now, Ends}))

StartIncentives ==
  /\ run["incentives"].pc = "off" /\ runs < MaxRuns
  /\ LET computed == Incentives
         job == Job("incentives", 0, INCENTIVE_TO_DISTRIBUTE, computed.distribution)
     IN  /\ ~computed.failed
         /\ Total(computed.distribution) <= INCENTIVE_TO_DISTRIBUTE
         /\ run' = [run EXCEPT !["incentives"] =
              At(IF Recorded("incentives") = {} THEN "asking" ELSE "recording", <<job>>, 0)]
  /\ runs' = runs + 1
  /\ UNCHANGED <<world, chain, records, faults, disturbed>>

-----------------------------------------------------------------------------
(* Both: open the channel of the next job and record it.                    *)

Next1(script) == Head(run[script].todo)

AskNonce(script) ==
  /\ run[script].pc = "asking"
  /\ run' = [run EXCEPT ![script] = At("opening", @.todo, identity.nonce)]
  /\ UNCHANGED <<world, chain, records, counts, disturbed>>

\* The fee and what a month pays are of one token, the incentives of another.
Price(job) ==
  OPEN_FEE + IF job.channel.script = "rewards" THEN job.channel.amount ELSE 0

IsExecuted(script) ==
  LET job == Next1(script)
  IN  /\ run[script].nonce = identity.nonce
      /\ job.channel \notin channels
      /\ Price(job) <= identity.funds

Execute(script) ==
  /\ IsExecuted(script)
  /\ identity' = [nonce |-> identity.nonce + 1, funds |-> identity.funds - Price(Next1(script))]
  /\ channels' = channels \cup {Next1(script).channel}

Open(script) ==
  /\ run[script].pc = "opening"
  /\ Execute(script)
  /\ run' = [run EXCEPT ![script] = At("recording", @.todo, @.nonce)]
  /\ UNCHANGED <<world, records, counts, disturbed>>

\* The relayer's error ends the run.
FailToOpen(script) ==
  /\ run[script].pc = "opening"
  /\ ~IsExecuted(script)
  /\ run' = [run EXCEPT ![script] = Off]
  /\ UNCHANGED <<world, chain, records, counts, disturbed>>

\* Wrong: a new record beside the old one.
RecordsWithAnother(job) == records \cup {job}

\* incentives replaces the record of its channel (upsert).
RecordsWith(job) == {r \in records : r.channel # job.channel} \cup {job}

SaveRecord(script) ==
  /\ run[script].pc = "recording"
  /\ records' = RecordsWith(Next1(script))
  /\ LET rest == Tail(run[script].todo)
     IN  run' = [run EXCEPT ![script] = IF rest = <<>> THEN Off ELSE At("asking", rest, 0)]
  /\ UNCHANGED <<world, chain, counts, disturbed>>

\* The run dies: before or after the transaction is executed, or before the record
\* of an open channel is stored.
Die(script) ==
  /\ run[script].pc # "off" /\ faults < MaxFaults
  /\ faults' = faults + 1
  /\ \/ /\ run[script].pc = "opening" /\ Execute(script)
        /\ disturbed' = disturbed \cup {Next1(script).channel}
     \/ /\ UNCHANGED chain
        /\ disturbed' = IF run[script].pc = "recording"
                        THEN disturbed \cup {Next1(script).channel} ELSE disturbed
  /\ run' = [run EXCEPT ![script] = Off]
  /\ UNCHANGED <<world, records, runs>>

-----------------------------------------------------------------------------
Init ==
  /\ now = 0
  /\ paid \in Histories /\ logs = <<>>
  /\ identity \in [nonce : {0}, funds : Deposits]
  /\ channels = {} /\ records = {}
  /\ run = [s \in Scripts |-> Off]
  /\ runs = 0 /\ faults = 0
  /\ disturbed = {}

Next ==
  \/ PassDay
  \/ \E o \in Owners : Bond(o) \/ RequestUnbond(o) \/ Unbond(o)
  \/ StartRewards \/ StartIncentives
  \/ \E s \in Scripts : AskNonce(s) \/ Open(s) \/ FailToOpen(s) \/ SaveRecord(s) \/ Die(s)

Spec == Init /\ [][Next]_vars

-----------------------------------------------------------------------------
(* Properties.                                                              *)

Jobs == UNION {ToSet(run[s].todo) : s \in Scripts}

TypeOK ==
  /\ now \in 0..MaxTime /\ paid \in Histories
  /\ identity.funds >= 0
  /\ \A r \in records \cup Jobs :
       r.channel.script \in Scripts /\ r.channel.amount \in Nat /\ r.balances \in [Owners -> Nat]
  /\ \A s \in Scripts :
       /\ run[s].pc \in {"off", "asking", "opening", "recording"}
       /\ run[s].pc = "off" <=> run[s].todo = <<>>
  /\ disturbed \subseteq channels

\* What is signed can be withdrawn: the record's channel is open and holds the
\* balances.  There is one record of a channel.
RecordsAreBacked ==
  /\ \A r \in records : r.channel \in channels /\ Total(r.balances) <= r.channel.amount
  /\ \A r, q \in records : r.channel = q.channel => r = q

\* The months are rewarded in their order, and a month is rewarded by one channel,
\* unless a run died between opening and recording it.
OneChannelPerMonth ==
  /\ RecordedMonths = 0..Cardinality(RecordedMonths) - 1
  /\ \A c, d \in {x \in channels : x.script = "rewards"} :
       c.month = d.month /\ c # d => {c, d} \cap disturbed # {}

\* What a staker was once signed for is never taken back, whoever bonds or unbonds
\* later: an earlier tree of the incentives' channel is still as valid.
SignedTreesOnlyGrow ==
  [][\A r \in records, q \in records' :
       r.channel = q.channel => \A o \in Owners : r.balances[o] <= q.balances[o]]_vars
=============================================================================
