------------------------- MODULE RewardScriptsProofs -------------------------
(***************************************************************************)
(* Theorems about RewardScripts, for any stakers, histories, deposits and   *)
(* faults: of the months, of which nothing is used of what the scripts work *)
(* out; of what the scripts work out, StakeRewards, which is a sum over     *)
(* points and a fold over logs; and, from both, of what is signed.          *)
(***************************************************************************)
EXTENDS RewardScripts, FoldTheorems, SequenceTheorems

\* A run of script s: it holds jobs of that script, and none when it is off.
IsRun(s, r) ==
  /\ \E S : r.todo \in Seq(S)
  /\ r.pc = "off" => r.todo = <<>>
  /\ r.pc # "off" => r.todo # <<>>
  /\ \A k \in 1..Len(r.todo) : r.todo[k].channel.script = s

RunInv == DOMAIN run = Scripts /\ \A s \in Scripts : IsRun(s, run[s])

MonthChannels == {c \in channels : c.script = "rewards"}

\* A run of rewards-old goes on from the first month that is not recorded, and
\* the channel of a later month is one that it is about to record, or disturbed.
MonthInv ==
  /\ \E n \in Nat : RecordedMonths = 0..n - 1
  /\ \A k \in 1..Len(run["rewards"].todo) :
       run["rewards"].todo[k].channel.month = StartMonth + k - 1
  /\ \A c \in MonthChannels \ disturbed :
       \/ c.month \in RecordedMonths
       \/ run["rewards"].pc = "recording" /\ c = Next1("rewards").channel
  /\ \A c, d \in MonthChannels \ disturbed : c.month = d.month => c = d

OrderInv == RunInv /\ MonthInv /\ now \in Nat

-----------------------------------------------------------------------------
(* Months.                                                                  *)

LEMMA LastMonth ==
  ASSUME NEW n \in Nat
  PROVE  IF n = 0 THEN 0..n - 1 = {} ELSE 0..n - 1 # {} /\ Max(0..n - 1) = n - 1
<1>1. CASE n = 0
  BY <1>1
<1>2. CASE n # 0
  <2>1. n - 1 \in 0..n - 1 /\ \A m \in 0..n - 1 : n - 1 >= m
    BY <1>2
  <2>2. ASSUME NEW x \in 0..n - 1, \A m \in 0..n - 1 : x >= m PROVE x = n - 1
    BY <2>1, <2>2
  <2> QED BY <1>2, <2>1, <2>2 DEF Max
<1> QED BY <1>1, <1>2

LEMMA StartMonthIsNext ==
  ASSUME NEW n \in Nat, RecordedMonths = 0..n - 1
  PROVE  StartMonth = n
BY LastMonth DEF StartMonth

LEMMA NextStartMonth ==
  ASSUME NEW n \in Nat, RecordedMonths' = 0..n - 1
  PROVE  StartMonth' = n
BY LastMonth DEF StartMonth

\* The month that is next is a number and is not recorded.
LEMMA StartMonthIsNew ==
  ASSUME MonthInv
  PROVE  StartMonth \in Nat /\ StartMonth \notin RecordedMonths /\ RecordedMonths = 0..StartMonth - 1
<1>1. PICK n \in Nat : RecordedMonths = 0..n - 1
  BY DEF MonthInv
<1>2. StartMonth = n
  BY <1>1, StartMonthIsNext
<1> QED BY <1>1, <1>2

\* A record is of its job's month, and takes the place of one of the same channel.
LEMMA RecordedMonthsWith ==
  ASSUME NEW job, records' = RecordsWith(job)
  PROVE  RecordedMonths' =
           IF job.channel.script = "rewards" THEN RecordedMonths \cup {job.channel.month}
           ELSE RecordedMonths
<1>1. \A r \in records : r \in records' \/ r.channel = job.channel
  BY DEF RecordsWith
<1>2. job \in records' /\ \A r \in records' : r \in records \/ r = job
  BY DEF RecordsWith
<1>3. ASSUME NEW m \in RecordedMonths PROVE m \in RecordedMonths'
  <2>1. PICK r \in records : r.channel.script = "rewards" /\ m = r.channel.month
    BY <1>3 DEF RecordedMonths, Recorded
  <2>2. r \in records' \/ r.channel = job.channel
    BY <1>1
  <2> QED BY <1>2, <2>1, <2>2 DEF RecordedMonths, Recorded
<1>4. ASSUME NEW m \in RecordedMonths'
      PROVE  m \in RecordedMonths \/ (job.channel.script = "rewards" /\ m = job.channel.month)
  <2>1. PICK r \in records' : r.channel.script = "rewards" /\ m = r.channel.month
    BY <1>4 DEF RecordedMonths, Recorded
  <2> QED BY <1>2, <2>1 DEF RecordedMonths, Recorded
<1>5. ASSUME job.channel.script = "rewards" PROVE job.channel.month \in RecordedMonths'
  BY <1>2, <1>5 DEF RecordedMonths, Recorded
<1> QED BY <1>3, <1>4, <1>5

-----------------------------------------------------------------------------
(* The runs.                                                                *)

\* The next job of a run is of its script, and of the month that is next.
LEMMA NextJob ==
  ASSUME OrderInv, NEW s \in Scripts, run[s].pc # "off"
  PROVE  /\ Next1(s).channel.script = s
         /\ s = "rewards" => Next1(s).channel.month = StartMonth
<1>1. run[s].todo # <<>> /\ \E S : run[s].todo \in Seq(S)
  BY DEF OrderInv, RunInv, IsRun
<1>2. Len(run[s].todo) \in Nat \ {0} /\ Next1(s) = run[s].todo[1]
  BY <1>1 DEF Next1
<1>3. 1 \in 1..Len(run[s].todo)
  BY <1>2
<1>4. Next1(s).channel.script = s
  BY <1>2, <1>3 DEF OrderInv, RunInv, IsRun
<1>5. ASSUME s = "rewards" PROVE Next1(s).channel.month = StartMonth + 1 - 1
  BY <1>2, <1>3, <1>5 DEF OrderInv, MonthInv
<1>6. StartMonth \in Nat
  BY StartMonthIsNew DEF OrderInv
<1> QED BY <1>4, <1>5, <1>6

LEMMA RunReplaced ==
  ASSUME RunInv, NEW s \in Scripts, NEW r, IsRun(s, r), run' = [run EXCEPT ![s] = r]
  PROVE  RunInv' /\ run'[s] = r /\ \A t \in Scripts \ {s} : run'[t] = run[t]
BY DEF RunInv

\* A run that goes on keeps its jobs.
LEMMA RunInvKept ==
  ASSUME RunInv, NEW s \in Scripts, NEW pc, NEW nonce, pc # "off", run[s].pc # "off",
         run' = [run EXCEPT ![s] = At(pc, run[s].todo, nonce)]
  PROVE  /\ RunInv'
         /\ run'[s].pc = pc /\ run'[s].todo = run[s].todo
         /\ \A t \in Scripts \ {s} : run'[t] = run[t]
<1>1. IsRun(s, At(pc, run[s].todo, nonce))
  BY DEF RunInv, IsRun, At
<1>2. At(pc, run[s].todo, nonce).pc = pc /\ At(pc, run[s].todo, nonce).todo = run[s].todo
  BY DEF At
<1>3. /\ RunInv' /\ run'[s] = At(pc, run[s].todo, nonce)
      /\ \A t \in Scripts \ {s} : run'[t] = run[t]
  BY <1>1, RunReplaced
<1> QED BY <1>2, <1>3

LEMMA OffIsRun ==
  ASSUME NEW s
  PROVE  IsRun(s, Off) /\ Off.pc = "off" /\ Off.todo = <<>>
<1>1. <<>> \in Seq({}) /\ Len(<<>>) = 0
  OBVIOUS
<1> QED BY <1>1 DEF IsRun, Off, At

LEMMA RunInvOff ==
  ASSUME RunInv, NEW s \in Scripts, run' = [run EXCEPT ![s] = Off]
  PROVE  /\ RunInv'
         /\ run'[s].pc = "off" /\ run'[s].todo = <<>>
         /\ \A t \in Scripts \ {s} : run'[t] = run[t]
BY OffIsRun, RunReplaced

-----------------------------------------------------------------------------
(* Every action keeps OrderInv.                                              *)

\* A run goes on with its jobs, and the chain and the records are let alone.
LEMMA OrderInvKept ==
  ASSUME OrderInv, NEW s \in Scripts, NEW pc, NEW nonce, pc # "off",
         run[s].pc \in {"asking", "opening"},
         run' = [run EXCEPT ![s] = At(pc, run[s].todo, nonce)],
         UNCHANGED <<now, channels, records, disturbed>>
  PROVE  OrderInv'
<1>1. RunInv'
  BY RunInvKept DEF OrderInv
<1>2. /\ RecordedMonths' = RecordedMonths /\ StartMonth' = StartMonth
      /\ MonthChannels' = MonthChannels
  BY DEF RecordedMonths, Recorded, StartMonth, MonthChannels
<1>3. run'["rewards"].todo = run["rewards"].todo
  BY RunInvKept DEF OrderInv, Scripts
<1>4. run["rewards"].pc = "recording" => run'["rewards"].pc = "recording"
  BY RunInvKept DEF OrderInv, Scripts
<1>5. Next1("rewards")' = Next1("rewards")
  BY <1>3 DEF Next1
<1> QED BY <1>1, <1>2, <1>3, <1>4, <1>5 DEF OrderInv, MonthInv

LEMMA AskNonceKeeps ==
  ASSUME OrderInv, NEW s \in Scripts, AskNonce(s)
  PROVE  OrderInv'
<1>1. run' = [run EXCEPT ![s] = At("opening", run[s].todo, identity.nonce)]
  BY DEF AskNonce
<1>2. run[s].pc = "asking" /\ UNCHANGED <<now, channels, records, disturbed>>
  BY DEF AskNonce, world, chain
<1> QED BY <1>1, <1>2, OrderInvKept

\* A run of rewards-old ends: what it was about to record is disturbed then.
LEMMA OrderInvOff ==
  ASSUME OrderInv, NEW s \in Scripts, run' = [run EXCEPT ![s] = Off],
         UNCHANGED <<now, records>>,
         MonthChannels' \ disturbed' \subseteq MonthChannels \ disturbed,
         s = "rewards" =>
           \A c \in MonthChannels' \ disturbed' : c.month \in RecordedMonths
  PROVE  OrderInv'
<1>1. RunInv'
  BY RunInvOff DEF OrderInv
<1>2. RecordedMonths' = RecordedMonths /\ StartMonth' = StartMonth
  BY DEF RecordedMonths, Recorded, StartMonth
<1>3. CASE s = "rewards"
  <2>1. run'["rewards"].todo = <<>>
    BY <1>3, RunInvOff DEF OrderInv
  <2> QED BY <1>1, <1>2, <1>3, <2>1 DEF OrderInv, MonthInv
<1>4. CASE s # "rewards"
  <2>1. run'["rewards"] = run["rewards"]
    BY <1>4, RunInvOff DEF OrderInv, Scripts
  <2>2. Next1("rewards")' = Next1("rewards")
    BY <2>1 DEF Next1
  <2> QED BY <1>1, <1>2, <2>1, <2>2 DEF OrderInv, MonthInv
<1> QED BY <1>3, <1>4

LEMMA FailToOpenKeeps ==
  ASSUME OrderInv, NEW s \in Scripts, FailToOpen(s)
  PROVE  OrderInv'
<1>1. /\ run[s].pc = "opening" /\ run' = [run EXCEPT ![s] = Off]
      /\ UNCHANGED <<now, channels, records, disturbed>>
  BY DEF FailToOpen, world, chain
<1>2. MonthChannels' = MonthChannels
  BY <1>1 DEF MonthChannels
<1>3. s = "rewards" => \A c \in MonthChannels \ disturbed : c.month \in RecordedMonths
  BY <1>1 DEF OrderInv, MonthInv
<1> QED BY <1>1, <1>2, <1>3, OrderInvOff

\* The channel that is opened is of the month that is next, for which there is
\* no other, unless it is disturbed.
LEMMA OpenKeeps ==
  ASSUME OrderInv, NEW s \in Scripts, Open(s)
  PROVE  OrderInv'
<1>1. /\ run[s].pc = "opening"
      /\ run' = [run EXCEPT ![s] = At("recording", run[s].todo, run[s].nonce)]
      /\ channels' = channels \cup {Next1(s).channel}
      /\ UNCHANGED <<now, records, disturbed>>
  BY DEF Open, Execute, world
<1>2. RunInv'
  BY <1>1, RunInvKept DEF OrderInv
<1>3. RecordedMonths' = RecordedMonths /\ StartMonth' = StartMonth
  BY <1>1 DEF RecordedMonths, Recorded, StartMonth
<1>4. run'["rewards"].todo = run["rewards"].todo /\ Next1("rewards")' = Next1("rewards")
  BY <1>1, RunInvKept DEF OrderInv, Scripts, Next1
<1>5. Next1(s).channel.script = s /\ (s = "rewards" => Next1(s).channel.month = StartMonth)
  BY <1>1, NextJob
<1>6. CASE s = "rewards"
  <2>1. MonthChannels' = MonthChannels \cup {Next1(s).channel}
    BY <1>1, <1>5, <1>6 DEF MonthChannels
  <2>2. \A c \in MonthChannels \ disturbed : c.month \in RecordedMonths
    BY <1>1, <1>6 DEF OrderInv, MonthInv
  <2>3. Next1(s).channel.month \notin RecordedMonths
    BY <1>5, <1>6, StartMonthIsNew DEF OrderInv
  <2>4. run'["rewards"].pc = "recording"
    BY <1>1, <1>6, RunInvKept DEF OrderInv
  <2>5. \A c, d \in MonthChannels' \ disturbed : c.month = d.month => c = d
    BY <2>1, <2>2, <2>3 DEF OrderInv, MonthInv
  <2>6. \A c \in MonthChannels' \ disturbed :
          c.month \in RecordedMonths \/ c = Next1("rewards").channel
    BY <1>6, <2>1, <2>2
  <2> QED BY <1>1, <1>2, <1>3, <1>4, <2>4, <2>5, <2>6 DEF OrderInv, MonthInv
<1>7. CASE s # "rewards"
  <2>1. MonthChannels' = MonthChannels
    BY <1>1, <1>5, <1>7 DEF MonthChannels
  <2>2. run'["rewards"].pc = run["rewards"].pc
    BY <1>1, <1>7, RunInvKept DEF OrderInv, Scripts
  <2> QED BY <1>1, <1>2, <1>3, <1>4, <2>1, <2>2 DEF OrderInv, MonthInv
<1> QED BY <1>6, <1>7

LEMMA DieKeeps ==
  ASSUME OrderInv, NEW s \in Scripts, Die(s)
  PROVE  OrderInv'
<1>1. run[s].pc # "off" /\ run' = [run EXCEPT ![s] = Off] /\ UNCHANGED <<now, records>>
  BY DEF Die, world
<1>2. Next1(s).channel.script = s
  BY <1>1, NextJob
<1>3. CASE /\ run[s].pc = "opening" /\ channels' = channels \cup {Next1(s).channel}
           /\ disturbed' = disturbed \cup {Next1(s).channel}
  <2>1. MonthChannels' \ disturbed' \subseteq MonthChannels \ disturbed
    BY <1>3 DEF MonthChannels
  <2>2. s = "rewards" => \A c \in MonthChannels \ disturbed : c.month \in RecordedMonths
    BY <1>3 DEF OrderInv, MonthInv
  <2> QED BY <1>1, <2>1, <2>2, OrderInvOff
<1>4. CASE /\ UNCHANGED channels
           /\ disturbed' = IF run[s].pc = "recording"
                           THEN disturbed \cup {Next1(s).channel} ELSE disturbed
  <2>1. MonthChannels' \ disturbed' \subseteq MonthChannels \ disturbed
    BY <1>4 DEF MonthChannels
  <2>2. s = "rewards" => \A c \in MonthChannels' \ disturbed' : c.month \in RecordedMonths
    BY <1>4, <2>1 DEF OrderInv, MonthInv
  <2> QED BY <1>1, <2>1, <2>2, OrderInvOff
<1> QED BY <1>3, <1>4 DEF Die, Execute, chain

\* The records gain the month that is next, and what is left of the jobs are those
\* that follow it.
LEMMA RecordingKeepsMonths ==
  ASSUME OrderInv, NEW s \in Scripts, run[s].pc = "recording", RunInv',
         records' = RecordsWith(Next1(s)), UNCHANGED <<now, channels, disturbed>>,
         \A t \in Scripts \ {s} : run'[t] = run[t],
         Len(run'[s].todo) = Len(run[s].todo) - 1,
         \A k \in 1..Len(run[s].todo) - 1 : run'[s].todo[k] = run[s].todo[k + 1]
  PROVE  OrderInv'
<1>1. /\ Next1(s).channel.script = s
      /\ s = "rewards" => Next1(s).channel.month = StartMonth
  BY NextJob
<1>2. MonthChannels' = MonthChannels
  BY DEF MonthChannels
<1>3. CASE s = "rewards"
  <2>1. StartMonth \in Nat /\ RecordedMonths = 0..StartMonth - 1
    BY StartMonthIsNew DEF OrderInv
  <2>2. RecordedMonths' = RecordedMonths \cup {StartMonth}
    BY <1>1, <1>3, RecordedMonthsWith
  <2>3. RecordedMonths' = 0..(StartMonth + 1) - 1
    BY <2>1, <2>2
  <2>4. StartMonth' = StartMonth + 1
    <3>1. \A n \in Nat : RecordedMonths' = 0..n - 1 => StartMonth' = n
      BY NextStartMonth
    <3> QED BY <2>1, <2>3, <3>1
  <2>5. \A k \in 1..Len(run'["rewards"].todo) :
          run'["rewards"].todo[k].channel.month = StartMonth' + k - 1
    <3>1. Len(run["rewards"].todo) \in Nat
      BY DEF OrderInv, RunInv, IsRun, Scripts
    <3>2. \A k \in 1..Len(run["rewards"].todo) :
            run["rewards"].todo[k].channel.month = StartMonth + k - 1
      BY DEF OrderInv, MonthInv
    <3>3. ASSUME NEW k \in 1..Len(run'["rewards"].todo)
          PROVE  run'["rewards"].todo[k].channel.month = StartMonth' + k - 1
      <4>1. k \in 1..Len(run["rewards"].todo) - 1 /\ k + 1 \in 1..Len(run["rewards"].todo)
        BY <1>3, <3>1, <3>3
      <4>2. run'["rewards"].todo[k] = run["rewards"].todo[k + 1]
        BY <1>3, <4>1
      <4>3. run["rewards"].todo[k + 1].channel.month = StartMonth + (k + 1) - 1
        BY <3>2, <4>1
      <4> QED BY <2>1, <2>4, <4>1, <4>2, <4>3
    <3> QED BY <3>3
  <2>6. \A c \in MonthChannels \ disturbed : c.month \in RecordedMonths'
    BY <1>1, <1>3, <2>2 DEF OrderInv, MonthInv
  <2> QED BY <1>2, <2>1, <2>3, <2>5, <2>6 DEF OrderInv, MonthInv
<1>4. CASE s # "rewards"
  <2>1. RecordedMonths' = RecordedMonths
    BY <1>1, <1>4, RecordedMonthsWith
  <2>2. StartMonth' = StartMonth
    BY <2>1 DEF StartMonth
  <2>3. run'["rewards"] = run["rewards"] /\ Next1("rewards")' = Next1("rewards")
    BY <1>4 DEF Scripts, Next1
  <2> QED BY <1>2, <2>1, <2>2, <2>3 DEF OrderInv, MonthInv
<1> QED BY <1>3, <1>4

\* A month is recorded after those before it, and the rest of the jobs follow it.
LEMMA SaveRecordKeeps ==
  ASSUME OrderInv, NEW s \in Scripts, SaveRecord(s)
  PROVE  OrderInv'
<1> DEFINE todo == run[s].todo
           rest == Tail(todo)
<1>1. /\ run[s].pc = "recording" /\ records' = RecordsWith(Next1(s))
      /\ UNCHANGED <<now, channels, disturbed>>
      /\ run' = [run EXCEPT ![s] = IF rest = <<>> THEN Off ELSE At("asking", rest, 0)]
  BY DEF SaveRecord, world, chain
<1>2. /\ todo # <<>> /\ \E S : todo \in Seq(S)
      /\ \A k \in 1..Len(todo) : todo[k].channel.script = s
  BY <1>1 DEF OrderInv, RunInv, IsRun
<1>3. PICK S : todo \in Seq(S)
  BY <1>2
<1> HIDE DEF todo
<1>4. /\ Len(todo) \in Nat \ {0}
      /\ rest \in Seq(S) /\ Len(rest) = Len(todo) - 1
      /\ \A k \in 1..Len(todo) - 1 : rest[k] = todo[k + 1]
  <2>1. Len(todo) \in Nat \ {0}
    BY <1>2, <1>3
  <2> QED BY <1>2, <1>3, <2>1, HeadTailProperties
<1> HIDE DEF rest
<1>5. /\ RunInv' /\ run'[s].todo = rest
      /\ \A t \in Scripts \ {s} : run'[t] = run[t]
  <2>1. CASE rest = <<>>
    <3>1. run' = [run EXCEPT ![s] = Off]
      BY <1>1, <2>1
    <3> QED BY <2>1, <3>1, RunInvOff DEF OrderInv
  <2>2. CASE rest # <<>>
    <3>1. run' = [run EXCEPT ![s] = At("asking", rest, 0)]
      BY <1>1, <2>2
    <3>2. ASSUME NEW k \in 1..Len(rest) PROVE rest[k].channel.script = s
      <4>1. k \in 1..Len(todo) - 1 /\ k + 1 \in 1..Len(todo)
        BY <1>4, <3>2
      <4> QED BY <1>2, <1>4, <4>1
    <3>3. IsRun(s, At("asking", rest, 0)) /\ At("asking", rest, 0).todo = rest
      BY <1>4, <2>2, <3>2 DEF IsRun, At
    <3> QED BY <3>1, <3>3, RunReplaced DEF OrderInv
  <2> QED BY <2>1, <2>2
<1>6. /\ Len(run'[s].todo) = Len(run[s].todo) - 1
      /\ \A k \in 1..Len(run[s].todo) - 1 : run'[s].todo[k] = run[s].todo[k + 1]
  BY <1>4, <1>5 DEF todo
<1> QED BY <1>1, <1>5, <1>6, RecordingKeepsMonths

-----------------------------------------------------------------------------
(* The start of a run.                                                      *)

LEMMA StartRewardsKeeps ==
  ASSUME OrderInv, StartRewards
  PROVE  OrderInv'
<1> DEFINE n == Cardinality(Months)
           jobs == [k \in 1..n |-> MonthJob(StartMonth + k - 1)]
<1>1. StartMonth \in Nat
  BY StartMonthIsNew DEF OrderInv
<1>2. n \in Nat \ {0}
  <2>1. (now \div DaysInMonth) - 1 \in Int
    BY ScriptsAssumption DEF OrderInv
  <2>2. IsFiniteSet(Months)
    BY <1>1, <2>1, FS_Interval DEF Months
  <2>3. Months # {}
    BY DEF StartRewards
  <2> QED BY <2>2, <2>3, FS_EmptySet, FS_CardinalityType
<1>3. /\ run["rewards"].pc = "off" /\ UNCHANGED <<now, channels, records, disturbed>>
      /\ run' = [run EXCEPT !["rewards"] = At("asking", jobs, 0)]
  BY DEF StartRewards, world, chain
<1> HIDE DEF n
<1>4. jobs \in Seq({MonthJob(m) : m \in Nat}) /\ Len(jobs) = n /\ jobs # <<>>
  <2>1. \A k \in 1..n : StartMonth + k - 1 \in Nat
    BY <1>1, <1>2
  <2>2. jobs \in [1..n -> {MonthJob(m) : m \in Nat}]
    BY <2>1
  <2> HIDE DEF jobs
  <2>3. jobs \in Seq({MonthJob(m) : m \in Nat}) /\ Len(jobs) = n
    BY <1>2, <2>2, SeqDef
  <2> QED BY <1>2, <2>3
<1>5. \A m : MonthJob(m).channel.script = "rewards" /\ MonthJob(m).channel.month = m
  BY DEF MonthJob, Job
<1>6. \A k \in 1..n : /\ jobs[k].channel.script = "rewards"
                      /\ jobs[k].channel.month = StartMonth + k - 1
  BY <1>5
<1> HIDE DEF jobs
<1>7. RunInv' /\ run'["rewards"].todo = jobs
  <2>1. "rewards" \in Scripts
    BY DEF Scripts
  <2>2. IsRun("rewards", At("asking", jobs, 0)) /\ At("asking", jobs, 0).todo = jobs
    BY <1>4, <1>6 DEF IsRun, At
  <2> QED BY <1>3, <2>1, <2>2, RunReplaced DEF OrderInv
<1>8. /\ RecordedMonths' = RecordedMonths /\ StartMonth' = StartMonth
      /\ MonthChannels' = MonthChannels
  BY <1>3 DEF RecordedMonths, Recorded, StartMonth, MonthChannels
<1>9. \A c \in MonthChannels \ disturbed : c.month \in RecordedMonths
  BY <1>3 DEF OrderInv, MonthInv
<1> QED BY <1>3, <1>4, <1>6, <1>7, <1>8, <1>9 DEF OrderInv, MonthInv

LEMMA StartIncentivesKeeps ==
  ASSUME OrderInv, StartIncentives
  PROVE  OrderInv'
<1> DEFINE job == Job("incentives", 0, INCENTIVE_TO_DISTRIBUTE, Incentives.distribution)
           pc == IF Recorded("incentives") = {} THEN "asking" ELSE "recording"
<1>1. run' = [run EXCEPT !["incentives"] = At(pc, <<job>>, 0)]
  BY DEF StartIncentives
<1>2. UNCHANGED <<now, channels, records, disturbed>>
  BY DEF StartIncentives, world, chain
<1>3. job.channel.script = "incentives" /\ pc # "off"
  BY DEF Job
<1> HIDE DEF job, pc
<1>4. /\ <<job>> \in Seq({job}) /\ <<job>> # <<>>
      /\ \A k \in 1..Len(<<job>>) : <<job>>[k].channel.script = "incentives"
  BY <1>3
<1>5. RunInv' /\ run'["rewards"] = run["rewards"] /\ Next1("rewards")' = Next1("rewards")
  <2>1. "incentives" \in Scripts /\ "rewards" \in Scripts \ {"incentives"}
    BY DEF Scripts
  <2>2. RunInv' /\ \A t \in Scripts \ {"incentives"} : run'[t] = run[t]
    <3>1. IsRun("incentives", At(pc, <<job>>, 0))
      BY <1>3, <1>4 DEF IsRun, At
    <3> QED BY <1>1, <2>1, <3>1, RunReplaced DEF OrderInv
  <2> QED BY <2>1, <2>2 DEF Next1
<1>6. /\ RecordedMonths' = RecordedMonths /\ StartMonth' = StartMonth
      /\ MonthChannels' = MonthChannels
  BY <1>2 DEF RecordedMonths, Recorded, StartMonth, MonthChannels
<1> QED BY <1>2, <1>5, <1>6 DEF OrderInv, MonthInv

-----------------------------------------------------------------------------
LEMMA OrderInvUntouched ==
  ASSUME OrderInv, now' \in Nat, UNCHANGED <<channels, records, run, disturbed>>
  PROVE  OrderInv'
<1>1. /\ RecordedMonths' = RecordedMonths /\ StartMonth' = StartMonth
      /\ MonthChannels' = MonthChannels /\ Next1("rewards")' = Next1("rewards")
  BY DEF RecordedMonths, Recorded, StartMonth, MonthChannels, Next1
<1>2. RunInv'
  BY DEF OrderInv, RunInv, IsRun
<1> QED BY <1>1, <1>2 DEF OrderInv, MonthInv

LEMMA OrderInvInductive == Spec => []OrderInv
<1>1. Init => OrderInv
  <2> SUFFICES ASSUME Init PROVE OrderInv
    OBVIOUS
  <2>1. <<>> \in Seq({}) /\ Len(<<>>) = 0
    OBVIOUS
  <2>2. RunInv
    BY OffIsRun DEF Init, RunInv
  <2>3. RecordedMonths = 0..0 - 1 /\ MonthChannels = {} /\ run["rewards"].todo = <<>>
    BY DEF Init, RecordedMonths, Recorded, MonthChannels, Off, At, Scripts
  <2> QED BY <2>1, <2>2, <2>3 DEF Init, OrderInv, MonthInv
<1>2. OrderInv /\ [Next]_vars => OrderInv'
  <2> SUFFICES ASSUME OrderInv, [Next]_vars PROVE OrderInv'
    OBVIOUS
  <2>1. ASSUME PassDay PROVE OrderInv'
    BY <2>1, OrderInvUntouched DEF PassDay, chain, OrderInv
  <2>2. ASSUME NEW o \in Owners, Bond(o) \/ RequestUnbond(o) \/ Unbond(o) PROVE OrderInv'
    BY <2>2, OrderInvUntouched DEF Bond, RequestUnbond, Unbond, Log, chain, OrderInv
  <2>3. ASSUME StartRewards \/ StartIncentives PROVE OrderInv'
    BY <2>3, StartRewardsKeeps, StartIncentivesKeeps
  <2>4. ASSUME NEW s \in Scripts,
               AskNonce(s) \/ Open(s) \/ FailToOpen(s) \/ SaveRecord(s) \/ Die(s)
        PROVE  OrderInv'
    BY <2>4, AskNonceKeeps, OpenKeeps, FailToOpenKeeps, SaveRecordKeeps, DieKeeps
  <2>5. ASSUME UNCHANGED vars PROVE OrderInv'
    BY <2>5, OrderInvUntouched DEF vars, chain, world, OrderInv
  <2> QED BY <2>1, <2>2, <2>3, <2>4, <2>5 DEF Next
<1> QED BY <1>1, <1>2, PTL DEF Spec

\* Months are recorded one after the other, and each is paid by one channel,
\* unless a run died between opening a channel and recording it.
THEOREM MonthsAreRewardedOnce == Spec => []OneChannelPerMonth
<1>1. OrderInv => OneChannelPerMonth
  <2> SUFFICES ASSUME OrderInv PROVE OneChannelPerMonth
    OBVIOUS
  <2>1. PICK n \in Nat : RecordedMonths = 0..n - 1
    BY DEF OrderInv, MonthInv
  <2>2. Cardinality(RecordedMonths) = n
    <3>1. Cardinality(0..n - 1) = n
      BY FS_Interval, 0 \in Int, n - 1 \in Int
    <3> QED BY <2>1, <3>1
  <2> QED BY <2>1, <2>2 DEF OneChannelPerMonth, OrderInv, MonthInv, MonthChannels
<1> QED BY <1>1, OrderInvInductive, PTL

-----------------------------------------------------------------------------
(* What everyone gets.                                                      *)

Maps == [Owners -> Nat]

LEMMA TotalType ==
  ASSUME NEW map \in Maps
  PROVE  Total(map) \in Nat
<1>1. DOMAIN map = Owners /\ IsTree(map)
  BY RewardsAssumption DEF Maps, IsTree
<1>2. Total(map) = SumOn(map, DOMAIN map)
  BY <1>1 DEF Total, MapThenSumSet, MapThenFoldSet, IsSum, SumOn
<1> QED BY <1>1, <1>2, SumOnType

\* What calculateDistributionForPeriod adds up for one owner.
PointSum(points, owner) ==
  MapThenSumSet(LAMBDA p : Shares(logs, p.time, p.value)[owner], points)

IsPointSum(g, points, owner) ==
  g = [s \in SUBSET points |->
         IF s = {} THEN 0
         ELSE Shares(logs, (CHOOSE x \in s : TRUE).time, (CHOOSE x \in s : TRUE).value)[owner]
                + g[s \ {CHOOSE x \in s : TRUE}]]

LEMMA PointSumExists ==
  ASSUME NEW points, IsFiniteSet(points), NEW owner,
         \A p \in points : Shares(logs, p.time, p.value)[owner] \in Nat
  PROVE  \E g : IsPointSum(g, points, owner)
<1> DEFINE t == [p \in points |-> Shares(logs, p.time, p.value)[owner]]
<1>1. IsTree(t) /\ DOMAIN t = points
  BY DEF IsTree
<1>2. PICK g : IsSum(g, t)
  BY <1>1, SumExists
<1>3. ASSUME NEW s \in SUBSET points, s # {}
      PROVE  t[CHOOSE x \in s : TRUE] =
               Shares(logs, (CHOOSE x \in s : TRUE).time, (CHOOSE x \in s : TRUE).value)[owner]
  <2>1. (CHOOSE x \in s : TRUE) \in points
    BY <1>3
  <2> QED BY <2>1
<1> HIDE DEF t
<1>4. IsPointSum(g, points, owner)
  BY <1>1, <1>2, <1>3 DEF IsSum, IsPointSum
<1> QED BY <1>4

LEMMA PointSumType ==
  ASSUME NEW points, IsFiniteSet(points), NEW owner,
         \A p \in points : Shares(logs, p.time, p.value)[owner] \in Nat
  PROVE  PointSum(points, owner) \in Nat
<1> DEFINE g == CHOOSE h : IsPointSum(h, points, owner)
           P == {s \in SUBSET points : g[s] \in Nat}
<1>1. IsPointSum(g, points, owner)
  BY PointSumExists
<1>2. PointSum(points, owner) = g[points]
  BY DEF PointSum, MapThenSumSet, MapThenFoldSet, IsPointSum
<1> HIDE DEF g
<1>3. ASSUME NEW s \in SUBSET points, \A x \in s : s \ {x} \in P
      PROVE  s \in P
  <2>1. CASE s = {}
    BY <1>1, <2>1 DEF IsPointSum
  <2>2. CASE s # {}
    <3> DEFINE c == CHOOSE x \in s : TRUE
    <3>1. c \in s
      BY <2>2
    <3>2. g[s] = Shares(logs, c.time, c.value)[owner] + g[s \ {c}]
      BY <1>1, <2>2 DEF IsPointSum
    <3> HIDE DEF c
    <3>3. g[s \ {c}] \in Nat /\ Shares(logs, c.time, c.value)[owner] \in Nat
      BY <1>3, <3>1
    <3> QED BY <3>2, <3>3
  <2> QED BY <2>1, <2>2
<1>4. points \in P
  <2>1. IsInductive(P, points)
    BY <1>3 DEF IsInductive
  <2> HIDE DEF P
  <2> QED BY <2>1, SubsetInduction
<1> QED BY <1>2, <1>4

\* The names of logs that the scripts look at, and the logs there may be at time t.
LogNames == {"LogBond", "LogUnbondRequested", "LogUnbonded"}

LogsUntil(t) ==
  {log \in [name : LogNames, owner : Owners, amount : Nat, time : 0..t] :
     log.amount = AmountOf[log.owner]}

LogsInv == now \in 0..MaxTime /\ paid \in Histories /\ logs \in Seq(LogsUntil(now))

LEMMA LogTypes ==
  ASSUME LogsInv, NEW i \in DOMAIN logs
  PROVE  /\ logs[i].owner \in Owners /\ logs[i].name \in LogNames
         /\ logs[i].amount = AmountOf[logs[i].owner] /\ logs[i].amount \in Nat
         /\ logs[i].time \in 0..now
<1>1. logs[i] \in LogsUntil(now)
  BY DEF LogsInv
<1> QED BY <1>1 DEF LogsUntil

LEMMA SharesType ==
  ASSUME LogsInv, NEW time, NEW value \in Nat
  PROVE  Shares(logs, time, value) \in Maps
<1> DEFINE active == [o \in Owners |-> IF IsActive(logs, o, time) THEN BondOf(logs, o) ELSE 0]
<1>1. ASSUME NEW o \in Owners, IsActive(logs, o, time)
      PROVE  BondOf(logs, o) \in Nat
  <2>1. Logged(logs, "LogBond", o) # {}
    BY <1>1 DEF IsActive
  <2>2. PICK i \in Logged(logs, "LogBond", o) : BondOf(logs, o) = logs[i].amount
    BY <2>1 DEF BondOf
  <2>3. i \in DOMAIN logs
    BY DEF Logged
  <2> QED BY <2>2, <2>3, LogTypes
<1>2. active \in Maps
  BY <1>1 DEF Maps
<1>3. Total(active) \in Nat
  <2> HIDE DEF active
  <2> QED BY <1>2, TotalType
<1>4. Zero \in Maps
  BY DEF Zero, Maps
<1> HIDE DEF active
<1>5. ASSUME Total(active) # 0
      PROVE  [o \in Owners |-> (value * active[o]) \div Total(active)] \in Maps
  <2>1. ASSUME NEW o \in Owners PROVE (value * active[o]) \div Total(active) \in Nat
    <3>1. active[o] \in Nat
      BY <1>2 DEF Maps
    <3>2. value * active[o] \in Nat
      BY <3>1, Products
    <3>3. Total(active) \in Nat \ {0}
      BY <1>3, <1>5
    <3> QED BY <3>2, <3>3, Floor
  <2> QED BY <2>1 DEF Maps
<1>6. Shares(logs, time, value) =
        IF Total(active) = 0 THEN Zero
        ELSE [o \in Owners |-> (value * active[o]) \div Total(active)]
  BY DEF Shares, active
<1> QED BY <1>4, <1>5, <1>6

LEMMA PeriodType ==
  ASSUME LogsInv, NEW points, IsFiniteSet(points), \A p \in points : p.value \in Nat
  PROVE  calculateDistributionForPeriod(logs, points) \in Maps
<1>1. ASSUME NEW o \in Owners
      PROVE  PointSum(points, o) \in Nat
  <2>1. \A p \in points : Shares(logs, p.time, p.value)[o] \in Nat
    BY SharesType DEF Maps
  <2> QED BY <2>1, PointSumType
<1>2. calculateDistributionForPeriod(logs, points) = [o \in Owners |-> PointSum(points, o)]
  BY DEF calculateDistributionForPeriod, PointSum
<1> QED BY <1>1, <1>2 DEF Maps

\* The days of a month that paid something, each with a number to divide.
LEMMA PointsType ==
  ASSUME LogsInv, NEW month, IsComputable(month)
  PROVE  IsFiniteSet(Points(month)) /\ \A p \in Points(month) : p.value \in Nat
<1>1. IsFiniteSet(1..now) /\ DaysOf(month) \subseteq 1..now
  <2>1. now \in Nat
    BY ScriptsAssumption DEF LogsInv
  <2> QED BY <2>1, FS_Interval DEF DaysOf
<1>2. IsFiniteSet(DaysOf(month))
  BY <1>1, FS_Subset
<1>3. IsFiniteSet(Points(month))
  <2> DEFINE point == [d \in DaysOf(month) |->
                          [time |-> d, value |-> Value(paid[d], d = Min(DaysOf(month)))]]
  <2>1. Points(month) = {point[d] : d \in DaysOf(month)}
    BY DEF Points
  <2>2. point \in Surjection(DaysOf(month), Points(month))
    BY <2>1 DEF Surjection
  <2> QED BY <1>2, <2>2, FS_Surjection
<1>4. ASSUME NEW p \in Points(month) PROVE p.value \in Nat
  <2>1. PICK d \in DaysOf(month) : p.value = Value(paid[d], d = Min(DaysOf(month)))
    BY DEF Points
  <2>2. d \in 1..MaxTime
    BY <1>1, ScriptsAssumption DEF LogsInv
  <2>3. paid[d] \in Nat
    BY <2>2, ScriptsAssumption DEF LogsInv
  <2>4. (paid[d] * REWARD_NUM) \div REWARD_DEN \in Int /\ OPEN_FEE \in Nat
    <3>1. paid[d] * REWARD_NUM \in Nat
      BY <2>3, Products, RewardsAssumption
    <3> QED BY <3>1, Floor, RewardsAssumption
  <2>5. p.value \in Int
    BY <2>1, <2>4 DEF Value
  <2>6. p.value >= 0
    BY DEF IsComputable
  <2> QED BY <2>5, <2>6
<1> QED BY <1>3, <1>4

-----------------------------------------------------------------------------
(* What the incentives were at the end of each log.                          *)

\* Whoever has a bond has that bond staked at least.
Accs ==
  {acc \in [distribution : Maps, staked : Maps, bonds : SUBSET Owners,
            known : SUBSET Owners, time : Nat, failed : BOOLEAN] :
     \A o \in acc.bonds : AmountOf[o] <= acc.staked[o]}

Grows(map, other) == \A o \in Owners : map[o] <= other[o]

\* The time that a tally is about.
Span(acc, until, end) == Min({end, until}) - Max({Starts, acc.time})

Share(acc, span, owner) == (PerSecond * span * acc.staked[owner]) \div Total(acc.staked)

LEMMA SpanIs ==
  ASSUME NEW acc \in Accs, NEW until \in Nat, NEW end \in Nat
  PROVE  Span(acc, until, end) = (IF end <= until THEN end ELSE until)
                                   - (IF Starts >= acc.time THEN Starts ELSE acc.time)
<1>1. acc.time \in Nat /\ Starts \in Nat
  BY RewardsAssumption DEF Accs
<1>2. Min({end, until}) = IF end <= until THEN end ELSE until
  BY MinOfTwo
<1>3. Max({Starts, acc.time}) = IF Starts >= acc.time THEN Starts ELSE acc.time
  BY <1>1, MaxOfTwo
<1> QED BY <1>2, <1>3 DEF Span

LEMMA SpanType ==
  ASSUME NEW acc \in Accs, NEW until \in Nat, NEW end \in Nat
  PROVE  Span(acc, until, end) \in Int
<1>1. acc.time \in Nat /\ Starts \in Nat
  BY RewardsAssumption DEF Accs
<1> QED BY <1>1, SpanIs

LEMMA TallyIs ==
  ASSUME NEW acc, NEW until, NEW end
  PROVE  tally(acc, until, end) =
           IF Span(acc, until, end) <= 0 \/ acc.known = {} THEN acc
           ELSE IF Total(acc.staked) = 0 THEN [acc EXCEPT !.failed = TRUE]
           ELSE [acc EXCEPT !.distribution =
                  [o \in Owners |-> acc.distribution[o] + Share(acc, Span(acc, until, end), o)]]
BY DEF tally, Span, Share

\* More time is a share that is not smaller.
LEMMA ShareGrows ==
  ASSUME NEW acc \in Accs, Total(acc.staked) # 0, NEW o \in Owners,
         NEW short \in Nat, NEW long \in Nat, short <= long
  PROVE  /\ Share(acc, short, o) \in Nat /\ Share(acc, long, o) \in Nat
         /\ Share(acc, short, o) <= Share(acc, long, o)
<1>1. acc.staked \in Maps /\ acc.staked[o] \in Nat /\ PerSecond \in Nat
  BY RewardsAssumption DEF Accs, Maps
<1>2. Total(acc.staked) \in Nat \ {0}
  BY <1>1, TotalType
<1>3. /\ PerSecond * short \in Nat /\ PerSecond * long \in Nat
      /\ PerSecond * short <= PerSecond * long
  BY <1>1, Products
<1>4. /\ PerSecond * short * acc.staked[o] \in Nat /\ PerSecond * long * acc.staked[o] \in Nat
      /\ PerSecond * short * acc.staked[o] <= PerSecond * long * acc.staked[o]
  BY <1>1, <1>3, Products
<1> QED BY <1>2, <1>4, Floor, FloorGrows DEF Share

LEMMA TallyType ==
  ASSUME NEW acc \in Accs, NEW until \in Nat, NEW end \in Nat
  PROVE  /\ tally(acc, until, end) \in Accs
         /\ Grows(acc.distribution, tally(acc, until, end).distribution)
<1> DEFINE span == Span(acc, until, end)
           credited == [o \in Owners |-> acc.distribution[o] + Share(acc, span, o)]
<1>1. acc.distribution \in Maps /\ \A o \in Owners : acc.distribution[o] \in Nat
  BY DEF Accs, Maps
<1>2. CASE span <= 0 \/ acc.known = {}
  BY <1>1, <1>2, TallyIs DEF Grows
<1>3. CASE span > 0 /\ acc.known # {} /\ Total(acc.staked) = 0
  <2>1. tally(acc, until, end) = [acc EXCEPT !.failed = TRUE]
    BY <1>3, TallyIs, SpanType
  <2>2. [acc EXCEPT !.failed = TRUE] \in Accs
    BY DEF Accs
  <2>3. [acc EXCEPT !.failed = TRUE].distribution = acc.distribution
    BY DEF Accs
  <2> QED BY <1>1, <2>1, <2>2, <2>3 DEF Grows
<1>4. CASE span > 0 /\ acc.known # {} /\ Total(acc.staked) # 0
  <2>1. tally(acc, until, end) = [acc EXCEPT !.distribution = credited]
    BY <1>4, TallyIs, SpanType
  <2>2. span \in Nat
    BY <1>4, SpanType
  <2> HIDE DEF span
  <2>3. \A o \in Owners : Share(acc, span, o) \in Nat
    BY <1>4, <2>2, ShareGrows
  <2>4. credited \in Maps /\ Grows(acc.distribution, credited)
    BY <1>1, <2>3 DEF Maps, Grows
  <2> HIDE DEF credited
  <2>5. [acc EXCEPT !.distribution = credited] \in Accs
    BY <2>4 DEF Accs
  <2>6. [acc EXCEPT !.distribution = credited].distribution = credited
    BY DEF Accs
  <2> QED BY <2>1, <2>4, <2>5, <2>6
<1> QED BY <1>2, <1>3, <1>4, SpanType

\* The later the end, the more there is to distribute.
LEMMA TallyGrows ==
  ASSUME NEW acc \in Accs, NEW early \in Nat, NEW late \in Nat, early <= late
  PROVE  Grows(tally(acc, early, early).distribution, tally(acc, late, late).distribution)
<1> DEFINE short == Span(acc, early, early)
           long == Span(acc, late, late)
           Credited(span) == [o \in Owners |-> acc.distribution[o] + Share(acc, span, o)]
<1>1. short \in Int /\ long \in Int /\ short <= long
  <2>1. acc.time \in Nat /\ Starts \in Nat
    BY RewardsAssumption DEF Accs
  <2> QED BY <2>1, SpanIs
<1>2. acc.distribution \in Maps /\ \A o \in Owners : acc.distribution[o] \in Nat
  BY DEF Accs, Maps
<1>3. CASE short <= 0 \/ acc.known = {}
  <2>1. tally(acc, early, early) = acc
    BY <1>3, TallyIs
  <2> QED BY <2>1, TallyType
<1>4. CASE short > 0 /\ acc.known # {} /\ Total(acc.staked) = 0
  <2>1. tally(acc, early, early) = [acc EXCEPT !.failed = TRUE]
    BY <1>1, <1>4, TallyIs
  <2>2. [acc EXCEPT !.failed = TRUE].distribution = acc.distribution
    BY DEF Accs
  <2> QED BY <2>1, <2>2, TallyType DEF Grows
<1>5. CASE short > 0 /\ acc.known # {} /\ Total(acc.staked) # 0
  <2>1. /\ tally(acc, early, early) = [acc EXCEPT !.distribution = Credited(short)]
        /\ tally(acc, late, late) = [acc EXCEPT !.distribution = Credited(long)]
    BY <1>1, <1>5, TallyIs
  <2> HIDE DEF short, long
  <2>2. \A o \in Owners : /\ Share(acc, short, o) \in Nat /\ Share(acc, long, o) \in Nat
                          /\ Share(acc, short, o) <= Share(acc, long, o)
    BY <1>1, <1>5, ShareGrows
  <2>3. Grows(Credited(short), Credited(long))
    BY <1>2, <2>2 DEF Grows
  <2> HIDE DEF Credited
  <2>4. /\ [acc EXCEPT !.distribution = Credited(short)].distribution = Credited(short)
        /\ [acc EXCEPT !.distribution = Credited(long)].distribution = Credited(long)
    BY DEF Accs
  <2> QED BY <2>1, <2>3, <2>4
<1> QED BY <1>1, <1>3, <1>4, <1>5

LEMMA NoLogsType ==
  NoLogs \in Accs
<1>1. Zero \in Maps
  BY DEF Zero, Maps
<1> QED BY <1>1 DEF NoLogs, Accs

\* A bond adds to the stake what its unbonding, of which the first counts, takes away.
LEMMA ApplyType ==
  ASSUME NEW acc \in Accs, NEW log, log.name \in LogNames, log.owner \in Owners,
         log.amount = AmountOf[log.owner]
  PROVE  Apply(acc, log) \in Accs /\ Apply(acc, log).distribution = acc.distribution
<1> DEFINE owner == log.owner
           amount == log.amount
<1>1. /\ acc.staked \in [Owners -> Nat] /\ acc.bonds \subseteq Owners
      /\ acc.known \subseteq Owners /\ \A o \in acc.bonds : AmountOf[o] <= acc.staked[o]
  BY DEF Accs, Maps
<1>2. owner \in Owners /\ amount = AmountOf[owner] /\ amount \in Nat
  BY ScriptsAssumption
<1>3. CASE log.name = "LogBond"
  <2> DEFINE more == [acc.staked EXCEPT ![owner] = acc.staked[owner] + amount]
  <2>1. Apply(acc, log) = [acc EXCEPT !.staked = more, !.known = acc.known \cup {owner},
                                      !.bonds = acc.bonds \cup {owner}]
    <3>1. Apply(acc, log) =
            [acc EXCEPT !.staked[log.owner] = @ + log.amount, !.known = @ \cup {log.owner},
                        !.bonds = @ \cup {log.owner}]
      BY <1>3 DEF Apply
    <3> QED BY <3>1 DEF Accs
  <2>2. more \in Maps /\ \A o \in acc.bonds \cup {owner} : AmountOf[o] <= more[o]
    BY <1>1, <1>2 DEF Maps
  <2> HIDE DEF more, owner
  <2>3. [acc EXCEPT !.staked = more, !.known = acc.known \cup {owner},
                    !.bonds = acc.bonds \cup {owner}] \in Accs
    BY <1>1, <1>2, <2>2 DEF Accs
  <2>4. [acc EXCEPT !.staked = more, !.known = acc.known \cup {owner},
                    !.bonds = acc.bonds \cup {owner}].distribution = acc.distribution
    BY DEF Accs
  <2> QED BY <2>1, <2>3, <2>4
<1>4. CASE log.name \in {"LogUnbondRequested", "LogUnbonded"} /\ owner \in acc.bonds
  <2> DEFINE less == [acc.staked EXCEPT ![owner] = acc.staked[owner] - amount]
  <2>1. Apply(acc, log) = [acc EXCEPT !.staked = less, !.bonds = acc.bonds \ {owner}]
    <3>1. Apply(acc, log) =
            [acc EXCEPT !.staked[log.owner] = @ - log.amount, !.bonds = @ \ {log.owner}]
      BY <1>4 DEF Apply
    <3> QED BY <3>1 DEF Accs
  <2>2. less \in Maps /\ \A o \in acc.bonds \ {owner} : AmountOf[o] <= less[o]
    <3>1. acc.staked[owner] \in Nat /\ amount <= acc.staked[owner]
      BY <1>1, <1>2, <1>4
    <3>2. acc.staked[owner] - amount \in Nat
      BY <1>2, <3>1
    <3> QED BY <1>1, <1>2, <3>2 DEF Maps
  <2> HIDE DEF less, owner
  <2>3. [acc EXCEPT !.staked = less, !.bonds = acc.bonds \ {owner}] \in Accs
    BY <1>1, <2>2 DEF Accs
  <2>4. [acc EXCEPT !.staked = less, !.bonds = acc.bonds \ {owner}].distribution
          = acc.distribution
    BY DEF Accs
  <2> QED BY <2>1, <2>3, <2>4
<1>5. CASE /\ log.name # "LogBond"
           /\ ~(log.name \in {"LogUnbondRequested", "LogUnbonded"} /\ owner \in acc.bonds)
  BY <1>5 DEF Apply
<1> QED BY <1>3, <1>4, <1>5

LEMMA StepType ==
  ASSUME NEW acc \in Accs, NEW t \in Nat, NEW log \in LogsUntil(t), NEW end \in Nat
  PROVE  /\ Step(acc, log, end) \in Accs
         /\ Step(acc, log, end).time = log.time
         /\ Step(acc, log, end).distribution = tally(acc, log.time, end).distribution
<1> DEFINE applied == Apply(tally(acc, log.time, end), log)
<1>1. /\ log.name \in LogNames /\ log.owner \in Owners /\ log.amount = AmountOf[log.owner]
      /\ log.time \in Nat
  BY DEF LogsUntil
<1>2. tally(acc, log.time, end) \in Accs
  BY <1>1, TallyType
<1>3. applied \in Accs /\ applied.distribution = tally(acc, log.time, end).distribution
  BY <1>1, <1>2, ApplyType
<1>4. Step(acc, log, end) = [applied EXCEPT !.time = log.time]
  BY DEF Step
<1> HIDE DEF applied
<1>5. /\ [applied EXCEPT !.time = log.time] \in Accs
      /\ [applied EXCEPT !.time = log.time].time = log.time
      /\ [applied EXCEPT !.time = log.time].distribution = applied.distribution
  BY <1>1, <1>3 DEF Accs
<1> QED BY <1>3, <1>4, <1>5

-----------------------------------------------------------------------------
(* The logs one after the other.                                             *)

IsStepping(g, ls, end) ==
  g = [s \in SUBSET DOMAIN ls |->
         IF s = {} THEN NoLogs ELSE Step(g[s \ {Max(s)}], ls[Max(s)], end)]

LEMMA SteppingExists ==
  ASSUME NEW t \in Nat, NEW ls \in Seq(LogsUntil(t)), NEW end \in Nat
  PROVE  \E g \in [SUBSET DOMAIN ls -> Accs] : IsStepping(g, ls, end)
<1> DEFINE D == DOMAIN ls
           op == [i \in D |-> [acc \in Accs |-> Step(acc, ls[i], end)]]
           ch == [s \in SUBSET D |-> Max(s)]
<1>1. IsFiniteSet(D) /\ D \subseteq Int /\ \A i \in D : ls[i] \in LogsUntil(t)
  <2>1. Len(ls) \in Nat /\ D = 1..Len(ls)
    OBVIOUS
  <2> QED BY <2>1, FS_Interval
<1>2. op \in [D -> [Accs -> Accs]]
  BY <1>1, StepType
<1>3. Picks(ch, D)
  BY <1>1, MaxInSet, FS_Subset DEF Picks
<1>4. PICK g \in [SUBSET D -> Accs] : IsFold(g, NoLogs, op, ch, SUBSET D)
  <2> HIDE DEF D, op, ch
  <2> QED BY <1>1, <1>2, <1>3, NoLogsType, FoldExists
<1>5. ASSUME NEW s \in SUBSET D
      PROVE  g[s] = IF s = {} THEN NoLogs ELSE Step(g[s \ {Max(s)}], ls[Max(s)], end)
  <2>1. CASE s = {}
    BY <1>4, <2>1 DEF IsFold
  <2>2. CASE s # {}
    <3>1. ch[s] = Max(s) /\ Max(s) \in D /\ g[s \ {Max(s)}] \in Accs
      BY <1>3, <1>4, <2>2 DEF Picks
    <3>2. op[Max(s)][g[s \ {Max(s)}]] = Step(g[s \ {Max(s)}], ls[Max(s)], end)
      BY <3>1
    <3>3. g[s] = op[Max(s)][g[s \ {Max(s)}]]
      BY <1>4, <2>2, <3>1 DEF IsFold
    <3> QED BY <2>2, <3>2, <3>3
  <2> QED BY <2>1, <2>2
<1>6. IsStepping(g, ls, end)
  BY <1>4, <1>5 DEF IsStepping
<1> QED BY <1>4, <1>6

\* The first n numbers, of which the last is the greatest.
LEMMA LastOfFirst ==
  ASSUME NEW n \in Nat \ {0}
  PROVE  1..n # {} /\ Max(1..n) = n /\ (1..n) \ {n} = 1 .. n - 1
<1>1. n \in 1..n /\ \A y \in 1..n : n >= y
  OBVIOUS
<1>2. \A m \in 1..n : (\A y \in 1..n : m >= y) => m = n
  BY <1>1
<1>3. (1..n) \ {n} = 1 .. n - 1
  OBVIOUS
<1> QED BY <1>1, <1>2, <1>3 DEF Max

\* The accumulator after each log.
IsTallied(f, ls, end) ==
  f[0] = NoLogs /\ \A n \in 1..Len(ls) : f[n] = Step(f[n - 1], ls[n], end)

LEMMA TalliedExists ==
  ASSUME NEW t \in Nat, NEW ls \in Seq(LogsUntil(t)), NEW end \in Nat
  PROVE  \E f \in [0..Len(ls) -> Accs] : IsTallied(f, ls, end)
<1>1. Len(ls) \in Nat /\ DOMAIN ls = 1..Len(ls)
  OBVIOUS
<1>2. PICK g \in [SUBSET DOMAIN ls -> Accs] : IsStepping(g, ls, end)
  BY SteppingExists
<1> DEFINE f == [n \in 0..Len(ls) |-> g[1..n]]
<1>3. f \in [0..Len(ls) -> Accs]
  <2>1. \A n \in 0..Len(ls) : 1..n \in SUBSET DOMAIN ls
    BY <1>1
  <2> QED BY <1>2, <2>1
<1>4. f[0] = NoLogs
  <2>1. 1..0 = {} /\ 0 \in 0..Len(ls)
    BY <1>1
  <2>2. g[{}] = NoLogs
    BY <1>2 DEF IsStepping
  <2> QED BY <2>1, <2>2
<1>5. ASSUME NEW n \in 1..Len(ls)
      PROVE  f[n] = Step(f[n - 1], ls[n], end)
  <2>1. 1..n \in SUBSET DOMAIN ls /\ n \in Nat \ {0}
    BY <1>1
  <2>2. g[1..n] = Step(g[1 .. n - 1], ls[n], end)
    <3> DEFINE s == 1..n
    <3>1. s # {} /\ Max(s) = n /\ s \ {n} = 1 .. n - 1
      BY <2>1, LastOfFirst
    <3>2. s \in SUBSET DOMAIN ls
      BY <2>1
    <3> HIDE DEF s
    <3>3. g[s] = Step(g[s \ {Max(s)}], ls[Max(s)], end)
      BY <1>2, <3>1, <3>2 DEF IsStepping
    <3> QED BY <3>1, <3>3 DEF s
  <2>3. f[n] = g[1..n] /\ f[n - 1] = g[1 .. n - 1]
    BY <1>1
  <2> QED BY <2>2, <2>3
<1> HIDE DEF f
<1> QED BY <1>3, <1>4, <1>5 DEF IsTallied

LEMMA DistributionIsTallied ==
  ASSUME NEW t \in Nat, NEW ls \in Seq(LogsUntil(t)), NEW end \in Nat,
         NEW f, IsTallied(f, ls, end)
  PROVE  getDistributionForPeriod(ls, end) = tally(f[Len(ls)], end, end)
<1> DEFINE g == CHOOSE h : IsStepping(h, ls, end)
           P == {n \in Nat : n <= Len(ls) => g[1..n] = f[n]}
<1>1. Len(ls) \in Nat /\ DOMAIN ls = 1..Len(ls)
  OBVIOUS
<1>2. IsStepping(g, ls, end)
  BY SteppingExists
<1>3. getDistributionForPeriod(ls, end) = tally(g[DOMAIN ls], end, end)
  BY DEF getDistributionForPeriod, FoldLeft, MapThenFoldSet, IsStepping
<1> HIDE DEF g
<1>4. 0 \in P
  <2>1. 1..0 = {}
    OBVIOUS
  <2>2. g[{}] = NoLogs
    BY <1>2 DEF IsStepping
  <2> QED BY <2>1, <2>2 DEF IsTallied
<1>5. ASSUME NEW n \in Nat, n \in P PROVE n + 1 \in P
  <2> SUFFICES ASSUME n + 1 <= Len(ls) PROVE g[1 .. n + 1] = f[n + 1]
    OBVIOUS
  <2>1. /\ 1 .. n + 1 \in SUBSET DOMAIN ls /\ n + 1 \in Nat \ {0} /\ (n + 1) - 1 = n
        /\ n + 1 \in 1..Len(ls)
    BY <1>1
  <2>2. g[1 .. n + 1] = Step(g[1..n], ls[n + 1], end)
    <3> DEFINE s == 1 .. n + 1
    <3>1. s # {} /\ Max(s) = n + 1 /\ s \ {n + 1} = 1..n
      BY <2>1, LastOfFirst
    <3>2. s \in SUBSET DOMAIN ls
      BY <2>1
    <3> HIDE DEF s
    <3>3. g[s] = Step(g[s \ {Max(s)}], ls[Max(s)], end)
      BY <1>2, <3>1, <3>2 DEF IsStepping
    <3> QED BY <3>1, <3>3 DEF s
  <2>3. g[1..n] = f[n]
    BY <1>1, <1>5
  <2>4. f[n + 1] = Step(f[n], ls[n + 1], end)
    BY <2>1 DEF IsTallied
  <2> QED BY <2>2, <2>3, <2>4
<1>6. Len(ls) \in P
  <2> HIDE DEF P
  <2> QED BY <1>1, <1>4, <1>5, NatSetInduction
<1> QED BY <1>1, <1>3, <1>6

-----------------------------------------------------------------------------
(* The incentives grow, with time and with every log.                        *)

EndAt(t) == Min({t, Ends})

LEMMA EndAtIs ==
  ASSUME NEW t \in Nat
  PROVE  EndAt(t) \in Nat /\ EndAt(t) = IF t <= Ends THEN t ELSE Ends
<1>1. Ends \in Nat
  BY RewardsAssumption
<1> QED BY <1>1, MinOfTwo DEF EndAt

LEMMA EndAtGrows ==
  ASSUME NEW early \in Nat, NEW late \in Nat, early <= late
  PROVE  EndAt(early) <= EndAt(late)
<1>1. Ends \in Nat
  BY RewardsAssumption
<1> QED BY <1>1, EndAtIs

LEMMA DistributionType ==
  ASSUME NEW t \in Nat, NEW ls \in Seq(LogsUntil(t)), NEW end \in Nat
  PROVE  getDistributionForPeriod(ls, end).distribution \in Maps
<1>1. PICK f \in [0..Len(ls) -> Accs] : IsTallied(f, ls, end)
  BY TalliedExists
<1>2. f[Len(ls)] \in Accs
  <2>1. Len(ls) \in 0..Len(ls)
    OBVIOUS
  <2> QED BY <1>1, <2>1
<1>3. tally(f[Len(ls)], end, end) \in Accs
  BY <1>2, TallyType
<1> QED BY <1>1, <1>3, DistributionIsTallied DEF Accs

\* What was counted up to a log does not depend on when one asks later.
LEMMA TallyBeforeTheEnd ==
  ASSUME NEW acc \in Accs, NEW time \in Nat, NEW early \in Nat, NEW late \in Nat,
         time <= early, early <= late
  PROVE  tally(acc, time, EndAt(early)) = tally(acc, time, EndAt(late))
<1>1. EndAt(early) \in Nat /\ EndAt(late) \in Nat /\ Ends \in Nat
  BY EndAtIs, RewardsAssumption
<1>2. Span(acc, time, EndAt(early)) = Span(acc, time, EndAt(late))
  BY <1>1, SpanIs, EndAtIs
<1> QED BY <1>2, TallyIs

LEMMA TallyAtTheEnd ==
  ASSUME NEW acc \in Accs, NEW t \in Nat
  PROVE  tally(acc, t, EndAt(t)) = tally(acc, EndAt(t), EndAt(t))
<1>1. EndAt(t) \in Nat /\ Ends \in Nat /\ EndAt(t) <= t
  BY EndAtIs, RewardsAssumption
<1>2. Span(acc, t, EndAt(t)) = Span(acc, EndAt(t), EndAt(t))
  BY <1>1, SpanIs
<1> QED BY <1>2, TallyIs

LEMMA TalliedBeforeTheEnd ==
  ASSUME NEW early \in Nat, NEW late \in Nat, early <= late,
         NEW ls \in Seq(LogsUntil(early)), NEW f \in [0..Len(ls) -> Accs],
         IsTallied(f, ls, EndAt(early))
  PROVE  IsTallied(f, ls, EndAt(late))
<1>1. ASSUME NEW n \in 1..Len(ls)
      PROVE  f[n] = Step(f[n - 1], ls[n], EndAt(late))
  <2>1. f[n - 1] \in Accs /\ ls[n] \in LogsUntil(early)
    OBVIOUS
  <2>2. ls[n].time \in Nat /\ ls[n].time <= early
    BY <2>1 DEF LogsUntil
  <2>3. f[n] = Step(f[n - 1], ls[n], EndAt(early))
    BY DEF IsTallied
  <2>4. tally(f[n - 1], ls[n].time, EndAt(early)) = tally(f[n - 1], ls[n].time, EndAt(late))
    BY <2>1, <2>2, TallyBeforeTheEnd
  <2> QED BY <2>3, <2>4 DEF Step
<1> QED BY <1>1 DEF IsTallied

LEMMA DistributionGrowsWithTime ==
  ASSUME NEW early \in Nat, NEW late \in Nat, early <= late,
         NEW ls \in Seq(LogsUntil(early))
  PROVE  Grows(getDistributionForPeriod(ls, EndAt(early)).distribution,
               getDistributionForPeriod(ls, EndAt(late)).distribution)
<1>1. EndAt(early) \in Nat /\ EndAt(late) \in Nat /\ EndAt(early) <= EndAt(late)
  BY EndAtIs, EndAtGrows
<1>2. PICK f \in [0..Len(ls) -> Accs] : IsTallied(f, ls, EndAt(early))
  BY <1>1, TalliedExists
<1>3. IsTallied(f, ls, EndAt(late))
  BY <1>2, TalliedBeforeTheEnd
<1>4. f[Len(ls)] \in Accs
  <2>1. Len(ls) \in 0..Len(ls)
    OBVIOUS
  <2> QED BY <1>2, <2>1
<1>5. /\ getDistributionForPeriod(ls, EndAt(early)) = tally(f[Len(ls)], EndAt(early), EndAt(early))
      /\ getDistributionForPeriod(ls, EndAt(late)) = tally(f[Len(ls)], EndAt(late), EndAt(late))
  BY <1>1, <1>2, <1>3, DistributionIsTallied
<1> QED BY <1>1, <1>4, <1>5, TallyGrows

\* Who bonds or unbonds now changes nothing of what was earned up to now.
LEMMA DistributionGrowsWithLog ==
  ASSUME NEW t \in Nat, NEW ls \in Seq(LogsUntil(t)), NEW log \in LogsUntil(t), log.time = t
  PROVE  Grows(getDistributionForPeriod(ls, EndAt(t)).distribution,
               getDistributionForPeriod(Append(ls, log), EndAt(t)).distribution)
<1> DEFINE n == Len(ls)
           longer == Append(ls, log)
           end == EndAt(t)
<1>1. /\ n \in Nat /\ longer \in Seq(LogsUntil(t)) /\ Len(longer) = n + 1
      /\ \A i \in 1..n : longer[i] = ls[i]
      /\ longer[n + 1] = log
  OBVIOUS
<1>2. end \in Nat
  BY EndAtIs
<1> HIDE DEF n, longer, end
<1>3. PICK f \in [0..Len(longer) -> Accs] : IsTallied(f, longer, end)
  BY <1>1, <1>2, TalliedExists
<1>4. IsTallied(f, ls, end)
  <2>1. \A i \in 1..n : i \in 1..Len(longer)
    BY <1>1
  <2> QED BY <1>1, <1>3, <2>1 DEF IsTallied, n
<1>5. f[n] \in Accs /\ f[n + 1] \in Accs /\ f[n + 1] = Step(f[n], log, end)
  <2>1. n + 1 \in 1..Len(longer) /\ n \in 0..Len(longer) /\ n + 1 \in 0..Len(longer)
        /\ (n + 1) - 1 = n
    BY <1>1
  <2> QED BY <1>1, <1>3, <2>1 DEF IsTallied
<1>6. tally(f[n], t, end) = tally(f[n], end, end)
  BY <1>5, TallyAtTheEnd DEF end
<1>7. f[n + 1].distribution = tally(f[n], end, end).distribution
  BY <1>2, <1>5, <1>6, StepType
<1>8. Grows(f[n + 1].distribution, tally(f[n + 1], end, end).distribution)
  BY <1>2, <1>5, TallyType
<1>9. getDistributionForPeriod(ls, end) = tally(f[n], end, end)
  BY <1>2, <1>4, DistributionIsTallied DEF n
<1>10. getDistributionForPeriod(longer, end) = tally(f[n + 1], end, end)
  BY <1>1, <1>2, <1>3, DistributionIsTallied
<1> QED BY <1>7, <1>8, <1>9, <1>10 DEF end, longer

-----------------------------------------------------------------------------
(* The logs, and what they grant.                                            *)

LEMMA LogsUntilGrows ==
  ASSUME NEW t \in Nat
  PROVE  LogsUntil(t) \subseteq LogsUntil(t + 1)
BY DEF LogsUntil

LEMMA WorldKeepsLogs ==
  ASSUME LogsInv, UNCHANGED world
  PROVE  LogsInv'
BY DEF LogsInv, world, LogsUntil

LEMMA PassDayKeepsLogs ==
  ASSUME LogsInv, PassDay
  PROVE  LogsInv'
<1>1. /\ now \in 0..MaxTime /\ now < MaxTime /\ now' = now + 1 /\ MaxTime \in Nat
      /\ paid' = paid /\ logs' = logs
  BY ScriptsAssumption DEF PassDay, LogsInv
<1>2. logs \in Seq(LogsUntil(now + 1))
  <2>1. LogsUntil(now) \subseteq LogsUntil(now + 1)
    BY <1>1, LogsUntilGrows
  <2>2. logs \in Seq(LogsUntil(now))
    BY DEF LogsInv
  <2> QED BY <2>1, <2>2
<1>3. now' \in 0..MaxTime
  BY <1>1
<1>4. logs' \in Seq(LogsUntil(now'))
  BY <1>1, <1>2
<1> QED BY <1>1, <1>3, <1>4 DEF LogsInv

\* A log is of now.
LEMMA NewLog ==
  ASSUME LogsInv, NEW o \in Owners, Bond(o) \/ RequestUnbond(o) \/ Unbond(o)
  PROVE  /\ UNCHANGED <<now, paid, channels, records, run, identity, disturbed>>
         /\ \E log \in LogsUntil(now) : log.time = now /\ logs' = Append(logs, log)
<1>1. PICK name \in LogNames : Log(name, o)
  BY DEF Bond, RequestUnbond, Unbond, LogNames
<1> DEFINE log == [name |-> name, owner |-> o, amount |-> AmountOf[o], time |-> now]
<1>2. log \in LogsUntil(now) /\ log.time = now
  <2>1. now \in Nat /\ AmountOf[o] \in Nat
    BY ScriptsAssumption DEF LogsInv
  <2> QED BY <2>1 DEF LogsUntil
<1>3. /\ logs' = Append(logs, log)
      /\ UNCHANGED <<now, paid, channels, records, run, identity, disturbed>>
  BY <1>1 DEF Log, chain
<1> HIDE DEF log
<1> QED BY <1>2, <1>3

LEMMA LogKeepsLogs ==
  ASSUME LogsInv, NEW o \in Owners, Bond(o) \/ RequestUnbond(o) \/ Unbond(o)
  PROVE  LogsInv'
<1>1. PICK log \in LogsUntil(now) : log.time = now /\ logs' = Append(logs, log)
  BY NewLog
<1>2. UNCHANGED <<now, paid>>
  BY NewLog
<1>3. Append(logs, log) \in Seq(LogsUntil(now))
  <2>1. logs \in Seq(LogsUntil(now))
    BY DEF LogsInv
  <2> QED BY <2>1
<1>4. logs' \in Seq(LogsUntil(now'))
  BY <1>1, <1>2, <1>3
<1> QED BY <1>2, <1>4 DEF LogsInv

LEMMA LogsInvInductive == Spec => []LogsInv
<1>1. Init => LogsInv
  <2> SUFFICES ASSUME Init PROVE LogsInv
    OBVIOUS
  <2>1. <<>> \in Seq(LogsUntil(now))
    OBVIOUS
  <2> QED BY <2>1, ScriptsAssumption DEF Init, LogsInv
<1>2. LogsInv /\ [Next]_vars => LogsInv'
  <2> SUFFICES ASSUME LogsInv, [Next]_vars PROVE LogsInv'
    OBVIOUS
  <2>1. ASSUME StartRewards \/ StartIncentives PROVE LogsInv'
    BY <2>1, WorldKeepsLogs DEF StartRewards, StartIncentives
  <2>2. ASSUME NEW s \in Scripts,
               AskNonce(s) \/ Open(s) \/ FailToOpen(s) \/ SaveRecord(s) \/ Die(s)
        PROVE  LogsInv'
    BY <2>2, WorldKeepsLogs DEF AskNonce, Open, FailToOpen, SaveRecord, Die
  <2>3. ASSUME UNCHANGED vars PROVE LogsInv'
    BY <2>3, WorldKeepsLogs DEF vars, world
  <2> QED BY <2>1, <2>2, <2>3, PassDayKeepsLogs, LogKeepsLogs DEF Next
<1> QED BY <1>1, <1>2, PTL DEF Spec

\* What is granted now, by all that is known.
Granted == Incentives.distribution

LEMMA GrantedType ==
  ASSUME LogsInv
  PROVE  Granted \in Maps /\ Granted = getDistributionForPeriod(logs, EndAt(now)).distribution
<1>1. now \in Nat /\ logs \in Seq(LogsUntil(now))
  BY ScriptsAssumption DEF LogsInv
<1>2. EndAt(now) \in Nat
  BY <1>1, EndAtIs
<1>3. Granted = getDistributionForPeriod(logs, EndAt(now)).distribution
  BY DEF Granted, Incentives, EndAt
<1> QED BY <1>1, <1>2, <1>3, DistributionType

LEMMA GrantedPrimed ==
  ASSUME LogsInv'
  PROVE  Granted' \in [Owners -> Nat]
<1>1. now' \in Nat /\ logs' \in Seq(LogsUntil(now'))
  BY ScriptsAssumption DEF LogsInv
<1>2. EndAt(now') \in Nat
  BY <1>1, EndAtIs
<1>3. Granted' = getDistributionForPeriod(logs', EndAt(now')).distribution
  BY DEF Granted, Incentives, EndAt
<1> QED BY <1>1, <1>2, <1>3, DistributionType DEF Maps

LEMMA GrantedGrows ==
  ASSUME LogsInv, LogsInv', [Next]_vars
  PROVE  Grows(Granted, Granted')
<1>1. now \in Nat /\ logs \in Seq(LogsUntil(now))
  BY ScriptsAssumption DEF LogsInv
<1>2. Granted = getDistributionForPeriod(logs, EndAt(now)).distribution
  BY GrantedType
<1>3. Granted' = getDistributionForPeriod(logs', EndAt(now')).distribution
  BY DEF Granted, Incentives, EndAt
<1>4. CASE UNCHANGED world
  <2>1. Granted' = Granted
    BY <1>2, <1>3, <1>4 DEF world
  <2>2. \A o \in Owners : Granted[o] \in Nat
    BY GrantedType DEF Maps
  <2> QED BY <2>1, <2>2 DEF Grows
<1>5. CASE PassDay
  <2>1. now' = now + 1 /\ logs' = logs
    BY <1>5 DEF PassDay
  <2>2. now + 1 \in Nat /\ now <= now + 1
    BY <1>1
  <2> QED BY <1>1, <1>2, <1>3, <2>1, <2>2, DistributionGrowsWithTime
<1>6. ASSUME NEW o \in Owners, Bond(o) \/ RequestUnbond(o) \/ Unbond(o)
      PROVE  Grows(Granted, Granted')
  <2>1. PICK log \in LogsUntil(now) : log.time = now /\ logs' = Append(logs, log)
    BY <1>6, NewLog
  <2>2. now' = now
    BY <1>6, NewLog
  <2> QED BY <1>1, <1>2, <1>3, <2>1, <2>2, DistributionGrowsWithLog
<1>7. ASSUME NEW s \in Scripts,
             AskNonce(s) \/ Open(s) \/ FailToOpen(s) \/ SaveRecord(s) \/ Die(s)
      PROVE  UNCHANGED world
  BY <1>7 DEF AskNonce, Open, FailToOpen, SaveRecord, Die
<1>8. ASSUME StartRewards \/ StartIncentives \/ UNCHANGED vars PROVE UNCHANGED world
  BY <1>8 DEF StartRewards, StartIncentives, vars, world
<1> QED BY <1>4, <1>5, <1>6, <1>7, <1>8 DEF Next

-----------------------------------------------------------------------------
(* What is opened holds what is signed.                                      *)

TheIncentives == [script |-> "incentives", month |-> 0, amount |-> INCENTIVE_TO_DISTRIBUTE]

\* A job or a record whose balances fit in its channel.
IsBacked(r) ==
  /\ r.channel.script \in Scripts /\ r.channel.amount \in Nat
  /\ r.balances \in Maps
  /\ Total(r.balances) <= r.channel.amount
  /\ r.channel.script = "incentives" => r.channel = TheIncentives

RecordsInv ==
  /\ \A r \in records : IsBacked(r) /\ r.channel \in channels
  /\ \A r, q \in records : r.channel = q.channel => r = q

\* A run of jobs that are backed; what it is about to record is open.
IsBackedRun(r, open) ==
  /\ r.pc \in {"off", "asking", "opening", "recording"}
  /\ \A k \in 1..Len(r.todo) : IsBacked(r.todo[k])
  /\ r.pc = "recording" => Head(r.todo).channel \in open

BackedInv ==
  /\ identity.funds \in Nat
  /\ RecordsInv
  /\ \A s \in Scripts : IsBackedRun(run[s], channels)
  /\ disturbed \subseteq channels

LEMMA NextJobBacked ==
  ASSUME OrderInv, BackedInv, NEW s \in Scripts, run[s].pc # "off"
  PROVE  IsBacked(Next1(s)) /\ Next1(s).channel.script = s
<1>1. run[s].todo # <<>> /\ \E S : run[s].todo \in Seq(S)
  BY DEF OrderInv, RunInv, IsRun
<1>2. 1 \in 1..Len(run[s].todo) /\ Next1(s) = run[s].todo[1]
  BY <1>1 DEF Next1
<1>3. IsBacked(run[s].todo[1])
  BY <1>2 DEF BackedInv, IsBackedRun
<1> QED BY <1>2, <1>3, NextJob

LEMMA PriceType ==
  ASSUME NEW job, IsBacked(job)
  PROVE  Price(job) \in Nat
<1>1. OPEN_FEE \in Nat /\ job.channel.amount \in Nat
  BY RewardsAssumption DEF IsBacked
<1> QED BY <1>1 DEF Price

\* A run moves on, whatever is opened and recorded.
LEMMA BackedInvKept ==
  ASSUME OrderInv, BackedInv, NEW s \in Scripts, NEW r, run' = [run EXCEPT ![s] = r],
         IsBackedRun(r, channels'), channels \subseteq channels', disturbed' \subseteq channels',
         identity'.funds \in Nat, RecordsInv'
  PROVE  BackedInv'
<1>1. DOMAIN run = Scripts
  BY DEF OrderInv, RunInv
<1>2. run'[s] = r /\ \A t \in Scripts \ {s} : run'[t] = run[t]
  BY <1>1
<1>3. ASSUME NEW t \in Scripts PROVE IsBackedRun(run'[t], channels')
  <2>1. CASE t = s
    BY <1>2, <2>1
  <2>2. CASE t # s
    <3>1. IsBackedRun(run[t], channels')
      BY DEF BackedInv, IsBackedRun
    <3> QED BY <1>2, <2>2, <3>1
  <2> QED BY <2>1, <2>2
<1>4. \A t \in Scripts : IsBackedRun(run[t], channels)'
  BY <1>3 DEF IsBackedRun
<1> QED BY <1>4 DEF BackedInv

LEMMA RecordsInvKept ==
  ASSUME BackedInv, UNCHANGED records, channels \subseteq channels'
  PROVE  RecordsInv'
BY DEF BackedInv, RecordsInv

LEMMA OffIsBacked ==
  ASSUME NEW open
  PROVE  IsBackedRun(Off, open)
<1>1. Off.pc = "off" /\ Len(Off.todo) = 0
  BY DEF Off, At
<1> QED BY <1>1 DEF IsBackedRun

LEMMA BackedUntouched ==
  ASSUME BackedInv, UNCHANGED <<identity, channels, records, run, disturbed>>
  PROVE  BackedInv'
<1>1. RecordsInv'
  BY RecordsInvKept
<1> QED BY <1>1 DEF BackedInv, IsBackedRun

LEMMA AskNonceBacked ==
  ASSUME OrderInv, BackedInv, NEW s \in Scripts, AskNonce(s)
  PROVE  BackedInv'
<1> DEFINE r == At("opening", run[s].todo, identity.nonce)
<1>1. run' = [run EXCEPT ![s] = r] /\ UNCHANGED <<identity, channels, records, disturbed>>
  BY DEF AskNonce, chain
<1>2. IsBackedRun(r, channels')
  <2>1. r.pc = "opening" /\ r.todo = run[s].todo
    BY DEF At
  <2> HIDE DEF r
  <2> QED BY <2>1 DEF BackedInv, IsBackedRun
<1> HIDE DEF r
<1>3. /\ identity'.funds \in Nat /\ channels \subseteq channels' /\ disturbed' \subseteq channels'
      /\ RecordsInv'
  BY <1>1, RecordsInvKept DEF BackedInv
<1> QED BY <1>1, <1>2, <1>3, BackedInvKept

\* The price is paid from what is there.
LEMMA ExecuteBacked ==
  ASSUME OrderInv, BackedInv, NEW s \in Scripts, run[s].pc # "off", Execute(s)
  PROVE  /\ identity'.funds \in Nat
         /\ channels' = channels \cup {Next1(s).channel}
<1>1. Price(Next1(s)) \in Nat
  BY NextJobBacked, PriceType
<1>2. Price(Next1(s)) <= identity.funds
  BY DEF Execute, IsExecuted
<1>3. identity'.funds = identity.funds - Price(Next1(s))
  BY DEF Execute
<1>4. identity.funds \in Nat
  BY DEF BackedInv
<1>5. identity'.funds \in Nat
  BY <1>1, <1>2, <1>3, <1>4
<1> QED BY <1>5 DEF Execute

LEMMA OpenBacked ==
  ASSUME OrderInv, BackedInv, NEW s \in Scripts, Open(s)
  PROVE  BackedInv'
<1> DEFINE r == At("recording", run[s].todo, run[s].nonce)
<1>1. run' = [run EXCEPT ![s] = r] /\ UNCHANGED <<records, disturbed>>
  BY DEF Open
<1>2. run[s].pc = "opening" /\ Execute(s)
  BY DEF Open
<1>3. identity'.funds \in Nat /\ channels' = channels \cup {Next1(s).channel}
  BY <1>2, ExecuteBacked
<1>4. IsBackedRun(r, channels')
  <2>1. r.pc = "recording" /\ r.todo = run[s].todo
    BY DEF At
  <2>2. Head(run[s].todo).channel \in channels'
    BY <1>3 DEF Next1
  <2> HIDE DEF r
  <2> QED BY <2>1, <2>2 DEF BackedInv, IsBackedRun
<1> HIDE DEF r
<1>5. channels \subseteq channels' /\ disturbed' \subseteq channels' /\ RecordsInv'
  BY <1>1, <1>3, RecordsInvKept DEF BackedInv
<1> QED BY <1>1, <1>3, <1>4, <1>5, BackedInvKept

LEMMA FailToOpenBacked ==
  ASSUME OrderInv, BackedInv, NEW s \in Scripts, FailToOpen(s)
  PROVE  BackedInv'
<1>1. run' = [run EXCEPT ![s] = Off] /\ UNCHANGED <<identity, channels, records, disturbed>>
  BY DEF FailToOpen, chain
<1>2. /\ identity'.funds \in Nat /\ channels \subseteq channels' /\ disturbed' \subseteq channels'
      /\ RecordsInv'
  BY <1>1, RecordsInvKept DEF BackedInv
<1> QED BY <1>1, <1>2, OffIsBacked, BackedInvKept

LEMMA DieBacked ==
  ASSUME OrderInv, BackedInv, NEW s \in Scripts, Die(s)
  PROVE  BackedInv'
<1>1. run[s].pc # "off" /\ run' = [run EXCEPT ![s] = Off] /\ UNCHANGED records
  BY DEF Die
<1>2. CASE /\ Execute(s)
           /\ disturbed' = disturbed \cup {Next1(s).channel}
  <2>1. identity'.funds \in Nat /\ channels' = channels \cup {Next1(s).channel}
    BY <1>1, <1>2, ExecuteBacked
  <2>2. channels \subseteq channels' /\ disturbed' \subseteq channels' /\ RecordsInv'
    BY <1>1, <1>2, <2>1, RecordsInvKept DEF BackedInv
  <2> QED BY <1>1, <2>1, <2>2, OffIsBacked, BackedInvKept
<1>3. CASE /\ UNCHANGED <<identity, channels>>
           /\ disturbed' = IF run[s].pc = "recording"
                           THEN disturbed \cup {Next1(s).channel} ELSE disturbed
  <2>1. run[s].pc = "recording" => Next1(s).channel \in channels
    BY DEF BackedInv, IsBackedRun, Next1
  <2>2. /\ identity'.funds \in Nat /\ channels \subseteq channels' /\ disturbed' \subseteq channels'
        /\ RecordsInv'
    BY <1>1, <1>3, <2>1, RecordsInvKept DEF BackedInv
  <2> QED BY <1>1, <2>2, OffIsBacked, BackedInvKept
<1> QED BY <1>2, <1>3 DEF Die, chain

\* What is left of a run's jobs once the first is done.
LEMMA RestOfJobs ==
  ASSUME OrderInv, NEW s \in Scripts, run[s].pc # "off"
  PROVE  /\ Len(run[s].todo) \in Nat
         /\ Len(Tail(run[s].todo)) = Len(run[s].todo) - 1
         /\ \A k \in 1..Len(run[s].todo) - 1 : Tail(run[s].todo)[k] = run[s].todo[k + 1]
<1> DEFINE todo == run[s].todo
<1>1. todo # <<>> /\ \E S : todo \in Seq(S)
  BY DEF OrderInv, RunInv, IsRun
<1>2. PICK S : todo \in Seq(S)
  BY <1>1
<1> HIDE DEF todo
<1>3. /\ Len(todo) \in Nat /\ Len(Tail(todo)) = Len(todo) - 1
      /\ \A k \in 1..Len(todo) - 1 : Tail(todo)[k] = todo[k + 1]
  BY <1>1, <1>2, HeadTailProperties
<1> QED BY <1>3 DEF todo

LEMMA SaveRecordBacked ==
  ASSUME OrderInv, BackedInv, NEW s \in Scripts, SaveRecord(s)
  PROVE  BackedInv'
<1> DEFINE rest == Tail(run[s].todo)
           r == IF rest = <<>> THEN Off ELSE At("asking", rest, 0)
<1>1. /\ run[s].pc = "recording" /\ records' = RecordsWith(Next1(s))
      /\ run' = [run EXCEPT ![s] = r]
      /\ UNCHANGED <<identity, channels, disturbed>>
  BY DEF SaveRecord, chain
<1>2. IsBacked(Next1(s)) /\ Next1(s).channel \in channels
  BY <1>1, NextJobBacked DEF BackedInv, IsBackedRun, Next1
<1>3. RecordsInv'
  BY <1>1, <1>2 DEF BackedInv, RecordsInv, RecordsWith
<1>4. \A k \in 1..Len(rest) : IsBacked(rest[k])
  <2>1. \A k \in 1..Len(run[s].todo) : IsBacked(run[s].todo[k])
    BY DEF BackedInv, IsBackedRun
  <2>2. ASSUME NEW k \in 1..Len(rest) PROVE IsBacked(rest[k])
    <3>1. k \in 1..Len(run[s].todo) - 1 /\ k + 1 \in 1..Len(run[s].todo)
      BY <1>1, RestOfJobs
    <3>2. rest[k] = run[s].todo[k + 1]
      BY <1>1, <3>1, RestOfJobs
    <3> QED BY <2>1, <3>1, <3>2
  <2> QED BY <2>2
<1>5. IsBackedRun(r, channels')
  <2>1. CASE rest = <<>>
    BY <2>1, OffIsBacked
  <2>2. CASE rest # <<>>
    <3>1. r.pc = "asking" /\ r.todo = rest
      BY <2>2 DEF At
    <3> HIDE DEF r, rest
    <3> QED BY <1>4, <3>1 DEF IsBackedRun
  <2> QED BY <2>1, <2>2
<1> HIDE DEF r
<1>6. identity'.funds \in Nat /\ channels \subseteq channels' /\ disturbed' \subseteq channels'
  BY <1>1 DEF BackedInv
<1> QED BY <1>1, <1>3, <1>5, <1>6, BackedInvKept

\* A month's channel holds what its points are worth.
LEMMA MonthJobBacked ==
  ASSUME LogsInv, NEW month, IsComputable(month)
  PROVE  IsBacked(MonthJob(month))
<1> DEFINE balances == calculateDistributionForPeriod(logs, Points(month))
<1>1. balances \in Maps
  BY PointsType, PeriodType
<1> HIDE DEF balances
<1>2. Total(balances) \in Nat
  BY <1>1, TotalType
<1>3. /\ MonthJob(month).channel = [script |-> "rewards", month |-> month,
                                     amount |-> Total(balances)]
      /\ MonthJob(month).balances = balances
  BY DEF MonthJob, Job, balances
<1> QED BY <1>1, <1>2, <1>3 DEF IsBacked, Scripts

LEMMA StartRewardsBacked ==
  ASSUME OrderInv, LogsInv, BackedInv, StartRewards
  PROVE  BackedInv'
<1> DEFINE n == Cardinality(Months)
           jobs == [k \in 1..n |-> MonthJob(StartMonth + k - 1)]
           r == At("asking", jobs, 0)
<1>1. /\ run' = [run EXCEPT !["rewards"] = r]
      /\ UNCHANGED <<identity, channels, records, disturbed>>
      /\ \A month \in Months : IsComputable(month)
  BY DEF StartRewards, chain
<1>2. StartMonth \in Nat
  BY StartMonthIsNew DEF OrderInv
<1>3. n \in Nat /\ \A k \in 1..n : StartMonth + k - 1 \in Months
  <2> DEFINE last == (now \div DaysInMonth) - 1
  <2>1. last \in Int
    BY ScriptsAssumption DEF OrderInv
  <2>2. Months = StartMonth..last
    BY DEF Months
  <2> HIDE DEF last
  <2>3. IF StartMonth > last THEN n = 0 ELSE n = last - StartMonth + 1
    BY <1>2, <2>1, <2>2, FS_Interval
  <2> HIDE DEF n
  <2> QED BY <1>2, <2>1, <2>2, <2>3
<1> HIDE DEF n
<1>4. Len(jobs) = n /\ \A k \in 1..n : jobs[k] = MonthJob(StartMonth + k - 1)
  BY <1>3
<1> HIDE DEF jobs
<1>5. \A k \in 1..n : IsBacked(jobs[k])
  BY <1>1, <1>3, <1>4, MonthJobBacked
<1>6. IsBackedRun(r, channels')
  <2>1. r.pc = "asking" /\ r.todo = jobs
    BY DEF At
  <2> HIDE DEF r
  <2> QED BY <1>4, <1>5, <2>1 DEF IsBackedRun
<1> HIDE DEF r
<1>7. /\ identity'.funds \in Nat /\ channels \subseteq channels' /\ disturbed' \subseteq channels'
      /\ RecordsInv'
  BY <1>1, RecordsInvKept DEF BackedInv
<1> QED BY <1>1, <1>6, <1>7, BackedInvKept DEF Scripts

\* If there is a record, the one channel of the incentives is open.
LEMMA StartIncentivesBacked ==
  ASSUME OrderInv, LogsInv, BackedInv, StartIncentives
  PROVE  BackedInv'
<1> DEFINE job == Job("incentives", 0, INCENTIVE_TO_DISTRIBUTE, Incentives.distribution)
           pc == IF Recorded("incentives") = {} THEN "asking" ELSE "recording"
           r == At(pc, <<job>>, 0)
<1>1. /\ run' = [run EXCEPT !["incentives"] = r]
      /\ Total(Incentives.distribution) <= INCENTIVE_TO_DISTRIBUTE
  BY DEF StartIncentives
<1>2. UNCHANGED <<identity, channels, records, disturbed>>
  BY DEF StartIncentives, chain
<1>3. INCENTIVE_TO_DISTRIBUTE \in Nat
  <2>1. PerSecond \in Nat /\ Ends - Starts \in Nat
    BY RewardsAssumption
  <2> QED BY <2>1, Products DEF INCENTIVE_TO_DISTRIBUTE
<1>4. job.channel = TheIncentives /\ job.balances = Incentives.distribution
  BY DEF Job, TheIncentives
<1>5. Incentives.distribution \in Maps
  BY GrantedType DEF Granted
<1> HIDE DEF job
<1>6. IsBacked(job)
  BY <1>1, <1>3, <1>4, <1>5 DEF IsBacked, TheIncentives, Scripts
<1>7. pc = "recording" => TheIncentives \in channels
  BY DEF Recorded, BackedInv, RecordsInv, IsBacked
<1>8. pc \in {"asking", "recording"}
  OBVIOUS
<1> HIDE DEF pc
<1>9. IsBackedRun(r, channels')
  <2>1. r.pc = pc /\ r.todo = <<job>> /\ Len(<<job>>) = 1 /\ <<job>>[1] = job
    BY DEF At
  <2>2. Head(<<job>>) = job
    OBVIOUS
  <2>3. pc = "recording" => job.channel \in channels'
    BY <1>2, <1>4, <1>7
  <2> HIDE DEF r
  <2> QED BY <1>6, <1>8, <2>1, <2>2, <2>3 DEF IsBackedRun
<1> HIDE DEF r
<1>10. /\ identity'.funds \in Nat /\ channels \subseteq channels' /\ disturbed' \subseteq channels'
       /\ RecordsInv'
  BY <1>2, RecordsInvKept DEF BackedInv
<1> QED BY <1>1, <1>9, <1>10, BackedInvKept DEF Scripts

LEMMA BackedInvInductive == Spec => []BackedInv
<1>1. Init => BackedInv
  <2> SUFFICES ASSUME Init PROVE BackedInv
    OBVIOUS
  <2>1. identity.funds \in Nat
    BY ScriptsAssumption DEF Init
  <2>2. RecordsInv /\ disturbed \subseteq channels
    BY DEF Init, RecordsInv
  <2>3. \A s \in Scripts : IsBackedRun(run[s], channels)
    BY OffIsBacked DEF Init
  <2> QED BY <2>1, <2>2, <2>3 DEF BackedInv
<1>2. OrderInv /\ LogsInv /\ BackedInv /\ [Next]_vars => BackedInv'
  <2> SUFFICES ASSUME OrderInv, LogsInv, BackedInv, [Next]_vars PROVE BackedInv'
    OBVIOUS
  <2>1. ASSUME PassDay \/ UNCHANGED vars PROVE BackedInv'
    BY <2>1, BackedUntouched DEF PassDay, vars, chain
  <2>2. ASSUME NEW o \in Owners, Bond(o) \/ RequestUnbond(o) \/ Unbond(o) PROVE BackedInv'
    BY <2>2, NewLog, BackedUntouched
  <2>3. ASSUME NEW s \in Scripts,
               AskNonce(s) \/ Open(s) \/ FailToOpen(s) \/ SaveRecord(s) \/ Die(s)
        PROVE  BackedInv'
    BY <2>3, AskNonceBacked, OpenBacked, FailToOpenBacked, SaveRecordBacked, DieBacked
  <2> QED BY <2>1, <2>2, <2>3, StartRewardsBacked, StartIncentivesBacked DEF Next
<1> QED BY <1>1, <1>2, OrderInvInductive, LogsInvInductive, PTL DEF Spec

\* Records and jobs hold what channels and balances they should.
THEOREM ScriptsTypeCorrect == Spec => []TypeOK
<1>1. OrderInv /\ LogsInv /\ BackedInv => TypeOK
  <2> SUFFICES ASSUME OrderInv, LogsInv, BackedInv PROVE TypeOK
    OBVIOUS
  <2>1. now \in 0..MaxTime /\ paid \in Histories /\ identity.funds >= 0
        /\ disturbed \subseteq channels
    BY DEF LogsInv, BackedInv
  <2>2. ASSUME NEW r \in records \cup Jobs PROVE IsBacked(r)
    <3>1. CASE r \in records
      BY <3>1 DEF BackedInv, RecordsInv
    <3>2. CASE r \in Jobs
      <4>1. PICK s \in Scripts : r \in ToSet(run[s].todo)
        BY <3>2 DEF Jobs
      <4>2. PICK S : run[s].todo \in Seq(S)
        BY DEF OrderInv, RunInv, IsRun
      <4>3. PICK k \in 1..Len(run[s].todo) : r = run[s].todo[k]
        BY <4>1, <4>2 DEF ToSet
      <4> QED BY <4>3 DEF BackedInv, IsBackedRun
    <3> QED BY <2>2, <3>1, <3>2
  <2>3. \A s \in Scripts : /\ run[s].pc \in {"off", "asking", "opening", "recording"}
                           /\ run[s].pc = "off" <=> run[s].todo = <<>>
    BY DEF BackedInv, IsBackedRun, OrderInv, RunInv, IsRun
  <2> QED BY <2>1, <2>2, <2>3 DEF TypeOK, IsBacked, Maps
<1> QED BY <1>1, OrderInvInductive, LogsInvInductive, BackedInvInductive, PTL

\* What is signed can be withdrawn, and there is one record of a channel.
THEOREM SignedIsBacked == Spec => []RecordsAreBacked
<1>1. BackedInv => RecordsAreBacked
  BY DEF BackedInv, RecordsInv, IsBacked, RecordsAreBacked
<1> QED BY <1>1, BackedInvInductive, PTL

-----------------------------------------------------------------------------
(* What was signed is never taken back.                                      *)

\* The records of the incentives are within what is granted now, and so is the
\* one job of a run, which is no less than any record.
GrowInv ==
  /\ \A r \in Recorded("incentives") : Grows(r.balances, Granted)
  /\ Len(run["incentives"].todo) <= 1
  /\ \A k \in 1..Len(run["incentives"].todo) :
       /\ Grows(run["incentives"].todo[k].balances, Granted)
       /\ \A r \in Recorded("incentives") :
            Grows(r.balances, run["incentives"].todo[k].balances)

LEMMA GrowsTransitive ==
  ASSUME NEW a \in Maps, NEW b \in Maps, NEW c \in Maps, Grows(a, b), Grows(b, c)
  PROVE  Grows(a, c)
<1>1. ASSUME NEW o \in Owners PROVE a[o] <= c[o]
  <2>1. a[o] \in Nat /\ b[o] \in Nat /\ c[o] \in Nat
    BY DEF Maps
  <2> QED BY <2>1 DEF Grows
<1> QED BY <1>1 DEF Grows

LEMMA GrowsReflexive ==
  ASSUME NEW a \in Maps
  PROVE  Grows(a, a)
<1>1. \A o \in Owners : a[o] \in Nat
  BY DEF Maps
<1> QED BY <1>1 DEF Grows

LEMMA BackedBalances ==
  ASSUME OrderInv, BackedInv
  PROVE  /\ \A r \in records : r.balances \in Maps
         /\ Len(run["incentives"].todo) \in Nat
         /\ \A k \in 1..Len(run["incentives"].todo) :
              run["incentives"].todo[k].balances \in Maps
<1>1. "incentives" \in Scripts
  BY DEF Scripts
<1>2. Len(run["incentives"].todo) \in Nat
  BY <1>1 DEF OrderInv, RunInv, IsRun
<1> QED BY <1>1, <1>2 DEF BackedInv, RecordsInv, IsBackedRun, IsBacked

\* The incentives' run keeps its job or has none, and no record of it is added.
LEMMA GrowInvKept ==
  ASSUME OrderInv, LogsInv, LogsInv', BackedInv, GrowInv, Grows(Granted, Granted'),
         Recorded("incentives")' \subseteq Recorded("incentives"),
         \/ run'["incentives"].todo = run["incentives"].todo
         \/ run'["incentives"].todo = <<>>
  PROVE  GrowInv'
<1>1. Granted \in Maps /\ Granted' \in Maps
  <2>1. Granted' \in [Owners -> Nat]
    BY GrantedPrimed
  <2> QED BY <2>1, GrantedType DEF Maps
<1>2. \A r \in Recorded("incentives") : r.balances \in Maps
  BY BackedBalances DEF Recorded
<1>3. ASSUME NEW r \in Recorded("incentives")' PROVE Grows(r.balances, Granted')
  <2>1. r \in Recorded("incentives")
    BY <1>3
  <2>2. Grows(r.balances, Granted)
    BY <2>1 DEF GrowInv
  <2> QED BY <1>1, <1>2, <2>1, <2>2, GrowsTransitive
<1>4. CASE run'["incentives"].todo = run["incentives"].todo
  <2>1. ASSUME NEW k \in 1..Len(run["incentives"].todo)
        PROVE  Grows(run["incentives"].todo[k].balances, Granted')
    <3>1. Grows(run["incentives"].todo[k].balances, Granted)
      BY DEF GrowInv
    <3>2. run["incentives"].todo[k].balances \in Maps
      BY BackedBalances
    <3> QED BY <1>1, <3>1, <3>2, GrowsTransitive
  <2> QED BY <1>3, <1>4, <2>1 DEF GrowInv, Grows
<1>5. CASE run'["incentives"].todo = <<>>
  <2>1. Len(run'["incentives"].todo) = 0
    BY <1>5
  <2> QED BY <1>3, <2>1 DEF GrowInv, Grows
<1> QED BY <1>4, <1>5

LEMMA RecordedIs ==
  ASSUME UNCHANGED records
  PROVE  Recorded("incentives")' = Recorded("incentives")
BY DEF Recorded

\* The other runs' and the world's steps.
LEMMA GrowInvUntouched ==
  ASSUME OrderInv, LogsInv, LogsInv', BackedInv, GrowInv, Grows(Granted, Granted'),
         UNCHANGED <<records, run>>
  PROVE  GrowInv'
BY GrowInvKept, RecordedIs

\* A run asks, opens, fails or dies.
LEMMA GrowInvRunning ==
  ASSUME OrderInv, LogsInv, LogsInv', BackedInv, GrowInv, Grows(Granted, Granted'),
         NEW s \in Scripts, AskNonce(s) \/ Open(s) \/ FailToOpen(s) \/ Die(s)
  PROVE  GrowInv'
<1>1. UNCHANGED records
  BY DEF AskNonce, Open, FailToOpen, Die
<1>2. PICK r : /\ run' = [run EXCEPT ![s] = r]
               /\ r.todo = run[s].todo \/ r.todo = <<>>
  <2>1. \E pc, nonce : run' = [run EXCEPT ![s] = At(pc, run[s].todo, nonce)]
                       \/ run' = [run EXCEPT ![s] = Off]
    BY DEF AskNonce, Open, FailToOpen, Die
  <2>2. \A pc, nonce : At(pc, run[s].todo, nonce).todo = run[s].todo
    BY DEF At
  <2>3. Off.todo = <<>>
    BY DEF Off, At
  <2> QED BY <2>1, <2>2, <2>3
<1>3. \/ run'["incentives"].todo = run["incentives"].todo
      \/ run'["incentives"].todo = <<>>
  <2>1. DOMAIN run = Scripts /\ "incentives" \in Scripts
    BY DEF OrderInv, RunInv, Scripts
  <2> QED BY <1>2, <2>1
<1> QED BY <1>1, <1>3, RecordedIs, GrowInvKept

LEMMA GrowInvStartRewards ==
  ASSUME OrderInv, LogsInv, LogsInv', BackedInv, GrowInv, Grows(Granted, Granted'), StartRewards
  PROVE  GrowInv'
<1>1. UNCHANGED records /\ \E r : run' = [run EXCEPT !["rewards"] = r]
  BY DEF StartRewards
<1>2. run'["incentives"] = run["incentives"]
  BY <1>1
<1> QED BY <1>1, <1>2, RecordedIs, GrowInvKept

\* A run signs what is granted, which is no less than what was signed.
LEMMA GrowInvStartIncentives ==
  ASSUME OrderInv, LogsInv, LogsInv', BackedInv, GrowInv, StartIncentives
  PROVE  GrowInv'
<1> DEFINE job == Job("incentives", 0, INCENTIVE_TO_DISTRIBUTE, Incentives.distribution)
           pc == IF Recorded("incentives") = {} THEN "asking" ELSE "recording"
<1>1. /\ run' = [run EXCEPT !["incentives"] = At(pc, <<job>>, 0)]
      /\ UNCHANGED <<records, now, logs>>
  BY DEF StartIncentives, world
<1>2. job.balances = Granted /\ Granted \in Maps
  BY GrantedType DEF Job, Granted
<1>3. Granted' = Granted
  BY <1>1 DEF Granted, Incentives
<1> HIDE DEF job, pc
<1>4. run'["incentives"].todo = <<job>>
  <2>1. DOMAIN run = Scripts /\ "incentives" \in Scripts
    BY DEF OrderInv, RunInv, Scripts
  <2>2. At(pc, <<job>>, 0).todo = <<job>>
    BY DEF At
  <2> QED BY <1>1, <2>1, <2>2
<1>5. Len(<<job>>) = 1 /\ \A k \in 1..1 : <<job>>[k] = job
  OBVIOUS
<1>6. \A r \in Recorded("incentives")' : Grows(r.balances, Granted')
  BY <1>1, <1>3, RecordedIs DEF GrowInv
<1>7. Grows(job.balances, Granted')
  BY <1>2, <1>3, GrowsReflexive
<1>8. \A r \in Recorded("incentives")' : Grows(r.balances, job.balances)
  BY <1>2, <1>3, <1>6
<1> QED BY <1>4, <1>5, <1>6, <1>7, <1>8 DEF GrowInv, Grows

\* The incentives' record is replaced by the job that is no less.
LEMMA GrowInvSaveRecord ==
  ASSUME OrderInv, LogsInv, LogsInv', BackedInv, GrowInv, Grows(Granted, Granted'),
         NEW s \in Scripts, SaveRecord(s)
  PROVE  GrowInv'
<1> DEFINE rest == Tail(run[s].todo)
           r == IF rest = <<>> THEN Off ELSE At("asking", rest, 0)
<1>1. /\ run[s].pc = "recording" /\ records' = RecordsWith(Next1(s))
      /\ run' = [run EXCEPT ![s] = r] /\ UNCHANGED <<now, logs>>
  BY DEF SaveRecord, world
<1>2. Next1(s).channel.script = s
  BY <1>1, NextJob
<1>3. DOMAIN run = Scripts /\ "incentives" \in Scripts
  BY DEF OrderInv, RunInv, Scripts
<1>4. CASE s # "incentives"
  <2>1. Recorded("incentives")' \subseteq Recorded("incentives")
    BY <1>1, <1>2, <1>4 DEF Recorded, RecordsWith
  <2>2. run'["incentives"] = run["incentives"]
    BY <1>1, <1>3, <1>4
  <2> QED BY <2>1, <2>2, GrowInvKept
<1>5. CASE s = "incentives"
  <2>1. Len(run[s].todo) = 1
    <3> DEFINE n == Len(run[s].todo)
    <3>1. n \in Nat /\ n # 0
      BY <1>1 DEF OrderInv, RunInv, IsRun
    <3>2. n <= 1
      BY <1>5 DEF GrowInv
    <3> HIDE DEF n
    <3>3. n = 1
      BY <3>1, <3>2
    <3> QED BY <3>3 DEF n
  <2>2. run'["incentives"].todo = <<>>
    <3>1. Len(rest) = 0
      BY <1>1, <2>1, RestOfJobs
    <3>2. rest = <<>>
      <4>1. PICK S : run[s].todo \in Seq(S)
        BY DEF OrderInv, RunInv, IsRun
      <4>2. rest \in Seq(S)
        BY <1>1, <4>1 DEF OrderInv, RunInv, IsRun
      <4> QED BY <3>1, <4>2, EmptySeq
    <3>3. r.todo = <<>>
      BY <3>2 DEF Off, At
    <3> HIDE DEF r
    <3> QED BY <1>1, <1>3, <1>5, <3>3
  <2>3. Granted' = Granted
    BY <1>1 DEF Granted, Incentives
  <2>4. Next1(s) = run["incentives"].todo[1] /\ 1 \in 1..Len(run["incentives"].todo)
    BY <1>5, <2>1 DEF Next1
  <2>5. Grows(Next1(s).balances, Granted)
    BY <2>4 DEF GrowInv
  <2>6. ASSUME NEW q \in Recorded("incentives")' PROVE Grows(q.balances, Granted')
    <3>1. q \in Recorded("incentives") \/ q = Next1(s)
      BY <1>1, <2>6 DEF Recorded, RecordsWith
    <3>2. q \in Recorded("incentives") => Grows(q.balances, Granted)
      BY DEF GrowInv
    <3> QED BY <2>3, <2>5, <3>1, <3>2
  <2>7. Len(run'["incentives"].todo) = 0
    BY <2>2
  <2> QED BY <2>6, <2>7 DEF GrowInv, Grows
<1> QED BY <1>4, <1>5

LEMMA GrowInvInductive == Spec => []GrowInv
<1>1. Init => GrowInv
  <2> SUFFICES ASSUME Init PROVE GrowInv
    OBVIOUS
  <2>1. Recorded("incentives") = {} /\ run["incentives"].todo = <<>>
    BY DEF Init, Recorded, Off, At, Scripts
  <2>2. Len(run["incentives"].todo) = 0
    BY <2>1
  <2> QED BY <2>1, <2>2 DEF GrowInv
<1>2. OrderInv /\ LogsInv /\ LogsInv' /\ BackedInv /\ GrowInv /\ [Next]_vars => GrowInv'
  <2> SUFFICES ASSUME OrderInv, LogsInv, LogsInv', BackedInv, GrowInv, [Next]_vars
               PROVE  GrowInv'
    OBVIOUS
  <2>1. Grows(Granted, Granted')
    BY GrantedGrows
  <2>2. ASSUME PassDay \/ UNCHANGED vars PROVE GrowInv'
    BY <2>1, <2>2, GrowInvUntouched DEF PassDay, vars
  <2>3. ASSUME NEW o \in Owners, Bond(o) \/ RequestUnbond(o) \/ Unbond(o) PROVE GrowInv'
    BY <2>1, <2>3, NewLog, GrowInvUntouched
  <2>4. ASSUME NEW s \in Scripts,
               AskNonce(s) \/ Open(s) \/ FailToOpen(s) \/ SaveRecord(s) \/ Die(s)
        PROVE  GrowInv'
    BY <2>1, <2>4, GrowInvRunning, GrowInvSaveRecord
  <2> QED BY <2>1, <2>2, <2>3, <2>4, GrowInvStartRewards, GrowInvStartIncentives DEF Next
<1> QED BY <1>1, <1>2, OrderInvInductive, LogsInvInductive, BackedInvInductive, PTL DEF Spec

\* A month that is next has no record, and the incentives' is no more than the job
\* that takes its place.
LEMMA RecordsGrow ==
  ASSUME OrderInv, BackedInv, GrowInv, [Next]_vars,
         NEW r \in records, NEW q \in records', r.channel = q.channel
  PROVE  \A o \in Owners : r.balances[o] <= q.balances[o]
<1>1. ASSUME q \in records PROVE \A o \in Owners : r.balances[o] <= q.balances[o]
  <2>1. r = q /\ r.balances \in Maps
    BY <1>1, BackedBalances DEF BackedInv, RecordsInv
  <2> QED BY <2>1, GrowsReflexive DEF Grows
<1>2. ASSUME NEW s \in Scripts, SaveRecord(s)
      PROVE  \A o \in Owners : r.balances[o] <= q.balances[o]
  <2>1. run[s].pc = "recording" /\ records' = RecordsWith(Next1(s))
    BY <1>2 DEF SaveRecord
  <2>2. q \in records \/ q = Next1(s)
    BY <2>1 DEF RecordsWith
  <2>3. ASSUME q = Next1(s) PROVE \A o \in Owners : r.balances[o] <= q.balances[o]
    <3>1. r.channel.script = s /\ (s = "rewards" => r.channel.month = StartMonth)
      BY <2>1, <2>3, NextJob
    <3>2. s # "rewards"
      <4>1. ASSUME s = "rewards" PROVE FALSE
        <5>1. StartMonth \in RecordedMonths
          BY <3>1, <4>1 DEF RecordedMonths, Recorded
        <5> QED BY <5>1, StartMonthIsNew DEF OrderInv
      <4> QED BY <4>1
    <3>3. s = "incentives" /\ r \in Recorded("incentives")
      BY <3>1, <3>2 DEF Scripts, Recorded
    <3>4. q = run["incentives"].todo[1] /\ 1 \in 1..Len(run["incentives"].todo)
      BY <2>1, <2>3, <3>3, BackedBalances DEF Next1, OrderInv, RunInv, IsRun
    <3>5. Grows(r.balances, q.balances)
      BY <3>3, <3>4 DEF GrowInv
    <3> QED BY <3>5 DEF Grows
  <2> QED BY <1>1, <2>2, <2>3
<1>3. ASSUME UNCHANGED records PROVE \A o \in Owners : r.balances[o] <= q.balances[o]
  BY <1>1, <1>3
<1>4. UNCHANGED records \/ \E s \in Scripts : SaveRecord(s)
  BY DEF Next, PassDay, Bond, RequestUnbond, Unbond, Log, StartRewards, StartIncentives,
         AskNonce, Open, FailToOpen, Die, vars
<1> QED BY <1>2, <1>3, <1>4

\* What a staker was once signed for is never taken back.
THEOREM SignedOnlyGrows == Spec => SignedTreesOnlyGrow
<1>1. OrderInv /\ BackedInv /\ GrowInv /\ [Next]_vars =>
        [\A r \in records, q \in records' :
           r.channel = q.channel => \A o \in Owners : r.balances[o] <= q.balances[o]]_vars
  BY RecordsGrow
<1> QED BY <1>1, OrderInvInductive, BackedInvInductive, GrowInvInductive, PTL
        DEF Spec, SignedTreesOnlyGrow
=============================================================================
