# A verification of the AdEx validator stack

This directory holds TLA+ models of the AdEx validator (the repository beside
it), the configurations that check them with TLC, and theorems about them that
TLAPS checks.  Every definition is translated from the code; `PROJECT.json`
names the lines each one stands for.

## The system

A channel is a deposit that is paid out, event by event, to publishers.  It is
run by two validators, `spec.validators[0]`, the *leader*, and
`spec.validators[1]`, the *follower*.  Each validator has

- a **Sentry**, an HTTP server over MongoDB.  It takes events from the public and
  validator messages from the two validators, and serves what it stored;
- a **validator worker**, which *ticks*: in every round it does one tick per
  channel.  A tick reads only the validator's own Sentry and posts what it
  concludes to the Sentries of both validators.

| Component | State | Operations | Hard behaviour |
| --- | --- | --- | --- |
| balance arithmetic (`validatorWorker/lib/{mergeAggrs,fees,followerRules,index}.js`) | none | merge payouts, take fees, judge a transition, measure health | flooring divisions, the deposit as a cap, accounts with balance 0 |
| leader, follower, producer (`validatorWorker/*.js`) | none between ticks; a tick's local variables | tick, onNewAccounting, onNewState | reads and POSTs separated by awaits; a tick that dies half way |
| the worker's Sentry interface (`lib/sentryInterface.js`) | none | propagate, getLatestMsg, getLastApproved, getEventAggrs | failed POSTs are never repeated; a timeout ends the wait, not the request |
| Sentry, validator messages (`routes/channel.js`) | `validatorMessages`, `channels.exhausted` | post and read messages, last-approved, event aggregates | "newest" is by time of receipt; two parallel writes per request |
| worker loop (`bin/validatorWorker.js`) | none | list channels page by page, tick them, wait | a tick that takes too long is abandoned, not stopped; a failed listing ends the loop |
| event recording (`sentry/eventAggregator.js` and its `lib/`) | the current aggregate, a save queue, a cached channel | record, persist, retry | acknowledged before saved; order of `created`; retries; several processes |
| access control (`sentry/lib/access.js`) | rate limits in Redis | checkAccess | check, then set |
| channel creation (`routes/channelCreate.js`, `adapters/lib.js`) | `channels` | validate, ask the chain, insert | two requests for one channel; judged by an earlier clock |
| heartbeats (`validatorWorker/heartbeat.js`) | none; the messages it sent | heartbeat | asks for the latest, then sends; lost, late and slow POSTs |
| pruning (`scripts/prune.js`) | none | pruneChannel | fetches what is to be kept, deletes the rest later; messages are stored after the time they carry |
| analytics (`sentry/analyticsRecorder*.js`, `scripts/analyticsAggregator.js`, `routes/analytics*.js`) | `analytics`, `analyticsAggregates` | record, aggregate, answer | two ways of counting that must agree; a script that dies half way |
| reward scripts (`scripts/distribute-{rewards-old,incentives}.js`) | `rewardChannels`, an identity on chain | compute, open a channel, record | dies between the chain and the database; two scripts, one nonce |
| other scripts, servers, adapters | see `PROJECT.json` | | mostly I/O |

What makes each correct: the arithmetic never pays more than the deposit and
never breaks the rules by which the other side judges it; the accounting counts
every aggregate once; the follower signs only what is justified, and what it
has signed is never taken back; what is counted is proposed, answered and
approved in the end; and a channel whose deposit is spent is closed.  The
hazards that threaten this are listed, with their lines, in `PROJECT.json`.

## Modules

    BalanceTrees ── AccountingChain ── MCAccountingChain
         │                  └── AccountingChainProofs ── TreeRules, FoldTheorems
         └──────────────────────────┐
    TreeRules, ApprovedLedger ── Outpace ── MCOutpace
                                    └── OutpaceProofs

    AccessRules ── EventRecorder ── MCEventRecorder
    EventLog ─────────────┴── EventRecorderProofs

    ChannelRules ── WorkerLoop ── MCWorkerLoop
                         └── WorkerLoopProofs ── FoldTheorems
    Upkeep ── UpkeepProofs ── FoldTheorems
    AnalyticsRules ── Analytics ── MCAnalytics
                         └── AnalyticsProofs ── FoldTheorems
    StakeRewards ── RewardScripts ── MCRewardScripts
                         └── RewardScriptsProofs

**BalanceTrees** is the arithmetic, without state.  A balance map is a function
from a finite set of accounts to naturals; its domain matters, because
`isValidTransition` demands that an account stays once it is there, even with
balance 0.  Integers are unbounded, as in `bn.js`.

**AccountingChain** lets two validators merge event aggregates in any order
(`mergeAggrs`, one aggregate per step) and states what the arithmetic promises.

**Outpace** is the protocol of one channel: both Sentries and both workers.  Its
variables are, per Sentry, the event aggregates (`aggrs`) and the messages as the
queries see them (`db`); the POSTs that some Sentry may still handle (`posts`);
and, per tick, where it is and what it has read (`tick`).  One action stands for
one request of a tick or one write of a Sentry:

| Code | Actions |
| --- | --- |
| `follower.js` tick: two reads at once | `ReadNewState`, `ReadResponse` |
| `producer.js` tick | `ReadAccounting`, then `NothingToMerge` or `ProduceAccounting` |
| `leader.js` onNewAccounting | `ProposeState` |
| `follower.js` onNewState | `SkipAnswer`, `RejectUnauthentic`, `AnswerState` |
| `propagate`, `propagateTo` | `Propagate`; the tick goes on once `Settled` |
| `postValidatorMessages` | `Serve`: the insert and the exhausted flag, in either order |
| `eventAggregator.js`, its result only | `PersistAggregate` |
| failed, timed out POSTs; tick failures | `LosePost`, `TimeOutPost`, `AbortTick` |
| `testRejectState` of the integration test | `Misreport` |

The arithmetic is a set of operator constants, declared by **TreeRules** with what
the protocol relies on of them: what they make of trees are trees; what may follow
some tree may also be the first; a merge goes on from where the last one ended; and
what is merged in addition never raises the health of a proposal.  Outpace assumes
just that (`TreesAssumption`, `MergingAssumption`), `MCOutpace` plugs BalanceTrees in and
has TLC evaluate it, and `AccountingChainProofs` proves it of BalanceTrees
(`ArithmeticIsAsAssumed`).

**ApprovedLedger** is the abstract specification: the leader proposes trees, and
the approved tree moves only to a proposed one, by an allowed transition.
Outpace implements it (`FollowerLedger`) with `approved` the tree that
`/last-approved` serves at the follower's Sentry.

Abstractions: `getStateRootHash` is injective, so a root is the tree it hashes,
with one more root that is no tree's; a signature verifies or does not; a
message keeps the fields that some code decides on.  Times of receipt are not
kept: `insertOne` makes the message the newest of its kind (ties within a
millisecond are left out; a message that is stored later than one received after it
is in Upkeep, where times are kept).  Heartbeats, the copy of an Accounting at the other
Sentry and the HTTP and JSON layers are left out.  An aggregate's position
stands for its `created`: Outpace takes event recording for the log of
**EventLog**, to which aggregates are appended and of which the worker counts a
longer and longer prefix.  EventRecorder says when that is so.

**EventRecorder** is one Sentry taking the events of a channel: several processes
of the cluster, each with the variables of `makeRecorder` (`recorder`), the
requests under way (`req`), the inserts under way (`saving`), the
`eventAggregates` in the order in which they became visible (`col`), and the
`lastEvAggr` of the worker that reads them (`reader`).  With `AGGR_THROTTLE` a
request is answered once its events are in memory; without, after its own insert.

| Code | Actions |
| --- | --- |
| `record`, up to the first `await` of `checkAccess` | `Receive` (with AccessRules!Access) |
| `checkAccess`, per rate limit | `AskLimit`, `SetLimit`, `RefuseTooMany` |
| the rest of `record` | `UpdateTargeting`, `RefuseNoPayout`, `RecordNothing`, `RecordThrottled`, `RecordAndSave` |
| `persistAndReset`, throttled | `Throttle` |
| `persist`: the save queue | `StartSaving`, `Save`, `FailToSave` (the aggregate is queued again) |
| the timer that refreshes the cached channel | `RefreshChannel` |
| `cluster.js`: a process dies, another is forked | `Crash` |
| `getEventAggregates`, `mergeAggrs`' `lastEvAggr` | `Merge` |
| `updateChannelIfExhausted`, the clock, Redis' expiry | `Exhaust`, `PassTime`, `ExpireLimit` |

**AccessRules** has the rules of `checkAccess` as operators on a request body.

Abstractions: an aggregate is the set of events that it pays, without prices; a
failed insert was applied or not; a dying process applies at most one of
its inserts under way; each insert starts in a millisecond of its own (ties of
`created` are a hazard of their own, listed in `PROJECT.json`); each request is
sent once and has at least one event (the item of the schema's array is
`required`).  Failing Redis calls and failing refreshes of the channel are left out.

**ChannelRules** has the checks of the schema and of `validateChannel` as
operators on a channel; an address check, or the hash of the id, is a field of
the record.  **WorkerLoop** has a Sentry's `channels` (`col`, in the order in which
a query without a sort meets them: by insertion, or along the index on `validUntil`
if the operator has made it), the requests that create channels, and the rounds of
the worker: the first page, the other pages at once, and the ticks of what they
hold.  What a tick does is Outpace; here it is under way, awaited or late.

| Code | Actions |
| --- | --- |
| `channelCreate.js`, `validateChannel` | `Validate`, `RefuseByChain`, `InsertChannel` |
| `getList`: the count, then the page, in one request | `CountChannels`, `ReadFirstPage` |
| the other pages, requests of their own | `ReadPage` |
| `allChannelsTick`, `loopChannels` | `StartTicks`, `NextRound`, `FailListing` |
| `validatorTick`: done, given up on, done after all | `FinishTick`, `TimeOutTick`, `FinishLate` |

**Upkeep** is one channel at the leader's Sentry, over time: its messages by kind
(`msgs`), ordered by receipt, the POSTs that are under way (`posts`, with the time
at which they were received once they were), the leader's tick (`tick`) and the
operator's script (`prune`), whose timestamp is any.  A message is stored some
time after the time it carries, so a newer one can be there before it, and the
script can ask in between.

| Code | Actions |
| --- | --- |
| `heartbeat`, `sendHeartbeat` | `AskHeartbeat`, then `SendHeartbeat` or `SkipHeartbeat`, `EndTick` |
| the leader's and the follower's other messages | `Propose`, `Approve`, `SendFollowersHeartbeat` |
| `postValidatorMessages`: takes the time, then inserts; lost and timed out POSTs | `Receive`, `Insert`; `FailPost`, `TimeOut` |
| `pruneChannel` | `StartPrune`, `FetchHeartbeats`, `FetchApproved` (the two queries of last-approved), `CompareValidUntil`, `Delete`; `FailToFetch` |

**AnalyticsRules** has what one request of events leaves behind: `Counted`, in the
event aggregate, and `Noted`, by the analytics recorder, which takes the payouts
by the places of the events that are left after its filter; and the way the newer route
matches documents.  **Analytics** has the requests (`served`), the aggregates on
their way (`saving`) and inserted (`aggrs`), the hourly documents (`docs`) and the
script that makes them, which may die anywhere; the answers of the routes are
operators on these.

| Code | Actions |
| --- | --- |
| `record`, `persist` of the aggregator | `Request`, `SendInsert`, `Insert` |
| `aggregate` of the script | `StartScript`, `NextHour`, `Finish`, `Crash` |
| `aggregateForPeriod`: the query, then an insert per channel | `ReadHour`, `InsertDoc` |

**StakeRewards** has the two ways of dividing money among stakers, **RewardScripts**
the two scripts that do it for the same identity, with the staking contract, the
relayer and the Core as external actions.

| Code | Actions |
| --- | --- |
| `main` of rewards-old up to its loop; of incentives up to the record's check | `StartRewards`, `StartIncentives` |
| `Identity.nonce()`, the relayer's execute, the record | `AskNonce`, `Open` or `FailToOpen`, `SaveRecord` |
| a run that dies; a transaction of a run that does not learn of it | `Die` |
| external: stakers, days | `Bond`, `RequestUnbond`, `Unbond`, `PassDay` |

Abstractions: time is counted in units in which the code's comparisons can turn
out either way (a heartbeat's interval, an hour, a day; a month is two days long);
MongoDB answers a query at one moment; a publisher's address is a name with or
without capitals; the documents of `analytics` are kept per request, as only their
sums are asked for.  Slashes of the staking pool, the grouping of answers by time and the
Redis counters of the older recorder are left out.

## Runs

Bounds of the Outpace runs: a deposit of 4, two earners of which one also gets the
leader's fee, an aggregate that pays half the deposit and a CLOSE that pays all of it,
two aggregates (`MaxTotal`), both at the leader's Sentry or one at each.  Two at one
Sentry are what it takes for a second state to supersede a first one and, where batches
hold one (`progress`), for a batch to be cut; one at each, for the two validators to
disagree (one counts the CLOSE, the other does not).  `overlap` has three.  One fault
is enough for every hazard of the list, and each run names the faults it allows; the
theorems about Outpace need none of these bounds.
`LeaderTicks` and `FollowerTicks` are the ticks that may be alive at once: one
each, two of the follower in `overlap`.

| Run | Shows |
| --- | --- |
| `accounting` | deposit 10, four kinds of aggregates, two validators: `NeverOverspends`, `ExhaustedWhenDepositIsSpent`, `PerfectHealthMeansAgreement`, `OwnTreesAreValidTransitions` |
| `progress` | batches of one aggregate, one POST lost or late or one dead tick: `AccountingIsExact`, `FollowerCatchesUp`, `LeaderCatchesUp`, and, if nothing goes wrong, `AgreementIsReached`, `SpentChannelIsClosed` |
| `lossy` | one lost POST, dead tick, or tree that is forged, deceptive or takes money back: `TypeOK`, `ApprovalsAreJustified`, `FollowerLedger`, `AnswersOnce`, `ApprovesByItsOwnAccounting` |
| `overlap` (violated) | two ticks of the follower: `FollowerLedger` fails |
| `recorder` | one process, one fault; a visitor tries to close and to retarget beside the creator: `TypeOK`, `OnlyTheCreatorSteers`, `FollowsTheLog`, `AckedIsReached` |
| `cluster` | two processes, with and without `AGGR_THROTTLE`, one fault: `AckedIsKept`, `RecordedOnce`, `SkippedOnlyByOvertaking` |
| `overtaking` (violated) | two processes, no fault: `NothingSkipped` fails |
| `rounds` | pages of one channel, three stored and two posted, with and without the index: `TypeOK`, `StoredOnceAndSound`, `TickedOnceUnlessDisturbed`, `OneTickAtATime`, `LastingChannelsAreTicked` |
| `upkeep` | a short and a long channel, heartbeats alone, one run of the script, one lost or late POST: `HeartbeatsApart`, `NewestHeartbeatSurvives`, `HeartbeatsGoOn` |
| `pruning` | a channel that expires, two proposals and their approvals, one run of the script: `TypeOK`, `ApprovedSurvivesPruning` |
| `analytics` | two channels, five kinds of requests, two of them at a time, one run that dies: `TypeOK`, `SummedUpOnce`, `NotesAddUp`, `RoutesAgree`, `IsSummedUpInTheEnd` |
| `rewards` | two stakers, two months, three runs of which one may die: `TypeOK`, `RecordsAreBacked`, `OneChannelPerMonth`, `SignedTreesOnlyGrow` |

**Fairness** (`FairSpec`): every tick that can go on does (node runs the
continuation of an answered request; `loopChannels` starts a tick after every
tick), and a POST that is not lost is handled.  Events are not fair: the
liveness properties hold whether they come or not.  No fault has to happen, and none
has to stop: the runs bound them.

In `progress` the one fault may happen at any step, the follower's answer included, and
then `FollowerCatchesUp` still has to hold.  `LeaderCatchesUp` begins when it has happened: the
second aggregate at the leader's Sentry makes up for a proposal that died with its
tick.  The other two promise nothing once something went wrong (`faults = 0` is
part of them), as the code does not: see the observations on dead ticks and on
half-done writes.  Late POSTs together with forged or deceptive states are in no run; the
theorem `FollowerSignsOnlyJustified` has them.

Bounds of the EventRecorder runs: batches of one aggregate and one fault.  `recorder` has
four requests: an impression, a CLOSE and a change of the targeting rules by a visitor, and a
change by the creator; the visitor's rules are not the creator's, so the rules that are
stored tell whose they are, and the visitor's CLOSE counts only once the channel's
time has come.  `cluster` has two impressions that share a rate limit and a creator's
batch of an impression and a CLOSE.
Two aggregates are what it takes to overtake one another and to cut a batch; a
second process is what it takes for two inserts at once with `AGGR_THROTTLE`, and
the two processes are symmetric.  Its `FairSpec` says that the timers of a
process fire, requests that were received are worked on, the database answers
each insert (well or badly, and the bound on faults makes it well in the end)
and the worker ticks.  Requests, refreshes of the channel and faults are not fair.

Bounds of `rounds`: one channel expires within the run, one is posted that the index
puts before those that last, twice at the same time, and one whose fees are more
than its deposit; with pages of one channel every change shifts a page, and two lasting
channels are what it takes for one to hide or repeat another.  One late tick is
enough to overlap.  Its `FairSpec` says that a request is answered or fails and that a tick
settles, as its timeout does; a late tick, a request to create a channel and the
clock are not fair, and a failed listing may happen at any time.

Bounds of `upkeep` and `pruning`: a script that runs once, over three moments (two in
`pruning`), lets a message be received, and stored, before, between and after each of
its steps; two POSTs under way are what it takes for one to be stored before the other.
The channel is expired from the second moment on or, in `upkeep`, perhaps never.
Heartbeats and states are different kinds of messages and meet only in the script, so
each run has the kind its properties are about: `upkeep` no proposals, `pruning` two,
and the heartbeats besides.  The `FairSpec` of `upkeep` says that the
leader's worker ticks again and again (`LastingChannelsAreTicked` says when) and
that a POST is received and stored or, within the bound, lost.  The script is not fair.

Bounds of `analytics`: the requests are a single event, a batch with a CLOSE before or after the
others, one with an address that is none, and one on another channel with an event that
pays nothing.  Two of them make two documents of one hour, between which the
script may die, or of two hours.  Its `FairSpec` says that the script is run
again and again and a run goes on unless it dies; requests and their inserts are
not fair.  One run of the script at a time is assumed.

Bounds of `rewards`: two months of two days and a third one begun, the incentives' time
across both, one staker with twice the stake of the other, and an identity that can or
cannot pay.  Three runs are a month, the month after it (or both at once) and a run of the other
script between any two steps of these.  Each script runs once at a time: two runs
of one are as if an operator started it twice, which nothing in it is made for.  No
fairness: an operator runs the scripts.

### Findings

1. (run `overlap`) `validatorTick` abandons a slow tick without stopping it.  If it
   is still running when its successor compares a newer state with the same last
   approved tree, both approve, and the one stored last decides: the approved tree can go
   back to a smaller one.  (With `cfg/dev.js` a tick is abandoned
   after 5 s and the next one starts at once, while each of its requests may take
   5 s; with `cfg/prod.js` it is 10 s, 40 s and 10 s.)  `OneTickAtATime` shows
   that there is one more way to two ticks at once: a page of the list that
   shifted.
2. (run `overtaking`) `created` is the time at which an insert starts, and the worker asks for what
   is newer than the newest it has read.  In clustered mode an insert can be
   overtaken by one of another process that started later: the worker reads that
   one, and never the first.  The comment at `eventAggregator.js:40` names this
   risk and takes the late `created` for the remedy.  With one process it is
   one, which is proved below.

### Observations

What the models say of the code where nothing in the repository says
otherwise, or only a comment; the properties state the exact boundary.

- `docs/follower.md` measures health against the follower's own accounting,
  `getHealthPromilles` against the deposit.  While little of the deposit is
  spent, a tree that gives an earner nothing is healthy.
- A `RejectState` is a copy of the proposal, its `exhausted` flag included, and
  the Sentry marks the channel exhausted by the follower without any approval.
- `postValidatorMessages` writes the message and the exhausted flag in parallel.  If the
  second fails, the message is there and answered, and nothing sets the flag later.
- The leader proposes only in a tick that made a new Accounting.  If that tick
  dies in between, the accounted tree is not proposed until new events come;
  for a channel that just spent its deposit none do (`LeaderCatchesUp` asks for such
  an event).
- After one failed answer of `/channel/list` nothing is ticked any more
  (`validatorWorker.js:88`): the rejection is unhandled, and open connections
  keep the process alive.  `LastingChannelsAreTicked` has this exception.
- A channel that expires or is created between two page requests makes a round
  tick another channel twice, or not at all (`TickedOnceUnlessDisturbed`).
- A state that is approved while the script prunes an expired channel is deleted, and so
  is everything if the `NewState` never reached this Sentry
  (`ApprovedSurvivesPruning` has this exception).
- A heartbeat that `postValidatorMessages` received before, and stored after, the script
  asked which heartbeats to keep is deleted though it is the newest, also with the
  default timestamp; so is one that is received after that if the operator passes a
  timestamp to come (`NewestHeartbeatSurvives` has these two exceptions).
- An aggregate whose insert takes until its hour has been read is never summed up;
  nor is one of a channel whose document was not inserted when the script died, if
  another channel's document of that hour was (`SummedUpOnce`).
- Both analytics recorders filter the events and then index the payouts of all of
  them, where a comment says that they match: a batch that begins with a CLOSE, for
  example, is noted with other events' payouts (`NotesAddUp`).  An address that is none
  makes the whole request fail, after the newer recorder has noted the events
  before it.
- The newer route for publishers compares the session's uid with keys in
  lower case as it is, the older one lowers it first (`RoutesAgree`).
- What was summed up exactly at the end of a month is rewarded in two months (both ends
  of the range are included), the check of the funds counts one fee for all
  months, and a month without payouts, or whose first day pays less than the fee, stops
  rewards-old for good (`Points`, `Cost`, `IsComputable`).
- A run of rewards-old that dies between opening a channel and recording it may be
  followed by another channel for the same month, since the amount, and with it the channel's id, may have
  changed (`OneChannelPerMonth`).  The incentives script cannot go on
  in that case: the open channel is opened again, and that fails every time.

## Proofs

`AccountingChainProofs` holds for any events, payouts and number of aggregates, any
deposit and any two fees that together are no more than it
(`DepositAssumption`, `AggregatesAssumption`).

- A sum over a balance map is a fold over its domain.  What the folds give is proved
  in `FoldTheorems`, by induction over finite sets and over naturals, each stated for
  a set of sets or of numbers, so that no theorem with an operator parameter is
  needed: a sum is a natural, it is what is left plus what is taken out.
- `ChainCorrect`: `Spec => []ChainInv`.  The tree before fees is within the
  deposit, and the tree after fees is what the fee distribution makes of it.  The
  second conjunct says where a tree comes from, which none of the properties does; the
  first is what the distribution needs in order not to give away more than there is.
- `OverspendsNever`: `Spec => []NeverOverspends`.  The fees are rounded down, the rounding's
  rest goes to the first validator, and the payouts of an event that would
  exceed the deposit are cut: the sum after fees is the sum before them.
- `ExhaustedTogether`: `Spec => []ExhaustedWhenDepositIsSpent`.
- `OwnTreesAreValid`: `Spec => [][OwnTreesAreValidTransitions]_vars`.  A balance after
  fees grows with the balance before them, also where rounding is down, and no
  account leaves the tree, so what the leader proposes passes the follower's
  `isValidTransition`.
- `HealthIsAgreement`: `Spec => []PerfectHealthMeansAgreement`.
- `ArithmeticIsAsAssumed`: BalanceTrees, as an instance of TreeRules, is what Outpace
  assumes, for all trees within the deposit over the accounts that are paid, and for
  batches and histories of any length.  A batch is merged aggregate by
  aggregate (`MergeBatchIsRun`), so a run of merges can be cut anywhere; and who
  counts more misses at least as much of a tree (`MissGrows`).  So the theorems about
  Outpace, which have the arithmetic as a parameter, hold of the arithmetic of the code.

`OutpaceProofs` holds for any number of ticks, any trees
and arithmetic that satisfy `TreesAssumption` and `MergingAssumption`, any limit and
any faults, unless the theorem says otherwise.

- `TypeCorrect`: `Spec => []TypeOK`.  `TypeOK` is not inductive: an answer copies
  the NewState that the tick holds, so it has to have been read.
  `ReadBeforeUse` adds that.
- `FollowerSignsOnlyJustified`: `Spec => []ApprovalsAreJustified`.  The
  strengthening is `HeldIsStored`: the NewState a tick holds is stored at the
  follower's Sentry, and those are never deleted.  So what justifies an approval
  when it is sent still does when it is stored, however late.
- `EveryAggregateCountsOnce`: `Spec => []AccountingIsExact`.  `ExactInv` says it of the
  Accounting messages that are still under way, too: a late POST may be handled
  after newer ones, and the producer goes on from whichever is stored.  So
  overlapping ticks and lost POSTs put the accounting back, and never let it
  count an aggregate twice or skip one.
- `FollowerKeepsTheLedger`: `Spec => FollowerLedger`, if the follower runs one tick
  at a time and no POST outlives its tick's wait.  `LedgerInv` says that at most
  one approval is under way to the follower's Sentry, that its tick is waiting
  for it, and that it is a valid successor of the approved tree as it is now.
  `overlap` shows that one tick at a time is needed; a late approval does the
  same harm.
- `FollowerAnswersOnce`: `Spec => AnswersOnce`, and `FollowerStandsByItsAccounting`:
  `Spec => ApprovesByItsOwnAccounting`, under the same condition.  `FreshInv` says
  that what the follower's tick has read of its own Sentry is still true when it is
  used: only the tick itself posts what it reads back (`Mine`), it waits for these
  POSTs, and between its reads and its answer it posts an Accounting at most.  If that
  POST is lost, the tick judges the proposal by an accounting that is one batch ahead
  of the stored one; by `MergingAssumption` it is then only stricter.

`EventRecorderProofs` holds for any processes, requests, access rules, limit and
faults.

- `RecorderTypeCorrect`: `Spec => []TypeOK`.  `MemoryInv` is added to make it
  inductive: a timer is armed only for an aggregate that pays somebody, an insert
  of a process is that of its queue's head.
- `OvertakingOnly`: `Spec => []SkippedOnlyByOvertaking`.  `OrderInv` strengthens it:
  no two inserts have the same `created`, a process saves in the order of its
  `created`, and `lastEvAggr` is the newest that was merged.  Then `Merge` can
  leave out nothing, because it reads in that order, and an aggregate that
  becomes visible too late is one that another process overtook.
- `OneProcessSkipsNothing`, `OneProcessFollowsTheLog`: with one process and
  `AGGR_THROTTLE`, `Spec => []NothingSkipped` and `Spec => FollowsTheLog`, the
  refinement of EventLog.  Nobody else is there to overtake, so the order of
  `created` is the order of the log, and what is merged is a prefix of it.

The rest of the module is about what becomes of an event that was taken.

- `NothingAckedIsLost`: `Spec => []AckedIsKept`.  An event that was answered with
  success is in memory, in an insert under way or stored, unless the very process
  that had it has died.  `HeldInv` is one half of the strengthening: the insert of a
  process is that of its queue's head, a request's own insert exists exactly while the
  request waits for it, and nothing of a request that was not yet recorded is anywhere.
  `KeptInv` is the other: with `AGGR_THROTTLE`, what a process has in memory is of
  requests that are at it, so the death of another process takes nothing of theirs.
- `NothingIsRecordedTwice`: `Spec => []RecordedOnce`.  The places an event has are
  counted with a set of places per event, which `FiniteInv` keeps finite; a step
  that does not record an event leaves it at most the places that it had, and one more
  only when an insert is done whose caller was told otherwise.
- `CreatorSteers`: `Spec => []OnlyTheCreatorSteers`.  `SteerInv` carries the
  verdict of the access check to the moment of recording: a request that was let in and
  updates the targeting is the creator's; one with a CLOSE is the creator's, or
  the channel is no longer running, and that does not end.  A request that has set the
  stored rules is past its update and stays so.

`WorkerLoopProofs` holds for any channels, requests, page sizes and clocks
(`LoopAssumption`).

- `OnlySoundChannelsAreStored`: `Spec => []StoredOnceAndSound`.  `CollectionInv` adds
  that a request which passed its validation posts a channel that can pay, however
  much later it is inserted, and that one told "created" finds its channel
  stored, which is what keeps a second one from being told the same.  The
  channels stored at first are assumed to be able to pay (`LoopAssumption`).
- `WorkerTypeCorrect`: `Spec => []TypeOK`.  `LoopInv` adds that ticks are awaited only while
  a round waits for them.
- `LastingChannelsTickOnce`: `Spec => TickedOnceUnlessDisturbed`.  The argument is about
  places.  What a query lists is in the order of the collection (`MatchingIs`), so a
  channel's place in it is given by how many of the listed ones are met before it.
  For an undisturbed channel these are the ones that the round counted, whenever the
  query is asked (`UndisturbedOrder`): they were not added, and none has expired.  So its
  place, its `Rank`, is the same for all pages; `PagesInv` says that a page which has
  arrived shows an undisturbed channel at its rank and nowhere else, and does show it if it
  lasts.  This stays true while channels are inserted and time passes, as both can
  disturb a channel but not restore it (`PageStays`).  A place is on one page
  (`PositionIsOne`), and the count asks for enough pages (`PositionExists`, `RankInList`).
- `TicksDoNotOverlap`: `Spec => OneTickAtATime`, from the same invariant: only
  `StartTicks` adds ticks, it begins with none awaited, and of the pages an undisturbed
  channel is on at most one, once.

`UpkeepProofs` holds for any `HEARTBEAT_TIME`, any bounds and any faults.

- What `deleteMany` leaves of a sequence (`Without`) is a recursive function, and so is
  what a query selects (WorkerLoop's `Matching`).  `LeftKeeps` in `FoldTheorems` is proved
  once for both: what stays are the elements that are not gone, in their order.  The last one stays the last (`LastStays`), and if none is
  gone nothing changes (`AllStay`).
- `UpkeepTypeCorrect`: `Spec => []TypeOK`, with `MsgsInv`: a heartbeat's root is a
  heartbeat's and a state's is a state's, so the script, which compares roots alone, does
  not keep one for the other.
- `LeaderBeatsApart`: `Spec => []HeartbeatsApart`.  `ApartInv` adds what makes it
  inductive: at most one heartbeat is under way, its tick waits for it, and it is
  later than all that are stored, by its own time and by its receipt; and while a tick
  decides, nothing is stored that is newer than what it has read.  Deleting can only
  take from what is stored.
- `PruningSparesTheNewest`, `PruningSparesTheApproved`:
  `Spec => NewestHeartbeatSurvives` and `Spec => ApprovedSurvivesPruning`.  `PruneInv`
  says what the script knows when it deletes: each validator's newest heartbeat was there
  when it asked, and is kept, or it was being inserted then, or it was received no
  earlier (`asked` and `inserting` record that moment, for the proof and the property
  alone); and apart from heartbeats the script keeps exactly what last-approved has
  told it.  Nothing is assumed of the timestamp or of how long an insert takes.

`AnalyticsProofs` holds for any channels, any finitely many publishers, any requests, with
whatever sequence of events in them, and any number of runs that die
(`AnalyticsAssumption`, `SystemAssumption`).

- `AnalyticsTypeCorrect`: `Spec => []TypeOK`.  `ScriptInv` adds that the hour a run
  reads is over: it starts at the end of the newest document's hour or with the oldest
  aggregate, neither of which is later than the clock.
- `NothingIsSummedUpTwice`: `Spec => []SummedUpOnce`.  `DocsInv` ties each document to its
  hour and channel: what it sums up are aggregates of these, no two documents have
  both in common, those the run has still to insert included, and no document is
  newer than the hour that the run is in.  As a request has one aggregate
  (`RequestsInv`), two documents cannot share one.  For what is left out, `CoverInv`
  says of each hour before a document's, or before the run's, that its stored aggregates
  are summed up, missed or abandoned; and that those which are still being inserted
  are missed, which is what makes a late insert, however late, one of the exceptions.
  Of the hour that is being inserted, an aggregate may be in a document to come; the
  run can insert that document, or die: then the hour is abandoned if a document of it is
  stored (`IsHalfDone`), and otherwise no document is later than it.
- `NotesAreBacked`: `Spec => []NotesAddUp`, of whatever events the requests hold: nothing
  is used of the state but that a request is one of `Bodies`.  What is noted and
  what is counted are sums over places in the batch (`SumAt`).  An event that is left is
  at a place not after its own, so a place that is noted is one of the batch and,
  having a payout, one that is counted; that is the first half, as the places of all
  types and keys together are all places with a payout (`PartsAddUp`,
  `AllNotedIs`, `AllCountedIs`).  For the second half, the places of a batch that is
  aligned are the same on both sides, type by type and key by key (`AlignedAgree`).
- `AnswersAreTheSame`: `Spec => []RoutesAgree`.  `AcceptedInv` is what is needed of the
  history: a request that leaves no aggregate throws, or holds nothing to pay, so when
  all is settled it adds nothing on either side (`SettledSums`).  For each of the three
  routes there are then channels and earners such that the newer route's documents
  and the older route's rows that count are the same sums, written down differently, and
  `SameSums` says that this, and leaving out what is nothing, does not change a total.  That
  the rows are of the right channel is `DocsInv`.

`RewardScriptsProofs` holds for any finite set of stakers, any histories of payouts,
rates, deposits and faults (`RewardsAssumption`, `ScriptsAssumption`).

- `MonthsAreRewardedOnce`: `Spec => []OneChannelPerMonth`.  `MonthInv` says that the
  recorded months are a prefix of all months, that the jobs of a run go on from
  there, and that an undisturbed channel is of a recorded month or is the one that
  the run is about to record.  So a run, which opens a channel for the first
  month that is not recorded, meets no other one for it.  Nothing is used of how the
  money is divided.
- `ScriptsTypeCorrect`: `Spec => []TypeOK`.  That what the scripts work out are numbers at all
  needs the logs: an unbonding takes from a stake what its bond has added (`Accs`), and a
  month that is rewarded has no point below zero (`PointsType`).
- `SignedIsBacked`: `Spec => []RecordsAreBacked`.  `BackedInv` says it of the jobs of a
  run, too, and that the channel which a run is about to record is open: it has opened it,
  or, for the incentives, there is a record of their one channel.
- `SignedOnlyGrows`: `Spec => SignedTreesOnlyGrow`.  `GrowInv` compares what is signed with
  what the code would grant now (`Granted`): records are within the job of a run, and both
  are within what is granted.  What is granted grows, with time, because a share that is
  rounded down grows with the time it is for; and with a new log, because up to the
  log's time stakes count as they were before it (`DistributionGrowsWithLog`).  It does not
  matter that a script asks at another time, as the end of the period cuts only what
  comes after the last log (`TalliedBeforeTheEnd`).

Only model-checked: liveness, which is out of the prover's reach.  It is what the runs
`progress` (all but `AccountingIsExact`), `recorder` (`AckedIsReached`), `rounds`
(`LastingChannelsAreTicked`), `upkeep` (`HeartbeatsGoOn`) and `analytics`
(`IsSummedUpInTheEnd`) say of what must happen in the end.  All invariants and action
properties of the runs are stated by theorems.

## Not modelled

- The other scripts (fees buyback, compensation, exports, BigQuery): each reads once
  and prints or sends what it read, mostly from services outside the repository; the
  two that pay were written for one event.
- Servers, middlewares and configuration: wiring.  The values of the configuration are
  constants.
- Signatures, sessions and tokens of the adapters: external cryptography; a
  signature verifies or does not.
- The Redis counters of `analyticsRecorder.js` and the reports made of them
  (`getAdvancedReports`), the cache of public answers, the grouping by time.
- The formats that the schemas check.
- Ties of two messages or aggregates within a millisecond, and dates in another time zone than
  UTC (`getNextMonth` mixes local time with `Date.UTC`).
- `prune.js --all`, which prunes each expired channel as modelled here; it passes
  no timestamp, which matters only in the second in which a channel expires.

## Plan

Done: the arithmetic, the protocol, the recording of events on which the protocol
feeds, the loop that drives it, its messages over time with heartbeats and pruning, the
statistics, and the rewards paid by them; and the theorems about all of these.  Open are
the parts named under "Not modelled", of which the Redis counters, with the reports
made of them, are the nearest to what is modelled.
