------------------------------- MODULE Outpace ------------------------------
(***************************************************************************)
(* One channel run by its two validators.  Each has a Sentry, the server   *)
(* that stores event aggregates and validator messages, and a validator    *)
(* worker that ticks: it reads its own Sentry, and it posts what it        *)
(* concludes to both.  The leader turns its accounting into NewState       *)
(* messages; the follower answers each with ApproveState or RejectState.   *)
(*                                                                         *)
(* Every read and every POST is a request of its own, so a tick is a       *)
(* process with steps between which the Sentries change.  A POST can be    *)
(* lost, or time out at the worker and be handled by the Sentry later; a   *)
(* tick can die anywhere; and since validatorTick abandons a tick that     *)
(* takes too long without stopping it, ticks of one worker can overlap.    *)
(*                                                                         *)
(* The arithmetic on balance trees is a parameter: TreeRules says what is  *)
(* relied on, BalanceTrees defines what the code computes, MCOutpace plugs *)
(* it in.                                                                  *)
(***************************************************************************)
EXTENDS TreeRules, FiniteSets

CONSTANTS
  Leader, Follower,             \* validators[0] and validators[1]
  LeaderTicks, FollowerTicks,   \* how many ticks of each worker may be alive
  None,                         \* no such message
  Unread                        \* a request of the tick is not answered yet

CONSTANTS
  BadRoot,                      \* a state root that no tree of Trees hashes to
  Aggregates,                   \* what an event aggregate pays out
  HEALTH_UNSIGNABLE_PROMILLES, HEALTH_THRESHOLD_PROMILLES, EVENTS_FIND_LIMIT

CONSTANTS
  Faults,       \* what may go wrong: a subset of {"lose", "late", "abort"}
  Misreports,   \* NewStates posted in the leader's name that its worker would not send
  MaxAggrs,     \* bound, per Sentry: aggregates persisted at it
  MaxTotal,     \* bound: aggregates persisted at both
  MaxFaults     \* bound: faults and misreports in one behaviour

Validators == {Leader, Follower}
Ticks == LeaderTicks \cup FollowerTicks
WorkerOf(t) == IF t \in LeaderTicks THEN Leader ELSE Follower

ASSUME ActorsAssumption ==
  /\ Leader # Follower
  /\ LeaderTicks \cap FollowerTicks = {}

Batches == UNION {[1..n -> Aggregates] : n \in 0..EVENTS_FIND_LIMIT}

ASSUME TreesAssumption ==
  /\ BadRoot \notin Trees
  /\ TreesAreClosed(Batches)
  /\ AnyTreeFollowsTheEmptyOne

\* What may have been persisted at v's Sentry
Histories(v) == UNION {[1..n -> Aggregates] : n \in 0..MaxAggrs[v]}

ASSUME MergingAssumption ==
  /\ \A v \in Validators : MergingGoesOn(Histories(v))
  /\ CountingMoreIsStricter(Batches)

\* getStateRootHash is taken to be injective, so a root is the tree it hashes.
Roots == Trees \cup {BadRoot}

Accountings == [type : {"Accounting"}, balancesBeforeFees : Trees, lastEvAggr : Nat]

\* signed: the signature verifies as the leader's over stateRoot
NewStates == [type : {"NewState"}, balances : Trees, stateRoot : Roots,
              signed : BOOLEAN, exhausted : BOOLEAN]

ApproveStates == [type : {"ApproveState"}, stateRoot : Roots,
                  isHealthy : BOOLEAN, exhausted : BOOLEAN]

RejectReasons ==
  {"InvalidRootHash", "InvalidSignature", "InvalidTransition", "TooLowHealth"}

RejectStates == [type : {"RejectState"}, stateRoot : Roots,
                 reason : RejectReasons, exhausted : BOOLEAN]

Messages == Accountings \cup NewStates \cup ApproveStates \cup RejectStates

ASSUME NamesAssumption ==
  None # Unread /\ None \notin Messages /\ Unread \notin Messages

\* Either root is the tree's own or it is nobody's.
ASSUME MisreportsAssumption ==
  /\ Misreports \subseteq NewStates
  /\ \A m \in Misreports : m.stateRoot \in {m.balances, BadRoot}

ASSUME BoundsAssumption ==
  /\ {MaxFaults, MaxTotal} \subseteq Nat
  /\ \A v \in Validators : MaxAggrs[v] \in Nat
  /\ EVENTS_FIND_LIMIT \in Nat \ {0}
  /\ HEALTH_UNSIGNABLE_PROMILLES \in Nat

VARIABLES
  aggrs,    \* per Sentry: event aggregates, in the order of  created
  db,       \* per Sentry: its validatorMessages, as the queries see them
  posts,    \* POSTs to /validator-messages that some Sentry may still handle
  tick,     \* per tick: where it is and what it has read
  faults    \* how much has gone wrong so far

vars == <<aggrs, db, posts, tick, faults>>

-----------------------------------------------------------------------------
(* A Sentry's messages of one channel.  The queries ask for the newest      *)
(* message of a kind by time of receipt, so that is what is kept, and for   *)
(* any NewState with a given root, so those are kept as a set.  Heartbeats  *)
(* are left out, and so are the copies of an Accounting at the other        *)
(* Sentry: nothing in the protocol reads them.                              *)

NoAccounting == [type |-> "Accounting", balancesBeforeFees |-> EmptyTree, lastEvAggr |-> 0]

EmptyDb == [accounting |-> NoAccounting, newStates |-> {}, newState |-> None,
            approveState |-> None, response |-> None, exhausted |-> {}]

InsertAnyAnswerAsApproval(rec, msg) ==
  CASE msg.type = "Accounting" -> [rec EXCEPT !.accounting = msg]
    [] msg.type = "NewState" -> [rec EXCEPT !.newStates = @ \cup {msg}, !.newState = msg]
    [] OTHER -> [rec EXCEPT !.approveState = msg, !.response = msg]

\* insertOne of a message with the newest  received
InsertMsg(rec, msg) ==
  CASE msg.type = "Accounting" -> [rec EXCEPT !.accounting = msg]
    [] msg.type = "NewState" -> [rec EXCEPT !.newStates = @ \cup {msg}, !.newState = msg]
    [] msg.type = "ApproveState" -> [rec EXCEPT !.approveState = msg, !.response = msg]
    [] msg.type = "RejectState" -> [rec EXCEPT !.response = msg]

\* retrieveLastApproved: NewStates at v with the root of the newest ApproveState,
\* of which findOne returns any.  Empty when the code returns null.
LastApproved(v) ==
  {n \in db[v].newStates :
     db[v].approveState # None /\ n.stateRoot = db[v].approveState.stateRoot}

\* follower.js: what the proposal is compared with
PrevBalances(v) ==
  IF LastApproved(v) = {} THEN {EmptyTree} ELSE {n.balances : n \in LastApproved(v)}

-----------------------------------------------------------------------------
(* sentryInterface.propagate: one POST per recipient, all awaited together. *)
(* postValidatorMessages inserts the message and, when it says exhausted,   *)
(* also updates the channel; the two writes run in parallel.                *)

Writes(msg) ==
  IF msg.type # "Accounting" /\ msg.exhausted THEN {"insert", "flag"} ELSE {"insert"}

Recipients(v, msg) == IF msg.type = "Accounting" THEN {v} ELSE Validators

Post(to, t, msg) ==
  [to |-> to, from |-> WorkerOf(t), msg |-> msg, todo |-> Writes(msg),
   tick |-> t, awaited |-> TRUE]

Propagate(t, msg) ==
  posts' = posts \cup {Post(to, t, msg) : to \in Recipients(WorkerOf(t), msg)}

AwaitedBy(t) == {p \in posts : p.tick = t /\ p.awaited}

\* Promise.all over the receivers has resolved: each POST succeeded or failed.
Settled(t) == AwaitedBy(t) = {}

StoredForgettingExhausted(rec, p, write) ==
  IF write = "insert" THEN InsertMsg(rec, p.msg) ELSE rec

\* insertOne of the message, or updateChannelIfExhausted for its sender
Stored(rec, p, write) ==
  IF write = "insert" THEN InsertMsg(rec, p.msg)
  ELSE [rec EXCEPT !.exhausted = rec.exhausted \cup {p.from}]

\* postValidatorMessages does one of its writes; the response follows the last.
Serve(p, write) ==
  /\ db' = [db EXCEPT ![p.to] = Stored(db[p.to], p, write)]
  /\ posts' = (posts \ {p}) \cup
       (IF p.todo = {write} THEN {} ELSE {[p EXCEPT !.todo = @ \ {write}]})
  /\ UNCHANGED <<aggrs, tick, faults>>

-----------------------------------------------------------------------------
(* Ticks.  A tick's  own  is first the Accounting it read and then, if there *)
(* were new aggregates, the one it made:  newAccounting || accounting.       *)

\* A tick begins by reading its Sentry.  Ending one tick and being ready for
\* the next is the same state: loopChannels starts another.
FirstRead(t) == IF t \in FollowerTicks THEN "reading" ELSE "producing"

NewTick(t) ==
  [pc |-> FirstRead(t), newMsg |-> Unread, responseMsg |-> Unread, own |-> NoAccounting]

At(t, pc) == tick[t].pc = pc
Goto(t, pc) == tick' = [tick EXCEPT ![t].pc = pc]
EndTick(t) == tick' = [tick EXCEPT ![t] = NewTick(t)]

\* follower.js asks for the newest NewState and for its own newest answer at
\* the same time, and goes on when it has both.
ReadNewState(t) ==
  /\ At(t, "reading") /\ tick[t].newMsg = Unread /\ Settled(t)
  /\ tick' = [tick EXCEPT
                ![t].newMsg = db[Follower].newState,
                ![t].pc = IF tick[t].responseMsg = Unread THEN @ ELSE "producing"]
  /\ UNCHANGED <<aggrs, db, posts, faults>>

ReadResponse(t) ==
  /\ At(t, "reading") /\ tick[t].responseMsg = Unread /\ Settled(t)
  /\ tick' = [tick EXCEPT
                ![t].responseMsg = db[Follower].response,
                ![t].pc = IF tick[t].newMsg = Unread THEN @ ELSE "producing"]
  /\ UNCHANGED <<aggrs, db, posts, faults>>

\* producer.tick: getOurLatestMsg('Accounting')
ReadAccounting(t) ==
  /\ At(t, "producing") /\ Settled(t)
  /\ tick' = [tick EXCEPT ![t].own = db[WorkerOf(t)].accounting,
                          ![t].pc = "merging"]
  /\ UNCHANGED <<aggrs, db, posts, faults>>

\* getEventAggrs({ after: lastEvAggr }): the oldest that are newer, at most the limit
LastOf(v, accounting) ==
  LET limit == accounting.lastEvAggr + EVENTS_FIND_LIMIT
  IN  IF limit < Len(aggrs[v]) THEN limit ELSE Len(aggrs[v])

BatchFromLast(v, accounting) ==
  LET after == IF accounting.lastEvAggr = 0 THEN 0 ELSE accounting.lastEvAggr - 1
  IN  [i \in 1 .. LastOf(v, accounting) - after |-> aggrs[v][after + i]]

Batch(v, accounting) ==
  [i \in 1 .. LastOf(v, accounting) - accounting.lastEvAggr |->
     aggrs[v][accounting.lastEvAggr + i]]

\* mergeAggrs: lastEvAggr becomes the newest  created  of the batch
NewAccountingSkippingToEnd(v, accounting) ==
  [accounting EXCEPT !.balancesBeforeFees = MergeAggrs(@, Batch(v, accounting)),
                     !.lastEvAggr = Len(aggrs[v])]

NewAccounting(v, accounting) ==
  [accounting EXCEPT !.balancesBeforeFees = MergeAggrs(@, Batch(v, accounting)),
                     !.lastEvAggr = LastOf(v, accounting)]

\* producer.tick: getEventAggrs({ after }) found nothing new
NothingToMerge(t) ==
  /\ At(t, "merging")
  /\ tick[t].own.lastEvAggr = Len(aggrs[WorkerOf(t)])
  /\ IF t \in FollowerTicks THEN Goto(t, "answering") ELSE EndTick(t)
  /\ UNCHANGED <<aggrs, db, posts, faults>>

\* producer.tick: it found some; the new Accounting is propagated
ProduceAccounting(t) ==
  /\ At(t, "merging")
  /\ tick[t].own.lastEvAggr < Len(aggrs[WorkerOf(t)])
  /\ LET new == NewAccounting(WorkerOf(t), tick[t].own)
     IN  /\ tick' = [tick EXCEPT ![t].own = new,
                       ![t].pc = IF t \in FollowerTicks THEN "answering" ELSE "proposing"]
         /\ Propagate(t, new)
  /\ UNCHANGED <<aggrs, db, faults>>

\* leader.js onNewAccounting
ProposeState(t) ==
  /\ At(t, "proposing") /\ Settled(t)
  /\ LET balances == AfterFees(tick[t].own.balancesBeforeFees)
     IN  Propagate(t, [type |-> "NewState", balances |-> balances, stateRoot |-> balances,
                       signed |-> TRUE, exhausted |-> Full(balances)])
  /\ EndTick(t)
  /\ UNCHANGED <<aggrs, db, faults>>

-----------------------------------------------------------------------------
(* follower.js onNewState                                                   *)

Approve(msg, health) ==
  [type |-> "ApproveState", stateRoot |-> msg.stateRoot,
   isHealthy |-> health >= HEALTH_THRESHOLD_PROMILLES, exhausted |-> Full(msg.balances)]

\* onError sends  { ...newMsg, type: 'RejectState', reason } : the answer keeps
\* the proposal's  exhausted , whatever the reason.
Reject(msg, reason) ==
  [type |-> "RejectState", stateRoot |-> msg.stateRoot, reason |-> reason,
   exhausted |-> msg.exhausted]

AnsweringAgain(t) == tick[t].newMsg = None

AnsweredOnceForAll(t) == tick[t].newMsg = None \/ tick[t].responseMsg # None

NothingToAnswer(t) ==
  \/ tick[t].newMsg = None
  \/ /\ tick[t].newMsg # None /\ tick[t].responseMsg # None
     /\ tick[t].newMsg.stateRoot = tick[t].responseMsg.stateRoot

SkipAnswer(t) ==
  /\ At(t, "answering") /\ Settled(t)
  /\ NothingToAnswer(t)
  /\ EndTick(t)
  /\ UNCHANGED <<aggrs, db, posts, faults>>

SignatureUnchecked(msg) == IF msg.stateRoot # msg.balances THEN "InvalidRootHash" ELSE "ok"

Authenticity(msg) ==
  IF msg.stateRoot # msg.balances THEN "InvalidRootHash"
  ELSE IF ~msg.signed THEN "InvalidSignature" ELSE "ok"

RejectUnauthentic(t) ==
  /\ At(t, "answering") /\ Settled(t)
  /\ ~NothingToAnswer(t)
  /\ Authenticity(tick[t].newMsg) # "ok"
  /\ Propagate(t, Reject(tick[t].newMsg, Authenticity(tick[t].newMsg)))
  /\ EndTick(t)
  /\ UNCHANGED <<aggrs, db, faults>>

VerdictWithoutTransitionCheck(msg, prev, our) ==
  LET health == Health(our, msg.balances)
  IN  IF health < HEALTH_UNSIGNABLE_PROMILLES THEN Reject(msg, "TooLowHealth")
      ELSE Approve(msg, health)

VerdictWithoutHealthCheck(msg, prev, our) ==
  IF ~ValidTransition(prev, msg.balances) THEN Reject(msg, "InvalidTransition")
  ELSE Approve(msg, Health(our, msg.balances))

Verdict(msg, prev, our) ==
  LET health == Health(our, msg.balances)
  IN  IF ~ValidTransition(prev, msg.balances) THEN Reject(msg, "InvalidTransition")
      ELSE IF health < HEALTH_UNSIGNABLE_PROMILLES THEN Reject(msg, "TooLowHealth")
      ELSE Approve(msg, health)

\* Once the signature is verified: getLastApproved, and the answer that follows.
\* One step is enough for both: a POST does nothing before a Sentry serves it,
\* so that it does not show how long after the read it is sent.
AnswerState(t) ==
  /\ At(t, "answering") /\ Settled(t)
  /\ ~NothingToAnswer(t)
  /\ Authenticity(tick[t].newMsg) = "ok"
  /\ \E prev \in PrevBalances(Follower) :
       Propagate(t, Verdict(tick[t].newMsg, prev, AfterFees(tick[t].own.balancesBeforeFees)))
  /\ EndTick(t)
  /\ UNCHANGED <<aggrs, db, faults>>

TickStep(t) ==
  \/ t \in FollowerTicks /\ (ReadNewState(t) \/ ReadResponse(t))
  \/ ReadAccounting(t)
  \/ NothingToMerge(t)
  \/ ProduceAccounting(t)
  \/ t \in LeaderTicks /\ ProposeState(t)
  \/ t \in FollowerTicks /\ (SkipAnswer(t) \/ RejectUnauthentic(t) \/ AnswerState(t))

-----------------------------------------------------------------------------
(* The environment: events, and what goes wrong.                            *)

\* The event aggregator persists another aggregate at v's Sentry.  It asks a
\* cached copy of the channel whether it is exhausted, so that nothing here
\* stops when db[v].exhausted is complete.
PersistAggregate(v, aggr) ==
  /\ Len(aggrs[v]) < MaxAggrs[v]
  /\ Len(aggrs[Leader]) + Len(aggrs[Follower]) < MaxTotal
  /\ aggrs' = [aggrs EXCEPT ![v] = Append(@, aggr)]
  /\ UNCHANGED <<db, posts, tick, faults>>

Fault(kind) ==
  /\ kind \in Faults
  /\ faults < MaxFaults
  /\ faults' = faults + 1

\* The request never arrives, or the Sentry dies before it is done with it;
\* propagate logs the error and nobody sends the message again.
LosePost(p) ==
  /\ Fault("lose")
  /\ posts' = posts \ {p}
  /\ UNCHANGED <<aggrs, db, tick>>

\* propagateTo's race is won by PROPAGATION_TIMEOUT: the worker goes on, the
\* request stays under way.  Bound: one late copy of a message per recipient
\* and tick.
TimeOutPost(p) ==
  /\ p.awaited
  /\ Fault("late")
  /\ [p EXCEPT !.awaited = FALSE] \notin posts
  /\ posts' = (posts \ {p}) \cup {[p EXCEPT !.awaited = FALSE]}
  /\ UNCHANGED <<aggrs, db, tick>>

\* A request of the tick fails and it throws, or its process dies with the
\* POSTs it was waiting for; some of those may be under way all the same.
AbortTick(t) ==
  /\ tick[t] # NewTick(t) \/ ~Settled(t)
  /\ Fault("abort")
  /\ EndTick(t)
  /\ \E late \in SUBSET AwaitedBy(t) :
       /\ late # {} => "late" \in Faults
       /\ posts' = (posts \ AwaitedBy(t)) \cup {[p EXCEPT !.awaited = FALSE] : p \in late}
  /\ UNCHANGED <<aggrs, db>>

\* A NewState its worker did not produce is posted in the leader's name to
\* both Sentries, as test/integration.js does to see it rejected.
Misreport(msg) ==
  /\ faults < MaxFaults
  /\ faults' = faults + 1
  /\ db' = [v \in Validators |->
              [InsertMsg(db[v], msg) EXCEPT
                 !.exhausted = IF msg.exhausted THEN @ \cup {Leader} ELSE @]]
  /\ UNCHANGED <<aggrs, posts, tick>>

-----------------------------------------------------------------------------
Init ==
  /\ aggrs = [v \in Validators |-> <<>>]
  /\ db = [v \in Validators |-> EmptyDb]
  /\ posts = {}
  /\ tick = [t \in Ticks |-> NewTick(t)]
  /\ faults = 0

Next ==
  \/ \E t \in Ticks : TickStep(t)
  \/ \E p \in posts : \E write \in p.todo : Serve(p, write)
  \/ \E v \in Validators, aggr \in Aggregates : PersistAggregate(v, aggr)
  \/ \E p \in posts : LosePost(p)
  \/ \E p \in posts : TimeOutPost(p)
  \/ \E t \in Ticks : AbortTick(t)
  \/ \E msg \in Misreports : Misreport(msg)

Spec == Init /\ [][Next]_vars

\* loopChannels starts a tick after every tick, node runs a tick whose request
\* was answered, and a request that is not lost is handled.
FairSpec ==
  /\ Spec
  /\ \A t \in Ticks : WF_vars(TickStep(t))
  /\ WF_vars(\E p \in posts : \E write \in p.todo : Serve(p, write))

-----------------------------------------------------------------------------
PcTypes == {"reading", "producing", "merging", "proposing", "answering"}

TickTypes ==
  [pc : PcTypes, newMsg : NewStates \cup {None, Unread},
   responseMsg : ApproveStates \cup RejectStates \cup {None, Unread}, own : Accountings]

DbTypes ==
  [accounting : Accountings, newStates : SUBSET NewStates,
   newState : NewStates \cup {None}, approveState : ApproveStates \cup {None},
   response : ApproveStates \cup RejectStates \cup {None},
   exhausted : SUBSET Validators]

PostTypes ==
  [to : Validators, from : Validators, msg : Messages, todo : SUBSET {"insert", "flag"},
   tick : Ticks, awaited : BOOLEAN]

\* Every table, request and tick holds what the code stores there: in
\* particular no message of a kind reaches a query for another kind.
TypeOK ==
  /\ aggrs \in [Validators -> Seq(Aggregates)]
  /\ db \in [Validators -> DbTypes]
  /\ posts \subseteq PostTypes
  /\ tick \in [Ticks -> TickTypes]
  /\ faults \in 0..MaxFaults

-----------------------------------------------------------------------------
(* Properties.                                                              *)

\* The tree that /last-approved serves at v, the empty one before the first.
Approved(v) ==
  IF LastApproved(v) = {} THEN EmptyTree ELSE db[v].approveState.stateRoot

Answers == ApproveStates \cup RejectStates

\* Every ApproveState the follower ever sends, stored or still under way.
Approvals ==
  {p.msg : p \in {q \in posts : q.msg.type = "ApproveState"}}
    \cup {db[v].approveState : v \in {w \in Validators : db[w].approveState # None}}

\* Whatever is lost, late or overlapping: the follower never signs a root that
\* is not the hash of a tree the leader signed, nor a tree that exceeds the
\* deposit (onNewState's checks hold when the answer is used, not only then).
ApprovalsAreJustified ==
  \A a \in Approvals :
    \E n \in db[Follower].newStates :
      /\ n.stateRoot = a.stateRoot /\ n.balances = a.stateRoot /\ n.signed
      /\ ValidTransition(EmptyTree, n.balances)

IsExact(v, accounting) ==
  /\ accounting.lastEvAggr <= Len(aggrs[v])
  /\ accounting.balancesBeforeFees =
       MergeAggrs(EmptyTree, SubSeq(aggrs[v], 1, accounting.lastEvAggr))

\* Whatever is lost, late or overlapping: an Accounting accounts for exactly the
\* aggregates up to its lastEvAggr, each once.  A newer Accounting that arrives
\* before an older one costs work, never money (producer.tick reads it back).
AccountingIsExact ==
  /\ \A v \in Validators : IsExact(v, db[v].accounting)
  /\ \A t \in Ticks : IsExact(WorkerOf(t), tick[t].own)

\* What the follower's Sentry serves as approved moves only by the OUTPACE
\* rules, to trees the leader vouched for: no earner loses what was approved.
Ledger == INSTANCE ApprovedLedger WITH
  proposed <- {n.balances : n \in {m \in db[Follower].newStates :
                                     m.signed /\ m.stateRoot = m.balances}},
  approved <- Approved(Follower)

FollowerLedger == Ledger!Spec

\* The follower gives one answer per state: it does not answer a root again
\* while its Sentry holds the answer (latestIsRespondedTo).
AnswersOnce ==
  [][\A p \in posts' \ posts :
       /\ p.msg \in Answers
       /\ p.todo = Writes(p.msg) /\ p.awaited /\ db' = db
       => \/ db[Follower].response = None
          \/ db[Follower].response.stateRoot # p.msg.stateRoot]_vars

\* The follower judges a state by the newest accounting its Sentry holds: it
\* does not sign away what it has counted itself since the tick began.
ApprovesByItsOwnAccounting ==
  [][\A p \in posts' \ posts :
       p.msg.type = "ApproveState" /\ p.todo = Writes(p.msg) /\ db' = db
       => LET ours == AfterFees(db[Follower].accounting.balancesBeforeFees)
          IN  Health(ours, p.msg.stateRoot) >= HEALTH_UNSIGNABLE_PROMILLES]_vars

-----------------------------------------------------------------------------
\* The tree the leader ends up with once it has merged all that was persisted.
FinalTree == AfterFees(MergeAggrs(EmptyTree, aggrs[Leader]))
FollowersTree == AfterFees(MergeAggrs(EmptyTree, aggrs[Follower]))

Answered ==
  \/ db[Follower].newState = None
  \/ /\ db[Follower].response # None
     /\ db[Follower].response.stateRoot = db[Follower].newState.stateRoot

\* The follower keeps answering: whatever was lost or died on the way, the
\* newest NewState at its Sentry is answered in the end.
FollowerCatchesUp == []<>Answered

\* A leader that died after its Accounting, or whose NewState was lost, makes up for
\* it with the next aggregate: once nothing more goes wrong and no POST is left that
\* was given up on, what is not yet counted brings the latest tree to the follower.
LeaderCatchesUp ==
  /\ faults = MaxFaults /\ \A p \in posts : p.awaited
  /\ db[Leader].accounting.lastEvAggr < Len(aggrs[Leader])
  ~> db[Follower].newState # None /\ db[Follower].newState.balances = FinalTree

\* README, "The leader will use the latest state tree to produce a stateRoot and
\* sign it": if nothing goes wrong, all that the leader counts is proposed to the
\* follower in the end; and unless the follower counts significantly more, both
\* Sentries end up serving that tree as approved.
AgreementIsReached ==
  <>[](faults = 0 /\ aggrs[Leader] # <<>> =>
         /\ db[Follower].newState # None /\ db[Follower].newState.balances = FinalTree
         /\ \/ Health(FollowersTree, FinalTree) < HEALTH_UNSIGNABLE_PROMILLES
            \/ \A v \in Validators : LastApproved(v) # {} /\ Approved(v) = FinalTree)

\* If nothing goes wrong: once a tree that spends the whole deposit is approved, both
\* Sentries mark the channel as exhausted by both validators.
SpentChannelIsClosed ==
  <>[](faults = 0 /\ (\E v \in Validators : LastApproved(v) # {} /\ Full(Approved(v)))
       => \A v \in Validators : db[v].exhausted = Validators)
=============================================================================
