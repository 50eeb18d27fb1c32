---------------------------- MODULE EventRecorder ---------------------------
(***************************************************************************)
(* One Sentry taking the events of one channel.  Several processes of the   *)
(* cluster each keep an aggregate in memory and save it to MongoDB, where   *)
(* the validator worker reads the aggregates by their  created .            *)
(*                                                                         *)
(* A request is a process of its own: it asks Redis for its rate limits,    *)
(* updates the targeting rules and is recorded, and other requests and      *)
(* timers run between those steps.  With AGGR_THROTTLE it is answered when  *)
(* it is in the aggregate, which a timer passes on to a queue that saves    *)
(* one aggregate at a time and tries again what failed.  Without, every     *)
(* request saves its own aggregate and is answered after that.              *)
(***************************************************************************)
EXTENDS AccessRules, FiniteSets

CONSTANTS
  Processes,          \* the processes of the cluster
  Requests,           \* POSTs to /channel/:id/events, each sent once
  Body(_),            \* a request's session and events
  TargetingRules, InitialRules,
  Shows(_, _),        \* do targeting rules let an event earn? (output.show)
  Throttles,          \* which configurations there are: AGGR_THROTTLE set, or 0
  EVENTS_FIND_LIMIT,
  Faults,             \* what may go wrong: a subset of FaultKinds
  MaxFaults,          \* bound: faults in one behaviour
  None

FaultKinds ==
  {"failed",        \* an insert failed
   "unconfirmed",   \* an insert was applied, and yet it failed
   "crash"}         \* a process died and was forked again

\* The events that were sent: an aggregate is the set of those that it pays for.
Entries == UNION {{<<r, i>> : i \in DOMAIN Body(r).events} : r \in Requests}

ASSUME RecorderAssumption ==
  /\ EVENTS_FIND_LIMIT \in Nat \ {0}
  /\ MaxFaults \in Nat
  /\ Throttles \subseteq BOOLEAN
  /\ Faults \subseteq FaultKinds
  /\ Processes \cap Requests = {}
  /\ InitialRules \in TargetingRules
  /\ None \notin Processes \cup [by : Processes, aggr : SUBSET Entries, created : Nat]
  /\ \A r \in Requests : /\ Body(r).events # <<>>
                         /\ \A i \in DOMAIN Body(r).events :
                              Body(r).events[i].targetingRules \in TargetingRules

VARIABLES
  throttled,  \* cfg.AGGR_THROTTLE is not 0
  channel,    \* the channel's document: exhausted, targetingRules
  phase,      \* the channel's life, see Phases
  limits,     \* the rate limits that Redis holds
  recorder,   \* per process: makeRecorder's variables
  req,        \* per request: where it is
  saving,     \* per process and request: the aggregate it is inserting
  col,        \* eventAggregates, in the order in which they became visible
  clock,      \* the newest  created
  reader,     \* the worker's Accounting: lastEvAggr, and what it has merged
  faults      \* per kind, how much has gone wrong so far

vars == <<throttled, channel, phase, limits, recorder, req, saving, col, clock, reader, faults>>

db == <<throttled, channel, phase, limits>>
memory == <<recorder, req>>

-----------------------------------------------------------------------------
(* What an event earns.                                                     *)

Event(entry) == Body(entry[1]).events[entry[2]]

\* getPayout returns null for other types, without a publisher, and where the
\* rules hide the ad.
HasPayout(rules, ev) ==
  ev.type \in {"IMPRESSION", "CLICK"} /\ ev.publisher /\ Shows(rules, ev)

\* eventReducer.reduce: what request r adds to an aggregate.  A second CLOSE
\* overwrites the first, either pays the deposit.
Earned(r, rules) ==
  {<<r, i>> : i \in {j \in DOMAIN Body(r).events :
     LET ev == Body(r).events[j] IN HasPayout(rules, ev) \/ ev.type = "CLOSE"}}

\* record() makes a recorder with the channel as it is then.
NewRecorder == [channel |-> channel, aggr |-> {}, armed |-> FALSE, queue |-> <<>>]

At(r, pc) == req[r].pc = pc
Answer(r, answer) == req' = [req EXCEPT ![r].pc = answer]

-----------------------------------------------------------------------------
(* The request.                                                             *)

\* The recorder asks its copy of the channel, then checkAccess.
Receive(r, p) ==
  /\ At(r, "sent")
  /\ LET access == Access(Body(r), phase)
         refused == recorder[p].channel.exhausted \/ access = "refuse"
         limited == ~refused /\ access = "limit"
     IN  req' = [req EXCEPT
           ![r].pc = IF refused THEN "refused" ELSE "checking",
           ![r].at = p,
           ![r].rules = recorder[p].channel.targetingRules,
           ![r].ask = IF limited THEN LimitKeys(Body(r)) ELSE {},
           ![r].tooMany = limited /\ LimitError(Body(r))]
  /\ UNCHANGED <<db, recorder, saving, col, clock, reader, faults>>

\* redisExists
AskLimit(r, key) ==
  /\ At(r, "checking") /\ key \in req[r].ask
  /\ req' = [req EXCEPT ![r].ask = @ \ {key},
                        ![r].set = IF key \in limits THEN @ ELSE @ \cup {key},
                        ![r].tooMany = @ \/ key \in limits]
  /\ UNCHANGED <<db, recorder, saving, col, clock, reader, faults>>

\* redisSetex
SetLimit(r, key) ==
  /\ At(r, "checking") /\ key \in req[r].set
  /\ limits' = limits \cup {key}
  /\ req' = [req EXCEPT ![r].set = @ \ {key}]
  /\ UNCHANGED <<throttled, channel, phase, recorder, saving, col, clock, reader, faults>>

\* checkAccess has resolved.
Checked(r) == At(r, "checking") /\ req[r].ask = {} /\ req[r].set = {}

RefuseTooMany(r) ==
  /\ Checked(r) /\ req[r].tooMany
  /\ Answer(r, "refused")
  /\ UNCHANGED <<db, recorder, saving, col, clock, reader, faults>>

Updates(r) == {i \in DOMAIN Body(r).events : Body(r).events[i].type = "UPDATE_TARGETING"}

UpdateTargeting(r) ==
  /\ Checked(r) /\ ~req[r].tooMany
  /\ \E i \in Updates(r) :
       /\ \A j \in Updates(r) : i <= j
       /\ channel' = [channel EXCEPT !.targetingRules = Body(r).events[i].targetingRules]
  /\ Answer(r, "updated")
  /\ UNCHANGED <<throttled, phase, limits, recorder, saving, col, clock, reader, faults>>

Ready(r) == At(r, "updated") \/ (Checked(r) /\ ~req[r].tooMany /\ Updates(r) = {})

NoPayout(r) ==
  /\ Len(Body(r).events) = 1 /\ Body(r).events[1].publisher
  /\ ~HasPayout(req[r].rules, Body(r).events[1])

RefuseNoPayout(r) ==
  /\ Ready(r) /\ NoPayout(r)
  /\ Answer(r, "refused")
  /\ UNCHANGED <<db, recorder, saving, col, clock, reader, faults>>

\* Record the events; what r itself earned is kept to say what it was promised.
Aggregate(r) == recorder[req[r].at].aggr \cup Earned(r, req[r].rules)

RecordNothing(r) ==
  /\ Ready(r) /\ ~NoPayout(r) /\ Aggregate(r) = {}
  /\ Answer(r, "ok")
  /\ UNCHANGED <<db, recorder, saving, col, clock, reader, faults>>

RecordThrottled(r) ==
  /\ throttled
  /\ Ready(r) /\ ~NoPayout(r) /\ Aggregate(r) # {}
  /\ recorder' = [recorder EXCEPT ![req[r].at].aggr = Aggregate(r),
                                  ![req[r].at].armed = TRUE]
  /\ req' = [req EXCEPT ![r].pc = "ok", ![r].earned = Earned(r, req[r].rules)]
  /\ UNCHANGED <<db, saving, col, clock, reader, faults>>

InsertAsOfLast(p, aggr) == [by |-> p, aggr |-> aggr, created |-> clock]

\* An insert under way: created is the time at which it starts.  No two start in
\* the same millisecond.
Insert(p, aggr) == [by |-> p, aggr |-> aggr, created |-> clock + 1]

RecordAndSave(r) ==
  /\ ~throttled
  /\ Ready(r) /\ ~NoPayout(r) /\ Aggregate(r) # {}
  /\ saving' = [saving EXCEPT ![r] = Insert(req[r].at, Aggregate(r))]
  /\ clock' = clock + 1
  /\ recorder' = [recorder EXCEPT ![req[r].at].aggr = {}]
  /\ req' = [req EXCEPT ![r].pc = "saving", ![r].earned = Earned(r, req[r].rules)]
  /\ UNCHANGED <<db, col, reader, faults>>

RequestStep(r) ==
  \/ \E key \in req[r].ask : AskLimit(r, key)
  \/ \E key \in req[r].set : SetLimit(r, key)
  \/ RefuseTooMany(r)
  \/ UpdateTargeting(r)
  \/ RefuseNoPayout(r)
  \/ RecordNothing(r)
  \/ RecordThrottled(r)
  \/ RecordAndSave(r)

-----------------------------------------------------------------------------
(* The timers of a process, its queue, and inserts.                         *)

\* persistAndReset without the reset
PersistAndKeep(p) ==
  recorder' = [recorder EXCEPT ![p].queue = Append(@, recorder[p].aggr), ![p].armed = FALSE]

PersistAndReset(p) ==
  recorder' = [recorder EXCEPT ![p].queue = Append(@, recorder[p].aggr),
                               ![p].aggr = {}, ![p].armed = FALSE]

ThrottleAsInterval(p) ==
  /\ PersistAndReset(p)
  /\ UNCHANGED <<db, req, saving, col, clock, reader, faults>>

\* AGGR_THROTTLE has passed since the first call: lodash.throttle's trailing edge.
Throttle(p) ==
  /\ recorder[p].armed
  /\ PersistAndReset(p)
  /\ UNCHANGED <<db, req, saving, col, clock, reader, faults>>

\* persist: the queue begins to save its next aggregate.
StartSaving(p) ==
  /\ saving[p] = None /\ recorder[p].queue # <<>>
  /\ saving' = [saving EXCEPT ![p] = Insert(p, Head(recorder[p].queue))]
  /\ clock' = clock + 1
  /\ UNCHANGED <<db, memory, col, reader, faults>>

\* An insert has succeeded: the queue goes on, the request is answered.
FinishSaving(o) ==
  IF o \in Processes
  THEN recorder' = [recorder EXCEPT ![o].queue = Tail(@)] /\ UNCHANGED req
  ELSE Answer(o, "ok") /\ UNCHANGED recorder

\* An insert has failed: the queue logs it and goes on.
DropFailed(o) ==
  IF o \in Processes
  THEN recorder' = [recorder EXCEPT ![o].queue = Tail(@)] /\ UNCHANGED req
  ELSE Answer(o, "error") /\ UNCHANGED recorder

\* An insert has failed: the queue saves the aggregate again, after those that
\* wait already; nobody repeats a request.
RetryFailed(o) ==
  IF o \in Processes
  THEN recorder' = [recorder EXCEPT ![o].queue = Append(Tail(@), Head(@))] /\ UNCHANGED req
  ELSE Answer(o, "error") /\ UNCHANGED recorder

Save(o) ==
  /\ saving[o] # None
  /\ col' = Append(col, saving[o])
  /\ saving' = [saving EXCEPT ![o] = None]
  /\ FinishSaving(o)
  /\ UNCHANGED <<db, clock, reader, faults>>

Fault(kind) ==
  /\ kind \in Faults
  /\ faults["failed"] + faults["unconfirmed"] + faults["crash"] < MaxFaults
  /\ faults' = [faults EXCEPT ![kind] = @ + 1]

FailToSave(o) ==
  /\ saving[o] # None
  /\ \/ Fault("failed") /\ UNCHANGED col
     \/ Fault("unconfirmed") /\ col' = Append(col, saving[o])
  /\ saving' = [saving EXCEPT ![o] = None]
  /\ RetryFailed(o)
  /\ UNCHANGED <<db, clock, reader>>

\* setInterval: the copy of the channel is read again.
RefreshChannel(p) ==
  /\ recorder' = [recorder EXCEPT ![p].channel = channel]
  /\ UNCHANGED <<db, req, saving, col, clock, reader, faults>>

Answered == {"ok", "refused", "error"}

\* The process dies and another one takes its place (cluster.js).  An insert
\* under way may be applied all the same.  What the process had answered, the
\* new one knows nothing of: such a request is at no process any more.
Crash(p) ==
  LET waiting == {r \in Requests : req[r].at = p /\ req[r].pc \notin Answered}
      ours == {o \in {p} \cup waiting : saving[o] # None}
  IN  /\ Fault("crash")
      /\ recorder' = [recorder EXCEPT ![p] = NewRecorder]
      /\ req' = [r \in Requests |->
                   IF req[r].at # p THEN req[r]
                   ELSE [req[r] EXCEPT !.at = None, !.pc = IF @ \in Answered THEN @ ELSE "error"]]
      /\ saving' = [o \in DOMAIN saving |-> IF o \in ours THEN None ELSE saving[o]]
      /\ \/ UNCHANGED col
         \/ \E o \in ours : col' = Append(col, saving[o])
      /\ UNCHANGED <<db, clock, reader>>

-----------------------------------------------------------------------------
(* The worker that reads, and the rest of the environment.                  *)

\* getEventAggrs({ after: lastEvAggr })
NewAggrs == {i \in DOMAIN col : col[i].created > reader.lastEvAggr}

MergeNewestFirst ==
  /\ \E i \in NewAggrs :
       /\ \A j \in NewAggrs : col[j].created <= col[i].created
       /\ reader' = [lastEvAggr |-> col[i].created, merged |-> reader.merged \cup {i}]
  /\ UNCHANGED <<db, memory, saving, col, clock, faults>>

\* find, sort by  created , limit; mergeAggrs moves lastEvAggr to the newest.
Merge ==
  /\ \E batch \in SUBSET NewAggrs :
       /\ batch # {}
       /\ IF Cardinality(NewAggrs) <= EVENTS_FIND_LIMIT THEN batch = NewAggrs
          ELSE Cardinality(batch) = EVENTS_FIND_LIMIT
       /\ \A i \in batch, j \in NewAggrs \ batch : col[i].created <= col[j].created
       /\ \E last \in batch :
            /\ \A i \in batch : col[i].created <= col[last].created
            /\ reader' = [lastEvAggr |-> col[last].created, merged |-> reader.merged \cup batch]
  /\ UNCHANGED <<db, memory, saving, col, clock, faults>>

\* Both validators' marks are there: see Outpace!SpentChannelIsClosed.
Exhaust ==
  /\ ~channel.exhausted
  /\ channel' = [channel EXCEPT !.exhausted = TRUE]
  /\ UNCHANGED <<throttled, phase, limits, memory, saving, col, clock, reader, faults>>

PassTime ==
  /\ \/ phase = "running" /\ phase' = "withdraw"
     \/ phase = "withdraw" /\ phase' = "expired"
  /\ UNCHANGED <<throttled, channel, limits, memory, saving, col, clock, reader, faults>>

ExpireLimit(key) ==
  /\ limits' = limits \ {key}
  /\ UNCHANGED <<throttled, channel, phase, memory, saving, col, clock, reader, faults>>

-----------------------------------------------------------------------------
Init ==
  /\ throttled \in Throttles
  /\ channel = [exhausted |-> FALSE, targetingRules |-> InitialRules]
  /\ phase = "running"
  /\ limits = {}
  /\ recorder = [p \in Processes |-> NewRecorder]
  /\ req = [r \in Requests |-> [pc |-> "sent", at |-> None, rules |-> InitialRules,
                                ask |-> {}, set |-> {}, tooMany |-> FALSE, earned |-> {}]]
  /\ saving = [o \in Processes \cup Requests |-> None]
  /\ col = <<>>
  /\ clock = 0
  /\ reader = [lastEvAggr |-> 0, merged |-> {}]
  /\ faults = [kind \in FaultKinds |-> 0]

Next ==
  \/ \E r \in Requests, p \in Processes : Receive(r, p)
  \/ \E r \in Requests : RequestStep(r)
  \/ \E p \in Processes : Throttle(p) \/ StartSaving(p) \/ RefreshChannel(p) \/ Crash(p)
  \/ \E o \in Processes \cup Requests : Save(o) \/ FailToSave(o)
  \/ Merge
  \/ Exhaust
  \/ PassTime
  \/ \E key \in limits : ExpireLimit(key)

Spec == Init /\ [][Next]_vars

\* Timers fire, requests that were received are worked on, the database
\* answers, and the worker ticks.
FairSpec ==
  /\ Spec
  /\ \A r \in Requests : WF_vars(RequestStep(r))
  /\ \A p \in Processes : WF_vars(Throttle(p)) /\ WF_vars(StartSaving(p))
  /\ \A o \in Processes \cup Requests : WF_vars(Save(o))
  /\ WF_vars(Merge)

-----------------------------------------------------------------------------
Keys == UNION {LimitKeys(Body(r)) : r \in Requests}
ChannelTypes == [exhausted : BOOLEAN, targetingRules : TargetingRules]
AggregateTypes == (SUBSET Entries) \ {{}}
InsertTypes == [by : Processes, aggr : AggregateTypes, created : 1..clock]

RecorderTypes ==
  [channel : ChannelTypes, aggr : SUBSET Entries, armed : BOOLEAN, queue : Seq(AggregateTypes)]

RequestTypes ==
  [pc : {"sent", "checking", "updated", "saving"} \cup Answered,
   at : Processes \cup {None}, rules : TargetingRules,
   ask : SUBSET Keys, set : SUBSET Keys, tooMany : BOOLEAN, earned : SUBSET Entries]

\* Every table and variable holds what the code stores there: in particular no
\* empty aggregate is ever saved, and no aggregate has a  created  to come.
TypeOK ==
  /\ throttled \in Throttles
  /\ channel \in ChannelTypes
  /\ phase \in Phases
  /\ limits \subseteq Keys
  /\ recorder \in [Processes -> RecorderTypes]
  /\ req \in [Requests -> RequestTypes]
  /\ clock \in Nat
  /\ saving \in [Processes \cup Requests -> InsertTypes \cup {None}]
  /\ col \in Seq(InsertTypes)
  /\ reader \in [lastEvAggr : 0..clock, merged : SUBSET DOMAIN col]
  /\ faults \in [FaultKinds -> 0..MaxFaults]

-----------------------------------------------------------------------------
(* Properties.                                                              *)

Saved(entry) == {i \in DOMAIN col : entry \in col[i].aggr}

\* An entry in the memory of some process: in its aggregate or its queue, or
\* in an insert that a request waits for.
InMemory(entry) ==
  {<<p, 0>> : p \in {q \in Processes : entry \in recorder[q].aggr}}
    \cup (UNION {{<<p, i>> : i \in {j \in DOMAIN recorder[p].queue : entry \in recorder[p].queue[j]}} :
                  p \in Processes})
    \cup {<<r, 0>> : r \in {s \in Requests : saving[s] # None /\ entry \in saving[s].aggr}}

\* "to ensure everything is saved", "so that we never lose events": what a
\* request earned that was answered with success is saved, or with AGGR_THROTTLE
\* it still will be, unless the process that had it died after it had answered.
AckedIsKept ==
  \A r \in Requests : At(r, "ok") =>
    \A entry \in req[r].earned :
      \/ Saved(entry) # {}
      \/ throttled /\ (InMemory(entry) # {} \/ req[r].at = None)

\* The resets of persistAndReset and of the queue, and its retries: nothing that
\* was earned is recorded twice, except where an insert that had been applied
\* is tried again.
RecordedOnce ==
  \A entry \in Entries :
    Cardinality(Saved(entry)) + Cardinality(InMemory(entry)) <= 1 + faults["unconfirmed"]

\* "otherwise we risk data inconsistency when running in clustered mode": the
\* worker leaves out no aggregate that is older than the newest it has read.
NothingSkipped ==
  \A i \in DOMAIN col : col[i].created <= reader.lastEvAggr => i \in reader.merged

\* created is set "right before saving": an aggregate is skipped by the worker
\* only if another process overtook the process that saved it.
SkippedOnlyByOvertaking ==
  throttled =>
    \A i \in DOMAIN col \ reader.merged :
      col[i].created <= reader.lastEvAggr =>
        \E j \in reader.merged :
          j < i /\ col[j].created > col[i].created /\ col[j].by # col[i].by

\* Past its update, r has put these rules into the channel's document.
SetsRules(r, rules) ==
  /\ req[r].pc \notin {"sent", "checking"}
  /\ \E i \in Updates(r) : rules = Body(r).events[i].targetingRules

\* "Only the creator can send a CLOSE & UPDATE_TARGETING", and anyone a CLOSE in
\* the withdraw period: what is recorded of them came that way, and the channel's
\* targeting rules are its spec's or those that a request of the creator set.
OnlyTheCreatorSteers ==
  /\ \A entry \in Entries :
       (Saved(entry) # {} \/ InMemory(entry) # {}) /\ Event(entry).type = "CLOSE" =>
         IsCreator(Body(entry[1])) \/ phase # "running"
  /\ channel.targetingRules # InitialRules =>
       \E r \in Requests : IsCreator(Body(r)) /\ SetsRules(r, channel.targetingRules)

\* What a request earned that was answered with success is eventually behind
\* the worker's lastEvAggr, unless its process died after the answer: inserts that
\* fail, queues and limits only delay it.
AckedIsReached ==
  \A r \in Requests :
    At(r, "ok") ~>
      \/ req[r].at = None
      \/ \A entry \in req[r].earned :
           \E i \in Saved(entry) : col[i].created <= reader.lastEvAggr

\* The worker counts the aggregates as a log, in the order in which they
\* became visible and without leaving any out, as Outpace has it.
Log == INSTANCE EventLog WITH
  Aggregates <- AggregateTypes,
  log <- [i \in DOMAIN col |-> col[i].aggr],
  counted <- reader.merged

FollowsTheLog == Log!Spec
=============================================================================
