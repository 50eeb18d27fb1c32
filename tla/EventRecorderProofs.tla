------------------------- MODULE EventRecorderProofs ------------------------
(***************************************************************************)
(* Theorems about EventRecorder, for any processes, requests, access rules  *)
(* and faults: in which order the aggregates are read; and what becomes of  *)
(* an event that a Sentry has taken, where it is kept, how often, and who   *)
(* may have sent it.                                                        *)
(***************************************************************************)
EXTENDS EventRecorder, SequenceTheorems, FiniteSetTheorems, TLAPS

\* With AGGR_THROTTLE only, the timer is armed for an aggregate that pays, an insert of a
\* process is that of its queue's head, and a request that is worked on was
\* received.
MemoryInv ==
  /\ \A p \in Processes : /\ recorder[p].armed => throttled /\ recorder[p].aggr # {}
                          /\ saving[p] # None => recorder[p].queue # <<>>
  /\ \A r \in Requests : req[r].pc \in {"checking", "updated"} => req[r].at \in Processes

TypeInv == TypeOK /\ MemoryInv

-----------------------------------------------------------------------------
(* What the helpers return.                                                 *)

LEMMA EarnedType ==
  ASSUME NEW r \in Requests, NEW rules
  PROVE  Earned(r, rules) \in SUBSET Entries
BY DEF Earned, Entries

LEMMA AggregateType ==
  ASSUME TypeInv, NEW r \in Requests, Ready(r)
  PROVE  /\ req[r].at \in Processes
         /\ Aggregate(r) \in SUBSET Entries
<1>1. req[r].at \in Processes
  BY DEF TypeInv, MemoryInv, Ready, Checked, At
<1>2. recorder[req[r].at].aggr \in SUBSET Entries
  BY <1>1 DEF TypeInv, TypeOK, RecorderTypes
<1>3. Earned(r, req[r].rules) \in SUBSET Entries
  BY EarnedType
<1> QED BY <1>1, <1>2, <1>3 DEF Aggregate

\* A later clock leaves inserts what they are.
LEMMA InsertTypesGrow ==
  ASSUME clock \in Nat, clock' \in Nat, clock <= clock'
  PROVE  InsertTypes \subseteq InsertTypes'
BY DEF InsertTypes

LEMMA NoneIsNoInsert == ASSUME clock \in Nat PROVE None \notin InsertTypes
BY RecorderAssumption DEF InsertTypes, AggregateTypes

LEMMA NewRecorderType ==
  ASSUME channel \in ChannelTypes
  PROVE  NewRecorder \in RecorderTypes
<1>1. <<>> \in Seq(AggregateTypes)
  OBVIOUS
<1> QED BY <1>1 DEF NewRecorder, RecorderTypes

\* A request that is answered stays what it is otherwise.
LEMMA AnswerType ==
  ASSUME req \in [Requests -> RequestTypes], NEW r \in Requests,
         NEW answer \in {"updated"} \cup Answered, Answer(r, answer)
  PROVE  /\ req' \in [Requests -> RequestTypes]
         /\ req'[r].pc = answer /\ req'[r].at = req[r].at
         /\ \A s \in Requests \ {r} : req'[s] = req[s]
<1> DEFINE new == [req[r] EXCEPT !.pc = answer]
<1>1. new \in RequestTypes /\ new.pc = answer /\ new.at = req[r].at
  BY DEF RequestTypes
<1>2. req' = [req EXCEPT ![r] = new]
  BY DEF Answer
<1> HIDE DEF new
<1> QED BY <1>1, <1>2

-----------------------------------------------------------------------------
(* Types.                                                                   *)

LEMMA InitTypeInv == Init => TypeInv
<1> SUFFICES ASSUME Init PROVE TypeInv
  OBVIOUS
<1> USE RecorderAssumption
<1>1. channel \in ChannelTypes
  BY DEF Init, ChannelTypes
<1>2. recorder \in [Processes -> RecorderTypes]
  BY <1>1, NewRecorderType DEF Init
<1>3. req \in [Requests -> RequestTypes]
  BY DEF Init, RequestTypes
<1>4. saving \in [Processes \cup Requests -> InsertTypes \cup {None}]
  BY DEF Init
<1>5. col \in Seq(InsertTypes)
  BY DEF Init
<1>8. /\ reader \in [lastEvAggr : 0..clock, merged : SUBSET DOMAIN col]
      /\ faults \in [FaultKinds -> 0..MaxFaults]
  BY DEF Init
<1>6. TypeOK
  BY <1>1, <1>2, <1>3, <1>4, <1>5, <1>8 DEF Init, TypeOK, Phases
<1>7. MemoryInv
  BY DEF Init, MemoryInv, NewRecorder
<1> QED BY <1>6, <1>7 DEF TypeInv

LEMMA ReceiveTypeInv ==
  ASSUME TypeInv, NEW r \in Requests, NEW p \in Processes, Receive(r, p)
  PROVE  TypeInv'
<1> USE DEF TypeInv
<1> DEFINE access == Access(Body(r), phase)
           refused == recorder[p].channel.exhausted \/ access = "refuse"
           limited == ~refused /\ access = "limit"
           asked == IF limited THEN LimitKeys(Body(r)) ELSE {}
           error == limited /\ LimitError(Body(r))
           pc == IF refused THEN "refused" ELSE "checking"
<1>1. req' = [req EXCEPT ![r].pc = pc, ![r].at = p,
                         ![r].rules = recorder[p].channel.targetingRules,
                         ![r].ask = asked, ![r].tooMany = error]
  BY DEF Receive
<1>2. asked \in SUBSET Keys /\ error \in BOOLEAN
  BY DEF Keys
<1>3. recorder[p].channel.targetingRules \in TargetingRules
  BY DEF TypeOK, RecorderTypes, ChannelTypes
<1>4. pc \in {"refused", "checking"}
  OBVIOUS
<1> HIDE DEF access, refused, limited, asked, error, pc
<1>5. req' \in [Requests -> RequestTypes]
  <2> DEFINE new == [req[r] EXCEPT !.pc = pc, !.at = p,
                       !.rules = recorder[p].channel.targetingRules,
                       !.ask = asked, !.tooMany = error]
  <2>1. req[r] \in RequestTypes
    BY DEF TypeOK
  <2>2. new \in RequestTypes
    BY <1>2, <1>3, <1>4, <2>1 DEF RequestTypes, Answered
  <2>3. req' = [req EXCEPT ![r] = new]
    BY <1>1
  <2> HIDE DEF new
  <2> QED BY <2>2, <2>3 DEF TypeOK
<1>6. TypeOK'
  BY <1>5 DEF Receive, TypeOK, db, InsertTypes
<1>7. MemoryInv'
  <2>1. req'[r].at = p /\ \A s \in Requests \ {r} : req'[s] = req[s]
    BY <1>1 DEF TypeOK, RequestTypes
  <2> QED BY <2>1 DEF Receive, MemoryInv, db
<1> QED BY <1>6, <1>7

\* The steps of a request that only change where it is.
LEMMA WaitingTypeInv ==
  ASSUME TypeInv, NEW r \in Requests,
         \/ \E key \in req[r].ask : AskLimit(r, key)
         \/ \E key \in req[r].set : SetLimit(r, key)
         \/ RefuseTooMany(r) \/ RefuseNoPayout(r) \/ RecordNothing(r)
         \/ UpdateTargeting(r)
  PROVE  TypeInv'
<1> USE DEF TypeInv
<1>1. req[r] \in RequestTypes /\ limits \subseteq Keys
  BY DEF TypeOK
<1>2. /\ req' \in [Requests -> RequestTypes]
      /\ req'[r].pc \in {"checking", "updated"} => At(r, "checking")
      /\ req'[r].at = req[r].at
      /\ \A s \in Requests \ {r} : req'[s] = req[s]
  <2>1. CASE \E key \in req[r].ask : AskLimit(r, key)
    <3>1. PICK key \in req[r].ask : AskLimit(r, key)
      BY <2>1
    <3> DEFINE set == IF key \in limits THEN req[r].set ELSE req[r].set \cup {key}
               tooMany == req[r].tooMany \/ key \in limits
               new == [req[r] EXCEPT !.ask = @ \ {key}, !.set = set, !.tooMany = tooMany]
    <3>2. key \in Keys
      BY <1>1 DEF RequestTypes
    <3>3. set \in SUBSET Keys /\ tooMany \in BOOLEAN
      BY <1>1, <3>2 DEF RequestTypes
    <3>4. req' = [req EXCEPT ![r] = new] /\ At(r, "checking")
      BY <3>1 DEF AskLimit
    <3> HIDE DEF set, tooMany
    <3>5. new \in RequestTypes /\ new.pc = req[r].pc /\ new.at = req[r].at
      BY <1>1, <3>3 DEF RequestTypes
    <3> HIDE DEF new
    <3> QED BY <3>4, <3>5 DEF TypeOK
  <2>2. CASE \E key \in req[r].set : SetLimit(r, key)
    <3>1. PICK key \in req[r].set : SetLimit(r, key)
      BY <2>2
    <3> DEFINE new == [req[r] EXCEPT !.set = @ \ {key}]
    <3>2. req' = [req EXCEPT ![r] = new] /\ At(r, "checking")
      BY <3>1 DEF SetLimit
    <3>3. new \in RequestTypes /\ new.pc = req[r].pc /\ new.at = req[r].at
      BY <1>1 DEF RequestTypes
    <3> HIDE DEF new
    <3> QED BY <3>2, <3>3 DEF TypeOK
  <2>3. CASE RefuseTooMany(r) \/ RefuseNoPayout(r) \/ RecordNothing(r)
    <3>1. PICK answer \in Answered : Answer(r, answer)
      BY <2>3 DEF RefuseTooMany, RefuseNoPayout, RecordNothing, Answered
    <3> QED BY <3>1, AnswerType DEF TypeOK, Answered
  <2>4. CASE UpdateTargeting(r)
    <3>1. Answer(r, "updated") /\ At(r, "checking")
      BY <2>4 DEF UpdateTargeting, Checked
    <3> QED BY <3>1, AnswerType DEF TypeOK
  <2> QED BY <2>1, <2>2, <2>3, <2>4
<1>3. limits' \subseteq Keys
  <2>1. CASE \E key \in req[r].set : SetLimit(r, key)
    BY <1>1, <2>1 DEF SetLimit, RequestTypes
  <2>2. CASE UNCHANGED limits
    BY <1>1, <2>2
  <2> QED BY <2>1, <2>2 DEF AskLimit, RefuseTooMany, RefuseNoPayout, RecordNothing,
                            UpdateTargeting, db
<1>4. channel' \in ChannelTypes
  <2>1. CASE UpdateTargeting(r)
    BY <2>1, RecorderAssumption DEF UpdateTargeting, Updates, TypeOK, ChannelTypes
  <2>2. CASE UNCHANGED channel
    BY <2>2 DEF TypeOK
  <2> QED BY <2>1, <2>2 DEF AskLimit, SetLimit, RefuseTooMany, RefuseNoPayout,
                            RecordNothing, db
<1>5. UNCHANGED <<throttled, phase, recorder, saving, col, clock, reader, faults>>
  BY DEF AskLimit, SetLimit, RefuseTooMany, RefuseNoPayout, RecordNothing, UpdateTargeting, db
<1>6. TypeOK'
  BY <1>2, <1>3, <1>4, <1>5 DEF TypeOK, InsertTypes
<1>7. MemoryInv'
  BY <1>2, <1>5 DEF MemoryInv, At, db
<1> QED BY <1>6, <1>7

LEMMA RecordTypeInv ==
  ASSUME TypeInv, NEW r \in Requests, RecordThrottled(r) \/ RecordAndSave(r)
  PROVE  TypeInv'
<1> USE DEF TypeInv
<1> DEFINE p == req[r].at
           aggr == Aggregate(r)
           earned == Earned(r, req[r].rules)
<1>1. Ready(r) /\ aggr # {}
  BY DEF RecordThrottled, RecordAndSave
<1>2. p \in Processes /\ aggr \in SUBSET Entries
  BY <1>1, AggregateType
<1>3. earned \in SUBSET Entries
  BY EarnedType
<1>4. recorder[p] \in RecorderTypes /\ req[r] \in RequestTypes
  BY <1>2 DEF TypeOK
<1>5. CASE RecordThrottled(r)
  <2> DEFINE newRecorder == [recorder[p] EXCEPT !.aggr = aggr, !.armed = TRUE]
             newReq == [req[r] EXCEPT !.pc = "ok", !.earned = earned]
  <2>1. /\ recorder' = [recorder EXCEPT ![p] = newRecorder]
        /\ req' = [req EXCEPT ![r] = newReq]
        /\ UNCHANGED <<db, saving, col, clock, reader, faults>>
    BY <1>5 DEF RecordThrottled
  <2> HIDE DEF p, aggr, earned
  <2>2. newRecorder \in RecorderTypes /\ newRecorder.aggr = aggr /\ newRecorder.queue = recorder[p].queue
    BY <1>2, <1>4 DEF RecorderTypes
  <2>3. newReq \in RequestTypes /\ newReq.pc = "ok"
    BY <1>3, <1>4 DEF RequestTypes, Answered
  <2> HIDE DEF newRecorder, newReq
  <2>4. TypeOK'
    BY <2>1, <2>2, <2>3 DEF TypeOK, db, InsertTypes
  <2>5. MemoryInv'
    BY <1>1, <1>5, <2>1, <2>2, <2>3 DEF MemoryInv, TypeOK, RecordThrottled, db
  <2> QED BY <2>4, <2>5
<1>6. CASE RecordAndSave(r)
  <2> DEFINE newRecorder == [recorder[p] EXCEPT !.aggr = {}]
             newReq == [req[r] EXCEPT !.pc = "saving", !.earned = earned]
             insert == Insert(p, aggr)
  <2>1. /\ recorder' = [recorder EXCEPT ![p] = newRecorder]
        /\ req' = [req EXCEPT ![r] = newReq]
        /\ saving' = [saving EXCEPT ![r] = insert]
        /\ clock' = clock + 1
        /\ UNCHANGED <<db, col, reader, faults>>
    BY <1>6 DEF RecordAndSave
  <2> HIDE DEF p, aggr, earned
  <2>2. newRecorder \in RecorderTypes
    BY <1>2, <1>4 DEF RecorderTypes
  <2>3. newReq \in RequestTypes /\ newReq.pc = "saving"
    BY <1>3, <1>4 DEF RequestTypes, Answered
  <2>4. clock \in Nat /\ clock' \in Nat /\ clock <= clock'
    BY <2>1 DEF TypeOK
  <2>5. insert \in InsertTypes'
    BY <1>1, <1>2, <2>1, <2>4 DEF Insert, InsertTypes, AggregateTypes
  <2> HIDE DEF newReq, insert
  <2>6. saving' \in [Processes \cup Requests -> InsertTypes' \cup {None}]
    BY <2>1, <2>4, <2>5, InsertTypesGrow DEF TypeOK
  <2>7. col' \in Seq(InsertTypes')
    BY <2>1, <2>4, InsertTypesGrow DEF TypeOK
  <2>8. TypeOK'
    <3> HIDE DEF newRecorder
    <3>1. reader' \in [lastEvAggr : 0..clock', merged : SUBSET DOMAIN col']
      BY <2>1, <2>4 DEF TypeOK
    <3>2. recorder' \in [Processes -> RecorderTypes] /\ req' \in [Requests -> RequestTypes]
      BY <2>1, <2>2, <2>3 DEF TypeOK
    <3> QED BY <2>1, <2>4, <2>6, <2>7, <3>1, <3>2 DEF TypeOK, db
  <2>9. newRecorder.armed = recorder[p].armed /\ newRecorder.queue = recorder[p].queue
    BY <1>4 DEF RecorderTypes
  <2>10. r \notin Processes /\ ~throttled
    BY <1>6, RecorderAssumption DEF RecordAndSave
  <2>11. MemoryInv'
    <3> HIDE DEF newRecorder
    <3> QED BY <2>1, <2>3, <2>9, <2>10 DEF MemoryInv, TypeOK, db
  <2> QED BY <2>8, <2>11
<1> QED BY <1>5, <1>6

LEMMA QueueType ==
  ASSUME TypeInv, NEW p \in Processes
  PROVE  LET queue == recorder[p].queue IN
         /\ recorder[p] \in RecorderTypes /\ queue \in Seq(AggregateTypes)
         /\ queue # <<>> => /\ Head(queue) \in AggregateTypes
                            /\ Tail(queue) \in Seq(AggregateTypes)
                            /\ Append(Tail(queue), Head(queue)) \in Seq(AggregateTypes)
                            /\ Append(Tail(queue), Head(queue)) # <<>>
<1> DEFINE queue == recorder[p].queue
<1>1. recorder[p] \in RecorderTypes /\ queue \in Seq(AggregateTypes)
  BY DEF TypeInv, TypeOK, RecorderTypes
<1>2. ASSUME queue # <<>>
      PROVE  Head(queue) \in AggregateTypes /\ Tail(queue) \in Seq(AggregateTypes)
  BY <1>1, <1>2, HeadTailProperties
<1>3. ASSUME queue # <<>>
      PROVE  /\ Append(Tail(queue), Head(queue)) \in Seq(AggregateTypes)
             /\ Append(Tail(queue), Head(queue)) # <<>>
  BY <1>2, <1>3, AppendProperties
<1> QED BY <1>1, <1>2, <1>3

LEMMA ProcessTypeInv ==
  ASSUME TypeInv, NEW p \in Processes, Throttle(p) \/ StartSaving(p) \/ RefreshChannel(p)
  PROVE  TypeInv'
<1> USE DEF TypeInv
<1> DEFINE queue == recorder[p].queue
<1>1. recorder[p] \in RecorderTypes /\ queue \in Seq(AggregateTypes)
  BY QueueType
<1>2. CASE Throttle(p)
  <2> DEFINE aggr == recorder[p].aggr
             new == [recorder[p] EXCEPT !.queue = Append(queue, aggr), !.aggr = {}, !.armed = FALSE]
  <2>1. recorder' = [recorder EXCEPT ![p] = new]
    BY <1>2 DEF Throttle, PersistAndReset
  <2>2. aggr \in AggregateTypes
    BY <1>1, <1>2 DEF Throttle, MemoryInv, RecorderTypes, AggregateTypes
  <2>3. Append(queue, aggr) \in Seq(AggregateTypes) /\ Append(queue, aggr) # <<>>
    BY <1>1, <2>2, AppendProperties
  <2>4. new \in RecorderTypes /\ new.queue # <<>> /\ ~new.armed
    BY <1>1, <2>3 DEF RecorderTypes
  <2> HIDE DEF new
  <2>5. TypeOK'
    BY <1>2, <2>1, <2>4 DEF Throttle, TypeOK, db, InsertTypes
  <2>6. MemoryInv'
    BY <1>2, <2>1, <2>4 DEF Throttle, MemoryInv, TypeOK, db
  <2> QED BY <2>5, <2>6
<1>3. CASE StartSaving(p)
  <2> DEFINE insert == Insert(p, Head(queue))
  <2>1. /\ saving' = [saving EXCEPT ![p] = insert]
        /\ queue # <<>> /\ clock' = clock + 1
        /\ UNCHANGED <<db, memory, col, reader, faults>>
    BY <1>3 DEF StartSaving
  <2>2. clock \in Nat /\ clock' \in Nat /\ clock <= clock'
    BY <2>1 DEF TypeOK
  <2>3. Head(queue) \in AggregateTypes
    BY <2>1, QueueType
  <2>4. insert \in InsertTypes'
    BY <2>1, <2>2, <2>3 DEF Insert, InsertTypes
  <2> HIDE DEF insert
  <2>5. saving' \in [Processes \cup Requests -> InsertTypes' \cup {None}]
    BY <2>1, <2>2, <2>4, InsertTypesGrow DEF TypeOK
  <2>6. col' \in Seq(InsertTypes') /\ reader' \in [lastEvAggr : 0..clock', merged : SUBSET DOMAIN col']
    <3>1. col' \in Seq(InsertTypes')
      BY <2>1, <2>2, InsertTypesGrow DEF TypeOK
    <3>2. reader' \in [lastEvAggr : 0..clock', merged : SUBSET DOMAIN col']
      BY <2>1, <2>2 DEF TypeOK
    <3> QED BY <3>1, <3>2
  <2>7. TypeOK'
    BY <2>1, <2>2, <2>5, <2>6 DEF TypeOK, db, memory
  <2>8. MemoryInv'
    BY <2>1 DEF MemoryInv, TypeOK, db, memory
  <2> QED BY <2>7, <2>8
<1>4. CASE RefreshChannel(p)
  <2> DEFINE new == [recorder[p] EXCEPT !.channel = channel]
  <2>1. recorder' = [recorder EXCEPT ![p] = new]
    BY <1>4 DEF RefreshChannel
  <2>2. /\ new \in RecorderTypes /\ new.queue = queue
        /\ new.armed = recorder[p].armed /\ new.aggr = recorder[p].aggr
    BY <1>1 DEF RecorderTypes, TypeOK
  <2> HIDE DEF new
  <2>3. TypeOK'
    BY <1>4, <2>1, <2>2 DEF RefreshChannel, TypeOK, db, InsertTypes
  <2>4. MemoryInv'
    BY <1>4, <2>1, <2>2 DEF RefreshChannel, MemoryInv, TypeOK, db
  <2> QED BY <2>3, <2>4
<1> QED BY <1>2, <1>3, <1>4

\* The end of an insert of o: what is visible and what is under way keep their
\* types, whatever became of it.
LEMMA ColumnType ==
  ASSUME TypeInv, NEW o \in Processes \cup Requests, saving[o] # None, UNCHANGED clock,
         UNCHANGED col \/ col' = Append(col, saving[o])
  PROVE  /\ saving[o] \in InsertTypes
         /\ col' \in Seq(InsertTypes') /\ DOMAIN col \subseteq DOMAIN col'
<1>1. InsertTypes' = InsertTypes
  BY DEF InsertTypes
<1>2. saving[o] \in InsertTypes /\ col \in Seq(InsertTypes)
  BY DEF TypeInv, TypeOK
<1>3. CASE col' = Append(col, saving[o])
  <2>1. Append(col, saving[o]) \in Seq(InsertTypes) /\ Len(Append(col, saving[o])) = Len(col) + 1
    BY <1>2, AppendProperties
  <2>2. DOMAIN col = 1..Len(col) /\ DOMAIN col' = 1..Len(col') /\ Len(col) \in Nat
    BY <1>2, <1>3, <2>1
  <2> QED BY <1>1, <1>2, <1>3, <2>1, <2>2
<1> QED BY <1>1, <1>2, <1>3

\* What follows an insert of o, for its queue or for its request.
LEMMA OwnerType ==
  ASSUME TypeInv, NEW o \in Processes \cup Requests, saving[o] # None,
         FinishSaving(o) \/ RetryFailed(o),
         saving' = [saving EXCEPT ![o] = None], UNCHANGED throttled
  PROVE  /\ recorder' \in [Processes -> RecorderTypes]
         /\ req' \in [Requests -> RequestTypes]
         /\ MemoryInv'
<1> USE DEF TypeInv
<1>1. CASE o \in Processes
  <2> DEFINE queue == recorder[o].queue
  <2>1. recorder[o] \in RecorderTypes /\ queue # <<>>
    BY <1>1, QueueType DEF MemoryInv
  <2>2. PICK rest \in Seq(AggregateTypes) :
          UNCHANGED req /\ recorder' = [recorder EXCEPT ![o].queue = rest]
    BY <1>1, <2>1, QueueType DEF FinishSaving, RetryFailed
  <2> DEFINE new == [recorder[o] EXCEPT !.queue = rest]
  <2>3. recorder' = [recorder EXCEPT ![o] = new]
    BY <2>2
  <2>4. new \in RecorderTypes /\ new.armed = recorder[o].armed /\ new.aggr = recorder[o].aggr
    BY <2>1 DEF RecorderTypes
  <2> HIDE DEF new
  <2> QED BY <1>1, <2>2, <2>3, <2>4 DEF TypeOK, MemoryInv
<1>2. CASE o \notin Processes
  <2>1. o \in Requests /\ UNCHANGED recorder /\ \E answer \in Answered : Answer(o, answer)
    BY <1>2 DEF FinishSaving, RetryFailed, Answered
  <2>2. PICK answer \in Answered : Answer(o, answer)
    BY <2>1
  <2>3. /\ req' \in [Requests -> RequestTypes] /\ req'[o].pc = answer
        /\ \A s \in Requests \ {o} : req'[s] = req[s]
    BY <2>1, <2>2, AnswerType DEF TypeOK
  <2>4. \A p \in Processes : saving'[p] = saving[p]
    BY <1>2 DEF TypeOK
  <2> QED BY <2>1, <2>2, <2>3, <2>4 DEF TypeOK, MemoryInv, Answered
<1> QED BY <1>1, <1>2

LEMMA FaultType ==
  ASSUME TypeOK, NEW kind, Fault(kind)
  PROVE  faults' \in [FaultKinds -> 0..MaxFaults]
<1>1. /\ faults["failed"] \in Nat /\ faults["unconfirmed"] \in Nat /\ faults["crash"] \in Nat
      /\ MaxFaults \in Nat
  BY RecorderAssumption DEF TypeOK, FaultKinds
<1>2. kind \in {"failed", "unconfirmed", "crash"}
  BY RecorderAssumption DEF Fault, FaultKinds
<1>3. faults[kind] + 1 \in 0..MaxFaults
  BY <1>1, <1>2 DEF Fault
<1> QED BY <1>2, <1>3 DEF Fault, TypeOK

LEMMA SaveTypeInv ==
  ASSUME TypeInv, NEW o \in Processes \cup Requests, Save(o) \/ FailToSave(o)
  PROVE  TypeInv'
<1> USE DEF TypeInv
<1>1. /\ saving[o] # None /\ saving' = [saving EXCEPT ![o] = None]
      /\ FinishSaving(o) \/ RetryFailed(o)
      /\ UNCHANGED col \/ col' = Append(col, saving[o])
      /\ UNCHANGED <<throttled, channel, phase, limits, clock, reader>>
  BY DEF Save, FailToSave, db
<1>2. faults' \in [FaultKinds -> 0..MaxFaults]
  BY FaultType DEF Save, FailToSave, TypeOK
<1>3. /\ recorder' \in [Processes -> RecorderTypes] /\ req' \in [Requests -> RequestTypes]
      /\ MemoryInv'
  BY <1>1, OwnerType
<1>4. col' \in Seq(InsertTypes') /\ DOMAIN col \subseteq DOMAIN col'
  BY <1>1, ColumnType
<1>5. saving' \in [Processes \cup Requests -> InsertTypes' \cup {None}]
  BY <1>1 DEF TypeOK, InsertTypes
<1>6. reader' \in [lastEvAggr : 0..clock', merged : SUBSET DOMAIN col']
  BY <1>1, <1>4 DEF TypeOK
<1> QED BY <1>1, <1>2, <1>3, <1>4, <1>5, <1>6 DEF TypeOK

\* What a death leaves of the requests.
LEMMA CrashIs ==
  ASSUME req \in [Requests -> RequestTypes], NEW p \in Processes, Crash(p)
  PROVE  /\ req' \in [Requests -> RequestTypes]
         /\ \A r \in Requests : req[r].at # p => req'[r] = req[r]
         /\ \A r \in Requests : req[r].at = p =>
              /\ req'[r].at = None /\ req'[r].earned = req[r].earned
              /\ req'[r].pc = IF req[r].pc \in Answered THEN req[r].pc ELSE "error"
<1> DEFINE left(r) == [req[r] EXCEPT !.at = None,
                                     !.pc = IF @ \in Answered THEN @ ELSE "error"]
<1>1. req' = [r \in Requests |-> IF req[r].at # p THEN req[r] ELSE left(r)]
  BY DEF Crash
<1>2. ASSUME NEW r \in Requests
      PROVE  /\ left(r) \in RequestTypes /\ left(r).at = None /\ left(r).earned = req[r].earned
             /\ left(r).pc = IF req[r].pc \in Answered THEN req[r].pc ELSE "error"
  <2>1. req[r] \in RequestTypes
    OBVIOUS
  <2> QED BY <2>1 DEF RequestTypes, Answered
<1> HIDE DEF left
<1> QED BY <1>1, <1>2

LEMMA CrashTypeInv == ASSUME TypeInv, NEW p \in Processes, Crash(p) PROVE TypeInv'
<1> USE DEF TypeInv
<1> DEFINE waiting == {r \in Requests : req[r].at = p /\ req[r].pc \notin Answered}
           ours == {o \in {p} \cup waiting : saving[o] # None}
<1>1. /\ Fault("crash")
      /\ recorder' = [recorder EXCEPT ![p] = NewRecorder]
      /\ saving' = [o \in DOMAIN saving |-> IF o \in ours THEN None ELSE saving[o]]
      /\ UNCHANGED col \/ \E o \in ours : col' = Append(col, saving[o])
      /\ UNCHANGED <<db, clock, reader>>
  BY DEF Crash
<1>2. faults' \in [FaultKinds -> 0..MaxFaults]
  BY <1>1, FaultType DEF TypeOK
<1>3. recorder' \in [Processes -> RecorderTypes]
  BY <1>1, NewRecorderType DEF TypeOK
<1>4. req' \in [Requests -> RequestTypes]
  <2> HIDE DEF waiting, ours
  <2> QED BY CrashIs DEF TypeOK
<1>5. saving' \in [Processes \cup Requests -> InsertTypes' \cup {None}]
  <2> HIDE DEF ours
  <2> QED BY <1>1 DEF TypeOK, InsertTypes
<1>6. col' \in Seq(InsertTypes') /\ DOMAIN col \subseteq DOMAIN col'
  <2>1. ours \subseteq {o \in Processes \cup Requests : saving[o] # None}
    OBVIOUS
  <2> HIDE DEF ours
  <2>2. CASE UNCHANGED col
    BY <1>1, <2>2 DEF TypeOK, InsertTypes
  <2>3. CASE \E o \in ours : col' = Append(col, saving[o])
    <3>1. PICK o \in ours : col' = Append(col, saving[o])
      BY <2>3
    <3> QED BY <1>1, <2>1, <3>1, ColumnType
  <2> QED BY <1>1, <2>2, <2>3
<1>7. reader' \in [lastEvAggr : 0..clock', merged : SUBSET DOMAIN col']
  BY <1>1, <1>6 DEF TypeOK
<1>8. TypeOK'
  BY <1>1, <1>2, <1>3, <1>4, <1>5, <1>6, <1>7 DEF TypeOK, db
<1>9. MemoryInv'
  <2>1. ~recorder'[p].armed /\ saving'[p] = None
    BY <1>1 DEF NewRecorder, TypeOK
  <2>2. \A q \in Processes \ {p} : recorder'[q] = recorder[q] /\ saving'[q] \in {None, saving[q]}
    BY <1>1 DEF TypeOK
  <2>3. \A r \in Requests : req'[r].pc \in {"checking", "updated"} => req'[r] = req[r]
    <3> HIDE DEF waiting, ours
    <3> QED BY CrashIs DEF TypeOK, Answered
  <2> HIDE DEF waiting, ours
  <2> QED BY <1>1, <2>1, <2>2, <2>3 DEF MemoryInv, db
<1> QED BY <1>8, <1>9

LEMMA RestTypeInv ==
  ASSUME TypeInv,
         \/ Merge \/ Exhaust \/ PassTime \/ \E key \in limits : ExpireLimit(key)
         \/ UNCHANGED vars
  PROVE  TypeInv'
<1> USE DEF TypeInv
<1>1. UNCHANGED <<throttled, recorder, req, saving, col, clock, faults>>
  BY DEF Merge, Exhaust, PassTime, ExpireLimit, vars, db, memory
<1>2. reader' \in [lastEvAggr : 0..clock, merged : SUBSET DOMAIN col]
  <2>1. CASE Merge
    <3>1. PICK batch \in SUBSET NewAggrs :
            \E last \in batch :
              reader' = [lastEvAggr |-> col[last].created, merged |-> reader.merged \cup batch]
      BY <2>1 DEF Merge
    <3>2. PICK last \in batch :
            reader' = [lastEvAggr |-> col[last].created, merged |-> reader.merged \cup batch]
      BY <3>1
    <3>3. batch \subseteq DOMAIN col /\ last \in DOMAIN col
      BY DEF NewAggrs
    <3>4. col[last].created \in 0..clock
      <4>1. col[last] \in InsertTypes
        BY <3>3, ElementOfSeq DEF TypeOK
      <4> QED BY <4>1 DEF InsertTypes
    <3> QED BY <3>2, <3>3, <3>4 DEF TypeOK
  <2>2. CASE UNCHANGED reader
    BY <2>2 DEF TypeOK
  <2> QED BY <2>1, <2>2 DEF Exhaust, PassTime, ExpireLimit, vars
<1>3. channel' \in ChannelTypes /\ phase' \in Phases /\ limits' \subseteq Keys
  BY DEF Merge, Exhaust, PassTime, ExpireLimit, vars, db, TypeOK, ChannelTypes, Phases
<1>4. TypeOK'
  BY <1>1, <1>2, <1>3 DEF TypeOK, InsertTypes
<1>5. MemoryInv'
  BY <1>1 DEF MemoryInv
<1> QED BY <1>4, <1>5

LEMMA NextTypeInv == TypeInv /\ [Next]_vars => TypeInv'
<1> SUFFICES ASSUME TypeInv, [Next]_vars PROVE TypeInv'
  OBVIOUS
<1>1. CASE \E r \in Requests, p \in Processes : Receive(r, p)
  BY <1>1, ReceiveTypeInv
<1>2. CASE \E r \in Requests : RequestStep(r)
  BY <1>2, WaitingTypeInv, RecordTypeInv DEF RequestStep
<1>3. CASE \E p \in Processes : Throttle(p) \/ StartSaving(p) \/ RefreshChannel(p) \/ Crash(p)
  BY <1>3, ProcessTypeInv, CrashTypeInv
<1>4. CASE \E o \in Processes \cup Requests : Save(o) \/ FailToSave(o)
  BY <1>4, SaveTypeInv
<1>5. CASE \/ Merge \/ Exhaust \/ PassTime \/ \E key \in limits : ExpireLimit(key)
           \/ UNCHANGED vars
  BY <1>5, RestTypeInv
<1> QED BY <1>1, <1>2, <1>3, <1>4, <1>5 DEF Next

LEMMA RecorderInvariant == Spec => []TypeInv
<1> QED BY InitTypeInv, NextTypeInv, PTL DEF Spec

\* Sentry's processes, its channel's document, Redis and the worker hold what the
\* code puts there, with any number of requests and faults: no aggregate that
\* pays nobody is ever saved, and no  created  lies in the future.
THEOREM RecorderTypeCorrect == Spec => []TypeOK
<1> QED BY RecorderInvariant, PTL DEF TypeInv

-----------------------------------------------------------------------------
(* The order of what is saved and what is read.                             *)

Owners == Processes \cup Requests

\* Every insert has a  created  of its own.
DistinctInv ==
  /\ \A i, j \in DOMAIN col : i # j => col[i].created # col[j].created
  /\ \A o \in Owners : saving[o] # None =>
       /\ \A i \in DOMAIN col : col[i].created # saving[o].created
       /\ \A a \in Owners \ {o} : saving[a] # None => saving[a].created # saving[o].created

\* The queue of a process saves its aggregates one after another.
QueueInv ==
  /\ \A r \in Requests : saving[r] = None
  /\ \A p \in Processes : saving[p] # None =>
       /\ saving[p].by = p
       /\ \A i \in DOMAIN col : col[i].by = p => col[i].created < saving[p].created
  /\ \A i, j \in DOMAIN col : i < j /\ col[i].by = col[j].by => col[i].created < col[j].created

\* lastEvAggr is the newest  created  that the worker has merged.
ReaderInv ==
  /\ \A i \in reader.merged : col[i].created <= reader.lastEvAggr
  /\ \/ \E i \in reader.merged : col[i].created = reader.lastEvAggr
     \/ reader.lastEvAggr = 0

OrderInv ==
  /\ TypeInv
  /\ DistinctInv
  /\ throttled => QueueInv
  /\ ReaderInv
  /\ SkippedOnlyByOvertaking

LEMMA CreatedType ==
  ASSUME TypeOK
  PROVE  /\ clock \in Nat /\ reader.lastEvAggr \in 0..clock /\ reader.merged \subseteq DOMAIN col
         /\ DOMAIN col = 1..Len(col) /\ Len(col) \in Nat
         /\ \A i \in DOMAIN col : col[i].created \in 1..clock /\ col[i].by \in Processes
         /\ \A o \in Owners : saving[o] # None =>
              saving[o].created \in 1..clock /\ saving[o].by \in Processes
<1>1. /\ clock \in Nat /\ reader.lastEvAggr \in 0..clock /\ reader.merged \subseteq DOMAIN col
      /\ DOMAIN col = 1..Len(col) /\ Len(col) \in Nat
  BY DEF TypeOK
<1>2. \A i \in DOMAIN col : col[i] \in InsertTypes
  BY <1>1, ElementOfSeq DEF TypeOK
<1>3. \A o \in Owners : saving[o] # None => saving[o] \in InsertTypes
  BY DEF TypeOK, Owners
<1> QED BY <1>1, <1>2, <1>3 DEF InsertTypes

\* An insert starts.
LEMMA BeginOrder ==
  ASSUME OrderInv, TypeInv', NEW o \in Owners, NEW p \in Processes, NEW aggr,
         saving' = [saving EXCEPT ![o] = Insert(p, aggr)], throttled => o = p,
         UNCHANGED <<throttled, col, reader>>
  PROVE  OrderInv'
<1>1. /\ saving'[o].by = p /\ saving'[o].created = clock + 1
      /\ \A a \in Owners \ {o} : saving'[a] = saving[a]
  BY DEF Insert, OrderInv, TypeInv, TypeOK, Owners
<1>2. /\ clock \in Nat
      /\ \A i \in DOMAIN col : col[i].created \in 1..clock
      /\ \A a \in Owners : saving[a] # None => saving[a].created \in 1..clock
  BY CreatedType DEF OrderInv, TypeInv
<1>3. DistinctInv'
  BY <1>1, <1>2 DEF OrderInv, DistinctInv
<1>4. (throttled => QueueInv)'
  BY <1>1, <1>2, RecorderAssumption DEF OrderInv, QueueInv, Owners
<1>5. ReaderInv' /\ SkippedOnlyByOvertaking'
  BY DEF OrderInv, ReaderInv, SkippedOnlyByOvertaking
<1> QED BY <1>3, <1>4, <1>5 DEF OrderInv

\* Inserts end, and none of them becomes visible.
LEMMA FailOrder ==
  ASSUME OrderInv, TypeInv', UNCHANGED <<throttled, col, reader>>,
         \A a \in Owners : saving'[a] \in {None, saving[a]}
  PROVE  OrderInv'
<1>1. DistinctInv'
  BY DEF OrderInv, DistinctInv
<1>2. (throttled => QueueInv)'
  BY DEF OrderInv, QueueInv, Owners
<1>3. ReaderInv' /\ SkippedOnlyByOvertaking'
  BY DEF OrderInv, ReaderInv, SkippedOnlyByOvertaking
<1> QED BY <1>1, <1>2, <1>3 DEF OrderInv

\* Inserts end, and that of o becomes visible.  If the worker is past it
\* already, what it read last was saved by another process.
LEMMA EndOrder ==
  ASSUME OrderInv, TypeInv', UNCHANGED <<throttled, reader>>,
         NEW o \in Owners, saving[o] # None, col' = Append(col, saving[o]), saving'[o] = None,
         \A a \in Owners : saving'[a] \in {None, saving[a]}
  PROVE  OrderInv'
<1> DEFINE n == Len(col) + 1
<1>1. /\ reader.lastEvAggr \in Nat /\ reader.merged \subseteq DOMAIN col
      /\ \A i \in DOMAIN col : col[i].created \in Nat /\ col[i].by \in Processes
      /\ saving[o].created \in Nat \ {0}
      /\ DOMAIN col = 1..Len(col) /\ Len(col) \in Nat
  BY CreatedType DEF OrderInv, TypeInv
<1>2. /\ DOMAIN col' = DOMAIN col \cup {n} /\ n \notin DOMAIN col
      /\ \A i \in DOMAIN col : col'[i] = col[i] /\ i < n /\ ~(n < i)
      /\ col'[n] = saving[o]
  <2>1. col \in Seq(InsertTypes) /\ saving[o] \in InsertTypes
    BY DEF OrderInv, TypeInv, TypeOK, Owners
  <2> QED BY <1>1, <2>1, AppendProperties
<1> HIDE DEF n
<1>3. DistinctInv'
  BY <1>2 DEF OrderInv, DistinctInv
<1>4. ASSUME throttled PROVE o \in Processes /\ saving[o].by = o
  BY <1>4 DEF OrderInv, QueueInv, Owners
<1>5. (throttled => QueueInv)'
  BY <1>2, <1>4, RecorderAssumption DEF OrderInv, QueueInv, Owners
<1>6. ReaderInv'
  BY <1>1, <1>2 DEF OrderInv, ReaderInv
<1>7. SkippedOnlyByOvertaking'
  <2> SUFFICES ASSUME throttled, NEW i \in DOMAIN col' \ reader.merged,
                      col'[i].created <= reader.lastEvAggr
               PROVE  \E j \in reader.merged :
                        j < i /\ col'[j].created > col'[i].created /\ col'[j].by # col'[i].by
    BY DEF SkippedOnlyByOvertaking
  <2>1. CASE i \in DOMAIN col
    BY <1>1, <1>2, <2>1 DEF OrderInv, SkippedOnlyByOvertaking
  <2>2. CASE i = n
    <3>1. PICK j \in reader.merged : col[j].created = reader.lastEvAggr
      BY <1>1, <1>2, <2>2 DEF OrderInv, ReaderInv
    <3>2. col[j].created > saving[o].created
      BY <1>1, <1>2, <2>2, <3>1 DEF OrderInv, DistinctInv
    <3>3. col[j].by # saving[o].by
      BY <1>1, <1>4, <3>2 DEF OrderInv, QueueInv
    <3> QED BY <1>1, <1>2, <2>2, <3>2, <3>3
  <2> QED BY <1>2, <2>1, <2>2
<1> QED BY <1>3, <1>5, <1>6, <1>7 DEF OrderInv

\* The worker reads on, in the order of  created : what it leaves for later is
\* newer than what it reads.
LEMMA MergeOrder == ASSUME OrderInv, TypeInv', Merge PROVE OrderInv'
<1>1. PICK batch \in SUBSET NewAggrs :
        /\ \A i \in batch, j \in NewAggrs \ batch : col[i].created <= col[j].created
        /\ \E last \in batch :
             /\ \A i \in batch : col[i].created <= col[last].created
             /\ reader' = [lastEvAggr |-> col[last].created, merged |-> reader.merged \cup batch]
  BY DEF Merge
<1>2. PICK last \in batch :
        /\ \A i \in batch : col[i].created <= col[last].created
        /\ reader' = [lastEvAggr |-> col[last].created, merged |-> reader.merged \cup batch]
  BY <1>1
<1>3. /\ reader'.lastEvAggr = col[last].created /\ reader'.merged = reader.merged \cup batch
      /\ UNCHANGED <<throttled, saving, col>>
  BY <1>2 DEF Merge, db
<1>4. /\ reader.lastEvAggr \in Nat /\ reader.merged \subseteq DOMAIN col
      /\ \A i \in DOMAIN col : col[i].created \in Nat
  BY CreatedType DEF OrderInv, TypeInv
<1>5. batch \subseteq DOMAIN col /\ \A i \in batch : reader.lastEvAggr < col[i].created
  BY <1>4 DEF NewAggrs
<1>6. DistinctInv' /\ (throttled => QueueInv)'
  BY <1>3 DEF OrderInv, DistinctInv, QueueInv
<1>7. ReaderInv'
  BY <1>2, <1>3, <1>4, <1>5 DEF OrderInv, ReaderInv
<1>8. \A i \in DOMAIN col \ reader'.merged :
        col[i].created <= reader'.lastEvAggr => col[i].created <= reader.lastEvAggr
  BY <1>1, <1>3, <1>4, <1>5 DEF NewAggrs, OrderInv, DistinctInv
<1>9. SkippedOnlyByOvertaking'
  BY <1>3, <1>4, <1>8 DEF OrderInv, SkippedOnlyByOvertaking
<1> QED BY <1>6, <1>7, <1>9 DEF OrderInv

LEMMA InitOrder == Init => OrderInv
<1> SUFFICES ASSUME Init PROVE OrderInv
  OBVIOUS
<1>1. TypeInv /\ DOMAIN col = {} /\ reader.lastEvAggr = 0 /\ reader.merged = {}
  BY InitTypeInv DEF Init
<1>2. \A o \in Owners : saving[o] = None
  BY DEF Init, Owners
<1> QED BY <1>1, <1>2 DEF OrderInv, DistinctInv, QueueInv, ReaderInv, SkippedOnlyByOvertaking, Owners

\* The steps that inserts and the worker take, and all others.
LEMMA InsertSteps ==
  ASSUME [Next]_vars
  PROVE  \/ UNCHANGED <<throttled, saving, col, reader>>
         \/ \E r \in Requests : RecordAndSave(r)
         \/ \E p \in Processes : StartSaving(p) \/ Crash(p)
         \/ \E o \in Owners : Save(o) \/ FailToSave(o)
         \/ Merge
<1>1. CASE \E r \in Requests, p \in Processes : Receive(r, p)
  BY <1>1 DEF Receive, db
<1>2. CASE \E r \in Requests : RequestStep(r)
  <2>1. PICK r \in Requests : RequestStep(r)
    BY <1>2
  <2>2. RecordAndSave(r) \/ UNCHANGED <<throttled, saving, col, reader>>
    BY <2>1 DEF RequestStep, AskLimit, SetLimit, RefuseTooMany, UpdateTargeting, RefuseNoPayout,
                RecordNothing, RecordThrottled, db
  <2> QED BY <2>2
<1>3. CASE \E p \in Processes : Throttle(p) \/ RefreshChannel(p)
  BY <1>3 DEF Throttle, RefreshChannel, db
<1>4. CASE Exhaust \/ PassTime \/ (\E key \in limits : ExpireLimit(key)) \/ UNCHANGED vars
  BY <1>4 DEF Exhaust, PassTime, ExpireLimit, vars
<1> QED BY <1>1, <1>2, <1>3, <1>4 DEF Next, Owners

LEMMA NextOrder == OrderInv /\ [Next]_vars => OrderInv'
<1> SUFFICES ASSUME OrderInv, [Next]_vars PROVE OrderInv'
  OBVIOUS
<1>1. TypeInv'
  BY NextTypeInv DEF OrderInv
<1>2. CASE UNCHANGED <<throttled, saving, col, reader>>
  BY <1>1, <1>2, FailOrder
<1>3. CASE \E r \in Requests : RecordAndSave(r)
  <2>1. PICK r \in Requests : RecordAndSave(r)
    BY <1>3
  <2>2. req[r].at \in Processes
    BY <2>1, AggregateType DEF RecordAndSave, OrderInv
  <2> QED BY <1>1, <2>1, <2>2, BeginOrder DEF RecordAndSave, db, Owners
<1>4. CASE \E p \in Processes : StartSaving(p)
  <2>1. PICK p \in Processes : StartSaving(p)
    BY <1>4
  <2> QED BY <1>1, <2>1, BeginOrder DEF StartSaving, db, Owners
<1>5. CASE \E o \in Owners : Save(o) \/ FailToSave(o)
  <2>1. PICK o \in Owners : Save(o) \/ FailToSave(o)
    BY <1>5
  <2>2. /\ saving[o] # None /\ saving' = [saving EXCEPT ![o] = None]
        /\ UNCHANGED col \/ col' = Append(col, saving[o])
        /\ UNCHANGED <<throttled, reader>>
    BY <2>1 DEF Save, FailToSave, db
  <2>3. saving'[o] = None /\ \A a \in Owners : saving'[a] \in {None, saving[a]}
    BY <2>2 DEF OrderInv, TypeInv, TypeOK, Owners
  <2> QED BY <1>1, <2>2, <2>3, EndOrder, FailOrder
<1>6. CASE \E p \in Processes : Crash(p)
  <2>1. PICK p \in Processes : Crash(p)
    BY <1>6
  <2> DEFINE waiting == {r \in Requests : req[r].at = p /\ req[r].pc \notin Answered}
             ours == {o \in {p} \cup waiting : saving[o] # None}
  <2>2. /\ saving' = [o \in DOMAIN saving |-> IF o \in ours THEN None ELSE saving[o]]
        /\ UNCHANGED col \/ \E o \in ours : col' = Append(col, saving[o])
        /\ UNCHANGED <<throttled, reader>>
    BY <2>1 DEF Crash, db
  <2>3. \A o \in ours : o \in Owners /\ saving[o] # None
    BY DEF Owners
  <2> HIDE DEF ours
  <2>4. /\ \A o \in ours : saving'[o] = None
        /\ \A a \in Owners : saving'[a] \in {None, saving[a]}
    BY <2>2, <2>3 DEF OrderInv, TypeInv, TypeOK, Owners
  <2> QED BY <1>1, <2>2, <2>3, <2>4, EndOrder, FailOrder
<1>7. CASE Merge
  BY <1>1, <1>7, MergeOrder
<1> QED BY <1>2, <1>3, <1>4, <1>5, <1>6, <1>7, InsertSteps

LEMMA OrderInvariant == Spec => []OrderInv
<1> QED BY InitOrder, NextOrder, PTL DEF Spec

\* With AGGR_THROTTLE, whatever fails or dies, the worker leaves out an aggregate
\* only if another process overtook the one that saved it:  created  is taken
\* when the insert starts, and a process has one insert under way.
THEOREM OvertakingOnly == Spec => []SkippedOnlyByOvertaking
<1> QED BY OrderInvariant, PTL DEF OrderInv

-----------------------------------------------------------------------------
(* One process.                                                             *)

OneProcess(p) == Processes = {p} /\ Throttles = {TRUE}

LEMMA NobodyOvertakes ==
  ASSUME NEW p, OneProcess(p), OrderInv
  PROVE  throttled /\ QueueInv /\ NothingSkipped
<1>1. throttled
  BY DEF OneProcess, OrderInv, TypeInv, TypeOK
<1>2. \A i \in DOMAIN col : col[i].by = p
  BY CreatedType DEF OneProcess, OrderInv, TypeInv
<1>3. reader.merged \subseteq DOMAIN col
  BY CreatedType DEF OrderInv, TypeInv
<1> QED BY <1>1, <1>2, <1>3 DEF OrderInv, SkippedOnlyByOvertaking, NothingSkipped

\* "otherwise we risk data inconsistency when running in clustered mode": without
\* clustered mode the worker leaves out nothing, whatever fails or dies.
THEOREM OneProcessSkipsNothing ==
  ASSUME NEW p, OneProcess(p)
  PROVE  Spec => []NothingSkipped
<1> QED BY OrderInvariant, NobodyOvertakes, PTL

LEMMA NoStepOfTheLog ==
  ASSUME UNCHANGED <<col, reader>>
  PROVE  UNCHANGED <<[i \in DOMAIN col |-> col[i].aggr], reader.merged>>
OBVIOUS

\* An insert that becomes visible is appended to the log.
LEMMA AppendRefines ==
  ASSUME TypeInv, NEW o \in Owners, saving[o] # None, col' = Append(col, saving[o]),
         UNCHANGED reader
  PROVE  Log!Next
<1> DEFINE log == [i \in DOMAIN col |-> col[i].aggr]
           aggr == saving[o].aggr
<1>1. /\ saving[o] \in InsertTypes /\ col \in Seq(InsertTypes)
      /\ DOMAIN col = 1..Len(col) /\ Len(col) \in Nat
  BY DEF TypeInv, TypeOK, Owners
<1>2. \A i \in DOMAIN col : col[i] \in InsertTypes
  BY <1>1, ElementOfSeq
<1>3. aggr \in AggregateTypes /\ log \in Seq(AggregateTypes) /\ Len(log) = Len(col)
  <2>1. log \in [1..Len(col) -> AggregateTypes]
    BY <1>1, <1>2 DEF InsertTypes
  <2> QED BY <1>1, <2>1 DEF InsertTypes
<1>4. /\ DOMAIN col' = 1..(Len(col) + 1) /\ col'[Len(col) + 1] = saving[o]
      /\ \A i \in DOMAIN col : col'[i] = col[i]
  BY <1>1, AppendProperties
<1>5. log' = Append(log, aggr)
  <2> DEFINE longer == Append(log, aggr)
  <2>1. /\ longer \in Seq(AggregateTypes) /\ Len(longer) = Len(col) + 1
        /\ \A i \in 1..Len(col) : longer[i] = log[i]
        /\ longer[Len(col) + 1] = aggr
    BY <1>3, AppendProperties
  <2>2. longer = [i \in 1..(Len(col) + 1) |-> longer[i]]
    BY <2>1
  <2> HIDE DEF longer
  <2>3. \A i \in 1..(Len(col) + 1) : longer[i] = col'[i].aggr
    BY <1>1, <1>4, <2>1
  <2> QED BY <1>4, <2>2, <2>3
<1> QED BY <1>3, <1>5 DEF Log!Next, Log!Persist

\* What the worker reads on, it reads in the order of the log.
LEMMA MergeRefines ==
  ASSUME OrderInv, OrderInv', QueueInv, NothingSkipped', Merge,
         NEW p, \A i \in DOMAIN col : col[i].by = p
  PROVE  Log!Next
<1> DEFINE log == [i \in DOMAIN col |-> col[i].aggr]
<1>1. /\ DOMAIN col = 1..Len(col) /\ Len(col) \in Nat /\ reader.merged \subseteq DOMAIN col
      /\ \A i \in DOMAIN col : col[i].created \in Nat
  BY CreatedType DEF OrderInv, TypeInv
<1>2. Len(log) = Len(col)
  BY <1>1
<1>3. PICK last \in DOMAIN col :
        /\ reader'.lastEvAggr = col[last].created
        /\ reader.merged \subseteq reader'.merged
  BY DEF Merge, NewAggrs
<1>4. UNCHANGED col
  BY DEF Merge
<1>5. reader'.merged = {i \in DOMAIN col : col[i].created <= col[last].created}
  <2>1. reader'.merged \subseteq DOMAIN col
    BY <1>4, CreatedType DEF OrderInv, TypeInv, TypeOK
  <2>2. \A i \in reader'.merged : col[i].created <= col[last].created
    BY <1>3, <1>4 DEF OrderInv, ReaderInv
  <2>3. \A i \in DOMAIN col : col[i].created <= col[last].created => i \in reader'.merged
    BY <1>3, <1>4 DEF NothingSkipped
  <2> QED BY <2>1, <2>2, <2>3
<1>6. \A i \in DOMAIN col : col[i].created <= col[last].created <=> i <= last
  BY <1>1 DEF QueueInv
<1>7. reader'.merged = 1..last
  BY <1>1, <1>5, <1>6
<1> QED BY <1>1, <1>2, <1>3, <1>4, <1>7 DEF Log!Next, Log!Count

LEMMA NextRefinesLog ==
  ASSUME NEW p, OneProcess(p)
  PROVE  OrderInv /\ OrderInv' /\ [Next]_vars
           => [Log!Next]_<<[i \in DOMAIN col |-> col[i].aggr], reader.merged>>
<1> SUFFICES ASSUME OrderInv, OrderInv', [Next]_vars
             PROVE  [Log!Next]_<<[i \in DOMAIN col |-> col[i].aggr], reader.merged>>
  OBVIOUS
<1>1. TypeInv /\ QueueInv
  BY NobodyOvertakes DEF OrderInv
<1>2. CASE UNCHANGED <<col, reader>>
  BY <1>2, NoStepOfTheLog
<1>3. CASE \E o \in Owners : Save(o) \/ FailToSave(o)
  <2>1. PICK o \in Owners : Save(o) \/ FailToSave(o)
    BY <1>3
  <2>2. saving[o] # None /\ UNCHANGED reader /\ (UNCHANGED col \/ col' = Append(col, saving[o]))
    BY <2>1 DEF Save, FailToSave
  <2> QED BY <1>1, <1>2, <2>2, AppendRefines
<1>4. CASE \E q \in Processes : Crash(q)
  <2>1. PICK q \in Processes : Crash(q)
    BY <1>4
  <2>2. UNCHANGED reader
        /\ (UNCHANGED col \/ \E o \in Owners : saving[o] # None /\ col' = Append(col, saving[o]))
    BY <2>1 DEF Crash, Owners
  <2> QED BY <1>1, <1>2, <2>2, AppendRefines
<1>5. CASE Merge
  <2>1. NothingSkipped'
    BY NobodyOvertakes, PTL
  <2>2. \A i \in DOMAIN col : col[i].by = p
    BY CreatedType DEF OneProcess, OrderInv, TypeInv
  <2> QED BY <1>1, <1>5, <2>1, <2>2, MergeRefines
<1>6. CASE \E r \in Requests : RecordAndSave(r)
  BY <1>2, <1>6 DEF RecordAndSave
<1>7. CASE \E q \in Processes : StartSaving(q)
  BY <1>2, <1>7 DEF StartSaving
<1> QED BY <1>2, <1>3, <1>4, <1>5, <1>6, <1>7, InsertSteps

\* What Outpace takes the recorder for: where one process records with
\* AGGR_THROTTLE, the aggregates are a log that grows at its end and the worker
\* counts longer and longer prefixes of it, whatever fails or dies.
THEOREM OneProcessFollowsTheLog ==
  ASSUME NEW p, OneProcess(p)
  PROVE  Spec => FollowsTheLog
<1>1. Init => OrderInv /\ Log!Init
  <2> SUFFICES ASSUME Init PROVE OrderInv /\ Log!Init
    OBVIOUS
  <2>1. col = <<>> /\ reader.merged = {}
    BY DEF Init
  <2>2. [i \in DOMAIN col |-> col[i].aggr] = <<>>
    BY <2>1
  <2> QED BY <2>1, <2>2, InitOrder DEF Log!Init
<1>2. OrderInv /\ [Next]_vars => OrderInv'
  BY NextOrder
<1>3. OrderInv /\ OrderInv' /\ [Next]_vars
        => [Log!Next]_<<[i \in DOMAIN col |-> col[i].aggr], reader.merged>>
  BY NextRefinesLog
<1> QED BY <1>1, <1>2, <1>3, PTL DEF Spec, FollowsTheLog, Log!Spec
-----------------------------------------------------------------------------
(* The places of an event: aggregates that are saved and memory.            *)

Held(entry) == Saved(entry) # {} \/ InMemory(entry) # {}

Places(entry) == Cardinality(Saved(entry)) + Cardinality(InMemory(entry))

LEMMA ImageBound ==
  ASSUME NEW S, IsFiniteSet(S), NEW f, DOMAIN f = S, NEW T, T \subseteq {f[x] : x \in S}
  PROVE  IsFiniteSet(T) /\ Cardinality(T) <= Cardinality(S)
<1> DEFINE U == {f[x] : x \in S}
<1>1. [x \in S |-> f[x]] \in Surjection(S, U)
  BY DEF Surjection
<1>2. IsFiniteSet(U) /\ Cardinality(U) <= Cardinality(S)
  <2> HIDE DEF U
  <2> QED BY <1>1, FS_Surjection
<1>3. IsFiniteSet(T) /\ Cardinality(T) <= Cardinality(U)
  <2> HIDE DEF U
  <2> QED BY <1>2, FS_Subset DEF U
<1>4. Cardinality(T) \in Nat /\ Cardinality(U) \in Nat /\ Cardinality(S) \in Nat
  <2> HIDE DEF U
  <2> QED BY <1>2, <1>3, FS_CardinalityType
<1> QED BY <1>2, <1>3, <1>4

LEMMA SavedFinite ==
  ASSUME TypeOK, NEW entry
  PROVE  IsFiniteSet(Saved(entry)) /\ Cardinality(Saved(entry)) \in Nat
<1>1. DOMAIN col = 1..Len(col) /\ Len(col) \in Nat
  BY CreatedType
<1>2. IsFiniteSet(DOMAIN col)
  BY <1>1, FS_Interval
<1>3. Saved(entry) \in SUBSET DOMAIN col
  BY DEF Saved
<1> QED BY <1>2, <1>3, FS_Subset, FS_CardinalityType

\* An insert that becomes visible adds a place to what is in it and to nothing else.
LEMMA SavedGrows ==
  ASSUME TypeInv, NEW o \in Owners, saving[o] # None, col' = Append(col, saving[o]), NEW entry
  PROVE  /\ Saved(entry) \subseteq Saved(entry)'
         /\ IF entry \in saving[o].aggr
            THEN /\ Saved(entry)' # {}
                 /\ Cardinality(Saved(entry)') = Cardinality(Saved(entry)) + 1
            ELSE Saved(entry)' = Saved(entry)
<1> DEFINE n == Len(col) + 1
<1>1. /\ DOMAIN col = 1..Len(col) /\ Len(col) \in Nat
      /\ col \in Seq(InsertTypes) /\ saving[o] \in InsertTypes
  BY CreatedType DEF TypeInv, TypeOK, Owners
<1>2. /\ DOMAIN col' = DOMAIN col \cup {n} /\ n \notin DOMAIN col
      /\ \A i \in DOMAIN col : col'[i] = col[i]
      /\ col'[n] = saving[o]
  BY <1>1, AppendProperties
<1> HIDE DEF n
<1>3. Saved(entry)' = IF entry \in saving[o].aggr THEN Saved(entry) \cup {n} ELSE Saved(entry)
  BY <1>2 DEF Saved
<1>4. n \notin Saved(entry) /\ IsFiniteSet(Saved(entry))
  BY <1>2, SavedFinite DEF Saved, TypeInv
<1>5. Cardinality(Saved(entry) \cup {n}) = Cardinality(Saved(entry)) + 1
  BY <1>4, FS_AddElement
<1>6. CASE entry \in saving[o].aggr
  <2>1. Saved(entry)' = Saved(entry) \cup {n}
    BY <1>3, <1>6
  <2> QED BY <1>5, <1>6, <2>1
<1> QED BY <1>3, <1>6

\* Where a request is before its events are recorded.
Early == {"sent", "checking", "updated"}

\* An insert of a process is the first of its queue, and one of a request is what the
\* request waits for; before it is recorded nothing of a request is anywhere.
HeldInv ==
  /\ TypeInv
  /\ \A p \in Processes : saving[p] # None => saving[p].aggr = Head(recorder[p].queue)
  /\ \A r \in Requests : saving[r] # None <=> At(r, "saving")
  /\ \A r \in Requests : At(r, "saving") => ~throttled /\ req[r].earned \subseteq saving[r].aggr
  /\ \A r \in Requests : req[r].pc \in Early =>
       /\ req[r].earned = {}
       /\ \A entry \in Entries : entry[1] = r => ~Held(entry)

FiniteInv == \A entry \in Entries : IsFiniteSet(InMemory(entry))

\* An entry is in memory where a process or a request has it.
InAggr(p, entry) == entry \in recorder[p].aggr
InQueue(p, i, entry) == i \in DOMAIN recorder[p].queue /\ entry \in recorder[p].queue[i]
InInsert(r, entry) == saving[r] # None /\ entry \in saving[r].aggr

KeptBy(p, entry) == InAggr(p, entry) \/ \E i : InQueue(p, i, entry)

\* The process dies that has the entry.
Dies(entry) == \E p \in Processes : Crash(p) /\ KeptBy(p, entry)

\* What a step does to an event that it does not record: only an insert that failed
\* although it was applied makes places of it, and only the death of the process that
\* has it takes the last one.
Settled(entry) ==
  /\ IsFiniteSet(InMemory(entry)')
  /\ Places(entry)' <= Places(entry) + (faults'["unconfirmed"] - faults["unconfirmed"])
  /\ Held(entry)' => Held(entry)
  /\ Saved(entry) \subseteq Saved(entry)'
  /\ throttled /\ Held(entry) => Held(entry)' \/ Dies(entry)

LEMMA PlacesType ==
  ASSUME TypeOK, NEW entry, IsFiniteSet(InMemory(entry))
  PROVE  /\ Cardinality(Saved(entry)) \in Nat /\ Cardinality(InMemory(entry)) \in Nat
         /\ Places(entry) \in Nat
BY SavedFinite, FS_CardinalityType DEF Places

LEMMA FaultsType ==
  ASSUME TypeOK
  PROVE  faults["unconfirmed"] \in Nat /\ faults["crash"] \in Nat /\ faults["failed"] \in Nat
<1>1. MaxFaults \in Nat /\ 0..MaxFaults \subseteq Nat
  BY RecorderAssumption
<1>2. {"unconfirmed", "crash", "failed"} = FaultKinds
  BY DEF FaultKinds
<1> QED BY <1>1, <1>2 DEF TypeOK

\* A step that leaves memory and what is saved alone.
LEMMA StillSettled ==
  ASSUME TypeOK, NEW entry, IsFiniteSet(InMemory(entry)),
         InMemory(entry)' = InMemory(entry), UNCHANGED <<col, faults>>
  PROVE  Settled(entry)
<1>1. Saved(entry)' = Saved(entry)
  BY DEF Saved
<1>2. Places(entry)' = Places(entry) /\ Held(entry)' = Held(entry)
  BY <1>1 DEF Places, Held
<1>3. Places(entry) \in Nat /\ faults["unconfirmed"] \in Nat
  BY PlacesType, FaultsType
<1> QED BY <1>1, <1>2, <1>3 DEF Settled

\* Where an event is in memory after a step that moves it there.
LEMMA MovedSize ==
  ASSUME NEW M, IsFiniteSet(M), NEW S \in SUBSET M, NEW f, DOMAIN f = S,
         NEW N, N \subseteq {f[x] : x \in S}
  PROVE  /\ IsFiniteSet(N) /\ Cardinality(N) \in Nat /\ Cardinality(M) \in Nat
         /\ Cardinality(N) <= Cardinality(M)
         /\ S # M => Cardinality(N) < Cardinality(M)
         /\ N # {} => M # {}
<1>1. IsFiniteSet(S) /\ Cardinality(S) <= Cardinality(M) /\ (Cardinality(S) = Cardinality(M) => S = M)
  BY FS_Subset
<1>2. IsFiniteSet(N) /\ Cardinality(N) <= Cardinality(S)
  BY <1>1, ImageBound
<1>3. Cardinality(N) \in Nat /\ Cardinality(S) \in Nat /\ Cardinality(M) \in Nat
  BY <1>1, <1>2, FS_CardinalityType
<1>4. N # {} => M # {}
  OBVIOUS
<1> QED BY <1>1, <1>2, <1>3, <1>4

\* A step that moves an event in memory, or takes it out of there.
LEMMA MoveSettled ==
  ASSUME TypeOK, NEW entry, IsFiniteSet(InMemory(entry)), IsFiniteSet(InMemory(entry)'),
         UNCHANGED col, InMemory(entry)' # {} => InMemory(entry) # {},
         Cardinality(InMemory(entry)') <= Cardinality(InMemory(entry)),
         faults'["unconfirmed"] >= faults["unconfirmed"], faults'["unconfirmed"] \in Nat,
         throttled => InMemory(entry) = {} \/ InMemory(entry)' # {} \/ Dies(entry)
  PROVE  Settled(entry)
<1> DEFINE M == InMemory(entry)
           N == InMemory(entry)'
<1>1. Cardinality(N) \in Nat /\ Cardinality(M) \in Nat
  BY FS_CardinalityType
<1>2. Saved(entry)' = Saved(entry) /\ Cardinality(Saved(entry)) \in Nat
  BY SavedFinite DEF Saved
<1>3. faults["unconfirmed"] \in Nat
  BY FaultsType
<1>4. Places(entry)' = Cardinality(Saved(entry)) + Cardinality(N)
  BY <1>2 DEF Places
<1>5. Places(entry)' <= Places(entry) + (faults'["unconfirmed"] - faults["unconfirmed"])
  <2> HIDE DEF N
  <2> QED BY <1>1, <1>2, <1>3, <1>4 DEF Places, N
<1> QED BY <1>1, <1>2, <1>5 DEF Settled, Held

\* A step that makes an insert visible: what is in it was in memory, and leaves it
\* unless the insert is taken for failed.
LEMMA SaveSettled ==
  ASSUME TypeInv, NEW entry, IsFiniteSet(InMemory(entry)), IsFiniteSet(InMemory(entry)'),
         NEW o \in Owners, saving[o] # None, col' = Append(col, saving[o]),
         InMemory(entry)' # {} => InMemory(entry) # {},
         Cardinality(InMemory(entry)') <= Cardinality(InMemory(entry)),
         entry \in saving[o].aggr =>
           /\ InMemory(entry) # {}
           /\ \/ Cardinality(InMemory(entry)') < Cardinality(InMemory(entry))
              \/ faults'["unconfirmed"] >= faults["unconfirmed"] + 1,
         faults'["unconfirmed"] >= faults["unconfirmed"], faults'["unconfirmed"] \in Nat,
         throttled => \/ InMemory(entry) = {} \/ InMemory(entry)' # {} \/ entry \in saving[o].aggr
                      \/ Dies(entry)
  PROVE  Settled(entry)
<1> DEFINE M == InMemory(entry)
           N == InMemory(entry)'
           saved == Saved(entry)'
<1>1. Cardinality(N) \in Nat /\ Cardinality(M) \in Nat
  BY FS_CardinalityType
<1>2. /\ Saved(entry) \subseteq saved
      /\ IF entry \in saving[o].aggr
         THEN saved # {} /\ Cardinality(saved) = Cardinality(Saved(entry)) + 1
         ELSE saved = Saved(entry)
  BY SavedGrows
<1>3. faults["unconfirmed"] \in Nat /\ Cardinality(Saved(entry)) \in Nat
  BY FaultsType, SavedFinite DEF TypeInv
<1>4. Places(entry)' = Cardinality(saved) + Cardinality(N)
  BY DEF Places
<1> HIDE DEF N, saved
<1>5. Places(entry)' <= Places(entry) + (faults'["unconfirmed"] - faults["unconfirmed"])
  <2>1. CASE entry \in saving[o].aggr
    BY <1>1, <1>2, <1>3, <1>4, <2>1 DEF Places, N
  <2>2. CASE entry \notin saving[o].aggr
    BY <1>1, <1>2, <1>3, <1>4, <2>2 DEF Places, N
  <2> QED BY <2>1, <2>2
<1>6. Held(entry)' <=> saved # {} \/ N # {}
  BY DEF Held, saved, N
<1>7. Held(entry)' => Held(entry)
  BY <1>2, <1>6 DEF Held, N
<1>8. throttled /\ Held(entry) => Held(entry)' \/ Dies(entry)
  BY <1>2, <1>6 DEF Held, N
<1> QED BY <1>2, <1>5, <1>7, <1>8 DEF Settled, N, saved

LEMMA InMemoryIs ==
  ASSUME NEW entry, NEW x
  PROVE  x \in InMemory(entry) <=>
           \/ \E p \in Processes : x = <<p, 0>> /\ InAggr(p, entry)
           \/ \E p \in Processes : \E i : x = <<p, i>> /\ InQueue(p, i, entry)
           \/ \E r \in Requests : x = <<r, 0>> /\ InInsert(r, entry)
BY DEF InMemory, InAggr, InQueue, InInsert

LEMMA InMemoryIsNext ==
  ASSUME NEW entry, NEW x
  PROVE  x \in InMemory(entry)' <=>
           \/ \E p \in Processes : x = <<p, 0>> /\ InAggr(p, entry)'
           \/ \E p \in Processes : \E i : x = <<p, i>> /\ InQueue(p, i, entry)'
           \/ \E r \in Requests : x = <<r, 0>> /\ InInsert(r, entry)'
BY DEF InMemory, InAggr, InQueue, InInsert

LEMMA QueueElements ==
  ASSUME TypeInv, NEW p \in Processes, NEW q, q = recorder[p].queue
  PROVE  /\ q \in Seq(AggregateTypes) /\ Len(q) \in Nat /\ DOMAIN q = 1..Len(q)
         /\ \A aggr : /\ DOMAIN Append(q, aggr) = 1..(Len(q) + 1)
                      /\ \A i \in 1..Len(q) : Append(q, aggr)[i] = q[i]
                      /\ Append(q, aggr)[Len(q) + 1] = aggr
         /\ q # <<>> =>
              /\ Len(q) > 0 /\ Head(q) = q[1]
              /\ DOMAIN Tail(q) = 1..(Len(q) - 1)
              /\ \A i \in 1..(Len(q) - 1) : Tail(q)[i] = q[i + 1]
              /\ DOMAIN Append(Tail(q), Head(q)) = 1..Len(q)
              /\ \A i \in 1..(Len(q) - 1) : Append(Tail(q), Head(q))[i] = q[i + 1]
              /\ Append(Tail(q), Head(q))[Len(q)] = q[1]
<1>1. q \in Seq(AggregateTypes) /\ Len(q) \in Nat /\ DOMAIN q = 1..Len(q)
  BY QueueType
<1>2. ASSUME NEW aggr
      PROVE  /\ DOMAIN Append(q, aggr) = 1..(Len(q) + 1)
             /\ \A i \in 1..Len(q) : Append(q, aggr)[i] = q[i]
             /\ Append(q, aggr)[Len(q) + 1] = aggr
  BY <1>1
<1>3. ASSUME q # <<>>
      PROVE  /\ Len(q) > 0 /\ Head(q) = q[1]
             /\ Tail(q) \in Seq(AggregateTypes)
             /\ Len(Tail(q)) = Len(q) - 1 /\ DOMAIN Tail(q) = 1..(Len(q) - 1)
             /\ \A i \in 1..(Len(q) - 1) : Tail(q)[i] = q[i + 1]
  <2>1. Len(q) > 0
    BY <1>1, <1>3, EmptySeq
  <2>2. Tail(q) \in Seq(AggregateTypes) /\ Len(Tail(q)) = Len(q) - 1
    BY <1>1, <1>3, HeadTailProperties
  <2>3. \A i \in 1..(Len(q) - 1) : Tail(q)[i] = q[i + 1]
    BY <1>1, <1>3, <2>1
  <2>4. Head(q) = q[1] /\ DOMAIN Tail(q) = 1..(Len(q) - 1)
    BY <1>1, <1>3, <2>2
  <2> QED BY <2>1, <2>2, <2>3, <2>4
<1>4. ASSUME q # <<>>
      PROVE  /\ DOMAIN Append(Tail(q), Head(q)) = 1..Len(q)
             /\ \A i \in 1..(Len(q) - 1) : Append(Tail(q), Head(q))[i] = q[i + 1]
             /\ Append(Tail(q), Head(q))[Len(q)] = q[1]
  <2> DEFINE t == Tail(q)
             h == Head(q)
  <2>1. t \in Seq(AggregateTypes) /\ Len(t) = Len(q) - 1
    BY <1>3, <1>4
  <2>2. h = q[1] /\ \A i \in 1..(Len(q) - 1) : t[i] = q[i + 1]
    BY <1>3, <1>4
  <2>3. /\ DOMAIN Append(t, h) = 1..(Len(t) + 1)
        /\ \A i \in 1..Len(t) : Append(t, h)[i] = t[i]
        /\ Append(t, h)[Len(t) + 1] = h
    <3> HIDE DEF t, h
    <3>1. Len(t) \in Nat
      BY <2>1
    <3> QED BY <2>1, <3>1
  <2> HIDE DEF t, h
  <2>4. DOMAIN Append(t, h) = 1..Len(q)
    BY <1>1, <2>1, <2>3
  <2>5. \A i \in 1..(Len(q) - 1) : Append(t, h)[i] = q[i + 1]
    BY <2>1, <2>2, <2>3
  <2>6. Append(t, h)[Len(q)] = q[1]
    BY <1>1, <2>1, <2>2, <2>3
  <2> QED BY <2>4, <2>5, <2>6 DEF t, h
<1> QED BY <1>1, <1>2, <1>3, <1>4

\* persistAndReset: what was in the aggregate is last in the queue.
LEMMA ThrottleSettles ==
  ASSUME HeldInv, NEW p \in Processes, Throttle(p), NEW entry, IsFiniteSet(InMemory(entry))
  PROVE  Settled(entry)
<1> DEFINE q == recorder[p].queue
           n == Len(q) + 1
           f == [x \in InMemory(entry) |-> IF x = <<p, 0>> THEN <<p, n>> ELSE x]
<1>1. /\ recorder[p] \in RecorderTypes /\ recorder \in [Processes -> RecorderTypes]
      /\ recorder' = [recorder EXCEPT ![p].queue = Append(q, recorder[p].aggr),
                                      ![p].aggr = {}, ![p].armed = FALSE]
      /\ UNCHANGED <<saving, col, faults>>
  BY DEF HeldInv, TypeInv, TypeOK, Throttle, PersistAndReset
<1>2. /\ recorder'[p].queue = Append(q, recorder[p].aggr) /\ recorder'[p].aggr = {}
      /\ \A o \in Processes \ {p} : recorder'[o] = recorder[o]
  BY <1>1 DEF RecorderTypes
<1>3. /\ Len(q) \in Nat /\ DOMAIN q = 1..Len(q)
      /\ DOMAIN Append(q, recorder[p].aggr) = 1..n
      /\ \A i \in 1..Len(q) : Append(q, recorder[p].aggr)[i] = q[i]
      /\ Append(q, recorder[p].aggr)[n] = recorder[p].aggr
  BY QueueElements DEF HeldInv
<1>4. /\ ~InAggr(p, entry)'
      /\ \A i : InQueue(p, i, entry)' <=> InQueue(p, i, entry) \/ (i = n /\ InAggr(p, entry))
      /\ \A o \in Processes \ {p} : InAggr(o, entry)' <=> InAggr(o, entry)
      /\ \A o \in Processes \ {p} : \A i : InQueue(o, i, entry)' <=> InQueue(o, i, entry)
      /\ \A r \in Requests : InInsert(r, entry)' <=> InInsert(r, entry)
  <2> HIDE DEF q, n
  <2>1. n = Len(q) + 1
    BY DEF n
  <2>2. \A i : i \in 1..n <=> i \in 1..Len(q) \/ i = n
    BY <1>3, <2>1
  <2>3. ~InAggr(p, entry)'
    BY <1>2 DEF InAggr
  <2>4. \A i : InQueue(p, i, entry)' <=> InQueue(p, i, entry) \/ (i = n /\ InAggr(p, entry))
    BY <1>2, <1>3, <2>1, <2>2 DEF InQueue, InAggr, q
  <2> QED BY <1>1, <1>2, <2>3, <2>4 DEF InAggr, InQueue, InInsert
<1>5. n # 0 /\ ~InQueue(p, n, entry) /\ \A i : InQueue(p, i, entry) => i # 0 /\ i # n
  <2>1. n \notin DOMAIN q /\ 0 \notin DOMAIN q
    BY <1>3
  <2> QED BY <1>3, <2>1 DEF InQueue
<1>6. Processes \cap Requests = {}
  BY RecorderAssumption
<1> HIDE DEF q, n
<1>7. InMemory(entry)' \subseteq {f[x] : x \in InMemory(entry)}
  <2> SUFFICES ASSUME NEW y \in InMemory(entry)'
               PROVE  \E x \in InMemory(entry) : y = f[x]
    OBVIOUS
  <2>1. CASE y = <<p, n>>
    <3>1. InAggr(p, entry)
      BY <1>4, <1>5, <1>6, <2>1, InMemoryIsNext
    <3>2. <<p, 0>> \in InMemory(entry)
      BY <3>1, InMemoryIs
    <3> QED BY <2>1, <3>2
  <2>2. CASE y # <<p, n>>
    <3>1. y \in InMemory(entry) /\ y # <<p, 0>>
      BY <1>4, <1>5, <1>6, <2>2, InMemoryIs, InMemoryIsNext
    <3> QED BY <3>1
  <2> QED BY <2>1, <2>2
<1>8. {f[x] : x \in InMemory(entry)} \subseteq InMemory(entry)'
  <2> SUFFICES ASSUME NEW x \in InMemory(entry) PROVE f[x] \in InMemory(entry)'
    OBVIOUS
  <2>1. CASE x = <<p, 0>>
    <3>1. InAggr(p, entry)
      BY <1>5, <1>6, <2>1, InMemoryIs
    <3> QED BY <1>4, <2>1, <3>1, InMemoryIsNext
  <2>2. CASE x # <<p, 0>>
    BY <1>4, <2>2, InMemoryIs, InMemoryIsNext
  <2> QED BY <2>1, <2>2
<1> QED
  <2> DEFINE image == {f[x] : x \in InMemory(entry)}
  <2>1. InMemory(entry)' = image
    BY <1>7, <1>8
  <2>2. DOMAIN f = InMemory(entry) /\ TypeOK /\ faults["unconfirmed"] \in Nat
    BY FaultsType DEF HeldInv, TypeInv
  <2>3. InMemory(entry) # {} => image # {}
    OBVIOUS
  <2>4. InMemory(entry)' \subseteq image /\ InMemory(entry) \in SUBSET InMemory(entry)
    BY <2>1
  <2> HIDE DEF f
  <2>5. /\ IsFiniteSet(InMemory(entry)')
        /\ Cardinality(InMemory(entry)') <= Cardinality(InMemory(entry))
        /\ InMemory(entry)' # {} => InMemory(entry) # {}
    BY <2>2, <2>4, MovedSize
  <2>6. /\ UNCHANGED col /\ faults'["unconfirmed"] \in Nat
        /\ faults'["unconfirmed"] >= faults["unconfirmed"]
    BY <1>1, <2>2
  <2>7. InMemory(entry) = {} \/ InMemory(entry)' # {}
    BY <2>1, <2>3
  <2> HIDE DEF image
  <2> QED BY <2>2, <2>5, <2>6, <2>7, MoveSettled

\* Which elements of memory a process has, when its queue goes on or takes its head
\* again.
LEMMA QueueGoesOn ==
  ASSUME HeldInv, NEW p \in Processes, saving[p] # None, NEW entry,
         IsFiniteSet(InMemory(entry)), FinishSaving(p) \/ RetryFailed(p),
         saving' = [saving EXCEPT ![p] = None]
  PROVE  /\ IsFiniteSet(InMemory(entry)')
         /\ Cardinality(InMemory(entry)') <= Cardinality(InMemory(entry))
         /\ InMemory(entry)' # {} => InMemory(entry) # {}
         /\ RetryFailed(p) => (InMemory(entry) # {} => InMemory(entry)' # {})
         /\ FinishSaving(p) /\ entry \notin saving[p].aggr =>
              (InMemory(entry) # {} => InMemory(entry)' # {})
         /\ entry \in saving[p].aggr => InMemory(entry) # {}
         /\ entry \in saving[p].aggr /\ FinishSaving(p) =>
              Cardinality(InMemory(entry)') < Cardinality(InMemory(entry))
<1> DEFINE q == recorder[p].queue
           n == Len(q)
<1>1. /\ recorder[p] \in RecorderTypes /\ recorder \in [Processes -> RecorderTypes]
      /\ q # <<>> /\ saving[p].aggr = Head(q) /\ p \notin Requests
      /\ saving \in [Owners -> InsertTypes \cup {None}]
  BY RecorderAssumption DEF HeldInv, TypeInv, TypeOK, MemoryInv, Owners
<1>2. /\ n \in Nat /\ n > 0 /\ DOMAIN q = 1..n /\ Head(q) = q[1]
      /\ DOMAIN Tail(q) = 1..(n - 1)
      /\ \A i \in 1..(n - 1) : Tail(q)[i] = q[i + 1]
      /\ DOMAIN Append(Tail(q), Head(q)) = 1..n
      /\ \A i \in 1..(n - 1) : Append(Tail(q), Head(q))[i] = q[i + 1]
      /\ Append(Tail(q), Head(q))[n] = q[1]
  BY <1>1, QueueElements DEF HeldInv
<1>3. \A r \in Requests : InInsert(r, entry)' <=> InInsert(r, entry)
  BY <1>1 DEF InInsert, Owners
<1>4. /\ \A o \in Processes : InAggr(o, entry)' <=> InAggr(o, entry)
      /\ \A o \in Processes \ {p} : \A i : InQueue(o, i, entry)' <=> InQueue(o, i, entry)
      /\ \A i : InQueue(p, i, entry) => i \in 1..n
      /\ InQueue(p, 1, entry) <=> entry \in saving[p].aggr
  <2>3. PICK queue : recorder' = [recorder EXCEPT ![p].queue = queue]
    BY DEF FinishSaving, RetryFailed
  <2>4. /\ recorder'[p].aggr = recorder[p].aggr
        /\ \A o \in Processes \ {p} : recorder'[o] = recorder[o]
    BY <1>1, <2>3 DEF RecorderTypes
  <2>1. \A o \in Processes : recorder'[o].aggr = recorder[o].aggr
    BY <2>4
  <2>2. \A o \in Processes \ {p} : recorder'[o].queue = recorder[o].queue
    BY <2>4
  <2> QED BY <1>1, <1>2, <2>1, <2>2 DEF InAggr, InQueue
<1>5. Processes \cap Requests = {}
  BY RecorderAssumption
<1> DEFINE M == InMemory(entry)
<1>6. CASE FinishSaving(p)
  <2>1. recorder'[p].queue = Tail(q)
    BY <1>1, <1>6 DEF FinishSaving, RecorderTypes
  <2>2. \A i : InQueue(p, i, entry)' <=> i \in 1..(n - 1) /\ InQueue(p, i + 1, entry)
    <3> HIDE DEF n
    <3>1. \A i \in 1..(n - 1) : i + 1 \in 1..n
      BY <1>2
    <3> QED BY <1>2, <2>1, <3>1 DEF InQueue
  <2> DEFINE S == M \ {<<p, 1>>}
             f == [x \in S |-> IF x[1] = p /\ x[2] # 0 THEN <<p, x[2] - 1>> ELSE x]
  <2> HIDE DEF q, n
  <2>3. InMemory(entry)' \subseteq {f[x] : x \in S}
    <3> SUFFICES ASSUME NEW y \in InMemory(entry)' PROVE \E x \in S : y = f[x]
      OBVIOUS
    <3>1. CASE \E i : y = <<p, i>> /\ InQueue(p, i, entry)'
      <4>1. PICK i : y = <<p, i>> /\ InQueue(p, i, entry)'
        BY <3>1
      <4>2. i \in 1..(n - 1) /\ InQueue(p, i + 1, entry)
        BY <2>2, <4>1
      <4>3. i + 1 # 1 /\ i + 1 # 0 /\ (i + 1) - 1 = i
        BY <1>2, <4>2
      <4>4. <<p, i + 1>> \in S
        BY <4>2, <4>3, InMemoryIs
      <4> QED BY <4>1, <4>3, <4>4
    <3>2. CASE ~\E i : y = <<p, i>> /\ InQueue(p, i, entry)'
      <4>1. y \in M /\ (y[1] = p => y[2] = 0) /\ y # <<p, 1>>
        BY <1>3, <1>4, <1>5, <3>2, InMemoryIs, InMemoryIsNext
      <4> QED BY <4>1
    <3> QED BY <3>1, <3>2
  <2>4. ASSUME entry \notin saving[p].aggr, M # {} PROVE InMemory(entry)' # {}
    <3>1. PICK x \in M : TRUE
      BY <2>4
    <3>2. CASE \E i : x = <<p, i>> /\ InQueue(p, i, entry)
      <4>1. PICK i : x = <<p, i>> /\ InQueue(p, i, entry)
        BY <3>2
      <4>2. i \in 1..n /\ i # 1
        BY <1>4, <2>4, <4>1
      <4>3. i - 1 \in 1..(n - 1) /\ (i - 1) + 1 = i
        BY <1>2, <4>2
      <4>4. InQueue(p, i - 1, entry)'
        BY <2>2, <4>1, <4>3
      <4> QED BY <4>4, InMemoryIsNext
    <3>3. CASE ~\E i : x = <<p, i>> /\ InQueue(p, i, entry)
      BY <1>3, <1>4, <3>1, <3>3, InMemoryIs, InMemoryIsNext
    <3> QED BY <3>2, <3>3
  <2>5. entry \in saving[p].aggr => <<p, 1>> \in M
    BY <1>4, InMemoryIs
  <2>6. DOMAIN f = S /\ S \in SUBSET M
    OBVIOUS
  <2> HIDE DEF f
  <2>7. /\ IsFiniteSet(InMemory(entry)')
        /\ Cardinality(InMemory(entry)') <= Cardinality(InMemory(entry))
        /\ InMemory(entry)' # {} => InMemory(entry) # {}
        /\ S # M => Cardinality(InMemory(entry)') < Cardinality(InMemory(entry))
    <3> HIDE DEF S
    <3> QED BY <2>3, <2>6, MovedSize
  <2>8. entry \in saving[p].aggr => S # M /\ M # {}
    BY <2>5
  <2>9. M # {} => InMemory(entry)' # {} \/ entry \in saving[p].aggr
    BY <2>4
  <2>10. RetryFailed(p) => FALSE
    <3>1. ASSUME RetryFailed(p) PROVE FALSE
      <4>1. recorder'[p].queue = Append(Tail(q), Head(q))
        BY <1>1, <3>1 DEF RetryFailed, RecorderTypes, q
      <4>2. DOMAIN Tail(q) # DOMAIN Append(Tail(q), Head(q))
        BY <1>2
      <4> QED BY <2>1, <4>1, <4>2
    <3> QED BY <3>1
  <2> HIDE DEF S
  <2> QED BY <1>6, <2>7, <2>8, <2>9, <2>10
<1>7. CASE RetryFailed(p)
  <2>1. recorder'[p].queue = Append(Tail(q), Head(q))
    BY <1>1, <1>7 DEF RetryFailed, RecorderTypes
  <2>2. \A i : InQueue(p, i, entry)' <=>
                 \/ i \in 1..(n - 1) /\ InQueue(p, i + 1, entry)
                 \/ i = n /\ InQueue(p, 1, entry)
    <3> HIDE DEF n
    <3>1. \A i \in 1..(n - 1) : i + 1 \in 1..n
      BY <1>2
    <3>2. 1 \in 1..n /\ \A i : i \in 1..n <=> i \in 1..(n - 1) \/ i = n
      BY <1>2
    <3>3. n \notin 1..(n - 1)
      BY <1>2
    <3> QED BY <1>2, <2>1, <3>1, <3>2, <3>3 DEF InQueue
  <2> DEFINE f == [x \in M |-> IF x = <<p, 1>> THEN <<p, n>>
                               ELSE IF x[1] = p /\ x[2] # 0 THEN <<p, x[2] - 1>> ELSE x]
  <2> HIDE DEF q, n
  <2>3. InMemory(entry)' \subseteq {f[x] : x \in M}
    <3> SUFFICES ASSUME NEW y \in InMemory(entry)' PROVE \E x \in M : y = f[x]
      OBVIOUS
    <3>1. CASE \E i : y = <<p, i>> /\ InQueue(p, i, entry)'
      <4>1. PICK i : y = <<p, i>> /\ InQueue(p, i, entry)'
        BY <3>1
      <4>2. CASE i \in 1..(n - 1) /\ InQueue(p, i + 1, entry)
        <5>1. i + 1 # 1 /\ i + 1 # 0 /\ (i + 1) - 1 = i
          BY <1>2, <4>2
        <5>2. <<p, i + 1>> \in M
          BY <4>2, InMemoryIs
        <5> QED BY <4>1, <5>1, <5>2
      <4>3. CASE i = n /\ InQueue(p, 1, entry)
        <5>1. <<p, 1>> \in M
          BY <4>3, InMemoryIs
        <5> QED BY <4>1, <4>3, <5>1
      <4> QED BY <2>2, <4>1, <4>2, <4>3
    <3>2. CASE ~\E i : y = <<p, i>> /\ InQueue(p, i, entry)'
      <4>1. y \in M /\ (y[1] = p => y[2] = 0) /\ y # <<p, 1>>
        BY <1>3, <1>4, <1>5, <3>2, InMemoryIs, InMemoryIsNext
      <4> QED BY <4>1
    <3> QED BY <3>1, <3>2
  <2>4. ASSUME M # {} PROVE InMemory(entry)' # {}
    <3>1. PICK x \in M : TRUE
      BY <2>4
    <3>2. CASE \E i : x = <<p, i>> /\ InQueue(p, i, entry)
      <4>1. PICK i : x = <<p, i>> /\ InQueue(p, i, entry)
        BY <3>2
      <4>2. i \in 1..n
        BY <1>4, <4>1
      <4>3. CASE i = 1
        BY <2>2, <4>1, <4>3, InMemoryIsNext
      <4>4. CASE i # 1
        <5>1. i - 1 \in 1..(n - 1) /\ (i - 1) + 1 = i
          BY <1>2, <4>2, <4>4
        <5>2. InQueue(p, i - 1, entry)'
          BY <2>2, <4>1, <5>1
        <5> QED BY <5>2, InMemoryIsNext
      <4> QED BY <4>3, <4>4
    <3>3. CASE ~\E i : x = <<p, i>> /\ InQueue(p, i, entry)
      BY <1>3, <1>4, <3>1, <3>3, InMemoryIs, InMemoryIsNext
    <3> QED BY <3>2, <3>3
  <2>5. entry \in saving[p].aggr => M # {}
    BY <1>4, InMemoryIs
  <2>6. DOMAIN f = M /\ M \in SUBSET M
    OBVIOUS
  <2> HIDE DEF f
  <2>7. /\ IsFiniteSet(InMemory(entry)')
        /\ Cardinality(InMemory(entry)') <= Cardinality(InMemory(entry))
        /\ InMemory(entry)' # {} => InMemory(entry) # {}
    BY <2>3, <2>6, MovedSize
  <2>8. ~FinishSaving(p)
    <3>1. ASSUME FinishSaving(p) PROVE FALSE
      <4>1. recorder'[p].queue = Tail(q)
        BY <1>1, <3>1 DEF FinishSaving, RecorderTypes, q
      <4>2. DOMAIN Tail(q) # DOMAIN Append(Tail(q), Head(q))
        BY <1>2
      <4> QED BY <2>1, <4>1, <4>2
    <3> QED BY <3>1
  <2> QED BY <1>7, <2>4, <2>5, <2>7, <2>8
<1> QED BY <1>6, <1>7

\* Memory that loses places.
LEMMA LostSize ==
  ASSUME NEW M, IsFiniteSet(M), NEW N, N \subseteq M
  PROVE  /\ IsFiniteSet(N) /\ Cardinality(N) <= Cardinality(M)
         /\ N # M => Cardinality(N) < Cardinality(M)
         /\ N # {} => M # {}
<1>1. IsFiniteSet(N) /\ Cardinality(N) <= Cardinality(M) /\ (Cardinality(N) = Cardinality(M) => N = M)
  BY FS_Subset
<1>2. Cardinality(N) \in Nat /\ Cardinality(M) \in Nat
  BY <1>1, FS_CardinalityType
<1>3. N # {} => M # {}
  OBVIOUS
<1> QED BY <1>1, <1>2, <1>3

\* What an insert that fails, or a process that dies, adds to the faults.
LEMMA FaultGrows ==
  ASSUME TypeOK, NEW kind, Fault(kind)
  PROVE  /\ faults'["unconfirmed"] \in Nat /\ faults'["unconfirmed"] >= faults["unconfirmed"]
         /\ kind = "unconfirmed" => faults'["unconfirmed"] >= faults["unconfirmed"] + 1
<1>1. /\ faults \in [FaultKinds -> 0..MaxFaults] /\ kind \in FaultKinds
      /\ {"unconfirmed", "crash", "failed"} = FaultKinds
  BY RecorderAssumption DEF TypeOK, Fault, FaultKinds
<1>2. faults' = [faults EXCEPT ![kind] = faults[kind] + 1]
  BY DEF Fault
<1>3. faults["unconfirmed"] \in Nat /\ faults["crash"] \in Nat /\ faults["failed"] \in Nat
  BY FaultsType
<1> QED BY <1>1, <1>2, <1>3

\* An insert ends, and with it what its owner still had of it in memory.
LEMMA EndSettles ==
  ASSUME HeldInv, NEW o \in Owners, Save(o) \/ FailToSave(o),
         NEW entry, IsFiniteSet(InMemory(entry))
  PROVE  Settled(entry)
<1> DEFINE M == InMemory(entry)
           N == InMemory(entry)'
<1>1. /\ saving[o] # None /\ saving' = [saving EXCEPT ![o] = None]
      /\ TypeInv /\ TypeOK /\ saving \in [Owners -> InsertTypes \cup {None}]
  BY DEF Save, FailToSave, HeldInv, TypeInv, TypeOK, Owners
<1>2. \/ FinishSaving(o) /\ col' = Append(col, saving[o]) /\ UNCHANGED faults
      \/ RetryFailed(o) /\ Fault("failed") /\ UNCHANGED col
      \/ RetryFailed(o) /\ Fault("unconfirmed") /\ col' = Append(col, saving[o])
  BY DEF Save, FailToSave
<1>3. faults["unconfirmed"] \in Nat
  BY <1>1, FaultsType
<1>4. faults'["unconfirmed"] \in Nat /\ faults'["unconfirmed"] >= faults["unconfirmed"]
  BY <1>1, <1>2, <1>3, FaultGrows
<1>5. CASE o \in Processes
  <2>1. /\ IsFiniteSet(N) /\ Cardinality(N) <= Cardinality(M) /\ (N # {} => M # {})
        /\ RetryFailed(o) => (M # {} => N # {})
        /\ FinishSaving(o) /\ entry \notin saving[o].aggr => (M # {} => N # {})
        /\ entry \in saving[o].aggr => M # {}
        /\ entry \in saving[o].aggr /\ FinishSaving(o) => Cardinality(N) < Cardinality(M)
    BY <1>1, <1>2, <1>5, QueueGoesOn
  <2> HIDE DEF M, N
  <2>2. CASE FinishSaving(o) /\ col' = Append(col, saving[o]) /\ UNCHANGED faults
    BY <1>1, <1>4, <2>1, <2>2, SaveSettled DEF M, N
  <2>3. CASE RetryFailed(o) /\ Fault("failed") /\ UNCHANGED col
    BY <1>1, <1>4, <2>1, <2>3, MoveSettled DEF M, N
  <2>4. CASE RetryFailed(o) /\ Fault("unconfirmed") /\ col' = Append(col, saving[o])
    <3>1. faults'["unconfirmed"] >= faults["unconfirmed"] + 1
      BY <1>1, <2>4, FaultGrows
    <3> QED BY <1>1, <1>4, <2>1, <2>4, <3>1, SaveSettled DEF M, N
  <2> QED BY <1>2, <2>2, <2>3, <2>4
<1>6. CASE o \notin Processes
  <2>1. o \in Requests /\ ~throttled /\ UNCHANGED recorder
    BY <1>1, <1>2, <1>6 DEF Owners, HeldInv, FinishSaving, RetryFailed
  <2>2. N \subseteq M /\ (entry \in saving[o].aggr => <<o, 0>> \in M /\ <<o, 0>> \notin N)
    <3>1. saving'[o] = None /\ \A a \in Owners \ {o} : saving'[a] = saving[a]
      BY <1>1
    <3>2. ~InInsert(o, entry)' /\ \A a \in Requests \ {o} : InInsert(a, entry)' <=> InInsert(a, entry)
      BY <2>1, <3>1 DEF InInsert, Owners
    <3>3. /\ \A p \in Processes : InAggr(p, entry)' <=> InAggr(p, entry)
          /\ \A p \in Processes : \A i : InQueue(p, i, entry)' <=> InQueue(p, i, entry)
      BY <2>1 DEF InAggr, InQueue
    <3>4. \A x : x \in N => x \in M
      BY <3>2, <3>3, InMemoryIs, InMemoryIsNext
    <3>5. entry \in saving[o].aggr => <<o, 0>> \in M
      BY <1>1, <2>1, InMemoryIs DEF InInsert
    <3>6. <<o, 0>> \notin N
      BY <1>6, <3>2, InMemoryIsNext
    <3> QED BY <3>4, <3>5, <3>6
  <2> HIDE DEF M, N
  <2>3. /\ IsFiniteSet(N) /\ Cardinality(N) <= Cardinality(M) /\ (N # {} => M # {})
        /\ entry \in saving[o].aggr => M # {} /\ Cardinality(N) < Cardinality(M)
    BY <2>2, LostSize DEF M
  <2>4. CASE col' = Append(col, saving[o])
    BY <1>1, <1>4, <2>1, <2>3, <2>4, SaveSettled DEF M, N
  <2>5. CASE UNCHANGED col
    BY <1>1, <1>4, <2>1, <2>3, <2>5, MoveSettled DEF M, N
  <2> QED BY <1>2, <2>4, <2>5
<1> QED BY <1>5, <1>6

\* A process dies: what was in its memory is lost, but for one insert that may have
\* been applied.
LEMMA CrashSettles ==
  ASSUME HeldInv, NEW p \in Processes, Crash(p), NEW entry, IsFiniteSet(InMemory(entry))
  PROVE  Settled(entry)
<1> DEFINE waiting == {r \in Requests : req[r].at = p /\ req[r].pc \notin Answered}
           ours == {o \in {p} \cup waiting : saving[o] # None}
           M == InMemory(entry)
           N == InMemory(entry)'
<1>1. /\ Fault("crash")
      /\ recorder' = [recorder EXCEPT ![p] = NewRecorder]
      /\ saving' = [o \in DOMAIN saving |-> IF o \in ours THEN None ELSE saving[o]]
      /\ UNCHANGED col \/ \E o \in ours : col' = Append(col, saving[o])
  BY DEF Crash
<1>2. /\ TypeInv /\ TypeOK /\ saving \in [Owners -> InsertTypes \cup {None}]
      /\ recorder \in [Processes -> RecorderTypes] /\ Processes \cap Requests = {}
  BY RecorderAssumption DEF HeldInv, TypeInv, TypeOK, Owners
<1>3. ours \subseteq {o \in Owners : saving[o] # None /\ (o = p \/ o \in Requests)}
  BY DEF Owners
<1> HIDE DEF waiting, ours
<1>4. faults'["unconfirmed"] \in Nat /\ faults'["unconfirmed"] >= faults["unconfirmed"]
  BY <1>1, <1>2, FaultGrows
<1>5. /\ recorder'[p].aggr = {} /\ recorder'[p].queue = <<>>
      /\ \A o \in Processes \ {p} : recorder'[o] = recorder[o]
      /\ \A r \in Requests : saving'[r] = IF r \in ours THEN None ELSE saving[r]
  BY <1>1, <1>2 DEF NewRecorder, Owners
<1>6. /\ ~InAggr(p, entry)' /\ \A i : ~InQueue(p, i, entry)'
      /\ \A o \in Processes \ {p} : InAggr(o, entry)' <=> InAggr(o, entry)
      /\ \A o \in Processes \ {p} : \A i : InQueue(o, i, entry)' <=> InQueue(o, i, entry)
      /\ \A r \in Requests : InInsert(r, entry)' <=> InInsert(r, entry) /\ r \notin ours
  <2>1. DOMAIN recorder'[p].queue = {}
    BY <1>5
  <2> QED BY <1>5, <2>1 DEF InAggr, InQueue, InInsert
<1>7. N \subseteq M
  <2>1. \A x : x \in N => x \in M
    BY <1>6, InMemoryIs, InMemoryIsNext
  <2> QED BY <2>1
<1>8. ASSUME NEW o \in ours, entry \in saving[o].aggr
      PROVE  N # M /\ M # {}
  <2>1. CASE o = p
    <3>1. recorder[p].queue # <<>> /\ saving[p].aggr = Head(recorder[p].queue)
      BY <1>3, <2>1 DEF HeldInv, TypeInv, MemoryInv
    <3>2. 1 \in DOMAIN recorder[p].queue /\ Head(recorder[p].queue) = recorder[p].queue[1]
      BY <1>2, <3>1, QueueElements
    <3>3. <<p, 1>> \in M
      BY <1>8, <2>1, <3>1, <3>2, InMemoryIs DEF InQueue
    <3>4. <<p, 1>> \notin N
      BY <1>6, InMemoryIsNext
    <3> QED BY <3>3, <3>4
  <2>2. CASE o # p
    <3>1. o \in Requests /\ saving[o] # None
      BY <1>3, <2>2
    <3>2. <<o, 0>> \in M
      BY <1>8, <3>1, InMemoryIs DEF InInsert
    <3>3. <<o, 0>> \notin N
      BY <1>2, <1>6, <1>8, <3>1, InMemoryIsNext
    <3> QED BY <3>2, <3>3
  <2> QED BY <2>1, <2>2
<1>12. throttled => M = {} \/ N # {} \/ Dies(entry)
  <2> SUFFICES ASSUME throttled, NEW x \in M, ~KeptBy(p, entry)
               PROVE  x \in N
    BY DEF Dies
  <2>1. \A r \in Requests : ~InInsert(r, entry)
    BY DEF HeldInv, InInsert
  <2>2. \/ \E o \in Processes : x = <<o, 0>> /\ InAggr(o, entry)
        \/ \E o \in Processes : \E i : x = <<o, i>> /\ InQueue(o, i, entry)
    BY <2>1, InMemoryIs
  <2>3. \/ \E o \in Processes : x = <<o, 0>> /\ InAggr(o, entry)'
        \/ \E o \in Processes : \E i : x = <<o, i>> /\ InQueue(o, i, entry)'
    BY <1>6, <2>2 DEF KeptBy
  <2> QED BY <2>3, InMemoryIsNext
<1> HIDE DEF M, N
<1>9. /\ IsFiniteSet(N) /\ Cardinality(N) <= Cardinality(M) /\ (N # {} => M # {})
      /\ N # M => Cardinality(N) < Cardinality(M)
  BY <1>7, LostSize DEF M
<1>10. CASE UNCHANGED col
  BY <1>2, <1>4, <1>9, <1>10, <1>12, MoveSettled DEF M, N
<1>11. CASE \E o \in ours : col' = Append(col, saving[o])
  <2>1. PICK o \in ours : col' = Append(col, saving[o])
    BY <1>11
  <2>2. o \in Owners /\ saving[o] # None
    BY <1>3
  <2>3. entry \in saving[o].aggr => M # {} /\ Cardinality(N) < Cardinality(M)
    BY <1>8, <1>9
  <2> QED BY <1>2, <1>4, <1>9, <1>12, <2>1, <2>2, <2>3, SaveSettled DEF M, N
<1> QED BY <1>1, <1>10, <1>11

\* A step that leaves aggregates, queues, inserts of requests and what is saved alone.
LEMMA QuietSettles ==
  ASSUME HeldInv, UNCHANGED <<col, faults>>,
         \A p \in Processes : /\ recorder'[p].aggr = recorder[p].aggr
                              /\ recorder'[p].queue = recorder[p].queue,
         \A r \in Requests : saving'[r] = saving[r],
         NEW entry, IsFiniteSet(InMemory(entry))
  PROVE  Settled(entry)
<1>1. /\ \A p \in Processes : InAggr(p, entry)' <=> InAggr(p, entry)
      /\ \A p \in Processes : \A i : InQueue(p, i, entry)' <=> InQueue(p, i, entry)
      /\ \A r \in Requests : InInsert(r, entry)' <=> InInsert(r, entry)
  BY DEF InAggr, InQueue, InInsert
<1>2. \A x : x \in InMemory(entry)' <=> x \in InMemory(entry)
  BY <1>1, InMemoryIs, InMemoryIsNext
<1>3. InMemory(entry)' = InMemory(entry)
  BY <1>2
<1> QED BY <1>3, StillSettled DEF HeldInv, TypeInv

\* What record() does with the events of a request, whichever way.
Record(r) == RecordThrottled(r) \/ RecordAndSave(r)

\* An event that is not r's own may move from the aggregate to r's insert.
LEMMA RecordSettles ==
  ASSUME HeldInv, NEW r \in Requests, Record(r), NEW entry, IsFiniteSet(InMemory(entry)),
         entry \notin Earned(r, req[r].rules)
  PROVE  Settled(entry)
<1> DEFINE M == InMemory(entry)
           N == InMemory(entry)'
<1>1. /\ TypeInv /\ TypeOK /\ saving \in [Owners -> InsertTypes \cup {None}]
      /\ recorder \in [Processes -> RecorderTypes] /\ Processes \cap Requests = {}
  BY RecorderAssumption DEF HeldInv, TypeInv, TypeOK, Owners
<1>2. Ready(r) /\ UNCHANGED <<col, faults>>
  BY DEF Record, RecordThrottled, RecordAndSave
<1>3. PICK p \in Processes : p = req[r].at /\ recorder[p] \in RecorderTypes
  BY <1>1, <1>2, AggregateType
<1>4. CASE RecordThrottled(r)
  <2>1. /\ recorder'[p].aggr = Aggregate(r) /\ recorder'[p].queue = recorder[p].queue
        /\ \A o \in Processes \ {p} : recorder'[o] = recorder[o]
        /\ UNCHANGED saving
    BY <1>1, <1>3, <1>4 DEF RecordThrottled, RecorderTypes
  <2>2. /\ \A o \in Processes : InAggr(o, entry)' <=> InAggr(o, entry)
        /\ \A o \in Processes : \A i : InQueue(o, i, entry)' <=> InQueue(o, i, entry)
        /\ \A s \in Requests : InInsert(s, entry)' <=> InInsert(s, entry)
    BY <1>3, <2>1 DEF InAggr, InQueue, InInsert, Aggregate
  <2>3. \A x : x \in InMemory(entry)' <=> x \in InMemory(entry)
    BY <2>2, InMemoryIs, InMemoryIsNext
  <2>4. InMemory(entry)' = InMemory(entry)
    BY <2>3
  <2> QED BY <1>1, <1>2, <2>4, StillSettled
<1>5. CASE RecordAndSave(r)
  <2>1. /\ recorder'[p].aggr = {} /\ recorder'[p].queue = recorder[p].queue
        /\ \A o \in Processes \ {p} : recorder'[o] = recorder[o]
        /\ saving'[r].aggr = Aggregate(r) /\ ~throttled
        /\ \A o \in Owners \ {r} : saving'[o] = saving[o]
    BY <1>1, <1>3, <1>5 DEF RecordAndSave, RecorderTypes, Insert, Owners
  <2>2. saving[r] = None
    BY <1>2 DEF HeldInv, Ready, Checked, At
  <2> DEFINE f == [x \in M |-> IF x = <<p, 0>> THEN <<r, 0>> ELSE x]
  <2>3. /\ ~InAggr(p, entry)' /\ ~InInsert(r, entry)
        /\ InInsert(r, entry)' => InAggr(p, entry)
        /\ \A o \in Processes \ {p} : InAggr(o, entry)' <=> InAggr(o, entry)
        /\ \A o \in Processes : \A i : InQueue(o, i, entry)' <=> InQueue(o, i, entry)
        /\ \A i : InQueue(p, i, entry) => i # 0
        /\ \A s \in Requests \ {r} : InInsert(s, entry)' <=> InInsert(s, entry)
    <3>5. \A o \in Processes : recorder'[o].queue = recorder[o].queue
      BY <2>1
    <3>1. /\ ~InAggr(p, entry)'
          /\ \A o \in Processes \ {p} : InAggr(o, entry)' <=> InAggr(o, entry)
          /\ \A o \in Processes : \A i : InQueue(o, i, entry)' <=> InQueue(o, i, entry)
      BY <2>1, <3>5 DEF InAggr, InQueue
    <3>2. ~InInsert(r, entry) /\ (InInsert(r, entry)' => InAggr(p, entry))
      BY <1>3, <2>1, <2>2 DEF InInsert, InAggr, Aggregate
    <3>3. \A s \in Requests \ {r} : InInsert(s, entry)' <=> InInsert(s, entry)
      BY <2>1 DEF InInsert, Owners
    <3>4. 0 \notin DOMAIN recorder[p].queue
      BY <1>1, <1>3, QueueElements
    <3> QED BY <3>1, <3>2, <3>3, <3>4 DEF InQueue
  <2>4. N \subseteq {f[x] : x \in M}
    <3> SUFFICES ASSUME NEW y \in N PROVE \E x \in M : y = f[x]
      OBVIOUS
    <3>1. CASE y = <<r, 0>>
      <4>1. InAggr(p, entry)
        BY <1>1, <2>3, <3>1, InMemoryIsNext
      <4>2. <<p, 0>> \in M
        BY <1>3, <4>1, InMemoryIs
      <4> QED BY <3>1, <4>2
    <3>2. CASE y # <<r, 0>>
      <4>2. \/ \E o \in Processes \ {p} : y = <<o, 0>> /\ InAggr(o, entry)
            \/ \E o \in Processes : \E i : y = <<o, i>> /\ InQueue(o, i, entry)
            \/ \E s \in Requests \ {r} : y = <<s, 0>> /\ InInsert(s, entry)
        BY <2>3, <3>2, InMemoryIsNext
      <4>3. y \in M
        BY <4>2, InMemoryIs
      <4>4. y # <<p, 0>>
        BY <1>1, <1>3, <2>3, <4>2
      <4>1. y \in M /\ y # <<p, 0>>
        BY <4>3, <4>4
      <4> QED BY <4>1
    <3> QED BY <3>1, <3>2
  <2>5. DOMAIN f = M /\ M \in SUBSET M
    OBVIOUS
  <2> HIDE DEF f
  <2>6. IsFiniteSet(N) /\ Cardinality(N) <= Cardinality(M) /\ (N # {} => M # {})
    BY <2>4, <2>5, MovedSize
  <2>7. faults'["unconfirmed"] \in Nat /\ faults'["unconfirmed"] >= faults["unconfirmed"]
    BY <1>1, <1>2, FaultsType
  <2> HIDE DEF M, N
  <2> QED BY <1>1, <1>2, <2>1, <2>6, <2>7, MoveSettled DEF M, N
<1> QED BY <1>4, <1>5 DEF Record

\* An event that is recorded is in one place from then on: the aggregate, or with it
\* the insert of the request.
LEMMA RecordPlaces ==
  ASSUME HeldInv, NEW r \in Requests, Record(r), NEW entry \in Earned(r, req[r].rules)
  PROVE  /\ entry \in Entries /\ entry[1] = r /\ ~Held(entry) /\ Saved(entry)' = {}
         /\ \E place : InMemory(entry)' = {place}
<1> DEFINE N == InMemory(entry)'
<1>1. /\ TypeInv /\ TypeOK /\ saving \in [Owners -> InsertTypes \cup {None}]
      /\ recorder \in [Processes -> RecorderTypes] /\ Processes \cap Requests = {}
  BY RecorderAssumption DEF HeldInv, TypeInv, TypeOK, Owners
<1>2. Ready(r) /\ UNCHANGED <<col, faults>>
  BY DEF Record, RecordThrottled, RecordAndSave
<1>3. PICK p \in Processes : p = req[r].at /\ recorder[p] \in RecorderTypes
  BY <1>1, <1>2, AggregateType
<1>4. entry \in Entries /\ entry[1] = r
  BY EarnedType DEF Earned
<1>5. ~Held(entry)
  BY <1>2, <1>4 DEF HeldInv, Ready, Checked, At, Early
<1>6. Saved(entry)' = {}
  BY <1>2, <1>5 DEF Held, Saved
<1>7. /\ \A o \in Processes : ~InAggr(o, entry) /\ \A i : ~InQueue(o, i, entry)
      /\ \A s \in Requests : ~InInsert(s, entry)
  BY <1>5, InMemoryIs DEF Held
<1>8. CASE RecordThrottled(r)
  <2>1. /\ recorder'[p].aggr = Aggregate(r) /\ recorder'[p].queue = recorder[p].queue
        /\ \A o \in Processes \ {p} : recorder'[o] = recorder[o]
        /\ UNCHANGED saving /\ throttled
    BY <1>1, <1>3, <1>8 DEF RecordThrottled, RecorderTypes
  <2>5. entry \in Aggregate(r)
    BY DEF Aggregate
  <2>6. \A o \in Processes : recorder'[o].queue = recorder[o].queue
    BY <2>1
  <2>2. /\ InAggr(p, entry)' /\ \A o \in Processes \ {p} : ~InAggr(o, entry)'
        /\ \A o \in Processes : \A i : ~InQueue(o, i, entry)'
        /\ \A s \in Requests : ~InInsert(s, entry)'
    BY <1>7, <2>1, <2>5, <2>6 DEF InAggr, InQueue, InInsert
  <2>3. \A x : x \in N <=> x = <<p, 0>>
    BY <1>3, <2>2, InMemoryIsNext
  <2>4. N = {<<p, 0>>}
    BY <2>3
  <2> QED BY <1>3, <1>4, <1>5, <1>6, <2>1, <2>4
<1>9. CASE RecordAndSave(r)
  <2>1. /\ recorder'[p].aggr = {} /\ recorder'[p].queue = recorder[p].queue
        /\ \A o \in Processes \ {p} : recorder'[o] = recorder[o]
        /\ saving'[r] = Insert(p, Aggregate(r)) /\ ~throttled
        /\ \A o \in Owners \ {r} : saving'[o] = saving[o]
    BY <1>1, <1>3, <1>9 DEF RecordAndSave, RecorderTypes, Owners
  <2>2. saving'[r] # None /\ entry \in saving'[r].aggr
    <3>1. /\ Aggregate(r) \in SUBSET Entries /\ clock + 1 \in Nat
          /\ saving'[r] = [by |-> p, aggr |-> Aggregate(r), created |-> clock + 1]
      BY <1>1, <1>2, <2>1, AggregateType DEF TypeOK, Insert
    <3>2. saving'[r] \in [by : Processes, aggr : SUBSET Entries, created : Nat]
      BY <1>3, <3>1
    <3>3. entry \in Aggregate(r)
      BY DEF Aggregate
    <3> QED BY <3>1, <3>2, <3>3, RecorderAssumption
  <2>3. /\ \A o \in Processes : ~InAggr(o, entry)'
        /\ \A o \in Processes : \A i : ~InQueue(o, i, entry)'
        /\ InInsert(r, entry)' /\ \A s \in Requests \ {r} : ~InInsert(s, entry)'
    BY <1>7, <2>1, <2>2 DEF InAggr, InQueue, InInsert, Owners
  <2>4. \A x : x \in N <=> x = <<r, 0>>
    BY <2>3, InMemoryIsNext
  <2>5. N = {<<r, 0>>}
    BY <2>4
  <2> QED BY <1>4, <1>5, <1>6, <2>1, <2>5
<1> QED BY <1>8, <1>9 DEF Record

-----------------------------------------------------------------------------
(* Every step.                                                              *)

\* A request's steps but for the one that records it.
Answers(r) ==
  \/ \E key \in req[r].ask : AskLimit(r, key)
  \/ \E key \in req[r].set : SetLimit(r, key)
  \/ RefuseTooMany(r) \/ RefuseNoPayout(r) \/ RecordNothing(r)
  \/ UpdateTargeting(r)

\* Steps that leave requests, aggregates and queues alone, and what is saved.
Aside ==
  \/ \E p \in Processes : StartSaving(p) \/ RefreshChannel(p)
  \/ Merge \/ Exhaust \/ PassTime \/ \E key \in limits : ExpireLimit(key)
  \/ UNCHANGED vars

LEMMA StepIs ==
  ASSUME [Next]_vars
  PROVE  \/ \E r \in Requests, p \in Processes : Receive(r, p)
         \/ \E r \in Requests : Answers(r)
         \/ \E r \in Requests : Record(r)
         \/ \E p \in Processes : Throttle(p)
         \/ \E p \in Processes : Crash(p)
         \/ \E o \in Owners : Save(o) \/ FailToSave(o)
         \/ Aside
BY DEF Next, RequestStep, Answers, Record, Aside, Owners

LEMMA AsideIs ==
  ASSUME TypeOK, Aside
  PROVE  /\ UNCHANGED <<req, throttled, col, faults>>
         /\ \A p \in Processes : /\ recorder'[p].aggr = recorder[p].aggr
                                 /\ recorder'[p].queue = recorder[p].queue
         /\ \A r \in Requests : saving'[r] = saving[r]
<1>1. recorder \in [Processes -> RecorderTypes] /\ saving \in [Owners -> InsertTypes \cup {None}]
  BY DEF TypeOK, Owners
<1>2. ASSUME NEW p \in Processes, StartSaving(p)
      PROVE  \A r \in Requests : saving'[r] = saving[r]
  BY <1>1, <1>2, RecorderAssumption DEF StartSaving, Owners
<1>3. ASSUME NEW p \in Processes, RefreshChannel(p), NEW o \in Processes
      PROVE  recorder'[o].aggr = recorder[o].aggr /\ recorder'[o].queue = recorder[o].queue
  <2>1. recorder' = [recorder EXCEPT ![p].channel = channel] /\ recorder[p] \in RecorderTypes
    BY <1>1, <1>3 DEF RefreshChannel
  <2>2. CASE o = p
    BY <1>1, <2>1, <2>2 DEF RecorderTypes
  <2>3. CASE o # p
    BY <1>1, <2>1, <2>3
  <2> QED BY <2>2, <2>3
<1>4. UNCHANGED <<req, throttled, col, faults>>
  BY DEF Aside, StartSaving, RefreshChannel, Merge, Exhaust, PassTime, ExpireLimit, vars, db, memory
<1>5. \A p \in Processes : /\ recorder'[p].aggr = recorder[p].aggr
                           /\ recorder'[p].queue = recorder[p].queue
  BY <1>3 DEF Aside, StartSaving, Merge, Exhaust, PassTime, ExpireLimit, vars, db, memory
<1>6. \A r \in Requests : saving'[r] = saving[r]
  BY <1>2 DEF Aside, RefreshChannel, Merge, Exhaust, PassTime, ExpireLimit, vars, db, memory
<1> QED BY <1>4, <1>5, <1>6

\* What may become of an event in a step.
LEMMA NextSettles ==
  ASSUME HeldInv, [Next]_vars, NEW entry, IsFiniteSet(InMemory(entry))
  PROVE  \/ Settled(entry)
         \/ \E r \in Requests : Record(r) /\ entry \in Earned(r, req[r].rules)
<1>1. CASE \E r \in Requests, p \in Processes : Receive(r, p)
  BY <1>1, QuietSettles DEF Receive, db
<1>2. CASE \E r \in Requests : Answers(r)
  <2>1. UNCHANGED <<recorder, saving, col, faults>>
    BY <1>2 DEF Answers, AskLimit, SetLimit, RefuseTooMany, RefuseNoPayout, RecordNothing,
                UpdateTargeting, db
  <2> QED BY <2>1, QuietSettles
<1>3. CASE \E r \in Requests : Record(r)
  BY <1>3, RecordSettles
<1>4. CASE \E p \in Processes : Throttle(p)
  BY <1>4, ThrottleSettles
<1>5. CASE \E p \in Processes : Crash(p)
  BY <1>5, CrashSettles
<1>6. CASE \E o \in Owners : Save(o) \/ FailToSave(o)
  BY <1>6, EndSettles
<1>7. CASE Aside
  <2>1. TypeOK
    BY DEF HeldInv, TypeInv
  <2> QED BY <1>7, <2>1, AsideIs, QuietSettles
<1> QED BY <1>1, <1>2, <1>3, <1>4, <1>5, <1>6, <1>7, StepIs

\* What may become of a request: its answer, its insert and what it has earned.
Rests(r) == req'[r].pc = req[r].pc /\ req'[r].earned = req[r].earned /\ saving'[r] = saving[r]

Proceeds(r) ==
  /\ req[r].pc \in Early /\ req'[r].pc \in Early \cup {"refused", "ok"}
  /\ req'[r].earned = req[r].earned /\ saving'[r] = saving[r]

IsRecorded(r) ==
  /\ Record(r) /\ req[r].pc \in Early /\ req'[r].earned = Earned(r, req[r].rules)
  /\ IF throttled THEN req'[r].pc = "ok" /\ saving'[r] = saving[r]
     ELSE /\ req'[r].pc = "saving" /\ saving'[r] # None
          /\ req'[r].earned \subseteq saving'[r].aggr

IsSaved(r) ==
  /\ saving[r] # None /\ col' = Append(col, saving[r]) /\ req'[r].pc = "ok"
  /\ saving'[r] = None /\ req'[r].earned = req[r].earned

Fails(r) == req'[r].pc = "error" /\ saving'[r] = None /\ req'[r].earned = req[r].earned

LEMMA AnswerIs ==
  ASSUME TypeOK, NEW r \in Requests, NEW answer, Answer(r, answer)
  PROVE  /\ req'[r].pc = answer /\ req'[r].earned = req[r].earned /\ req'[r].at = req[r].at
         /\ \A s \in Requests \ {r} : req'[s] = req[s]
BY DEF TypeOK, Answer, RequestTypes

LEMMA RequestAnswers ==
  ASSUME HeldInv, NEW r \in Requests, Answers(r), NEW s \in Requests
  PROVE  Rests(s) \/ Proceeds(s)
<1>1. TypeOK /\ req \in [Requests -> RequestTypes] /\ req[r] \in RequestTypes
  BY DEF HeldInv, TypeInv, TypeOK
<1>2. UNCHANGED saving
  BY DEF Answers, AskLimit, SetLimit, RefuseTooMany, RefuseNoPayout, RecordNothing,
         UpdateTargeting
<1>3. CASE \E key : AskLimit(r, key) \/ SetLimit(r, key)
  <2>1. /\ req'[r].pc = req[r].pc /\ req'[r].earned = req[r].earned
        /\ \A a \in Requests \ {r} : req'[a] = req[a]
    BY <1>1, <1>3 DEF AskLimit, SetLimit, RequestTypes
  <2> QED BY <1>2, <2>1 DEF Rests
<1>4. CASE \E answer \in {"refused", "updated", "ok"} : Answer(r, answer) /\ req[r].pc \in Early
  BY <1>1, <1>2, <1>4, AnswerIs DEF Rests, Proceeds, Early
<1> QED BY <1>3, <1>4 DEF Answers, RefuseTooMany, RefuseNoPayout, RecordNothing, UpdateTargeting,
                          Checked, Ready, At, Early

LEMMA RequestRecorded ==
  ASSUME HeldInv, NEW r \in Requests, Record(r), NEW s \in Requests
  PROVE  Rests(s) \/ IsRecorded(s)
<1>1. /\ TypeOK /\ TypeInv /\ req \in [Requests -> RequestTypes] /\ req[r] \in RequestTypes
      /\ saving \in [Owners -> InsertTypes \cup {None}]
  BY DEF HeldInv, TypeInv, TypeOK, Owners
<1>2. Ready(r) /\ req[r].pc \in Early
  BY DEF Record, RecordThrottled, RecordAndSave, Ready, Checked, At, Early
<1>3. /\ req'[r].pc = IF throttled THEN "ok" ELSE "saving"
      /\ req'[r].earned = Earned(r, req[r].rules)
      /\ \A a \in Requests \ {r} : req'[a] = req[a]
  BY <1>1 DEF Record, RecordThrottled, RecordAndSave, RequestTypes
<1>4. CASE throttled
  <2>1. UNCHANGED saving
    BY <1>4 DEF Record, RecordThrottled, RecordAndSave
  <2> QED BY <1>2, <1>3, <1>4, <2>1 DEF Rests, IsRecorded
<1>5. CASE ~throttled
  <2>1. PICK aggr : aggr = Aggregate(r)
    OBVIOUS
  <2>2. PICK p \in Processes : p = req[r].at
    BY <1>1, <1>2, AggregateType
  <2>3. aggr \in SUBSET Entries /\ clock + 1 \in Nat
    BY <1>1, <1>2, <2>1, AggregateType DEF TypeOK
  <2>4. /\ saving'[r] = [by |-> p, aggr |-> aggr, created |-> clock + 1]
        /\ \A a \in Requests \ {r} : saving'[a] = saving[a]
    BY <1>1, <1>5, <2>1, <2>2 DEF Record, RecordThrottled, RecordAndSave, Insert, Owners
  <2>5. saving'[r] # None
    BY <2>3, <2>4, RecorderAssumption
  <2>6. req'[r].earned \subseteq saving'[r].aggr
    BY <1>3, <2>1, <2>4 DEF Aggregate
  <2> QED BY <1>2, <1>3, <1>5, <2>4, <2>5, <2>6 DEF Rests, IsRecorded
<1> QED BY <1>4, <1>5

LEMMA RequestEnds ==
  ASSUME HeldInv, NEW o \in Owners, Save(o) \/ FailToSave(o), NEW s \in Requests
  PROVE  Rests(s) \/ IsSaved(s) \/ Fails(s)
<1>1. TypeOK /\ saving \in [Owners -> InsertTypes \cup {None}] /\ Processes \cap Requests = {}
  BY RecorderAssumption DEF HeldInv, TypeInv, TypeOK, Owners
<1>2. /\ saving[o] # None /\ saving'[o] = None
      /\ \A a \in Owners \ {o} : saving'[a] = saving[a]
  BY <1>1 DEF Save, FailToSave
<1>3. CASE o \in Processes
  <2>1. UNCHANGED req
    BY <1>3 DEF Save, FailToSave, FinishSaving, RetryFailed
  <2> QED BY <1>1, <1>2, <1>3, <2>1 DEF Rests, Owners
<1>4. CASE o \in Requests
  <2>1. CASE Save(o)
    <3>1. Answer(o, "ok") /\ col' = Append(col, saving[o])
      BY <1>1, <1>4, <2>1 DEF Save, FinishSaving
    <3> QED BY <1>1, <1>2, <1>4, <3>1, AnswerIs DEF Rests, IsSaved, Owners
  <2>2. CASE FailToSave(o)
    <3>1. Answer(o, "error")
      BY <1>1, <1>4, <2>2 DEF FailToSave, RetryFailed
    <3> QED BY <1>1, <1>2, <1>4, <3>1, AnswerIs DEF Rests, Fails, Owners
  <2> QED BY <2>1, <2>2
<1> QED BY <1>3, <1>4 DEF Owners

LEMMA RequestCrashes ==
  ASSUME HeldInv, NEW p \in Processes, Crash(p), NEW s \in Requests
  PROVE  Rests(s) \/ Fails(s)
<1> DEFINE waiting == {r \in Requests : req[r].at = p /\ req[r].pc \notin Answered}
           ours == {o \in {p} \cup waiting : saving[o] # None}
<1>1. saving' = [o \in DOMAIN saving |-> IF o \in ours THEN None ELSE saving[o]]
  BY DEF Crash
<1>2. /\ DOMAIN saving = Owners /\ Processes \cap Requests = {}
      /\ req \in [Requests -> RequestTypes]
  BY RecorderAssumption DEF HeldInv, TypeInv, TypeOK, Owners
<1>3. s \in ours <=> s \in waiting /\ saving[s] # None
  BY <1>2
<1>7. s \in waiting <=> req[s].at = p /\ req[s].pc \notin Answered
  OBVIOUS
<1> HIDE DEF waiting, ours
<1>4. saving'[s] = IF s \in ours THEN None ELSE saving[s]
  BY <1>1, <1>2 DEF Owners
<1>5. CASE s \in waiting
  BY <1>2, <1>3, <1>4, <1>5, <1>7, CrashIs DEF Fails
<1>6. CASE s \notin waiting
  BY <1>2, <1>3, <1>4, <1>6, <1>7, CrashIs DEF Rests
<1> QED BY <1>5, <1>6

LEMMA RequestMoves ==
  ASSUME HeldInv, [Next]_vars, NEW s \in Requests
  PROVE  Rests(s) \/ Proceeds(s) \/ IsRecorded(s) \/ IsSaved(s) \/ Fails(s)
<1>1. CASE \E r \in Requests, p \in Processes : Receive(r, p)
  <2>1. PICK r \in Requests, p \in Processes : Receive(r, p)
    BY <1>1
  <2>2. req \in [Requests -> RequestTypes]
    BY DEF HeldInv, TypeInv, TypeOK
  <2>3. /\ req[r].pc = "sent" /\ req'[r].pc \in {"refused", "checking"} /\ UNCHANGED saving
        /\ req'[r].earned = req[r].earned
        /\ \A a \in Requests \ {r} : req'[a] = req[a]
    BY <2>1, <2>2 DEF Receive, At, RequestTypes
  <2> QED BY <2>3 DEF Rests, Proceeds, Early
<1>2. CASE \E r \in Requests : Answers(r)
  BY <1>2, RequestAnswers
<1>3. CASE \E r \in Requests : Record(r)
  BY <1>3, RequestRecorded
<1>4. CASE \E p \in Processes : Throttle(p)
  BY <1>4 DEF Throttle, Rests
<1>5. CASE \E p \in Processes : Crash(p)
  BY <1>5, RequestCrashes
<1>6. CASE \E o \in Owners : Save(o) \/ FailToSave(o)
  BY <1>6, RequestEnds
<1>7. CASE Aside
  <2>1. TypeOK
    BY DEF HeldInv, TypeInv
  <2> QED BY <1>7, <2>1, AsideIs DEF Rests
<1> QED BY <1>1, <1>2, <1>3, <1>4, <1>5, <1>6, <1>7, StepIs

-----------------------------------------------------------------------------
(* Where the events are.                                                    *)

LEMMA InitHeld == Init => HeldInv /\ FiniteInv
<1> SUFFICES ASSUME Init PROVE HeldInv /\ FiniteInv
  OBVIOUS
<1>1. TypeInv
  BY InitTypeInv
<1>2. /\ recorder = [p \in Processes |-> NewRecorder]
      /\ saving = [o \in Processes \cup Requests |-> None] /\ col = <<>>
      /\ \A r \in Requests : req[r].pc = "sent" /\ req[r].earned = {}
  BY DEF Init
<1>3. ASSUME NEW entry \in Entries PROVE Saved(entry) = {} /\ InMemory(entry) = {}
  <2>1. Saved(entry) = {}
    BY <1>2 DEF Saved
  <2>2. \A p \in Processes : ~InAggr(p, entry) /\ \A i : ~InQueue(p, i, entry)
    BY <1>2 DEF InAggr, InQueue, NewRecorder
  <2>3. \A r \in Requests : ~InInsert(r, entry)
    BY <1>2 DEF InInsert
  <2>4. \A x : x \notin InMemory(entry)
    BY <2>2, <2>3, InMemoryIs
  <2> QED BY <2>1, <2>4
<1>4. FiniteInv
  BY <1>3, FS_EmptySet DEF FiniteInv
<1>5. HeldInv
  BY <1>1, <1>2, <1>3 DEF HeldInv, At, Held, Early
<1> QED BY <1>4, <1>5

\* An insert of a process stays the first of its queue until it ends.
LEMMA HeadStays ==
  ASSUME HeldInv, [Next]_vars, NEW p \in Processes, saving'[p] # None
  PROVE  saving'[p].aggr = Head(recorder'[p].queue)
<1>1. /\ TypeOK /\ TypeInv /\ saving \in [Owners -> InsertTypes \cup {None}]
      /\ recorder \in [Processes -> RecorderTypes] /\ Processes \cap Requests = {}
  BY RecorderAssumption DEF HeldInv, TypeInv, TypeOK, Owners
<1>2. CASE saving'[p] = saving[p] /\ recorder'[p].queue = recorder[p].queue
  BY <1>2 DEF HeldInv
<1>3. CASE \E r \in Requests, o \in Processes : Receive(r, o)
  BY <1>2, <1>3 DEF Receive
<1>4. CASE \E r \in Requests : Answers(r)
  <2>1. UNCHANGED <<recorder, saving>>
    BY <1>4 DEF Answers, AskLimit, SetLimit, RefuseTooMany, RefuseNoPayout, RecordNothing,
                UpdateTargeting
  <2> QED BY <1>2, <2>1
<1>5. CASE \E r \in Requests : Record(r)
  <2>1. PICK r \in Requests : Record(r)
    BY <1>5
  <2>2. PICK o \in Processes : o = req[r].at /\ recorder[o] \in RecorderTypes
    BY <1>1, <2>1, AggregateType DEF Record, RecordThrottled, RecordAndSave
  <2>3. saving'[p] = saving[p]
    BY <1>1, <2>1 DEF Record, RecordThrottled, RecordAndSave, Owners
  <2>4. recorder'[p].queue = recorder[p].queue
    <3>1. \/ recorder' = [recorder EXCEPT ![o].aggr = Aggregate(r), ![o].armed = TRUE]
          \/ recorder' = [recorder EXCEPT ![o].aggr = {}]
      BY <2>1, <2>2 DEF Record, RecordThrottled, RecordAndSave
    <3>2. CASE o = p
      BY <1>1, <2>2, <3>1, <3>2 DEF RecorderTypes
    <3>3. CASE o # p
      BY <1>1, <3>1, <3>3
    <3> QED BY <3>2, <3>3
  <2> QED BY <1>2, <2>3, <2>4
<1>6. CASE \E o \in Processes : Throttle(o)
  <2>1. PICK o \in Processes : Throttle(o)
    BY <1>6
  <2>2. UNCHANGED saving
    BY <2>1 DEF Throttle
  <2>3. CASE o # p
    BY <1>1, <1>2, <2>1, <2>2, <2>3 DEF Throttle, PersistAndReset
  <2>4. CASE o = p
    <3> DEFINE q == recorder[p].queue
               aggr == recorder[p].aggr
    <3>1. recorder'[p].queue = Append(q, aggr)
      BY <1>1, <2>1, <2>4 DEF Throttle, PersistAndReset, RecorderTypes
    <3>2. q # <<>> /\ saving[p].aggr = Head(q)
      BY <2>2 DEF HeldInv, TypeInv, MemoryInv
    <3>3. q \in Seq(AggregateTypes) /\ Len(q) \in Nat /\ Len(q) > 0
      BY <1>1, <3>2, QueueElements
    <3>4. Head(Append(q, aggr)) = Append(q, aggr)[1] /\ Head(q) = q[1]
      <4> HIDE DEF q, aggr
      <4> QED BY <3>3
    <3>5. Append(q, aggr)[1] = q[1]
      <4> HIDE DEF q, aggr
      <4> QED BY <3>3
    <3> QED BY <2>2, <3>1, <3>2, <3>4, <3>5
  <2> QED BY <2>3, <2>4
<1>7. CASE \E o \in Processes : Crash(o)
  <2>1. PICK o \in Processes : Crash(o)
    BY <1>7
  <2> DEFINE waiting == {r \in Requests : req[r].at = o /\ req[r].pc \notin Answered}
             ours == {a \in {o} \cup waiting : saving[a] # None}
  <2>2. /\ recorder' = [recorder EXCEPT ![o] = NewRecorder]
        /\ saving' = [a \in DOMAIN saving |-> IF a \in ours THEN None ELSE saving[a]]
    BY <2>1 DEF Crash
  <2>3. o \in ours <=> saving[o] # None
    OBVIOUS
  <2> HIDE DEF ours
  <2>4. saving'[p] = saving[p] /\ p # o
    BY <1>1, <2>2, <2>3 DEF Owners
  <2> QED BY <1>1, <1>2, <2>2, <2>4
<1>8. CASE \E o \in Owners : Save(o) \/ FailToSave(o)
  <2>1. PICK o \in Owners : Save(o) \/ FailToSave(o)
    BY <1>8
  <2>2. saving' = [saving EXCEPT ![o] = None]
    BY <2>1 DEF Save, FailToSave
  <2>3. o # p /\ saving'[p] = saving[p]
    BY <1>1, <2>2 DEF Owners
  <2>4. recorder'[p] = recorder[p]
    BY <1>1, <2>1, <2>3 DEF Save, FailToSave, FinishSaving, RetryFailed
  <2> QED BY <1>2, <2>3, <2>4
<1>9. CASE Aside
  <2>1. CASE StartSaving(p)
    BY <1>1, <2>1 DEF StartSaving, Insert, memory, Owners
  <2>2. CASE ~StartSaving(p)
    <3>1. saving'[p] = saving[p]
      BY <1>1, <1>9, <2>2 DEF Aside, StartSaving, RefreshChannel, Merge, Exhaust, PassTime,
                              ExpireLimit, vars, Owners
    <3> QED BY <1>1, <1>2, <1>9, <3>1, AsideIs
  <2> QED BY <2>1, <2>2
<1> QED BY <1>3, <1>4, <1>5, <1>6, <1>7, <1>8, <1>9, StepIs

\* What no step changes, or only a few.
LEMMA WhatStays ==
  ASSUME [Next]_vars
  PROVE  /\ UNCHANGED throttled
         /\ PassTime \/ UNCHANGED phase
         /\ Exhaust \/ UNCHANGED channel \/ \E r \in Requests : UpdateTargeting(r)
         /\ (\E kind : Fault(kind)) \/ UNCHANGED faults
<1>1. CASE \E r \in Requests, p \in Processes : Receive(r, p)
  <2>1. UNCHANGED <<db, faults>>
    BY <1>1 DEF Receive
  <2> QED BY <2>1 DEF db
<1>2. CASE \E r \in Requests : Answers(r)
  <2>1. UNCHANGED <<throttled, phase, faults>>
    BY <1>2 DEF Answers, AskLimit, SetLimit, RefuseTooMany, RefuseNoPayout, RecordNothing,
                UpdateTargeting, db
  <2>2. UNCHANGED channel \/ \E r \in Requests : UpdateTargeting(r)
    BY <1>2 DEF Answers, AskLimit, SetLimit, RefuseTooMany, RefuseNoPayout, RecordNothing, db
  <2> QED BY <2>1, <2>2
<1>3. CASE \E r \in Requests : Record(r)
  <2>1. UNCHANGED <<db, faults>>
    BY <1>3 DEF Record, RecordThrottled, RecordAndSave
  <2> QED BY <2>1 DEF db
<1>4. CASE \E p \in Processes : Throttle(p)
  <2>1. UNCHANGED <<db, faults>>
    BY <1>4 DEF Throttle
  <2> QED BY <2>1 DEF db
<1>5. CASE \E p \in Processes : Crash(p)
  <2>1. UNCHANGED db /\ Fault("crash")
    BY <1>5 DEF Crash
  <2> QED BY <2>1 DEF db
<1>6. CASE \E o \in Owners : Save(o) \/ FailToSave(o)
  <2>1. UNCHANGED db /\ ((\E kind : Fault(kind)) \/ UNCHANGED faults)
    BY <1>6 DEF Save, FailToSave
  <2> QED BY <2>1 DEF db
<1>7. CASE Aside
  <2>1. UNCHANGED <<throttled, faults>>
    BY <1>7 DEF Aside, StartSaving, RefreshChannel, Merge, Exhaust, PassTime, ExpireLimit, vars, db
  <2>2. PassTime \/ UNCHANGED phase
    BY <1>7 DEF Aside, StartSaving, RefreshChannel, Merge, Exhaust, ExpireLimit, vars, db
  <2>3. Exhaust \/ UNCHANGED channel
    BY <1>7 DEF Aside, StartSaving, RefreshChannel, Merge, PassTime, ExpireLimit, vars, db
  <2> QED BY <2>1, <2>2, <2>3
<1> QED BY <1>1, <1>2, <1>3, <1>4, <1>5, <1>6, <1>7, StepIs

LEMMA NextHeld == HeldInv /\ FiniteInv /\ [Next]_vars => HeldInv' /\ FiniteInv'
<1> SUFFICES ASSUME HeldInv, FiniteInv, [Next]_vars PROVE HeldInv' /\ FiniteInv'
  OBVIOUS
<1>1. TypeInv'
  BY NextTypeInv DEF HeldInv
<1>2. \A entry \in Entries : IsFiniteSet(InMemory(entry))
  BY DEF FiniteInv
<1>3. FiniteInv'
  <2>1. ASSUME NEW entry \in Entries PROVE IsFiniteSet(InMemory(entry)')
    <3>1. CASE Settled(entry)
      BY <3>1 DEF Settled
    <3>2. ASSUME NEW r \in Requests, Record(r), entry \in Earned(r, req[r].rules)
          PROVE  IsFiniteSet(InMemory(entry)')
      <4>1. PICK x : InMemory(entry)' = {x}
        BY <3>2, RecordPlaces
      <4> QED BY <4>1, FS_Singleton
    <3> QED BY <1>2, <3>1, <3>2, NextSettles
  <2> QED BY <2>1 DEF FiniteInv
<1>4. \A p \in Processes : saving'[p] # None => saving'[p].aggr = Head(recorder'[p].queue)
  BY HeadStays
<1>5. ASSUME NEW r \in Requests
      PROVE  /\ saving'[r] # None <=> req'[r].pc = "saving"
             /\ req'[r].pc = "saving" => ~throttled /\ req'[r].earned \subseteq saving'[r].aggr
             /\ req'[r].pc \in Early => req[r].pc \in Early /\ req'[r].earned = {}
  BY RequestMoves DEF HeldInv, At, Early, Rests, Proceeds, IsRecorded, IsSaved, Fails
<1>6. ASSUME NEW r \in Requests, req'[r].pc \in Early, NEW entry \in Entries, entry[1] = r
      PROVE  ~Held(entry)'
  <2>1. req[r].pc \in Early
    BY <1>5, <1>6
  <2>2. ~Held(entry)
    BY <1>6, <2>1 DEF HeldInv
  <2>3. ASSUME NEW s \in Requests, Record(s), entry \in Earned(s, req[s].rules)
        PROVE  FALSE
    <3>1. s = r
      BY <1>6, <2>3, RecordPlaces
    <3>2. req'[r].pc \in {"ok", "saving"}
      BY <2>3, <3>1 DEF HeldInv, TypeInv, TypeOK, Record, RecordThrottled, RecordAndSave, RequestTypes
    <3> QED BY <1>6, <3>2 DEF Early
  <2>4. Settled(entry)
    BY <1>2, <2>3, NextSettles
  <2> QED BY <2>2, <2>4 DEF Settled
<1>7. HeldInv'
  BY <1>1, <1>4, <1>5, <1>6, WhatStays DEF HeldInv, At
<1> QED BY <1>3, <1>7

LEMMA HeldInvariant == Spec => [](HeldInv /\ FiniteInv)
<1> QED BY InitHeld, NextHeld, PTL DEF Spec

-----------------------------------------------------------------------------
(* Which process has them.                                                  *)

\* What a request has earned is of its own events, and with AGGR_THROTTLE what a
\* process has in memory is of requests that are at it.
KeptInv ==
  /\ \A r \in Requests : \A entry \in req[r].earned : entry[1] = r
  /\ throttled => \A p \in Processes : \A entry \in Entries :
                    KeptBy(p, entry) => req[entry[1]].at = p

\* A request is at the process that received it, until that one dies.
LEMMA AtMoves ==
  ASSUME HeldInv, [Next]_vars, NEW s \in Requests
  PROVE  \/ req'[s].at = req[s].at
         \/ At(s, "sent")
         \/ req'[s].at = None /\ \E p \in Processes : Crash(p) /\ req[s].at = p
<1>1. TypeOK /\ req \in [Requests -> RequestTypes] /\ \A r \in Requests : req[r] \in RequestTypes
  BY DEF HeldInv, TypeInv, TypeOK
<1>2. CASE \E r \in Requests, p \in Processes : Receive(r, p)
  BY <1>1, <1>2 DEF Receive
<1>3. CASE \E r \in Requests : Answers(r)
  <2>1. PICK r \in Requests : Answers(r)
    BY <1>3
  <2>2. CASE \E key : AskLimit(r, key) \/ SetLimit(r, key)
    BY <1>1, <2>2 DEF AskLimit, SetLimit, RequestTypes
  <2>3. CASE \E answer : Answer(r, answer)
    BY <1>1, <2>3, AnswerIs
  <2> QED BY <2>1, <2>2, <2>3 DEF Answers, RefuseTooMany, RefuseNoPayout, RecordNothing,
                                   UpdateTargeting
<1>4. CASE \E r \in Requests : Record(r)
  BY <1>1, <1>4 DEF Record, RecordThrottled, RecordAndSave, RequestTypes
<1>5. CASE \E p \in Processes : Throttle(p)
  BY <1>5 DEF Throttle
<1>6. CASE \E p \in Processes : Crash(p)
  BY <1>1, <1>6, CrashIs
<1>7. CASE \E o \in Owners : Save(o) \/ FailToSave(o)
  <2>1. PICK o \in Owners : Save(o) \/ FailToSave(o)
    BY <1>7
  <2>2. UNCHANGED req \/ (o \in Requests /\ \E answer : Answer(o, answer))
    BY <2>1 DEF Save, FailToSave, FinishSaving, RetryFailed, Owners
  <2> QED BY <1>1, <2>2, AnswerIs
<1>8. CASE Aside
  BY <1>1, <1>8, AsideIs
<1> QED BY <1>2, <1>3, <1>4, <1>5, <1>6, <1>7, <1>8, StepIs

\* With AGGR_THROTTLE a process has in memory what it had, or what a request at it adds.
LEMMA KeptMoves ==
  ASSUME HeldInv, [Next]_vars, throttled, NEW p \in Processes, NEW entry, KeptBy(p, entry)'
  PROVE  /\ ~Crash(p)
         /\ \/ KeptBy(p, entry)
            \/ \E r \in Requests :
                 RecordThrottled(r) /\ req[r].at = p /\ entry \in Earned(r, req[r].rules)
<1> DEFINE q == recorder[p].queue
<1>1. /\ TypeOK /\ TypeInv /\ recorder \in [Processes -> RecorderTypes]
      /\ recorder[p] \in RecorderTypes
  BY DEF HeldInv, TypeInv, TypeOK
<1>2. q \in Seq(AggregateTypes) /\ Len(q) \in Nat /\ DOMAIN q = 1..Len(q)
  BY <1>1, QueueElements
<1>3. ~Crash(p)
  <2> SUFFICES ASSUME Crash(p) PROVE FALSE
    OBVIOUS
  <2>1. recorder'[p].aggr = {} /\ recorder'[p].queue = <<>>
    BY <1>1 DEF Crash, NewRecorder
  <2>2. DOMAIN recorder'[p].queue = {}
    BY <2>1
  <2> QED BY <2>1, <2>2 DEF KeptBy, InAggr, InQueue
<1> HIDE DEF q
<1>4. CASE recorder'[p].aggr = recorder[p].aggr /\ recorder'[p].queue = recorder[p].queue
  BY <1>3, <1>4 DEF KeptBy, InAggr, InQueue
<1>5. CASE \E r \in Requests : Record(r)
  <2>1. PICK r \in Requests : RecordThrottled(r)
    BY <1>5 DEF Record, RecordAndSave
  <2>2. CASE req[r].at # p
    <3>1. recorder'[p] = recorder[p]
      BY <1>1, <2>1, <2>2 DEF RecordThrottled
    <3> QED BY <1>3, <1>4, <3>1
  <2>3. CASE req[r].at = p
    <3>1. PICK aggr : aggr = Aggregate(r)
      OBVIOUS
    <3>2. recorder' = [recorder EXCEPT ![p].aggr = aggr, ![p].armed = TRUE]
      BY <2>1, <2>3, <3>1 DEF RecordThrottled
    <3>3. recorder'[p].aggr = aggr /\ recorder'[p].queue = recorder[p].queue
      BY <1>1, <3>2 DEF RecorderTypes
    <3>4. aggr = recorder[p].aggr \cup Earned(r, req[r].rules)
      BY <2>3, <3>1 DEF Aggregate
    <3> QED BY <1>3, <2>1, <2>3, <3>3, <3>4 DEF KeptBy, InAggr, InQueue
  <2> QED BY <2>2, <2>3
<1>6. CASE \E o \in Processes : Throttle(o)
  <2>1. PICK o \in Processes : Throttle(o)
    BY <1>6
  <2>2. CASE o # p
    <3>1. recorder'[p] = recorder[p]
      BY <1>1, <2>1, <2>2 DEF Throttle, PersistAndReset
    <3> QED BY <1>3, <1>4, <3>1
  <2>3. CASE o = p
    <3>1. PICK aggr : aggr = recorder[p].aggr
      OBVIOUS
    <3>2. recorder' = [recorder EXCEPT ![p].queue = Append(q, aggr), ![p].aggr = {}, ![p].armed = FALSE]
      BY <2>1, <2>3, <3>1 DEF Throttle, PersistAndReset, q
    <3>3. recorder'[p].aggr = {} /\ recorder'[p].queue = Append(q, aggr)
      BY <1>1, <3>2 DEF RecorderTypes
    <3>4. /\ DOMAIN Append(q, aggr) = 1..(Len(q) + 1)
          /\ \A i \in 1..Len(q) : Append(q, aggr)[i] = q[i]
          /\ Append(q, aggr)[Len(q) + 1] = aggr
      BY <1>1, QueueElements DEF q
    <3>5. PICK i : InQueue(p, i, entry)'
      BY <3>3 DEF KeptBy, InAggr
    <3>6. i \in 1..(Len(q) + 1) /\ entry \in Append(q, aggr)[i]
      BY <3>3, <3>4, <3>5 DEF InQueue
    <3>7. CASE i = Len(q) + 1
      BY <1>3, <3>1, <3>4, <3>6, <3>7 DEF KeptBy, InAggr
    <3>8. CASE i \in 1..Len(q)
      BY <1>2, <1>3, <3>4, <3>6, <3>8 DEF KeptBy, InQueue, q
    <3> QED BY <1>2, <3>6, <3>7, <3>8
  <2> QED BY <2>2, <2>3
<1>7. CASE \E o \in Owners : Save(o) \/ FailToSave(o)
  <2>1. PICK o \in Owners : Save(o) \/ FailToSave(o)
    BY <1>7
  <2>2. CASE o # p
    <3>1. recorder'[p] = recorder[p]
      BY <1>1, <2>1, <2>2 DEF Save, FailToSave, FinishSaving, RetryFailed
    <3> QED BY <1>3, <1>4, <3>1
  <2>3. CASE o = p
    <3>1. q # <<>>
      BY <1>1, <2>1, <2>3 DEF Save, FailToSave, TypeInv, MemoryInv, q
    <3>2. PICK rest \in {Tail(q), Append(Tail(q), Head(q))} :
            recorder' = [recorder EXCEPT ![p].queue = rest]
      BY <2>1, <2>3 DEF Save, FailToSave, FinishSaving, RetryFailed, q
    <3>3. recorder'[p].aggr = recorder[p].aggr /\ recorder'[p].queue = rest
      BY <1>1, <3>2 DEF RecorderTypes
    <3>4. /\ DOMAIN rest \subseteq 1..Len(q)
          /\ \A i \in DOMAIN rest : \E j \in 1..Len(q) : rest[i] = q[j]
      <4>1. PICK t, a : t = Tail(q) /\ a = Append(Tail(q), Head(q))
        OBVIOUS
      <4>2. PICK n \in Nat : n = Len(q)
        BY <1>2
      <4>3. /\ n > 0 /\ DOMAIN t = 1..(n - 1) /\ DOMAIN a = 1..n
            /\ \A i \in 1..(n - 1) : t[i] = q[i + 1] /\ a[i] = q[i + 1]
            /\ a[n] = q[1]
        BY <1>1, <3>1, <4>1, <4>2, QueueElements DEF q
      <4>4. \A i \in 1..n : \E j \in 1..n : a[i] = q[j]
        BY <4>3
      <4>5. \A i \in 1..(n - 1) : \E j \in 1..n : t[i] = q[j]
        BY <4>3
      <4>6. 1..(n - 1) \subseteq 1..n
        OBVIOUS
      <4>7. rest = t \/ rest = a
        BY <3>2, <4>1
      <4>8. CASE rest = t
        <5>1. DOMAIN rest = 1..(n - 1) /\ \A i \in 1..(n - 1) : \E j \in 1..n : rest[i] = q[j]
          BY <4>3, <4>5, <4>8
        <5> QED BY <4>2, <4>6, <5>1
      <4>9. CASE rest = a
        <5>1. DOMAIN rest = 1..n /\ \A i \in 1..n : \E j \in 1..n : rest[i] = q[j]
          BY <4>3, <4>4, <4>9
        <5> QED BY <4>2, <5>1
      <4> QED BY <4>7, <4>8, <4>9
    <3>5. CASE InAggr(p, entry)'
      BY <1>3, <3>3, <3>5 DEF KeptBy, InAggr
    <3>6. CASE \E i : InQueue(p, i, entry)'
      BY <1>2, <1>3, <3>3, <3>4, <3>6 DEF KeptBy, InQueue, q
    <3> QED BY <3>5, <3>6 DEF KeptBy
  <2> QED BY <2>2, <2>3
<1>8. CASE \E o \in Processes : Crash(o)
  <2>1. PICK o \in Processes : Crash(o)
    BY <1>8
  <2>2. o # p
    BY <1>3, <2>1
  <2>3. recorder' = [recorder EXCEPT ![o] = NewRecorder]
    BY <2>1 DEF Crash
  <2>4. recorder'[p] = recorder[p]
    BY <1>1, <2>2, <2>3
  <2> QED BY <1>3, <1>4, <2>4
<1>9. CASE (\E r \in Requests, o \in Processes : Receive(r, o)) \/ \E r \in Requests : Answers(r)
  <2>1. UNCHANGED recorder
    <3>1. CASE \E r \in Requests, o \in Processes : Receive(r, o)
      BY <3>1 DEF Receive
    <3>2. ASSUME NEW r \in Requests, Answers(r)
          PROVE  UNCHANGED recorder
      <4>1. CASE \E key \in req[r].ask : AskLimit(r, key)
        BY <4>1 DEF AskLimit
      <4>2. CASE \E key \in req[r].set : SetLimit(r, key)
        BY <4>2 DEF SetLimit
      <4>3. CASE RefuseTooMany(r) \/ RefuseNoPayout(r) \/ RecordNothing(r)
        BY <4>3 DEF RefuseTooMany, RefuseNoPayout, RecordNothing
      <4>4. CASE UpdateTargeting(r)
        BY <4>4 DEF UpdateTargeting
      <4> QED BY <3>2, <4>1, <4>2, <4>3, <4>4 DEF Answers
    <3> QED BY <1>9, <3>1, <3>2
  <2> QED BY <1>3, <1>4, <2>1
<1>10. CASE Aside
  BY <1>1, <1>3, <1>4, <1>10, AsideIs
<1> QED BY <1>5, <1>6, <1>7, <1>8, <1>9, <1>10, StepIs

LEMMA NextKept == HeldInv /\ KeptInv /\ [Next]_vars => KeptInv'
<1> SUFFICES ASSUME HeldInv, KeptInv, [Next]_vars PROVE KeptInv'
  OBVIOUS
<1>1. ASSUME NEW r \in Requests, NEW entry \in req'[r].earned
      PROVE  entry[1] = r
  <2>1. CASE entry \in req[r].earned
    BY <2>1 DEF KeptInv
  <2>2. CASE entry \in Earned(r, req[r].rules)
    BY <2>2 DEF Earned
  <2> QED BY <1>1, <2>1, <2>2, RequestMoves DEF Rests, Proceeds, IsRecorded, IsSaved, Fails
<1>2. ASSUME throttled', NEW p \in Processes, NEW entry \in Entries, KeptBy(p, entry)'
      PROVE  req'[entry[1]].at = p
  <2>1. throttled
    BY <1>2, WhatStays
  <2>2. PICK r \in Requests : entry[1] = r
    BY DEF Entries
  <2>3. CASE KeptBy(p, entry)
    <3>1. req[r].at = p
      BY <2>1, <2>2, <2>3 DEF KeptInv
    <3>2. InMemory(entry) # {}
      <4>1. \E x : x \in InMemory(entry)
        BY <2>3, InMemoryIs DEF KeptBy
      <4> QED BY <4>1
    <3>3. ~At(r, "sent")
      BY <2>2, <3>2 DEF HeldInv, Held, At, Early
    <3>4. ~\E o \in Processes : Crash(o) /\ req[r].at = o
      BY <1>2, <2>1, <3>1, KeptMoves
    <3> QED BY <2>2, <3>1, <3>3, <3>4, AtMoves
  <2>4. ASSUME NEW s \in Requests, RecordThrottled(s), req[s].at = p, entry \in Earned(s, req[s].rules)
        PROVE  req'[r].at = p
    <3>1. s = r
      BY <2>2, <2>4 DEF Earned
    <3>2. req \in [Requests -> RequestTypes] /\ req[r] \in RequestTypes
      BY DEF HeldInv, TypeInv, TypeOK
    <3> QED BY <2>4, <3>1, <3>2 DEF RecordThrottled, RequestTypes
  <2> QED BY <1>2, <2>1, <2>2, <2>3, <2>4, KeptMoves
<1> QED BY <1>1, <1>2 DEF KeptInv

LEMMA InitKept == Init => KeptInv
<1> SUFFICES ASSUME Init PROVE KeptInv
  OBVIOUS
<1>1. \A r \in Requests : req[r].earned = {}
  BY DEF Init
<1>2. ASSUME NEW p \in Processes, NEW entry PROVE ~KeptBy(p, entry)
  <2>1. recorder[p].aggr = {} /\ recorder[p].queue = <<>>
    BY DEF Init, NewRecorder
  <2>2. DOMAIN recorder[p].queue = {}
    BY <2>1
  <2> QED BY <2>1, <2>2 DEF KeptBy, InAggr, InQueue
<1> QED BY <1>1, <1>2 DEF KeptInv

LEMMA KeptInvariant == Spec => []KeptInv
<1> QED BY InitKept, NextKept, HeldInvariant, PTL DEF Spec

-----------------------------------------------------------------------------
(* The properties.                                                          *)

LEMMA FaultsGrow ==
  ASSUME TypeOK, [Next]_vars
  PROVE  /\ faults'["unconfirmed"] \in Nat /\ faults'["unconfirmed"] >= faults["unconfirmed"]
<1> QED BY WhatStays, FaultsType, FaultGrows

LEMMA InitOnce == Init => RecordedOnce
<1> SUFFICES ASSUME Init, NEW entry \in Entries
             PROVE  Cardinality(Saved(entry)) + Cardinality(InMemory(entry))
                      <= 1 + faults["unconfirmed"]
  BY DEF RecordedOnce
<1>1. HeldInv /\ TypeOK
  BY InitHeld DEF HeldInv, TypeInv
<1>2. Saved(entry) = {} /\ InMemory(entry) = {}
  <2>1. PICK r \in Requests : entry[1] = r
    BY DEF Entries
  <2>2. req[r].pc \in Early
    BY DEF Init, Early
  <2> QED BY <1>1, <2>1, <2>2 DEF HeldInv, Held
<1> QED BY <1>1, <1>2, FS_EmptySet, FaultsType

LEMMA NextOnce ==
  ASSUME HeldInv, FiniteInv, RecordedOnce, [Next]_vars
  PROVE  RecordedOnce'
<1>1. SUFFICES ASSUME NEW entry \in Entries
               PROVE  Places(entry)' <= 1 + faults'["unconfirmed"]
  BY DEF RecordedOnce, Places
<1>2. TypeOK /\ TypeOK' /\ IsFiniteSet(InMemory(entry))
  BY NextTypeInv DEF HeldInv, TypeInv, FiniteInv
<1>3. /\ Places(entry) \in Nat /\ faults["unconfirmed"] \in Nat
      /\ faults'["unconfirmed"] \in Nat /\ Places(entry) <= 1 + faults["unconfirmed"]
  BY <1>2, PlacesType, FaultsType, FaultsGrow DEF RecordedOnce, Places
<1>4. CASE Settled(entry)
  <2>1. IsFiniteSet(InMemory(entry)') /\ IsFiniteSet(Saved(entry)')
    <3>1. DOMAIN col' = 1..Len(col') /\ Len(col') \in Nat
      BY <1>2 DEF TypeOK
    <3>2. IsFiniteSet(DOMAIN col')
      BY <3>1, FS_Interval
    <3>3. Saved(entry)' \in SUBSET DOMAIN col'
      BY DEF Saved
    <3> QED BY <1>4, <3>2, <3>3, FS_Subset DEF Settled
  <2>2. Cardinality(Saved(entry)') \in Nat /\ Cardinality(InMemory(entry)') \in Nat
    BY <2>1, FS_CardinalityType
  <2>3. Places(entry)' \in Nat
    BY <2>2 DEF Places
  <2> QED BY <1>3, <1>4, <2>3 DEF Settled
<1>5. ASSUME NEW r \in Requests, Record(r), entry \in Earned(r, req[r].rules)
      PROVE  Places(entry)' = 1
  <2>1. PICK x : Saved(entry)' = {} /\ InMemory(entry)' = {x}
    BY <1>5, RecordPlaces
  <2>2. Cardinality(Saved(entry)') = 0 /\ Cardinality(InMemory(entry)') = 1
    BY <2>1, FS_Singleton, FS_EmptySet
  <2> QED BY <2>2 DEF Places
<1> QED BY <1>2, <1>3, <1>4, <1>5, NextSettles

LEMMA NextAcked ==
  ASSUME HeldInv, FiniteInv, KeptInv, AckedIsKept, [Next]_vars
  PROVE  AckedIsKept'
<1>1. SUFFICES ASSUME NEW r \in Requests, req'[r].pc = "ok", NEW entry \in req'[r].earned
               PROVE  \/ Saved(entry)' # {}
                      \/ throttled /\ (InMemory(entry)' # {} \/ req'[r].at = None)
  BY WhatStays DEF AckedIsKept, At
<1>2. TypeOK /\ TypeInv /\ entry \in Entries /\ IsFiniteSet(InMemory(entry))
  <2>1. TypeOK /\ TypeOK'
    BY NextTypeInv DEF HeldInv, TypeInv
  <2>2. req'[r] \in RequestTypes
    BY <2>1 DEF TypeOK
  <2>3. entry \in Entries
    BY <2>2 DEF RequestTypes
  <2> QED BY <2>1, <2>3 DEF FiniteInv, HeldInv
<1>3. CASE Rests(r)
  <2>1. Saved(entry) # {} \/ (throttled /\ (InMemory(entry) # {} \/ req[r].at = None))
    BY <1>1, <1>3 DEF Rests, AckedIsKept, At
  <2>4. req[r].at = None => req'[r].at = None
    BY <1>1, <1>3, AtMoves DEF Rests, At
  <2>5. throttled /\ Dies(entry) => req'[r].at = None
    <3> SUFFICES ASSUME throttled, NEW p \in Processes, Crash(p), KeptBy(p, entry)
                 PROVE  req'[r].at = None
      BY DEF Dies
    <3>1. entry[1] = r
      BY <1>1, <1>3 DEF Rests, KeptInv
    <3>2. req[r].at = p
      BY <1>2, <3>1 DEF KeptInv
    <3>3. req \in [Requests -> RequestTypes]
      BY <1>2 DEF TypeOK
    <3> QED BY <3>2, <3>3, CrashIs
  <2>2. CASE Settled(entry)
    BY <2>1, <2>2, <2>4, <2>5 DEF Settled, Held
  <2>3. ASSUME NEW s \in Requests, Record(s), entry \in Earned(s, req[s].rules)
        PROVE  throttled /\ InMemory(entry)' # {}
    <3>1. ~Held(entry) /\ \E place : InMemory(entry)' = {place}
      BY <2>3, RecordPlaces
    <3>2. InMemory(entry)' # {}
      BY <3>1
    <3>3. Saved(entry) = {} /\ InMemory(entry) = {}
      BY <3>1 DEF Held
    <3> QED BY <2>1, <3>2, <3>3
  <2> QED BY <1>2, <2>2, <2>3, NextSettles
<1>4. CASE Proceeds(r)
  BY <1>1, <1>4 DEF Proceeds, HeldInv
<1>5. CASE IsRecorded(r)
  <2>1. throttled /\ Record(r) /\ entry \in Earned(r, req[r].rules)
    BY <1>1, <1>5 DEF IsRecorded
  <2> QED BY <2>1, RecordPlaces
<1>6. CASE IsSaved(r)
  <2>1. entry \in saving[r].aggr
    BY <1>1, <1>6 DEF IsSaved, HeldInv
  <2> QED BY <1>2, <1>6, <2>1, SavedGrows DEF IsSaved, Owners
<1>7. CASE Fails(r)
  BY <1>1, <1>7 DEF Fails
<1> QED BY <1>3, <1>4, <1>5, <1>6, <1>7, RequestMoves

\* "to ensure everything is saved", "so that we never lose events": what a request
\* earned that was answered with success is saved, or with AGGR_THROTTLE in the memory
\* of a process, unless the one that had it has died since; whichever inserts fail.
THEOREM NothingAckedIsLost == Spec => []AckedIsKept
<1>1. Init => AckedIsKept
  BY DEF Init, AckedIsKept, At
<1>2. HeldInv /\ FiniteInv /\ KeptInv /\ AckedIsKept /\ [Next]_vars => AckedIsKept'
  BY NextAcked
<1> QED BY <1>1, <1>2, HeldInvariant, KeptInvariant, PTL DEF Spec

\* The resets of persistAndReset and of the queue and its retries record nothing twice
\* that was earned, but for each insert that had been applied and is tried again.
THEOREM NothingIsRecordedTwice == Spec => []RecordedOnce
<1>1. HeldInv /\ FiniteInv /\ RecordedOnce /\ [Next]_vars => RecordedOnce'
  BY NextOnce
<1> QED BY InitOnce, <1>1, HeldInvariant, PTL DEF Spec

-----------------------------------------------------------------------------
(* Who sent them.                                                           *)

\* A request that was let in, and may be recorded or have been.
Admitted(r) == req[r].pc \notin {"sent", "refused"}

MayClose(r) == IsCreator(Body(r)) \/ phase # "running"

\* The access rules let in the creator's events from the creator alone, and from
\* anyone a CLOSE when the channel is in its withdraw period; which does not end.
SteerInv ==
  \A r \in Requests :
    /\ At(r, "sent") => req[r].at = None
    /\ Admitted(r) /\ Updates(r) # {} => IsCreator(Body(r))
    /\ Admitted(r) /\ "CLOSE" \in Types(Body(r)) => MayClose(r)

LEMMA AccessSteers ==
  ASSUME NEW r \in Requests, Access(Body(r), phase) # "refuse"
  PROVE  /\ Updates(r) # {} => IsCreator(Body(r))
         /\ "CLOSE" \in Types(Body(r)) => MayClose(r)
<1>1. Updates(r) # {} => "UPDATE_TARGETING" \in Types(Body(r))
  BY DEF Updates, Types, Range
<1>2. Access(Body(r), phase) # "refuse" => Privileged(Body(r), phase) \/ ~Barred(Body(r), phase)
  BY DEF Access
<1>3. Privileged(Body(r), phase) =>
        /\ "UPDATE_TARGETING" \in Types(Body(r)) => IsCreator(Body(r))
        /\ "CLOSE" \in Types(Body(r)) => MayClose(r)
  BY DEF Privileged, MayClose
<1>4. ~Barred(Body(r), phase) =>
        ("UPDATE_TARGETING" \in Types(Body(r)) \/ "CLOSE" \in Types(Body(r)) => IsCreator(Body(r)))
  BY DEF Barred, CreatorsTypes
<1> QED BY <1>1, <1>2, <1>3, <1>4 DEF MayClose

\* Nothing lets in a request but Receive, whose answer is that of the access rules.
Enters(r) ==
  /\ At(r, "sent") /\ req'[r].pc # "sent"
  /\ req'[r].pc # "refused" => Access(Body(r), phase) # "refuse"

Stays(r) == req'[r].pc = req[r].pc /\ req'[r].at \in {req[r].at, None}

LEMMA AdmittedIs ==
  ASSUME HeldInv, SteerInv, [Next]_vars, NEW s \in Requests
  PROVE  \/ Stays(s) \/ Enters(s)
         \/ /\ Admitted(s) /\ req'[s].pc # "sent"
            /\ req'[s].pc = "checking" => req[s].pc = "checking"
<1>1. /\ req \in [Requests -> RequestTypes] /\ TypeOK
      /\ saving \in [Owners -> InsertTypes \cup {None}] /\ Processes \cap Requests = {}
      /\ \A r \in Requests : req[r] \in RequestTypes
  BY RecorderAssumption DEF HeldInv, TypeInv, TypeOK, Owners
<1>2. CASE \E r \in Requests, p \in Processes : Receive(r, p)
  <2>1. PICK r \in Requests, p \in Processes : Receive(r, p)
    BY <1>2
  <2> DEFINE access == Access(Body(r), phase)
             refused == recorder[p].channel.exhausted \/ access = "refuse"
             limited == ~refused /\ access = "limit"
             pc == IF refused THEN "refused" ELSE "checking"
             ask == IF limited THEN LimitKeys(Body(r)) ELSE {}
             tooMany == limited /\ LimitError(Body(r))
  <2>2. /\ At(r, "sent")
        /\ req' = [req EXCEPT ![r].pc = pc, ![r].at = p,
                              ![r].rules = recorder[p].channel.targetingRules,
                              ![r].ask = ask, ![r].tooMany = tooMany]
    BY <2>1 DEF Receive
  <2>3. pc \in {"refused", "checking"} /\ (pc # "refused" => Access(Body(r), phase) # "refuse")
    OBVIOUS
  <2> HIDE DEF pc, ask, tooMany
  <2>4. req'[r].pc = pc /\ \A a \in Requests \ {r} : req'[a] = req[a]
    BY <1>1, <2>2 DEF RequestTypes
  <2> QED BY <2>2, <2>3, <2>4 DEF Enters, Stays
<1>3. CASE \E r \in Requests : Answers(r)
  <2>1. PICK r \in Requests : Answers(r)
    BY <1>3
  <2>2. req[r].pc \in {"checking", "updated"}
    BY <2>1 DEF Answers, AskLimit, SetLimit, RefuseTooMany, RefuseNoPayout, RecordNothing,
                UpdateTargeting, Checked, Ready, At
  <2>3. CASE \E key : AskLimit(r, key) \/ SetLimit(r, key)
    BY <1>1, <2>2, <2>3 DEF AskLimit, SetLimit, RequestTypes, Admitted, Stays
  <2>4. CASE \E answer \in {"refused", "ok", "updated"} : Answer(r, answer)
    BY <1>1, <2>2, <2>4, AnswerIs DEF Admitted, Stays
  <2> QED BY <2>1, <2>3, <2>4 DEF Answers, RefuseTooMany, RefuseNoPayout, RecordNothing,
                                   UpdateTargeting
<1>4. CASE \E r \in Requests : Record(r)
  <2>1. PICK r \in Requests : Record(r)
    BY <1>4
  <2>2. req[r].pc \in {"checking", "updated"}
    BY <2>1 DEF Record, RecordThrottled, RecordAndSave, Checked, Ready, At
  <2>3. req'[r].pc \in {"ok", "saving"} /\ \A a \in Requests \ {r} : req'[a] = req[a]
    BY <1>1, <2>1 DEF Record, RecordThrottled, RecordAndSave, RequestTypes
  <2> QED BY <2>2, <2>3 DEF Admitted, Stays
<1>5. CASE \E p \in Processes : Throttle(p)
  BY <1>5 DEF Throttle, Stays
<1>6. CASE \E p \in Processes : Crash(p)
  <2>1. PICK p \in Processes : Crash(p)
    BY <1>6
  <2>2. \/ Stays(s)
        \/ /\ req[s].at = p
           /\ req'[s].pc = IF req[s].pc \in Answered THEN req[s].pc ELSE "error"
    BY <1>1, <2>1, CrashIs DEF Stays
  <2>3. CASE req[s].at = p /\ req'[s].pc = IF req[s].pc \in Answered THEN req[s].pc ELSE "error"
    <3>1. req[s].pc # "sent"
      BY <2>3, RecorderAssumption DEF SteerInv, At
    <3> QED BY <1>1, <2>1, <2>3, <3>1, CrashIs DEF Stays, Admitted, Answered
  <2> QED BY <2>2, <2>3
<1>7. CASE \E o \in Owners : Save(o) \/ FailToSave(o)
  <2>1. PICK o \in Owners : Save(o) \/ FailToSave(o)
    BY <1>7
  <2>2. CASE o \in Processes
    BY <2>1, <2>2 DEF Save, FailToSave, FinishSaving, RetryFailed, Stays
  <2>3. CASE o \in Requests
    <3>1. req[o].pc = "saving"
      BY <2>1, <2>3 DEF Save, FailToSave, HeldInv, At
    <3>2. \E answer \in {"ok", "error"} : Answer(o, answer)
      BY <1>1, <2>1, <2>3 DEF Save, FailToSave, FinishSaving, RetryFailed
    <3> QED BY <1>1, <2>3, <3>1, <3>2, AnswerIs DEF Admitted, Stays
  <2> QED BY <2>2, <2>3 DEF Owners
<1>8. CASE Aside
  BY <1>1, <1>8, AsideIs DEF Stays
<1> QED BY <1>2, <1>3, <1>4, <1>5, <1>6, <1>7, <1>8, StepIs

\* The channel's life goes one way.
LEMMA PhaseStays == ASSUME [Next]_vars PROVE phase # "running" => phase' # "running"
BY WhatStays DEF PassTime

LEMMA NextSteer == HeldInv /\ SteerInv /\ [Next]_vars => SteerInv'
<1> SUFFICES ASSUME HeldInv, SteerInv, [Next]_vars, NEW r \in Requests
             PROVE  /\ At(r, "sent")' => req'[r].at = None
                    /\ Admitted(r)' /\ Updates(r) # {} => IsCreator(Body(r))
                    /\ Admitted(r)' /\ "CLOSE" \in Types(Body(r)) => MayClose(r)'
  BY DEF SteerInv, Updates, IsCreator, Types, Range
<1>1. MayClose(r) => MayClose(r)'
  BY PhaseStays DEF MayClose, IsCreator
<1>2. CASE Stays(r)
  BY <1>1, <1>2 DEF SteerInv, At, Admitted, Stays
<1>3. CASE Enters(r)
  BY <1>1, <1>3, AccessSteers DEF Enters, At, Admitted
<1>4. CASE Admitted(r) /\ req'[r].pc # "sent"
  BY <1>1, <1>4 DEF SteerInv, At
<1> QED BY <1>2, <1>3, <1>4, AdmittedIs

\* The rules of the channel's document are new only where a request has updated them.
LEMMA RulesAre ==
  ASSUME TypeOK, [Next]_vars
  PROVE  \/ channel'.targetingRules = channel.targetingRules
         \/ \E r \in Requests : UpdateTargeting(r)
BY WhatStays DEF Exhaust, TypeOK, ChannelTypes

LEMMA NextSteers ==
  ASSUME HeldInv, FiniteInv, SteerInv, OnlyTheCreatorSteers, [Next]_vars
  PROVE  OnlyTheCreatorSteers'
<1>1. TypeOK
  BY DEF HeldInv, TypeInv
<1>2. ASSUME NEW entry \in Entries, Held(entry)', Event(entry).type = "CLOSE"
      PROVE  IsCreator(Body(entry[1])) \/ phase' # "running"
  <2>1. CASE Settled(entry)
    <3>1. Held(entry)
      BY <1>2, <2>1 DEF Settled
    <3> QED BY <1>2, <3>1, PhaseStays DEF OnlyTheCreatorSteers, Held
  <2>2. ASSUME NEW r \in Requests, Record(r), entry \in Earned(r, req[r].rules)
        PROVE  IsCreator(Body(entry[1])) \/ phase' # "running"
    <3>1. entry[1] = r /\ entry[2] \in DOMAIN Body(r).events
      BY <2>2 DEF Earned
    <3>2. "CLOSE" \in Types(Body(r))
      BY <1>2, <3>1 DEF Event, Types, Range
    <3>3. Admitted(r)
      BY <2>2 DEF Record, RecordThrottled, RecordAndSave, Checked, Ready, At, Admitted
    <3> QED BY <3>1, <3>2, <3>3, PhaseStays DEF SteerInv, MayClose
  <2> QED BY <2>1, <2>2, NextSettles DEF FiniteInv
<1>3. ASSUME channel'.targetingRules # InitialRules
      PROVE  \E r \in Requests : IsCreator(Body(r)) /\ SetsRules(r, channel.targetingRules)'
  <2>1. CASE channel'.targetingRules = channel.targetingRules
    <3>1. PICK r \in Requests : IsCreator(Body(r)) /\ SetsRules(r, channel.targetingRules)
      BY <1>3, <2>1 DEF OnlyTheCreatorSteers
    <3>2. req'[r].pc \notin {"sent", "checking"}
      BY <3>1, AdmittedIs DEF SetsRules, At, Enters, Stays
    <3>3. SetsRules(r, channel.targetingRules)'
      BY <2>1, <3>1, <3>2 DEF SetsRules, Updates
    <3> QED BY <3>1, <3>3
  <2>2. ASSUME NEW r \in Requests, UpdateTargeting(r)
        PROVE  IsCreator(Body(r)) /\ SetsRules(r, channel.targetingRules)'
    <3>1. req[r].pc = "checking" /\ Answer(r, "updated")
      BY <2>2 DEF UpdateTargeting, Checked, At
    <3>2. PICK i \in Updates(r) :
            channel' = [channel EXCEPT !.targetingRules = Body(r).events[i].targetingRules]
      BY <2>2 DEF UpdateTargeting
    <3>3. channel'.targetingRules = Body(r).events[i].targetingRules
      BY <1>1, <3>2 DEF TypeOK, ChannelTypes
    <3>4. IsCreator(Body(r))
      BY <3>1, <3>2 DEF SteerInv, Admitted
    <3>5. req'[r].pc = "updated"
      BY <1>1, <3>1, AnswerIs
    <3>6. SetsRules(r, channel.targetingRules)'
      BY <3>2, <3>3, <3>5 DEF SetsRules, Updates
    <3> QED BY <3>4, <3>6
  <2> QED BY <1>1, <2>1, <2>2, RulesAre
<1> QED BY <1>2, <1>3 DEF OnlyTheCreatorSteers, Held, Event, IsCreator

\* "Only the creator can send a CLOSE & UPDATE_TARGETING", and anyone a CLOSE in the
\* withdraw period: no other way do they come into an aggregate or the channel's rules,
\* whatever the rules of the channel's spec say.
THEOREM CreatorSteers == Spec => []OnlyTheCreatorSteers
<1>1. Init => SteerInv
  BY DEF Init, SteerInv, At, Admitted
<1>2. Init => OnlyTheCreatorSteers
  <2> SUFFICES ASSUME Init, NEW entry \in Entries PROVE ~Held(entry)
    BY DEF Init, OnlyTheCreatorSteers, Held
  <2>1. PICK r \in Requests : entry[1] = r
    BY DEF Entries
  <2> QED BY <2>1, InitHeld DEF HeldInv, Init, Early
<1>3. HeldInv /\ FiniteInv /\ SteerInv /\ OnlyTheCreatorSteers /\ [Next]_vars
        => OnlyTheCreatorSteers'
  BY NextSteers
<1> QED BY <1>1, <1>2, <1>3, NextSteer, HeldInvariant, PTL DEF Spec

=============================================================================
