---------------------------- MODULE OutpaceProofs ---------------------------
(***************************************************************************)
(* Theorems about Outpace, for every number of ticks, every arithmetic     *)
(* that satisfies TreesAssumption and every choice of faults; and, for one *)
(* tick of the follower at a time, that it implements ApprovedLedger, that *)
(* it answers a state once and that it stands by the accounting that its   *)
(* Sentry holds.                                                           *)
(***************************************************************************)
EXTENDS Outpace, SequenceTheorems, TLAPS

\* A tick of the follower uses what it asked for only once it has it.
ReadBeforeUse ==
  \A t \in FollowerTicks :
    tick[t].pc # "reading" => tick[t].newMsg # Unread /\ tick[t].responseMsg # Unread

TypeInv == TypeOK /\ ReadBeforeUse

-----------------------------------------------------------------------------
(* What the helpers return.                                                 *)

LEMMA InsertMsgType ==
  ASSUME NEW rec \in DbTypes, NEW msg \in Messages
  PROVE  InsertMsg(rec, msg) \in DbTypes
<1>1. CASE msg \in Accountings
  BY <1>1 DEF InsertMsg, DbTypes, Accountings
<1>2. CASE msg \in NewStates
  BY <1>2 DEF InsertMsg, DbTypes, NewStates
<1>3. CASE msg \in ApproveStates
  BY <1>3 DEF InsertMsg, DbTypes, ApproveStates
<1>4. CASE msg \in RejectStates
  BY <1>4 DEF InsertMsg, DbTypes, RejectStates
<1> QED BY <1>1, <1>2, <1>3, <1>4 DEF Messages

LEMMA WorkerOfType == \A t : WorkerOf(t) \in Validators
BY DEF WorkerOf, Validators

LEMMA PostType ==
  ASSUME NEW to \in Validators, NEW t \in Ticks, NEW msg \in Messages
  PROVE  Post(to, t, msg) \in PostTypes
BY WorkerOfType DEF Post, PostTypes, Writes

LEMMA PropagateType ==
  ASSUME TypeOK, NEW t \in Ticks, NEW msg \in Messages, Propagate(t, msg)
  PROVE  posts' \subseteq PostTypes
<1>1. \A to \in Recipients(WorkerOf(t), msg) : to \in Validators
  BY WorkerOfType DEF Recipients
<1> QED BY <1>1, PostType DEF Propagate, TypeOK

LEMMA NewTickType ==
  ASSUME NEW t \in Ticks
  PROVE  /\ NewTick(t) \in TickTypes
         /\ t \in FollowerTicks => NewTick(t).pc = "reading"
BY TreesAssumption DEF NewTick, FirstRead, TickTypes, PcTypes, NoAccounting, Accountings, TreesAreClosed

LEMMA EndTickType ==
  ASSUME TypeInv, NEW t \in Ticks, EndTick(t)
  PROVE  tick' \in [Ticks -> TickTypes] /\ ReadBeforeUse'
BY NewTickType DEF EndTick, TypeInv, TypeOK, ReadBeforeUse, Ticks

\* A batch is no longer than the limit, so that its merge is a tree.
LEMMA NewAccountingType ==
  ASSUME TypeOK, NEW v \in Validators, NEW acc \in Accountings,
         acc.lastEvAggr < Len(aggrs[v])
  PROVE  /\ NewAccounting(v, acc) \in Accountings
         /\ Batch(v, acc) \in Batches
         /\ NewAccounting(v, acc).balancesBeforeFees
              = MergeAggrs(acc.balancesBeforeFees, Batch(v, acc))
<1> DEFINE last == LastOf(v, acc)
           n == last - acc.lastEvAggr
<1>1. /\ aggrs[v] \in Seq(Aggregates)
      /\ Len(aggrs[v]) \in Nat
      /\ acc.lastEvAggr \in Nat
      /\ acc.balancesBeforeFees \in Trees
  BY DEF TypeOK, Accountings
<1>2. last \in Nat /\ last <= Len(aggrs[v]) /\ n \in 0..EVENTS_FIND_LIMIT
  BY <1>1, BoundsAssumption DEF LastOf
<1>3. Batch(v, acc) \in [1..n -> Aggregates]
  <2>1. \A i \in 1..n : aggrs[v][acc.lastEvAggr + i] \in Aggregates
    BY <1>1, <1>2
  <2> QED BY <2>1 DEF Batch
<1>4. Batch(v, acc) \in Batches
  BY <1>2, <1>3 DEF Batches
<1>5. MergeAggrs(acc.balancesBeforeFees, Batch(v, acc)) \in Trees
  BY <1>1, <1>4, TreesAssumption DEF TreesAreClosed
<1>6. NewAccounting(v, acc) \in Accountings
  BY <1>2, <1>5 DEF NewAccounting, Accountings
<1>7. NewAccounting(v, acc).balancesBeforeFees
        = MergeAggrs(acc.balancesBeforeFees, Batch(v, acc))
  BY DEF NewAccounting, Accountings
<1> QED BY <1>4, <1>6, <1>7

LEMMA RejectType ==
  ASSUME NEW msg \in NewStates, NEW reason \in RejectReasons
  PROVE  Reject(msg, reason) \in RejectStates
BY DEF Reject, RejectStates, NewStates

LEMMA VerdictType ==
  ASSUME NEW msg \in NewStates, NEW prev, NEW our \in Trees
  PROVE  Verdict(msg, prev, our) \in ApproveStates \cup RejectStates
<1>1. Health(our, msg.balances) \in Int /\ Full(msg.balances) \in BOOLEAN
  BY TreesAssumption DEF NewStates, TreesAreClosed
<1>2. Approve(msg, Health(our, msg.balances)) \in ApproveStates
  BY <1>1 DEF Approve, ApproveStates, NewStates
<1>3. /\ Reject(msg, "InvalidTransition") \in RejectStates
      /\ Reject(msg, "TooLowHealth") \in RejectStates
  BY RejectType DEF RejectReasons
<1> QED BY <1>2, <1>3 DEF Verdict

-----------------------------------------------------------------------------
(* Types, and reading before use.                                           *)

LEMMA InitTypeInv == Init => TypeInv
<1> SUFFICES ASSUME Init PROVE TypeInv
  OBVIOUS
<1>1. NoAccounting \in Accountings
  BY TreesAssumption DEF NoAccounting, Accountings, TreesAreClosed
<1>2. EmptyDb \in DbTypes
  BY <1>1 DEF EmptyDb, DbTypes
<1>3. <<>> \in Seq(Aggregates)
  OBVIOUS
<1>4. TypeOK
  BY <1>2, <1>3, NewTickType, BoundsAssumption DEF Init, TypeOK
<1>5. ReadBeforeUse
  BY NewTickType DEF Init, ReadBeforeUse, Ticks
<1> QED BY <1>4, <1>5 DEF TypeInv

\* The follower's answer to what it holds at "answering" is a message.
LEMMA AnswerType ==
  ASSUME TypeInv, NEW t \in FollowerTicks, At(t, "answering"), ~NothingToAnswer(t)
  PROVE  /\ tick[t].newMsg \in NewStates
         /\ AfterFees(tick[t].own.balancesBeforeFees) \in Trees
<1>1. tick[t].newMsg \in NewStates
  BY DEF TypeInv, TypeOK, TickTypes, ReadBeforeUse, At, NothingToAnswer, Ticks
<1>2. tick[t].own.balancesBeforeFees \in Trees
  BY DEF TypeInv, TypeOK, TickTypes, Accountings, Ticks
<1> QED BY <1>1, <1>2, TreesAssumption DEF TreesAreClosed

LEMMA AuthenticityReason ==
  ASSUME NEW msg, Authenticity(msg) # "ok"
  PROVE  Authenticity(msg) \in RejectReasons
BY DEF Authenticity, RejectReasons

LEMMA TickStepTypeInv ==
  ASSUME TypeInv, NEW t \in Ticks, TickStep(t)
  PROVE  TypeInv'
<1> USE DEF TypeInv
<1>0. tick[t] \in TickTypes /\ db \in [Validators -> DbTypes]
  BY DEF TypeOK
<1>1. CASE ReadNewState(t)
  <2>1. /\ db[Follower].newState \in NewStates \cup {None}
        /\ db[Follower].newState # Unread
    BY NamesAssumption DEF TypeOK, DbTypes, Validators, Messages
  <2>2. tick' \in [Ticks -> TickTypes]
    BY <1>1, <2>1, <1>0 DEF ReadNewState, TypeOK, TickTypes, PcTypes
  <2>3. ReadBeforeUse'
    BY <1>1, <2>1, <1>0 DEF ReadNewState, TypeOK, TickTypes, ReadBeforeUse, At, Ticks
  <2> QED BY <1>1, <2>2, <2>3 DEF ReadNewState, TypeOK
<1>2. CASE ReadResponse(t)
  <2>1. /\ db[Follower].response \in ApproveStates \cup RejectStates \cup {None}
        /\ db[Follower].response # Unread
    BY NamesAssumption DEF TypeOK, DbTypes, Validators, Messages
  <2>2. tick' \in [Ticks -> TickTypes]
    BY <1>2, <2>1, <1>0 DEF ReadResponse, TypeOK, TickTypes, PcTypes
  <2>3. ReadBeforeUse'
    BY <1>2, <2>1, <1>0 DEF ReadResponse, TypeOK, TickTypes, ReadBeforeUse, At, Ticks
  <2> QED BY <1>2, <2>2, <2>3 DEF ReadResponse, TypeOK
<1>3. CASE ReadAccounting(t)
  <2>1. db[WorkerOf(t)].accounting \in Accountings
    BY WorkerOfType DEF TypeOK, DbTypes
  <2>2. tick' \in [Ticks -> TickTypes]
    BY <1>3, <2>1, <1>0 DEF ReadAccounting, TypeOK, TickTypes, PcTypes
  <2>3. ReadBeforeUse'
    BY <1>3, <1>0 DEF ReadAccounting, TypeOK, TickTypes, ReadBeforeUse, At
  <2> QED BY <1>3, <2>2, <2>3 DEF ReadAccounting, TypeOK
<1>4. CASE NothingToMerge(t)
  <2>1. CASE t \in FollowerTicks
    <3>1. Goto(t, "answering")
      BY <1>4, <2>1 DEF NothingToMerge
    <3>2. tick' \in [Ticks -> TickTypes]
      BY <3>1, <1>0 DEF Goto, TypeOK, TickTypes, PcTypes
    <3>3. ReadBeforeUse'
      BY <1>4, <3>1, <1>0 DEF NothingToMerge, Goto, TypeOK, TickTypes, ReadBeforeUse, At
    <3> QED BY <1>4, <3>2, <3>3 DEF NothingToMerge, TypeOK
  <2>2. CASE t \notin FollowerTicks
    <3>1. EndTick(t)
      BY <1>4, <2>2 DEF NothingToMerge
    <3> QED BY <1>4, <3>1, EndTickType DEF NothingToMerge, TypeOK
  <2> QED BY <2>1, <2>2
<1>5. CASE ProduceAccounting(t)
  <2> DEFINE new == NewAccounting(WorkerOf(t), tick[t].own)
             pc == IF t \in FollowerTicks THEN "answering" ELSE "proposing"
  <2>1. new \in Accountings
    BY <1>5, <1>0, WorkerOfType, NewAccountingType DEF ProduceAccounting, TickTypes
  <2>2. tick' = [tick EXCEPT ![t].own = new, ![t].pc = pc] /\ Propagate(t, new)
    BY <1>5 DEF ProduceAccounting
  <2>3. pc \in PcTypes
    BY DEF PcTypes
  <2> HIDE DEF new, pc
  <2>4. posts' \subseteq PostTypes
    BY <2>1, <2>2, PropagateType DEF Messages
  <2>5. tick' \in [Ticks -> TickTypes]
    BY <2>1, <2>2, <2>3, <1>0 DEF TypeOK, TickTypes
  <2>6. ReadBeforeUse'
    BY <1>5, <2>2, <1>0 DEF ProduceAccounting, TypeOK, TickTypes, ReadBeforeUse, At
  <2> QED BY <1>5, <2>4, <2>5, <2>6 DEF ProduceAccounting, TypeOK
<1>6. CASE t \in LeaderTicks /\ ProposeState(t)
  <2>1. EndTick(t)
    BY <1>6 DEF ProposeState
  <2> DEFINE balances == AfterFees(tick[t].own.balancesBeforeFees)
             proposal == [type |-> "NewState", balances |-> balances,
                          stateRoot |-> balances, signed |-> TRUE,
                          exhausted |-> Full(balances)]
  <2>2. balances \in Trees /\ Full(balances) \in BOOLEAN
    BY <1>0, TreesAssumption DEF TickTypes, Accountings, TreesAreClosed
  <2>3. proposal \in Messages
    BY <2>2 DEF Messages, NewStates, Roots
  <2>4. posts' \subseteq PostTypes
    BY <1>6, <2>3, PropagateType DEF ProposeState
  <2> QED BY <1>6, <2>1, <2>4, EndTickType DEF ProposeState, TypeOK
<1>7. CASE t \in FollowerTicks /\ SkipAnswer(t)
  <2>1. EndTick(t)
    BY <1>7 DEF SkipAnswer
  <2> QED BY <1>7, <2>1, EndTickType DEF SkipAnswer, TypeOK
<1>8. CASE t \in FollowerTicks /\ RejectUnauthentic(t)
  <2>1. EndTick(t)
    BY <1>8 DEF RejectUnauthentic
  <2> DEFINE answer == Reject(tick[t].newMsg, Authenticity(tick[t].newMsg))
  <2>2. answer \in Messages
    BY <1>8, AnswerType, AuthenticityReason, RejectType DEF RejectUnauthentic, Messages
  <2>3. posts' \subseteq PostTypes
    BY <1>8, <2>2, PropagateType DEF RejectUnauthentic
  <2> QED BY <1>8, <2>1, <2>3, EndTickType DEF RejectUnauthentic, TypeOK
<1>9. CASE t \in FollowerTicks /\ AnswerState(t)
  <2>1. EndTick(t)
    BY <1>9 DEF AnswerState
  <2> DEFINE our == AfterFees(tick[t].own.balancesBeforeFees)
  <2>2. PICK prev : Propagate(t, Verdict(tick[t].newMsg, prev, our))
    BY <1>9 DEF AnswerState
  <2>3. Verdict(tick[t].newMsg, prev, our) \in Messages
    BY <1>9, AnswerType, VerdictType DEF AnswerState, Messages
  <2>4. posts' \subseteq PostTypes
    BY <2>2, <2>3, PropagateType
  <2> QED BY <1>9, <2>1, <2>4, EndTickType DEF AnswerState, TypeOK
<1> QED BY <1>1, <1>2, <1>3, <1>4, <1>5, <1>6, <1>7, <1>8, <1>9 DEF TickStep

\* What the environment and the Sentries do to the tables.
LEMMA ServeTypeInv ==
  ASSUME TypeInv, NEW p \in posts, NEW write \in p.todo, Serve(p, write)
  PROVE  TypeInv'
<1>1. /\ p \in PostTypes
      /\ p.to \in Validators /\ p.from \in Validators /\ p.msg \in Messages
      /\ db[p.to] \in DbTypes /\ db \in [Validators -> DbTypes]
  BY DEF TypeInv, TypeOK, PostTypes
<1>2. InsertMsg(db[p.to], p.msg) \in DbTypes
  BY <1>1, InsertMsgType
<1>3. Stored(db[p.to], p, write) \in DbTypes
  BY <1>1, <1>2 DEF Stored, DbTypes
<1>4. db' \in [Validators -> DbTypes]
  BY <1>1, <1>3 DEF Serve
<1>5. [p EXCEPT !.todo = @ \ {write}] \in PostTypes
  BY <1>1 DEF PostTypes
<1>6. posts' \subseteq PostTypes
  BY <1>5 DEF Serve, TypeInv, TypeOK
<1> QED BY <1>4, <1>6 DEF Serve, TypeInv, TypeOK, ReadBeforeUse

LEMMA PersistTypeInv ==
  ASSUME TypeInv, NEW v \in Validators, NEW aggr \in Aggregates, PersistAggregate(v, aggr)
  PROVE  TypeInv'
<1>1. Append(aggrs[v], aggr) \in Seq(Aggregates)
  BY DEF TypeInv, TypeOK
<1> QED BY <1>1 DEF PersistAggregate, TypeInv, TypeOK, ReadBeforeUse

\* A POST that is no longer waited for is still a POST.
LEMMA LateType ==
  ASSUME NEW p \in PostTypes
  PROVE  [p EXCEPT !.awaited = FALSE] \in PostTypes
BY DEF PostTypes

LEMMA FaultTypeInv ==
  ASSUME TypeInv,
         \/ \E p \in posts : LosePost(p) \/ TimeOutPost(p)
         \/ \E t \in Ticks : AbortTick(t)
         \/ \E msg \in Misreports : Misreport(msg)
  PROVE  TypeInv'
<1>0. \A kind : Fault(kind) => faults' \in 0..MaxFaults
  BY BoundsAssumption DEF Fault, TypeInv, TypeOK
<1>1. ASSUME NEW p \in posts, LosePost(p)
      PROVE  TypeInv'
  BY <1>0, <1>1 DEF LosePost, TypeInv, TypeOK, ReadBeforeUse
<1>2. ASSUME NEW p \in posts, TimeOutPost(p)
      PROVE  TypeInv'
  <2>1. posts' \subseteq PostTypes
    BY <1>2, LateType DEF TimeOutPost, TypeInv, TypeOK
  <2> QED BY <1>0, <1>2, <2>1 DEF TimeOutPost, TypeInv, TypeOK, ReadBeforeUse
<1>3. ASSUME NEW t \in Ticks, AbortTick(t)
      PROVE  TypeInv'
  <2>1. EndTick(t)
    BY <1>3 DEF AbortTick
  <2>2. posts' \subseteq PostTypes
    BY <1>3, LateType DEF AbortTick, AwaitedBy, TypeInv, TypeOK
  <2> QED BY <1>0, <1>3, <2>1, <2>2, EndTickType DEF AbortTick, TypeInv, TypeOK
<1>4. ASSUME NEW msg \in Misreports, Misreport(msg)
      PROVE  TypeInv'
  <2>1. faults' \in 0..MaxFaults
    BY <1>4, BoundsAssumption DEF Misreport, TypeInv, TypeOK
  <2>2. \A v \in Validators : InsertMsg(db[v], msg) \in DbTypes
    BY <1>4, InsertMsgType, MisreportsAssumption DEF TypeInv, TypeOK, Messages
  <2>3. db' \in [Validators -> DbTypes]
    BY <1>4, <2>2 DEF Misreport, DbTypes, Validators
  <2> QED BY <1>4, <2>1, <2>3 DEF Misreport, TypeInv, TypeOK, ReadBeforeUse
<1> QED BY <1>1, <1>2, <1>3, <1>4

LEMMA NextTypeInv == TypeInv /\ [Next]_vars => TypeInv'
<1> SUFFICES ASSUME TypeInv, [Next]_vars PROVE TypeInv'
  OBVIOUS
<1>1. CASE Next
  BY <1>1, TickStepTypeInv, ServeTypeInv, PersistTypeInv, FaultTypeInv DEF Next
<1>2. CASE UNCHANGED vars
  BY <1>2 DEF vars, TypeInv, TypeOK, ReadBeforeUse
<1> QED BY <1>1, <1>2

LEMMA TypeInvInvariant == Spec => []TypeInv
BY InitTypeInv, NextTypeInv, PTL DEF Spec

\* Whatever the validators do and whatever goes wrong, every table, request and
\* tick holds messages of the kind that the code expects there.
THEOREM TypeCorrect == Spec => []TypeOK
<1>1. TypeInv => TypeOK
  BY DEF TypeInv
<1> QED BY <1>1, TypeInvInvariant, PTL

-----------------------------------------------------------------------------
(* Every approval is justified.  The invariant says where an approval gets  *)
(* its justification from: the NewState a tick of the follower holds was    *)
(* stored at the follower's Sentry, whose NewStates are never deleted.      *)

Justified(a) ==
  \E n \in db[Follower].newStates :
    /\ n.stateRoot = a.stateRoot /\ n.balances = a.stateRoot /\ n.signed
    /\ ValidTransition(EmptyTree, n.balances)

HeldIsStored ==
  /\ db[Follower].newState \in db[Follower].newStates \cup {None}
  /\ \A t \in FollowerTicks : tick[t].newMsg \in db[Follower].newStates \cup {None, Unread}

JustifiedInv == TypeInv /\ HeldIsStored /\ ApprovalsAreJustified

\* What is in a Sentry's tables after a message came in.
LEMMA InsertMsgEffect ==
  ASSUME NEW rec \in DbTypes, NEW msg \in Messages
  PROVE  LET new == InsertMsg(rec, msg)
         IN  /\ new.newStates = IF msg.type = "NewState" THEN rec.newStates \cup {msg}
                                                          ELSE rec.newStates
             /\ new.newState = IF msg.type = "NewState" THEN msg ELSE rec.newState
             /\ new.approveState = IF msg.type = "ApproveState" THEN msg
                                                                 ELSE rec.approveState
             /\ new.accounting = IF msg.type = "Accounting" THEN msg ELSE rec.accounting
             /\ new.response = IF msg.type \in {"ApproveState", "RejectState"} THEN msg
                                                                           ELSE rec.response
<1>1. CASE msg \in Accountings
  BY <1>1 DEF InsertMsg, DbTypes, Accountings
<1>2. CASE msg \in NewStates
  BY <1>2 DEF InsertMsg, DbTypes, NewStates
<1>3. CASE msg \in ApproveStates
  BY <1>3 DEF InsertMsg, DbTypes, ApproveStates
<1>4. CASE msg \in RejectStates
  BY <1>4 DEF InsertMsg, DbTypes, RejectStates
<1> QED BY <1>1, <1>2, <1>3, <1>4 DEF Messages

\* Serving a POST changes one Sentry, by the POST's message or its mark.
LEMMA ServeEffect ==
  ASSUME TypeInv, NEW p \in posts, NEW write \in p.todo, Serve(p, write)
  PROVE  /\ p.msg \in Messages /\ p.to \in Validators
         /\ \A v \in Validators \ {p.to} : db'[v] = db[v]
         /\ db'[p.to].newStates =
              IF write = "insert" /\ p.msg.type = "NewState"
              THEN db[p.to].newStates \cup {p.msg} ELSE db[p.to].newStates
         /\ db'[p.to].newState =
              IF write = "insert" /\ p.msg.type = "NewState"
              THEN p.msg ELSE db[p.to].newState
         /\ db'[p.to].approveState =
              IF write = "insert" /\ p.msg.type = "ApproveState"
              THEN p.msg ELSE db[p.to].approveState
         /\ db'[p.to].accounting =
              IF write = "insert" /\ p.msg.type = "Accounting"
              THEN p.msg ELSE db[p.to].accounting
         /\ db'[p.to].response =
              IF write = "insert" /\ p.msg.type \in {"ApproveState", "RejectState"}
              THEN p.msg ELSE db[p.to].response
<1>1. p \in PostTypes
  BY DEF TypeInv, TypeOK
<1>2. p.msg \in Messages /\ p.to \in Validators
  BY <1>1 DEF PostTypes
<1>3. db[p.to] \in DbTypes /\ db \in [Validators -> DbTypes]
  BY <1>2 DEF TypeInv, TypeOK
<1>4. db' = [db EXCEPT ![p.to] = Stored(db[p.to], p, write)]
  BY DEF Serve
<1>5. CASE write = "insert"
  <2>1. db'[p.to] = InsertMsg(db[p.to], p.msg)
    BY <1>2, <1>3, <1>4, <1>5 DEF Stored
  <2> DEFINE new == InsertMsg(db[p.to], p.msg)
  <2>2. /\ new.newStates = IF p.msg.type = "NewState" THEN db[p.to].newStates \cup {p.msg}
                                                        ELSE db[p.to].newStates
        /\ new.newState = IF p.msg.type = "NewState" THEN p.msg ELSE db[p.to].newState
        /\ new.approveState = IF p.msg.type = "ApproveState" THEN p.msg
                                                              ELSE db[p.to].approveState
        /\ new.accounting = IF p.msg.type = "Accounting" THEN p.msg
                                                          ELSE db[p.to].accounting
        /\ new.response = IF p.msg.type \in {"ApproveState", "RejectState"} THEN p.msg
                                                          ELSE db[p.to].response
    BY <1>2, <1>3, InsertMsgEffect
  <2>3. db'[p.to] = new
    BY <2>1
  <2> HIDE DEF new
  <2> QED BY <1>2, <1>3, <1>4, <1>5, <2>2, <2>3
<1>6. CASE write # "insert"
  <2>1. db'[p.to] = [db[p.to] EXCEPT !.exhausted = db[p.to].exhausted \cup {p.from}]
    BY <1>2, <1>3, <1>4, <1>6 DEF Stored
  <2> QED BY <1>2, <1>3, <1>4, <1>6, <2>1 DEF DbTypes
<1> QED BY <1>5, <1>6

LEMMA MisreportEffect ==
  ASSUME TypeInv, NEW msg \in Misreports, Misreport(msg), NEW v \in Validators
  PROVE  /\ db'[v].newStates = db[v].newStates \cup {msg}
         /\ db'[v].newState = msg
         /\ db'[v].approveState = db[v].approveState
         /\ db'[v].accounting = db[v].accounting
         /\ db'[v].response = db[v].response
<1>1. msg \in Messages /\ msg.type = "NewState" /\ db[v] \in DbTypes
  BY MisreportsAssumption DEF Messages, NewStates, TypeInv, TypeOK
<1>2. InsertMsg(db[v], msg) \in DbTypes
  BY <1>1, InsertMsgType
<1>3. /\ db'[v].newStates = InsertMsg(db[v], msg).newStates
      /\ db'[v].newState = InsertMsg(db[v], msg).newState
      /\ db'[v].approveState = InsertMsg(db[v], msg).approveState
      /\ db'[v].accounting = InsertMsg(db[v], msg).accounting
      /\ db'[v].response = InsertMsg(db[v], msg).response
  BY <1>2 DEF Misreport, DbTypes
<1> QED BY <1>1, <1>3, InsertMsgEffect

\* A message that is POSTed is the one the tick propagates.
LEMMA PropagateEffect ==
  ASSUME TypeInv, NEW t \in Ticks, NEW msg, Propagate(t, msg), NEW p \in posts', p \notin posts
  PROVE  /\ p.msg = msg /\ p.tick = t /\ p.awaited
         /\ p = Post(p.to, t, msg)
BY DEF Propagate, Post

\* Approvals are justified for good, so that it is enough to look at new ones.
LEMMA JustifiedStep ==
  ASSUME ApprovalsAreJustified,
         db[Follower].newStates \subseteq db'[Follower].newStates,
         \A p \in posts' : p.msg.type = "ApproveState" =>
           Justified(p.msg) \/ \E q \in posts : q.msg = p.msg,
         \A v \in Validators : db'[v].approveState # None =>
           \/ db'[v].approveState = db[v].approveState
           \/ \E q \in posts : q.msg.type = "ApproveState" /\ q.msg = db'[v].approveState
  PROVE  ApprovalsAreJustified'
<1>1. \A a \in Approvals : Justified(a)
  BY DEF ApprovalsAreJustified, Justified
<1>2. \A a : Justified(a) => Justified(a)'
  BY DEF Justified
<1>3. ASSUME NEW p \in posts', p.msg.type = "ApproveState"
      PROVE  Justified(p.msg)
  BY <1>1, <1>3 DEF Approvals
<1>4. ASSUME NEW v \in Validators, db'[v].approveState # None
      PROVE  Justified(db'[v].approveState)
  BY <1>1, <1>4 DEF Approvals
<1>5. \A a \in Approvals' : Justified(a)'
  BY <1>2, <1>3, <1>4 DEF Approvals
<1> QED BY <1>5 DEF ApprovalsAreJustified, Justified

\* A tick's steps write nothing but the tick and its POSTs, and the only NewState
\* it ever picks up is the newest one at the follower's Sentry.
LEMMA TickStepFrame ==
  ASSUME TypeInv, NEW t \in Ticks, TickStep(t)
  PROVE  /\ db' = db
         /\ \A s \in FollowerTicks :
              tick'[s].newMsg \in {tick[s].newMsg, Unread, db[Follower].newState}
<1>1. tick \in [Ticks -> TickTypes] /\ \A s \in FollowerTicks : tick[s] \in TickTypes
  BY DEF TypeInv, TypeOK, Ticks
<1>2. ASSUME EndTick(t)
      PROVE  \A s \in FollowerTicks : tick'[s].newMsg \in {tick[s].newMsg, Unread}
  BY <1>1, <1>2 DEF EndTick, NewTick, TickTypes, Ticks
<1>3. CASE ReadNewState(t)
  BY <1>1, <1>3 DEF ReadNewState, TickTypes, Ticks
<1>4. CASE ReadResponse(t)
  BY <1>1, <1>4 DEF ReadResponse, TickTypes, Ticks
<1>5. CASE ReadAccounting(t)
  BY <1>1, <1>5 DEF ReadAccounting, TickTypes, Ticks
<1>6. CASE NothingToMerge(t)
  <2>1. CASE t \in FollowerTicks
    BY <1>1, <1>6, <2>1 DEF NothingToMerge, Goto, TickTypes, Ticks
  <2>2. CASE t \notin FollowerTicks
    BY <1>2, <1>6, <2>2 DEF NothingToMerge
  <2> QED BY <2>1, <2>2
<1>7. CASE ProduceAccounting(t)
  <2> DEFINE new == NewAccounting(WorkerOf(t), tick[t].own)
             pc == IF t \in FollowerTicks THEN "answering" ELSE "proposing"
  <2>1. tick' = [tick EXCEPT ![t].own = new, ![t].pc = pc] /\ db' = db
    BY <1>7 DEF ProduceAccounting
  <2> HIDE DEF new, pc
  <2> QED BY <1>1, <2>1 DEF TickTypes, Ticks
<1>8. CASE ProposeState(t)
  BY <1>2, <1>8 DEF ProposeState
<1>9. CASE SkipAnswer(t) \/ RejectUnauthentic(t) \/ AnswerState(t)
  BY <1>2, <1>9 DEF SkipAnswer, RejectUnauthentic, AnswerState
<1> QED BY <1>3, <1>4, <1>5, <1>6, <1>7, <1>8, <1>9 DEF TickStep

\* The trees that a proposal is compared with are trees.
LEMMA PrevBalancesType ==
  ASSUME TypeOK
  PROVE  PrevBalances(Follower) \subseteq Trees
<1>1. db[Follower].newStates \subseteq NewStates
  BY DEF TypeOK, DbTypes, Validators
<1>2. \A n \in LastApproved(Follower) : n.balances \in Trees
  BY <1>1 DEF LastApproved, NewStates
<1> QED BY <1>2, TreesAssumption DEF PrevBalances, TreesAreClosed

\* onNewState approves only what passed all of its checks.
LEMMA VerdictApproves ==
  ASSUME NEW msg \in NewStates, NEW prev, NEW our \in Trees, NEW answer,
         answer = Verdict(msg, prev, our), answer.type = "ApproveState"
  PROVE  /\ answer.stateRoot = msg.stateRoot
         /\ ValidTransition(prev, msg.balances)
         /\ Health(our, msg.balances) >= HEALTH_UNSIGNABLE_PROMILLES
<1>1. \A reason : Reject(msg, reason).type = "RejectState"
  BY DEF Reject
<1>2. Approve(msg, Health(our, msg.balances)).stateRoot = msg.stateRoot
  BY DEF Approve
<1>3. ValidTransition(prev, msg.balances)
  BY <1>1 DEF Verdict
<1>4. ~(Health(our, msg.balances) < HEALTH_UNSIGNABLE_PROMILLES)
  BY <1>1, <1>3 DEF Verdict
<1>5. Health(our, msg.balances) >= HEALTH_UNSIGNABLE_PROMILLES
  BY <1>4, TreesAssumption, BoundsAssumption DEF NewStates, TreesAreClosed
<1> QED BY <1>2, <1>3, <1>4, <1>5 DEF Verdict

\* An ApproveState is sent by AnswerState, for the authentic NewState of the tick.
LEMMA NewApproval ==
  ASSUME TypeInv, NEW t \in Ticks, TickStep(t),
         NEW p \in posts', p \notin posts, p.msg.type = "ApproveState"
  PROVE  /\ t \in FollowerTicks /\ AnswerState(t)
         /\ tick[t].newMsg \in NewStates
         /\ tick[t].newMsg.stateRoot = tick[t].newMsg.balances /\ tick[t].newMsg.signed
         /\ p = Post(p.to, t, p.msg) /\ p.msg.stateRoot = tick[t].newMsg.stateRoot
         /\ \E prev \in PrevBalances(Follower) :
              /\ ValidTransition(prev, tick[t].newMsg.balances)
              /\ Propagate(t, p.msg)
         /\ Health(AfterFees(tick[t].own.balancesBeforeFees), tick[t].newMsg.balances)
              >= HEALTH_UNSIGNABLE_PROMILLES
<1>1. ASSUME NEW msg, Propagate(t, msg)
      PROVE  p.msg = msg /\ p = Post(p.to, t, msg)
  BY <1>1, PropagateEffect
<1>2. ~(ReadNewState(t) \/ ReadResponse(t) \/ ReadAccounting(t) \/ NothingToMerge(t)
          \/ SkipAnswer(t))
  BY DEF ReadNewState, ReadResponse, ReadAccounting, NothingToMerge, SkipAnswer
<1>3. ~ProduceAccounting(t)
  <2> SUFFICES ASSUME ProduceAccounting(t) PROVE FALSE
    OBVIOUS
  <2> DEFINE new == NewAccounting(WorkerOf(t), tick[t].own)
  <2>1. tick[t].own \in Accountings
    BY DEF TypeInv, TypeOK, TickTypes
  <2>2. new \in Accountings
    BY <2>1, WorkerOfType, NewAccountingType DEF ProduceAccounting, TypeInv
  <2>3. Propagate(t, new)
    BY DEF ProduceAccounting
  <2> QED BY <1>1, <2>2, <2>3 DEF Accountings
<1>4. ~ProposeState(t)
  BY <1>1 DEF ProposeState
<1>5. ~RejectUnauthentic(t)
  BY <1>1 DEF RejectUnauthentic, Reject
<1>6. t \in FollowerTicks /\ AnswerState(t)
  BY <1>2, <1>3, <1>4, <1>5 DEF TickStep
<1>7. /\ tick[t].newMsg \in NewStates
      /\ AfterFees(tick[t].own.balancesBeforeFees) \in Trees
  BY <1>6, AnswerType DEF AnswerState
<1>8. tick[t].newMsg.stateRoot = tick[t].newMsg.balances /\ tick[t].newMsg.signed
  BY <1>6, <1>7 DEF AnswerState, Authenticity, NewStates
<1> DEFINE our == AfterFees(tick[t].own.balancesBeforeFees)
<1>9. PICK prev \in PrevBalances(Follower) :
             Propagate(t, Verdict(tick[t].newMsg, prev, our))
  BY <1>6 DEF AnswerState
<1>10. p.msg = Verdict(tick[t].newMsg, prev, our) /\ p = Post(p.to, t, p.msg)
  BY <1>1, <1>9
<1>11. /\ p.msg.stateRoot = tick[t].newMsg.stateRoot
       /\ ValidTransition(prev, tick[t].newMsg.balances)
       /\ Health(our, tick[t].newMsg.balances) >= HEALTH_UNSIGNABLE_PROMILLES
  BY <1>7, <1>10, VerdictApproves
<1> QED BY <1>6, <1>7, <1>8, <1>9, <1>10, <1>11

LEMMA InitJustified == Init => JustifiedInv
<1> SUFFICES ASSUME Init PROVE JustifiedInv
  OBVIOUS
<1>1. TypeInv
  BY InitTypeInv
<1>2. \A v \in Validators : db[v] = EmptyDb
  BY DEF Init
<1>3. HeldIsStored
  BY <1>2 DEF Init, HeldIsStored, EmptyDb, NewTick, Validators, Ticks
<1>4. ApprovalsAreJustified
  BY <1>2 DEF Init, ApprovalsAreJustified, Approvals, EmptyDb
<1> QED BY <1>1, <1>3, <1>4 DEF JustifiedInv

LEMMA TickStepJustified ==
  ASSUME JustifiedInv, NEW t \in Ticks, TickStep(t)
  PROVE  HeldIsStored' /\ ApprovalsAreJustified'
<1> USE DEF JustifiedInv
<1>1. db' = db
  BY TickStepFrame
<1>2. HeldIsStored'
  BY <1>1, TickStepFrame DEF HeldIsStored
<1>3. ASSUME NEW p \in posts', p \notin posts, p.msg.type = "ApproveState"
      PROVE  Justified(p.msg)
  <2> DEFINE n == tick[t].newMsg
  <2>1. /\ t \in FollowerTicks /\ n \in NewStates
        /\ n.stateRoot = n.balances /\ n.signed /\ p.msg.stateRoot = n.stateRoot
    BY <1>3, NewApproval
  <2>2. PICK prev \in Trees : ValidTransition(prev, n.balances)
    BY <1>3, NewApproval, PrevBalancesType DEF TypeInv
  <2>3. ValidTransition(EmptyTree, n.balances)
    BY <2>1, <2>2, TreesAssumption DEF NewStates, AnyTreeFollowsTheEmptyOne
  <2>4. n \in db[Follower].newStates
    BY <2>1, NamesAssumption DEF HeldIsStored, Messages
  <2> QED BY <2>1, <2>3, <2>4 DEF Justified
<1>4. ApprovalsAreJustified'
  BY <1>1, <1>3, JustifiedStep
<1> QED BY <1>2, <1>4

LEMMA ServeJustified ==
  ASSUME JustifiedInv, NEW p \in posts, NEW write \in p.todo, Serve(p, write)
  PROVE  HeldIsStored' /\ ApprovalsAreJustified'
<1> USE DEF JustifiedInv
<1>1. db[Follower].newStates \subseteq db'[Follower].newStates
  BY ServeEffect DEF Validators
<1>2. db'[Follower].newState \in db'[Follower].newStates \cup {None}
  <2>1. CASE p.to # Follower
    <3>1. db'[Follower] = db[Follower]
      BY <2>1, ServeEffect DEF Validators
    <3> QED BY <3>1 DEF HeldIsStored
  <2>2. CASE p.to = Follower /\ write = "insert" /\ p.msg.type = "NewState"
    <3>1. /\ db'[Follower].newStates = db[Follower].newStates \cup {p.msg}
          /\ db'[Follower].newState = p.msg
      BY <2>2, ServeEffect
    <3> QED BY <3>1
  <2>3. CASE p.to = Follower /\ ~(write = "insert" /\ p.msg.type = "NewState")
    <3>1. /\ db'[Follower].newStates = db[Follower].newStates
          /\ db'[Follower].newState = db[Follower].newState
      BY <2>3, ServeEffect
    <3> QED BY <3>1 DEF HeldIsStored
  <2> QED BY <2>1, <2>2, <2>3
<1>3. HeldIsStored'
  BY <1>1, <1>2 DEF HeldIsStored, Serve
<1>4. \A q \in posts' : \E r \in posts : r.msg = q.msg
  <2>1. p \in PostTypes
    BY DEF TypeInv, TypeOK
  <2>2. [p EXCEPT !.todo = @ \ {write}].msg = p.msg
    BY <2>1 DEF PostTypes
  <2> QED BY <2>2 DEF Serve
<1>5. \A v \in Validators : db'[v].approveState # None =>
        \/ db'[v].approveState = db[v].approveState
        \/ \E q \in posts : q.msg.type = "ApproveState" /\ q.msg = db'[v].approveState
  <2>1. \A v \in Validators \ {p.to} : db'[v] = db[v]
    BY ServeEffect
  <2>2. \/ db'[p.to].approveState = db[p.to].approveState
        \/ p.msg.type = "ApproveState" /\ p.msg = db'[p.to].approveState
    BY ServeEffect
  <2> QED BY <2>1, <2>2
<1>6. ApprovalsAreJustified'
  BY <1>1, <1>4, <1>5, JustifiedStep
<1> QED BY <1>3, <1>6

LEMMA FaultJustified ==
  ASSUME JustifiedInv,
         \/ \E p \in posts : LosePost(p) \/ TimeOutPost(p)
         \/ \E t \in Ticks : AbortTick(t)
         \/ \E msg \in Misreports : Misreport(msg)
  PROVE  HeldIsStored' /\ ApprovalsAreJustified'
<1> USE DEF JustifiedInv
<1>1. \A q \in posts : [q EXCEPT !.awaited = FALSE].msg = q.msg
  BY DEF TypeInv, TypeOK, PostTypes
<1>2. ASSUME NEW p \in posts, LosePost(p) \/ TimeOutPost(p)
      PROVE  HeldIsStored' /\ ApprovalsAreJustified'
  <2>1. db' = db /\ tick' = tick
    BY <1>2 DEF LosePost, TimeOutPost
  <2>2. \A q \in posts' : \E r \in posts : r.msg = q.msg
    BY <1>1, <1>2 DEF LosePost, TimeOutPost
  <2> QED BY <2>1, <2>2, JustifiedStep DEF HeldIsStored
<1>3. ASSUME NEW t \in Ticks, AbortTick(t)
      PROVE  HeldIsStored' /\ ApprovalsAreJustified'
  <2>1. db' = db
    BY <1>3 DEF AbortTick
  <2>2. HeldIsStored'
    BY <1>3, <2>1 DEF AbortTick, EndTick, NewTick, HeldIsStored, TypeInv, TypeOK, Ticks
  <2>3. \A q \in posts' : \E r \in posts : r.msg = q.msg
    BY <1>1, <1>3 DEF AbortTick, AwaitedBy
  <2> QED BY <2>1, <2>2, <2>3, JustifiedStep
<1>4. ASSUME NEW msg \in Misreports, Misreport(msg)
      PROVE  HeldIsStored' /\ ApprovalsAreJustified'
  <2>1. \A v \in Validators : /\ db'[v].newStates = db[v].newStates \cup {msg}
                              /\ db'[v].newState = msg
                              /\ db'[v].approveState = db[v].approveState
    BY <1>4, MisreportEffect
  <2>2. posts' = posts /\ tick' = tick
    BY <1>4 DEF Misreport
  <2>3. HeldIsStored'
    BY <2>1, <2>2 DEF HeldIsStored, Validators
  <2> QED BY <2>1, <2>2, <2>3, JustifiedStep DEF Validators
<1> QED BY <1>2, <1>3, <1>4

LEMMA NextJustified == JustifiedInv /\ [Next]_vars => JustifiedInv'
<1> SUFFICES ASSUME JustifiedInv, [Next]_vars PROVE JustifiedInv'
  OBVIOUS
<1>1. TypeInv'
  BY NextTypeInv DEF JustifiedInv
<1>2. ASSUME db' = db, posts' = posts, tick' = tick
      PROVE  HeldIsStored' /\ ApprovalsAreJustified'
  BY <1>2 DEF JustifiedInv, HeldIsStored, ApprovalsAreJustified, Approvals
<1>3. CASE UNCHANGED vars
  BY <1>1, <1>2, <1>3 DEF vars, JustifiedInv
<1>4. CASE \E v \in Validators, aggr \in Aggregates : PersistAggregate(v, aggr)
  BY <1>1, <1>2, <1>4 DEF PersistAggregate, JustifiedInv
<1>5. CASE \E t \in Ticks : TickStep(t)
  BY <1>1, <1>5, TickStepJustified DEF JustifiedInv
<1>6. CASE \E p \in posts : \E write \in p.todo : Serve(p, write)
  BY <1>1, <1>6, ServeJustified DEF JustifiedInv
<1>7. CASE \/ \E p \in posts : LosePost(p) \/ TimeOutPost(p)
           \/ \E t \in Ticks : AbortTick(t)
           \/ \E msg \in Misreports : Misreport(msg)
  BY <1>1, <1>7, FaultJustified DEF JustifiedInv
<1> QED BY <1>3, <1>4, <1>5, <1>6, <1>7 DEF Next

LEMMA JustifiedInvariant == Spec => []JustifiedInv
BY InitJustified, NextJustified, PTL DEF Spec

\* For any number of overlapping ticks and any faults: what the follower signs is
\* the hash of a tree that the leader signed and that fits the deposit.
THEOREM FollowerSignsOnlyJustified == Spec => []ApprovalsAreJustified
<1>1. JustifiedInv => ApprovalsAreJustified
  BY DEF JustifiedInv
<1> QED BY <1>1, JustifiedInvariant, PTL

-----------------------------------------------------------------------------
(* Every Accounting is exact.  Those under way are part of the invariant,   *)
(* whatever a later one did to the tables meanwhile.                        *)

ExactInv ==
  /\ TypeInv
  /\ \A v \in Validators : Len(aggrs[v]) <= MaxAggrs[v]
  /\ AccountingIsExact
  /\ \A p \in posts : p.msg.type = "Accounting" => IsExact(p.to, p.msg)

\* A history, cut in two: merging the rest counts as merging all of it.
LEMMA MergedInTwo ==
  ASSUME NEW v \in Validators, NEW s \in Seq(Aggregates), Len(s) <= MaxAggrs[v],
         NEW last \in 0..Len(s), NEW k \in 0..last,
         NEW rest \in [1 .. last - k -> Aggregates],
         \A i \in 1 .. last - k : rest[i] = s[k + i]
  PROVE  MergeAggrs(MergeAggrs(EmptyTree, SubSeq(s, 1, k)), rest)
           = MergeAggrs(EmptyTree, SubSeq(s, 1, last))
<1> DEFINE h == SubSeq(s, 1, last)
<1>1. h = [i \in 1..last |-> s[i]] /\ Len(h) = last
  OBVIOUS
<1>2. \A i \in 1..last : s[i] \in Aggregates
  OBVIOUS
<1>3. SubSeq(h, 1, k) = [i \in 1..k |-> h[i]] /\ SubSeq(s, 1, k) = [i \in 1..k |-> s[i]]
  OBVIOUS
<1>4. SubSeq(h, k + 1, last) = [i \in 1 .. last - k |-> h[k + i]]
  OBVIOUS
<1>5. /\ \A i \in 1..k : h[i] = s[i]
      /\ \A i \in 1 .. last - k : h[k + i] = s[k + i]
  BY <1>1
<1> HIDE DEF h
<1>6. h \in [1..last -> Aggregates]
  BY <1>1, <1>2
<1>7. SubSeq(h, 1, k) = SubSeq(s, 1, k)
  BY <1>3, <1>5
<1>8. SubSeq(h, k + 1, last) = rest
  BY <1>4, <1>5
<1>9. h \in Histories(v) /\ k \in 0..Len(h)
  BY <1>1, <1>6, BoundsAssumption DEF Histories
<1>10. MergeAggrs(MergeAggrs(EmptyTree, SubSeq(h, 1, k)), rest) = MergeAggrs(EmptyTree, h)
  BY <1>1, <1>8, <1>9, MergingAssumption DEF MergingGoesOn
<1> QED BY <1>7, <1>10 DEF h

\* What mergeAggrs makes of an exact Accounting is exact.
LEMMA NewAccountingIsExact ==
  ASSUME ExactInv, NEW v \in Validators, NEW acc \in Accountings, IsExact(v, acc)
  PROVE  IsExact(v, NewAccounting(v, acc))
<1>1. /\ aggrs[v] \in Seq(Aggregates) /\ Len(aggrs[v]) \in Nat
      /\ Len(aggrs[v]) <= MaxAggrs[v]
      /\ acc.lastEvAggr \in Nat /\ acc.lastEvAggr <= Len(aggrs[v])
      /\ acc.balancesBeforeFees = MergeAggrs(EmptyTree, SubSeq(aggrs[v], 1, acc.lastEvAggr))
  BY DEF ExactInv, TypeInv, TypeOK, Accountings, IsExact
<1>2. PICK last : last = LastOf(v, acc)
  OBVIOUS
<1>3. PICK k : k = acc.lastEvAggr
  OBVIOUS
<1>4. last \in 0..Len(aggrs[v]) /\ k \in 0..last /\ last - k <= EVENTS_FIND_LIMIT
  BY <1>1, <1>2, <1>3, BoundsAssumption DEF LastOf
<1>5. PICK batch : batch = Batch(v, acc)
  OBVIOUS
<1>6. /\ batch \in [1 .. last - k -> Aggregates]
      /\ \A i \in 1 .. last - k : batch[i] = aggrs[v][k + i]
  <2>1. batch = [i \in 1 .. last - k |-> aggrs[v][k + i]]
    BY <1>2, <1>3, <1>5 DEF Batch
  <2>2. \A i \in 1 .. last - k : aggrs[v][k + i] \in Aggregates
    BY <1>1, <1>4
  <2> QED BY <2>1, <2>2
<1>7. MergeAggrs(MergeAggrs(EmptyTree, SubSeq(aggrs[v], 1, k)), batch)
        = MergeAggrs(EmptyTree, SubSeq(aggrs[v], 1, last))
  BY <1>1, <1>4, <1>6, MergedInTwo
<1>8. /\ NewAccounting(v, acc).lastEvAggr = last
      /\ NewAccounting(v, acc).balancesBeforeFees = MergeAggrs(acc.balancesBeforeFees, batch)
  BY <1>2, <1>5 DEF NewAccounting, Accountings
<1> QED BY <1>1, <1>3, <1>4, <1>7, <1>8 DEF IsExact

LEMMA NoAccountingIsExact ==
  ASSUME TypeOK, NEW v \in Validators
  PROVE  IsExact(v, NoAccounting)
<1>1. aggrs[v] \in Seq(Aggregates) /\ Len(aggrs[v]) \in Nat
  BY DEF TypeOK
<1>2. SubSeq(aggrs[v], 1, 0) = <<>>
  OBVIOUS
<1>3. NoAccounting.lastEvAggr = 0 /\ NoAccounting.balancesBeforeFees = EmptyTree
  BY DEF NoAccounting
<1>4. MergeAggrs(EmptyTree, <<>>) = EmptyTree
  BY MergingAssumption DEF MergingGoesOn
<1>5. MergeAggrs(EmptyTree, SubSeq(aggrs[v], 1, NoAccounting.lastEvAggr)) = EmptyTree
  BY <1>2, <1>3, <1>4
<1>6. NoAccounting.lastEvAggr <= Len(aggrs[v])
  BY <1>1, <1>3
<1> QED BY <1>3, <1>5, <1>6 DEF IsExact

\* More aggregates change nothing about what was counted.
LEMMA ExactForGood ==
  ASSUME TypeOK, NEW v \in Validators, NEW acc \in Accountings, IsExact(v, acc),
         \/ aggrs'[v] = aggrs[v]
         \/ \E aggr \in Aggregates : aggrs'[v] = Append(aggrs[v], aggr)
  PROVE  IsExact(v, acc)'
<1>1. CASE aggrs'[v] = aggrs[v]
  BY <1>1 DEF IsExact
<1>2. ASSUME NEW aggr \in Aggregates, aggrs'[v] = Append(aggrs[v], aggr)
      PROVE  IsExact(v, acc)'
  <2>1. PICK s : s = aggrs[v]
    OBVIOUS
  <2>2. PICK k : k = acc.lastEvAggr
    OBVIOUS
  <2>3. s \in Seq(Aggregates) /\ k \in Nat /\ k <= Len(s)
    BY <2>1, <2>2 DEF TypeOK, Accountings, IsExact
  <2>4. PICK t : t = Append(s, aggr)
    OBVIOUS
  <2>5. /\ t \in Seq(Aggregates) /\ Len(t) = Len(s) + 1
        /\ \A i \in 1..Len(s) : t[i] = s[i]
    BY <2>3, <2>4
  <2>6. SubSeq(s, 1, k) = [i \in 1..k |-> s[i]] /\ SubSeq(t, 1, k) = [i \in 1..k |-> t[i]]
    BY <2>3, <2>5
  <2>7. SubSeq(t, 1, k) = SubSeq(s, 1, k) /\ k <= Len(t)
    BY <2>3, <2>5, <2>6
  <2> QED BY <1>2, <2>1, <2>2, <2>4, <2>7 DEF IsExact
<1> QED BY <1>1, <1>2

LEMMA InitExact == Init => ExactInv
<1> SUFFICES ASSUME Init PROVE ExactInv
  OBVIOUS
<1>1. TypeInv /\ TypeOK
  BY InitTypeInv DEF TypeInv
<1>2. \A v \in Validators : Len(aggrs[v]) <= MaxAggrs[v]
  BY BoundsAssumption DEF Init
<1>3. /\ \A v \in Validators : db[v].accounting = NoAccounting
      /\ \A t \in Ticks : tick[t].own = NoAccounting
  BY DEF Init, EmptyDb, NewTick
<1>4. AccountingIsExact
  BY <1>1, <1>3, NoAccountingIsExact, WorkerOfType DEF AccountingIsExact
<1> QED BY <1>1, <1>2, <1>4 DEF Init, ExactInv

\* What a tick holds as its own comes from its Sentry, from mergeAggrs, or is forgotten.
LEMMA OwnIs ==
  ASSUME TypeInv, NEW t \in Ticks, TickStep(t)
  PROVE  /\ \A s \in Ticks \ {t} : tick'[s] = tick[s]
         /\ \/ tick'[t].own \in {tick[t].own, NoAccounting, db[WorkerOf(t)].accounting}
            \/ /\ ProduceAccounting(t)
               /\ tick'[t].own = NewAccounting(WorkerOf(t), tick[t].own)
<1>1. tick \in [Ticks -> TickTypes] /\ tick[t] \in TickTypes
  BY DEF TypeInv, TypeOK
<1>2. ASSUME EndTick(t)
      PROVE  (\A s \in Ticks \ {t} : tick'[s] = tick[s]) /\ tick'[t].own = NoAccounting
  BY <1>1, <1>2 DEF EndTick, NewTick
<1>3. CASE ReadNewState(t)
  BY <1>1, <1>3 DEF ReadNewState, TickTypes
<1>4. CASE ReadResponse(t)
  BY <1>1, <1>4 DEF ReadResponse, TickTypes
<1>5. CASE ReadAccounting(t)
  BY <1>1, <1>5 DEF ReadAccounting, TickTypes
<1>6. CASE NothingToMerge(t)
  <2>1. CASE t \in FollowerTicks
    BY <1>1, <1>6, <2>1 DEF NothingToMerge, Goto, TickTypes
  <2>2. CASE t \notin FollowerTicks
    BY <1>2, <1>6, <2>2 DEF NothingToMerge
  <2> QED BY <2>1, <2>2
<1>7. CASE ProduceAccounting(t)
  <2> DEFINE new == NewAccounting(WorkerOf(t), tick[t].own)
             pc == IF t \in FollowerTicks THEN "answering" ELSE "proposing"
  <2>1. tick' = [tick EXCEPT ![t].own = new, ![t].pc = pc]
    BY <1>7 DEF ProduceAccounting
  <2>2. (\A s \in Ticks \ {t} : tick'[s] = tick[s]) /\ tick'[t].own = new
    <3> HIDE DEF new, pc
    <3> QED BY <1>1, <2>1 DEF TickTypes
  <2> QED BY <1>7, <2>2
<1>8. CASE ProposeState(t)
  BY <1>2, <1>8 DEF ProposeState
<1>9. CASE SkipAnswer(t) \/ RejectUnauthentic(t) \/ AnswerState(t)
  BY <1>2, <1>9 DEF SkipAnswer, RejectUnauthentic, AnswerState
<1> QED BY <1>3, <1>4, <1>5, <1>6, <1>7, <1>8, <1>9 DEF TickStep

\* An Accounting is POSTed by ProduceAccounting, to the worker's own Sentry.
LEMMA NewAccountingPost ==
  ASSUME TypeInv, NEW t \in Ticks, TickStep(t),
         NEW p \in posts', p \notin posts, p.msg.type = "Accounting"
  PROVE  /\ ProduceAccounting(t) /\ p.to = WorkerOf(t)
         /\ p.msg = NewAccounting(WorkerOf(t), tick[t].own)
<1>1. ASSUME NEW msg, Propagate(t, msg)
      PROVE  p.msg = msg
  BY <1>1, PropagateEffect
<1>2. ~(ReadNewState(t) \/ ReadResponse(t) \/ ReadAccounting(t) \/ NothingToMerge(t)
          \/ SkipAnswer(t))
  BY DEF ReadNewState, ReadResponse, ReadAccounting, NothingToMerge, SkipAnswer
<1>3. ~ProposeState(t)
  BY <1>1 DEF ProposeState
<1>4. ~RejectUnauthentic(t)
  BY <1>1 DEF RejectUnauthentic, Reject
<1>5. ~AnswerState(t)
  BY <1>1 DEF AnswerState, Verdict, Approve, Reject
<1>6. ProduceAccounting(t)
  BY <1>2, <1>3, <1>4, <1>5 DEF TickStep
<1>7. PICK new : new = NewAccounting(WorkerOf(t), tick[t].own) /\ Propagate(t, new)
  BY <1>6 DEF ProduceAccounting
<1>8. p.msg = new
  BY <1>1, <1>7
<1>9. p.to = WorkerOf(t)
  BY <1>7, <1>8 DEF Propagate, Recipients, Post
<1> QED BY <1>6, <1>7, <1>8, <1>9

LEMMA TickStepExact ==
  ASSUME ExactInv, NEW t \in Ticks, TickStep(t)
  PROVE  ExactInv'
<1> USE DEF ExactInv
<1>1. TypeInv' /\ TypeOK /\ TypeInv /\ db' = db /\ WorkerOf(t) \in Validators
  BY TickStepTypeInv, TickStepFrame, WorkerOfType DEF TypeInv
<1>2. aggrs' = aggrs
  BY DEF TickStep, ReadNewState, ReadResponse, ReadAccounting, NothingToMerge,
         ProduceAccounting, ProposeState, SkipAnswer, RejectUnauthentic, AnswerState
<1>3. \A v, acc : IsExact(v, acc)' <=> IsExact(v, acc)
  BY <1>2 DEF IsExact
<1>4. tick[t].own \in Accountings /\ IsExact(WorkerOf(t), tick[t].own)
  BY <1>1 DEF TypeOK, TickTypes, AccountingIsExact
<1>5. IsExact(WorkerOf(t), NewAccounting(WorkerOf(t), tick[t].own))
  BY <1>1, <1>4, NewAccountingIsExact
<1>6. IsExact(WorkerOf(t), tick'[t].own)
  BY <1>1, <1>4, <1>5, OwnIs, NoAccountingIsExact DEF AccountingIsExact
<1>7. \A s \in Ticks : IsExact(WorkerOf(s), tick'[s].own)
  BY <1>1, <1>6, OwnIs DEF AccountingIsExact
<1>8. AccountingIsExact'
  BY <1>1, <1>3, <1>7 DEF AccountingIsExact
<1>9. \A p \in posts' : p.msg.type = "Accounting" => IsExact(p.to, p.msg)
  BY <1>1, <1>5, NewAccountingPost
<1> QED BY <1>1, <1>2, <1>3, <1>8, <1>9

LEMMA ServeExact ==
  ASSUME ExactInv, NEW p \in posts, NEW write \in p.todo, Serve(p, write)
  PROVE  ExactInv'
<1> USE DEF ExactInv
<1>1. TypeInv' /\ aggrs' = aggrs /\ tick' = tick /\ p \in PostTypes
  BY ServeTypeInv DEF Serve, TypeInv, TypeOK
<1>2. \A v, acc : IsExact(v, acc)' <=> IsExact(v, acc)
  BY <1>1 DEF IsExact
<1>3. \A v \in Validators :
        \/ db'[v].accounting = db[v].accounting
        \/ v = p.to /\ p.msg.type = "Accounting" /\ db'[v].accounting = p.msg
  <2>1. \A v \in Validators \ {p.to} : db'[v] = db[v]
    BY ServeEffect
  <2>2. \/ db'[p.to].accounting = db[p.to].accounting
        \/ p.msg.type = "Accounting" /\ db'[p.to].accounting = p.msg
    BY ServeEffect
  <2> QED BY <2>1, <2>2
<1>4. AccountingIsExact'
  BY <1>1, <1>2, <1>3 DEF AccountingIsExact
<1>5. [p EXCEPT !.todo = @ \ {write}].msg = p.msg /\ [p EXCEPT !.todo = @ \ {write}].to = p.to
  BY <1>1 DEF PostTypes
<1>6. \A q \in posts' : q.msg.type = "Accounting" => IsExact(q.to, q.msg)
  BY <1>5 DEF Serve
<1> QED BY <1>1, <1>2, <1>4, <1>6

LEMMA PersistExact ==
  ASSUME ExactInv, NEW v \in Validators, NEW aggr \in Aggregates, PersistAggregate(v, aggr)
  PROVE  ExactInv'
<1> USE DEF ExactInv
<1>1. /\ TypeInv' /\ TypeOK /\ db' = db /\ posts' = posts /\ tick' = tick
      /\ aggrs \in [Validators -> Seq(Aggregates)]
      /\ aggrs' = [aggrs EXCEPT ![v] = Append(aggrs[v], aggr)]
      /\ Len(aggrs[v]) < MaxAggrs[v] /\ MaxAggrs[v] \in Nat
  BY PersistTypeInv, BoundsAssumption DEF PersistAggregate, TypeInv, TypeOK
<1>2. \A w \in Validators : Len(aggrs'[w]) <= MaxAggrs[w]
  BY <1>1
<1>3. \A w \in Validators, acc \in Accountings : IsExact(w, acc) => IsExact(w, acc)'
  BY <1>1, ExactForGood
<1>4. /\ \A w \in Validators : db[w].accounting \in Accountings
      /\ \A t \in Ticks : tick[t].own \in Accountings /\ WorkerOf(t) \in Validators
  BY <1>1, WorkerOfType DEF TypeOK, DbTypes, TickTypes
<1>5. AccountingIsExact'
  BY <1>1, <1>3, <1>4 DEF AccountingIsExact
<1>6. \A p \in posts : p.msg.type = "Accounting" => p.msg \in Accountings /\ p.to \in Validators
  BY <1>1 DEF TypeOK, PostTypes, Messages, NewStates, ApproveStates, RejectStates
<1>7. \A p \in posts' : p.msg.type = "Accounting" => IsExact(p.to, p.msg)'
  BY <1>1, <1>3, <1>6
<1> QED BY <1>1, <1>2, <1>5, <1>7

LEMMA FaultExact ==
  ASSUME ExactInv,
         \/ \E p \in posts : LosePost(p) \/ TimeOutPost(p)
         \/ \E t \in Ticks : AbortTick(t)
         \/ \E msg \in Misreports : Misreport(msg)
  PROVE  ExactInv'
<1> USE DEF ExactInv
<1>1. TypeInv' /\ TypeInv /\ TypeOK
  BY FaultTypeInv DEF TypeInv
<1>2. aggrs' = aggrs
  BY DEF LosePost, TimeOutPost, AbortTick, Misreport
<1>3. \A v, acc : IsExact(v, acc)' <=> IsExact(v, acc)
  BY <1>2 DEF IsExact
<1>4. \A q \in posts' : \E r \in posts : r.msg = q.msg /\ r.to = q.to
  <2>1. \A q \in posts : /\ [q EXCEPT !.awaited = FALSE].msg = q.msg
                         /\ [q EXCEPT !.awaited = FALSE].to = q.to
    BY <1>1 DEF TypeOK, PostTypes
  <2>2. CASE \E p \in posts : LosePost(p) \/ TimeOutPost(p)
    BY <2>1, <2>2 DEF LosePost, TimeOutPost
  <2>3. CASE \E t \in Ticks : AbortTick(t)
    BY <2>1, <2>3 DEF AbortTick, AwaitedBy
  <2>4. CASE \E msg \in Misreports : Misreport(msg)
    BY <2>4 DEF Misreport
  <2> QED BY <2>2, <2>3, <2>4
<1>5. \A v \in Validators : db'[v].accounting = db[v].accounting
  BY <1>1, MisreportEffect DEF LosePost, TimeOutPost, AbortTick
<1>6. \A t \in Ticks : tick'[t].own \in {tick[t].own, NoAccounting}
  <2>1. CASE tick' = tick
    BY <2>1
  <2>2. ASSUME NEW t \in Ticks, EndTick(t)
        PROVE  \A s \in Ticks : tick'[s].own \in {tick[s].own, NoAccounting}
    BY <1>1, <2>2 DEF EndTick, NewTick, TypeOK
  <2> QED BY <2>1, <2>2 DEF LosePost, TimeOutPost, AbortTick, Misreport
<1>7. AccountingIsExact'
  BY <1>1, <1>3, <1>5, <1>6, NoAccountingIsExact, WorkerOfType DEF AccountingIsExact
<1> QED BY <1>1, <1>2, <1>3, <1>4, <1>7

LEMMA NextExact == ExactInv /\ [Next]_vars => ExactInv'
<1> SUFFICES ASSUME ExactInv, [Next]_vars PROVE ExactInv'
  OBVIOUS
<1>1. CASE Next
  BY <1>1, TickStepExact, ServeExact, PersistExact, FaultExact DEF Next
<1>2. CASE UNCHANGED vars
  <2>1. TypeInv'
    BY <1>2, NextTypeInv DEF ExactInv
  <2> QED BY <1>2, <2>1 DEF vars, ExactInv, AccountingIsExact, IsExact
<1> QED BY <1>1, <1>2

LEMMA ExactInvariant == Spec => []ExactInv
BY InitExact, NextExact, PTL DEF Spec

\* For any number of ticks, also of one worker at the same time, and any faults: an
\* Accounting counts the aggregates up to its lastEvAggr, each once.
THEOREM EveryAggregateCountsOnce == Spec => []AccountingIsExact
<1>1. ExactInv => AccountingIsExact
  BY DEF ExactInv
<1> QED BY <1>1, ExactInvariant, PTL

-----------------------------------------------------------------------------
(* What holds as long as the follower runs one tick at a time and no POST of *)
(* it outlives the wait for it.  Without that Outpace does not implement     *)
(* ApprovedLedger: MCOutpaceOverlap has the counterexample.                  *)
(*                                                                           *)
(* The argument: while an approval is under way to the follower's Sentry,    *)
(* its only tick waits for it and cannot send another.  So the tree that     *)
(* the approval was compared with is still the approved one when the         *)
(* approval is stored.                                                       *)

OneTickAtATime(f) == FollowerTicks = {f} /\ "late" \notin Faults

\* Only a misreported NewState has a root other than its own tree's, and that
\* root is no tree's.
RootsAreHashes ==
  /\ \A n \in db[Follower].newStates : n.stateRoot \in {n.balances, BadRoot}
  /\ \A p \in posts : p.msg.type = "NewState" => p.msg.stateRoot = p.msg.balances

\* The approvals that the follower's Sentry may still receive.
Pending == {p \in posts : p.to = Follower /\ p.msg.type = "ApproveState"}

PendingIsAwaited(f) == \A p \in Pending : p.tick = f /\ p.awaited

OnePending == \A p, q \in Pending : p = q

PendingIsValid ==
  \A p \in Pending :
    "insert" \in p.todo => ValidTransition(Approved(Follower), p.msg.stateRoot)

LedgerInv(f) ==
  JustifiedInv /\ RootsAreHashes /\ PendingIsAwaited(f) /\ OnePending /\ PendingIsValid

Proposed ==
  {n.balances : n \in {m \in db[Follower].newStates : m.signed /\ m.stateRoot = m.balances}}

-----------------------------------------------------------------------------
\* The approved tree is the one of the newest ApproveState: its NewState is there.
ApprovedIsNewest ==
  Approved(Follower) = IF db[Follower].approveState = None THEN EmptyTree
                       ELSE db[Follower].approveState.stateRoot

LEMMA ApprovedIsNewestInv == JustifiedInv => ApprovedIsNewest
<1> SUFFICES ASSUME JustifiedInv, db[Follower].approveState # None
             PROVE  LastApproved(Follower) # {}
  BY DEF ApprovedIsNewest, Approved, LastApproved
<1>1. db[Follower].approveState \in Approvals
  BY DEF Approvals, Validators
<1> QED BY <1>1 DEF JustifiedInv, ApprovalsAreJustified, LastApproved

LEMMA ApprovedIsNewestNext == JustifiedInv' => ApprovedIsNewest'
BY ApprovedIsNewestInv, PTL

\* An approval's root is a tree that the leader proposed.
LEMMA ApprovedWasProposed ==
  ASSUME JustifiedInv, NEW a \in Approvals
  PROVE  a.stateRoot \in Proposed /\ a.stateRoot \in Trees
<1>1. PICK n \in db[Follower].newStates :
             n.stateRoot = a.stateRoot /\ n.balances = a.stateRoot /\ n.signed
  BY DEF JustifiedInv, ApprovalsAreJustified
<1>2. n \in NewStates
  BY DEF JustifiedInv, TypeInv, TypeOK, DbTypes, Validators
<1> QED BY <1>1, <1>2 DEF Proposed, NewStates

\* What onNewState compares with is the approved tree itself.
LEMMA PrevIsApproved ==
  ASSUME JustifiedInv, RootsAreHashes, NEW prev \in PrevBalances(Follower)
  PROVE  prev = Approved(Follower)
<1>1. CASE LastApproved(Follower) = {}
  BY <1>1 DEF PrevBalances, Approved
<1>2. CASE LastApproved(Follower) # {}
  <2>1. PICK n \in LastApproved(Follower) : prev = n.balances
    BY <1>2 DEF PrevBalances
  <2>2. /\ n \in db[Follower].newStates
        /\ db[Follower].approveState # None
        /\ n.stateRoot = db[Follower].approveState.stateRoot
    BY <2>1 DEF LastApproved
  <2>3. db[Follower].approveState \in Approvals
    BY <2>2 DEF Approvals, Validators
  <2>4. n.stateRoot \in Trees
    BY <2>2, <2>3, ApprovedWasProposed
  <2>5. n.balances = n.stateRoot
    BY <2>2, <2>4, TreesAssumption DEF RootsAreHashes
  <2> QED BY <1>2, <2>1, <2>2, <2>5 DEF Approved
<1> QED BY <1>1, <1>2

-----------------------------------------------------------------------------
(* The invariant.                                                           *)

LEMMA InitLedgerInv ==
  ASSUME NEW f
  PROVE  Init => LedgerInv(f)
BY InitJustified
   DEF Init, LedgerInv, RootsAreHashes, PendingIsAwaited, OnePending, PendingIsValid,
       Pending, EmptyDb, Validators

\* Approvals under way stay in order when none is added and the table stands still.
LEMMA PendingShrinks ==
  ASSUME NEW f, LedgerInv(f), JustifiedInv',
         db'[Follower].approveState = db[Follower].approveState,
         Pending' \subseteq Pending
  PROVE  PendingIsAwaited(f)' /\ OnePending' /\ PendingIsValid'
<1>1. Approved(Follower)' = Approved(Follower)
  BY ApprovedIsNewestInv, ApprovedIsNewestNext DEF LedgerInv, ApprovedIsNewest
<1> QED BY <1>1 DEF LedgerInv, PendingIsAwaited, OnePending, PendingIsValid

\* The leader's worker proposes a tree under its own hash.
LEMMA NewProposal ==
  ASSUME TypeInv, NEW t \in Ticks, TickStep(t),
         NEW p \in posts', p \notin posts, p.msg.type = "NewState"
  PROVE  p.msg.stateRoot = p.msg.balances
<1>1. ASSUME NEW msg, Propagate(t, msg)
      PROVE  p.msg = msg
  BY <1>1, PropagateEffect
<1>2. ~(ReadNewState(t) \/ ReadResponse(t) \/ ReadAccounting(t) \/ NothingToMerge(t)
          \/ SkipAnswer(t))
  BY DEF ReadNewState, ReadResponse, ReadAccounting, NothingToMerge, SkipAnswer
<1>3. ~ProduceAccounting(t)
  <2> SUFFICES ASSUME ProduceAccounting(t) PROVE FALSE
    OBVIOUS
  <2> DEFINE new == NewAccounting(WorkerOf(t), tick[t].own)
  <2>1. tick[t].own \in Accountings
    BY DEF TypeInv, TypeOK, TickTypes
  <2>2. new \in Accountings
    BY <2>1, WorkerOfType, NewAccountingType DEF ProduceAccounting, TypeInv
  <2>3. Propagate(t, new)
    BY DEF ProduceAccounting
  <2> QED BY <1>1, <2>2, <2>3 DEF Accountings
<1>4. ~RejectUnauthentic(t)
  BY <1>1 DEF RejectUnauthentic, Reject
<1>5. ~AnswerState(t)
  BY <1>1 DEF AnswerState, Verdict, Approve, Reject
<1>6. ProposeState(t)
  BY <1>2, <1>3, <1>4, <1>5 DEF TickStep
<1> QED BY <1>1, <1>6 DEF ProposeState

LEMMA TickStepLedgerInv ==
  ASSUME NEW f, OneTickAtATime(f), LedgerInv(f), JustifiedInv', NEW t \in Ticks, TickStep(t)
  PROVE  LedgerInv(f)'
<1> USE DEF LedgerInv
<1>1. db' = db /\ TypeInv
  BY TickStepFrame DEF JustifiedInv
<1>2. RootsAreHashes'
  BY <1>1, NewProposal DEF RootsAreHashes
<1>3. CASE Pending' \subseteq Pending
  BY <1>1, <1>2, <1>3, PendingShrinks
<1>4. ASSUME NEW p \in Pending', p \notin Pending
      PROVE  PendingIsAwaited(f)' /\ OnePending' /\ PendingIsValid'
  <2>1. p \in posts' /\ p \notin posts /\ p.to = Follower /\ p.msg.type = "ApproveState"
    BY <1>4 DEF Pending
  <2> DEFINE n == tick[t].newMsg
  <2>2. /\ t = f /\ AnswerState(t)
        /\ n.stateRoot = n.balances /\ p.msg.stateRoot = n.stateRoot
        /\ p = Post(Follower, t, p.msg)
    BY <1>1, <2>1, NewApproval DEF OneTickAtATime
  <2>3. Propagate(t, p.msg) /\ ValidTransition(Approved(Follower), p.msg.stateRoot)
    BY <1>1, <2>1, <2>2, NewApproval, PrevIsApproved
  \* the tick is not waiting for an approval, so there is none
  <2>4. Pending = {}
    BY <2>2 DEF AnswerState, Settled, AwaitedBy, PendingIsAwaited, Pending
  <2>5. \A q \in Pending' : q = p
    <3> SUFFICES ASSUME NEW q \in Pending' PROVE q = p
      OBVIOUS
    <3>1. q \in posts' /\ q \notin posts /\ q.to = Follower
      BY <2>4 DEF Pending
    <3>2. q = Post(q.to, t, p.msg)
      BY <1>1, <2>3, <3>1, PropagateEffect
    <3> QED BY <2>2, <3>1, <3>2
  <2>6. p.tick = f /\ p.awaited
    BY <2>2 DEF Post
  <2>7. Approved(Follower)' = Approved(Follower)
    BY <1>1 DEF Approved, LastApproved
  <2> QED BY <2>3, <2>5, <2>6, <2>7 DEF PendingIsAwaited, OnePending, PendingIsValid
<1> QED BY <1>2, <1>3, <1>4

LEMMA ServeLedgerInv ==
  ASSUME NEW f, LedgerInv(f), JustifiedInv',
         NEW p \in posts, NEW write \in p.todo, Serve(p, write)
  PROVE  LedgerInv(f)'
<1> USE DEF LedgerInv
<1> DEFINE rest == [p EXCEPT !.todo = @ \ {write}]
<1>1. TypeInv /\ p \in PostTypes
  BY DEF JustifiedInv, TypeInv, TypeOK
<1>2. /\ rest.to = p.to /\ rest.msg = p.msg /\ rest.tick = p.tick
      /\ rest.awaited = p.awaited /\ rest.todo = p.todo \ {write}
  BY <1>1 DEF PostTypes
<1>3. \A q \in posts' : q \in posts \/ q = rest
  BY DEF Serve
<1>4. RootsAreHashes'
  <2>1. \A q \in posts' : q.msg.type = "NewState" => q.msg.stateRoot = q.msg.balances
    BY <1>2, <1>3 DEF RootsAreHashes
  <2>2. \A n \in db'[Follower].newStates :
          n \in db[Follower].newStates \/ (n = p.msg /\ p.msg.type = "NewState")
    <3>1. CASE p.to = Follower /\ write = "insert" /\ p.msg.type = "NewState"
      <4>1. db'[Follower].newStates = db[Follower].newStates \cup {p.msg}
        BY <1>1, <3>1, ServeEffect
      <4> QED BY <3>1, <4>1
    <3>2. CASE p.to = Follower /\ ~(write = "insert" /\ p.msg.type = "NewState")
      <4>1. db'[Follower].newStates = db[Follower].newStates
        BY <1>1, <3>2, ServeEffect
      <4> QED BY <4>1
    <3>3. CASE p.to # Follower
      BY <1>1, <3>3, ServeEffect DEF Validators
    <3> QED BY <3>1, <3>2, <3>3
  <2> QED BY <2>1, <2>2 DEF RootsAreHashes
<1>5. PendingIsAwaited(f)'
  BY <1>2, <1>3 DEF PendingIsAwaited, Pending
<1>6. OnePending'
  <2> SUFFICES ASSUME NEW q \in Pending', NEW r \in Pending' PROVE q = r
    BY DEF OnePending
  <2>1. \A s \in Pending' : s = rest \/ s \in Pending \ {p}
    BY <1>3 DEF Serve, Pending
  <2>2. rest \in Pending' => p \in Pending
    BY <1>2 DEF Pending
  <2> QED BY <2>1, <2>2 DEF OnePending
<1>7. PendingIsValid'
  <2>1. CASE db'[Follower].approveState = db[Follower].approveState
    <3>1. Approved(Follower)' = Approved(Follower)
      BY <2>1, ApprovedIsNewestInv, ApprovedIsNewestNext DEF ApprovedIsNewest
    <3> QED BY <1>2, <1>3, <3>1 DEF PendingIsValid, Pending
  <2>2. CASE db'[Follower].approveState # db[Follower].approveState
    <3>1. p \in Pending /\ write = "insert"
      BY <1>1, <2>2, ServeEffect DEF Pending, Validators
    <3>2. \A q \in Pending' : q = rest
      BY <1>3, <3>1 DEF OnePending, Pending, Serve
    <3> QED BY <1>2, <3>1, <3>2 DEF PendingIsValid
  <2> QED BY <2>1, <2>2
<1> QED BY <1>4, <1>5, <1>6, <1>7

LEMMA OtherStepsLedgerInv ==
  ASSUME NEW f, OneTickAtATime(f), LedgerInv(f), JustifiedInv',
         \/ \E v \in Validators, aggr \in Aggregates : PersistAggregate(v, aggr)
         \/ \E p \in posts : LosePost(p) \/ TimeOutPost(p)
         \/ \E t \in Ticks : AbortTick(t)
         \/ \E msg \in Misreports : Misreport(msg)
         \/ UNCHANGED vars
  PROVE  LedgerInv(f)'
<1> USE DEF LedgerInv
<1>1. \A p \in posts : ~TimeOutPost(p)
  BY DEF TimeOutPost, Fault, OneTickAtATime
<1>2. CASE \E msg \in Misreports : Misreport(msg)
  <2>1. PICK msg \in Misreports : Misreport(msg)
    BY <1>2
  <2>2. /\ db'[Follower].newStates = db[Follower].newStates \cup {msg}
        /\ db'[Follower].approveState = db[Follower].approveState
    BY <2>1, MisreportEffect DEF JustifiedInv, Validators
  <2>3. posts' = posts
    BY <2>1 DEF Misreport
  <2>4. RootsAreHashes'
    BY <2>2, <2>3, MisreportsAssumption DEF RootsAreHashes
  <2>5. Pending' \subseteq Pending
    BY <2>3 DEF Pending
  <2> QED BY <2>2, <2>4, <2>5, PendingShrinks
<1>3. CASE db' = db /\ posts' \subseteq posts
  <2>1. RootsAreHashes'
    BY <1>3 DEF RootsAreHashes
  <2>2. Pending' \subseteq Pending
    BY <1>3 DEF Pending
  <2> QED BY <1>3, <2>1, <2>2, PendingShrinks
<1>4. ASSUME NEW t \in Ticks, AbortTick(t)
      PROVE  db' = db /\ posts' \subseteq posts
  BY <1>4 DEF AbortTick, AwaitedBy, OneTickAtATime
<1>5. CASE \/ \E v \in Validators, aggr \in Aggregates : PersistAggregate(v, aggr)
           \/ \E p \in posts : LosePost(p)
           \/ UNCHANGED vars
  BY <1>3, <1>5 DEF PersistAggregate, LosePost, vars
<1> QED BY <1>1, <1>2, <1>3, <1>4, <1>5

LEMMA NextLedgerInv ==
  ASSUME NEW f, OneTickAtATime(f)
  PROVE  LedgerInv(f) /\ [Next]_vars => LedgerInv(f)'
<1> SUFFICES ASSUME LedgerInv(f), [Next]_vars PROVE LedgerInv(f)'
  OBVIOUS
<1>1. JustifiedInv'
  BY NextJustified DEF LedgerInv
<1> QED BY <1>1, TickStepLedgerInv, ServeLedgerInv, OtherStepsLedgerInv DEF Next

-----------------------------------------------------------------------------
(* The refinement: Init maps to the ledger's, a step to one of its or none. *)

LEMMA InitRefines == Init => Ledger!Init
BY DEF Init, Ledger!Init, EmptyDb, Approved, LastApproved, Validators

\* A NewState that is stored may add a proposal.
LEMMA ProposalRefines ==
  ASSUME NEW f, LedgerInv(f), JustifiedInv', NEW msg \in NewStates,
         db'[Follower].newStates = db[Follower].newStates \cup {msg},
         db'[Follower].approveState = db[Follower].approveState
  PROVE  [Ledger!Next]_<<Proposed, Approved(Follower)>>
<1>1. Approved(Follower)' = Approved(Follower)
  BY ApprovedIsNewestInv, ApprovedIsNewestNext DEF LedgerInv, ApprovedIsNewest
<1>2. CASE msg.signed /\ msg.stateRoot = msg.balances
  <2>1. Proposed' = Proposed \cup {msg.balances}
    BY <1>2 DEF Proposed
  <2>2. msg.balances \in Trees
    BY DEF NewStates
  <2> QED BY <1>1, <2>1, <2>2 DEF Ledger!Next, Ledger!Propose, Proposed
<1>3. CASE ~(msg.signed /\ msg.stateRoot = msg.balances)
  <2>1. Proposed' = Proposed
    BY <1>3 DEF Proposed
  <2> QED BY <1>1, <2>1
<1> QED BY <1>2, <1>3

LEMMA ServeRefines ==
  ASSUME NEW f, LedgerInv(f), JustifiedInv',
         NEW p \in posts, NEW write \in p.todo, Serve(p, write)
  PROVE  [Ledger!Next]_<<Proposed, Approved(Follower)>>
<1> USE DEF LedgerInv
<1>1. TypeInv /\ p.msg \in Messages
  BY ServeEffect DEF JustifiedInv
<1>2. CASE ~(p.to = Follower /\ write = "insert"
               /\ p.msg.type \in {"NewState", "ApproveState"})
  <2>1. /\ db'[Follower].newStates = db[Follower].newStates
        /\ db'[Follower].approveState = db[Follower].approveState
    <3>1. CASE p.to = Follower
      BY <1>1, <1>2, <3>1, ServeEffect
    <3>2. CASE p.to # Follower
      BY <1>1, <3>2, ServeEffect DEF Validators
    <3> QED BY <3>1, <3>2
  <2>2. Proposed' = Proposed
    BY <2>1 DEF Proposed
  <2>3. Approved(Follower)' = Approved(Follower)
    BY <2>1 DEF Approved, LastApproved
  <2> QED BY <2>2, <2>3
<1>3. CASE p.to = Follower /\ write = "insert" /\ p.msg.type = "NewState"
  <2>1. p.msg \in NewStates
    BY <1>1, <1>3 DEF Messages, Accountings, ApproveStates, RejectStates
  <2>2. /\ db'[Follower].newStates = db[Follower].newStates \cup {p.msg}
        /\ db'[Follower].approveState = db[Follower].approveState
    BY <1>1, <1>3, ServeEffect
  <2> QED BY <2>1, <2>2, ProposalRefines
<1>4. CASE p.to = Follower /\ write = "insert" /\ p.msg.type = "ApproveState"
  <2>1. /\ db'[Follower].newStates = db[Follower].newStates
        /\ db'[Follower].approveState = p.msg
    BY <1>1, <1>4, ServeEffect
  <2>2. Proposed' = Proposed
    BY <2>1 DEF Proposed
  <2>3. p.msg # None
    BY <1>1, NamesAssumption
  <2>4. Approved(Follower)' = p.msg.stateRoot
    BY <2>1, <2>3, ApprovedIsNewestNext DEF ApprovedIsNewest
  <2>5. ValidTransition(Approved(Follower), p.msg.stateRoot)
    BY <1>4 DEF PendingIsValid, Pending
  <2>6. p.msg.stateRoot \in Proposed /\ p.msg.stateRoot \in Trees
    BY <1>4, ApprovedWasProposed DEF Approvals
  <2> QED BY <2>2, <2>4, <2>5, <2>6 DEF Ledger!Next, Ledger!Approve, Proposed
<1> QED BY <1>2, <1>3, <1>4

LEMMA NextRefines ==
  ASSUME NEW f, OneTickAtATime(f)
  PROVE  LedgerInv(f) /\ LedgerInv(f)' /\ [Next]_vars
           => [Ledger!Next]_<<Proposed, Approved(Follower)>>
<1> SUFFICES ASSUME LedgerInv(f), LedgerInv(f)', [Next]_vars
             PROVE  [Ledger!Next]_<<Proposed, Approved(Follower)>>
  OBVIOUS
<1>1. JustifiedInv' /\ TypeInv
  BY DEF LedgerInv, JustifiedInv
<1>2. CASE db' = db
  BY <1>2 DEF Proposed, Approved, LastApproved
<1>3. CASE \E t \in Ticks : TickStep(t)
  BY <1>1, <1>2, <1>3, TickStepFrame
<1>4. CASE \E p \in posts : \E write \in p.todo : Serve(p, write)
  BY <1>1, <1>4, ServeRefines
<1>5. CASE \E msg \in Misreports : Misreport(msg)
  <2>1. PICK msg \in Misreports : Misreport(msg)
    BY <1>5
  <2>2. msg \in NewStates
    BY MisreportsAssumption
  <2>3. /\ db'[Follower].newStates = db[Follower].newStates \cup {msg}
        /\ db'[Follower].approveState = db[Follower].approveState
    BY <1>1, <2>1, MisreportEffect DEF Validators
  <2> QED BY <1>1, <2>2, <2>3, ProposalRefines
<1>6. CASE \/ \E v \in Validators, aggr \in Aggregates : PersistAggregate(v, aggr)
           \/ \E p \in posts : LosePost(p) \/ TimeOutPost(p)
           \/ \E t \in Ticks : AbortTick(t)
           \/ UNCHANGED vars
  BY <1>2, <1>6 DEF PersistAggregate, LosePost, TimeOutPost, AbortTick, vars
<1> QED BY <1>3, <1>4, <1>5, <1>6 DEF Next

\* With one tick at a time and no POST outliving its tick's wait, and whatever
\* else is lost, dies or is misreported: the tree that the follower's Sentry
\* serves as approved moves only by transitions the OUTPACE rules allow, to
\* trees that the leader signed.
THEOREM FollowerKeepsTheLedger ==
  ASSUME NEW f, OneTickAtATime(f)
  PROVE  Spec => FollowerLedger
<1>1. Init => LedgerInv(f) /\ Ledger!Init
  BY InitLedgerInv, InitRefines
<1>2. LedgerInv(f) /\ [Next]_vars => LedgerInv(f)'
  BY NextLedgerInv
<1>3. LedgerInv(f) /\ LedgerInv(f)' /\ [Next]_vars
        => [Ledger!Next]_<<Proposed, Approved(Follower)>>
  BY NextRefines
<1> QED BY <1>1, <1>2, <1>3, PTL DEF Spec, FollowerLedger, Ledger!Spec, Proposed

-----------------------------------------------------------------------------
(* What the follower's only tick has read is still true when it answers:    *)
(* nobody else writes answers and accountings to its Sentry, and what it    *)
(* wrote itself it waits for.  A lost Accounting leaves the Sentry behind   *)
(* the tick by one batch.                                                   *)

\* POSTs to the follower's Sentry of what the follower reads back.
Mine == {p \in posts : p.to = Follower /\ p.msg.type # "NewState"}

MineIsAwaited(f) == \A p \in Mine : p.tick = f /\ p.awaited

WritesAreLeft == \A p \in posts : p.todo \subseteq Writes(p.msg)

ResponseIsFresh(f) ==
  tick[f].responseMsg # Unread =>
    /\ \A p \in Mine : p.msg.type = "Accounting"
    /\ db[Follower].response = tick[f].responseMsg

IsMergedFrom(own, stored) ==
  \/ own = stored
  \/ \E batch \in Batches :
       own.balancesBeforeFees = MergeAggrs(stored.balancesBeforeFees, batch)

AccountingIsFresh(f) ==
  /\ At(f, "merging") => Mine = {} /\ tick[f].own = db[Follower].accounting
  /\ At(f, "answering") =>
       /\ \A p \in Mine : p.msg = tick[f].own
       /\ IsMergedFrom(tick[f].own, db[Follower].accounting)

FreshInv(f) ==
  TypeInv /\ MineIsAwaited(f) /\ WritesAreLeft /\ ResponseIsFresh(f) /\ AccountingIsFresh(f)

LEMMA OnlyFollowersTick ==
  ASSUME NEW f, OneTickAtATime(f)
  PROVE  /\ f \in Ticks /\ WorkerOf(f) = Follower
         /\ \A t \in Ticks : t # f => t \in LeaderTicks /\ t \notin FollowerTicks
                                      /\ WorkerOf(t) = Leader
BY ActorsAssumption DEF OneTickAtATime, Ticks, WorkerOf

LEMMA InitFresh ==
  ASSUME NEW f, OneTickAtATime(f)
  PROVE  Init => FreshInv(f)
<1>1. f \in Ticks /\ f \in FollowerTicks
  BY OnlyFollowersTick DEF OneTickAtATime
<1>2. NewTick(f).pc = "reading" /\ NewTick(f).responseMsg = Unread
  BY <1>1 DEF NewTick, FirstRead
<1> QED BY <1>1, <1>2, InitTypeInv
           DEF Init, FreshInv, MineIsAwaited, WritesAreLeft, ResponseIsFresh,
               AccountingIsFresh, Mine, At

\* An answer is sent by the follower's tick, for the root of the NewState it holds.
LEMMA NewAnswer ==
  ASSUME TypeInv, NEW t \in Ticks, TickStep(t),
         NEW p \in posts', p \notin posts, p.msg.type \notin {"Accounting", "NewState"}
  PROVE  /\ t \in FollowerTicks /\ (RejectUnauthentic(t) \/ AnswerState(t))
         /\ p.msg.stateRoot = tick[t].newMsg.stateRoot
<1>1. ASSUME NEW msg, Propagate(t, msg)
      PROVE  p.msg = msg
  BY <1>1, PropagateEffect
<1>2. ~(ReadNewState(t) \/ ReadResponse(t) \/ ReadAccounting(t) \/ NothingToMerge(t)
          \/ SkipAnswer(t))
  BY DEF ReadNewState, ReadResponse, ReadAccounting, NothingToMerge, SkipAnswer
<1>3. ~ProduceAccounting(t)
  <2> SUFFICES ASSUME ProduceAccounting(t) PROVE FALSE
    OBVIOUS
  <2>1. PICK new : new = NewAccounting(WorkerOf(t), tick[t].own) /\ Propagate(t, new)
    BY DEF ProduceAccounting
  <2>2. tick[t].own \in Accountings
    BY DEF TypeInv, TypeOK, TickTypes
  <2>3. new \in Accountings
    BY <2>1, <2>2, WorkerOfType, NewAccountingType DEF ProduceAccounting, TypeInv
  <2> QED BY <1>1, <2>1, <2>3 DEF Accountings
<1>4. ~ProposeState(t)
  BY <1>1 DEF ProposeState
<1>5. t \in FollowerTicks /\ (RejectUnauthentic(t) \/ AnswerState(t))
  BY <1>2, <1>3, <1>4 DEF TickStep
<1>6. \A msg, reason : Reject(msg, reason).stateRoot = msg.stateRoot
  BY DEF Reject
<1>7. \A msg, health : Approve(msg, health).stateRoot = msg.stateRoot
  BY DEF Approve
<1>8. \A msg, prev, our : Verdict(msg, prev, our).stateRoot = msg.stateRoot
  BY <1>6, <1>7 DEF Verdict
<1> QED BY <1>1, <1>5, <1>6, <1>8 DEF RejectUnauthentic, AnswerState

\* What is POSTed is still to be written in full.
LEMMA NewPost ==
  ASSUME TypeInv, NEW t \in Ticks, TickStep(t), NEW p \in posts', p \notin posts
  PROVE  p.tick = t /\ p.awaited /\ p.todo = Writes(p.msg)
<1>1. ASSUME NEW msg, Propagate(t, msg)
      PROVE  p.tick = t /\ p.awaited /\ p.todo = Writes(p.msg)
  BY <1>1, PropagateEffect DEF Post
<1>2. \E msg : Propagate(t, msg)
  BY DEF TickStep, ReadNewState, ReadResponse, ReadAccounting, NothingToMerge,
         ProduceAccounting, ProposeState, SkipAnswer, RejectUnauthentic, AnswerState
<1> QED BY <1>1, <1>2

\* The invariant is kept when no POST is added and neither the tick nor what it read
\* has changed.
LEMMA FreshStays ==
  ASSUME NEW f, FreshInv(f), TypeInv', Mine' \subseteq Mine, WritesAreLeft',
         tick'[f] = tick[f],
         db'[Follower].response = db[Follower].response,
         db'[Follower].accounting = db[Follower].accounting
  PROVE  FreshInv(f)'
BY DEF FreshInv, MineIsAwaited, ResponseIsFresh, AccountingIsFresh, At, IsMergedFrom

\* A new tick has read nothing.
LEMMA FreshAgain ==
  ASSUME NEW f, OneTickAtATime(f), TypeInv', tick'[f] = NewTick(f), WritesAreLeft',
         MineIsAwaited(f)'
  PROVE  FreshInv(f)'
<1>1. f \in FollowerTicks
  BY DEF OneTickAtATime
<1>2. NewTick(f).pc = "reading" /\ NewTick(f).responseMsg = Unread
  BY <1>1 DEF NewTick, FirstRead
<1> QED BY <1>2 DEF FreshInv, ResponseIsFresh, AccountingIsFresh, At

\* The tick waits for all that may still change what it asks its Sentry for.
LEMMA SettledMeansNone ==
  ASSUME NEW f, FreshInv(f), Settled(f)
  PROVE  Mine = {}
BY DEF FreshInv, MineIsAwaited, Mine, Settled, AwaitedBy

LEMMA TickStepKeepsPosts ==
  ASSUME NEW f, OneTickAtATime(f), FreshInv(f), NEW t \in Ticks, TickStep(t)
  PROVE  /\ WritesAreLeft' /\ MineIsAwaited(f)'
         /\ t # f => Mine' \subseteq Mine
<1>1. TypeInv
  BY DEF FreshInv
<1>2. WritesAreLeft'
  BY <1>1, NewPost DEF FreshInv, WritesAreLeft
<1>3. ASSUME NEW p \in Mine', p \notin Mine
      PROVE  t = f
  <2>1. p \in posts' /\ p \notin posts /\ p.to = Follower /\ p.msg.type # "NewState"
    BY <1>3 DEF Mine
  <2>2. CASE p.msg.type = "Accounting"
    BY <1>1, <2>1, <2>2, NewAccountingPost, OnlyFollowersTick, ActorsAssumption
  <2>3. CASE p.msg.type # "Accounting"
    BY <1>1, <2>1, <2>3, NewAnswer DEF OneTickAtATime
  <2> QED BY <2>2, <2>3
<1>4. MineIsAwaited(f)'
  <2> SUFFICES ASSUME NEW p \in Mine' PROVE p.tick = f /\ p.awaited
    BY DEF MineIsAwaited
  <2>1. CASE p \in Mine
    BY <2>1 DEF FreshInv, MineIsAwaited
  <2>2. CASE p \notin Mine
    BY <1>1, <1>3, <2>2, NewPost DEF Mine
  <2> QED BY <2>1, <2>2
<1> QED BY <1>2, <1>3, <1>4

LEMMA TickStepFresh ==
  ASSUME NEW f, OneTickAtATime(f), FreshInv(f), NEW t \in Ticks, TickStep(t)
  PROVE  FreshInv(f)'
<1>1. /\ TypeInv /\ TypeInv' /\ db' = db /\ f \in Ticks /\ f \in FollowerTicks
      /\ WorkerOf(f) = Follower /\ tick[f] \in TickTypes
      /\ WritesAreLeft' /\ MineIsAwaited(f)'
  BY TickStepTypeInv, TickStepFrame, OnlyFollowersTick, TickStepKeepsPosts
     DEF FreshInv, OneTickAtATime, TypeInv, TypeOK
<1>2. CASE t # f
  <2>1. tick'[f] = tick[f] /\ Mine' \subseteq Mine
    BY <1>1, <1>2, OwnIs, TickStepKeepsPosts
  <2> QED BY <1>1, <2>1, FreshStays
<1>3. ASSUME EndTick(f)
      PROVE  FreshInv(f)'
  <2>1. tick'[f] = NewTick(f)
    BY <1>1, <1>3 DEF EndTick, TypeInv, TypeOK
  <2> QED BY <1>1, <2>1, FreshAgain
<1>4. ASSUME posts' = posts
      PROVE  Mine' = Mine
  BY <1>4 DEF Mine
<1>5. CASE ReadNewState(f)
  <2>1. /\ tick'[f].responseMsg = tick[f].responseMsg
        /\ tick'[f].pc \in {"reading", "producing"} /\ posts' = posts
    BY <1>1, <1>5 DEF ReadNewState, At, TypeInv, TypeOK, TickTypes
  <2>2. ResponseIsFresh(f)' /\ AccountingIsFresh(f)'
    BY <1>1, <1>4, <2>1 DEF FreshInv, ResponseIsFresh, AccountingIsFresh, At
  <2> QED BY <1>1, <2>2 DEF FreshInv
<1>6. CASE ReadResponse(f)
  <2>1. /\ tick'[f].responseMsg = db[Follower].response
        /\ tick'[f].pc \in {"reading", "producing"} /\ posts' = posts
    BY <1>1, <1>6 DEF ReadResponse, At, TypeInv, TypeOK, TickTypes
  <2>2. Mine' = {}
    BY <1>4, <1>6, <2>1, SettledMeansNone DEF ReadResponse
  <2>3. ResponseIsFresh(f)' /\ AccountingIsFresh(f)'
    BY <1>1, <2>1, <2>2 DEF ResponseIsFresh, AccountingIsFresh, At
  <2> QED BY <1>1, <2>3 DEF FreshInv
<1>7. CASE ReadAccounting(f)
  <2>1. /\ tick'[f].responseMsg = tick[f].responseMsg /\ tick'[f].pc = "merging"
        /\ tick'[f].own = db[Follower].accounting /\ posts' = posts
    BY <1>1, <1>7 DEF ReadAccounting, TypeInv, TypeOK, TickTypes
  <2>2. Mine = {} /\ Mine' = {}
    BY <1>4, <1>7, <2>1, SettledMeansNone DEF ReadAccounting
  <2>3. ResponseIsFresh(f)' /\ AccountingIsFresh(f)'
    BY <1>1, <2>1, <2>2 DEF FreshInv, ResponseIsFresh, AccountingIsFresh, At
  <2> QED BY <1>1, <2>3 DEF FreshInv
<1>8. CASE NothingToMerge(f)
  <2>1. /\ tick'[f].responseMsg = tick[f].responseMsg /\ tick'[f].pc = "answering"
        /\ tick'[f].own = tick[f].own /\ posts' = posts
    BY <1>1, <1>8 DEF NothingToMerge, Goto, TypeInv, TypeOK, TickTypes
  <2>2. Mine = {} /\ Mine' = {} /\ tick[f].own = db[Follower].accounting
    BY <1>4, <1>8, <2>1 DEF NothingToMerge, FreshInv, AccountingIsFresh
  <2>3. ResponseIsFresh(f)' /\ AccountingIsFresh(f)'
    BY <1>1, <2>1, <2>2 DEF FreshInv, ResponseIsFresh, AccountingIsFresh, At, IsMergedFrom
  <2> QED BY <1>1, <2>3 DEF FreshInv
<1>9. CASE ProduceAccounting(f)
  <2>1. PICK new : new = NewAccounting(Follower, tick[f].own)
    OBVIOUS
  <2>2. /\ tick' = [tick EXCEPT ![f].own = new, ![f].pc = "answering"]
        /\ Propagate(f, new)
    BY <1>1, <1>9, <2>1 DEF ProduceAccounting
  <2>3. /\ tick'[f].responseMsg = tick[f].responseMsg /\ tick'[f].pc = "answering"
        /\ tick'[f].own = new
    BY <1>1, <2>2 DEF TypeInv, TypeOK, TickTypes
  <2>4. Mine = {} /\ tick[f].own = db[Follower].accounting /\ tick[f].own \in Accountings
    BY <1>1, <1>9 DEF ProduceAccounting, FreshInv, AccountingIsFresh, TickTypes
  <2>5. /\ new \in Accountings
        /\ \E batch \in Batches : new.balancesBeforeFees
                                  = MergeAggrs(tick[f].own.balancesBeforeFees, batch)
    BY <1>1, <1>9, <2>1, <2>4, NewAccountingType
       DEF ProduceAccounting, TypeInv, Validators
  <2>6. \A p \in Mine' : p.msg = new
    BY <1>1, <2>2, <2>4, PropagateEffect DEF Mine
  <2>7. ResponseIsFresh(f)'
    BY <1>1, <2>3, <2>5, <2>6 DEF FreshInv, ResponseIsFresh, Accountings
  <2>8. AccountingIsFresh(f)'
    BY <1>1, <2>3, <2>4, <2>5, <2>6 DEF AccountingIsFresh, At, IsMergedFrom
  <2> QED BY <1>1, <2>7, <2>8 DEF FreshInv
<1>10. CASE SkipAnswer(f) \/ RejectUnauthentic(f) \/ AnswerState(f)
  BY <1>3, <1>10 DEF SkipAnswer, RejectUnauthentic, AnswerState
<1>11. f \notin LeaderTicks
  BY <1>1, ActorsAssumption
<1> QED BY <1>2, <1>5, <1>6, <1>7, <1>8, <1>9, <1>10, <1>11 DEF TickStep

LEMMA ServeFresh ==
  ASSUME NEW f, FreshInv(f), TypeInv', NEW p \in posts, NEW write \in p.todo, Serve(p, write)
  PROVE  FreshInv(f)'
<1> DEFINE rest == [p EXCEPT !.todo = @ \ {write}]
<1>1. TypeInv /\ p \in PostTypes /\ tick' = tick
  BY DEF FreshInv, TypeInv, TypeOK, Serve
<1>2. /\ rest.to = p.to /\ rest.msg = p.msg /\ rest.tick = p.tick
      /\ rest.awaited = p.awaited /\ rest.todo = p.todo \ {write}
  BY <1>1 DEF PostTypes
<1>3. \A q \in posts' : q \in posts \/ q = rest
  BY DEF Serve
<1>4. WritesAreLeft' /\ MineIsAwaited(f)'
  BY <1>2, <1>3 DEF FreshInv, WritesAreLeft, MineIsAwaited, Mine
<1>5. \A q \in Mine' : \E r \in Mine : r.msg = q.msg
  BY <1>2, <1>3 DEF Mine
<1>6. /\ db'[Follower].response # db[Follower].response =>
           p \in Mine /\ p.msg.type \in {"ApproveState", "RejectState"}
      /\ db'[Follower].accounting # db[Follower].accounting =>
           p \in Mine /\ db'[Follower].accounting = p.msg
  BY <1>1, ServeEffect DEF Mine, Validators
<1>7. ResponseIsFresh(f)'
  BY <1>1, <1>5, <1>6 DEF FreshInv, ResponseIsFresh
<1>8. AccountingIsFresh(f)'
  BY <1>1, <1>5, <1>6 DEF FreshInv, AccountingIsFresh, At, IsMergedFrom
<1> QED BY <1>4, <1>7, <1>8 DEF FreshInv

LEMMA OtherStepsFresh ==
  ASSUME NEW f, OneTickAtATime(f), FreshInv(f), TypeInv',
         \/ \E v \in Validators, aggr \in Aggregates : PersistAggregate(v, aggr)
         \/ \E p \in posts : LosePost(p) \/ TimeOutPost(p)
         \/ \E t \in Ticks : AbortTick(t)
         \/ \E msg \in Misreports : Misreport(msg)
         \/ UNCHANGED vars
  PROVE  FreshInv(f)'
<1>1. TypeInv /\ f \in Ticks
  BY OnlyFollowersTick DEF FreshInv
<1>2. \A p \in posts : ~TimeOutPost(p)
  BY DEF TimeOutPost, Fault, OneTickAtATime
<1>3. posts' \subseteq posts
  BY <1>2 DEF PersistAggregate, LosePost, AbortTick, AwaitedBy, OneTickAtATime, Misreport, vars
<1>4. WritesAreLeft' /\ Mine' \subseteq Mine /\ MineIsAwaited(f)'
  BY <1>3 DEF FreshInv, WritesAreLeft, Mine, MineIsAwaited
<1>5. /\ db'[Follower].response = db[Follower].response
      /\ db'[Follower].accounting = db[Follower].accounting
  BY <1>1, <1>2, MisreportEffect DEF PersistAggregate, LosePost, AbortTick, vars, Validators
<1>6. tick'[f] \in {tick[f], NewTick(f)}
  BY <1>1, <1>2 DEF PersistAggregate, LosePost, AbortTick, EndTick, Misreport, vars, TypeInv, TypeOK
<1> QED BY <1>4, <1>5, <1>6, FreshStays, FreshAgain

LEMMA NextFresh ==
  ASSUME NEW f, OneTickAtATime(f)
  PROVE  FreshInv(f) /\ [Next]_vars => FreshInv(f)'
<1> SUFFICES ASSUME FreshInv(f), [Next]_vars PROVE FreshInv(f)'
  OBVIOUS
<1>1. TypeInv'
  BY NextTypeInv DEF FreshInv
<1> QED BY <1>1, TickStepFresh, ServeFresh, OtherStepsFresh DEF Next

\* Only a tick POSTs what has all of its writes to go.
LEMMA WholePostIsNew ==
  ASSUME NEW f, OneTickAtATime(f), FreshInv(f), [Next]_vars,
         NEW p \in posts', p \notin posts, p.todo = Writes(p.msg)
  PROVE  \E t \in Ticks : TickStep(t)
<1>1. ASSUME NEW q \in posts, NEW write \in q.todo, Serve(q, write)
      PROVE  FALSE
  <2>1. p = [q EXCEPT !.todo = @ \ {write}] /\ q \in PostTypes
    BY <1>1 DEF Serve, FreshInv, TypeInv, TypeOK
  <2>2. p.todo = q.todo \ {write} /\ p.msg = q.msg
    BY <2>1 DEF PostTypes
  <2> QED BY <1>1, <2>2 DEF FreshInv, WritesAreLeft
<1>2. \A q \in posts : ~TimeOutPost(q)
  BY DEF TimeOutPost, Fault, OneTickAtATime
<1>3. ~ \/ \E v \in Validators, aggr \in Aggregates : PersistAggregate(v, aggr)
        \/ \E q \in posts : LosePost(q)
        \/ \E t \in Ticks : AbortTick(t)
        \/ \E msg \in Misreports : Misreport(msg)
        \/ UNCHANGED vars
  BY DEF PersistAggregate, LosePost, AbortTick, AwaitedBy, OneTickAtATime, Misreport, vars
<1> QED BY <1>1, <1>2, <1>3 DEF Next

LEMMA FreshInvariant ==
  ASSUME NEW f, OneTickAtATime(f)
  PROVE  Spec => []FreshInv(f)
<1>1. Init => FreshInv(f)
  BY InitFresh
<1>2. FreshInv(f) /\ [Next]_vars => FreshInv(f)'
  BY NextFresh
<1> QED BY <1>1, <1>2, PTL DEF Spec

\* latestIsRespondedTo: with one tick at a time and no POST outliving its tick's wait,
\* no root is answered again while the follower's Sentry holds the answer to it,
\* whatever is lost, dies or is misreported.
THEOREM FollowerAnswersOnce ==
  ASSUME NEW f, OneTickAtATime(f)
  PROVE  Spec => AnswersOnce
<1> DEFINE Once ==
      \A p \in posts' \ posts :
        /\ p.msg \in Answers
        /\ p.todo = Writes(p.msg) /\ p.awaited /\ db' = db
        => \/ db[Follower].response = None
           \/ db[Follower].response.stateRoot # p.msg.stateRoot
<1>1. FreshInv(f) /\ [Next]_vars => Once
  <2> SUFFICES ASSUME FreshInv(f), [Next]_vars, NEW p \in posts', p \notin posts,
                      p.msg \in Answers, p.todo = Writes(p.msg),
                      db[Follower].response # None
               PROVE  db[Follower].response.stateRoot # p.msg.stateRoot
    OBVIOUS
  <2>1. PICK t \in Ticks : TickStep(t)
    BY WholePostIsNew
  <2>2. p.msg.type \notin {"Accounting", "NewState"}
    BY DEF Answers, ApproveStates, RejectStates
  <2>3. /\ t = f /\ (RejectUnauthentic(f) \/ AnswerState(f))
        /\ p.msg.stateRoot = tick[f].newMsg.stateRoot
    BY <2>1, <2>2, NewAnswer DEF FreshInv, OneTickAtATime
  <2>4. At(f, "answering") /\ ~NothingToAnswer(f)
    BY <2>3 DEF RejectUnauthentic, AnswerState
  <2>5. tick[f].responseMsg = db[Follower].response
    BY <2>4 DEF FreshInv, TypeInv, ReadBeforeUse, ResponseIsFresh, At, OneTickAtATime
  <2> QED BY <2>3, <2>4, <2>5 DEF NothingToAnswer
<1>2. FreshInv(f) /\ [Next]_vars => [Once]_vars
  BY <1>1
<1> HIDE DEF Once
<1>3. Spec => [][Once]_vars
  BY <1>2, FreshInvariant, PTL DEF Spec
<1> QED BY <1>3 DEF AnswersOnce, Once

\* Under the same conditions the follower signs no tree that is unhealthy by the
\* accounting its Sentry holds when it signs, also when the POST of a newer one was lost.
THEOREM FollowerStandsByItsAccounting ==
  ASSUME NEW f, OneTickAtATime(f)
  PROVE  Spec => ApprovesByItsOwnAccounting
<1> DEFINE Sound ==
      \A p \in posts' \ posts :
        p.msg.type = "ApproveState" /\ p.todo = Writes(p.msg) /\ db' = db
        => LET ours == AfterFees(db[Follower].accounting.balancesBeforeFees)
           IN  Health(ours, p.msg.stateRoot) >= HEALTH_UNSIGNABLE_PROMILLES
<1>1. FreshInv(f) /\ [Next]_vars => Sound
  <2> SUFFICES ASSUME FreshInv(f), [Next]_vars, NEW p \in posts', p \notin posts,
                      p.msg.type = "ApproveState", p.todo = Writes(p.msg)
               PROVE  Health(AfterFees(db[Follower].accounting.balancesBeforeFees),
                             p.msg.stateRoot) >= HEALTH_UNSIGNABLE_PROMILLES
    OBVIOUS
  <2>1. PICK t \in Ticks : TickStep(t)
    BY WholePostIsNew
  <2>2. /\ t = f /\ AnswerState(f) /\ tick[f].newMsg \in NewStates
        /\ p.msg.stateRoot = tick[f].newMsg.balances
        /\ Health(AfterFees(tick[f].own.balancesBeforeFees), p.msg.stateRoot)
             >= HEALTH_UNSIGNABLE_PROMILLES
    BY <2>1, NewApproval DEF FreshInv, OneTickAtATime
  <2>3. IsMergedFrom(tick[f].own, db[Follower].accounting)
    BY <2>2 DEF AnswerState, FreshInv, AccountingIsFresh
  <2>4. PICK stored, own, root :
          /\ stored = db[Follower].accounting.balancesBeforeFees
          /\ own = tick[f].own.balancesBeforeFees /\ root = p.msg.stateRoot
    OBVIOUS
  <2>5. stored \in Trees /\ own \in Trees /\ root \in Trees
    BY <2>2, <2>4, OnlyFollowersTick
       DEF FreshInv, TypeInv, TypeOK, DbTypes, TickTypes, Accountings, NewStates, Validators
  <2>6. own = stored \/ \E batch \in Batches : own = MergeAggrs(stored, batch)
    BY <2>3, <2>4 DEF IsMergedFrom
  <2>7. /\ Health(AfterFees(own), root) \in Int /\ Health(AfterFees(stored), root) \in Int
        /\ HEALTH_UNSIGNABLE_PROMILLES \in Nat
    BY <2>5, TreesAssumption, BoundsAssumption DEF TreesAreClosed
  <2>8. Health(AfterFees(own), root) <= Health(AfterFees(stored), root)
    <3>1. CASE own = stored
      BY <2>7, <3>1
    <3>2. CASE \E batch \in Batches : own = MergeAggrs(stored, batch)
      BY <2>5, <3>2, MergingAssumption DEF CountingMoreIsStricter
    <3> QED BY <2>6, <3>1, <3>2
  <2> QED BY <2>2, <2>4, <2>7, <2>8
<1>2. FreshInv(f) /\ [Next]_vars => [Sound]_vars
  BY <1>1
<1> HIDE DEF Sound
<1>3. Spec => [][Sound]_vars
  BY <1>2, FreshInvariant, PTL DEF Spec
<1> QED BY <1>3 DEF ApprovesByItsOwnAccounting, Sound
=============================================================================
