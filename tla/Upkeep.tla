-------------------------------- MODULE Upkeep ------------------------------
(***************************************************************************)
(* The messages of one channel at the leader's Sentry: the ticks of the     *)
(* validators add proposals, approvals and heartbeats, and the operator's   *)
(* script scripts/prune.js deletes what it takes for obsolete.              *)
(*                                                                         *)
(* The script asks the Sentry for what is to be kept, with several queries, *)
(* and deletes the rest later: of a channel that is not expired the         *)
(* heartbeats up to the time the script was started, of an expired one      *)
(* everything.  The leader's worker decides by the newest heartbeat that    *)
(* it finds here whether to send another.                                   *)
(*                                                                         *)
(* The leader ticks once at a time, see WorkerLoop.  The follower reads its *)
(* own Sentry, so when it approves is left open and its heartbeats are only *)
(* known to be HEARTBEAT_TIME apart.  A POST is stamped with the time at    *)
(* which this Sentry starts to handle it and stored some time later, so the *)
(* newest message may be there before an older one, and the script may ask, *)
(* and delete, between the two steps.                                       *)
(***************************************************************************)
EXTENDS Naturals, SequencesExt, FiniteSets

CONSTANTS
  HEARTBEAT_TIME,
  ValidUntils,  \* what channel.validUntil may be
  MaxTime,      \* bound on the clock
  MaxStates,    \* bound on the proposals
  MaxPosts,     \* bound: POSTs to this Sentry that are under way at a time
  MaxPrunes,    \* bound: runs of the script
  MaxFaults     \* bound: POSTs that are lost or outlive their timeout

ASSUME UpkeepAssumption ==
  /\ HEARTBEAT_TIME \in Nat /\ ValidUntils \subseteq Nat
  /\ {MaxTime, MaxStates, MaxPosts, MaxPrunes, MaxFaults} \subseteq Nat

Validators == {"leader", "follower"}

\* What a stateRoot is the hash of: a heartbeat's is that of its timestamp alone.
Beat(time) == <<"beat", time>>
State(n) == <<"state", n>>
None == <<"none", 0>>

\* The messages are told apart by type and sender, and each query asks for one
\* kind: the kind of a heartbeat is who sent it.
Kinds == {"NewState", "ApproveState"} \cup Validators

VARIABLES
  now,        \* the clock
  validUntil,
  exhausted,  \* are both validators' exhausted flags set?
  msgs,       \* per kind: the channel's validatorMessages, ordered by received
  posts,      \* POSTs under way; received is Unreceived until the Sentry has them
  states,     \* how many states the leader has proposed
  approved,   \* the newest state that the follower has approved, 0 if none
  tick,       \* the leader's tick
  beat,       \* the time of the follower's next heartbeat, at the earliest
  prune,      \* the script
  faults      \* what went wrong: POSTs that were late, POSTs that were lost

vars == <<now, validUntil, exhausted, msgs, posts, states, approved, tick, beat, prune, faults>>
channel == <<validUntil, exhausted>>
protocol == <<states, approved, beat>>

Expired == validUntil <= now

-----------------------------------------------------------------------------
(* The queries.                                                             *)

\* sort({ received: -1 }).limit(n)
Newest(seq, n) == ToSet(SubSeq(seq, Max({1, Len(seq) - n + 1}), Len(seq)))

LastHeartbeats == UNION {Newest(msgs[v], 2) : v \in Validators}

NewestRoot(kind) == IF msgs[kind] = <<>> THEN None ELSE Last(msgs[kind]).root

HasNewState(root) == \E m \in ToSet(msgs["NewState"]) : m.root = root

\* GET /last-approved: the state both have signed, none if one half is missing.
LastApproved == IF HasNewState(NewestRoot("ApproveState")) THEN NewestRoot("ApproveState") ELSE None

-----------------------------------------------------------------------------
(* The validators.                                                          *)

Off == [pc |-> "off", exhausted |-> FALSE, latest |-> None]

Unreceived == MaxTime + 1

Post(kind, root, received) ==
  /\ Cardinality(posts) < MaxPosts
  /\ posts' = posts \cup {[kind |-> kind, root |-> root, received |-> received]}

\* A tick has the channel as the list showed it, when it was not expired.
StartTick ==
  /\ tick.pc = "off" /\ ~Expired
  /\ tick' = [Off EXCEPT !.pc = "working", !.exhausted = exhausted]
  /\ UNCHANGED <<now, channel, msgs, posts, protocol, prune, faults>>

\* The leader posts to both Sentries, so the follower may know a state that is
\* not stored here.
Propose ==
  /\ tick.pc = "working" /\ states < MaxStates
  /\ states' = states + 1
  /\ Post("NewState", State(states + 1), Unreceived)
  /\ UNCHANGED <<now, channel, msgs, approved, beat, tick, prune, faults>>

LosePost ==
  /\ faults.late + faults.lost < MaxFaults
  /\ faults' = [faults EXCEPT !.lost = @ + 1]

\* The follower's POST is received now, or lost on its way.
FollowerPosts(kind, root) ==
  \/ Post(kind, root, now) /\ UNCHANGED faults
  \/ LosePost /\ UNCHANGED posts

Approve ==
  /\ \E n \in approved + 1..states :
       approved' = n /\ FollowerPosts("ApproveState", State(n))
  /\ UNCHANGED <<now, channel, msgs, states, beat, tick, prune>>

SendFollowersHeartbeat ==
  /\ beat <= now /\ ~exhausted /\ ~Expired
  /\ FollowerPosts("follower", Beat(now))
  /\ beat' = now + HEARTBEAT_TIME + 1
  /\ UNCHANGED <<now, channel, msgs, states, approved, tick, prune>>

\* heartbeat() at the end of the tick: getOurLatestMsg
AskHeartbeat ==
  /\ tick.pc = "working"
  /\ tick' = [tick EXCEPT !.pc = "deciding", !.latest = NewestRoot("leader")]
  /\ UNCHANGED <<now, channel, msgs, posts, protocol, prune, faults>>

\* Wrong: one heartbeat is enough.
ShouldSendOnce == tick.latest = None

ShouldSend == tick.latest = None \/ now > tick.latest[2] + HEARTBEAT_TIME

\* Wrong: the channel is asked for, the age of the latest heartbeat is not.
SendHeartbeatEachTick ==
  /\ tick.pc = "deciding"
  /\ ~tick.exhausted
  /\ Post("leader", Beat(now), Unreceived)
  /\ tick' = [Off EXCEPT !.pc = "waiting"]
  /\ UNCHANGED <<now, channel, msgs, protocol, prune, faults>>

SendHeartbeat ==
  /\ tick.pc = "deciding"
  /\ ShouldSend /\ ~tick.exhausted
  /\ Post("leader", Beat(now), Unreceived)
  /\ tick' = [Off EXCEPT !.pc = "waiting"]
  /\ UNCHANGED <<now, channel, msgs, protocol, prune, faults>>

SkipHeartbeat ==
  /\ tick.pc = "deciding"
  /\ ~ShouldSend \/ tick.exhausted
  /\ tick' = Off
  /\ UNCHANGED <<now, channel, msgs, posts, protocol, prune, faults>>

Unanswered == \E p \in posts : p.kind = "leader"

\* propagate has resolved: the heartbeat is stored here, or its POST failed.
EndTick ==
  /\ tick.pc = "waiting" /\ ~Unanswered
  /\ tick' = Off
  /\ UNCHANGED <<now, channel, msgs, posts, protocol, prune, faults>>

\* The timeout ends the wait, and the POST may still be handled.
TimeOut ==
  /\ tick.pc = "waiting" /\ Unanswered
  /\ faults.late + faults.lost < MaxFaults
  /\ tick' = Off
  /\ faults' = [faults EXCEPT !.late = @ + 1]
  /\ UNCHANGED <<now, channel, msgs, posts, protocol, prune>>

FailPost(p) ==
  /\ LosePost
  /\ posts' = posts \ {p}
  /\ UNCHANGED <<now, channel, msgs, protocol, tick, prune>>

\* postValidatorMessages takes the time first,
Receive(p) ==
  /\ p.received = Unreceived
  /\ posts' = (posts \ {p}) \cup {[p EXCEPT !.received = now]}
  /\ UNCHANGED <<now, channel, msgs, protocol, tick, prune, faults>>

\* Wrong: ordered by when it is inserted.
BehindAll(seq, n, received) == n = Len(seq)

\* The first n of a sequence were received no later, the rest were.
Behind(seq, n, received) ==
  /\ \A i \in 1..n : seq[i].received <= received
  /\ \A i \in n + 1..Len(seq) : seq[i].received > received

\* and inserts the message with it, which sorts it behind those received before.
Insert(p) ==
  /\ p.received # Unreceived
  /\ posts' = posts \ {p}
  /\ \E n \in 0..Len(msgs[p.kind]) :
       /\ Behind(msgs[p.kind], n, p.received)
       /\ msgs' = [msgs EXCEPT ![p.kind] =
            InsertAt(@, n + 1, [root |-> p.root, received |-> p.received])]
  /\ UNCHANGED <<now, channel, protocol, tick, prune, faults>>

Exhaust ==
  /\ ~exhausted
  /\ exhausted' = TRUE
  /\ UNCHANGED <<now, validUntil, msgs, posts, protocol, tick, prune, faults>>

PassTime ==
  /\ now < MaxTime
  /\ now' = now + 1
  /\ UNCHANGED <<channel, msgs, posts, protocol, tick, prune, faults>>

-----------------------------------------------------------------------------
(* scripts/prune.js                                                         *)

\* Between runs; since is the timestamp, kept are the roots to be kept, approved
\* what last-approved is told to be, all whether the channel is expired.  A history
\* of the time at which the heartbeats were asked for, and of the POSTs that were
\* received and not yet stored then, is there for the properties alone.
Idle(runs) == [pc |-> "idle", runs |-> runs, since |-> 0, kept |-> {},
               approved |-> None, all |-> FALSE, asked |-> 0, inserting |-> {}]

\* The timestamp is that of the start, or what the operator passes.
StartPrune ==
  /\ prune.pc = "idle" /\ prune.runs < MaxPrunes
  /\ \E since \in 0..MaxTime :
       prune' = [Idle(prune.runs + 1) EXCEPT !.pc = "started", !.since = since]
  /\ UNCHANGED <<now, channel, msgs, posts, protocol, tick, faults>>

FetchHeartbeats ==
  /\ prune.pc = "started"
  /\ prune' = [prune EXCEPT !.pc = "heartbeats",
       !.kept = {m.root : m \in LastHeartbeats}, !.asked = now,
       !.inserting = {p \in posts : p.received # Unreceived}]
  /\ UNCHANGED <<now, channel, msgs, posts, protocol, tick, faults>>

FetchApproved ==
  /\ prune.pc = "heartbeats"
  /\ prune' = [prune EXCEPT !.pc = "fetched", !.approved = LastApproved,
                             !.kept = @ \cup {LastApproved}]
  /\ UNCHANGED <<now, channel, msgs, posts, protocol, tick, faults>>

FailToFetch ==
  /\ prune.pc \in {"started", "heartbeats"}
  /\ prune' = Idle(prune.runs)
  /\ UNCHANGED <<now, channel, msgs, posts, protocol, tick, faults>>

CompareValidUntil ==
  /\ prune.pc = "fetched"
  /\ prune' = [prune EXCEPT !.pc = "deleting", !.all = Expired]
  /\ UNCHANGED <<now, channel, msgs, posts, protocol, tick, faults>>

\* Wrong: the roots of the last approved state are not kept.
ObsoleteButHeartbeats(kind, m) ==
  /\ m.root \notin prune.kept \ {prune.approved}
  /\ prune.all \/ (kind \in Validators /\ m.received <= prune.since)

\* Wrong: everything up to now.
ObsoleteByNow(kind, m) ==
  /\ m.root \notin prune.kept
  /\ prune.all \/ (kind \in Validators /\ m.received <= now)

Obsolete(kind, m) ==
  /\ m.root \notin prune.kept
  /\ prune.all \/ (kind \in Validators /\ m.received <= prune.since)

\* What deleteMany leaves of a sequence, in its order.
Without(seq, gone) ==
  LET left[n \in 0..Len(seq)] ==
        IF n = 0 THEN <<>>
        ELSE IF seq[n] \in gone THEN left[n - 1] ELSE Append(left[n - 1], seq[n])
  IN  left[Len(seq)]

Delete ==
  /\ prune.pc = "deleting"
  /\ msgs' = [kind \in Kinds |->
       Without(msgs[kind], {m \in ToSet(msgs[kind]) : Obsolete(kind, m)})]
  /\ prune' = Idle(prune.runs)
  /\ UNCHANGED <<now, channel, posts, protocol, tick, faults>>

-----------------------------------------------------------------------------
Init ==
  /\ now = 0
  /\ validUntil \in ValidUntils
  /\ exhausted = FALSE
  /\ msgs = [kind \in Kinds |-> <<>>] /\ posts = {}
  /\ states = 0 /\ approved = 0
  /\ tick = Off /\ beat = 0
  /\ prune = Idle(0)
  /\ faults = [late |-> 0, lost |-> 0]

HeartbeatStep == AskHeartbeat \/ SendHeartbeat \/ SkipHeartbeat \/ EndTick

Next ==
  \/ StartTick \/ Propose \/ HeartbeatStep \/ TimeOut
  \/ Approve \/ SendFollowersHeartbeat
  \/ \E p \in posts : Receive(p) \/ Insert(p) \/ FailPost(p)
  \/ Exhaust \/ PassTime
  \/ StartPrune \/ FetchHeartbeats \/ FetchApproved
  \/ FailToFetch \/ CompareValidUntil \/ Delete

Spec == Init /\ [][Next]_vars

\* The leader's worker ticks again and again, and a POST is received and stored,
\* or lost.
FairSpec ==
  /\ Spec
  /\ WF_vars(StartTick \/ HeartbeatStep)
  /\ WF_vars(\E p \in posts : Receive(p))
  /\ WF_vars(\E p \in posts : Insert(p))

-----------------------------------------------------------------------------
(* Properties.                                                              *)

Roots == {Beat(t) : t \in 0..MaxTime} \cup {State(n) : n \in 1..MaxStates} \cup {None}

TypeOK ==
  /\ now \in 0..MaxTime /\ exhausted \in BOOLEAN
  /\ msgs \in [Kinds -> Seq([root : Roots, received : 0..now])]
  /\ \A kind \in Kinds : \A i, j \in DOMAIN msgs[kind] :
       i < j => msgs[kind][i].received <= msgs[kind][j].received
  /\ posts \subseteq [kind : Kinds, root : Roots, received : 0..now \cup {Unreceived}]
  /\ states \in 0..MaxStates /\ approved \in 0..states
  /\ tick.pc \in {"off", "working", "deciding", "waiting"} /\ beat \in 0..now + HEARTBEAT_TIME + 1
  /\ prune.kept \subseteq Roots /\ prune.runs \in 0..MaxPrunes

\* The script leaves what last-approved serves as it is, although it deletes
\* everything else of an expired channel, unless another state was approved
\* after it asked.
ApprovedSurvivesPruning ==
  [][Delete /\ LastApproved = prune.approved => LastApproved' = LastApproved]_vars

\* Pruning a channel that is in use takes the newest heartbeat of a validator, by
\* which it is judged to be alive, only if the script's timestamp is not before its
\* receipt and it was not yet there when the script asked which heartbeats to keep:
\* it was received and its insert was slow, or it was received later.
UnderWay(v, m) == [kind |-> v, root |-> m.root, received |-> m.received] \in prune.inserting

NewestHeartbeatSurvives ==
  [][Delete /\ ~prune.all =>
       \A v \in Validators : \A m \in Newest(msgs[v], 1) :
         \/ m \in ToSet(msgs'[v])
         \/ m.received <= prune.since /\ (UnderWay(v, m) \/ prune.asked <= m.received)]_vars

\* Of the leader's heartbeats that are there, each is more than HEARTBEAT_TIME later
\* than the one received before it, as long as no POST outlives its tick.
HeartbeatsApart ==
  faults.late = 0 =>
    LET mine == msgs["leader"]
    IN  \A i, j \in DOMAIN mine :
          i < j => mine[j].root[2] > mine[i].root[2] + HEARTBEAT_TIME

Fresh == NewestRoot("leader") # None /\ now <= NewestRoot("leader")[2] + HEARTBEAT_TIME

\* A lost, a late or a pruned heartbeat is made good: whenever the newest one is
\* too old, a newer one comes, unless the channel ends.
HeartbeatsGoOn == ~Fresh ~> Fresh \/ exhausted \/ Expired
=============================================================================
