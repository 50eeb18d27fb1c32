------------------------------ MODULE WorkerLoop ----------------------------
(***************************************************************************)
(* The rounds of a validator worker over the channels of its Sentry, while  *)
(* channels are created and expire.                                         *)
(*                                                                         *)
(* A round counts the channels, reads the first page of the list, then the  *)
(* other pages at once, and ticks what they hold.  Every page is a query of *)
(* its own, with its own clock.  No query asks for an order: MongoDB walks  *)
(* the collection as it was inserted, or the index on validUntil if the     *)
(* operator has made it (scripts/db-indexes.js).                            *)
(*                                                                         *)
(* A tick is what Outpace describes; here it is only under way, awaited by  *)
(* its round or late: the race with the timeout is lost, and it goes on.    *)
(***************************************************************************)
EXTENDS ChannelRules, FiniteSets

CONSTANTS
  Channels,            \* ids of channels
  Def,                 \* the channel of an id
  InitialChannels,     \* the ids stored at first, in this order with or without index
  Requests,            \* POSTs to /channel, each sent once
  Posted,              \* the id that a request posts
  CHANNELS_FIND_LIMIT,
  MaxTime,             \* bound on the clock
  MaxLate              \* bound: late ticks at once

ASSUME LoopAssumption ==
  /\ CHANNELS_FIND_LIMIT \in Nat \ {0}
  /\ MaxTime \in Nat /\ MaxLate \in Nat
  /\ IsFiniteSet(Channels)
  /\ InitialChannels \in Seq(Channels) /\ IsInjective(InitialChannels)
  /\ \A i, j \in DOMAIN InitialChannels :
       i < j => Def[InitialChannels[i]].validUntil <= Def[InitialChannels[j]].validUntil
  /\ \A c \in ToSet(InitialChannels) : TotalFee(Def[c]) <= Def[c].depositAmount
  /\ Posted \in [Requests -> Channels]
  /\ DOMAIN Def = Channels /\ \A c \in Channels : Def[c].validUntil \in Nat

VARIABLES
  now,      \* the clock, in the unit of validUntil
  col,      \* the channels collection, in the order in which queries meet it
  indexed,  \* does the index on validUntil exist?
  req,      \* per request: where it is
  loop,     \* the round: where it is, what it has read
  awaited,  \* per channel: its ticks that the round waits for
  late      \* per channel: its ticks that timed out and still run

vars == <<now, col, indexed, req, loop, awaited, late>>
ticks == <<awaited, late>>

Stored == ToSet(col)
Valid(c, time) == Def[c].validUntil > time

\* The queries meet c before d.
Before(c, d) == \E i, j \in DOMAIN col : i < j /\ col[i] = c /\ col[j] = d

-----------------------------------------------------------------------------
(* POST /channel.                                                           *)

\* The rules are asked first, and then the chain.
Validate(r) ==
  /\ req[r] = "sent"
  /\ LET ch == Def[Posted[r]]
         ok == WellFormed(ch) /\ PreValidated(ch, now)
     IN  req' = [req EXCEPT ![r] = IF ok THEN "checking" ELSE "refused"]
  /\ UNCHANGED <<now, col, indexed, loop, ticks>>

\* The chain does not hold the channel as Active.
RefuseByChain(r) ==
  /\ req[r] = "checking"
  /\ req' = [req EXCEPT ![r] = "refused"]
  /\ UNCHANGED <<now, col, indexed, loop, ticks>>

\* Where the queries will meet a new channel.
Place(c) ==
  1 + IF indexed THEN Cardinality({d \in Stored : Def[d].validUntil <= Def[c].validUntil})
      ELSE Len(col)

\* insertOne with the id as _id: the second of two is told 409.
InsertChannel(r) ==
  /\ req[r] = "checking"
  /\ IF Posted[r] \in Stored
     THEN req' = [req EXCEPT ![r] = "exists"] /\ UNCHANGED col
     ELSE req' = [req EXCEPT ![r] = "created"] /\ col' = InsertAt(col, Place(Posted[r]), Posted[r])
  /\ UNCHANGED <<now, indexed, loop, ticks>>

-----------------------------------------------------------------------------
(* GET /channel/list?validator=, with the time at which it is asked.        *)

Matching(time) ==
  LET found[n \in 0..Len(col)] ==
        IF n = 0 THEN <<>>
        ELSE IF Valid(col[n], time) /\ IsOurs(Def[col[n]])
        THEN Append(found[n - 1], col[n])
        ELSE found[n - 1]
  IN  found[Len(col)]

\* Wrong: floor where ceil is meant, off by one.
OffByOnePages(count) == (count - 1) \div CHANNELS_FIND_LIMIT

TotalPages(count) == (count + CHANNELS_FIND_LIMIT - 1) \div CHANNELS_FIND_LIMIT

\* skip and limit; pages count from 0.
Page(p, time) ==
  LET all == Matching(time)
      first == p * CHANNELS_FIND_LIMIT
  IN  SubSeq(all, first + 1, Min({first + CHANNELS_FIND_LIMIT, Len(all)}))

Unread == <<"unread">>

-----------------------------------------------------------------------------
(* A round.                                                                 *)

Idle == [pc |-> "idle", at |-> 0, known |-> <<>>, stored |-> {}, pages |-> <<>>]

\* The first page is counted and read by the clock of one request.
CountChannels ==
  /\ loop.pc = "idle"
  /\ loop' = [Idle EXCEPT !.pc = "counted", !.at = now,
                          !.known = Matching(now), !.stored = Stored]
  /\ UNCHANGED <<now, col, indexed, req, ticks>>

\* total decides how many pages more are asked for, all at once.
ReadFirstPage ==
  /\ loop.pc = "counted"
  /\ LET total == TotalPages(Len(loop.known))
     IN  loop' = [loop EXCEPT !.pc = "paging", !.at = now,
           !.pages = [i \in 1..Max({1, total}) |-> IF i = 1 THEN Page(0, loop.at) ELSE Unread]]
  /\ UNCHANGED <<now, col, indexed, req, ticks>>

\* Page p arrives: it was asked for at some time since the first page came.
ReadPage(i) ==
  /\ loop.pc = "paging" /\ loop.pages[i] = Unread
  /\ \E list \in {Page(i - 1, time) : time \in loop.at..now} :
       loop' = [loop EXCEPT !.pages[i] = list]
  /\ UNCHANGED <<now, col, indexed, req, ticks>>

\* A request failed, or its answer has no channels: allChannelsTick rejects,
\* and with it the promise that would have called loopChannels again.
FailListing ==
  /\ loop.pc \in {"counted", "paging"}
  /\ loop' = [Idle EXCEPT !.pc = "stopped"]
  /\ UNCHANGED <<now, col, indexed, req, ticks>>

\* Where c is shown: on which page, as its which channel.
Shown(c, pages) ==
  {at \in (DOMAIN pages) \X (1..CHANNELS_FIND_LIMIT) :
     at[2] \in DOMAIN pages[at[1]] /\ pages[at[1]][at[2]] = c}

StartTicks ==
  /\ loop.pc = "paging"
  /\ Unread \notin Range(loop.pages)
  /\ awaited' = [c \in Channels |-> awaited[c] + Cardinality(Shown(c, loop.pages))]
  /\ loop' = [Idle EXCEPT !.pc = "ticking"]
  /\ UNCHANGED <<now, col, indexed, req, late>>

\* A tick is done, well or badly: validatorTick catches what it throws.
FinishTick(c) ==
  /\ awaited[c] > 0
  /\ awaited' = [awaited EXCEPT ![c] = @ - 1]
  /\ UNCHANGED <<now, col, indexed, req, loop, late>>

LateTicks == FoldFunction(+, 0, late)

\* The timeout wins the race.
TimeOutTick(c) ==
  /\ awaited[c] > 0 /\ LateTicks < MaxLate
  /\ awaited' = [awaited EXCEPT ![c] = @ - 1]
  /\ late' = [late EXCEPT ![c] = @ + 1]
  /\ UNCHANGED <<now, col, indexed, req, loop>>

\* Wrong: the end of a late tick counts for the round.
FinishLateAsAwaited(c) ==
  /\ late[c] > 0
  /\ awaited' = [awaited EXCEPT ![c] = @ - 1]
  /\ UNCHANGED <<now, col, indexed, req, loop, late>>

FinishLate(c) ==
  /\ late[c] > 0
  /\ late' = [late EXCEPT ![c] = @ - 1]
  /\ UNCHANGED <<now, col, indexed, req, loop, awaited>>

\* Wrong: the wait alone starts the next round.
NextRoundAtOnce ==
  /\ loop.pc = "ticking"
  /\ loop' = Idle
  /\ UNCHANGED <<now, col, indexed, req, ticks>>

\* Wrong: without the race with the timeout.
NextRoundWhenAllAreDone ==
  /\ loop.pc = "ticking"
  /\ \A c \in Channels : awaited[c] = 0 /\ late[c] = 0
  /\ loop' = Idle
  /\ UNCHANGED <<now, col, indexed, req, ticks>>

\* All ticks have settled and WAIT_TIME is over: loopChannels is called again.
NextRound ==
  /\ loop.pc = "ticking"
  /\ \A c \in Channels : awaited[c] = 0
  /\ loop' = Idle
  /\ UNCHANGED <<now, col, indexed, req, ticks>>

PassTime ==
  /\ now < MaxTime
  /\ now' = now + 1
  /\ UNCHANGED <<col, indexed, req, loop, ticks>>

-----------------------------------------------------------------------------
Init ==
  /\ now = 0
  /\ col = InitialChannels
  /\ indexed \in BOOLEAN
  /\ req = [r \in Requests |-> "sent"]
  /\ loop = Idle
  /\ awaited = [c \in Channels |-> 0]
  /\ late = [c \in Channels |-> 0]

Settle(c) == FinishTick(c) \/ TimeOutTick(c)

Round ==
  \/ CountChannels \/ ReadFirstPage \/ StartTicks \/ NextRound
  \/ \E i \in DOMAIN loop.pages : ReadPage(i)

Next ==
  \/ Round
  \/ FailListing
  \/ \E c \in Channels : Settle(c) \/ FinishLate(c)
  \/ \E r \in Requests : Validate(r) \/ RefuseByChain(r) \/ InsertChannel(r)
  \/ PassTime

Spec == Init /\ [][Next]_vars

\* An answer arrives in the end, and a tick settles because its timeout does.
FairSpec == Spec /\ WF_vars(Round \/ \E c \in Channels : Settle(c))

-----------------------------------------------------------------------------
(* Properties.                                                              *)

TypeOK ==
  /\ now \in 0..MaxTime
  /\ col \in Seq(Channels)
  /\ indexed \in BOOLEAN
  /\ req \in [Requests -> {"sent", "checking", "refused", "exists", "created"}]
  /\ loop.pc \in {"idle", "counted", "paging", "ticking", "stopped"}
  /\ loop.at \in 0..now
  /\ loop.known \in Seq(Channels)
  /\ loop.stored \subseteq Stored
  /\ loop.pages \in Seq(Seq(Channels) \cup {Unread})
  /\ awaited \in [Channels -> Nat]
  /\ late \in [Channels -> 0..MaxLate]

\* Of two requests that post the same channel at the same time one is told that
\* it was created, and the collection holds it once; whatever was stored can
\* pay the fees of both its validators, which is what BalanceTrees assumes.
StoredOnceAndSound ==
  /\ IsInjective(col)
  /\ \A r, s \in Requests :
       req[r] = "created" /\ req[s] = "created" /\ Posted[r] = Posted[s] => r = s
  /\ \A c \in Stored : TotalFee(Def[c]) <= Def[c].depositAmount

\* Since the round counted, a channel that the queries meet before c has
\* expired or was added: c has moved to another page, and perhaps to none.
Disturbed(c) ==
  \E d \in Stored :
    /\ Before(d, c)
    /\ \/ d \in ToSet(loop.known) /\ ~Valid(d, now)
       \/ d \notin loop.stored

\* A round ticks every channel that it counted and that lasts, once, although
\* its pages are read at different times: only a channel that was met before it
\* and expired or came in between can hide it or show it twice.
TickedOnceUnlessDisturbed ==
  [][loop.pc = "paging" /\ loop'.pc = "ticking" =>
       \A c \in ToSet(loop.known) :
         Valid(c, now) /\ ~Disturbed(c) => awaited'[c] = awaited[c] + 1]_vars

\* The worker has two ticks of one channel under way, which Outpace shows to be
\* harmful, only if a tick outlived its timeout or the list showed it twice.
OneTickAtATime ==
  [][\A c \in Channels :
       awaited'[c] > awaited[c] /\ awaited'[c] + late[c] > 1 => late[c] > 0 \/ Disturbed(c)]_vars

\* A channel that does not expire is ticked again and again, however the list
\* changed, unless a listing fails: then nothing is ticked any more.
LastingChannelsAreTicked ==
  \A c \in {d \in Channels : Valid(d, MaxTime)} :
    c \in Stored ~> awaited[c] > 0 \/ loop.pc = "stopped"
=============================================================================
