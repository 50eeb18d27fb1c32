------------------------------- MODULE Analytics ----------------------------
(***************************************************************************)
(* The statistics of a Sentry.  Each request of events is noted twice: the  *)
(* analytics recorder notes it at once in hourly documents, and the event   *)
(* aggregate it was put into is summed up later, with those of the same     *)
(* hour and channel, by scripts/analyticsAggregator.js.  Two routes answer  *)
(* from these two collections.                                              *)
(*                                                                         *)
(* Time is counted in hours.  An aggregate gets its created when its insert *)
(* is sent, and is seen when the insert is done (see EventRecorder).        *)
(***************************************************************************)
EXTENDS AnalyticsRules

CONSTANTS
  Channels,
  Creator,      \* channel |-> the uid of its advertiser
  Bodies,       \* the requests: [channel, events]
  MaxRequests,  \* bound
  MaxTime,      \* bound on the clock
  MaxCrashes    \* bound: runs of the script that die

ASSUME SystemAssumption ==
  /\ DOMAIN Creator = Channels
  /\ \A body \in Bodies : body.channel \in Channels /\ body.events \in Seq(Events)
  /\ {MaxRequests, MaxTime, MaxCrashes} \subseteq Nat

VARIABLES
  now,
  served,     \* the requests that were let in, oldest first
  saving,     \* the aggregates that are not inserted yet: [request, created]
  aggrs,      \* eventAggregates: [request, created]
  docs,       \* analyticsAggregates: [channel, created, requests]
  script,
  crashes,
  missed,     \* requests whose aggregate was still being inserted when its hour was
              \* read, or passed over by the first run
  abandoned   \* hours in which the script died between two documents

vars == <<now, served, saving, aggrs, docs, script, crashes, missed, abandoned>>
history == <<crashes, missed, abandoned>>

Unsent == MaxTime + 1
ChannelOf(aggr) == served[aggr.request].body.channel
Off == [pc |-> "off", i |-> 0, end |-> 0, todo |-> {}]

-----------------------------------------------------------------------------
(* The recorder of events.                                                  *)

HasPayout(events) == \E i \in DOMAIN events : getPayout(events[i]) # NoPayout
HasClose(events) == \E i \in DOMAIN events : events[i].type = "CLOSE"

\* A single event that pays nothing is turned away, 469.
IsServed(events) ==
  Len(events) = 1 /\ events[1].publisher # NoPublisher => HasPayout(events)

\* When the recorder of analytics throws, the request fails and nothing of it is
\* aggregated; an empty aggregate is not saved.
Request(body) ==
  /\ Len(served) < MaxRequests
  /\ IsServed(body.events)
  /\ served' = Append(served, [body |-> body, time |-> now])
  /\ saving' = IF Throws(body.events) \/ ~(HasPayout(body.events) \/ HasClose(body.events))
               THEN saving
               ELSE saving \cup {[request |-> Len(served'), created |-> Unsent]}
  /\ UNCHANGED <<now, aggrs, docs, script, history>>

\* persist: created is now ...
SendInsert(aggr) ==
  /\ aggr.created = Unsent
  /\ saving' = (saving \ {aggr}) \cup {[aggr EXCEPT !.created = now]}
  /\ UNCHANGED <<now, served, aggrs, docs, script, history>>

\* ... and the aggregate can be read a little later.
Insert(aggr) ==
  /\ aggr.created # Unsent
  /\ saving' = saving \ {aggr}
  /\ aggrs' = aggrs \cup {aggr}
  /\ UNCHANGED <<now, served, docs, script, history>>

PassTime ==
  /\ now < MaxTime
  /\ now' = now + 1
  /\ UNCHANGED <<served, saving, aggrs, docs, script, history>>

-----------------------------------------------------------------------------
(* scripts/analyticsAggregator.js                                           *)

Created(set) == {x.created : x \in set}

\* Wrong: the hour that ended when the newest document was created, again.
StartAtNewestHour == IF docs # {} THEN Max(Created(docs)) - 1 ELSE Min(Created(aggrs))

\* Wrong: the first run has nothing to catch up with.
StartNow == IF docs # {} THEN Max(Created(docs)) ELSE now

\* created of a document is the end of its hour.
StartHour == IF docs # {} THEN Max(Created(docs)) ELSE Min(Created(aggrs))

\* Wrong: the hour that is not over, too.
HoursUpToNow == [Off EXCEPT !.pc = "reading", !.i = StartHour, !.end = now + 1]

Hours == [Off EXCEPT !.pc = "reading", !.i = StartHour, !.end = now]

\* Without a document and an aggregate the script throws.
StartScript ==
  /\ script.pc = "off"
  /\ docs # {} \/ aggrs # {}
  /\ StartHour # now
  /\ script' = Hours
  /\ missed' = missed \cup {a.request : a \in {x \in saving : x.created < StartHour}}
  /\ UNCHANGED <<now, served, saving, aggrs, docs, crashes, abandoned>>

Doc(channel, found) ==
  [channel |-> channel, created |-> script.i + 1,
   requests |-> {a.request : a \in {x \in found : ChannelOf(x) = channel}}]

\* aggregateForPeriod: one document per channel that has aggregates in the hour
ReadHour ==
  /\ script.pc = "reading" /\ script.i # script.end
  /\ LET found == {a \in aggrs : a.created = script.i}
     IN  script' = [script EXCEPT !.pc = "inserting",
                                  !.todo = {Doc(ChannelOf(a), found) : a \in found}]
  /\ missed' = missed \cup {a.request : a \in {x \in saving : x.created = script.i}}
  /\ UNCHANGED <<now, served, saving, aggrs, docs, crashes, abandoned>>

InsertDoc(doc) ==
  /\ script.pc = "inserting"
  /\ docs' = docs \cup {doc}
  /\ script' = [script EXCEPT !.todo = @ \ {doc}]
  /\ UNCHANGED <<now, served, saving, aggrs, history>>

NextHour ==
  /\ script.pc = "inserting" /\ script.todo = {}
  /\ script' = [script EXCEPT !.pc = "reading", !.i = @ + 1]
  /\ UNCHANGED <<now, served, saving, aggrs, docs, history>>

Finish ==
  /\ script.pc = "reading" /\ script.i = script.end
  /\ script' = Off
  /\ UNCHANGED <<now, served, saving, aggrs, docs, history>>

\* Some channels of the hour have their document and some do not.
IsHalfDone == script.todo # {} /\ \E doc \in docs : doc.created = script.i + 1

\* The process dies, or one insert fails and the script exits.
Crash ==
  /\ script.pc # "off" /\ crashes < MaxCrashes
  /\ crashes' = crashes + 1
  /\ abandoned' = IF IsHalfDone THEN abandoned \cup {script.i} ELSE abandoned
  /\ script' = Off
  /\ UNCHANGED <<now, served, saving, aggrs, docs, missed>>

-----------------------------------------------------------------------------
Init ==
  /\ now = 0
  /\ served = <<>> /\ saving = {} /\ aggrs = {} /\ docs = {}
  /\ script = Off /\ crashes = 0
  /\ missed = {} /\ abandoned = {}

ScriptStep ==
  \/ ReadHour \/ NextHour \/ Finish
  \/ \E doc \in script.todo : InsertDoc(doc)

Next ==
  \/ \E body \in Bodies : Request(body)
  \/ \E aggr \in saving : SendInsert(aggr) \/ Insert(aggr)
  \/ PassTime
  \/ StartScript \/ ScriptStep \/ Crash

Spec == Init /\ [][Next]_vars

\* The script is run again and again, and a run goes on unless it dies.
FairSpec == Spec /\ WF_vars(StartScript) /\ WF_vars(ScriptStep)

-----------------------------------------------------------------------------
(* What the routes answer about all of the time.                            *)

V5Docs(type) ==
  {[advertiser |-> Creator[served[r].body.channel], publisher |-> key,
    campaignId |-> served[r].body.channel, country |-> "any", request |-> r,
    sum |-> Noted(served[r].body.events, type, key)] :
      r \in DOMAIN served, key \in PublisherKeys}

Sum(set) == [count |-> SumOver([d \in set |-> d.sum.count]),
             paid |-> SumOver([d \in set |-> d.sum.paid])]

Refused == [refused |-> TRUE]

AnswerV5(route, uid, query, type) ==
  IF IsDisallowed(route, query)
  THEN Refused
  ELSE Sum({doc \in V5Docs(type) : Matches(doc, Match(route, uid, query))})

\* The sums in a document, of one earner or of all.
Summed(doc, type, earners) ==
  {[request |-> r, earner |-> key, sum |-> Counted(served[r].body.events, type, key)] :
      r \in doc.requests, key \in earners}

Answer(channels, earners, type) ==
  Sum(UNION {Summed(doc, type, earners) : doc \in {d \in docs : d.channel \in channels}})

ForPublisher(uid, type) == Answer(Channels, {toBalancesKey[uid]}, type)
ForAll(type) == Answer(Channels, PublisherKeys, type)
ForAdvertiser(uid, type) == Answer({c \in Channels : Creator[c] = uid}, PublisherKeys, type)

-----------------------------------------------------------------------------
(* Properties.                                                              *)

Aggregates == [request : DOMAIN served, created : 0..Unsent]

TypeOK ==
  /\ now \in 0..MaxTime
  /\ saving \subseteq Aggregates
  /\ aggrs \subseteq [request : DOMAIN served, created : 0..now]
  /\ docs \subseteq [channel : Channels, created : 1..now, requests : SUBSET DOMAIN served]
  /\ script.pc \in {"off", "reading", "inserting"}
  /\ script.i <= script.end /\ script.end <= now
  /\ missed \subseteq DOMAIN served /\ abandoned \subseteq 0..now

Summarized == UNION {doc.requests : doc \in docs}
IsReadNow(aggr) == script.pc = "inserting" /\ script.i = aggr.created

\* An aggregate is summed up in one document at most.  It is left out for good only
\* if it was still being inserted when its hour was read, or if the script died
\* when another channel's document of that hour had been inserted.
SummedUpOnce ==
  /\ \A d, e \in docs : d # e => d.requests \cap e.requests = {}
  /\ \A a \in aggrs :
       \/ a.request \in Summarized \cup missed
       \/ a.created \in abandoned
       \/ \A doc \in docs : doc.created <= a.created
       \/ IsReadNow(a)

\* An aggregate of an hour that is over is summed up, with the same exceptions.
IsSummedUpInTheEnd ==
  \A r \in 1..MaxRequests :
    (\E a \in aggrs : a.request = r /\ a.created < now)
      ~> r \in Summarized \cup missed \/ \E a \in aggrs : a.request = r /\ a.created \in abandoned

Accepted == {a.request : a \in saving \cup aggrs}

AllNoted(events) ==
  Sum({[type |-> t, key |-> k, sum |-> Noted(events, t, k)] : t \in Types, k \in PublisherKeys})
AllCounted(events) ==
  Sum({[type |-> t, key |-> k, sum |-> Counted(events, t, k)] : t \in Types, k \in PublisherKeys})

\* Of a request that does not throw no more is noted than is counted to be paid,
\* and for each publisher exactly that, if no event that cannot be paid is sent
\* before one that can.
NotesAddUp ==
  \A r \in DOMAIN served :
    LET events == served[r].body.events
    IN  /\ ~Throws(events) =>
             /\ AllNoted(events).count <= AllCounted(events).count
             /\ AllNoted(events).paid <= AllCounted(events).paid
        /\ Aligned(events) =>
             \A t \in Types, k \in PublisherKeys : Noted(events, t, k) = Counted(events, t, k)

Settled ==
  /\ saving = {} /\ script.pc = "off" /\ Accepted \subseteq Summarized
  /\ \A r \in DOMAIN served : Aligned(served[r].body.events)

Queries == [segmentBy : {"none", "publisher"}, match : {<<>>} \cup [{"publisher"} -> Publishers]]

\* When all is summed up the two collections tell a publisher the same, whatever
\* publisher the query names, an advertiser and the public too, and the public is
\* told of no publisher.  A publisher whose uid is not in lower case is out of
\* luck: the newer route compares it with the keys as it is.
RoutesAgree ==
  Settled =>
    \A query \in Queries, type \in Types :
      /\ \A uid \in PublisherKeys :
           AnswerV5("/for-publisher", uid, query, type) = ForPublisher(uid, type)
      /\ \A uid \in {Creator[c] : c \in Channels} :
           query.match = <<>> =>
             AnswerV5("/for-advertiser", uid, query, type) = ForAdvertiser(uid, type)
      /\ AnswerV5("/", "nobody", query, type) =
           IF query = [segmentBy |-> "none", match |-> <<>>] THEN ForAll(type) ELSE Refused
=============================================================================
