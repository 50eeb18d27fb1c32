---------------------------- MODULE AnalyticsProofs ---------------------------
(***************************************************************************)
(* Theorems about Analytics, for any channels, requests and crashes: an     *)
(* event aggregate is summed up once, or left out for one of the reasons    *)
(* that SummedUpOnce names, and what is noted of a request's events is no   *)
(* more than what is counted to be paid for them, whatever events it holds, *)
(* and the two routes answer the same when all is summed up.                *)
(***************************************************************************)
EXTENDS Analytics, FoldTheorems

\* An aggregate is one request's, and is being inserted or stored.
RequestsInv ==
  /\ now \in 0..MaxTime
  /\ served \in Seq([body : Bodies, time : 0..MaxTime])
  /\ saving \subseteq [request : DOMAIN served, created : 0..now \cup {Unsent}]
  /\ aggrs \subseteq [request : DOMAIN served, created : 0..now]
  /\ \A a \in saving, b \in aggrs : a.request # b.request
  /\ \A a, b \in saving : a.request = b.request => a = b
  /\ \A a, b \in aggrs : a.request = b.request => a = b

AnyDoc == [channel : Channels, created : Nat, requests : SUBSET Nat]

\* The script is in an hour that is over, and knows documents of that hour only
\* while it inserts them.
ScriptInv ==
  /\ script \in [pc : {"off", "reading", "inserting"}, i : Nat, end : Nat,
                 todo : SUBSET AnyDoc]
  /\ script.i <= script.end /\ script.end <= now
  /\ script.pc = "inserting" => script.i < script.end
  /\ script.pc # "inserting" => script.todo = {}

\* What a document sums up are aggregates of its hour and its channel.
IsDoc(d) ==
  /\ d \in AnyDoc /\ d.created \in 1..now /\ d.requests \subseteq DOMAIN served
  /\ \A r \in d.requests :
       \E a \in aggrs : a.request = r /\ a.created = d.created - 1 /\ ChannelOf(a) = d.channel

\* There is one document of a channel and an hour, and none of an hour to come.
DocsInv ==
  /\ \A d \in docs \cup script.todo : IsDoc(d)
  /\ \A d, e \in docs \cup script.todo : d.channel = e.channel /\ d.created = e.created => d = e
  /\ \A d \in script.todo : d.created = script.i + 1
  /\ \A d \in docs : /\ script.pc = "reading" => d.created <= script.i
                     /\ script.pc = "inserting" => d.created <= script.i + 1

IsDone(a) == a.request \in Summarized \cup missed \/ a.created \in abandoned

\* All hours before a document's, or before the one that the script is in, are done
\* with; an aggregate of them that is still being inserted is missed.
CoverInv ==
  /\ \A a \in aggrs, d \in docs : a.created < d.created => IsDone(a) \/ IsReadNow(a)
  /\ \A a \in saving, d \in docs : a.created < d.created => a.request \in missed
  /\ script.pc # "off" =>
       /\ \A a \in aggrs : a.created < script.i => IsDone(a)
       /\ \A a \in saving : a.created < script.i => a.request \in missed
  /\ script.pc = "inserting" =>
       /\ \A a \in aggrs : a.created = script.i =>
            IsDone(a) \/ \E d \in script.todo : a.request \in d.requests
       /\ \A a \in saving : a.created = script.i => a.request \in missed
  /\ missed \subseteq DOMAIN served /\ abandoned \subseteq 0..now

AnalyticsInv == RequestsInv /\ ScriptInv /\ DocsInv /\ CoverInv

-----------------------------------------------------------------------------
(* The recorder's steps.                                                    *)

LEMMA Numbers ==
  ASSUME RequestsInv
  PROVE  now \in Nat /\ MaxTime \in Nat /\ now <= MaxTime /\ Unsent = MaxTime + 1
BY SystemAssumption DEF RequestsInv, Unsent

LEMMA ServedIs ==
  ASSUME RequestsInv
  PROVE  Len(served) \in Nat /\ DOMAIN served = 1..Len(served)
BY DEF RequestsInv

\* The requests that were served stay as they are.
LEMMA RequestServes ==
  ASSUME RequestsInv, NEW body \in Bodies, Request(body)
  PROVE  /\ served' \in Seq([body : Bodies, time : 0..MaxTime])
         /\ Len(served') = Len(served) + 1
         /\ DOMAIN served' = DOMAIN served \cup {Len(served')}
         /\ Len(served') \notin DOMAIN served
         /\ \A r \in DOMAIN served : served'[r] = served[r]
<1> DEFINE new == [body |-> body, time |-> now]
<1>1. new \in [body : Bodies, time : 0..MaxTime]
  BY DEF RequestsInv
<1> HIDE DEF new
<1>2. served \in Seq([body : Bodies, time : 0..MaxTime]) /\ served' = Append(served, new)
  BY DEF RequestsInv, Request, new
<1>3. /\ served' \in Seq([body : Bodies, time : 0..MaxTime])
      /\ Len(served') = Len(served) + 1
      /\ \A r \in 1..Len(served) : served'[r] = served[r]
  BY <1>1, <1>2
<1>4. /\ DOMAIN served = 1..Len(served) /\ Len(served) \in Nat
      /\ DOMAIN served' = 1..Len(served')
  BY <1>2, <1>3
<1> QED BY <1>3, <1>4

LEMMA RequestKeepsRequests ==
  ASSUME RequestsInv, NEW body \in Bodies, Request(body)
  PROVE  RequestsInv'
<1> DEFINE new == [request |-> Len(served'), created |-> Unsent]
<1>1. UNCHANGED <<now, aggrs>> /\ (saving' = saving \/ saving' = saving \cup {new})
  BY DEF Request
<1>2. DOMAIN served \subseteq DOMAIN served' /\ new.request \in DOMAIN served' \ DOMAIN served
  BY RequestServes
<1>3. new \in [request : DOMAIN served', created : 0..now \cup {Unsent}]
  BY <1>2
<1> HIDE DEF new
<1>4. /\ saving' \subseteq [request : DOMAIN served', created : 0..now' \cup {Unsent}]
      /\ aggrs' \subseteq [request : DOMAIN served', created : 0..now']
  BY <1>1, <1>2, <1>3 DEF RequestsInv
<1>5. /\ \A a \in saving' : a \in saving \/ a = new
      /\ \A a \in saving \cup aggrs : a.request \in DOMAIN served
  BY <1>1 DEF RequestsInv
<1>6. /\ \A a \in saving', b \in aggrs' : a.request # b.request
      /\ \A a, b \in saving' : a.request = b.request => a = b
      /\ \A a, b \in aggrs' : a.request = b.request => a = b
  BY <1>1, <1>2, <1>5 DEF RequestsInv
<1>7. now' \in 0..MaxTime
  BY <1>1 DEF RequestsInv
<1>8. served' \in Seq([body : Bodies, time : 0..MaxTime])
  BY RequestServes
<1> QED BY <1>4, <1>6, <1>7, <1>8 DEF RequestsInv, Unsent

LEMMA SendInsertKeepsRequests ==
  ASSUME RequestsInv, NEW aggr \in saving, SendInsert(aggr)
  PROVE  RequestsInv'
<1> DEFINE new == [aggr EXCEPT !.created = now]
<1>1. /\ UNCHANGED <<now, served, aggrs>>
      /\ saving' = (saving \ {aggr}) \cup {new}
  BY DEF SendInsert
<1>2. aggr \in [request : DOMAIN served, created : 0..now \cup {Unsent}] /\ now \in 0..now
  BY Numbers DEF RequestsInv
<1>3. /\ new \in [request : DOMAIN served, created : 0..now \cup {Unsent}]
      /\ new.request = aggr.request
  BY <1>2
<1> HIDE DEF new
<1>4. saving' \subseteq [request : DOMAIN served, created : 0..now \cup {Unsent}]
  BY <1>1, <1>3 DEF RequestsInv
<1>5. \A a \in saving' : (a \in saving /\ a # aggr) \/ a = new
  BY <1>1
<1>6. /\ \A a \in saving', b \in aggrs' : a.request # b.request
      /\ \A a, b \in saving' : a.request = b.request => a = b
  BY <1>1, <1>3, <1>5 DEF RequestsInv
<1> QED BY <1>1, <1>4, <1>6 DEF RequestsInv, Unsent

LEMMA InsertKeepsRequests ==
  ASSUME RequestsInv, NEW aggr \in saving, Insert(aggr)
  PROVE  RequestsInv'
<1>1. /\ UNCHANGED <<now, served>> /\ aggr.created # Unsent
      /\ saving' = saving \ {aggr} /\ aggrs' = aggrs \cup {aggr}
  BY DEF Insert
<1>2. aggr \in [request : DOMAIN served, created : 0..now]
  <2>1. aggr \in [request : DOMAIN served, created : 0..now \cup {Unsent}]
    BY DEF RequestsInv
  <2> QED BY <1>1, <2>1
<1>3. aggrs' \subseteq [request : DOMAIN served, created : 0..now]
  BY <1>1, <1>2 DEF RequestsInv
<1>4. saving' \subseteq [request : DOMAIN served, created : 0..now \cup {Unsent}]
  BY <1>1 DEF RequestsInv
<1>5. /\ \A a \in saving', b \in aggrs' : a.request # b.request
      /\ \A a, b \in saving' : a.request = b.request => a = b
      /\ \A a, b \in aggrs' : a.request = b.request => a = b
  BY <1>1 DEF RequestsInv
<1> QED BY <1>1, <1>3, <1>4, <1>5 DEF RequestsInv, Unsent

LEMMA PassTimeKeepsRequests ==
  ASSUME RequestsInv, PassTime
  PROVE  RequestsInv'
<1>1. now < MaxTime /\ now' = now + 1 /\ UNCHANGED <<served, saving, aggrs>>
  BY DEF PassTime
<1>2. now' \in 0..MaxTime /\ 0..now \subseteq 0..now'
  BY <1>1, Numbers
<1> QED BY <1>1, <1>2 DEF RequestsInv, Unsent

LEMMA RequestsUntouched ==
  ASSUME RequestsInv, UNCHANGED <<now, served, saving, aggrs>>
  PROVE  RequestsInv'
BY DEF RequestsInv, Unsent

LEMMA RequestsStep ==
  ASSUME RequestsInv, [Next]_vars
  PROVE  RequestsInv'
<1>1. ASSUME NEW body \in Bodies, Request(body) PROVE RequestsInv'
  BY <1>1, RequestKeepsRequests
<1>2. ASSUME NEW aggr \in saving, SendInsert(aggr) \/ Insert(aggr) PROVE RequestsInv'
  BY <1>2, SendInsertKeepsRequests, InsertKeepsRequests
<1>3. ASSUME StartScript \/ ScriptStep \/ Crash \/ UNCHANGED vars PROVE RequestsInv'
  BY <1>3, RequestsUntouched DEF StartScript, ScriptStep, ReadHour, NextHour, Finish, InsertDoc,
     Crash, vars
<1> QED BY <1>1, <1>2, <1>3, PassTimeKeepsRequests DEF Next

-----------------------------------------------------------------------------
(* The documents and the script's hours, while the recorder goes on.        *)

\* What the events and the aggregates of a document are does not change.
Grows ==
  /\ now' \in Nat /\ now <= now' /\ aggrs \subseteq aggrs'
  /\ DOMAIN served \subseteq DOMAIN served'
  /\ \A r \in DOMAIN served : served'[r] = served[r]

LEMMA IsDocStays ==
  ASSUME RequestsInv, Grows, NEW d, IsDoc(d)
  PROVE  IsDoc(d)'
<1>1. d \in AnyDoc /\ d.created \in 1..now' /\ d.requests \subseteq DOMAIN served'
  BY Numbers DEF IsDoc, Grows
<1>2. ASSUME NEW r \in d.requests
      PROVE  \E a \in aggrs' : /\ a.request = r /\ a.created = d.created - 1
                               /\ served'[a.request].body.channel = d.channel
  <2>1. PICK a \in aggrs : a.request = r /\ a.created = d.created - 1 /\ ChannelOf(a) = d.channel
    BY DEF IsDoc
  <2>2. a \in aggrs' /\ a.request \in DOMAIN served
    BY DEF Grows, RequestsInv
  <2>3. served'[a.request] = served[a.request]
    BY <2>2 DEF Grows
  <2> QED BY <2>1, <2>2, <2>3 DEF ChannelOf
<1> QED BY <1>1, <1>2 DEF IsDoc, ChannelOf, AnyDoc

LEMMA RecorderKeepsDocs ==
  ASSUME RequestsInv, ScriptInv, DocsInv, Grows, UNCHANGED <<docs, script>>
  PROVE  ScriptInv' /\ DocsInv'
<1>1. ScriptInv'
  BY Numbers DEF ScriptInv, Grows, AnyDoc
<1>2. \A d \in docs \cup script.todo : IsDoc(d)'
  BY IsDocStays DEF DocsInv
<1> QED BY <1>1, <1>2 DEF DocsInv

LEMMA DocNumbers ==
  ASSUME RequestsInv, DocsInv, NEW d \in docs \cup script.todo
  PROVE  d.created \in Nat /\ 1 <= d.created /\ d.created <= now
BY Numbers DEF DocsInv, IsDoc

LEMMA ScriptNumbers ==
  ASSUME RequestsInv, ScriptInv
  PROVE  /\ script.i \in Nat /\ script.end \in Nat
         /\ script.i <= script.end /\ script.end <= now
         /\ script.pc = "inserting" => script.i < script.end
BY DEF ScriptInv

LEMMA RequestGrows ==
  ASSUME RequestsInv, NEW body \in Bodies, Request(body)
  PROVE  Grows /\ UNCHANGED <<docs, script>>
<1>1. UNCHANGED <<now, aggrs, docs, script>>
  BY DEF Request
<1>2. DOMAIN served \subseteq DOMAIN served' /\ \A r \in DOMAIN served : served'[r] = served[r]
  BY RequestServes
<1> QED BY <1>1, <1>2, Numbers DEF Grows

\* A new request is not sent to the database yet.
LEMMA RequestKeepsCover ==
  ASSUME AnalyticsInv, NEW body \in Bodies, Request(body)
  PROVE  CoverInv'
<1>0. RequestsInv /\ ScriptInv /\ DocsInv /\ CoverInv
  BY DEF AnalyticsInv
<1>1. /\ UNCHANGED <<now, aggrs, docs, script, missed, abandoned>>
      /\ \A a \in saving' : a \in saving \/ a.created = Unsent
  BY DEF Request, history
<1>2. /\ \A d \in docs : ~(Unsent < d.created)
      /\ ~(Unsent < script.i) /\ Unsent # script.i
  BY <1>0, Numbers, DocNumbers, ScriptNumbers
<1>3. missed' \subseteq DOMAIN served'
  BY <1>0, <1>1, RequestServes DEF CoverInv
<1> QED BY <1>0, <1>1, <1>2, <1>3 DEF CoverInv, IsDone, IsReadNow, Summarized

\* An insert that is sent now is of an hour that is not over.
LEMMA SendInsertKeepsCover ==
  ASSUME AnalyticsInv, NEW aggr \in saving, SendInsert(aggr)
  PROVE  CoverInv'
<1>0. RequestsInv /\ ScriptInv /\ DocsInv /\ CoverInv
  BY DEF AnalyticsInv
<1>1. /\ UNCHANGED <<now, served, aggrs, docs, script, missed, abandoned>>
      /\ \A a \in saving' : a \in saving \/ a = [aggr EXCEPT !.created = now]
  BY DEF SendInsert, history
<1>2. [aggr EXCEPT !.created = now].created = now
  BY <1>0 DEF RequestsInv
<1>3. \A a \in saving' : a \in saving \/ a.created = now
  BY <1>1, <1>2
<1>4. /\ \A d \in docs : ~(now < d.created)
      /\ ~(now < script.i) /\ (script.pc = "inserting" => now # script.i)
  BY <1>0, Numbers, DocNumbers, ScriptNumbers
<1> QED BY <1>0, <1>1, <1>3, <1>4 DEF CoverInv, IsDone, IsReadNow, Summarized

\* An aggregate that comes too late for its document was missed.
LEMMA InsertKeepsCover ==
  ASSUME AnalyticsInv, NEW aggr \in saving, Insert(aggr)
  PROVE  CoverInv'
<1>0. CoverInv
  BY DEF AnalyticsInv
<1>1. /\ UNCHANGED <<now, served, docs, script, missed, abandoned>>
      /\ saving' = saving \ {aggr} /\ aggrs' = aggrs \cup {aggr}
  BY DEF Insert, history
<1>2. /\ \A d \in docs : aggr.created < d.created => aggr.request \in missed
      /\ script.pc # "off" => (aggr.created < script.i => aggr.request \in missed)
      /\ script.pc = "inserting" => (aggr.created = script.i => aggr.request \in missed)
  BY <1>0 DEF CoverInv
<1> QED BY <1>0, <1>1, <1>2 DEF CoverInv, IsDone, IsReadNow, Summarized

LEMMA InsertGrows ==
  ASSUME RequestsInv, NEW aggr \in saving, SendInsert(aggr) \/ Insert(aggr)
  PROVE  Grows /\ UNCHANGED <<docs, script>>
BY Numbers DEF SendInsert, Insert, Grows

LEMMA PassTimeGrows ==
  ASSUME RequestsInv, PassTime
  PROVE  Grows /\ UNCHANGED <<docs, script>>
BY Numbers DEF PassTime, Grows

LEMMA PassTimeKeepsCover ==
  ASSUME AnalyticsInv, PassTime
  PROVE  CoverInv'
<1>1. /\ UNCHANGED <<served, saving, aggrs, docs, script, missed, abandoned>>
      /\ now' = now + 1
  BY DEF PassTime, history
<1>2. RequestsInv /\ CoverInv
  BY DEF AnalyticsInv
<1>3. abandoned' \subseteq 0..now'
  BY <1>1, <1>2, Numbers DEF CoverInv
<1> QED BY <1>1, <1>2, <1>3 DEF CoverInv, IsDone, IsReadNow, Summarized

-----------------------------------------------------------------------------
(* The script's steps.                                                      *)

LEMMA ScriptStays ==
  ASSUME RequestsInv, UNCHANGED <<now, served, aggrs>>
  PROVE  \A d : IsDoc(d) => IsDoc(d)'
<1>1. Grows
  BY Numbers DEF Grows
<1> QED BY <1>1, IsDocStays

LEMMA HoursAreFinite ==
  ASSUME RequestsInv, NEW hours, hours \subseteq 0..now
  PROVE  IsFiniteSet(hours) /\ hours \subseteq Int
<1>1. now \in Int
  BY Numbers
<1>2. IsFiniteSet(0..now)
  BY <1>1, FS_Interval
<1>3. IsFiniteSet(hours)
  BY ONLY hours \subseteq 0..now, <1>2, FS_Subset
<1> QED BY <1>3

\* The script starts at an hour that is over: the one that the newest document
\* ended with, or that of the oldest aggregate.
LEMMA StartHourIs ==
  ASSUME AnalyticsInv, docs # {} \/ aggrs # {}
  PROVE  /\ StartHour \in Nat /\ StartHour <= now
         /\ \A d \in docs : d.created <= StartHour
         /\ docs # {} => \E d \in docs : d.created = StartHour
         /\ docs = {} => \A a \in aggrs : StartHour <= a.created
<1>0. RequestsInv /\ DocsInv
  BY DEF AnalyticsInv
<1>1. CASE docs # {}
  <2>1. StartHour = Max(Created(docs))
    BY <1>1 DEF StartHour
  <2>2. Created(docs) \subseteq 0..now /\ Created(docs) # {}
    BY <1>0, <1>1, DocNumbers, Numbers DEF Created
  <2>3. IsFiniteSet(Created(docs)) /\ Created(docs) \subseteq Int
    BY <1>0, <2>2, HoursAreFinite
  <2>4. /\ Max(Created(docs)) \in Created(docs)
        /\ \A y \in Created(docs) : y <= Max(Created(docs))
    BY <2>2, <2>3, MaxInSet
  <2> HIDE DEF StartHour
  <2>5. StartHour \in Created(docs) /\ \A y \in Created(docs) : y <= StartHour
    BY <2>1, <2>4
  <2>6. \A d \in docs : d.created \in Created(docs)
    BY DEF Created
  <2>7. \E d \in docs : d.created = StartHour
    BY <2>5 DEF Created
  <2> QED BY <1>0, <1>1, <2>2, <2>5, <2>6, <2>7, Numbers
<1>2. CASE docs = {}
  <2>1. StartHour = Min(Created(aggrs)) /\ aggrs # {}
    BY <1>2 DEF StartHour
  <2>2. Created(aggrs) \subseteq 0..now /\ Created(aggrs) # {}
    BY <1>0, <2>1 DEF Created, RequestsInv
  <2>3. IsFiniteSet(Created(aggrs)) /\ Created(aggrs) \subseteq Int
    BY <1>0, <2>2, HoursAreFinite
  <2>4. /\ Min(Created(aggrs)) \in Created(aggrs)
        /\ \A y \in Created(aggrs) : Min(Created(aggrs)) <= y
    BY <2>2, <2>3, MinInSet
  <2>5. StartHour \in Created(aggrs) /\ \A y \in Created(aggrs) : StartHour <= y
    BY <2>1, <2>4
  <2>6. \A a \in aggrs : a.created \in Created(aggrs)
    BY DEF Created
  <2> QED BY <1>0, <1>2, <2>2, <2>5, <2>6, Numbers
<1> QED BY <1>1, <1>2

LEMMA StartScriptKeeps ==
  ASSUME AnalyticsInv, StartScript
  PROVE  ScriptInv' /\ DocsInv' /\ CoverInv'
<1>0. RequestsInv /\ ScriptInv /\ DocsInv /\ CoverInv
  BY DEF AnalyticsInv
<1> DEFINE hour == StartHour
           late == {a.request : a \in {x \in saving : x.created < hour}}
<1>1. /\ script.pc = "off" /\ (docs # {} \/ aggrs # {}) /\ hour # now
      /\ script' = [pc |-> "reading", i |-> hour, end |-> now, todo |-> {}]
      /\ missed' = missed \cup late
      /\ UNCHANGED <<now, served, saving, aggrs, docs, abandoned>>
  BY DEF StartScript, Hours, Off
<1>2. /\ hour \in Nat /\ hour <= now
      /\ \A d \in docs : d.created <= hour
      /\ docs # {} => \E d \in docs : d.created = hour
      /\ docs = {} => \A a \in aggrs : hour <= a.created
  BY <1>1, StartHourIs
<1>3. \A a \in saving : a.created < hour => a.request \in late
  OBVIOUS
<1>4. late \subseteq DOMAIN served
  BY <1>0 DEF RequestsInv
<1> HIDE DEF hour, late
<1>5. script.todo = {}
  BY <1>0, <1>1 DEF ScriptInv
<1>6. script'.pc = "reading" /\ script'.i = hour /\ script'.end = now /\ script'.todo = {}
  BY <1>1
<1>7. ScriptInv'
  BY <1>0, <1>1, <1>2, <1>6, Numbers DEF ScriptInv, AnyDoc
<1>8. DocsInv'
  <2>1. \A d \in docs : IsDoc(d)'
    BY <1>0, <1>1, ScriptStays DEF DocsInv
  <2> QED BY <1>0, <1>1, <1>2, <1>5, <1>6, <2>1 DEF DocsInv
<1>9. \A a \in aggrs : a.created < hour => IsDone(a)
  <2>1. SUFFICES ASSUME NEW a \in aggrs, a.created < hour PROVE IsDone(a)
    OBVIOUS
  <2>2. a.created \in Nat
    BY <1>0, Numbers DEF RequestsInv
  <2>3. docs # {}
    BY <1>2, <2>1, <2>2
  <2> QED BY <1>0, <1>1, <1>2, <2>1, <2>3 DEF CoverInv, IsReadNow
<1>10. \A a : IsDone(a) => IsDone(a)'
  BY <1>1 DEF IsDone, Summarized
<1>11. CoverInv'
  BY <1>0, <1>1, <1>3, <1>4, <1>6, <1>9, <1>10 DEF CoverInv, IsReadNow
<1> QED BY <1>7, <1>8, <1>11

LEMMA ChannelIs ==
  ASSUME RequestsInv, NEW a \in saving \cup aggrs
  PROVE  a.request \in DOMAIN served /\ ChannelOf(a) \in Channels
<1>1. a.request \in DOMAIN served
  BY DEF RequestsInv
<1> DEFINE Served == [body : Bodies, time : 0..MaxTime]
           r == a.request
<1>2. served \in Seq(Served) /\ r \in 1..Len(served)
  BY <1>1, ServedIs DEF RequestsInv
<1>3. served[r] \in Served
  <2> HIDE DEF Served, r
  <2> QED BY ONLY <1>2
<1> QED BY <1>1, <1>3, SystemAssumption DEF ChannelOf

\* The documents of the hour that is read: one of each channel.
LEMMA FoundDocs ==
  ASSUME RequestsInv, ScriptInv, script.pc = "reading", script.i # script.end,
         NEW found, found = {a \in aggrs : a.created = script.i}
  PROVE  \A a \in found :
           /\ Doc(ChannelOf(a), found) \in AnyDoc
           /\ Doc(ChannelOf(a), found).channel = ChannelOf(a)
           /\ Doc(ChannelOf(a), found).created = script.i + 1
           /\ IsDoc(Doc(ChannelOf(a), found))
           /\ a.request \in Doc(ChannelOf(a), found).requests
<1> TAKE a \in found
<1> DEFINE requests == {x.request : x \in {y \in found : ChannelOf(y) = ChannelOf(a)}}
           d == Doc(ChannelOf(a), found)
<1>1. d = [channel |-> ChannelOf(a), created |-> script.i + 1, requests |-> requests]
  BY DEF Doc
<1>2. a \in aggrs /\ a.request \in requests
  OBVIOUS
<1>3. /\ requests \subseteq DOMAIN served
      /\ \A r \in requests :
           \E x \in aggrs : x.request = r /\ x.created = script.i /\ ChannelOf(x) = ChannelOf(a)
  BY DEF RequestsInv
<1> HIDE DEF requests
<1>4. ChannelOf(a) \in Channels
  BY <1>2, ChannelIs
<1>5. requests \subseteq Nat
  BY <1>3, ServedIs
<1>6. script.i + 1 \in Nat /\ script.i + 1 \in 1..now /\ (script.i + 1) - 1 = script.i
  BY ScriptNumbers, Numbers
<1>7. d.channel = ChannelOf(a) /\ d.created = script.i + 1 /\ d.requests = requests
  BY <1>1
<1> HIDE DEF d
<1>8. d \in AnyDoc
  BY ONLY <1>1, <1>4, <1>5, <1>6 DEF AnyDoc
<1>9. IsDoc(d)
  BY <1>3, <1>6, <1>7, <1>8 DEF IsDoc
<1> QED BY <1>2, <1>7, <1>8, <1>9 DEF d

LEMMA ReadHourKeeps ==
  ASSUME AnalyticsInv, ReadHour
  PROVE  ScriptInv' /\ DocsInv' /\ CoverInv'
<1>0. RequestsInv /\ ScriptInv /\ DocsInv /\ CoverInv
  BY DEF AnalyticsInv
<1> DEFINE found == {a \in aggrs : a.created = script.i}
           new == {Doc(ChannelOf(a), found) : a \in found}
           late == {a.request : a \in {x \in saving : x.created = script.i}}
<1>1. /\ script.pc = "reading" /\ script.i # script.end
      /\ script' = [script EXCEPT !.pc = "inserting", !.todo = new]
      /\ missed' = missed \cup late
      /\ UNCHANGED <<now, served, saving, aggrs, docs, abandoned>>
  BY DEF ReadHour
<1>2. \A a \in found :
        /\ Doc(ChannelOf(a), found) \in AnyDoc
        /\ Doc(ChannelOf(a), found).channel = ChannelOf(a)
        /\ Doc(ChannelOf(a), found).created = script.i + 1
        /\ IsDoc(Doc(ChannelOf(a), found))
        /\ a.request \in Doc(ChannelOf(a), found).requests
  <2> HIDE DEF found
  <2>1. found = {a \in aggrs : a.created = script.i}
    BY DEF found
  <2> QED BY <1>0, <1>1, <2>1, FoundDocs
<1>3. \A a \in saving : a.created = script.i => a.request \in late
  OBVIOUS
<1>4. late \subseteq DOMAIN served
  BY <1>0 DEF RequestsInv
<1>5. \A a \in aggrs : a.created = script.i => a \in found
  OBVIOUS
<1> HIDE DEF late, found
<1>6. /\ new \subseteq AnyDoc /\ \A d \in new : IsDoc(d) /\ d.created = script.i + 1
      /\ \A d, e \in new : d.channel = e.channel => d = e
      /\ \A a \in found : \E d \in new : a.request \in d.requests
  BY <1>2
<1> HIDE DEF new
<1>7. script'.pc = "inserting" /\ script'.i = script.i /\ script'.end = script.end /\ script'.todo = new
  BY <1>0, <1>1 DEF ScriptInv
<1>8. ScriptInv'
  <2>1. script.i \in Nat /\ script.end \in Nat /\ script.i < script.end /\ script.end <= now'
    BY <1>0, <1>1, ScriptNumbers
  <2>2. script' \in [pc : {"off", "reading", "inserting"}, i : Nat, end : Nat, todo : SUBSET AnyDoc]
    BY <1>0, <1>1, <1>6 DEF ScriptInv
  <2> QED BY <1>7, <2>1, <2>2 DEF ScriptInv, AnyDoc
<1>9. DocsInv'
  <2>1. \A d \in docs : d.created \in Nat /\ d.created <= script.i
    BY <1>0, <1>1, DocNumbers DEF DocsInv
  <2>2. \A d \in docs, e \in new : d.created # e.created
    BY <1>0, <1>6, <2>1, ScriptNumbers
  <2>3. \A d \in docs : d.created <= script.i + 1
    BY <1>0, <2>1, ScriptNumbers
  <2>4. \A d \in docs \cup new : IsDoc(d)'
    BY <1>0, <1>1, <1>6, ScriptStays DEF DocsInv
  <2>5. \A d, e \in docs \cup new : d.channel = e.channel /\ d.created = e.created => d = e
    BY <1>0, <1>6, <2>2 DEF DocsInv
  <2> QED BY <1>1, <1>6, <1>7, <2>3, <2>4, <2>5 DEF DocsInv
<1>10. CoverInv'
  <2>1. \A a : IsDone(a) => IsDone(a)'
    BY <1>1 DEF IsDone, Summarized
  <2>2. \A a : ~IsReadNow(a)
    BY <1>1 DEF IsReadNow
  <2>3. \A a \in aggrs : a.created = script.i => \E d \in new : a.request \in d.requests
    BY <1>5, <1>6
  <2> QED BY <1>0, <1>1, <1>3, <1>4, <1>7, <2>1, <2>2, <2>3 DEF CoverInv
<1> QED BY <1>8, <1>9, <1>10

LEMMA InsertDocKeeps ==
  ASSUME AnalyticsInv, NEW doc \in script.todo, InsertDoc(doc)
  PROVE  ScriptInv' /\ DocsInv' /\ CoverInv'
<1>0. RequestsInv /\ ScriptInv /\ DocsInv /\ CoverInv
  BY DEF AnalyticsInv
<1>1. /\ script.pc = "inserting" /\ docs' = docs \cup {doc}
      /\ script' = [script EXCEPT !.todo = @ \ {doc}]
      /\ UNCHANGED <<now, served, saving, aggrs, missed, abandoned>>
  BY DEF InsertDoc, history
<1>2. /\ script'.pc = "inserting" /\ script'.i = script.i /\ script'.end = script.end
      /\ script'.todo = script.todo \ {doc}
  BY <1>0, <1>1 DEF ScriptInv
<1>3. doc.created = script.i + 1
  BY <1>0 DEF DocsInv
<1>4. ScriptInv'
  <2>1. script' \in [pc : {"off", "reading", "inserting"}, i : Nat, end : Nat, todo : SUBSET AnyDoc]
    BY <1>0, <1>1 DEF ScriptInv
  <2> QED BY <1>0, <1>1, <1>2, <2>1 DEF ScriptInv, AnyDoc
<1>5. DocsInv'
  <2>1. docs' \cup script'.todo = docs \cup script.todo
    BY <1>1, <1>2
  <2>2. \A d \in docs \cup script.todo : IsDoc(d)'
    BY <1>0, <1>1, ScriptStays DEF DocsInv
  <2>3. \A d \in docs' : d.created <= script.i + 1
    BY <1>0, <1>1, <1>3, ScriptNumbers DEF DocsInv
  <2> QED BY <1>0, <1>2, <2>1, <2>2, <2>3 DEF DocsInv
<1>6. CoverInv'
  <2>1. \A a : IsDone(a) => IsDone(a)'
    BY <1>1 DEF IsDone, Summarized
  <2>2. \A a : a.request \in doc.requests => IsDone(a)'
    BY <1>1 DEF IsDone, Summarized
  <2>3. /\ \A a \in aggrs : a.created \in Nat
        /\ \A a \in saving : a.created \in Nat
    BY <1>0, Numbers DEF RequestsInv
  <2>4. \A a \in saving \cup aggrs :
          a.created < doc.created => a.created < script.i \/ a.created = script.i
    BY <1>0, <1>3, <2>3, ScriptNumbers
  <2>5. \A a \in aggrs : a.created < doc.created => IsDone(a)' \/ IsReadNow(a)'
    BY <1>0, <1>1, <1>2, <2>1, <2>4 DEF CoverInv, IsReadNow
  <2>6. \A a \in saving : a.created < doc.created => a.request \in missed
    BY <1>0, <1>1, <2>4 DEF CoverInv
  <2>7. \A a \in aggrs : a.created = script.i =>
          IsDone(a)' \/ \E d \in script'.todo : a.request \in d.requests
    BY <1>0, <1>1, <1>2, <2>1, <2>2 DEF CoverInv
  <2>8. \A a : IsReadNow(a) => IsReadNow(a)'
    BY <1>1, <1>2 DEF IsReadNow
  <2> QED BY <1>0, <1>1, <1>2, <2>1, <2>5, <2>6, <2>7, <2>8 DEF CoverInv
<1> QED BY <1>4, <1>5, <1>6

LEMMA NextHourKeeps ==
  ASSUME AnalyticsInv, NextHour
  PROVE  ScriptInv' /\ DocsInv' /\ CoverInv'
<1>0. RequestsInv /\ ScriptInv /\ DocsInv /\ CoverInv
  BY DEF AnalyticsInv
<1>1. /\ script.pc = "inserting" /\ script.todo = {}
      /\ script' = [script EXCEPT !.pc = "reading", !.i = @ + 1]
      /\ UNCHANGED <<now, served, saving, aggrs, docs, missed, abandoned>>
  BY DEF NextHour, history
<1>2. /\ script'.pc = "reading" /\ script'.i = script.i + 1 /\ script'.end = script.end
      /\ script'.todo = {}
  BY <1>0, <1>1 DEF ScriptInv
<1>3. ScriptInv'
  <2>1. /\ script.i \in Nat /\ script.end \in Nat
        /\ script.i + 1 <= script.end /\ script.end <= now'
    BY <1>0, <1>1, ScriptNumbers
  <2>2. script' \in [pc : {"off", "reading", "inserting"}, i : Nat, end : Nat, todo : SUBSET AnyDoc]
    BY <1>0, <1>1, script.i + 1 \in Nat DEF ScriptInv
  <2> QED BY <1>2, <2>1, <2>2 DEF ScriptInv, AnyDoc
<1>4. DocsInv'
  <2>1. \A d \in docs : IsDoc(d)'
    BY <1>0, <1>1, ScriptStays DEF DocsInv
  <2> QED BY <1>0, <1>1, <1>2, <2>1 DEF DocsInv
<1>5. CoverInv'
  <2>1. \A a : IsDone(a) => IsDone(a)'
    BY <1>1 DEF IsDone, Summarized
  <2>2. \A a \in saving \cup aggrs :
          a.created < script.i + 1 => a.created < script.i \/ a.created = script.i
    <3>1. \A a \in saving \cup aggrs : a.created \in Nat
      BY <1>0, Numbers DEF RequestsInv
    <3> QED BY <1>0, <3>1, ScriptNumbers
  <2>3. \A a \in aggrs : a.created = script.i => IsDone(a)
    BY <1>0, <1>1 DEF CoverInv
  <2>4. \A a \in aggrs : IsReadNow(a) => IsDone(a)
    BY <2>3 DEF IsReadNow
  <2> QED BY <1>0, <1>1, <1>2, <2>1, <2>2, <2>3, <2>4 DEF CoverInv
<1> QED BY <1>3, <1>4, <1>5

\* A run that ends, or dies, leaves the hours before its own as they are.
LEMMA OffKeeps ==
  ASSUME AnalyticsInv, Finish \/ Crash
  PROVE  ScriptInv' /\ DocsInv'
<1>0. RequestsInv /\ ScriptInv /\ DocsInv
  BY DEF AnalyticsInv
<1>1. /\ script' = [pc |-> "off", i |-> 0, end |-> 0, todo |-> {}]
      /\ UNCHANGED <<now, served, aggrs, docs>>
  BY DEF Finish, Crash, Off
<1>2. ScriptInv'
  BY <1>0, <1>1, Numbers DEF ScriptInv, AnyDoc
<1>3. \A d \in docs : IsDoc(d)'
  BY <1>0, <1>1, ScriptStays DEF DocsInv
<1>4. DocsInv'
  BY <1>0, <1>1, <1>3 DEF DocsInv
<1> QED BY <1>2, <1>4

LEMMA FinishKeepsCover ==
  ASSUME AnalyticsInv, Finish
  PROVE  CoverInv'
<1>1. /\ script.pc = "reading" /\ script'.pc = "off"
      /\ UNCHANGED <<now, served, saving, aggrs, docs, missed, abandoned>>
  BY DEF Finish, Off, history
<1> QED BY <1>1 DEF AnalyticsInv, CoverInv, IsDone, IsReadNow, Summarized

\* What is left of the hour in which the script dies is given up, if another
\* document of that hour is there: otherwise the next run begins with that hour.
LEMMA CrashKeepsCover ==
  ASSUME AnalyticsInv, Crash
  PROVE  CoverInv'
<1>0. RequestsInv /\ ScriptInv /\ DocsInv /\ CoverInv
  BY DEF AnalyticsInv
<1>1. /\ script'.pc = "off"
      /\ UNCHANGED <<now, served, saving, aggrs, docs, missed>>
      /\ abandoned' = IF IsHalfDone THEN abandoned \cup {script.i} ELSE abandoned
  BY DEF Crash, Off
<1>2. \A a : IsDone(a) => IsDone(a)'
  BY <1>1 DEF IsDone, Summarized
<1>3. ASSUME NEW a \in aggrs, NEW d \in docs, a.created < d.created
      PROVE  IsDone(a)'
  <2>1. CASE IsDone(a)
    BY <1>2, <2>1
  <2>2. CASE ~IsDone(a)
    <3>1. IsReadNow(a)
      BY <1>0, <1>3, <2>2 DEF CoverInv
    <3>2. script.todo # {}
      BY <1>0, <2>2, <3>1 DEF CoverInv, IsReadNow
    <3>3. d.created <= script.i + 1 /\ script.i < d.created
      BY <1>0, <1>3, <3>1 DEF DocsInv, IsReadNow
    <3>4. d.created = script.i + 1
      BY <1>0, <3>3, ScriptNumbers, DocNumbers
    <3>5. IsHalfDone
      BY <3>2, <3>4 DEF IsHalfDone
    <3> QED BY <1>1, <3>1, <3>5 DEF IsDone, IsReadNow
  <2> QED BY <2>1, <2>2
<1>4. abandoned' \subseteq 0..now'
  <2>1. script.i \in 0..now
    BY <1>0, ScriptNumbers, Numbers
  <2> QED BY <1>0, <1>1, <2>1 DEF CoverInv
<1> QED BY <1>0, <1>1, <1>2, <1>3, <1>4 DEF CoverInv

-----------------------------------------------------------------------------
(* The theorems.                                                            *)

LEMMA AnalyticsStarts ==
  ASSUME Init
  PROVE  AnalyticsInv
<1>1. RequestsInv
  BY SystemAssumption DEF Init, RequestsInv
<1>2. ScriptInv
  BY DEF Init, ScriptInv, Off
<1>3. DocsInv /\ CoverInv
  BY DEF Init, DocsInv, CoverInv, Off
<1> QED BY <1>1, <1>2, <1>3 DEF AnalyticsInv

LEMMA AnalyticsStep ==
  ASSUME AnalyticsInv, [Next]_vars
  PROVE  AnalyticsInv'
<1>0. RequestsInv /\ ScriptInv /\ DocsInv /\ CoverInv
  BY DEF AnalyticsInv
<1> USE DEF AnalyticsInv
<1>1. RequestsInv'
  BY RequestsStep
<1>2. ASSUME NEW body \in Bodies, Request(body) PROVE AnalyticsInv'
  BY <1>0, <1>1, <1>2, RequestGrows, RecorderKeepsDocs, RequestKeepsCover
<1>3. ASSUME NEW aggr \in saving, SendInsert(aggr) PROVE AnalyticsInv'
  BY <1>0, <1>1, <1>3, InsertGrows, RecorderKeepsDocs, SendInsertKeepsCover
<1>4. ASSUME NEW aggr \in saving, Insert(aggr) PROVE AnalyticsInv'
  BY <1>0, <1>1, <1>4, InsertGrows, RecorderKeepsDocs, InsertKeepsCover
<1>5. CASE PassTime
  BY <1>0, <1>1, <1>5, PassTimeGrows, RecorderKeepsDocs, PassTimeKeepsCover
<1>6. CASE StartScript
  BY <1>1, <1>6, StartScriptKeeps
<1>7. CASE ScriptStep
  BY <1>1, <1>7, ReadHourKeeps, NextHourKeeps, OffKeeps, FinishKeepsCover, InsertDocKeeps
     DEF ScriptStep
<1>8. CASE Crash
  BY <1>1, <1>8, OffKeeps, CrashKeepsCover
<1>9. CASE UNCHANGED vars
  <2>1. Grows
    BY <1>0, <1>9, Numbers DEF Grows, vars
  <2>2. ScriptInv' /\ DocsInv'
    BY <1>0, <1>9, <2>1, RecorderKeepsDocs DEF vars
  <2>3. CoverInv'
    BY <1>0, <1>9 DEF vars, CoverInv, IsDone, IsReadNow, Summarized
  <2> QED BY <1>1, <2>2, <2>3
<1> QED BY <1>2, <1>3, <1>4, <1>5, <1>6, <1>7, <1>8, <1>9 DEF Next

LEMMA InvIsTypeCorrect ==
  ASSUME AnalyticsInv
  PROVE  TypeOK
<1>0. RequestsInv /\ ScriptInv /\ DocsInv /\ CoverInv
  BY DEF AnalyticsInv
<1>1. saving \subseteq Aggregates
  <2>1. 0..now \cup {Unsent} \subseteq 0..Unsent
    BY <1>0, Numbers
  <2> QED BY <1>0, <2>1 DEF RequestsInv, Aggregates
<1>2. docs \subseteq [channel : Channels, created : 1..now, requests : SUBSET DOMAIN served]
  BY <1>0 DEF DocsInv, IsDoc, AnyDoc
<1> QED BY <1>0, <1>1, <1>2 DEF TypeOK, RequestsInv, ScriptInv, CoverInv

\* Two documents with a request in common sum up the same aggregate.
LEMMA InvSumsUpOnce ==
  ASSUME AnalyticsInv
  PROVE  SummedUpOnce
<1>0. RequestsInv /\ DocsInv /\ CoverInv
  BY DEF AnalyticsInv
<1>1. ASSUME NEW d \in docs, NEW e \in docs, NEW r \in d.requests \cap e.requests
      PROVE  d = e
  <2>1. PICK a \in aggrs : a.request = r /\ a.created = d.created - 1 /\ ChannelOf(a) = d.channel
    BY <1>0 DEF DocsInv, IsDoc
  <2>2. PICK b \in aggrs : b.request = r /\ b.created = e.created - 1 /\ ChannelOf(b) = e.channel
    BY <1>0 DEF DocsInv, IsDoc
  <2>3. a = b
    BY <1>0, <2>1, <2>2 DEF RequestsInv
  <2>4. d.created = e.created
    BY <1>0, <2>1, <2>2, <2>3, DocNumbers
  <2> QED BY <1>0, <2>1, <2>2, <2>3, <2>4 DEF DocsInv
<1>2. ASSUME NEW a \in aggrs
      PROVE  \/ a.request \in Summarized \cup missed
             \/ a.created \in abandoned
             \/ \A doc \in docs : doc.created <= a.created
             \/ IsReadNow(a)
  <2>1. SUFFICES ASSUME NEW d \in docs, ~(d.created <= a.created) PROVE IsDone(a) \/ IsReadNow(a)
    BY DEF IsDone
  <2>2. a.created \in Nat /\ d.created \in Nat
    BY <1>0, Numbers, DocNumbers DEF RequestsInv
  <2> QED BY <1>0, <2>1, <2>2 DEF CoverInv
<1> QED BY <1>1, <1>2 DEF SummedUpOnce

THEOREM AnalyticsInvariant == Spec => []AnalyticsInv
<1> QED BY AnalyticsStarts, AnalyticsStep, PTL DEF Spec

\* What is recorded of aggregates, of documents and of the script's hours stays in
\* its bounds: a script that is run never reaches an hour that is not over.
THEOREM AnalyticsTypeCorrect == Spec => []TypeOK
<1> QED BY AnalyticsInvariant, InvIsTypeCorrect, PTL

\* However the inserts of the recorder, the runs of the script and its deaths fall,
\* an aggregate is summed up in one document at most, and left out for good only
\* for the two reasons that SummedUpOnce names.
THEOREM NothingIsSummedUpTwice == Spec => []SummedUpOnce
<1> QED BY AnalyticsInvariant, InvSumsUpOnce, PTL

-----------------------------------------------------------------------------
(* What is noted of a request and what is counted.                          *)

Unpayable == {ev \in Events : ~Payable(ev)}

LEMMA KeptIsLeft ==
  ASSUME NEW events \in Seq(Events)
  PROVE  \E g : IsLeft(g, events, Unpayable) /\ Kept(events) = g[Len(events)]
<1> DEFINE P(g) == g = [n \in 0..Len(events) |->
                          IF n = 0 THEN <<>>
                          ELSE IF Payable(events[n]) THEN Append(g[n - 1], events[n])
                          ELSE g[n - 1]]
<1>1. Kept(events) = (CHOOSE g : P(g))[Len(events)]
  BY DEF Kept
<1>2. ASSUME NEW g PROVE P(g) <=> IsLeft(g, events, Unpayable)
  <2>1. ASSUME NEW n \in 0..Len(events)
        PROVE  (IF n = 0 THEN <<>> ELSE LeftStep(g[n - 1], events[n], Unpayable))
                 = IF n = 0 THEN <<>>
                   ELSE IF Payable(events[n]) THEN Append(g[n - 1], events[n])
                   ELSE g[n - 1]
    <3>1. CASE n = 0
      BY <3>1
    <3>2. CASE n # 0
      <4>1. events[n] \in Events
        BY <3>2
      <4>2. events[n] \in Unpayable <=> ~Payable(events[n])
        BY <4>1 DEF Unpayable
      <4> QED BY <3>2, <4>2 DEF LeftStep
    <3> QED BY <3>1, <3>2
  <2> QED BY <2>1 DEF IsLeft
<1>3. \E g : P(g)
  <2>1. PICK g : IsLeft(g, events, Unpayable)
    BY LeftExists
  <2>2. P(g)
    BY <1>2, <2>1
  <2> HIDE DEF P
  <2> QED BY <2>2
<1>4. P(CHOOSE g : P(g))
  <2> HIDE DEF P
  <2> QED BY <1>3
<1>5. IsLeft(CHOOSE g : P(g), events, Unpayable)
  <2> DEFINE h == CHOOSE g : P(g)
  <2>1. P(h)
    BY <1>4
  <2> HIDE DEF h
  <2>2. IsLeft(h, events, Unpayable)
    BY <1>2, <2>1
  <2> QED BY <2>2 DEF h
<1> HIDE DEF P
<1> QED BY <1>1, <1>5

\* Numbers that grow are not behind their places.
LEMMA GrowingNumbers ==
  ASSUME NEW m \in Nat, NEW e \in [1..m -> Nat \ {0}],
         \A i, j \in 1..m : i < j => e[i] < e[j]
  PROVE  \A j \in 1..m : j <= e[j]
<1> DEFINE P == {j \in Nat : j \in 1..m => j <= e[j]}
<1>1. 0 \in P
  OBVIOUS
<1>2. ASSUME NEW n \in Nat, n \in P PROVE n + 1 \in P
  <2>1. CASE n + 1 \in 1..m
    <3>1. CASE n = 0
      <4>1. e[n + 1] \in Nat \ {0}
        BY <2>1
      <4> QED BY <3>1, <4>1
    <3>2. CASE n # 0
      <4>1. n \in 1..m /\ n < n + 1
        BY <2>1, <3>2
      <4>2. n <= e[n] /\ e[n] < e[n + 1] /\ e[n] \in Nat /\ e[n + 1] \in Nat
        BY <1>2, <2>1, <4>1
      <4> QED BY <4>2
    <3> QED BY <3>1, <3>2
  <2>2. CASE n + 1 \notin 1..m
    BY <2>2
  <2> QED BY <2>1, <2>2
<1>3. Nat \subseteq P
  <2> HIDE DEF P
  <2> QED BY <1>1, <1>2, NatSetInduction
<1> QED BY <1>3

\* The events that are kept are those that can be paid, in their order.
LEMMA KeptIs ==
  ASSUME NEW events \in Seq(Events)
  PROVE  LET kept == Kept(events)
         IN  /\ kept \in Seq(Events) /\ Len(kept) <= Len(events)
             /\ \A i \in 1..Len(kept) : kept[i] \in Events /\ Payable(kept[i])
             /\ \E e : /\ e \in [1..Len(kept) -> 1..Len(events)]
                       /\ \A i \in 1..Len(kept) : kept[i] = events[e[i]] /\ i <= e[i]
                       /\ \A i, j \in 1..Len(kept) : i < j => e[i] < e[j]
                       /\ \A i \in 1..Len(events) :
                            Payable(events[i]) => \E j \in 1..Len(kept) : e[j] = i
<1> DEFINE kept == Kept(events)
           n == Len(events)
<1>1. PICK g : IsLeft(g, events, Unpayable) /\ kept = g[n]
  BY KeptIsLeft
<1> HIDE DEF kept
<1>2. kept \in Seq(Events) /\ \E e : Keeps(kept, e, events, Unpayable, n)
  BY <1>1, LeftKeeps
<1>3. PICK e : Keeps(kept, e, events, Unpayable, n)
  BY <1>2
<1>4. Len(kept) \in Nat /\ n \in Nat /\ \A i \in 1..n : events[i] \in Events
  BY <1>2
<1> HIDE DEF n
<1>5. /\ e \in [1..Len(kept) -> 1..n]
      /\ \A i, j \in 1..Len(kept) : i < j => e[i] < e[j]
  BY <1>3 DEF Keeps
<1>6. \A i \in 1..Len(kept) : i <= e[i]
  <2>1. e \in [1..Len(kept) -> Nat \ {0}]
    BY <1>4, <1>5
  <2> QED BY <1>4, <1>5, <2>1, GrowingNumbers
<1>7. Len(kept) <= n
  <2>1. CASE Len(kept) = 0
    BY <1>4, <2>1
  <2>2. CASE Len(kept) # 0
    <3>1. Len(kept) \in 1..Len(kept)
      BY <1>4, <2>2
    <3>2. e[Len(kept)] \in 1..n /\ Len(kept) <= e[Len(kept)]
      BY <1>5, <1>6, <3>1
    <3> QED BY <1>4, <3>2
  <2> QED BY <2>1, <2>2
<1>8. \A i \in 1..Len(kept) : kept[i] = events[e[i]] /\ events[e[i]] \notin Unpayable
  BY <1>3 DEF Keeps
<1>9. \A i \in 1..Len(kept) : kept[i] \in Events /\ Payable(kept[i])
  BY <1>4, <1>5, <1>8 DEF Unpayable
<1>10. \A i \in 1..n : Payable(events[i]) => \E j \in 1..Len(kept) : e[j] = i
  BY <1>3, <1>4 DEF Keeps, Unpayable
<1> QED BY <1>2, <1>5, <1>6, <1>7, <1>8, <1>9, <1>10 DEF kept, n

LEMMA KeysAre ==
  ASSUME NEW key \in PublisherKeys
  PROVE  key \in Publishers /\ key # NoPublisher
BY AnalyticsAssumption DEF PublisherKeys

\* What an event pays, if it pays, it pays to the key of its publisher.
LEMMA PayoutIs ==
  ASSUME NEW ev \in Events
  PROVE  /\ getPayout(ev).paid \in Nat
         /\ getPayout(ev).publisher = NoPublisher <=> getPayout(ev) = NoPayout
         /\ getPayout(ev) # NoPayout =>
              /\ Payable(ev) /\ ev.type \in Types
              /\ getPayout(ev).publisher \in PublisherKeys
              /\ getPayout(ev).publisher = toBalancesKey[ev.publisher]
<1>1. ev.price \in Nat /\ (ev.publisher # NoPublisher => ev.publisher \in Publishers)
  BY DEF Events
<1>2. CASE Payable(ev) /\ toBalancesKey[ev.publisher] # Malformed /\ ev.shown
  <2>1. getPayout(ev) = [publisher |-> toBalancesKey[ev.publisher], paid |-> ev.price]
    BY <1>2 DEF getPayout
  <2>2. toBalancesKey[ev.publisher] \in PublisherKeys
    BY <1>1, <1>2 DEF Payable, PublisherKeys
  <2>3. toBalancesKey[ev.publisher] # NoPublisher
    BY <2>2, KeysAre
  <2> QED BY <1>1, <1>2, <2>1, <2>2, <2>3 DEF Payable, NoPayout
<1>3. CASE ~(Payable(ev) /\ toBalancesKey[ev.publisher] # Malformed /\ ev.shown)
  <2>1. getPayout(ev) = NoPayout
    BY <1>3 DEF getPayout
  <2> QED BY <2>1 DEF NoPayout
<1> QED BY <1>2, <1>3

LEMMA SumOverIs ==
  ASSUME NEW f
  PROVE  SumOver(f) = SumOn(f, DOMAIN f)
BY DEF SumOver, FoldFunction, FoldFunctionOnSet, MapThenFoldSet, IsSum, SumOn

Ones(events) == [i \in 1..Len(events) |-> 1]
Paid(events) == [i \in 1..Len(events) |-> getPayout(events[i]).paid]

LEMMA EventSums ==
  ASSUME NEW events \in Seq(Events)
  PROVE  /\ IsTree(Ones(events)) /\ DOMAIN Ones(events) = 1..Len(events)
         /\ IsTree(Paid(events)) /\ DOMAIN Paid(events) = 1..Len(events)
         /\ IsFiniteSet(1..Len(events)) /\ Len(events) \in Nat
         /\ \A i \in 1..Len(events) : Paid(events)[i] = getPayout(events[i]).paid
<1>1. Len(events) \in Nat /\ \A i \in 1..Len(events) : events[i] \in Events
  OBVIOUS
<1>2. IsFiniteSet(1..Len(events))
  BY <1>1, FirstNumbers
<1>3. \A i \in 1..Len(events) : getPayout(events[i]).paid \in Nat
  BY <1>1, PayoutIs
<1>4. IsTree(Ones(events))
  BY <1>2, SumOfOnes DEF Ones
<1>5. IsTree(Paid(events))
  BY <1>2, <1>3 DEF IsTree, Paid
<1> QED BY <1>1, <1>2, <1>4, <1>5 DEF Ones, Paid

\* How many events there are at places, and what they pay.
SumAt(events, places) ==
  [count |-> SumOn(Ones(events), places), paid |-> SumOn(Paid(events), places)]

LEMMA SumAtIs ==
  ASSUME NEW events \in Seq(Events), NEW places \in SUBSET (1..Len(events))
  PROVE  /\ SumAt(events, places)
              = [count |-> Cardinality(places),
                 paid |-> SumOver([i \in places |-> getPayout(events[i]).paid])]
         /\ SumAt(events, places) \in [count : Nat, paid : Nat]
<1> DEFINE f == [i \in places |-> getPayout(events[i]).paid]
<1>1. /\ DOMAIN f = places /\ IsFiniteSet(places)
      /\ \A i \in places : f[i] = Paid(events)[i] /\ f[i] \in Nat
  <2>1. IsFiniteSet(places)
    BY EventSums, FS_Subset
  <2>2. \A i \in places : Paid(events)[i] = getPayout(events[i]).paid /\ Paid(events)[i] \in Nat
    BY EventSums DEF IsTree
  <2> QED BY <2>1, <2>2
<1>2. f = [i \in places |-> f[i]]
  OBVIOUS
<1> HIDE DEF f
<1>3. IsTree(f)
  BY <1>1, <1>2 DEF IsTree
<1>4. SumOver(f) = SumOn(f, places)
  BY <1>1, SumOverIs
<1>5. SumOn(f, places) = SumOn(Paid(events), places)
  BY <1>1, <1>3, EventSums, SumOnAgree
<1>6. SumOn(Ones(events), places) = Cardinality(places)
  BY EventSums, SumOfOnes DEF Ones
<1>7. SumOn(Ones(events), places) \in Nat /\ SumOn(Paid(events), places) \in Nat
  BY EventSums, SumOnType
<1> QED BY <1>4, <1>5, <1>6, <1>7 DEF SumAt, f

NotedAt(events, type, key) ==
  {i \in Notes(events) :
     Kept(events)[i].type = type /\ toBalancesKey[Kept(events)[i].publisher] = key}

CountedAt(events, type, key) ==
  {i \in DOMAIN events : events[i].type = type /\ getPayout(events[i]).publisher = key}

Payouts(events) == {i \in 1..Len(events) : getPayout(events[i]) # NoPayout}

LEMMA NotesAre ==
  ASSUME NEW events \in Seq(Events)
  PROVE  /\ Notes(events) \subseteq Payouts(events)
         /\ \A i \in Notes(events) :
              /\ i \in 1..Len(Kept(events)) /\ Kept(events)[i].type \in Types
              /\ toBalancesKey[Kept(events)[i].publisher] \in PublisherKeys
<1>1. /\ Kept(events) \in Seq(Events) /\ Len(Kept(events)) <= Len(events)
      /\ \A i \in 1..Len(Kept(events)) : Kept(events)[i] \in Events /\ Payable(Kept(events)[i])
  BY KeptIs
<1>2. DOMAIN Kept(events) = 1..Len(Kept(events)) /\ Len(Kept(events)) \in Nat /\ Len(events) \in Nat
  BY <1>1
<1>3. ASSUME NEW i \in Notes(events)
      PROVE  /\ i \in 1..Len(Kept(events)) /\ ~IsBroken(Kept(events)[i])
             /\ i \in Payouts(events)
  <2>1. /\ i \in 1..Len(Kept(events)) /\ getPayout(events[i]) # NoPayout
        /\ \A j \in 1..i : ~IsBroken(Kept(events)[j])
    BY <1>2, <1>3 DEF Notes
  <2>2. i \in 1..i /\ i \in 1..Len(events)
    BY <1>1, <1>2, <2>1
  <2> QED BY <2>1, <2>2 DEF Payouts
<1>4. ASSUME NEW ev \in Events, Payable(ev), ~IsBroken(ev)
      PROVE  ev.type \in Types /\ toBalancesKey[ev.publisher] \in PublisherKeys
  <2>1. ev.publisher \in Publishers
    BY <1>4 DEF Payable, Events
  <2> QED BY <1>4, <2>1 DEF Payable, IsBroken, PublisherKeys
<1> QED BY <1>1, <1>3, <1>4

\* Both ways of counting are sums over places, which for other types or publishers are
\* others, and together all that are noted, or that pay.
LEMMA NotedIs ==
  ASSUME NEW events \in Seq(Events)
  PROVE  /\ \A t, k : NotedAt(events, t, k) \in SUBSET (1..Len(events))
         /\ \A t, k : Noted(events, t, k) = SumAt(events, NotedAt(events, t, k))
         /\ \A t, k, s, l :
              NotedAt(events, t, k) \cap NotedAt(events, s, l) # {} => t = s /\ k = l
         /\ \A i \in Notes(events) :
              \E t \in Types, k \in PublisherKeys : i \in NotedAt(events, t, k)
<1>1. \A t, k : NotedAt(events, t, k) \in SUBSET (1..Len(events))
  BY NotesAre DEF NotedAt, Payouts
<1>2. ASSUME NEW t, NEW k
      PROVE  Noted(events, t, k) = SumAt(events, NotedAt(events, t, k))
  <2>1. SumAt(events, NotedAt(events, t, k))
          = [count |-> Cardinality(NotedAt(events, t, k)),
             paid |-> SumOver([i \in NotedAt(events, t, k) |-> getPayout(events[i]).paid])]
    BY <1>1, SumAtIs
  <2> QED BY <2>1 DEF Noted, NotedAt
<1> QED BY <1>1, <1>2, NotesAre DEF NotedAt

LEMMA CountedIs ==
  ASSUME NEW events \in Seq(Events)
  PROVE  /\ \A t, k : CountedAt(events, t, k) \in SUBSET (1..Len(events))
         /\ \A t, k : Counted(events, t, k) = SumAt(events, CountedAt(events, t, k))
         /\ \A t, k, s, l :
              CountedAt(events, t, k) \cap CountedAt(events, s, l) # {} => t = s /\ k = l
         /\ \A t, k : k \in PublisherKeys => CountedAt(events, t, k) \subseteq Payouts(events)
         /\ \A i \in Payouts(events) :
              \E t \in Types, k \in PublisherKeys : i \in CountedAt(events, t, k)
<1>1. DOMAIN events = 1..Len(events) /\ \A i \in 1..Len(events) : events[i] \in Events
  OBVIOUS
<1>2. \A t, k : CountedAt(events, t, k) \in SUBSET (1..Len(events))
  BY <1>1 DEF CountedAt
<1>3. ASSUME NEW t, NEW k
      PROVE  Counted(events, t, k) = SumAt(events, CountedAt(events, t, k))
  <2>1. SumAt(events, CountedAt(events, t, k))
          = [count |-> Cardinality(CountedAt(events, t, k)),
             paid |-> SumOver([i \in CountedAt(events, t, k) |-> getPayout(events[i]).paid])]
    BY <1>2, SumAtIs
  <2> QED BY <2>1 DEF Counted, CountedAt
<1>4. ASSUME NEW t, NEW k \in PublisherKeys
      PROVE  CountedAt(events, t, k) \subseteq Payouts(events)
  BY <1>1, PayoutIs, KeysAre DEF CountedAt, Payouts
<1>5. ASSUME NEW i \in Payouts(events)
      PROVE  \E t \in Types, k \in PublisherKeys : i \in CountedAt(events, t, k)
  BY <1>1, PayoutIs DEF CountedAt, Payouts
<1> QED BY <1>2, <1>3, <1>4, <1>5 DEF CountedAt

KeyPairs == Types \X PublisherKeys

LEMMA KeysAreFinite == IsFiniteSet(PublisherKeys) /\ IsFiniteSet(KeyPairs)
<1> DEFINE sent == {p \in Publishers : toBalancesKey[p] # Malformed}
           f == [p \in sent |-> toBalancesKey[p]]
<1>1. IsFiniteSet(sent)
  BY AnalyticsAssumption, FS_Subset
<1>2. f \in Surjection(sent, PublisherKeys)
  BY DEF Surjection, PublisherKeys
<1>3. IsFiniteSet(PublisherKeys)
  <2> HIDE DEF sent, f
  <2> QED BY <1>1, <1>2, FS_Surjection
<1>4. IsFiniteSet(Types)
  <2>1. IsFiniteSet({"IMPRESSION"}) /\ IsFiniteSet({"CLICK"})
    BY FS_Singleton
  <2>2. Types = {"IMPRESSION"} \cup {"CLICK"}
    BY DEF Types
  <2> QED BY <2>1, <2>2, FS_Union
<1> QED BY <1>3, <1>4, FS_Product DEF KeyPairs

LEMMA DocsAreFinite ==
  ASSUME NEW D, \A d \in D : d.type \in Types /\ d.key \in PublisherKeys,
         \A d, e \in D : d.type = e.type /\ d.key = e.key => d = e
  PROVE  IsFiniteSet(D)
<1> DEFINE f == [d \in D |-> <<d.type, d.key>>]
<1>1. f \in Injection(D, KeyPairs)
  BY DEF Injection, IsInjective, KeyPairs
<1> HIDE DEF f
<1> QED BY <1>1, KeysAreFinite, FS_Injection

\* What parts hold that have no event in common is what all of them hold.
LEMMA PartsAddUp ==
  ASSUME NEW events \in Seq(Events), NEW D, IsFiniteSet(D),
         NEW part \in [D -> SUBSET (1..Len(events))],
         \A x, y \in D : part[x] \cap part[y] # {} => x = y,
         \A d \in D : d.sum = SumAt(events, part[d]),
         NEW all, all = UNION {part[d] : d \in D}
  PROVE  Sum(D) = SumAt(events, all)
<1> DEFINE counts == [d \in D |-> d.sum.count]
           pays == [d \in D |-> d.sum.paid]
<1>1. ASSUME NEW d \in D
      PROVE  /\ d.sum.count \in Nat /\ d.sum.count = SumOn(Ones(events), part[d])
             /\ d.sum.paid \in Nat /\ d.sum.paid = SumOn(Paid(events), part[d])
  <2> DEFINE places == part[d]
  <2>1. d.sum = SumAt(events, places) /\ places \in SUBSET (1..Len(events))
    OBVIOUS
  <2> HIDE DEF places
  <2>2. SumAt(events, places) \in [count : Nat, paid : Nat]
    BY <2>1, SumAtIs
  <2>3. d.sum.count = SumOn(Ones(events), places) /\ d.sum.paid = SumOn(Paid(events), places)
    BY <2>1 DEF SumAt
  <2>4. d.sum.count \in Nat /\ d.sum.paid \in Nat
    BY <2>1, <2>2
  <2> QED BY <2>3, <2>4 DEF places
<1>2. /\ counts \in [D -> Nat] /\ \A d \in D : counts[d] = SumOn(Ones(events), part[d])
      /\ pays \in [D -> Nat] /\ \A d \in D : pays[d] = SumOn(Paid(events), part[d])
  BY <1>1
<1>3. DOMAIN counts = D /\ DOMAIN pays = D
  OBVIOUS
<1>4. Sum(D) = [count |-> SumOver(counts), paid |-> SumOver(pays)]
  BY DEF Sum
<1> HIDE DEF counts, pays
<1>5. SumOver(counts) = SumOn(counts, D) /\ SumOver(pays) = SumOn(pays, D)
  BY <1>3, SumOverIs
<1>6. \A x, y \in D : x # y => part[x] \cap part[y] = {}
  OBVIOUS
<1> DEFINE W == 1..Len(events)
           ones == Ones(events)
           paid == Paid(events)
<1>7. IsTree(ones) /\ DOMAIN ones = W /\ IsTree(paid) /\ DOMAIN paid = W
  BY EventSums
<1>8. part \in [D -> SUBSET W]
  OBVIOUS
<1>9. all \in SUBSET W /\ \A y : y \in all <=> \E d \in D : y \in part[d]
  OBVIOUS
<1> HIDE DEF W, ones, paid
<1>10. ASSUME NEW u, u \in [D -> Nat], NEW t, IsTree(t), DOMAIN t = W,
              \A d \in D : u[d] = SumOn(t, part[d])
       PROVE  SumOn(u, D) = SumOn(t, all)
  <2>1. part \in [D -> SUBSET DOMAIN t] /\ all \in SUBSET DOMAIN t
    BY <1>8, <1>9, <1>10
  <2>2. IsFiniteSet(D)
    OBVIOUS
  <2> QED BY ONLY <1>6, <1>9, <1>10, <2>1, <2>2, SumOfParts, SMTT(20)
<1>11. SumOn(counts, D) = SumOn(ones, all)
  <2>1. \A d \in D : counts[d] = SumOn(ones, part[d])
    BY <1>2 DEF ones
  <2> QED BY <1>2, <1>7, <1>10, <2>1
<1>12. SumOn(pays, D) = SumOn(paid, all)
  <2>1. \A d \in D : pays[d] = SumOn(paid, part[d])
    BY <1>2 DEF paid
  <2> QED BY <1>2, <1>7, <1>10, <2>1
<1> QED BY <1>4, <1>5, <1>11, <1>12 DEF SumAt, ones, paid

LEMMA AllNotedIs ==
  ASSUME NEW events \in Seq(Events)
  PROVE  AllNoted(events) = SumAt(events, Notes(events))
<1> DEFINE DocOf(t, k) == [type |-> t, key |-> k, sum |-> Noted(events, t, k)]
           D == {DocOf(t, k) : t \in Types, k \in PublisherKeys}
           part == [d \in D |-> NotedAt(events, d.type, d.key)]
<1>1. /\ \A t \in Types, k \in PublisherKeys : DocOf(t, k) \in D
      /\ \A d \in D : \E t \in Types, k \in PublisherKeys : d = DocOf(t, k)
      /\ \A t, k : DocOf(t, k).type = t /\ DocOf(t, k).key = k
      /\ \A t, k : DocOf(t, k).sum = SumAt(events, NotedAt(events, t, k))
  BY NotedIs
<1>2. AllNoted(events) = Sum(D)
  BY DEF AllNoted
<1>3. \A d \in D : part[d] = NotedAt(events, d.type, d.key)
  OBVIOUS
<1>4. part = [d \in D |-> part[d]]
  OBVIOUS
<1> HIDE DEF DocOf, D, part
<1>5. ASSUME NEW d \in D
      PROVE  /\ d.type \in Types /\ d.key \in PublisherKeys /\ d = DocOf(d.type, d.key)
             /\ d.sum = SumAt(events, part[d])
  BY <1>1, <1>3
<1>6. IsFiniteSet(D)
  BY <1>5, DocsAreFinite
<1>7. part \in [D -> SUBSET (1..Len(events))]
  <2>1. \A d \in D : part[d] \in SUBSET (1..Len(events))
    BY <1>3, NotedIs
  <2> QED BY <1>4, <2>1
<1>8. ASSUME NEW x \in D, NEW y \in D, part[x] \cap part[y] # {} PROVE x = y
  <2>1. x.type = y.type /\ x.key = y.key
    BY <1>3, <1>8, NotedIs
  <2> QED BY <1>5, <2>1
<1>9. Notes(events) = UNION {part[d] : d \in D}
  <2>1. ASSUME NEW i \in Notes(events) PROVE \E d \in D : i \in part[d]
    <3>1. PICK t \in Types, k \in PublisherKeys : i \in NotedAt(events, t, k)
      BY NotedIs
    <3>2. PICK d \in D : d.type = t /\ d.key = k
      BY <1>1
    <3> QED BY <1>3, <3>1, <3>2
  <2>2. \A d \in D : part[d] \subseteq Notes(events)
    BY <1>3, <1>5 DEF NotedAt
  <2> QED BY <2>1, <2>2
<1>10. Sum(D) = SumAt(events, Notes(events))
  BY <1>5, <1>6, <1>7, <1>8, <1>9, PartsAddUp
<1> QED BY <1>2, <1>10

LEMMA AllCountedIs ==
  ASSUME NEW events \in Seq(Events)
  PROVE  AllCounted(events) = SumAt(events, Payouts(events))
<1> DEFINE DocOf(t, k) == [type |-> t, key |-> k, sum |-> Counted(events, t, k)]
           D == {DocOf(t, k) : t \in Types, k \in PublisherKeys}
           part == [d \in D |-> CountedAt(events, d.type, d.key)]
<1>1. /\ \A t \in Types, k \in PublisherKeys : DocOf(t, k) \in D
      /\ \A d \in D : \E t \in Types, k \in PublisherKeys : d = DocOf(t, k)
      /\ \A t, k : DocOf(t, k).type = t /\ DocOf(t, k).key = k
      /\ \A t, k : DocOf(t, k).sum = SumAt(events, CountedAt(events, t, k))
  BY CountedIs
<1>2. AllCounted(events) = Sum(D)
  BY DEF AllCounted
<1>3. \A d \in D : part[d] = CountedAt(events, d.type, d.key)
  OBVIOUS
<1>4. part = [d \in D |-> part[d]]
  OBVIOUS
<1> HIDE DEF DocOf, D, part
<1>5. ASSUME NEW d \in D
      PROVE  /\ d.type \in Types /\ d.key \in PublisherKeys /\ d = DocOf(d.type, d.key)
             /\ d.sum = SumAt(events, part[d])
  BY <1>1, <1>3
<1>6. IsFiniteSet(D)
  BY <1>5, DocsAreFinite
<1>7. part \in [D -> SUBSET (1..Len(events))]
  <2>1. \A d \in D : part[d] \in SUBSET (1..Len(events))
    BY <1>3, CountedIs
  <2> QED BY <1>4, <2>1
<1>8. ASSUME NEW x \in D, NEW y \in D, part[x] \cap part[y] # {} PROVE x = y
  <2>1. x.type = y.type /\ x.key = y.key
    BY <1>3, <1>8, CountedIs
  <2> QED BY <1>5, <2>1
<1>9. Payouts(events) = UNION {part[d] : d \in D}
  <2>1. ASSUME NEW i \in Payouts(events) PROVE \E d \in D : i \in part[d]
    <3>1. PICK t \in Types, k \in PublisherKeys : i \in CountedAt(events, t, k)
      BY CountedIs
    <3>2. PICK d \in D : d.type = t /\ d.key = k
      BY <1>1
    <3> QED BY <1>3, <3>1, <3>2
  <2>2. \A d \in D : part[d] \subseteq Payouts(events)
    BY <1>3, <1>5, CountedIs
  <2> QED BY <2>1, <2>2
<1>10. Sum(D) = SumAt(events, Payouts(events))
  BY <1>5, <1>6, <1>7, <1>8, <1>9, PartsAddUp
<1> QED BY <1>2, <1>10

LEMMA NoMoreIsNoted ==
  ASSUME NEW events \in Seq(Events)
  PROVE  /\ AllNoted(events).count <= AllCounted(events).count
         /\ AllNoted(events).paid <= AllCounted(events).paid
<1>1. Notes(events) \subseteq Payouts(events) /\ Payouts(events) \subseteq 1..Len(events)
  BY NotesAre DEF Payouts
<1>2. /\ SumOn(Ones(events), Notes(events)) <= SumOn(Ones(events), Payouts(events))
      /\ SumOn(Paid(events), Notes(events)) <= SumOn(Paid(events), Payouts(events))
  BY <1>1, EventSums, SumOnSubset
<1> QED BY <1>2, AllNotedIs, AllCountedIs DEF SumAt

\* If the events that can be paid come first, the i-th that is kept is the i-th sent.
LEMMA AlignedPlaces ==
  ASSUME NEW events \in Seq(Events), Aligned(events)
  PROVE  /\ Len(Kept(events)) <= Len(events)
         /\ \A i \in 1..Len(Kept(events)) : Kept(events)[i] = events[i] /\ ~IsBroken(events[i])
         /\ \A i \in 1..Len(events) : Payable(events[i]) => i \in 1..Len(Kept(events))
<1> DEFINE kept == Kept(events)
           m == Len(kept)
           n == Len(events)
<1>1. /\ kept \in Seq(Events) /\ m <= n
      /\ \A i \in 1..m : kept[i] \in Events /\ Payable(kept[i])
      /\ \E e : /\ e \in [1..m -> 1..n]
                /\ \A i \in 1..m : kept[i] = events[e[i]] /\ i <= e[i]
                /\ \A i, j \in 1..m : i < j => e[i] < e[j]
                /\ \A i \in 1..n : Payable(events[i]) => \E j \in 1..m : e[j] = i
  BY KeptIs
<1>2. PICK e : /\ e \in [1..m -> 1..n]
               /\ \A i \in 1..m : kept[i] = events[e[i]] /\ i <= e[i]
               /\ \A i, j \in 1..m : i < j => e[i] < e[j]
               /\ \A i \in 1..n : Payable(events[i]) => \E j \in 1..m : e[j] = i
  BY <1>1
<1> HIDE DEF kept
<1>3. m \in Nat /\ n \in Nat /\ DOMAIN kept = 1..m
  BY <1>1
<1>4. ASSUME NEW i \in 1..m PROVE kept[i] = events[i]
  <2>1. SubSeq(kept, 1, m) = SubSeq(events, 1, m)
    BY DEF Aligned, IsPrefix, kept
  <2>2. SubSeq(kept, 1, m)[i] = kept[i] /\ SubSeq(events, 1, m)[i] = events[i]
    BY <1>1, <1>3
  <2> QED BY <2>1, <2>2
<1>5. ASSUME NEW i \in 1..m PROVE ~IsBroken(events[i])
  BY <1>3, <1>4 DEF Aligned, Throws, kept
<1>6. \A j \in 1..m : e[j] = j
  <2> DEFINE P == {k \in Nat : \A j \in 1..m : j <= k => e[j] = j}
  <2>1. 0 \in P
    OBVIOUS
  <2>2. ASSUME NEW k \in Nat, k \in P PROVE k + 1 \in P
    <3> SUFFICES ASSUME k + 1 \in 1..m PROVE e[k + 1] = k + 1
      BY <2>2
    <3>1. k + 1 \in 1..n /\ Payable(events[k + 1])
      BY <1>1, <1>3, <1>4
    <3>2. PICK j \in 1..m : e[j] = k + 1
      BY <1>2, <3>1
    <3>3. j <= k + 1 /\ ~(j <= k)
      BY <1>2, <2>2, <3>2
    <3>4. j = k + 1
      BY <3>3
    <3> QED BY <3>2, <3>4
  <2>3. Nat \subseteq P
    <3> HIDE DEF P
    <3> QED BY <2>1, <2>2, NatSetInduction
  <2> QED BY <1>3, <2>3
<1>7. \A i \in 1..n : Payable(events[i]) => i \in 1..m
  BY <1>2, <1>6
<1> QED BY <1>1, <1>4, <1>5, <1>7 DEF kept

LEMMA AlignedAgree ==
  ASSUME NEW events \in Seq(Events), Aligned(events), NEW t \in Types, NEW k \in PublisherKeys
  PROVE  Noted(events, t, k) = Counted(events, t, k)
<1>1. DOMAIN Kept(events) = 1..Len(Kept(events)) /\ Len(Kept(events)) \in Nat
  BY KeptIs
<1>2. DOMAIN events = 1..Len(events) /\ Len(events) \in Nat
      /\ \A i \in 1..Len(events) : events[i] \in Events
  OBVIOUS
<1>3. ASSUME NEW i \in CountedAt(events, t, k) PROVE i \in NotedAt(events, t, k)
  <2>1. /\ i \in 1..Len(events) /\ events[i].type = t
        /\ getPayout(events[i]) # NoPayout /\ getPayout(events[i]).publisher = k
    <3>1. CountedAt(events, t, k) \subseteq Payouts(events)
      BY CountedIs
    <3> QED BY <1>2, <1>3, <3>1 DEF CountedAt, Payouts
  <2>2. Payable(events[i]) /\ toBalancesKey[events[i].publisher] = k
    BY <1>2, <2>1, PayoutIs
  <2>3. i \in 1..Len(Kept(events))
    BY <2>1, <2>2, AlignedPlaces
  <2>4. Kept(events)[i] = events[i] /\ \A j \in 1..i : ~IsBroken(Kept(events)[j])
    BY <1>1, <2>3, AlignedPlaces
  <2> QED BY <1>1, <2>1, <2>2, <2>3, <2>4 DEF NotedAt, Notes
<1>4. ASSUME NEW i \in NotedAt(events, t, k) PROVE i \in CountedAt(events, t, k)
  <2>1. /\ i \in 1..Len(Kept(events)) /\ i \in Payouts(events)
        /\ Kept(events)[i].type = t /\ toBalancesKey[Kept(events)[i].publisher] = k
    BY <1>4, NotesAre DEF NotedAt
  <2>2. Kept(events)[i] = events[i]
    BY <2>1, AlignedPlaces
  <2>3. i \in 1..Len(events) /\ getPayout(events[i]) # NoPayout
    BY <2>1 DEF Payouts
  <2>4. getPayout(events[i]).publisher = k
    BY <1>2, <2>1, <2>2, <2>3, PayoutIs
  <2> QED BY <1>2, <2>1, <2>2, <2>3, <2>4 DEF CountedAt
<1>5. NotedAt(events, t, k) = CountedAt(events, t, k)
  BY <1>3, <1>4
<1> QED BY <1>5, NotedIs, CountedIs

LEMMA EventsOf ==
  ASSUME RequestsInv, NEW r \in DOMAIN served
  PROVE  served[r].body \in Bodies /\ served[r].body.events \in Seq(Events)
<1>1. served[r] \in [body : Bodies, time : 0..MaxTime]
  <2> DEFINE S == [body : Bodies, time : 0..MaxTime]
  <2>1. served \in Seq(S)
    BY DEF RequestsInv
  <2> HIDE DEF S
  <2>2. served[r] \in S
    BY <2>1
  <2> QED BY <2>2 DEF S
<1> QED BY <1>1, SystemAssumption

\* Whatever a request holds: unless it throws, no more of it is noted than is counted to
\* be paid, and if the events that can be paid come first, exactly that.
THEOREM NotesAreBacked == Spec => []NotesAddUp
<1>1. RequestsInv => NotesAddUp
  <2> SUFFICES ASSUME RequestsInv, NEW r \in DOMAIN served,
                      NEW events, events = served[r].body.events
               PROVE  /\ AllNoted(events).count <= AllCounted(events).count
                      /\ AllNoted(events).paid <= AllCounted(events).paid
                      /\ Aligned(events) =>
                           \A t \in Types, k \in PublisherKeys :
                             Noted(events, t, k) = Counted(events, t, k)
    BY DEF NotesAddUp
  <2>1. events \in Seq(Events)
    BY EventsOf
  <2> QED BY <2>1, NoMoreIsNoted, AlignedAgree
<1> QED BY <1>1, AnalyticsInvariant, PTL DEF AnalyticsInv
-----------------------------------------------------------------------------
(* What the two routes add up.                                              *)

\* A request that leaves no aggregate throws, or has nothing to pay.
AcceptedInv ==
  \A r \in DOMAIN served :
    r \in Accepted \/ Throws(served[r].body.events) \/ ~HasPayout(served[r].body.events)

LEMMA AcceptedStep ==
  ASSUME RequestsInv, AcceptedInv, [Next]_vars
  PROVE  AcceptedInv'
<1>1. ASSUME UNCHANGED <<served, saving, aggrs>>
      PROVE  AcceptedInv'
  BY <1>1 DEF AcceptedInv, Accepted
<1>2. ASSUME served' = served, Accepted \subseteq Accepted'
      PROVE  AcceptedInv'
  BY <1>2 DEF AcceptedInv
<1>3. ASSUME NEW body \in Bodies, Request(body)
      PROVE  AcceptedInv'
  <2> DEFINE new == Len(served')
  <2>1. /\ DOMAIN served' = DOMAIN served \cup {new}
        /\ \A r \in DOMAIN served : served'[r] = served[r]
    BY <1>3, RequestServes
  <2>2. served'[new].body = body
    <3>1. Len(served') = Len(served) + 1 /\ Len(served) \in Nat
      BY <1>3, RequestServes, ServedIs
    <3>2. /\ served' = Append(served, [body |-> body, time |-> now])
          /\ served \in Seq([body : Bodies, time : 0..MaxTime])
      BY <1>3 DEF Request, RequestsInv
    <3>3. served'[new] = [body |-> body, time |-> now]
      <4> DEFINE S == [body : Bodies, time : 0..MaxTime]
                 last == [body |-> body, time |-> now]
      <4>1. served \in Seq(S) /\ served' = Append(served, last)
        BY <3>2
      <4> HIDE DEF S, last
      <4>2. served'[new] = last
        BY <3>1, <4>1
      <4> QED BY <4>2 DEF last
    <3> QED BY <3>3
  <2>3. Accepted \subseteq Accepted'
    BY <1>3 DEF Request, Accepted
  <2>4. new \in Accepted' \/ Throws(body.events) \/ ~HasPayout(body.events)
    <3> DEFINE aggr == [request |-> new, created |-> Unsent]
    <3>1. aggr.request = new
      OBVIOUS
    <3>2. aggr \in saving' \/ Throws(body.events) \/ ~HasPayout(body.events)
      BY <1>3 DEF Request
    <3> HIDE DEF new, aggr
    <3> QED BY <3>1, <3>2 DEF Accepted
  <2> HIDE DEF new
  <2>5. ASSUME NEW r \in DOMAIN served'
        PROVE  r \in Accepted' \/ Throws(served'[r].body.events)
                 \/ ~HasPayout(served'[r].body.events)
    <3>1. CASE r = new
      BY <2>2, <2>4, <3>1
    <3>2. CASE r \in DOMAIN served
      BY <2>1, <2>3, <3>2 DEF AcceptedInv
    <3> QED BY <2>1, <3>1, <3>2
  <2> QED BY <2>5 DEF AcceptedInv
<1>4. ASSUME NEW aggr \in saving, SendInsert(aggr)
      PROVE  AcceptedInv'
  <2> DEFINE sent == [aggr EXCEPT !.created = now]
  <2>1. sent.request = aggr.request
    <3>1. aggr \in [request : DOMAIN served, created : 0..now \cup {Unsent}]
      BY DEF RequestsInv
    <3> QED BY <3>1
  <2> HIDE DEF sent
  <2>2. served' = served /\ aggrs' = aggrs /\ saving' = (saving \ {aggr}) \cup {sent}
    BY <1>4 DEF SendInsert, sent
  <2> QED BY <1>2, <2>1, <2>2 DEF Accepted
<1>5. ASSUME NEW aggr \in saving, Insert(aggr)
      PROVE  AcceptedInv'
  BY <1>2, <1>5 DEF Insert, Accepted
<1>6. CASE PassTime
  BY <1>1, <1>6 DEF PassTime
<1>7. CASE StartScript \/ ScriptStep \/ Crash
  <2>1. UNCHANGED <<served, saving, aggrs>>
    BY <1>7 DEF StartScript, ScriptStep, Crash, ReadHour, NextHour, Finish, InsertDoc
  <2> QED BY <1>1, <2>1
<1>8. CASE UNCHANGED vars
  BY <1>1, <1>8 DEF vars
<1> QED BY <1>3, <1>4, <1>5, <1>6, <1>7, <1>8 DEF Next

Nothing == [count |-> 0, paid |-> 0]

\* A sum stays what it is if what counts in it is written down in another way, and
\* what does not count is left out.
LEMMA SameSums ==
  ASSUME NEW A, NEW B, IsFiniteSet(A), NEW S, S \in SUBSET A, NEW h, h \in [S -> B],
         \A d \in A : d.sum \in [count : Nat, paid : Nat],
         \A d \in A : d \notin S => d.sum = Nothing,
         \A d, e \in S : h[d] = h[e] => d = e,
         \A b \in B : \E d \in S : h[d] = b,
         \A d \in S : h[d].sum = d.sum
  PROVE  Sum(A) = Sum(B)
<1>1. IsFiniteSet(S) /\ IsFiniteSet(B)
  <2>1. IsFiniteSet(S)
    BY FS_Subset
  <2>2. h \in Surjection(S, B)
    BY DEF Surjection
  <2> QED BY <2>1, <2>2, FS_Surjection
<1>2. ASSUME NEW a, a \in [A -> Nat], NEW b, b \in [B -> Nat],
             \A d \in A : d \notin S => a[d] = 0, \A d \in S : a[d] = b[h[d]]
      PROVE  SumOver(a) = SumOver(b)
  <2>1. IsTree(a) /\ DOMAIN a = A /\ IsTree(b) /\ DOMAIN b = B
    BY <1>1, <1>2 DEF IsTree
  <2>2. SumOver(a) = SumOn(a, A) /\ SumOver(b) = SumOn(b, B)
    BY <2>1, SumOverIs
  <2>3. SumOn(a, S) = SumOn(a, A)
    BY <1>2, <2>1, SumOnSubset
  <2>4. SumOn(a, S) = SumOn(b, B)
    <3>1. \A d \in S : a[d] = b[h[d]]
      BY <1>2
    <3> QED BY <2>1, <3>1, SumOnOnto
  <2> QED BY <2>2, <2>3, <2>4
<1> DEFINE countA == [d \in A |-> d.sum.count]
           paidA == [d \in A |-> d.sum.paid]
           countB == [d \in B |-> d.sum.count]
           paidB == [d \in B |-> d.sum.paid]
<1>3. \A b \in B : b.sum \in [count : Nat, paid : Nat]
  OBVIOUS
<1>4. countA \in [A -> Nat] /\ paidA \in [A -> Nat]
  OBVIOUS
<1>5. countB \in [B -> Nat] /\ paidB \in [B -> Nat]
  BY <1>3
<1>6. \A d \in A : d \notin S => countA[d] = 0 /\ paidA[d] = 0
  BY DEF Nothing
<1>7. \A d \in S : countA[d] = countB[h[d]] /\ paidA[d] = paidB[h[d]]
  OBVIOUS
<1>8. /\ Sum(A) = [count |-> SumOver(countA), paid |-> SumOver(paidA)]
      /\ Sum(B) = [count |-> SumOver(countB), paid |-> SumOver(paidB)]
  BY DEF Sum
<1> HIDE DEF countA, paidA, countB, paidB
<1>9. SumOver(countA) = SumOver(countB) /\ SumOver(paidA) = SumOver(paidB)
  BY <1>2, <1>4, <1>5, <1>6, <1>7
<1> QED BY <1>8, <1>9

EventsAt(r) == served[r].body.events

DocAt(r, key, type) ==
  [advertiser |-> Creator[served[r].body.channel], publisher |-> key,
   campaignId |-> served[r].body.channel, country |-> "any", request |-> r,
   sum |-> Noted(EventsAt(r), type, key)]

LEMMA V5DocsAre ==
  ASSUME NEW type
  PROVE  \A d : d \in V5Docs(type) <=>
           d.request \in DOMAIN served /\ d.publisher \in PublisherKeys
           /\ d = DocAt(d.request, d.publisher, type)
<1>1. V5Docs(type) = {DocAt(r, key, type) : r \in DOMAIN served, key \in PublisherKeys}
  BY DEF V5Docs, DocAt, EventsAt
<1>2. \A r, key : DocAt(r, key, type).request = r /\ DocAt(r, key, type).publisher = key
  BY DEF DocAt
<1> QED BY <1>1, <1>2

LEMMA RowsAreFinite ==
  ASSUME NEW R, IsFiniteSet(R), NEW K, IsFiniteSet(K),
         NEW D, \A d \in D : d.request \in R /\ d.publisher \in K,
         \A d, e \in D : d.request = e.request /\ d.publisher = e.publisher => d = e
  PROVE  IsFiniteSet(D)
<1> DEFINE f == [d \in D |-> <<d.request, d.publisher>>]
           pairs == R \X K
<1>1. f \in Injection(D, pairs)
  BY DEF Injection, IsInjective
<1>2. IsFiniteSet(pairs)
  BY FS_Product
<1> HIDE DEF f, pairs
<1> QED BY <1>1, <1>2, FS_Injection

LEMMA V5DocsAreFinite ==
  ASSUME RequestsInv, NEW type
  PROVE  IsFiniteSet(V5Docs(type))
<1>1. /\ \A d \in V5Docs(type) : d.request \in DOMAIN served /\ d.publisher \in PublisherKeys
      /\ \A d, e \in V5Docs(type) :
           d.request = e.request /\ d.publisher = e.publisher => d = e
  BY V5DocsAre
<1>2. IsFiniteSet(DOMAIN served) /\ IsFiniteSet(PublisherKeys)
  BY ServedIs, FirstNumbers, KeysAreFinite
<1> QED BY <1>1, <1>2, RowsAreFinite

\* The sums in the documents of some channels for some earners.
RowAt(r, key, type) ==
  [request |-> r, earner |-> key, sum |-> Counted(EventsAt(r), type, key)]

Rows(channels, earners, type) ==
  UNION {Summed(doc, type, earners) : doc \in {d \in docs : d.channel \in channels}}

LEMMA RowsAre ==
  ASSUME DocsInv, NEW C, NEW E, NEW type
  PROVE  \A row : row \in Rows(C, E, type) <=>
           \E r \in Summarized, key \in E :
             served[r].body.channel \in C /\ row = RowAt(r, key, type)
<1>1. ASSUME NEW d \in docs, NEW r \in d.requests
      PROVE  served[r].body.channel = d.channel
  BY DEF DocsInv, IsDoc, ChannelOf
<1>2. \A d : Summed(d, type, E) = {RowAt(r, key, type) : r \in d.requests, key \in E}
  BY DEF Summed, RowAt, EventsAt
<1>3. \A row, d : row \in Summed(d, type, E) <=>
                    \E r \in d.requests, key \in E : row = RowAt(r, key, type)
  BY <1>2
<1>4. \A row : row \in Rows(C, E, type) <=>
               \E d \in docs : d.channel \in C /\ row \in Summed(d, type, E)
  BY DEF Rows
<1>5. \A r : r \in Summarized <=> \E d \in docs : r \in d.requests
  BY DEF Summarized
<1> QED BY <1>1, <1>3, <1>4, <1>5

\* When all is summed up, what is noted is what is counted, and is nothing for a
\* request that is not summed up.
LEMMA SettledSums ==
  ASSUME RequestsInv, AcceptedInv, Settled, NEW type \in Types,
         NEW r \in DOMAIN served, NEW key \in PublisherKeys
  PROVE  /\ Noted(EventsAt(r), type, key) = Counted(EventsAt(r), type, key)
         /\ Counted(EventsAt(r), type, key) \in [count : Nat, paid : Nat]
         /\ r \notin Summarized => Counted(EventsAt(r), type, key) = Nothing
<1> DEFINE events == EventsAt(r)
<1>1. events \in Seq(Events)
  BY EventsOf DEF EventsAt
<1>2. Aligned(events) /\ ~Throws(events)
  BY DEF Settled, Aligned, EventsAt
<1>3. r \notin Summarized => ~HasPayout(events)
  BY <1>2 DEF Settled, AcceptedInv, EventsAt
<1> HIDE DEF events
<1>4. Noted(events, type, key) = Counted(events, type, key)
  BY <1>1, <1>2, AlignedAgree
<1>5. Counted(events, type, key) = SumAt(events, CountedAt(events, type, key))
      /\ CountedAt(events, type, key) \in SUBSET (1..Len(events))
  BY <1>1, CountedIs
<1>6. Counted(events, type, key) \in [count : Nat, paid : Nat]
  BY <1>1, <1>5, SumAtIs
<1>7. ASSUME r \notin Summarized
      PROVE  Counted(events, type, key) = Nothing
  <2>1. CountedAt(events, type, key) = {}
    <3>1. DOMAIN events = 1..Len(events)
      BY <1>1
    <3>2. CountedAt(events, type, key) \subseteq Payouts(events)
      BY <1>1, CountedIs
    <3> QED BY <1>3, <1>7, <3>1, <3>2 DEF HasPayout, Payouts
  <2>2. SumOn(Ones(events), {}) = 0 /\ SumOn(Paid(events), {}) = 0
    BY <1>1, EventSums, SumOnEmpty
  <2> QED BY <1>5, <2>1, <2>2 DEF SumAt, Nothing
<1> QED BY <1>4, <1>6, <1>7 DEF events

LEMMA AnswersAgree ==
  ASSUME RequestsInv, DocsInv, AcceptedInv, Settled, NEW type \in Types,
         NEW C, NEW E, E \in SUBSET PublisherKeys, NEW V, V \in SUBSET V5Docs(type),
         \A d \in V5Docs(type) :
           d \in V <=> d.campaignId \in C /\ d.publisher \in E
  PROVE  Sum(V) = Answer(C, E, type)
<1> DEFINE B == Rows(C, E, type)
           S == {d \in V : d.request \in Summarized}
           h == [d \in S |-> RowAt(d.request, d.publisher, type)]
<1>1. ASSUME NEW d \in V
      PROVE  /\ d.request \in DOMAIN served /\ d.publisher \in E
             /\ d = DocAt(d.request, d.publisher, type)
             /\ served[d.request].body.channel \in C
             /\ d.sum = Counted(EventsAt(d.request), type, d.publisher)
             /\ d.sum \in [count : Nat, paid : Nat]
             /\ d.request \notin Summarized => d.sum = Nothing
  <2>1. d.request \in DOMAIN served /\ d.publisher \in E /\ d.publisher \in PublisherKeys
        /\ d = DocAt(d.request, d.publisher, type) /\ d.campaignId \in C
    BY V5DocsAre
  <2>2. d.sum = Noted(EventsAt(d.request), type, d.publisher)
        /\ d.campaignId = served[d.request].body.channel
    BY <2>1 DEF DocAt
  <2> QED BY <2>1, <2>2, SettledSums
<1>2. Summarized \subseteq DOMAIN served
  BY DEF Summarized, DocsInv, IsDoc
<1>3. IsFiniteSet(V)
  BY V5DocsAreFinite, FS_Subset
<1>4. S \in SUBSET V /\ \A d \in S : h[d] = RowAt(d.request, d.publisher, type)
  OBVIOUS
<1>5. h = [d \in S |-> h[d]]
  OBVIOUS
<1>6. \A d \in V : d \in S <=> d.request \in Summarized
  OBVIOUS
<1>7. \A row : row \in B <=>
        \E r \in Summarized, key \in E :
             served[r].body.channel \in C /\ row = RowAt(r, key, type)
  BY RowsAre
<1>8. Answer(C, E, type) = Sum(B)
  BY DEF Answer, Rows
<1> HIDE DEF B, S, h
<1>9. h \in [S -> B]
  <2>1. \A d \in S : h[d] \in B
    BY <1>1, <1>4, <1>6, <1>7
  <2> QED BY <1>5, <2>1
<1>10. ASSUME NEW d \in S
       PROVE  /\ h[d].request = d.request /\ h[d].earner = d.publisher
              /\ h[d].sum = d.sum
  <2>1. d \in V /\ h[d] = RowAt(d.request, d.publisher, type)
    BY <1>4
  <2>2. d.sum = Counted(EventsAt(d.request), type, d.publisher)
    BY <1>1, <2>1
  <2> QED BY <2>1, <2>2 DEF RowAt
<1>11. \A d, e \in S : h[d] = h[e] => d = e
  BY <1>1, <1>4, <1>10
<1>12. ASSUME NEW row \in B
       PROVE  \E d \in S : h[d] = row
  <2>1. PICK r \in Summarized, key \in E :
          served[r].body.channel \in C /\ row = RowAt(r, key, type)
    BY <1>7
  <2> DEFINE doc == DocAt(r, key, type)
  <2>2. /\ doc.request = r /\ doc.publisher = key
        /\ doc.campaignId = served[r].body.channel
    BY DEF DocAt
  <2>3. doc \in V5Docs(type)
    BY <1>2, <2>2, V5DocsAre
  <2> HIDE DEF doc
  <2>4. doc \in V
    BY <2>1, <2>2, <2>3
  <2> QED BY <1>4, <1>6, <2>1, <2>2, <2>4
<1>13. /\ \A d \in V : d.sum \in [count : Nat, paid : Nat]
       /\ \A d \in V : d \notin S => d.sum = Nothing
  BY <1>1, <1>6
<1>14. Sum(V) = Sum(B)
  BY <1>3, <1>4, <1>9, <1>10, <1>11, <1>12, <1>13, SameSums
<1> QED BY <1>8, <1>14

\* What a route makes of a query: its own key comes before the query's.
LEMMA MatchIs ==
  ASSUME NEW route, NEW uid, NEW query \in Queries, NEW doc
  PROVE  Matches(doc, Match(route, uid, query)) <=>
           /\ \A key \in AuthAsKey(route) : doc[key] = uid
           /\ \A key \in DOMAIN query.match \ AuthAsKey(route) : doc[key] = query.match[key]
<1> DEFINE auth == AuthAsKey(route)
           both == Match(route, uid, query)
<1>1. /\ DOMAIN both = auth \cup DOMAIN query.match
      /\ \A key \in auth : both[key] = uid
      /\ \A key \in DOMAIN query.match : key \notin auth => both[key] = query.match[key]
  BY DEF Match
<1> HIDE DEF both, auth
<1>2. Matches(doc, both) <=>
        /\ \A key \in auth : doc[key] = uid
        /\ \A key \in DOMAIN query.match \ auth : doc[key] = query.match[key]
  BY <1>1 DEF Matches
<1> QED BY <1>2 DEF both, auth

LEMMA QueryIs ==
  ASSUME NEW query \in Queries
  PROVE  /\ query.segmentBy \in {"none", "publisher"}
         /\ \/ query.match = <<>> /\ DOMAIN query.match = {}
            \/ DOMAIN query.match = {"publisher"}
         /\ query.match = <<>> /\ query.segmentBy = "none" <=>
              query = [segmentBy |-> "none", match |-> <<>>]
<1>1. /\ query.segmentBy \in {"none", "publisher"}
      /\ query.match \in {<<>>} \cup [{"publisher"} -> Publishers]
      /\ query = [segmentBy |-> query.segmentBy, match |-> query.match]
  BY DEF Queries
<1>2. DOMAIN <<>> = {}
  OBVIOUS
<1>3. query.match = <<>> \/ DOMAIN query.match = {"publisher"}
  BY <1>1
<1> QED BY <1>1, <1>2, <1>3

LEMMA WhatIsAsked ==
  ASSUME NEW query \in Queries
  PROVE  /\ AuthAsKey("/for-publisher") = {"publisher"}
         /\ AuthAsKey("/for-advertiser") = {"advertiser"}
         /\ AuthAsKey("/") = {}
         /\ ~IsDisallowed("/for-publisher", query)
         /\ ~IsDisallowed("/for-advertiser", query)
         /\ IsDisallowed("/", query) <=> query # [segmentBy |-> "none", match |-> <<>>]
BY QueryIs DEF AuthAsKey, IsDisallowed, RouteKeys, AllowedKeys

LEMMA V5ChannelIs ==
  ASSUME RequestsInv, NEW type, NEW d \in V5Docs(type)
  PROVE  d.campaignId \in Channels /\ d.advertiser = Creator[d.campaignId]
         /\ d.publisher \in PublisherKeys
<1>1. d.request \in DOMAIN served /\ d.publisher \in PublisherKeys
      /\ d = DocAt(d.request, d.publisher, type)
  BY V5DocsAre
<1>2. d.campaignId = served[d.request].body.channel
      /\ d.advertiser = Creator[served[d.request].body.channel]
  BY <1>1 DEF DocAt
<1> QED BY <1>1, <1>2, EventsOf, SystemAssumption

RoutesInv == AnalyticsInv /\ AcceptedInv

LEMMA InvAgrees ==
  ASSUME RoutesInv
  PROVE  RoutesAgree
<1> USE DEF RoutesInv, AnalyticsInv
<1> SUFFICES ASSUME Settled, NEW query \in Queries, NEW type \in Types
             PROVE  /\ \A uid \in PublisherKeys :
                         AnswerV5("/for-publisher", uid, query, type) = ForPublisher(uid, type)
                    /\ \A uid \in {Creator[c] : c \in Channels} :
                         query.match = <<>> =>
                           AnswerV5("/for-advertiser", uid, query, type)
                             = ForAdvertiser(uid, type)
                    /\ AnswerV5("/", "nobody", query, type) =
                         IF query = [segmentBy |-> "none", match |-> <<>>]
                         THEN ForAll(type) ELSE Refused
  BY DEF RoutesAgree
<1>1. ASSUME NEW uid \in PublisherKeys
      PROVE  AnswerV5("/for-publisher", uid, query, type) = ForPublisher(uid, type)
  <2> DEFINE V == {doc \in V5Docs(type) : Matches(doc, Match("/for-publisher", uid, query))}
  <2>1. \A d \in V5Docs(type) : d \in V <=> d.publisher = uid
    BY MatchIs, QueryIs, WhatIsAsked
  <2>2. AnswerV5("/for-publisher", uid, query, type) = Sum(V)
    BY WhatIsAsked DEF AnswerV5
  <2>3. toBalancesKey[uid] = uid
    BY AnalyticsAssumption DEF PublisherKeys
  <2>4. V \in SUBSET V5Docs(type)
    OBVIOUS
  <2> HIDE DEF V
  <2>5. \A d \in V5Docs(type) : d \in V <=> d.campaignId \in Channels /\ d.publisher \in {uid}
    BY <2>1, V5ChannelIs
  <2>6. {uid} \in SUBSET PublisherKeys
    OBVIOUS
  <2>7. Sum(V) = Answer(Channels, {uid}, type)
    BY <2>4, <2>5, <2>6, AnswersAgree
  <2> QED BY <2>2, <2>3, <2>7 DEF ForPublisher
<1>2. ASSUME NEW uid \in {Creator[c] : c \in Channels}, query.match = <<>>
      PROVE  AnswerV5("/for-advertiser", uid, query, type) = ForAdvertiser(uid, type)
  <2> DEFINE V == {doc \in V5Docs(type) : Matches(doc, Match("/for-advertiser", uid, query))}
             C == {c \in Channels : Creator[c] = uid}
  <2>1. \A d \in V5Docs(type) : d \in V <=> d.advertiser = uid
    <3>1. DOMAIN query.match = {}
      BY <1>2
    <3> QED BY <3>1, MatchIs, WhatIsAsked
  <2>2. AnswerV5("/for-advertiser", uid, query, type) = Sum(V)
    BY WhatIsAsked DEF AnswerV5
  <2>3. V \in SUBSET V5Docs(type) /\ \A c : c \in C <=> c \in Channels /\ Creator[c] = uid
    OBVIOUS
  <2>4. ForAdvertiser(uid, type) = Answer(C, PublisherKeys, type)
    BY DEF ForAdvertiser
  <2> HIDE DEF V, C
  <2>5. \A d \in V5Docs(type) : d \in V <=> d.campaignId \in C /\ d.publisher \in PublisherKeys
    BY <2>1, <2>3, V5ChannelIs
  <2>6. Sum(V) = Answer(C, PublisherKeys, type)
    BY <2>3, <2>5, AnswersAgree
  <2> QED BY <2>2, <2>4, <2>6
<1>3. ASSUME query = [segmentBy |-> "none", match |-> <<>>]
      PROVE  AnswerV5("/", "nobody", query, type) = ForAll(type)
  <2> DEFINE V == {doc \in V5Docs(type) : Matches(doc, Match("/", "nobody", query))}
  <2>1. \A d \in V5Docs(type) : d \in V
    <3>1. DOMAIN query.match = {}
      BY <1>3
    <3> QED BY <3>1, MatchIs, WhatIsAsked
  <2>2. AnswerV5("/", "nobody", query, type) = Sum(V)
    BY <1>3, WhatIsAsked DEF AnswerV5
  <2>3. V \in SUBSET V5Docs(type)
    OBVIOUS
  <2> HIDE DEF V
  <2>4. \A d \in V5Docs(type) :
          d \in V <=> d.campaignId \in Channels /\ d.publisher \in PublisherKeys
    BY <2>1, V5ChannelIs
  <2>5. Sum(V) = Answer(Channels, PublisherKeys, type)
    BY <2>3, <2>4, AnswersAgree
  <2> QED BY <2>2, <2>5 DEF ForAll
<1>4. ASSUME query # [segmentBy |-> "none", match |-> <<>>]
      PROVE  AnswerV5("/", "nobody", query, type) = Refused
  BY <1>4, WhatIsAsked DEF AnswerV5
<1> QED BY <1>1, <1>2, <1>3, <1>4

THEOREM RoutesInvariant == Spec => []RoutesInv
<1>1. Init => AcceptedInv
  BY DEF Init, AcceptedInv
<1>2. AnalyticsInv /\ AcceptedInv /\ [Next]_vars => AcceptedInv'
  BY AcceptedStep DEF AnalyticsInv
<1> QED BY <1>1, <1>2, AnalyticsInvariant, PTL DEF Spec, RoutesInv

\* When all is summed up, two collections that are written and added up in different
\* ways give the same answers, to whoever asks, whatever was sent and in
\* whatever order it was recorded and summed up.
THEOREM AnswersAreTheSame == Spec => []RoutesAgree
<1> QED BY RoutesInvariant, InvAgrees, PTL
=============================================================================
