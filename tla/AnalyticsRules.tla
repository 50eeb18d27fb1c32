----------------------------- MODULE AnalyticsRules -------------------------
(***************************************************************************)
(* What one request of events leaves in the statistics: the payouts that    *)
(* are counted in the event aggregate, and what the analytics recorder      *)
(* notes of them; and what the two analytics routes answer a publisher.     *)
(*                                                                         *)
(* An event is [type, publisher, shown, price]: shown and price stand for   *)
(* what the targeting rules make of it.  Publishers are kept under their    *)
(* balances key, the address in lower case.                                 *)
(***************************************************************************)
EXTENDS Integers, SequencesExt, FiniteSetsExt, TLC

CONSTANTS
  toBalancesKey,  \* publisher, as it is sent or logged in |-> its key
  NoPublisher,
  Malformed       \* the key of what toBalancesKey throws for

Types == {"IMPRESSION", "CLICK"}
Publishers == DOMAIN toBalancesKey
PublisherKeys == {toBalancesKey[p] : p \in Publishers} \ {Malformed}

Events ==
  [type : STRING, publisher : Publishers \cup {NoPublisher}, shown : BOOLEAN, price : Nat]

ASSUME AnalyticsAssumption ==
  /\ IsFiniteSet(Publishers)
  /\ NoPublisher \notin Publishers
  /\ \A p \in Publishers :
       toBalancesKey[p] # Malformed =>
         toBalancesKey[p] \in Publishers /\ toBalancesKey[toBalancesKey[p]] = toBalancesKey[p]

NoPayout == [publisher |-> NoPublisher, paid |-> 0]

Payable(ev) == ev.publisher # NoPublisher /\ ev.type \in Types

getPayout(ev) ==
  IF Payable(ev) /\ toBalancesKey[ev.publisher] # Malformed /\ ev.shown
  THEN [publisher |-> toBalancesKey[ev.publisher], paid |-> ev.price]
  ELSE NoPayout

-----------------------------------------------------------------------------
(* The recorder.  It drops the events that cannot be paid, and then takes    *)
(* for the i-th event that is left the payout of the i-th that was sent.     *)

Kept(events) ==
  LET kept[n \in 0..Len(events)] ==
        IF n = 0 THEN <<>>
        ELSE IF Payable(events[n]) THEN Append(kept[n - 1], events[n])
        ELSE kept[n - 1]
  IN  kept[Len(events)]

\* It throws when it comes to a publisher that has no key: events before that
\* one are noted (by analyticsRecorderV5, which writes as it goes).
IsBroken(ev) == toBalancesKey[ev.publisher] = Malformed
Throws(events) == \E i \in DOMAIN Kept(events) : IsBroken(Kept(events)[i])

\* Wrong: an event without a payout counts too.
NotesOfAll(events) ==
  LET kept == Kept(events)
  IN  {i \in DOMAIN kept : \A j \in 1..i : ~IsBroken(kept[j])}

Notes(events) ==
  LET kept == Kept(events)
  IN  {i \in DOMAIN kept : getPayout(events[i]) # NoPayout
                           /\ \A j \in 1..i : ~IsBroken(kept[j])}

SumOver(f) == FoldFunction(+, 0, f)

\* What is noted, per type and publisher key: how many events, paying how much.
Noted(events, type, publisher) ==
  LET kept == Kept(events)
      is == {i \in Notes(events) :
               kept[i].type = type /\ toBalancesKey[kept[i].publisher] = publisher}
  IN  [count |-> Cardinality(is),
       paid |-> SumOver([i \in is |-> getPayout(events[i]).paid])]

\* What the event aggregate counts of the same events.
Counted(events, type, publisher) ==
  LET is == {i \in DOMAIN events :
               events[i].type = type /\ getPayout(events[i]).publisher = publisher}
  IN  [count |-> Cardinality(is),
       paid |-> SumOver([i \in is |-> getPayout(events[i]).paid])]

\* Do the places of the events that are kept agree with those that were sent?
Aligned(events) == IsPrefix(Kept(events), events) /\ ~Throws(events)

-----------------------------------------------------------------------------
(* /v5/analytics.  A document has the keys publisher, advertiser, campaignId *)
(* and country, the only ones told apart here; a query names a key to        *)
(* segment by, or "none", and for some keys the value to match.              *)

AllowedKeys == {"campaignId", "advertiser", "publisher", "country"}

RouteKeys(route) == IF route = "/" THEN {"country"} ELSE AllowedKeys

AuthAsKey(route) ==
  CASE route = "/for-publisher" -> {"publisher"}
    [] route = "/for-advertiser" -> {"advertiser"}
    [] OTHER -> {}

\* The routes / (without a session) and /for-admin (with an admin's) match what
\* the query says; for the other two the session has the last word.
IsDisallowed(route, query) ==
  query.segmentBy \notin RouteKeys(route) \cup {"none"}
  \/ ~(DOMAIN query.match \subseteq RouteKeys(route))

\* Wrong: the query has the last word.
MatchByQuery(route, uid, query) ==
  [key \in AuthAsKey(route) \cup DOMAIN query.match |->
     IF key \in DOMAIN query.match THEN query.match[key] ELSE uid]

Match(route, uid, query) ==
  [key \in AuthAsKey(route) \cup DOMAIN query.match |->
     IF key \in AuthAsKey(route) THEN uid ELSE query.match[key]]

Matches(doc, match) == \A key \in DOMAIN match : doc[key] = match[key]
=============================================================================
