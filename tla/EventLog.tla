------------------------------ MODULE EventLog -----------------------------
(***************************************************************************)
(* What Outpace takes the event recorder of a Sentry for: aggregates are    *)
(* appended to a log, and the validator worker counts a longer and longer   *)
(* prefix of it.  EventRecorder implements this log as long as one process  *)
(* records, see EventRecorder!FollowsTheLog.                                *)
(***************************************************************************)
EXTENDS Naturals, Sequences

CONSTANT Aggregates

VARIABLES
  log,      \* the aggregates, oldest first
  counted   \* the positions of those that were counted

Init == log = <<>> /\ counted = {}

Persist(aggr) ==
  /\ log' = Append(log, aggr)
  /\ UNCHANGED counted

Count(last) ==
  /\ counted' = 1..last
  /\ counted \subseteq 1..last
  /\ UNCHANGED log

Next ==
  \/ \E aggr \in Aggregates : Persist(aggr)
  \/ \E last \in 1..Len(log) : Count(last)

Spec == Init /\ [][Next]_<<log, counted>>
=============================================================================
