--------------------------- MODULE MCEventRecorder --------------------------
(* EventRecorder with a few requests and the default access rules.          *)
EXTENDS EventRecorder, TLC

CONSTANTS creator, visitor

MCCreatorUids == {creator}

\* eventSubmission is not set: the creator may do anything, others are limited.
MCRules ==
  { [uids |-> {creator}, evTypes |-> EventTypes, rateLimit |-> "none"],
    [uids |-> {creator, visitor, NoUid}, evTypes |-> EventTypes, rateLimit |-> "ip"] }

MCTargetingRules == {"showAll", "hideAll", "showToo"}
MCShows(rules, ev) == rules # "hideAll"

Impression == [type |-> "IMPRESSION", publisher |-> TRUE, targetingRules |-> "showAll"]
Close == [type |-> "CLOSE", publisher |-> FALSE, targetingRules |-> "showAll"]
HideAll == [type |-> "UPDATE_TARGETING", publisher |-> FALSE, targetingRules |-> "hideAll"]
ShowToo == [HideAll EXCEPT !.targetingRules = "showToo"]

By(uid, events) == [uid |-> uid, ip |-> "ip", restricted |-> FALSE, events |-> events]

\* Two visitors at one address, a visitor that sends what is the creator's to send
\* (its rules are not the creator's), and what a creator sends.
MCBody(r) ==
  CASE r = "view" -> By(NoUid, <<Impression>>)
    [] r = "view2" -> By(visitor, <<Impression>>)
    [] r = "close" -> By(visitor, <<Close>>)
    [] r = "hijack" -> By(visitor, <<ShowToo>>)
    [] r = "retarget" -> By(creator, <<HideAll>>)
    [] r = "batch" -> By(creator, <<Impression, Close>>)

Symmetry == Permutations(Processes)
=============================================================================
