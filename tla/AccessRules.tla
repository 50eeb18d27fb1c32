----------------------------- MODULE AccessRules ----------------------------
(***************************************************************************)
(* Who may post which events: checkAccess up to its first request to Redis. *)
(* What is left to ask Redis is the set LimitKeys.                          *)
(***************************************************************************)
EXTENDS Naturals, Sequences, Functions

CONSTANTS
  CreatorUids,   \* the spellings of the creator's uid that sessions use
  NoUid,         \* the uid of a session without authentication
  Rules          \* eventSubmission.allow, or the default rules

\* The channel's life: before withdrawPeriodStart, from then on, past validUntil.
Phases == {"running", "withdraw", "expired"}

EventTypes == {"IMPRESSION", "CLICK", "CLOSE", "UPDATE_TARGETING"}
CreatorsTypes == {"CLOSE", "UPDATE_TARGETING"}

Types(body) == {ev.type : ev \in Range(body.events)}

IsCreator(body) == body.uid \in CreatorUids

\* A rule without uids or evTypes is one with all of them.
Applicable(body) ==
  {rule \in Rules : body.uid \in rule.uids /\ rule.evTypes \cap Types(body) # {}}

PrivilegedAnyone(body, phase) ==
  \/ Types(body) \subseteq {"CLOSE"}
  \/ IsCreator(body) /\ Types(body) \subseteq {"UPDATE_TARGETING"}

PrivilegedToRetarget(body, phase) ==
  \/ Types(body) \subseteq {"CLOSE"} /\ (IsCreator(body) \/ phase = "withdraw")
  \/ Types(body) \subseteq {"UPDATE_TARGETING"}

\* Requests that no rule can refuse: only CLOSE, only UPDATE_TARGETING.
Privileged(body, phase) ==
  \/ Types(body) \subseteq {"CLOSE"} /\ (IsCreator(body) \/ phase = "withdraw")
  \/ Types(body) \subseteq {"UPDATE_TARGETING"} /\ IsCreator(body)

\* Requests that are refused before the rules are consulted.
Barred(body, phase) ==
  \/ ~IsCreator(body) /\ Types(body) \cap CreatorsTypes # {}
  \/ phase = "withdraw"
  \/ body.restricted          \* by country or referrer

\* A rule without a rateLimit overrides all others; where no rule applies,
\* nothing limits the request either.
Unlimited(body) == \E rule \in Applicable(body) : rule.rateLimit = "none"

Access(body, phase) ==
  IF phase = "expired" THEN "refuse"
  ELSE IF Privileged(body, phase) THEN "admit"
  ELSE IF Barred(body, phase) THEN "refuse"
  ELSE IF Unlimited(body) THEN "admit" ELSE "limit"

\* Rules that fail a request whatever Redis knows.
FailsAtOnce(body, rule) ==
  Len(body.events) # 1 \/ (rule.rateLimit = "uid" /\ body.uid = NoUid)

\* A rateLimit of another type than these two limits nothing.
LimitKeys(body) ==
  {IF rule.rateLimit = "uid" THEN <<body.uid>> ELSE <<body.events[1].type, body.ip>> :
     rule \in {r \in Applicable(body) :
                 r.rateLimit \in {"uid", "ip"} /\ ~FailsAtOnce(body, r)}}

LimitError(body) == \E rule \in Applicable(body) : FailsAtOnce(body, rule)
=============================================================================
