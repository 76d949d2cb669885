----------------------------- MODULE TravelRule -----------------------------
(***************************************************************************)
(* The travel-rule check of compliance.ScreenSession on the sessions one   *)
(* tenant creates concurrently: the session row is inserted first, then    *)
(* the tenant's volume in the rolling window is summed, then the session   *)
(* is held, refused or goes on.  Session models the rest of its life, and  *)
(* SessionQuote adds what an approval takes to make it pending.            *)
(***************************************************************************)
EXTENDS Integers, FiniteSetsExt

CONSTANTS
  Sessions,
  Amount,     \* fiat_amount of each session
  Threshold   \* the corridors' travel_rule_threshold_fiat

ASSUME TravelRuleAssumption ==
  /\ Amount \in [Sessions -> Nat \ {0}]
  /\ Threshold \in Nat

VARIABLES
  status,   \* sessions.status, or "none" before the row is inserted
  recent,   \* the sessions created within travel_rule_window
  check,    \* what the check found: "none" yet, "hit" or "clear"
  decision  \* of an approval under way: "approved", otherwise "none"

ruleVars == <<status, recent, check, decision>>

Init ==
  /\ status = [s \in Sessions |-> "none"]
  /\ recent = {}
  /\ check = [s \in Sessions |-> "none"]
  /\ decision = [s \in Sessions |-> "none"]

MoveTo(s, to) == status' = [status EXCEPT ![s] = to]

\* CreateSession inserts the row before it calls ScreenSession.
InsertSession(s) ==
  /\ status[s] = "none"
  /\ MoveTo(s, "screening")
  /\ recent' = recent \cup {s}
  /\ UNCHANGED <<check, decision>>

Counted_Pending == {s \in recent : status[s] = "pending"}
Counted == {s \in recent : status[s] # "rejected"}

SumOfAmounts(S) == MapThenSumSet(LAMBDA s : Amount[s], S)

Exceeds_Strictly(volume) == volume > Threshold
Exceeds(volume) == volume >= Threshold

\* The session's own row is one of those counted; its amount is added again.
TravelRuleThresholdExceeded(s) ==
  /\ status[s] = "screening" /\ check[s] = "none"
  /\ check' = [check EXCEPT ![s] =
       IF Exceeds(SumOfAmounts(Counted) + Amount[s]) THEN "hit" ELSE "clear"]
  /\ UNCHANGED <<status, recent, decision>>

Undecided(s) ==
  \/ status[s] = "screening" /\ check[s] # "none"
  \/ status[s] = "compliance_hold"

\* A hit forces a hold whatever the provider would decide; with no provider
\* the session is held too.
Hold(s) ==
  /\ status[s] = "screening" /\ Undecided(s) /\ decision[s] = "none"
  /\ MoveTo(s, "compliance_hold")
  /\ UNCHANGED <<recent, check, decision>>

MayDecide(s) ==
  /\ Undecided(s) /\ decision[s] = "none"
  /\ status[s] = "screening" => check[s] = "clear"

\* The provider, or the admin who resolves the hold.
Reject(s) ==
  /\ MayDecide(s)
  /\ MoveTo(s, "rejected")
  /\ UNCHANGED <<recent, check, decision>>

\* The case is approved first.  If what follows fails the session stays where
\* it is: an approved case is not resolved again.
Approve(s) ==
  /\ MayDecide(s)
  /\ decision' = [decision EXCEPT ![s] = "approved"]
  /\ UNCHANGED <<status, recent, check>>

TransitionToPending(s) ==
  /\ decision[s] = "approved"
  /\ Undecided(s)
  /\ MoveTo(s, "pending")
  /\ UNCHANGED <<recent, check, decision>>

\* The TTL job, which also ends a session whose creation was cut short.
Expire(s) ==
  /\ status[s] \in {"screening", "compliance_hold", "pending"}
  /\ MoveTo(s, "expired")
  /\ UNCHANGED <<recent, check, decision>>

LeaveWindow(s) ==
  /\ s \in recent
  /\ check[s] # "none" \/ status[s] = "expired"
  /\ recent' = recent \ {s}
  /\ UNCHANGED <<status, check, decision>>

-----------------------------------------------------------------------------
\* The volume a tenant moves through sessions the check let go on stays below
\* the threshold, however it splits them and however their creations overlap
\* (compliance.travelRuleThresholdExceeded).
ClearedVolumeBelowThreshold ==
  LET cleared == {s \in recent : check[s] = "clear" /\ status[s] # "rejected"}
  IN cleared # {} => SumOfAmounts(cleared) < Threshold

=============================================================================
