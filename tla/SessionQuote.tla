---------------------------- MODULE SessionQuote ----------------------------
(***************************************************************************)
(* Where the creation of sessions (TravelRule) meets the rate engine       *)
(* (Rate): a session is created while its corridor is active, and becomes  *)
(* pending at the rate LockRate finds, which may be a hold's length later. *)
(***************************************************************************)
EXTENDS TravelRule, Rate

vars == <<ruleVars, rateVars>>

QuoteInit == Init /\ RateInit

\* GetCorridor finds active corridors only.
CreateSession(s) == active /\ InsertSession(s) /\ UNCHANGED rateVars

Screen(s) ==
  /\ TravelRuleThresholdExceeded(s) \/ Hold(s) \/ Reject(s) \/ Approve(s)
  /\ UNCHANGED rateVars

\* transitionToPending: the rate, then the compare-and-set.  A hold's corridor
\* is looked up by id, active or not.
LockAndOpen(s) == LockRate /\ TransitionToPending(s)

Lapse(s) == (Expire(s) \/ LeaveWindow(s)) /\ UNCHANGED rateVars

Next ==
  \/ \E s \in Sessions : CreateSession(s) \/ Screen(s) \/ LockAndOpen(s) \/ Lapse(s)
  \/ RateNext /\ UNCHANGED ruleVars

Spec == QuoteInit /\ [][Next]_vars

-----------------------------------------------------------------------------
\* A session is opened at a provider's quote only while that quote, now, is
\* younger than maxStaleAge and one interval of the job, as long as no run of
\* the job was lost: a provider that went silent stops pricing sessions, though
\* LockRate itself never looks at an age.
LockedQuoteIsRecent ==
  [][\A s \in Sessions :
       LockAndOpen(s) /\ ~lapsed /\ current.provider \in Cached
         => current.age <= MaxStaleAge + Interval]_vars

=============================================================================
