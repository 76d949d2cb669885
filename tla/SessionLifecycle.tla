-------------------------- MODULE SessionLifecycle --------------------------
(***************************************************************************)
(* What a session promises, whoever drives it: its status only moves along *)
(* the machine of session.Status, nothing is collected for it before       *)
(* compliance approves, it is not paid out before a deposit is confirmed   *)
(* and a settlement queued, and it is not settled before a payout          *)
(* succeeded.  Session and Settlement each implement it.                   *)
(***************************************************************************)
VARIABLES
  status,     \* sessions.status, "none" before the row exists
  approved,   \* the compliance case is approved
  confirmed,  \* some deposit is recorded as confirmed
  job,        \* the settlements row exists
  paid        \* a payout attempt is recorded as succeeded

vars == <<status, approved, confirmed, job, paid>>
facts == <<approved, confirmed, job, paid>>

Init == /\ status = "none"
        /\ approved = FALSE /\ confirmed = FALSE /\ job = FALSE /\ paid = FALSE

\* The facts a session waits for; each is established once and for all.
Approve == /\ status \in {"screening", "compliance_hold", "expired"}
           /\ approved' = TRUE
           /\ UNCHANGED <<status, confirmed, job, paid>>
Confirm == /\ approved
           /\ confirmed' = TRUE
           /\ UNCHANGED <<status, approved, job, paid>>
Queue == /\ status = "deposit_confirmed"
         /\ job' = TRUE
         /\ UNCHANGED <<status, approved, confirmed, paid>>
Pay == /\ job
       /\ paid' = TRUE
       /\ UNCHANGED <<status, approved, confirmed, job>>

\* One compare-and-set of the status column.
Move(froms, to) == status \in froms /\ status' = to /\ UNCHANGED facts

Screen == Move({"none"}, "screening")
Hold == Move({"screening"}, "compliance_hold")
Reject == ~approved /\ Move({"screening", "compliance_hold"}, "rejected")
Collect == approved /\ Move({"screening", "compliance_hold"}, "pending")
Expire == ~job /\ Move({"screening", "compliance_hold", "pending"}, "expired")
DetectDeposit == Move({"pending"}, "deposit_detected")
ConfirmDeposit == confirmed /\ Move({"pending", "deposit_detected"}, "deposit_confirmed")
StartSettling == job /\ Move({"deposit_confirmed", "settlement_failed"}, "settling")
Settle == paid /\ Move({"settling"}, "settled")
Fail == Move({"settling"}, "settlement_failed")
Reverse == paid /\ Move({"settled"}, "reversed")
ResolveReversal == Move({"reversed"}, "reversal_resolved")

Next ==
  \/ Approve \/ Confirm \/ Queue \/ Pay
  \/ Screen \/ Hold \/ Reject \/ Collect \/ Expire
  \/ DetectDeposit \/ ConfirmDeposit
  \/ StartSettling \/ Settle \/ Fail \/ Reverse \/ ResolveReversal

Spec == Init /\ [][Next]_vars

\* A session handed over at deposit_confirmed: where Settlement starts.
HandedOver == /\ status = "deposit_confirmed"
              /\ approved = TRUE /\ confirmed = TRUE
              /\ job = FALSE /\ paid = FALSE
SpecFromHandOver == HandedOver /\ [][Next]_vars
=============================================================================
