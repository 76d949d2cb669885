------------------------------ MODULE Session ------------------------------
(***************************************************************************)
(* One session from its creation to the queueing of its payout             *)
(* (internal/session, with the compliance case it waits for, the deposits  *)
(* internal/treasury records, and the outbox events between them).         *)
(*                                                                         *)
(* Running concurrently: the request that creates the session, admins who  *)
(* resolve its compliance hold, the TTL job, the deposit webhook and       *)
(* watcher, and the event dispatcher.  One action is one database          *)
(* transaction; a request that makes several is a chain of actions, pc[p]  *)
(* naming the next.  The settlement module appears as the transitions it   *)
(* asks of the session (Settlement models it in full).                     *)
(***************************************************************************)
EXTENDS Integers, FiniteSetsExt

CONSTANTS
  Creator,   \* the goroutine serving CreateSession
  Admins,    \* goroutines serving ResolveComplianceHold
  Writers,   \* goroutines recording deposits: webhooks and the watcher
  Txs,       \* transfers the depositor may make to the session's address
  MaxStamp,  \* bound: created_at of the events of overlapping transactions
  MaxFaults  \* bound: requests or transactions cut short

Clients == {Creator} \cup Admins

ASSUME SessionAssumption == Creator \notin Admins /\ MaxStamp \in Nat \ {0} /\ MaxFaults \in Nat

VARIABLES
  sess,      \* the sessions row
  case,      \* its compliance case
  addresses, \* reserved rows in treasury_address_reservations made for it
  deposit,   \* treasury_deposits rows, by transfer
  chain,     \* what the chain or the custodian shows of each transfer
  outbox,    \* undispatched events, each with its created_at
  settlement,\* the settlements row: whether it exists and has been paid
  clock,     \* which deadlines have passed
  pc,        \* the next transaction of each request
  writer,    \* the open deposit transaction of each writer
  sweep,     \* the next statement of the TTL job's sweep
  faults     \* bounded by MaxFaults

vars == <<sess, case, addresses, deposit, chain, outbox, settlement, clock, pc,
          writer, sweep, faults>>

Statuses == {"none", "screening", "compliance_hold", "rejected", "pending", "expired",
             "deposit_detected", "deposit_confirmed", "settling", "settled",
             "settlement_failed", "reversed", "reversal_resolved"}
Recorded == {"none", "detected", "confirmed"}
Idle == [tx |-> "", kind |-> "", stamp |-> 0]

TypeOK ==
  /\ sess \in [status : Statuses, case : BOOLEAN, reservation : BOOLEAN,
               breached : BOOLEAN]
  /\ case \in {"none", "hold", "approved", "rejected"}
  /\ addresses \in 0..Cardinality(Clients)
  /\ deposit \in [Txs -> Recorded]
  /\ chain \in [Txs -> {"none", "seen", "final"}]
  /\ \A e \in outbox : /\ e.type \in {"detected", "confirmed", "session_confirmed"}
                       /\ e.stamp \in Nat \ {0}
  /\ \A d, e \in outbox : d.stamp = e.stamp => d = e
  /\ settlement \in [job : BOOLEAN, paid : BOOLEAN]
  /\ clock \in [aged : BOOLEAN, quote : BOOLEAN, hold : BOOLEAN]
  /\ pc \in [Clients -> {"idle", "screen", "hold", "reject", "reserve", "pending", "resolve"}]
  /\ \A w \in Writers : writer[w] = Idle \/ writer[w].tx \in Txs
  /\ sweep \in {"expire", "holds", "breaches"}
  /\ faults \in 0..MaxFaults

Init ==
  /\ sess = [status |-> "none", case |-> FALSE, reservation |-> FALSE,
             breached |-> FALSE]
  /\ case = "none"
  /\ addresses = 0
  /\ deposit = [t \in Txs |-> "none"]
  /\ chain = [t \in Txs |-> "none"]
  /\ outbox = {}
  /\ settlement = [job |-> FALSE, paid |-> FALSE]
  /\ clock = [aged |-> FALSE, quote |-> FALSE, hold |-> FALSE]
  /\ pc = [p \in Clients |-> "idle"]
  /\ writer = [w \in Writers |-> Idle]
  /\ sweep = "expire"
  /\ faults = 0

-----------------------------------------------------------------------------
Goto(p, l) == pc' = [pc EXCEPT ![p] = l]

\* created_at of an event is the start of the transaction that publishes it.
Stamps == {e.stamp : e \in outbox} \cup {writer[w].stamp : w \in Writers}
Now == 1 + Max(Stamps \cup {0})

\* The compare-and-set of every transition of the session.
CAS_Blind(from, to) == [sess EXCEPT !.status = to]
CAS(from, to) ==
  IF sess.status = from THEN [sess EXCEPT !.status = to] ELSE sess

\* The status a request expects: screening for CreateSession, compliance_hold
\* for ResolveComplianceHold.
From(p) == IF p = Creator THEN "screening" ELSE "compliance_hold"

\* What a request's transactions leave alone.
aside == <<deposit, chain, outbox, settlement, clock, writer, sweep, faults>>

-----------------------------------------------------------------------------
(* CreateSession and ResolveComplianceHold. *)

InsertSession ==
  /\ sess.status = "none"
  /\ sess' = [sess EXCEPT !.status = "screening"]
  /\ Goto(Creator, "screen")
  /\ UNCHANGED <<case, addresses, aside>>

\* The decision is the vendor's, or a hold when no vendor is bound or the
\* travel rule forces one.
ScreenSession ==
  /\ pc[Creator] = "screen"
  /\ \E decision \in {"hold", "approved", "rejected"} :
       /\ case' = decision
       /\ Goto(Creator, CASE decision = "hold" -> "hold"
                          [] decision = "approved" -> "reserve"
                          [] decision = "rejected" -> "reject")
  /\ UNCHANGED <<sess, addresses, aside>>

TransitionToHold ==
  /\ pc[Creator] = "hold"
  /\ sess' = IF sess.status = "screening"
             THEN [sess EXCEPT !.status = "compliance_hold", !.case = TRUE] ELSE sess
  /\ Goto(Creator, "idle")
  /\ UNCHANGED <<case, addresses, aside>>

TransitionToRejected(p) ==
  /\ pc[p] = "reject"
  /\ sess' = CAS(From(p), "rejected")
  /\ Goto(p, "idle")
  /\ UNCHANGED <<case, addresses, aside>>

\* GetDepositInstructions commits the reservation before the session is moved.
ReserveAddress(p) ==
  /\ pc[p] = "reserve"
  /\ addresses' = addresses + 1
  /\ Goto(p, "pending")
  /\ UNCHANGED <<sess, case, aside>>

\* session.created is published too; only notification consumes it.
TransitionToPending(p) ==
  /\ pc[p] = "pending"
  /\ sess' = IF sess.status = From(p)
             THEN [sess EXCEPT !.status = "pending", !.reservation = TRUE] ELSE sess
  /\ Goto(p, "idle")
  /\ UNCHANGED <<case, addresses, aside>>

StartResolve(p) ==
  /\ pc[p] = "idle"
  /\ sess.status = "compliance_hold" /\ sess.case
  /\ Goto(p, "resolve")
  /\ UNCHANGED <<sess, case, addresses, aside>>

Resolvable_Any == case # "none"
Resolvable == case = "hold"

ResolveHold(p) ==
  /\ pc[p] = "resolve"
  /\ IF Resolvable
     THEN \E verdict \in {"approved", "rejected"} :
            /\ case' = verdict
            /\ Goto(p, IF verdict = "approved" THEN "reserve" ELSE "reject")
     ELSE UNCHANGED case /\ Goto(p, "idle")
  /\ UNCHANGED <<sess, addresses, aside>>

-----------------------------------------------------------------------------
(* The TTL job: three statements per sweep. *)

Swept(next) == sweep' = next /\ UNCHANGED <<case, addresses, deposit, chain, outbox,
                                            settlement, clock, pc, writer, faults>>

\* The 30 minutes since creation, or the quote's own expiry if it is earlier.
Stale == clock.aged \/ (sess.reservation /\ clock.quote)

Expirable_Detected == {"screening", "pending", "deposit_detected"}
Expirable == {"screening", "pending"}

ExpirePreDeposit ==
  /\ sweep = "expire"
  /\ sess' = IF sess.status \in Expirable /\ Stale
             THEN [sess EXCEPT !.status = "expired"] ELSE sess
  /\ Swept("holds")

HoldTimedOut_OpenCase == clock.hold /\ case = "hold"
HoldTimedOut == clock.hold

\* The case itself stays as it is.
ExpireTimedOutHolds ==
  /\ sweep = "holds"
  /\ sess' = IF sess.status = "compliance_hold" /\ sess.case /\ HoldTimedOut
             THEN [sess EXCEPT !.status = "expired"] ELSE sess
  /\ Swept("breaches")

Unbreachable_Failed == {"none", "settled", "expired", "rejected", "settlement_failed"}
Unbreachable == {"none", "settled", "expired", "rejected"}

MarkSLABreaches ==
  /\ sweep = "breaches"
  /\ sess' = IF sess.status \notin Unbreachable /\ clock.aged
             THEN [sess EXCEPT !.breached = TRUE] ELSE sess
  /\ Swept("expire")

-----------------------------------------------------------------------------
(* Deposits: recordDepositTransition, run by webhooks and by the watcher.  *)
(* Its insert waits for a concurrent one of the same row, so everything    *)
(* but created_at takes effect at the commit.                              *)

\* HandleDepositWebhook and pollOnce: what may be reported of a transfer.  A
\* "detected" report can be late or come again; a "confirmed" one, of a transfer
\* whose "detected" may never have come, needs funds received; an event of any
\* other kind, or one that does not fit the reservation, changes nothing.
Reportable(t) ==
  CASE chain[t] = "none" -> {}
    [] chain[t] = "seen" -> {"detected"}
    [] chain[t] = "final" -> {"detected", "confirmed"}

BeginRecord(w) ==
  /\ writer[w] = Idle
  /\ Now <= MaxStamp
  /\ \E t \in Txs : \E kind \in Reportable(t) :
        writer' = [writer EXCEPT ![w] = [tx |-> t, kind |-> kind, stamp |-> Now]]
  /\ UNCHANGED <<sess, case, addresses, deposit, chain, outbox, settlement, clock,
                 pc, sweep, faults>>

\* Whether recording kind changes the row: inserted, or confirmed by it.
Transitions_OnlyInserts(t, kind) == deposit[t] = "none"
Transitions(t, kind) ==
  \/ deposit[t] = "none"
  \/ deposit[t] = "detected" /\ kind = "confirmed"

CommitRecord(w) ==
  LET r == writer[w]
  IN /\ r # Idle
     /\ IF Transitions(r.tx, r.kind)
        THEN /\ deposit' = [deposit EXCEPT ![r.tx] = r.kind]
             /\ outbox' = outbox \cup {[type |-> r.kind, tx |-> r.tx, stamp |-> r.stamp]}
        ELSE UNCHANGED <<deposit, outbox>>
     /\ writer' = [writer EXCEPT ![w] = Idle]
     /\ UNCHANGED <<sess, case, addresses, chain, settlement, clock, pc, sweep, faults>>

-----------------------------------------------------------------------------
(* The event dispatcher: one event per transaction, oldest first.          *)

Oldest(type) == {e \in outbox : e.type = type /\ \A f \in outbox : e.stamp <= f.stamp}

\* transitionByReservation.
Expected_NoSkip(to) == IF to = "deposit_detected" THEN {"pending"} ELSE {"deposit_detected"}
Expected(to) ==
  IF to = "deposit_detected" THEN {"pending"} ELSE {"deposit_detected", "pending"}

TransitionByReservation(to) ==
  IF sess.reservation /\ sess.status \in Expected(to)
  THEN sess' = [sess EXCEPT !.status = to]
  ELSE UNCHANGED sess

Dispatched == UNCHANGED <<case, addresses, deposit, chain, clock, pc, writer, sweep, faults>>

HandleDepositDetected ==
  /\ \E e \in Oldest("detected") : outbox' = outbox \ {e}
  /\ TransitionByReservation("deposit_detected")
  /\ UNCHANGED settlement
  /\ Dispatched

HandleDepositConfirmed ==
  /\ \E e \in Oldest("confirmed") :
       outbox' = (outbox \ {e})
                   \cup IF sess.reservation /\ sess.status \in Expected("deposit_confirmed")
                        THEN {[type |-> "session_confirmed", tx |-> e.tx, stamp |-> Now]}
                        ELSE {}
  /\ TransitionByReservation("deposit_confirmed")
  /\ UNCHANGED settlement
  /\ Dispatched

\* internal/settlement: ON CONFLICT (session_id) DO NOTHING.
HandleSessionConfirmed ==
  /\ \E e \in Oldest("session_confirmed") : outbox' = outbox \ {e}
  /\ settlement' = [settlement EXCEPT !.job = TRUE]
  /\ UNCHANGED sess
  /\ Dispatched

Dispatch == HandleDepositDetected \/ HandleDepositConfirmed \/ HandleSessionConfirmed

-----------------------------------------------------------------------------
(* The settlement module, as the session sees it.                          *)

settling == <<case, deposit, chain, outbox, clock, pc, writer, sweep, faults>>
Asks(from, to) == /\ settlement.job
                  /\ sess.status = from
                  /\ sess' = CAS(from, to)
                  /\ UNCHANGED <<addresses, settlement, settling>>

TransitionToSettling == Asks("deposit_confirmed", "settling")
RetryToSettling == Asks("settlement_failed", "settling")
TransitionToSettlementFailed == ~settlement.paid /\ Asks("settling", "settlement_failed")
TransitionToReversed == Asks("settled", "reversed")
TransitionToReversalResolved == Asks("reversed", "reversal_resolved")

PayoutSucceeds ==
  /\ sess.status = "settling"
  /\ settlement.job
  /\ settlement' = [settlement EXCEPT !.paid = TRUE]
  /\ UNCHANGED <<sess, addresses, settling>>

TransitionToSettled ==
  /\ settlement.paid
  /\ sess.status = "settling"
  /\ sess' = CAS("settling", "settled")
  /\ UNCHANGED <<addresses, settlement, settling>>

\* Both callers: completeSessionSettlement and failSettlement.
ReleaseReservation ==
  /\ sess.status \in {"settled", "settlement_failed"}
  /\ addresses > 0
  /\ addresses' = addresses - 1
  /\ UNCHANGED <<sess, settlement, settling>>

-----------------------------------------------------------------------------
(* Time, the depositor and failures.                                       *)

Passes(deadline) ==
  /\ clock' = [clock EXCEPT ![deadline] = TRUE]
  /\ UNCHANGED <<sess, case, addresses, deposit, chain, outbox, settlement, pc,
                 writer, sweep, faults>>

\* SessionTTL: CreateSession itself takes far less.
HalfHourPasses == sess.status # "none" /\ pc[Creator] = "idle" /\ Passes("aged")
QuoteExpires == sess.reservation /\ Passes("quote")
HoldTimeoutPasses == sess.case /\ Passes("hold")

\* The depositor knows the address once the session is pending.
Shows(t, from, to) ==
  /\ sess.reservation
  /\ chain[t] = from
  /\ chain' = [chain EXCEPT ![t] = to]
  /\ UNCHANGED <<sess, case, addresses, deposit, outbox, settlement, clock, pc,
                 writer, sweep, faults>>

TransferSeen(t) == Shows(t, "none", "seen")
TransferFinal(t) == Shows(t, "seen", "final")

Faulty == faults < MaxFaults /\ faults' = faults + 1

\* A crash, a cancelled request, a failed rate lock: the rest never runs.
Interrupted(p) ==
  /\ pc[p] # "idle"
  /\ Faulty
  /\ Goto(p, "idle")
  /\ UNCHANGED <<sess, case, addresses, deposit, chain, outbox, settlement, clock,
                 writer, sweep>>

RollbackRecord(w) ==
  /\ writer[w] # Idle
  /\ Faulty
  /\ writer' = [writer EXCEPT ![w] = Idle]
  /\ UNCHANGED <<sess, case, addresses, deposit, chain, outbox, settlement, clock,
                 pc, sweep>>

-----------------------------------------------------------------------------
Request(p) ==
  \/ p = Creator /\ (InsertSession \/ ScreenSession \/ TransitionToHold)
  \/ p \in Admins /\ (StartResolve(p) \/ ResolveHold(p))
  \/ TransitionToRejected(p) \/ ReserveAddress(p) \/ TransitionToPending(p)

Sweep == ExpirePreDeposit \/ ExpireTimedOutHolds \/ MarkSLABreaches

SettlementModule ==
  \/ TransitionToSettling \/ RetryToSettling \/ TransitionToSettlementFailed
  \/ TransitionToReversed \/ TransitionToReversalResolved
  \/ PayoutSucceeds \/ TransitionToSettled \/ ReleaseReservation

Time == HalfHourPasses \/ QuoteExpires \/ HoldTimeoutPasses

Next ==
  \/ \E p \in Clients : Request(p) \/ Interrupted(p)
  \/ \E w \in Writers : BeginRecord(w) \/ CommitRecord(w) \/ RollbackRecord(w)
  \/ \E t \in Txs : TransferSeen(t) \/ TransferFinal(t)
  \/ Dispatch \/ Sweep \/ SettlementModule \/ Time

Spec == Init /\ [][Next]_vars

\* A final transfer is being recorded as confirmed: the watcher polls for it,
\* and the custodian redelivers its webhook until it is answered.
RecordConfirmed(t) ==
  /\ deposit[t] # "confirmed"
  /\ \E w \in Writers : BeginRecord(w) /\ writer'[w].tx = t /\ writer'[w].kind = "confirmed"

\* Deadlines pass, the sweep and the dispatcher keep ticking, open
\* transactions end; nothing is assumed of admins, the depositor or payouts.
Fairness ==
  /\ WF_vars(HalfHourPasses) /\ WF_vars(HoldTimeoutPasses)
  /\ WF_vars(Sweep) /\ WF_vars(Dispatch)
  /\ \A w \in Writers : WF_vars(CommitRecord(w))
  /\ \A t \in Txs : SF_vars(RecordConfirmed(t))
  /\ \A p \in Clients : WF_vars(pc[p] # "idle" /\ Request(p))

LiveSpec == Spec /\ Fairness

-----------------------------------------------------------------------------
(* Properties.                                                             *)

Promise == INSTANCE SessionLifecycle WITH
  status <- sess.status,
  approved <- (case = "approved"),
  confirmed <- (\E t \in Txs : deposit[t] = "confirmed"),
  job <- settlement.job,
  paid <- settlement.paid

\* The session keeps to the lifecycle of session.go's Status: nothing is
\* collected unapproved, nothing settled unpaid, no final status ever left,
\* whatever request, sweep, webhook and event race for the row.
KeepsLifecycle == Promise!Spec

\* A confirmed deposit is never dropped between the two outbox hops: its event
\* is waiting, the session's is, the settlement is queued, or the session had
\* ended before it.
ConfirmedDepositCarried ==
  (\E t \in Txs : deposit[t] = "confirmed")
    => \/ \E e \in outbox : e.type \in {"confirmed", "session_confirmed"}
       \/ settlement.job
       \/ sess.status = "expired"

\* One address at most is reserved for a session, however many admins resolve
\* its hold and whatever is retried (a second reservation is never found again).
OneAddress == addresses <= 1

\* A deposit seen on the chain and confirmed reaches the settlement module, or
\* the session expired first.
DepositReachesSettlement ==
  \A t \in Txs : chain[t] = "final" ~> (settlement.job \/ sess.status = "expired")

\* ttl.go: no session is silently abandoned; each ends or is flagged.
EndsOrBreaches ==
  sess.status = "screening"
    ~> (sess.status \in {"rejected", "expired", "settled"} \/ sess.breached)

\* A hold ends by the corridor's timeout, even one whose approval was cut short.
HoldsEnd == sess.status = "compliance_hold" ~> sess.status # "compliance_hold"

=============================================================================
