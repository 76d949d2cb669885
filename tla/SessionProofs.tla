--------------------------- MODULE SessionProofs ---------------------------
(***************************************************************************)
(* Proofs about Session: that it implements SessionLifecycle, and its two  *)
(* safety invariants.  Inv ties the status to the three things that are    *)
(* written apart from it: the case and the requests under way (Requests,   *)
(* Case), the deposits and their events (Deposits), and the settlement's   *)
(* row (Payout).  One lemma per group of actions shows that the group      *)
(* keeps Inv and is a step of the lifecycle or leaves it alone.            *)
(***************************************************************************)
EXTENDS Session, TLAPS

Rows == [status : Statuses, case : BOOLEAN, reservation : BOOLEAN, breached : BOOLEAN]

Typed ==
  /\ sess \in Rows
  /\ case \in {"none", "hold", "approved", "rejected"}
  /\ addresses \in Nat
  /\ DOMAIN pc = Clients
  /\ deposit \in [Txs -> Recorded]
  /\ chain \in [Txs -> {"none", "seen", "final"}]
  /\ DOMAIN writer = Writers
  /\ settlement \in [job : BOOLEAN, paid : BOOLEAN]

\* Statuses a session without a verdict, with an address, and with a confirmed
\* deposit may have.
Undecided == {"none", "screening", "compliance_hold", "expired"}
Queued == {"deposit_confirmed", "settling", "settled", "settlement_failed", "reversed",
           "reversal_resolved"}
Collecting == {"pending", "expired", "deposit_detected"} \cup Queued

\* What a request is about to do its case allows, and one request at most is
\* about to reserve an address, where none has been.
Requests ==
  \A p \in Clients :
    /\ pc[p] = "screen" => p = Creator /\ case = "none" /\ sess.status # "none"
    /\ pc[p] = "reject" => case = "rejected"
    /\ pc[p] \in {"reserve", "pending"} => case = "approved"
    /\ pc[p] = "reserve" => addresses = 0 /\ \A q \in Clients : pc[q] = "reserve" => q = p

Case ==
  /\ sess.status = "none" => case = "none"
  /\ case \in {"none", "hold"} => sess.status \in Undecided /\ addresses = 0

Confirmed == \E t \in Txs : deposit[t] = "confirmed"
Waiting(type) == \E e \in outbox : e.type = type

\* Nothing is deposited before an address is shown, nor an address before the
\* case is approved.
Deposits ==
  /\ sess.reservation => case = "approved" /\ sess.status \in Collecting
  /\ \A t \in Txs : chain[t] # "none" \/ deposit[t] # "none" => sess.reservation
  /\ \A w \in Writers : writer[w] # Idle =>
       writer[w].tx \in Txs /\ writer[w].kind \in {"detected", "confirmed"} /\ sess.reservation
  /\ Waiting("confirmed") => Confirmed

\* A status past the deposit and the settlement's row go together.
Payout ==
  /\ sess.status \in Queued => settlement.job \/ Waiting("session_confirmed")
  /\ settlement.job \/ Waiting("session_confirmed") => sess.status \in Queued
  /\ sess.status \in Queued \ {"deposit_confirmed"} => settlement.job
  /\ sess.status = "settled" => settlement.paid

Inv == Typed /\ Requests /\ Case /\ Deposits /\ Payout /\ ConfirmedDepositCarried /\ OneAddress

LEMMA InvInit == Init => Inv
<1> SUFFICES ASSUME Init
             PROVE  Inv
  OBVIOUS
<1>1. Typed
  BY DEF Init, Typed, Rows, Statuses, Recorded
<1>2. Requests /\ Case
  BY DEF Init, Requests, Case, Undecided
<1>3. Deposits /\ Payout
  BY DEF Init, Deposits, Payout, Waiting, Confirmed, Collecting, Queued
<1>4. ConfirmedDepositCarried /\ OneAddress
  BY DEF Init, ConfirmedDepositCarried, OneAddress
<1> QED  BY <1>1, <1>2, <1>3, <1>4 DEF Inv

-----------------------------------------------------------------------------
Step == [Promise!Next]_(Promise!vars)

\* A move of the status column leaves the row's other columns alone.
LEMMA Moved ==
  ASSUME sess \in Rows, NEW to \in Statuses
  PROVE  /\ [sess EXCEPT !.status = to] \in Rows
         /\ [sess EXCEPT !.status = to].status = to
         /\ [sess EXCEPT !.status = to].reservation = sess.reservation
BY DEF Rows

observed == <<sess, case, deposit, settlement>>

\* What leaves the lifecycle's state alone.
LEMMA Unobserved ==
  ASSUME UNCHANGED observed
  PROVE  Step
BY DEF observed, Step, Promise!vars

LEMMA Inserting ==
  ASSUME Inv, InsertSession
  PROVE  Inv' /\ Step
<1>1. /\ sess' \in Rows
      /\ sess'.status = "screening"
      /\ sess'.reservation = sess.reservation
      /\ sess.status = "none"
  BY Moved DEF InsertSession, Inv, Typed, Statuses
<1>2. UNCHANGED <<case, addresses, deposit, chain, outbox, settlement, writer>>
  BY DEF InsertSession, aside
<1>3. case = "none" /\ addresses = 0
  BY <1>1 DEF Inv, Case
<1>4. pc' = [pc EXCEPT ![Creator] = "screen"]
  BY DEF InsertSession, Goto
<1>5. Typed'
  BY <1>1, <1>2, <1>4 DEF Inv, Typed
<1>6. Requests' /\ Case'
  BY <1>1, <1>2, <1>3, <1>4 DEF Inv, Typed, Requests, Case, Undecided
<1>7. Deposits' /\ Payout'
  BY <1>1, <1>2, <1>3 DEF Inv, Deposits, Payout, Waiting, Confirmed, Queued
<1>8. ConfirmedDepositCarried' /\ OneAddress'
  BY <1>1, <1>2 DEF Inv, ConfirmedDepositCarried, OneAddress
<1>9. Promise!Screen
  BY <1>1, <1>2 DEF Promise!Screen, Promise!Move, Promise!facts
<1> QED  BY <1>5, <1>6, <1>7, <1>8, <1>9 DEF Inv, Step, Promise!Next

LEMMA Screening ==
  ASSUME Inv, ScreenSession
  PROVE  Inv' /\ Step
<1>1. PICK decision \in {"hold", "approved", "rejected"} :
        /\ case' = decision
        /\ pc' = [pc EXCEPT ![Creator] = CASE decision = "hold" -> "hold"
                                           [] decision = "approved" -> "reserve"
                                           [] decision = "rejected" -> "reject"]
  BY DEF ScreenSession, Goto
<1>2. UNCHANGED <<sess, addresses, deposit, chain, outbox, settlement, writer>>
  BY DEF ScreenSession, aside
<1>3. Creator \in Clients /\ pc[Creator] = "screen"
  BY DEF ScreenSession, Clients
<1>4. case = "none" /\ sess.status # "none" /\ sess.status \in Undecided /\ addresses = 0
  BY <1>3 DEF Inv, Requests, Case
<1>5. Typed'
  BY <1>1, <1>2 DEF Inv, Typed
<1>6. Requests' /\ Case'
  <2>1. /\ \/ pc'[Creator] = "hold" /\ case' = "hold"
           \/ pc'[Creator] = "reserve" /\ case' = "approved"
           \/ pc'[Creator] = "reject" /\ case' = "rejected"
        /\ \A q \in Clients \ {Creator} : pc'[q] = pc[q]
    BY <1>1, <1>3 DEF Inv, Typed
  <2>2. \A q \in Clients \ {Creator} : pc[q] \notin {"screen", "reject", "reserve", "pending"}
    BY <1>4 DEF Inv, Requests
  <2> QED  BY <1>2, <1>4, <2>1, <2>2 DEF Requests, Case
<1>7. ~sess.reservation
  BY <1>4 DEF Inv, Deposits
<1>8. Deposits' /\ Payout' /\ ConfirmedDepositCarried' /\ OneAddress'
  BY <1>2, <1>7 DEF Inv, Deposits, Payout, Waiting, Confirmed, ConfirmedDepositCarried, OneAddress
<1>9. Step
  <2>1. CASE decision = "approved"
    <3>1. Promise!Approve
      BY <1>1, <1>2, <1>4, <2>1 DEF Promise!Approve, Undecided
    <3> QED  BY <3>1 DEF Step, Promise!Next
  <2>2. CASE decision # "approved"
    BY <1>1, <1>2, <1>4, <2>2 DEF Step, Promise!vars
  <2> QED  BY <2>1, <2>2
<1> QED  BY <1>5, <1>6, <1>8, <1>9 DEF Inv

\* A verdict leaves a hold once: no other request is then about to reserve.
LEMMA Resolving ==
  ASSUME Inv, NEW p \in Admins, ResolveHold(p)
  PROVE  Inv' /\ Step
<1>1. UNCHANGED <<sess, addresses, deposit, chain, outbox, settlement, writer>>
  BY DEF ResolveHold, aside
<1>2. p \in Clients
  BY DEF Clients
<1>3. CASE ~Resolvable
  <2>1. pc' = [pc EXCEPT ![p] = "idle"] /\ case' = case
    BY <1>3 DEF ResolveHold, Goto
  <2>2. Inv'
    BY <1>1, <1>2, <2>1 DEF Inv, Typed, Requests, Case, Deposits, Payout, Waiting, Confirmed,
       ConfirmedDepositCarried, OneAddress
  <2> QED  BY <1>1, <2>1, <2>2, Unobserved DEF observed
<1>4. CASE Resolvable
  <2>1. PICK verdict \in {"approved", "rejected"} :
          /\ case' = verdict
          /\ pc' = [pc EXCEPT ![p] = IF verdict = "approved" THEN "reserve" ELSE "reject"]
    BY <1>4 DEF ResolveHold, Goto
  <2>2. case = "hold" /\ sess.status \in Undecided \ {"none"} /\ addresses = 0
    BY <1>4 DEF Resolvable, Inv, Case
  <2>3. Typed'
    BY <1>1, <2>1 DEF Inv, Typed
  <2>4. Requests' /\ Case'
    <3>1. /\ \/ pc'[p] = "reserve" /\ case' = "approved"
             \/ pc'[p] = "reject" /\ case' = "rejected"
          /\ \A q \in Clients \ {p} : pc'[q] = pc[q]
      BY <1>2, <2>1 DEF Inv, Typed
    <3>2. \A q \in Clients \ {p} : pc[q] \notin {"screen", "reject", "reserve", "pending"}
      BY <2>2 DEF Inv, Requests
    <3> QED  BY <1>1, <2>2, <3>1, <3>2 DEF Requests, Case
  <2>5. ~sess.reservation
    BY <2>2 DEF Inv, Deposits
  <2>6. Deposits' /\ Payout' /\ ConfirmedDepositCarried' /\ OneAddress'
    BY <1>1, <2>5 DEF Inv, Deposits, Payout, Waiting, Confirmed, ConfirmedDepositCarried, OneAddress
  <2>7. Step
    <3>1. CASE verdict = "approved"
      <4>1. Promise!Approve
        BY <1>1, <2>1, <2>2, <3>1 DEF Promise!Approve, Undecided
      <4> QED  BY <4>1 DEF Step, Promise!Next
    <3>2. CASE verdict # "approved"
      BY <1>1, <2>1, <2>2, <3>2 DEF Step, Promise!vars
    <3> QED  BY <3>1, <3>2
  <2> QED  BY <2>3, <2>4, <2>6, <2>7 DEF Inv
<1> QED  BY <1>3, <1>4

\* Only one request is about to reserve, and none has.
LEMMA Reserving ==
  ASSUME Inv, NEW p \in Clients, ReserveAddress(p)
  PROVE  Inv' /\ Step
<1>1. UNCHANGED <<sess, case, deposit, chain, outbox, settlement, writer>>
  BY DEF ReserveAddress, aside
<1>2. /\ pc[p] = "reserve" /\ pc' = [pc EXCEPT ![p] = "pending"]
      /\ addresses = 0 /\ addresses' = 1
      /\ case = "approved"
      /\ \A q \in Clients \ {p} : pc[q] # "reserve"
  BY DEF ReserveAddress, Goto, Inv, Requests
<1>3. Typed'
  BY <1>1, <1>2 DEF Inv, Typed
<1>4. Requests' /\ Case'
  BY <1>1, <1>2 DEF Inv, Typed, Requests, Case
<1>5. Deposits' /\ Payout' /\ ConfirmedDepositCarried' /\ OneAddress'
  BY <1>1, <1>2 DEF Inv, Deposits, Payout, Waiting, Confirmed, ConfirmedDepositCarried, OneAddress
<1> QED  BY <1>1, <1>3, <1>4, <1>5, Unobserved DEF observed, Inv

\* A request that ends, or goes on, without touching the session or its case.
LEMMA GoingIdle ==
  ASSUME Inv, NEW p \in Clients, NEW l \in {"idle", "resolve"}, pc' = [pc EXCEPT ![p] = l],
         UNCHANGED <<sess, case, addresses, deposit, chain, outbox, settlement, writer>>
  PROVE  Inv' /\ Step
<1>1. Inv'
  BY DEF Inv, Typed, Requests, Case, Deposits, Payout, Waiting, Confirmed,
     ConfirmedDepositCarried, OneAddress
<1> QED  BY <1>1, Unobserved DEF observed

-----------------------------------------------------------------------------
(* Moves of the status.                                                     *)

\* What a move of the status must see to, when no deposit's event is handled.
LEMMA Moving ==
  ASSUME Inv, NEW to \in Statuses \ {"none"}, sess.status # "none",
         sess' \in Rows, sess'.status = to, sess'.reservation = sess.reservation,
         \/ pc' = pc
         \/ \E p \in Clients : pc' = [pc EXCEPT ![p] = "idle"],
         UNCHANGED <<case, addresses, deposit, chain, writer, settlement>>,
         outbox' \subseteq outbox,
         \A e \in outbox : e.type # "detected" => e \in outbox',
         case \in {"none", "hold"} => to \in Undecided,
         sess.reservation => to \in Collecting,
         to \in Queued <=> sess.status \in Queued,
         to \in Queued \ {"deposit_confirmed"} => settlement.job,
         to = "settled" => settlement.paid,
         sess.status = "expired" => to = "expired"
  PROVE  Inv'
<1>1. Typed'
  BY DEF Inv, Typed
<1>2. Requests'
  BY DEF Inv, Typed, Requests
<1>3. Case'
  BY DEF Inv, Case
<1>4. \A type \in {"confirmed", "session_confirmed"} : Waiting(type)' <=> Waiting(type)
  BY DEF Waiting
<1>5. Deposits'
  BY <1>4 DEF Inv, Deposits, Confirmed
<1>6. Payout'
  BY <1>4 DEF Inv, Payout
<1>7. ConfirmedDepositCarried' /\ OneAddress'
  BY DEF Inv, ConfirmedDepositCarried, OneAddress
<1> QED  BY <1>1, <1>2, <1>3, <1>5, <1>6, <1>7 DEF Inv

LEMMA Holding ==
  ASSUME Inv, TransitionToHold
  PROVE  Inv' /\ Step
<1>1. /\ UNCHANGED <<case, addresses, deposit, chain, outbox, settlement, writer>>
      /\ pc' = [pc EXCEPT ![Creator] = "idle"]
      /\ Creator \in Clients
  BY DEF TransitionToHold, aside, Goto, Clients
<1>2. CASE sess.status # "screening"
  BY <1>1, <1>2, GoingIdle DEF TransitionToHold
<1>3. CASE sess.status = "screening"
  <2>1. /\ sess' \in Rows /\ sess'.status = "compliance_hold"
        /\ sess'.reservation = sess.reservation
    BY <1>3 DEF TransitionToHold, Inv, Typed, Rows, Statuses
  <2>2. ~sess.reservation
    BY <1>3 DEF Inv, Deposits, Collecting, Queued
  <2>3. Inv'
    BY <1>1, <1>3, <2>1, <2>2, Moving DEF Statuses, Undecided, Queued
  <2>4. Promise!Hold
    BY <1>1, <1>3, <2>1 DEF Promise!Hold, Promise!Move, Promise!facts
  <2> QED  BY <2>3, <2>4 DEF Step, Promise!Next
<1> QED  BY <1>2, <1>3

LEMMA Rejecting ==
  ASSUME Inv, NEW p \in Clients, TransitionToRejected(p)
  PROVE  Inv' /\ Step
<1>1. /\ UNCHANGED <<case, addresses, deposit, chain, outbox, settlement, writer>>
      /\ pc' = [pc EXCEPT ![p] = "idle"]
      /\ case = "rejected"
  BY DEF TransitionToRejected, aside, Goto, Inv, Requests
<1>2. CASE sess.status # From(p)
  BY <1>1, <1>2, GoingIdle DEF TransitionToRejected, CAS
<1>3. CASE sess.status = From(p)
  <2>1. /\ sess' \in Rows /\ sess'.status = "rejected"
        /\ sess'.reservation = sess.reservation
    BY <1>3, Moved DEF TransitionToRejected, CAS, Inv, Typed, Statuses
  <2>2. ~sess.reservation /\ sess.status \in {"screening", "compliance_hold"}
    BY <1>1, <1>3 DEF Inv, Deposits, From
  <2>3. Inv'
    BY <1>1, <2>1, <2>2, Moving DEF Statuses, Queued
  <2>4. Promise!Reject
    BY <1>1, <2>1, <2>2 DEF Promise!Reject, Promise!Move, Promise!facts
  <2> QED  BY <2>3, <2>4 DEF Step, Promise!Next
<1> QED  BY <1>2, <1>3

\* The request that becomes pending gives the row its reservation.
LEMMA Opening ==
  ASSUME Inv, NEW p \in Clients, TransitionToPending(p)
  PROVE  Inv' /\ Step
<1>1. /\ UNCHANGED <<case, addresses, deposit, chain, outbox, settlement, writer>>
      /\ pc' = [pc EXCEPT ![p] = "idle"]
      /\ case = "approved"
  BY DEF TransitionToPending, aside, Goto, Inv, Requests
<1>2. CASE sess.status # From(p)
  BY <1>1, <1>2, GoingIdle DEF TransitionToPending
<1>3. CASE sess.status = From(p)
  <2>1. sess' \in Rows /\ sess'.status = "pending" /\ sess'.reservation
    BY <1>3 DEF TransitionToPending, Inv, Typed, Rows, Statuses
  <2>2. sess.status \in {"screening", "compliance_hold"}
    BY <1>3 DEF From
  <2>3. Typed' /\ Requests' /\ Case'
    BY <1>1, <2>1 DEF Inv, Typed, Requests, Case
  <2>4. Deposits'
    BY <1>1, <2>1 DEF Inv, Deposits, Confirmed, Waiting, Collecting
  <2>5. Payout'
    BY <1>1, <2>1, <2>2 DEF Inv, Payout, Waiting, Queued
  <2>6. ConfirmedDepositCarried' /\ OneAddress'
    BY <1>1, <2>1, <2>2 DEF Inv, ConfirmedDepositCarried, OneAddress
  <2>7. Promise!Collect
    BY <1>1, <2>1, <2>2 DEF Promise!Collect, Promise!Move, Promise!facts
  <2> QED  BY <2>3, <2>4, <2>5, <2>6, <2>7 DEF Inv, Step, Promise!Next
<1> QED  BY <1>2, <1>3

LEMMA Sweeping ==
  ASSUME Inv, Sweep
  PROVE  Inv' /\ Step
<1>1. UNCHANGED <<case, addresses, deposit, chain, outbox, settlement, writer, pc>>
  BY DEF Sweep, ExpirePreDeposit, ExpireTimedOutHolds, MarkSLABreaches, Swept
<1>2. ASSUME UNCHANGED sess
      PROVE  Inv' /\ Step
  <2>1. Inv'
    BY <1>1, <1>2 DEF Inv, Typed, Requests, Case, Deposits, Payout, Waiting, Confirmed,
       ConfirmedDepositCarried, OneAddress
  <2> QED  BY <1>1, <1>2, <2>1, Unobserved DEF observed
<1>3. ASSUME sess' = [sess EXCEPT !.status = "expired"],
             sess.status \in {"screening", "compliance_hold", "pending"}
      PROVE  Inv' /\ Step
  <2>1. /\ sess' \in Rows /\ sess'.status = "expired"
        /\ sess'.reservation = sess.reservation
    BY <1>3, Moved DEF Inv, Typed, Statuses
  <2>2. Inv'
    BY <1>1, <1>3, <2>1, Moving DEF Statuses, Undecided, Collecting, Queued
  <2>3. ~settlement.job
    BY <1>3 DEF Inv, Payout, Queued
  <2>4. Promise!Expire
    BY <1>1, <1>3, <2>1, <2>3 DEF Promise!Expire, Promise!Move, Promise!facts
  <2> QED  BY <2>2, <2>4 DEF Step, Promise!Next
<1>4. ASSUME sess' = [sess EXCEPT !.breached = TRUE], sess.status # "none"
      PROVE  Inv' /\ Step
  <2>1. /\ sess' \in Rows /\ sess'.status = sess.status
        /\ sess'.reservation = sess.reservation /\ sess.status \in Statuses
    BY <1>4 DEF Inv, Typed, Rows
  <2>2. Inv'
    BY <1>1, <1>4, <2>1, Moving DEF Inv, Case, Deposits, Payout
  <2>3. UNCHANGED Promise!vars
    BY <1>1, <2>1 DEF Promise!vars
  <2> QED  BY <2>2, <2>3 DEF Step
<1>5. CASE ExpirePreDeposit
  BY <1>2, <1>3, <1>5 DEF ExpirePreDeposit, Expirable
<1>6. CASE ExpireTimedOutHolds
  BY <1>2, <1>3, <1>6 DEF ExpireTimedOutHolds
<1>7. CASE MarkSLABreaches
  BY <1>2, <1>4, <1>7 DEF MarkSLABreaches, Unbreachable
<1> QED  BY <1>5, <1>6, <1>7 DEF Sweep

-----------------------------------------------------------------------------
(* Deposits.                                                                *)

rest == <<sess, case, addresses, settlement, pc>>

LEMMA Beginning ==
  ASSUME Inv, NEW w \in Writers, BeginRecord(w)
  PROVE  Inv' /\ Step
<1>1. UNCHANGED <<rest, deposit, chain, outbox>>
  BY DEF BeginRecord, rest
<1>2. PICK t \in Txs : \E kind \in Reportable(t) :
        writer' = [writer EXCEPT ![w] = [tx |-> t, kind |-> kind, stamp |-> Now]]
  BY DEF BeginRecord
<1>3. PICK kind \in Reportable(t) :
        writer' = [writer EXCEPT ![w] = [tx |-> t, kind |-> kind, stamp |-> Now]]
  BY <1>2
<1>4. kind \in {"detected", "confirmed"} /\ sess.reservation
  <2>1. chain[t] \in {"none", "seen", "final"}
    BY DEF Inv, Typed
  <2>2. chain[t] # "none" /\ kind \in {"detected", "confirmed"}
    BY <2>1 DEF Reportable
  <2> QED  BY <2>2 DEF Inv, Deposits
<1>5. Typed' /\ Deposits'
  BY <1>1, <1>3, <1>4 DEF rest, Inv, Typed, Deposits, Waiting, Confirmed
<1>6. Requests' /\ Case' /\ Payout' /\ ConfirmedDepositCarried' /\ OneAddress'
  BY <1>1 DEF rest, Inv, Requests, Case, Payout, Waiting, ConfirmedDepositCarried, OneAddress
<1> QED  BY <1>1, <1>5, <1>6, Unobserved DEF rest, observed, Inv

\* An address has been shown, so the case is approved.
LEMMA Recording ==
  ASSUME Inv, NEW w \in Writers, CommitRecord(w)
  PROVE  Inv' /\ Step
<1> DEFINE r == writer[w]
<1>1. UNCHANGED <<rest, chain>> /\ writer' = [writer EXCEPT ![w] = Idle]
  BY DEF CommitRecord, rest
<1>2. r.tx \in Txs /\ r.kind \in {"detected", "confirmed"} /\ sess.reservation /\ case = "approved"
  BY DEF CommitRecord, Inv, Deposits
<1>3. Requests' /\ Case' /\ OneAddress'
  BY <1>1 DEF rest, Inv, Requests, Case, OneAddress
<1>4. CASE ~Transitions(r.tx, r.kind)
  <2>1. UNCHANGED <<deposit, outbox>>
    BY <1>4 DEF CommitRecord
  <2>2. Typed' /\ Deposits' /\ Payout' /\ ConfirmedDepositCarried'
    BY <1>1, <2>1 DEF rest, Inv, Typed, Deposits, Payout, Waiting, Confirmed, ConfirmedDepositCarried
  <2> QED  BY <1>1, <1>3, <2>1, <2>2, Unobserved DEF rest, observed, Inv
<1>5. CASE Transitions(r.tx, r.kind)
  <2> DEFINE e == [type |-> r.kind, tx |-> r.tx, stamp |-> r.stamp]
  <2>1. /\ deposit' = [deposit EXCEPT ![r.tx] = r.kind]
        /\ outbox' = outbox \cup {e}
        /\ e.type = r.kind
    BY <1>5 DEF CommitRecord
  <2> HIDE DEF e
  <2>2. deposit[r.tx] # "confirmed"
    BY <1>5 DEF Transitions
  <2>3. Typed'
    BY <1>1, <1>2, <2>1 DEF rest, Inv, Typed, Recorded
  <2>4. \A t \in Txs \ {r.tx} : deposit'[t] = deposit[t]
    BY <2>1 DEF Inv, Typed
  <2>5. deposit'[r.tx] = r.kind
    BY <1>2, <2>1 DEF Inv, Typed
  <2>6. Confirmed' <=> Confirmed \/ r.kind = "confirmed"
    BY <1>2, <2>2, <2>4, <2>5 DEF Confirmed
  <2>7. /\ Waiting("confirmed")' <=> Waiting("confirmed") \/ r.kind = "confirmed"
        /\ Waiting("session_confirmed")' <=> Waiting("session_confirmed")
    BY <1>2, <2>1 DEF Waiting
  <2>8. Deposits'
    BY <1>1, <1>2, <2>6, <2>7 DEF rest, Inv, Typed, Deposits
  <2>9. Payout'
    BY <1>1, <2>7 DEF rest, Inv, Payout
  <2>10. ConfirmedDepositCarried'
    BY <1>1, <2>1, <2>6 DEF rest, Inv, ConfirmedDepositCarried, Confirmed
  <2>11. Step
    <3>1. CASE r.kind = "confirmed"
      <4>1. Promise!Confirm
        BY <1>1, <1>2, <2>6, <3>1 DEF rest, Confirmed, Promise!Confirm
      <4> QED  BY <4>1 DEF Step, Promise!Next
    <3>2. CASE r.kind # "confirmed"
      <4>1. Confirmed' <=> Confirmed
        BY <2>6, <3>2
      <4> QED  BY <1>1, <4>1 DEF rest, Confirmed, Step, Promise!vars
    <3> QED  BY <3>1, <3>2
  <2> QED  BY <1>3, <2>3, <2>8, <2>9, <2>10, <2>11 DEF Inv
<1> QED  BY <1>4, <1>5

LEMMA RollingBack ==
  ASSUME Inv, NEW w \in Writers, RollbackRecord(w)
  PROVE  Inv' /\ Step
<1>1. UNCHANGED <<rest, deposit, chain, outbox>> /\ writer' = [writer EXCEPT ![w] = Idle]
  BY DEF RollbackRecord, rest
<1>2. Inv'
  BY <1>1 DEF rest, Inv, Typed, Requests, Case, Deposits, Payout, Waiting, Confirmed,
     ConfirmedDepositCarried, OneAddress
<1> QED  BY <1>1, <1>2, Unobserved DEF rest, observed

LEMMA Showing ==
  ASSUME Inv, NEW t \in Txs, TransferSeen(t) \/ TransferFinal(t)
  PROVE  Inv' /\ Step
<1>1. PICK to \in {"seen", "final"} :
        /\ chain' = [chain EXCEPT ![t] = to]
        /\ sess.reservation
        /\ UNCHANGED <<rest, deposit, outbox, writer>>
  BY DEF TransferSeen, TransferFinal, Shows, rest
<1>2. Inv'
  BY <1>1 DEF rest, Inv, Typed, Requests, Case, Deposits, Payout, Waiting, Confirmed,
     ConfirmedDepositCarried, OneAddress
<1> QED  BY <1>1, <1>2, Unobserved DEF rest, observed

-----------------------------------------------------------------------------
(* The dispatcher.                                                          *)

LEMMA HandlingDetected ==
  ASSUME Inv, HandleDepositDetected
  PROVE  Inv' /\ Step
<1>1. PICK e \in outbox : e.type = "detected" /\ outbox' = outbox \ {e}
  BY DEF HandleDepositDetected, Oldest
<1>2. UNCHANGED <<case, addresses, deposit, chain, settlement, pc, writer>>
  BY DEF HandleDepositDetected, Dispatched
<1>3. CASE UNCHANGED sess
  <2>1. \A type \in {"confirmed", "session_confirmed"} : Waiting(type)' <=> Waiting(type)
    BY <1>1 DEF Waiting
  <2>2. Typed' /\ Requests' /\ Case' /\ OneAddress'
    BY <1>2, <1>3 DEF Inv, Typed, Requests, Case, OneAddress
  <2>3. Deposits' /\ Payout'
    BY <1>2, <1>3, <2>1 DEF Inv, Deposits, Confirmed, Payout
  <2>4. ConfirmedDepositCarried'
    BY <1>1, <1>2, <1>3 DEF Inv, ConfirmedDepositCarried
  <2> QED  BY <1>2, <1>3, <2>2, <2>3, <2>4, Unobserved DEF observed, Inv
<1>4. CASE ~UNCHANGED sess
  <2>1. sess' = [sess EXCEPT !.status = "deposit_detected"] /\ sess.status = "pending"
    BY <1>4 DEF HandleDepositDetected, TransitionByReservation, Expected
  <2>2. /\ sess' \in Rows /\ sess'.status = "deposit_detected"
        /\ sess'.reservation = sess.reservation
    BY <2>1, Moved DEF Inv, Typed, Statuses
  <2>3. case \notin {"none", "hold"}
    BY <2>1 DEF Inv, Case, Undecided
  <2>4. Inv'
    BY <1>1, <1>2, <2>1, <2>2, <2>3, Moving DEF Statuses, Collecting, Queued
  <2>5. Promise!DetectDeposit
    BY <1>2, <2>1, <2>2 DEF Promise!DetectDeposit, Promise!Move, Promise!facts
  <2> QED  BY <2>4, <2>5 DEF Step, Promise!Next
<1> QED  BY <1>3, <1>4

\* Either the session's event takes the deposit's place, or the session has ended
\* or its settlement is queued.
LEMMA HandlingConfirmed ==
  ASSUME Inv, HandleDepositConfirmed
  PROVE  Inv' /\ Step
<1>1. PICK e \in outbox :
        /\ e.type = "confirmed"
        /\ outbox' = (outbox \ {e})
             \cup IF sess.reservation /\ sess.status \in {"deposit_detected", "pending"}
                  THEN {[type |-> "session_confirmed", tx |-> e.tx, stamp |-> Now]} ELSE {}
  BY DEF HandleDepositConfirmed, Oldest, Expected
<1>2. UNCHANGED <<case, addresses, deposit, chain, settlement, pc, writer>>
  BY DEF HandleDepositConfirmed, Dispatched
<1>3. Confirmed /\ sess.reservation /\ case = "approved"
  BY <1>1 DEF Inv, Deposits, Waiting, Confirmed
<1>4. CASE sess.status \notin {"deposit_detected", "pending"}
  <2>1. UNCHANGED sess /\ outbox' = outbox \ {e}
    BY <1>1, <1>4 DEF HandleDepositConfirmed, TransitionByReservation, Expected
  <2>2. /\ Waiting("session_confirmed")' <=> Waiting("session_confirmed")
        /\ Waiting("confirmed")' => Waiting("confirmed")
    BY <1>1, <2>1 DEF Waiting
  <2>3. Typed' /\ Requests' /\ Case' /\ OneAddress'
    BY <1>2, <2>1 DEF Inv, Typed, Requests, Case, OneAddress
  <2>4. Deposits' /\ Payout'
    BY <1>2, <2>1, <2>2 DEF Inv, Deposits, Confirmed, Payout
  <2>5. sess.status = "expired" \/ settlement.job \/ Waiting("session_confirmed")'
    BY <1>3, <1>4, <2>2 DEF Inv, Deposits, Payout, Collecting
  <2>6. ConfirmedDepositCarried'
    BY <1>2, <2>1, <2>5 DEF ConfirmedDepositCarried, Waiting
  <2> QED  BY <1>2, <2>1, <2>3, <2>4, <2>6, Unobserved DEF observed, Inv
<1>5. CASE sess.status \in {"deposit_detected", "pending"}
  <2> DEFINE next == [type |-> "session_confirmed", tx |-> e.tx, stamp |-> Now]
  <2>1. /\ sess' = [sess EXCEPT !.status = "deposit_confirmed"]
        /\ outbox' = (outbox \ {e}) \cup {next}
        /\ next.type = "session_confirmed"
    BY <1>1, <1>3, <1>5 DEF HandleDepositConfirmed, TransitionByReservation, Expected
  <2> HIDE DEF next
  <2>2. /\ sess' \in Rows /\ sess'.status = "deposit_confirmed"
        /\ sess'.reservation = sess.reservation
    BY <2>1, Moved DEF Inv, Typed, Statuses
  <2>3. Waiting("session_confirmed")' /\ (Waiting("confirmed")' => Waiting("confirmed"))
    BY <2>1 DEF Waiting
  <2>4. Typed' /\ Requests' /\ Case' /\ OneAddress'
    BY <1>2, <1>3, <2>2 DEF Inv, Typed, Requests, Case, OneAddress
  <2>5. Deposits'
    BY <1>2, <1>3, <2>2, <2>3 DEF Inv, Deposits, Confirmed, Collecting, Queued
  <2>6. Payout'
    BY <1>2, <2>2, <2>3 DEF Payout, Queued
  <2>7. ConfirmedDepositCarried'
    BY <2>3 DEF ConfirmedDepositCarried, Waiting
  <2>8. Promise!ConfirmDeposit
    BY <1>2, <1>3, <1>5, <2>2 DEF Confirmed, Promise!ConfirmDeposit, Promise!Move, Promise!facts
  <2> QED  BY <2>4, <2>5, <2>6, <2>7, <2>8 DEF Inv, Step, Promise!Next
<1> QED  BY <1>4, <1>5

\* The session's event exists only while the session is past its deposit.
LEMMA Queueing ==
  ASSUME Inv, HandleSessionConfirmed
  PROVE  Inv' /\ Step
<1>1. PICK e \in outbox : e.type = "session_confirmed" /\ outbox' = outbox \ {e}
  BY DEF HandleSessionConfirmed, Oldest
<1>2. UNCHANGED <<sess, case, addresses, deposit, chain, pc, writer>>
  BY DEF HandleSessionConfirmed, Dispatched
<1>3. /\ settlement' \in [job : BOOLEAN, paid : BOOLEAN]
      /\ settlement'.job = TRUE /\ settlement'.paid = settlement.paid
  BY DEF HandleSessionConfirmed, Inv, Typed
<1>4. Waiting("session_confirmed") /\ (Waiting("confirmed")' => Waiting("confirmed"))
  BY <1>1 DEF Waiting
<1>5. sess.status \in Queued
  BY <1>4 DEF Inv, Payout
<1>6. Typed' /\ Requests' /\ Case' /\ OneAddress'
  BY <1>2, <1>3 DEF Inv, Typed, Requests, Case, OneAddress
<1>7. Deposits' /\ Payout' /\ ConfirmedDepositCarried'
  BY <1>2, <1>3, <1>4, <1>5 DEF Inv, Deposits, Confirmed, Payout, ConfirmedDepositCarried
<1>8. Step
  <2>1. CASE settlement.job
    <3>1. settlement' = settlement
      BY <2>1 DEF HandleSessionConfirmed, Inv, Typed
    <3> QED  BY <1>2, <3>1, Unobserved DEF observed
  <2>2. CASE ~settlement.job
    <3>1. sess.status = "deposit_confirmed"
      BY <1>5, <2>2 DEF Inv, Payout
    <3>2. Promise!Queue
      BY <1>2, <1>3, <3>1 DEF Promise!Queue
    <3> QED  BY <3>2 DEF Step, Promise!Next
  <2> QED  BY <2>1, <2>2
<1> QED  BY <1>6, <1>7, <1>8 DEF Inv

-----------------------------------------------------------------------------
(* The settlement module.                                                   *)

\* A move within the statuses past the deposit, asked for once the row exists.
LEMMA Asking ==
  ASSUME Inv, NEW to \in Queued, settlement.job, sess.status \in Queued,
         to = "settled" => settlement.paid,
         sess' = [sess EXCEPT !.status = to],
         UNCHANGED <<addresses, settlement, settling>>
  PROVE  Inv' /\ sess'.status = to /\ UNCHANGED Promise!facts
<1>1. /\ sess' \in Rows /\ sess'.status = to
      /\ sess'.reservation = sess.reservation
      /\ to \in Statuses \ {"none"}
  BY Moved DEF Inv, Typed, Statuses, Queued
<1>2. case \notin {"none", "hold"}
  BY DEF Inv, Case, Undecided, Queued
<1>3. UNCHANGED <<case, addresses, deposit, chain, outbox, settlement, pc, writer>>
  BY DEF settling
<1>4. Inv'
  BY <1>1, <1>2, <1>3, Moving DEF Queued, Collecting
<1> QED  BY <1>1, <1>3, <1>4 DEF Promise!facts

\* ReleaseReservation and the payout's outcome leave the status where it is.
LEMMA Settling ==
  ASSUME Inv, SettlementModule
  PROVE  Inv' /\ Step
<1>1. CASE TransitionToSettling \/ RetryToSettling
  <2>1. /\ settlement.job /\ sess.status \in {"deposit_confirmed", "settlement_failed"}
        /\ sess' = [sess EXCEPT !.status = "settling"]
        /\ UNCHANGED <<addresses, settlement, settling>>
    BY <1>1 DEF TransitionToSettling, RetryToSettling, Asks, CAS
  <2>2. Inv' /\ sess'.status = "settling" /\ UNCHANGED Promise!facts
    BY <2>1, Asking DEF Queued
  <2>3. Promise!StartSettling
    BY <2>1, <2>2 DEF Promise!StartSettling, Promise!Move
  <2> QED  BY <2>2, <2>3 DEF Step, Promise!Next
<1>2. CASE TransitionToSettlementFailed
  <2>1. /\ settlement.job /\ sess.status = "settling"
        /\ sess' = [sess EXCEPT !.status = "settlement_failed"]
        /\ UNCHANGED <<addresses, settlement, settling>>
    BY <1>2 DEF TransitionToSettlementFailed, Asks, CAS
  <2>2. Inv' /\ sess'.status = "settlement_failed" /\ UNCHANGED Promise!facts
    BY <2>1, Asking DEF Queued
  <2>3. Promise!Fail
    BY <2>1, <2>2 DEF Promise!Fail, Promise!Move
  <2> QED  BY <2>2, <2>3 DEF Step, Promise!Next
<1>3. CASE TransitionToReversed
  <2>1. /\ settlement.job /\ sess.status = "settled"
        /\ sess' = [sess EXCEPT !.status = "reversed"]
        /\ UNCHANGED <<addresses, settlement, settling>>
    BY <1>3 DEF TransitionToReversed, Asks, CAS
  <2>2. Inv' /\ sess'.status = "reversed" /\ UNCHANGED Promise!facts
    BY <2>1, Asking DEF Queued
  <2>3. settlement.paid
    BY <2>1 DEF Inv, Payout
  <2>4. Promise!Reverse
    BY <2>1, <2>2, <2>3 DEF Promise!Reverse, Promise!Move
  <2> QED  BY <2>2, <2>4 DEF Step, Promise!Next
<1>4. CASE TransitionToReversalResolved
  <2>1. /\ settlement.job /\ sess.status = "reversed"
        /\ sess' = [sess EXCEPT !.status = "reversal_resolved"]
        /\ UNCHANGED <<addresses, settlement, settling>>
    BY <1>4 DEF TransitionToReversalResolved, Asks, CAS
  <2>2. Inv' /\ sess'.status = "reversal_resolved" /\ UNCHANGED Promise!facts
    BY <2>1, Asking DEF Queued
  <2>3. Promise!ResolveReversal
    BY <2>1, <2>2 DEF Promise!ResolveReversal, Promise!Move
  <2> QED  BY <2>2, <2>3 DEF Step, Promise!Next
<1>5. CASE TransitionToSettled
  <2>1. /\ settlement.paid /\ sess.status = "settling"
        /\ sess' = [sess EXCEPT !.status = "settled"]
        /\ UNCHANGED <<addresses, settlement, settling>>
    BY <1>5 DEF TransitionToSettled, CAS
  <2>2. settlement.job
    BY <2>1 DEF Inv, Payout, Queued
  <2>3. Inv' /\ sess'.status = "settled" /\ UNCHANGED Promise!facts
    BY <2>1, <2>2, Asking DEF Queued
  <2>4. Promise!Settle
    BY <2>1, <2>3 DEF Promise!Settle, Promise!Move
  <2> QED  BY <2>3, <2>4 DEF Step, Promise!Next
<1>6. CASE PayoutSucceeds
  <2>1. UNCHANGED <<sess, case, addresses, deposit, chain, outbox, pc, writer>>
    BY <1>6 DEF PayoutSucceeds, settling
  <2>2. /\ settlement' \in [job : BOOLEAN, paid : BOOLEAN]
        /\ settlement.job /\ settlement'.job = settlement.job /\ settlement'.paid = TRUE
    BY <1>6 DEF PayoutSucceeds, Inv, Typed
  <2>3. Typed' /\ Requests' /\ Case' /\ OneAddress'
    BY <2>1, <2>2 DEF Inv, Typed, Requests, Case, OneAddress
  <2>4. Deposits' /\ Payout' /\ ConfirmedDepositCarried'
    BY <2>1, <2>2 DEF Inv, Deposits, Confirmed, Waiting, Payout, ConfirmedDepositCarried
  <2>5. Promise!Pay
    BY <2>1, <2>2 DEF Promise!Pay
  <2> QED  BY <2>3, <2>4, <2>5 DEF Inv, Step, Promise!Next
<1>7. CASE ReleaseReservation
  <2>1. /\ UNCHANGED <<sess, case, deposit, chain, outbox, settlement, pc, writer>>
        /\ addresses > 0 /\ addresses' = addresses - 1
    BY <1>7 DEF ReleaseReservation, settling
  <2>2. Typed' /\ Requests' /\ Case' /\ OneAddress'
    BY <2>1 DEF Inv, Typed, Requests, Case, OneAddress
  <2>3. Deposits' /\ Payout' /\ ConfirmedDepositCarried'
    BY <2>1 DEF Inv, Deposits, Confirmed, Waiting, Payout, ConfirmedDepositCarried
  <2> QED  BY <2>1, <2>2, <2>3, Unobserved DEF observed, Inv
<1> QED  BY <1>1, <1>2, <1>3, <1>4, <1>5, <1>6, <1>7 DEF SettlementModule

-----------------------------------------------------------------------------
(* Every step, and the theorems.                                            *)

\* Every step keeps the invariant and the lifecycle.
LEMMA Stepping ==
  ASSUME Inv, [Next]_vars
  PROVE  Inv' /\ Step
<1>1. ASSUME UNCHANGED <<sess, case, addresses, deposit, chain, outbox, settlement, pc, writer>>
      PROVE  Inv' /\ Step
  <2>1. Inv'
    BY <1>1 DEF Inv, Typed, Requests, Case, Deposits, Payout, Waiting, Confirmed,
       ConfirmedDepositCarried, OneAddress
  <2> QED  BY <1>1, <2>1, Unobserved DEF observed
<1>2. ASSUME NEW p \in Clients, Request(p) \/ Interrupted(p)
      PROVE  Inv' /\ Step
  <2>1. CASE StartResolve(p)
    BY <2>1, GoingIdle DEF StartResolve, Goto, aside
  <2>2. CASE Interrupted(p)
    BY <2>2, GoingIdle DEF Interrupted, Goto
  <2> QED  BY <1>2, <2>1, <2>2, Inserting, Screening, Holding, Resolving, Rejecting, Reserving,
              Opening DEF Request
<1>3. CASE Time
  BY <1>1, <1>3 DEF Time, HalfHourPasses, QuoteExpires, HoldTimeoutPasses, Passes
<1>4. CASE UNCHANGED vars
  BY <1>1, <1>4 DEF vars
<1>5. CASE Dispatch
  BY <1>5, HandlingDetected, HandlingConfirmed, Queueing DEF Dispatch
<1>6. ASSUME NEW w \in Writers, BeginRecord(w) \/ CommitRecord(w) \/ RollbackRecord(w)
      PROVE  Inv' /\ Step
  BY <1>6, Beginning, Recording, RollingBack
<1>7. ASSUME NEW t \in Txs, TransferSeen(t) \/ TransferFinal(t)
      PROVE  Inv' /\ Step
  BY <1>7, Showing
<1> QED  BY <1>2, <1>3, <1>4, <1>5, <1>6, <1>7, Sweeping, Settling DEF Next

\* The invariant holds throughout.
LEMMA InvAlways == Spec => []Inv
<1>1. Inv /\ [Next]_vars => Inv'
  BY Stepping
<1> QED  BY InvInit, <1>1, PTL DEF Spec

\* One address at most is reserved for a session, whatever admins resolve its
\* hold and whatever request is cut short (session.go CreateSession and
\* ResolveComplianceHold, which reserve before they move the session).
THEOREM OneReservation == Spec => []OneAddress
<1>1. Inv => OneAddress
  BY DEF Inv
<1> QED  BY InvAlways, <1>1, PTL

\* A confirmed deposit stays on its way to a payout while its event, and then
\* the session's, wait in the outbox (events.go transitionByReservation and
\* settlement's handler), unless the TTL job expired the session.
THEOREM DepositsAreCarried == Spec => []ConfirmedDepositCarried
<1>1. Inv => ConfirmedDepositCarried
  BY DEF Inv
<1> QED  BY InvAlways, <1>1, PTL

\* The session implements its lifecycle: every transaction of every request,
\* sweep, webhook and event is one move of session.go's Status, made when what
\* it waits for has been established, or leaves the lifecycle's state alone.
THEOREM ImplementsLifecycle == Spec => KeepsLifecycle
<1>1. Init => Promise!Init
  BY DEF Init, Promise!Init
<1>2. Inv /\ [Next]_vars => [Promise!Next]_(Promise!vars)
  BY Stepping DEF Step
<1> QED  BY InvAlways, <1>1, <1>2, PTL DEF Spec, KeepsLifecycle, Promise!Spec
=============================================================================
