--------------------------- MODULE DeliveryProofs ---------------------------
(***************************************************************************)
(* Proofs about the two hops of an event: the outbox that hands it to its  *)
(* handlers (Outbox, for any events, dispatchers, failing handlers, batch  *)
(* size and number of faults), and the deliveries one of those handlers    *)
(* writes (Notification, for any event types, schedule and faults).        *)
(*                                                                         *)
(* The outbox's promise is about committed effects; what carries it is the *)
(* lock: a claimed row is waiting, and no two dispatchers' transactions    *)
(* have claimed the same one, so a commit finds an event without effects.  *)
(***************************************************************************)
EXTENDS Outbox, Notification, TLAPS

Typed ==
  /\ row \in [Events -> States]
  /\ pc \in [Dispatchers -> {"idle", "claim", "run", "commit"}]
  /\ claim \in [Dispatchers -> Events \cup {NoEvent}]
  /\ effects \in [Events -> Nat]

Working(d) == pc[d] \in {"run", "commit"}

\* A dispatcher's transaction holds the lock of one waiting row while it works.
HoldsWaitingRow ==
  \A d \in Dispatchers :
    IF Working(d) THEN claim[d] \in Events /\ row[claim[d]] = "waiting" ELSE claim[d] = NoEvent

LocksExclude ==
  \A c, d \in Dispatchers : claim[c] = claim[d] /\ claim[c] # NoEvent => c = d

\* dispatched_at and the handlers' writes are one transaction's.
EffectsMatchRows ==
  \A e \in Events : effects[e] = IF row[e] \in {"dispatched", "deleted"} THEN 1 ELSE 0

Inv == Typed /\ HoldsWaitingRow /\ LocksExclude /\ EffectsMatchRows

-----------------------------------------------------------------------------
LEMMA InvInit == Init => Inv
  BY OutboxAssumption DEF Init, Inv, Typed, States, HoldsWaitingRow, Working, LocksExclude,
                          EffectsMatchRows

\* A row nobody has claimed changes to a status with the same effects.
LEMMA RowStep ==
  ASSUME Inv, NEW e \in Events, NEW s \in States,
         row' = [row EXCEPT ![e] = s],
         s \in {"dispatched", "deleted"} <=> row[e] \in {"dispatched", "deleted"},
         row[e] # "waiting",
         UNCHANGED publishing
  PROVE  Inv'
<1>1. Typed'
  BY DEF Inv, Typed, publishing
<1>2. HoldsWaitingRow'
  BY DEF Inv, Typed, HoldsWaitingRow, Working, publishing
<1>3. LocksExclude'
  BY DEF Inv, LocksExclude, publishing
<1>4. EffectsMatchRows'
  BY DEF Inv, Typed, EffectsMatchRows, publishing
<1>5. QED
  BY <1>1, <1>2, <1>3, <1>4 DEF Inv

\* A dispatcher's transaction ends without having changed anything.
LEMMA RollbackStep ==
  ASSUME Inv, NEW d \in Dispatchers, RolledBack(d)
  PROVE  Inv'
<1>1. Typed'
  BY DEF Inv, Typed, RolledBack
<1>2. HoldsWaitingRow'
  BY DEF Inv, Typed, HoldsWaitingRow, Working, RolledBack
<1>3. LocksExclude'
  BY DEF Inv, Typed, LocksExclude, RolledBack
<1>4. EffectsMatchRows'
  BY DEF Inv, EffectsMatchRows, RolledBack
<1>5. QED
  BY <1>1, <1>2, <1>3, <1>4 DEF Inv

\* FOR UPDATE SKIP LOCKED: the new claim is of a row nobody else has locked.
LEMMA ClaimStep ==
  ASSUME Inv, NEW d \in Dispatchers, ClaimOldest(d)
  PROVE  Inv'
<1> DEFINE oldest == {e \in Events : /\ Claimable(e)
                                     /\ \A f \in Events : Claimable(f) => created[e] <= created[f]}
<1>1. CASE oldest = {}
  <2>1. pc' = [pc EXCEPT ![d] = "idle"] /\ pc[d] = "claim" /\ UNCHANGED <<row, claim, effects>>
    BY <1>1 DEF ClaimOldest
  <2>2. QED
    BY <2>1 DEF Inv, Typed, HoldsWaitingRow, Working, LocksExclude, EffectsMatchRows
<1>2. CASE oldest # {}
  <2>1. PICK e \in Events : Claimable(e) /\ claim' = [claim EXCEPT ![d] = e]
    BY <1>2 DEF ClaimOldest
  <2>2. pc' = [pc EXCEPT ![d] = "run"] /\ UNCHANGED <<row, effects>>
    BY <1>2 DEF ClaimOldest
  <2>3. Typed'
    BY <2>1, <2>2 DEF Inv, Typed
  <2>4. HoldsWaitingRow'
    BY <2>1, <2>2 DEF Inv, Typed, HoldsWaitingRow, Working, Claimable
  <2>5. LocksExclude'
    BY <2>1 DEF Inv, Typed, LocksExclude, Claimable
  <2>6. EffectsMatchRows'
    BY <2>2 DEF Inv, EffectsMatchRows
  <2>7. QED
    BY <2>3, <2>4, <2>5, <2>6 DEF Inv
<1>3. QED
  BY <1>1, <1>2

LEMMA CommitStep ==
  ASSUME Inv, NEW d \in Dispatchers, CommitDispatch(d)
  PROVE  Inv'
<1>1. /\ claim[d] \in Events /\ row[claim[d]] = "waiting"
      /\ \A c \in Dispatchers \ {d} : claim[c] # claim[d]
  BY OutboxAssumption DEF Inv, Typed, HoldsWaitingRow, Working, LocksExclude, CommitDispatch
<1>2. Typed'
  BY <1>1 DEF Inv, Typed, States, CommitDispatch
<1>3. HoldsWaitingRow'
  BY <1>1 DEF Inv, Typed, HoldsWaitingRow, Working, CommitDispatch
<1>4. LocksExclude'
  BY DEF Inv, Typed, LocksExclude, CommitDispatch
<1>5. EffectsMatchRows'
  BY <1>1 DEF Inv, Typed, EffectsMatchRows, CommitDispatch
<1>6. QED
  BY <1>2, <1>3, <1>4, <1>5 DEF Inv

LEMMA InvStep == Inv /\ [Next]_vars => Inv'
<1> SUFFICES ASSUME Inv, [Next]_vars
             PROVE  Inv'
  OBVIOUS
<1>1. ASSUME NEW e \in Events, Begin(e) \/ Publish(e) \/ Abort(e) \/ DeleteDispatched(e)
      PROVE  Inv'
  <2>1. CASE Begin(e)
    BY <2>1, RowStep DEF Begin, States
  <2>2. CASE Publish(e)
    BY <2>2, RowStep DEF Publish, States
  <2>3. CASE Abort(e)
    BY <2>3, RowStep DEF Abort, States
  <2>4. CASE DeleteDispatched(e)
    BY <2>4, RowStep DEF DeleteDispatched, States
  <2>5. QED
    BY <1>1, <2>1, <2>2, <2>3, <2>4
<1>2. ASSUME NEW d \in Dispatchers, Tick(d)
      PROVE  Inv'
  BY <1>2 DEF Tick, Inv, Typed, HoldsWaitingRow, Working, LocksExclude, EffectsMatchRows
<1>3. ASSUME NEW d \in Dispatchers, RunHandlers(d)
      PROVE  Inv'
  <2>1. CASE claim[d] \in Poison
    BY <1>3, <2>1, RollbackStep DEF RunHandlers
  <2>2. CASE claim[d] \notin Poison
    <3>1. pc[d] = "run" /\ pc' = [pc EXCEPT ![d] = "commit"] /\ UNCHANGED <<row, claim, effects>>
      BY <1>3, <2>2 DEF RunHandlers
    <3>2. QED
      BY <3>1 DEF Inv, Typed, HoldsWaitingRow, Working, LocksExclude, EffectsMatchRows
  <2>3. QED
    BY <2>1, <2>2
<1>4. ASSUME NEW d \in Dispatchers, Fault(d)
      PROVE  Inv'
  BY <1>4, RollbackStep DEF Fault
<1>5. CASE UNCHANGED vars
  BY <1>5 DEF vars, Inv, Typed, HoldsWaitingRow, Working, LocksExclude, EffectsMatchRows
<1>6. QED
  BY <1>1, <1>2, <1>3, <1>4, <1>5, ClaimStep, CommitStep DEF Next, Dispatch

-----------------------------------------------------------------------------
LEMMA PromiseInit == Init => Promise!Init
  BY DEF Init, Promise!Init

\* Each step of the outbox is one of the promise or none of its business:
\* Publish's commit publishes, a dispatcher's commit handles.
LEMMA PromiseStep == Inv /\ [Next]_vars => [Promise!Next]_(Promise!vars)
<1> SUFFICES ASSUME Inv, [Next]_vars
             PROVE  [Promise!Next]_(Promise!vars)
  OBVIOUS
<1> DEFINE visible == {e \in Events : row[e] \in {"waiting", "dispatched", "deleted"}}
<1>1. ASSUME NEW e \in Events, Publish(e)
      PROVE  Promise!Publish(e)
  <2>1. e \notin visible /\ visible' = visible \cup {e} /\ UNCHANGED effects
    BY <1>1 DEF Publish, publishing, Inv, Typed
  <2>2. QED
    BY <2>1 DEF Promise!Publish
<1>2. ASSUME NEW d \in Dispatchers, CommitDispatch(d)
      PROVE  Promise!Handle(claim[d]) /\ claim[d] \in Events
  <2>1. claim[d] \in Events /\ row[claim[d]] = "waiting" /\ effects[claim[d]] = 0
    BY <1>2 DEF CommitDispatch, Inv, HoldsWaitingRow, Working, EffectsMatchRows
  <2>2. effects' = [effects EXCEPT ![claim[d]] = 1] /\ visible' = visible
    BY <1>2, <2>1 DEF CommitDispatch, Inv, Typed
  <2>3. QED
    BY <2>1, <2>2 DEF Promise!Handle
<1>3. ASSUME NEW e \in Events, Begin(e) \/ Abort(e) \/ DeleteDispatched(e)
      PROVE  UNCHANGED Promise!vars
  <2>1. visible' = visible /\ UNCHANGED effects
    BY <1>3 DEF Begin, Abort, DeleteDispatched, publishing, Inv, Typed
  <2>2. QED
    BY <2>1 DEF Promise!vars
<1>4. ASSUME NEW d \in Dispatchers, Tick(d) \/ ClaimOldest(d) \/ RunHandlers(d) \/ Fault(d)
      PROVE  UNCHANGED Promise!vars
  BY <1>4 DEF Tick, ClaimOldest, RunHandlers, RolledBack, Fault, Promise!vars
<1>5. CASE UNCHANGED vars
  BY <1>5 DEF vars, Promise!vars
<1>6. QED
  BY <1>1, <1>2, <1>3, <1>4, <1>5 DEF Next, Dispatch, Promise!Next

\* eventbus.go:3: an event "can never be lost or duplicated" relative to the state
\* change it describes.  Whatever dispatchers race, roll back or crash, and
\* whatever the cleanup deletes, the handlers of an event take effect at most
\* once, and only for a committed publish.
THEOREM ImplementsPromise == Spec => HandledExactlyOnce
<1>1. Init /\ [][Next]_vars => []Inv
  BY InvInit, InvStep, PTL
<1>2. QED
  BY <1>1, PromiseInit, PromiseStep, PTL DEF Spec, HandledExactlyOnce, Promise!Spec

-----------------------------------------------------------------------------
(* Deliveries.  The notification worker has its own rows and program counter. *)

Delivery == [status : {"none", "pending_dispatch", "delivered", "dead_letter"},
             attempts : 0..(Steps + 1), due : BOOLEAN]

\* What the worker has claimed stays pending while it works, with the count it
\* has copied: only it counts, and a retry takes what is dead-lettered.
ClaimHeld ==
  step # "idle" => /\ cur \in Rows
                   /\ delivery[cur].status = "pending_dispatch"
                   /\ delivery[cur].attempts = attempt

\* A row counts no attempt that did not fail.
LadderClimbed ==
  \A k \in Rows :
    delivery[k].status \in {"none", "pending_dispatch"} =>
      delivery[k].attempts <= Steps /\ delivery[k].attempts <= failures[k]

\* The send that the worker is about to record.
SendKnown ==
  /\ step = "failed" => failures[cur] > attempt
  /\ step = "delivered" => received[cur]

LadderInv ==
  DeliveryTypeOK /\ ClaimHeld /\ LadderClimbed /\ SendKnown /\ EndsAreEarned

LEMMA LadderInit == DeliveryInit => LadderInv
<1> SUFFICES ASSUME DeliveryInit PROVE LadderInv
  OBVIOUS
<1>1. DeliveryTypeOK
  <2>1. /\ published \in [Types -> 0..MaxPublished]
        /\ \A t \in Types : waiting[t] \in 0..published[t]
        /\ endpoint \in BOOLEAN
    <3>1. \A t \in Types : published[t] = 0 /\ waiting[t] = 0
      BY DEF DeliveryInit
    <3>2. 0 \in 0..MaxPublished /\ 0 \in 0..0
      BY NotificationAssumption
    <3>3. published \in [Types -> 0..MaxPublished]
      BY <3>2 DEF DeliveryInit
    <3>4. QED
      BY <3>1, <3>2, <3>3 DEF DeliveryInit
  <2>2. delivery \in [Rows -> Delivery]
    BY NotificationAssumption DEF DeliveryInit, Delivery
  <2>3. /\ received \in [Rows -> BOOLEAN]
        /\ failures \in [Rows -> 0..(Steps + 1)]
    BY NotificationAssumption DEF DeliveryInit
  <2>4. /\ step \in {"idle", "send", "delivered", "failed"}
        /\ cur \in Rows \cup {NoRow} /\ attempt \in 0..Steps
        /\ retries \in 0..MaxRetries /\ cuts \in 0..MaxCuts
    BY NotificationAssumption DEF DeliveryInit
  <2>5. QED
    BY <2>1, <2>2, <2>3, <2>4 DEF DeliveryTypeOK, Delivery
<1>2. ClaimHeld /\ LadderClimbed /\ SendKnown /\ EndsAreEarned
  BY NotificationAssumption DEF DeliveryInit, ClaimHeld, LadderClimbed, SendKnown, EndsAreEarned
<1>3. QED
  BY <1>1, <1>2 DEF LadderInv

\* What one action of a row must keep for LadderInv to hold after it.
LEMMA LadderKept ==
  ASSUME LadderInv, NEW k \in Rows, NEW r \in Delivery,
         delivery' = [delivery EXCEPT ![k] = r],
         UNCHANGED <<published, waiting, endpoint, received, cuts>>,
         failures' \in [Rows -> 0..(Steps + 1)],
         \A j \in Rows \ {k} : failures'[j] = failures[j],
         retries' \in 0..MaxRetries, attempt' \in 0..Steps, SendKnown',
         step' \in {"idle", "send", "delivered", "failed"}, cur' \in Rows \cup {NoRow},
         step' # "idle" => \/ UNCHANGED <<step, cur, attempt>> /\ cur # k
                           \/ cur' = k /\ r.status = "pending_dispatch" /\ r.attempts = attempt',
         r.status \in {"none", "pending_dispatch"} =>
           r.attempts <= Steps /\ r.attempts <= failures'[k],
         r.status = "delivered" => received[k],
         r.status = "dead_letter" /\ (k[2] = "email" => EmailEnabled) => failures'[k] > Steps
  PROVE  LadderInv'
<1>1. delivery \in [Rows -> Delivery]
  BY DEF LadderInv, DeliveryTypeOK, Delivery
<1>2. /\ delivery' \in [Rows -> Delivery] /\ delivery'[k] = r
      /\ \A j \in Rows \ {k} : delivery'[j] = delivery[j]
  BY <1>1
<1>3. DeliveryTypeOK'
  BY <1>2 DEF LadderInv, DeliveryTypeOK, Delivery
<1>4. ClaimHeld'
  BY <1>2 DEF LadderInv, ClaimHeld
<1>5. LadderClimbed'
  BY <1>2 DEF LadderInv, LadderClimbed
<1>6. EndsAreEarned'
  BY <1>2 DEF LadderInv, EndsAreEarned
<1>7. QED
  BY <1>3, <1>4, <1>5, <1>6 DEF LadderInv

LEMMA LadderNext ==
  ASSUME LadderInv, [DeliveryNext]_deliveryVars
  PROVE  LadderInv'
<1> USE DEF LadderInv
<1>1. ASSUME NEW t \in Types, PublishEvent(t)
      PROVE  LadderInv'
  <2>1. /\ published' \in [Types -> 0..MaxPublished]
        /\ \A u \in Types : waiting'[u] \in 0..published'[u]
    BY NotificationAssumption, <1>1 DEF DeliveryTypeOK, PublishEvent
  <2>2. QED
    BY <1>1, <2>1 DEF PublishEvent, DeliveryTypeOK, worker, ClaimHeld,
                      LadderClimbed, SendKnown, EndsAreEarned
<1>2. ASSUME NEW t \in Types, HandleEvent(t)
      PROVE  LadderInv'
  <2>1. \A u \in Types : waiting'[u] \in 0..published[u]
    BY <1>2 DEF DeliveryTypeOK, HandleEvent
  <2>2. \A k \in Rows :
          \/ delivery'[k] = delivery[k]
          \/ /\ delivery[k].status = "none"
             /\ delivery'[k] = [status |-> "pending_dispatch", attempts |-> 0, due |-> TRUE]
    BY <1>2 DEF HandleEvent, NewRows
  <2>3. delivery' \in [Rows -> Delivery]
    <3>1. [status |-> "pending_dispatch", attempts |-> 0, due |-> TRUE] \in Delivery
      BY NotificationAssumption DEF Delivery
    <3>2. QED
      BY <1>2, <3>1 DEF HandleEvent, DeliveryTypeOK, Delivery
  <2>4. DeliveryTypeOK'
    BY <1>2, <2>1, <2>3 DEF DeliveryTypeOK, HandleEvent, worker, Delivery
  <2>5. ClaimHeld' /\ SendKnown'
    BY <1>2, <2>2 DEF ClaimHeld, SendKnown, HandleEvent, worker
  <2>6. LadderClimbed'
    BY NotificationAssumption, <1>2, <2>2 DEF DeliveryTypeOK, LadderClimbed, HandleEvent
  <2>7. EndsAreEarned'
    BY <1>2, <2>2 DEF EndsAreEarned, HandleEvent
  <2>8. QED
    BY <2>4, <2>5, <2>6, <2>7
<1>3. CASE SetWebhookURL
  BY <1>3 DEF SetWebhookURL, DeliveryTypeOK, worker, outbox, ClaimHeld,
              LadderClimbed, SendKnown, EndsAreEarned
<1>4. ASSUME NEW k \in Rows, ClaimDelivery(k)
      PROVE  LadderInv'
  <2> DEFINE r == [delivery[k] EXCEPT !.due = FALSE]
  <2>1. /\ r \in Delivery /\ r.status = "pending_dispatch"
        /\ r.attempts = delivery[k].attempts /\ delivery' = [delivery EXCEPT ![k] = r]
    BY <1>4 DEF ClaimDelivery, IsDue, DeliveryTypeOK, Delivery
  <2>2. r.attempts <= Steps /\ r.attempts <= failures[k] /\ r.attempts \in 0..Steps
    BY NotificationAssumption, <1>4, <2>1 DEF LadderClimbed, Delivery, ClaimDelivery, IsDue
  <2>3. SendKnown'
    BY <1>4 DEF SendKnown, ClaimDelivery
  <2> HIDE DEF r
  <2>4. QED
    BY <1>4, <2>1, <2>2, <2>3, LadderKept
       DEF ClaimDelivery, DeliveryTypeOK, outbox
<1>5. ASSUME step # "idle",
             NEW r \in Delivery, delivery' = [delivery EXCEPT ![cur] = r],
             WorkerDone,
             UNCHANGED <<published, waiting, endpoint, received, failures, retries, cuts>>,
             r.status \in {"none", "pending_dispatch"} =>
               r.attempts <= Steps /\ r.attempts <= failures[cur],
             r.status = "delivered" => received[cur],
             r.status = "dead_letter" /\ (cur[2] = "email" => EmailEnabled)
               => failures[cur] > Steps
      PROVE  LadderInv'
  <2>1. cur \in Rows
    BY <1>5 DEF ClaimHeld
  <2>2. SendKnown' /\ step' = "idle" /\ cur' = NoRow /\ attempt' = 0
    BY <1>5 DEF SendKnown, WorkerDone
  <2>3. attempt' \in 0..Steps
    BY NotificationAssumption, <2>2
  <2>4. QED
    BY <1>5, <2>1, <2>2, <2>3, LadderKept DEF DeliveryTypeOK
<1>6. step # "idle" => /\ cur \in Rows /\ delivery[cur] \in Delivery
                       /\ attempt \in 0..Steps /\ delivery[cur].attempts = attempt
                       /\ attempt <= failures[cur] /\ failures[cur] \in 0..(Steps + 1)
  BY DEF ClaimHeld, LadderClimbed, DeliveryTypeOK, Delivery
<1>7. CASE DeadLetterDisabled
  <2> DEFINE r == [delivery[cur] EXCEPT !.status = "dead_letter", !.attempts = @ + 1]
  <2>1. /\ step # "idle" /\ r \in Delivery /\ r.status = "dead_letter"
        /\ delivery' = [delivery EXCEPT ![cur] = r]
    BY NotificationAssumption, <1>6, <1>7
       DEF DeadLetterDisabled, DeadLetter, DeliveryTypeOK, Delivery
  <2> HIDE DEF r
  <2>2. QED
    BY <1>5, <1>7, <2>1 DEF DeadLetterDisabled, DisabledEmail, outbox
<1>8. CASE Send
  <2>1. /\ step = "send" /\ step' \in {"delivered", "failed"}
        /\ UNCHANGED <<published, waiting, endpoint, delivery, cur, attempt, retries, cuts>>
    BY <1>8 DEF Send, outbox
  <2>2. /\ received' \in [Rows -> BOOLEAN]
        /\ \A k \in Rows : received[k] => received'[k]
        /\ step' = "delivered" => received'[cur]
    BY <1>6, <1>8 DEF Send, DeliveryTypeOK
  <2>3. /\ failures' \in [Rows -> 0..(Steps + 1)]
        /\ \A k \in Rows : failures'[k] >= failures[k]
        /\ step' = "failed" => failures'[cur] > attempt
    <3>1. CASE UNCHANGED failures /\ step' = "delivered"
      BY <3>1 DEF DeliveryTypeOK
    <3>2. CASE /\ step' = "failed"
               /\ failures' = [failures EXCEPT ![cur] = IF @ > Steps THEN @ ELSE @ + 1]
      BY NotificationAssumption, <1>6, <2>1, <3>2 DEF DeliveryTypeOK
    <3>3. QED
      BY <1>8, <3>1, <3>2 DEF Send
  <2>4. DeliveryTypeOK'
    BY <2>1, <2>2, <2>3 DEF DeliveryTypeOK
  <2>5. ClaimHeld' /\ SendKnown'
    BY <2>1, <2>2, <2>3 DEF ClaimHeld, SendKnown
  <2>6. LadderClimbed' /\ EndsAreEarned'
    BY NotificationAssumption, <2>1, <2>2, <2>3 DEF LadderClimbed, EndsAreEarned, DeliveryTypeOK
  <2>7. QED
    BY <2>4, <2>5, <2>6
<1>9. CASE MarkDelivered
  <2> DEFINE r == [delivery[cur] EXCEPT !.status = "delivered"]
  <2>1. /\ step # "idle" /\ r \in Delivery /\ r.status = "delivered" /\ received[cur]
        /\ delivery' = [delivery EXCEPT ![cur] = r]
    BY <1>6, <1>9 DEF MarkDelivered, DeliveryTypeOK, Delivery, SendKnown
  <2> HIDE DEF r
  <2>2. QED
    BY <1>5, <1>9, <2>1 DEF MarkDelivered, outbox
<1>10. CASE HandleDeliveryFailure
  <2>1. step # "idle" /\ failures[cur] > attempt
    BY <1>10 DEF HandleDeliveryFailure, SendKnown
  <2>2. CASE Exhausted(attempt + 1)
    <3> DEFINE r == [delivery[cur] EXCEPT !.status = "dead_letter", !.attempts = @ + 1]
    <3>1. /\ r \in Delivery /\ r.status = "dead_letter"
          /\ delivery' = [delivery EXCEPT ![cur] = r]
      BY NotificationAssumption, <1>6, <1>10, <2>1, <2>2
         DEF HandleDeliveryFailure, DeadLetter, DeliveryTypeOK, Delivery
    <3>2. failures[cur] > Steps
      BY NotificationAssumption, <1>6, <2>1, <2>2 DEF Exhausted
    <3> HIDE DEF r
    <3>3. QED
      BY <1>5, <1>10, <2>1, <3>1, <3>2 DEF HandleDeliveryFailure, outbox
  <2>3. CASE ~Exhausted(attempt + 1)
    <3> DEFINE r == [delivery[cur] EXCEPT !.attempts = attempt + 1]
    <3>1. /\ r \in Delivery /\ r.status = "pending_dispatch" /\ r.attempts = attempt + 1
          /\ delivery' = [delivery EXCEPT ![cur] = r]
      BY NotificationAssumption, <1>6, <1>10, <2>1, <2>3
         DEF HandleDeliveryFailure, Backoff, ClaimHeld, DeliveryTypeOK, Delivery
    <3>2. attempt + 1 <= Steps /\ attempt + 1 <= failures[cur]
      BY NotificationAssumption, <1>6, <2>1, <2>3 DEF Exhausted
    <3> HIDE DEF r
    <3>3. QED
      BY <1>5, <1>10, <2>1, <3>1, <3>2 DEF HandleDeliveryFailure, outbox
  <2>4. QED
    BY <2>2, <2>3
<1>11. ASSUME NEW k \in Rows, RetryDelivery(k)
       PROVE  LadderInv'
  <2> DEFINE r == [status |-> "pending_dispatch", attempts |-> 0, due |-> TRUE]
  <2>1. /\ r \in Delivery /\ r.status = "pending_dispatch" /\ r.attempts = 0 /\ 0 <= Steps
    BY NotificationAssumption DEF Delivery
  <2>2. /\ failures' \in [Rows -> 0..(Steps + 1)] /\ failures'[k] = 0
        /\ \A j \in Rows \ {k} : failures'[j] = failures[j]
    BY NotificationAssumption, <1>11 DEF RetryDelivery, DeliveryTypeOK
  <2>3. step # "idle" => cur # k
    BY <1>11 DEF ClaimHeld, RetryDelivery
  <2>4. SendKnown'
    BY <1>6, <1>11, <2>2, <2>3 DEF SendKnown, RetryDelivery, worker
  <2>5. retries' \in 0..MaxRetries
    BY NotificationAssumption, <1>11 DEF RetryDelivery, DeliveryTypeOK
  <2>6. delivery' = [delivery EXCEPT ![k] = r]
    BY <1>11 DEF RetryDelivery
  <2>7. /\ UNCHANGED <<published, waiting, endpoint, received, cuts, step, cur, attempt>>
        /\ attempt' \in 0..Steps /\ step' \in {"idle", "send", "delivered", "failed"}
        /\ cur' \in Rows \cup {NoRow}
    BY <1>11 DEF RetryDelivery, DeliveryTypeOK, outbox, worker
  <2>8. r.attempts <= Steps /\ r.attempts <= failures'[k]
    BY <2>1, <2>2
  <2> HIDE DEF r, LadderInv
  <2>9. QED
    BY <2>1, <2>2, <2>3, <2>4, <2>5, <2>6, <2>7, <2>8, LadderKept
<1>12. ASSUME NEW k \in Rows, BecomesDue(k)
       PROVE  LadderInv'
  <2> DEFINE r == [delivery[k] EXCEPT !.due = TRUE]
  <2>1. /\ r \in Delivery /\ r.status = delivery[k].status
        /\ r.attempts = delivery[k].attempts /\ delivery' = [delivery EXCEPT ![k] = r]
    BY <1>12 DEF BecomesDue, DeliveryTypeOK, Delivery
  <2>2. SendKnown' /\ cur # k
    BY <1>12 DEF SendKnown, BecomesDue, worker
  <2>3. /\ UNCHANGED <<published, waiting, endpoint, received, failures, retries, cuts,
                       step, cur, attempt>>
        /\ attempt' \in 0..Steps /\ step' \in {"idle", "send", "delivered", "failed"}
        /\ cur' \in Rows \cup {NoRow} /\ retries' \in 0..MaxRetries
        /\ failures' \in [Rows -> 0..(Steps + 1)]
    BY <1>12 DEF BecomesDue, DeliveryTypeOK, outbox, worker
  <2>4. /\ r.status \in {"none", "pending_dispatch"} =>
             r.attempts <= Steps /\ r.attempts <= failures[k]
        /\ r.status = "delivered" => received[k]
        /\ r.status = "dead_letter" /\ (k[2] = "email" => EmailEnabled) => failures[k] > Steps
    BY <2>1 DEF LadderClimbed, EndsAreEarned
  <2> HIDE DEF r, LadderInv
  <2>5. QED
    BY <2>1, <2>2, <2>3, <2>4, LadderKept
<1>13. CASE Interrupted
  <2>1. cuts' \in 0..MaxCuts /\ attempt' \in 0..Steps
    BY NotificationAssumption, <1>13 DEF Interrupted, WorkerDone, DeliveryTypeOK
  <2>2. QED
    BY <1>13, <2>1 DEF Interrupted, WorkerDone, DeliveryTypeOK, outbox,
                       ClaimHeld, LadderClimbed, SendKnown, EndsAreEarned
<1>14. CASE UNCHANGED deliveryVars
  BY <1>14 DEF deliveryVars, DeliveryTypeOK, ClaimHeld, LadderClimbed, SendKnown,
               EndsAreEarned
<1>15. QED
  BY <1>1, <1>2, <1>3, <1>4, <1>7, <1>8, <1>9, <1>10, <1>11, <1>12, <1>13, <1>14
     DEF DeliveryNext, Work

\* notification/dispatch.go: whatever crashes fall between a send and its mark, and
\* however often ops restart a row, what is marked delivered reached its receiver
\* and what is given up has failed on every step of the schedule since it was last
\* restarted (or its channel is disabled).
THEOREM DeliveriesAreEarned == DeliverySpec => [](DeliveryTypeOK /\ EndsAreEarned)
<1>1. DeliveryInit /\ [][DeliveryNext]_deliveryVars => []LadderInv
  BY LadderInit, LadderNext, PTL
<1>2. LadderInv => DeliveryTypeOK /\ EndsAreEarned
  BY DEF LadderInv
<1>3. QED
  BY <1>1, <1>2, PTL DEF DeliverySpec
=============================================================================
