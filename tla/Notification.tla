---------------------------- MODULE Notification ----------------------------
(***************************************************************************)
(* Notifications about one aggregate (internal/notification): an event     *)
(* becomes a row of notification_deliveries per channel inside the bus's   *)
(* transaction (Outbox models the bus), and a worker sends the rows,       *)
(* retrying with a backoff until they are delivered or dead-lettered.      *)
(***************************************************************************)
EXTENDS Integers

CONSTANTS
  WebhookEvents,   \* event types routed to the tenant's webhook
  EmailEvents,     \* event types routed to the ops address
  EmailEnabled,    \* whether an email provider is configured
  Steps,           \* length of backoffSteps: 5
  NoRow,
  MaxPublished,    \* bound: events of one type about the aggregate
  MaxRetries,      \* bound: RetryDelivery calls
  MaxCuts          \* bound: sends or updates cut short

Types == WebhookEvents \cup EmailEvents
Rows == (WebhookEvents \X {"webhook"}) \cup (EmailEvents \X {"email"})

ASSUME NotificationAssumption ==
  /\ EmailEnabled \in BOOLEAN
  /\ Steps \in Nat \ {0}
  /\ NoRow \notin Rows
  /\ MaxPublished \in Nat /\ MaxRetries \in Nat /\ MaxCuts \in Nat

VARIABLES
  published, \* events of each type committed to the outbox
  waiting,   \* those not dispatched yet
  endpoint,  \* whether the tenant has set a webhook URL
  delivery,  \* notification_deliveries, one row per type and channel
  received,  \* sends that reached the receiver
  failures,  \* sends of a row that failed since its ladder began, up to Steps + 1
  step,      \* the worker's next step
  cur,       \* the row it has claimed
  attempt,   \* its copy of that row's attempt_count
  retries,   \* bounded by MaxRetries
  cuts       \* bounded by MaxCuts

deliveryVars == <<published, waiting, endpoint, delivery, received, failures, step,
                  cur, attempt, retries, cuts>>
outbox == <<published, waiting>>
worker == <<step, cur, attempt>>

DeliveryTypeOK ==
  /\ published \in [Types -> 0..MaxPublished]
  /\ \A t \in Types : waiting[t] \in 0..published[t]
  /\ endpoint \in BOOLEAN
  /\ delivery \in [Rows -> [status : {"none", "pending_dispatch", "delivered", "dead_letter"},
                            attempts : 0..(Steps + 1), due : BOOLEAN]]
  /\ received \in [Rows -> BOOLEAN]
  /\ failures \in [Rows -> 0..(Steps + 1)]
  /\ step \in {"idle", "send", "delivered", "failed"}
  /\ cur \in Rows \cup {NoRow}
  /\ attempt \in 0..Steps
  /\ retries \in 0..MaxRetries
  /\ cuts \in 0..MaxCuts

DeliveryInit ==
  /\ published = [t \in Types |-> 0]
  /\ waiting = [t \in Types |-> 0]
  /\ endpoint = FALSE
  /\ delivery = [k \in Rows |-> [status |-> "none", attempts |-> 0, due |-> FALSE]]
  /\ received = [k \in Rows |-> FALSE]
  /\ failures = [k \in Rows |-> 0]
  /\ step = "idle" /\ cur = NoRow /\ attempt = 0
  /\ retries = 0
  /\ cuts = 0

-----------------------------------------------------------------------------
(* Events. *)

PublishEvent(t) ==
  /\ published[t] < MaxPublished
  /\ published' = [published EXCEPT ![t] = @ + 1]
  /\ waiting' = [waiting EXCEPT ![t] = @ + 1]
  /\ UNCHANGED <<endpoint, delivery, received, failures, worker, retries, cuts>>

\* The rows an event makes: one per channel with a destination, unless there
\* already is one for this aggregate, type and channel.
NewRows(t) ==
  {k \in Rows : /\ k[1] = t
                /\ k[2] = "webhook" => endpoint
                /\ delivery[k].status = "none"}

HandleEvent(t) ==
  /\ waiting[t] > 0
  /\ waiting' = [waiting EXCEPT ![t] = @ - 1]
  /\ delivery' = [k \in Rows |-> IF k \in NewRows(t)
                                 THEN [status |-> "pending_dispatch", attempts |-> 0, due |-> TRUE]
                                 ELSE delivery[k]]
  /\ UNCHANGED <<published, endpoint, received, failures, worker, retries, cuts>>

\* The tenant's or an admin's request: the first call stores a signing secret
\* with the URL, later ones keep it, and nothing ever clears either.  A row keeps
\* the URL it was made with.
SetWebhookURL ==
  /\ endpoint' = TRUE
  /\ UNCHANGED <<outbox, delivery, received, failures, worker, retries, cuts>>

-----------------------------------------------------------------------------
(* The dispatch worker, which serves one row at a time. *)

IsDue(k) == delivery[k].status = "pending_dispatch" /\ delivery[k].due

\* The claim pushes next_attempt_at five minutes away.
ClaimDelivery(k) ==
  /\ step = "idle"
  /\ IsDue(k)
  /\ delivery' = [delivery EXCEPT ![k].due = FALSE]
  /\ step' = "send" /\ cur' = k /\ attempt' = delivery[k].attempts
  /\ UNCHANGED <<outbox, endpoint, received, failures, retries, cuts>>

WorkerDone == step' = "idle" /\ cur' = NoRow /\ attempt' = 0

DeadLetter(k) ==
  delivery' = [delivery EXCEPT ![k].status = "dead_letter", ![k].attempts = @ + 1]

DisabledEmail == cur[2] = "email" /\ ~EmailEnabled

\* A disabled email provider fails identically on every attempt.
DeadLetterDisabled ==
  /\ step = "send" /\ DisabledEmail
  /\ DeadLetter(cur)
  /\ WorkerDone
  /\ UNCHANGED <<outbox, endpoint, received, failures, retries, cuts>>

\* A send that fails may still have reached the receiver; without a webhook
\* configuration nothing is sent.
Send ==
  /\ step = "send" /\ ~DisabledEmail
  /\ \/ /\ cur[2] = "webhook" => endpoint
        /\ received' = [received EXCEPT ![cur] = TRUE]
        /\ step' = "delivered"
        /\ UNCHANGED failures
     \/ /\ \/ UNCHANGED received
           \/ /\ cur[2] = "webhook" => endpoint
              /\ received' = [received EXCEPT ![cur] = TRUE]
        /\ failures' = [failures EXCEPT ![cur] = IF @ > Steps THEN @ ELSE @ + 1]
        /\ step' = "failed"
  /\ UNCHANGED <<outbox, endpoint, delivery, cur, attempt, retries, cuts>>

MarkDelivered ==
  /\ step = "delivered"
  /\ delivery' = [delivery EXCEPT ![cur].status = "delivered"]
  /\ WorkerDone
  /\ UNCHANGED <<outbox, endpoint, received, failures, retries, cuts>>

Exhausted_Early(n) == n >= Steps
Exhausted(n) == n > Steps

Backoff_NotCounted(k, n) == [delivery EXCEPT ![k].attempts = n - 1]
Backoff(k, n) == [delivery EXCEPT ![k].attempts = n]

HandleDeliveryFailure ==
  /\ step = "failed"
  /\ IF Exhausted(attempt + 1)
     THEN DeadLetter(cur)
     ELSE delivery' = Backoff(cur, attempt + 1)
  /\ WorkerDone
  /\ UNCHANGED <<outbox, endpoint, received, failures, retries, cuts>>

\* RetryDelivery: ops restart the whole ladder of a dead-lettered row.
RetryDelivery(k) ==
  /\ delivery[k].status = "dead_letter"
  /\ retries < MaxRetries
  /\ retries' = retries + 1
  /\ delivery' = [delivery EXCEPT ![k] =
                     [status |-> "pending_dispatch", attempts |-> 0, due |-> TRUE]]
  /\ failures' = [failures EXCEPT ![k] = 0]
  /\ UNCHANGED <<outbox, endpoint, received, worker, cuts>>

-----------------------------------------------------------------------------
(* Time and failures. *)

\* next_attempt_at is reached: the backoff's, or the claim's five minutes, far
\* longer than the eight seconds a send may take.
BecomesDue(k) ==
  /\ delivery[k].status # "none"
  /\ ~delivery[k].due
  /\ cur # k
  /\ delivery' = [delivery EXCEPT ![k].due = TRUE]
  /\ UNCHANGED <<outbox, endpoint, received, failures, worker, retries, cuts>>

\* A crash or a database error after the claim or after the send.
Interrupted ==
  /\ step # "idle"
  /\ cuts < MaxCuts
  /\ cuts' = cuts + 1
  /\ WorkerDone
  /\ UNCHANGED <<outbox, endpoint, delivery, received, failures, retries>>

-----------------------------------------------------------------------------
Work ==
  \/ \E k \in Rows : ClaimDelivery(k)
  \/ DeadLetterDisabled \/ Send \/ MarkDelivered \/ HandleDeliveryFailure

DeliveryNext ==
  \/ \E t \in Types : PublishEvent(t) \/ HandleEvent(t)
  \/ \E k \in Rows : RetryDelivery(k) \/ BecomesDue(k)
  \/ SetWebhookURL
  \/ Work
  \/ Interrupted

DeliverySpec == DeliveryInit /\ [][DeliveryNext]_deliveryVars

\* The bus and the worker keep ticking and time passes; rows are claimed in
\* the order they became due, so none waits for ever.
LiveDeliverySpec ==
  /\ DeliverySpec
  /\ \A t \in Types : WF_deliveryVars(HandleEvent(t))
  /\ \A k \in Rows : WF_deliveryVars(BecomesDue(k)) /\ SF_deliveryVars(ClaimDelivery(k))
  /\ WF_deliveryVars(Work)

-----------------------------------------------------------------------------
(* Properties. *)

\* Whatever is marked delivered was received, and a notification is given up
\* only after the whole backoff schedule has failed since ops last restarted it
\* (or its channel is disabled), however crashes and retries fall around a send.
EndsAreEarned ==
  \A k \in Rows :
    /\ delivery[k].status = "delivered" => received[k]
    /\ delivery[k].status = "dead_letter" /\ (k[2] = "email" => EmailEnabled)
         => failures[k] > Steps

\* Every row ends delivered or in the dead-letter queue, crashes included.
PendingResolves ==
  \A k \in Rows : delivery[k].status = "pending_dispatch"
                    ~> delivery[k].status \in {"delivered", "dead_letter"}

=============================================================================
