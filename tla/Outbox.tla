------------------------------- MODULE Outbox -------------------------------
(***************************************************************************)
(* The transactional outbox (internal/platform/eventbus): publishers write *)
(* events inside their own transactions, dispatchers claim the oldest      *)
(* undispatched one with SELECT ... FOR UPDATE SKIP LOCKED, run its        *)
(* handlers and mark it in one transaction, and a cleanup job deletes what *)
(* has been dispatched.  One action is one statement that another          *)
(* connection can observe or that can fail.                                *)
(***************************************************************************)
EXTENDS Integers, FiniteSets

CONSTANTS
  Events,       \* the events published, each by a transaction of its own
  Dispatchers,  \* one Bus.Run per server process
  NoEvent,
  Poison,       \* events whose handler always returns an error
  BatchSize,    \* config.EventbusBatchSize
  MaxFaults     \* bound: rollbacks by crashes and transient errors

ASSUME OutboxAssumption ==
  /\ NoEvent \notin Events
  /\ Poison \subseteq Events
  /\ BatchSize \in Nat \ {0}
  /\ MaxFaults \in Nat

VARIABLES
  row,      \* the outbox_events row of each event, or its transaction
  created,  \* created_at: the start of the publishing transaction
  pc,       \* the next statement of each dispatcher
  claim,    \* the row each dispatcher's transaction has locked
  left,     \* events its batch may still take
  effects,  \* committed runs of each event's handlers
  faults    \* bounded by MaxFaults

vars == <<row, created, pc, claim, left, effects, faults>>

States == {"none", "open", "aborted", "waiting", "dispatched", "deleted"}

TypeOK ==
  /\ row \in [Events -> States]
  /\ created \in [Events -> Nat]
  /\ pc \in [Dispatchers -> {"idle", "claim", "run", "commit"}]
  /\ claim \in [Dispatchers -> Events \cup {NoEvent}]
  /\ left \in [Dispatchers -> 0..BatchSize]
  /\ effects \in [Events -> Nat]
  /\ faults \in 0..MaxFaults

Init ==
  /\ row = [e \in Events |-> "none"]
  /\ created = [e \in Events |-> 0]
  /\ pc = [d \in Dispatchers |-> "idle"]
  /\ claim = [d \in Dispatchers |-> NoEvent]
  /\ left = [d \in Dispatchers |-> 0]
  /\ effects = [e \in Events |-> 0]
  /\ faults = 0

-----------------------------------------------------------------------------
(* Publishers.  created_at is now(), the start of the transaction, so an    *)
(* event can become visible after younger ones have been dispatched.        *)

publishing == <<pc, claim, left, effects>>

Begin(e) ==
  /\ row[e] = "none"
  /\ row' = [row EXCEPT ![e] = "open"]
  /\ created' = [created EXCEPT ![e] = 1 + Cardinality({f \in Events : created[f] # 0})]
  /\ UNCHANGED <<faults, publishing>>

Publish(e) ==
  /\ row[e] = "open"
  /\ row' = [row EXCEPT ![e] = "waiting"]
  /\ UNCHANGED <<created, faults, publishing>>

Abort(e) ==
  /\ row[e] = "open"
  /\ row' = [row EXCEPT ![e] = "aborted"]
  /\ UNCHANGED <<created, faults, publishing>>

-----------------------------------------------------------------------------
(* Dispatchers. *)

Tick(d) ==
  /\ pc[d] = "idle"
  /\ \E e \in Events : row[e] = "waiting"   \* a tick that finds nothing changes nothing
  /\ pc' = [pc EXCEPT ![d] = "claim"]
  /\ left' = [left EXCEPT ![d] = BatchSize]
  /\ UNCHANGED <<row, created, claim, effects, faults>>

Claimable_Unlocked(e) == row[e] = "waiting"
Claimable_Cursor(e) ==
  /\ row[e] = "waiting" /\ \A d \in Dispatchers : claim[d] # e
  /\ \A f \in Events : row[f] \in {"dispatched", "deleted"} => created[f] < created[e]
\* WHERE dispatched_at IS NULL ... FOR UPDATE SKIP LOCKED.
Claimable(e) == row[e] = "waiting" /\ \A d \in Dispatchers : claim[d] # e

ClaimOldest(d) ==
  LET oldest == {e \in Events : /\ Claimable(e)
                                /\ \A f \in Events : Claimable(f) => created[e] <= created[f]}
  IN /\ pc[d] = "claim"
     /\ IF oldest = {}
        THEN /\ pc' = [pc EXCEPT ![d] = "idle"]
             /\ UNCHANGED claim
        ELSE /\ \E e \in oldest : claim' = [claim EXCEPT ![d] = e]
             /\ pc' = [pc EXCEPT ![d] = "run"]
     /\ UNCHANGED <<row, created, left, effects, faults>>

\* Rollback: the claim is released, nothing the handlers wrote remains, and
\* the batch stops.
RolledBack(d) ==
  /\ pc' = [pc EXCEPT ![d] = "idle"]
  /\ claim' = [claim EXCEPT ![d] = NoEvent]
  /\ UNCHANGED <<row, created, left, effects>>

RunHandlers(d) ==
  /\ pc[d] = "run"
  /\ IF claim[d] \in Poison
     THEN RolledBack(d) /\ UNCHANGED faults
     ELSE /\ pc' = [pc EXCEPT ![d] = "commit"]
          /\ UNCHANGED <<row, created, claim, left, effects, faults>>

BatchDone(d) == left[d] = 1

\* The handlers' writes and dispatched_at become visible together.
CommitDispatch(d) ==
  /\ pc[d] = "commit"
  /\ row' = [row EXCEPT ![claim[d]] = "dispatched"]
  /\ effects' = [effects EXCEPT ![claim[d]] = @ + 1]
  /\ claim' = [claim EXCEPT ![d] = NoEvent]
  /\ left' = [left EXCEPT ![d] = @ - 1]
  /\ pc' = [pc EXCEPT ![d] = IF BatchDone(d) THEN "idle" ELSE "claim"]
  /\ UNCHANGED <<created, faults>>

\* A transient handler error, a failed commit or a crash of the process.
Fault(d) ==
  /\ pc[d] \in {"run", "commit"}
  /\ faults < MaxFaults
  /\ faults' = faults + 1
  /\ RolledBack(d)

\* CleanupJob: rows dispatched longer ago than the retention.
DeleteDispatched(e) ==
  /\ row[e] = "dispatched"
  /\ row' = [row EXCEPT ![e] = "deleted"]
  /\ UNCHANGED <<created, faults, publishing>>

-----------------------------------------------------------------------------
Dispatch(d) == Tick(d) \/ ClaimOldest(d) \/ RunHandlers(d) \/ CommitDispatch(d)

Next ==
  \/ \E e \in Events : Begin(e) \/ Publish(e) \/ Abort(e) \/ DeleteDispatched(e)
  \/ \E d \in Dispatchers : Dispatch(d) \/ Fault(d)

Spec == Init /\ [][Next]_vars

\* The poll ticker and the dispatch loop keep running.
LiveSpec == Spec /\ \A d \in Dispatchers : WF_vars(Dispatch(d))

-----------------------------------------------------------------------------
(* Properties.                                                              *)

Promise == INSTANCE OutboxPromise WITH
  published <- {e \in Events : row[e] \in {"waiting", "dispatched", "deleted"}}

\* eventbus.go: an event is "never lost or duplicated relative to the state
\* change it describes", with several dispatchers, rollbacks and cleanup.
HandledExactlyOnce == Promise!Spec

\* A published event is handled in the end, also one that became visible after
\* younger events had been dispatched, unless an older event's handler fails for
\* good: dispatchBatch stops at the first error and the next tick claims the
\* oldest event again (eventbus.go:137), so that one event holds up the rest.
PublishedIsHandled ==
  \A e \in Events \ Poison :
    row[e] = "waiting" ~>
      \/ row[e] = "dispatched"
      \/ \E f \in Poison : row[f] = "waiting" /\ created[f] < created[e]
=============================================================================
