--------------------------- MODULE OutboxPromise ---------------------------
(***************************************************************************)
(* What the event bus promises the modules it connects: the handlers of an *)
(* event take effect once, and only for an event whose publishing          *)
(* transaction committed.                                                  *)
(***************************************************************************)
EXTENDS Naturals

CONSTANT Events

VARIABLES
  published,  \* events whose publishing transaction committed
  effects     \* how often the handlers of each event have taken effect

vars == <<published, effects>>

Init == published = {} /\ effects = [e \in Events |-> 0]

Publish(e) == /\ e \notin published
              /\ published' = published \cup {e}
              /\ UNCHANGED effects

Handle(e) == /\ e \in published
             /\ effects[e] = 0
             /\ effects' = [effects EXCEPT ![e] = 1]
             /\ UNCHANGED published

Next == \E e \in Events : Publish(e) \/ Handle(e)

Spec == Init /\ [][Next]_vars
=============================================================================
