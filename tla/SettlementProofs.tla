-------------------------- MODULE SettlementProofs --------------------------
(***************************************************************************)
(* Proofs about Settlement, for every set of request goroutines, corridor, *)
(* retry cap and bound: its types, what becomes of an attempt's record,    *)
(* that it implements SessionLifecycle, that it pays once and to the       *)
(* latest destination, that a success settles, that the books stay in      *)
(* credit, that the row's session agrees with it and that the liability    *)
(* follows its status.                                                     *)
(***************************************************************************)
EXTENDS Settlement, WellFoundedInduction, FiniteSetTheorems, TLAPS

(* Every non-empty set of naturals has a least element. *)
LEMMA LeastExists ==
  ASSUME NEW S \in SUBSET Nat, S # {}
  PROVE  \E x \in S : \A y \in S : x <= y
<1>1. PICK x \in S : \A y \in S : ~(<<y, x>> \in OpToRel(<, Nat))
  BY NatLessThanWellFounded, WFMin
<1>2. ASSUME NEW y \in S PROVE x <= y
  <2>1. ~(y < x)
    <3>1. <<y, x>> \notin {ss \in Nat \X Nat : ss[1] < ss[2]}
      BY <1>1 DEF OpToRel
    <3> QED BY <3>1
  <2>2. x \in Nat /\ y \in Nat
    OBVIOUS
  <2> QED BY <2>1, <2>2
<1> QED BY <1>2

(* Every non-empty set of attempt numbers has a greatest element. *)
LEMMA GreatestExists ==
  ASSUME NEW S \in SUBSET Attempt, S # {}
  PROVE  \E x \in S : \A y \in S : y <= x
<1> DEFINE T == {MaxAttempts - n : n \in S}
<1>1. \A n \in S : n \in Nat /\ MaxAttempts - n \in Nat
  BY SettlementAssumption DEF Attempt
<1>2. T \in SUBSET Nat /\ T # {}
  BY <1>1
<1>3. PICK t \in T : \A u \in T : t <= u
  BY <1>2, LeastExists
<1>4. PICK x \in S : t = MaxAttempts - x
  BY <1>3
<1>5. ASSUME NEW y \in S PROVE y <= x
  <2>1. MaxAttempts - x <= MaxAttempts - y
    BY <1>3, <1>4
  <2> QED BY <2>1, <1>1, SettlementAssumption
<1> QED BY <1>5

(* dispatchAttempt calls one of the corridor's enabled adapters, or none. *)
LEMMA SelectedIsEnabled ==
  ASSUME NEW bindings \in Corridors
  PROVE  SelectProvider(bindings) = "" \/ SelectProvider(bindings) \in Adapters
<1> DEFINE enabled == {i \in DOMAIN bindings : bindings[i] \in Adapters}
           untried == {i \in enabled : bindings[i] \notin Tried}
           first(S) == CHOOSE i \in S : \A j \in S : i <= j
<1>0. bindings \in Seq(STRING)
  BY SettlementAssumption
<1>1. ASSUME NEW S \in SUBSET enabled, S # {}
      PROVE  bindings[first(S)] \in Adapters
  <2>1. S \in SUBSET Nat
    BY <1>0
  <2>2. first(S) \in S
    BY <2>1, <1>1, LeastExists
  <2> QED BY <2>2
<1>2. CASE enabled = {}
  BY <1>2 DEF SelectProvider
<1>3. CASE enabled # {} /\ untried # {}
  BY <1>1, <1>3 DEF SelectProvider
<1>4. CASE enabled # {} /\ untried = {}
  BY <1>1, <1>4 DEF SelectProvider
<1> QED BY <1>2, <1>3, <1>4

(* resolveDestination never yields NULL, and only a destination somebody
   supplied. *)
LEMMA DestinationResolved ==
  ASSUME TypeOK, NEW pending \in Dests \cup {NoDest}
  PROVE  ResolveDestination(pending) \in Dests
<1> DEFINE earlier == {n \in Attempt : attempts[n].status # "none" /\ attempts[n].dest # NoDest}
           last == CHOOSE n \in earlier : \A m \in earlier : m <= n
<1>1. CASE pending # NoDest
  BY <1>1 DEF ResolveDestination
<1>2. CASE pending = NoDest /\ earlier # {}
  <2>1. last \in earlier
    BY <1>2, GreatestExists
  <2>2. attempts[last].dest \in Dests
    BY <2>1 DEF TypeOK, AttemptType
  <2> QED BY <1>2, <2>2 DEF ResolveDestination
<1>3. CASE pending = NoDest /\ earlier = {}
  BY <1>3 DEF ResolveDestination, Dests
<1> QED BY <1>1, <1>2, <1>3


(* Amounts stay natural numbers. *)
LEMMA AmountIsNat == \A amount \in Nat : CryptoToFiat(amount) \in Nat
<1> SUFFICES ASSUME NEW amount \in Nat PROVE amount * Rate \in Nat
  BY DEF CryptoToFiat
<1> QED BY SettlementAssumption

-----------------------------------------------------------------------------
(* Type correctness.  A goroutine inside dispatchAttempt has checked that the *)
(* attempt number it is about to take is within bounds.                       *)

CountInv == \A p \in Procs :
  pc[p] \in {"claim", "insert", "bump", "manual"} => loc[p].cnt < MaxAttempts

TypeInv == TypeOK /\ CountInv

LEMMA BlankType == Blank \in LocType
BY SettlementAssumption DEF Blank, LocType

LEMMA TypeInit == Init => TypeInv
<1> SUFFICES ASSUME Init PROVE TypeInv
  OBVIOUS
<1> USE SettlementAssumption DEF Init
<1>1. row \in RowType /\ session \in SessionStatuses /\ deposits \in 1..MaxDeposit
      /\ retries \in 0..MaxRetries /\ faults \in 0..MaxFaults
  BY DEF RowType, Statuses, SessionStatuses
<1>2. attempts \in [Attempt -> AttemptType]
  BY DEF AttemptType, NoAttempt, AttemptStatuses
<1>3. ledger \in [Keys -> Nat] /\ flight \in [Attempt -> Fates]
  BY DEF Fates
<1>4. chat \in [alerts : Nat, paid : Nat, overtaken : Nat]
  OBVIOUS
<1>5. loc \in [Procs -> LocType] /\ pc \in [Procs -> Labels]
  BY BlankType DEF Labels
<1>6. CountInv
  BY DEF CountInv
<1> QED BY <1>1, <1>2, <1>3, <1>4, <1>5, <1>6 DEF TypeInv, TypeOK

LEMMA PostType ==
  ASSUME TypeOK, NEW k, NEW amount \in Nat, Post(k, amount)
  PROVE  ledger' \in [Keys -> Nat]
BY DEF TypeOK, Post

LEMMA GotoType ==
  ASSUME TypeOK, NEW p \in Procs, NEW l \in Labels, Goto(p, l)
  PROVE  pc' \in [Procs -> Labels]
BY DEF TypeOK, Goto

LEMMA LocalType ==
  ASSUME TypeOK, NEW p \in Procs, NEW l \in LocType, Local(p, l)
  PROVE  loc' \in [Procs -> LocType]
BY DEF TypeOK, Local

LEMMA FinishType ==
  ASSUME TypeOK, NEW p \in Procs, Finish(p)
  PROVE  pc' \in [Procs -> Labels] /\ loc' \in [Procs -> LocType]
BY BlankType, LocalType DEF TypeOK, Finish, Labels

LEMMA UpdateType ==
  ASSUME TypeOK, NEW n, NEW a, n \in Attempt => a \in AttemptType, UpdateAttempt(n, a)
  PROVE  attempts' \in [Attempt -> AttemptType]
BY DEF TypeOK, UpdateAttempt

LEMMA LocFields ==
  ASSUME TypeOK, NEW p \in Procs
  PROVE  /\ loc[p] \in LocType
         /\ loc[p].pay \in Nat /\ loc[p].amt \in Nat
         /\ loc[p].cnt \in 0..MaxAttempts /\ loc[p].att \in 0..MaxAttempts
         /\ loc[p].dest \in Dests \cup {NoDest}
         /\ loc[p].prov \in Adapters \cup {""}
         /\ loc[p].todo \in SUBSET Attempt
BY DEF TypeOK, LocType

LEMMA CopiedType ==
  ASSUME TypeOK, NEW l \in LocType
  PROVE  Copied(l) \in LocType
BY DEF TypeOK, Copied, LocType, RowType

LEMMA Bounds ==
  /\ MaxAttempts \in Nat /\ MaxDeposit \in Nat /\ MaxRetries \in Nat /\ MaxFaults \in Nat
  /\ 0 \in 0..MaxAttempts
BY SettlementAssumption

LEMMA AttemptNumbers == Attempt \subseteq 0..MaxAttempts
BY Bounds DEF Attempt

(* What the copy of a goroutine about to take an attempt number allows. *)
LEMMA NextAttempt ==
  ASSUME TypeInv, NEW p \in Procs, pc[p] \in {"claim", "insert", "bump", "manual"}
  PROVE  loc[p].cnt + 1 \in Attempt
<1>1. loc[p].cnt \in 0..MaxAttempts /\ loc[p].cnt < MaxAttempts
  BY LocFields DEF TypeInv, CountInv
<1> QED BY <1>1, SettlementAssumption DEF Attempt

LEMMA TypeContinue ==
  ASSUME TypeInv, NEW p \in Procs, Continue(p)
  PROVE  TypeOK'
<1> TypeOK BY DEF TypeInv
<1> USE DEF aside, bounds
<1>1. CASE LoadSession(p)
  <2>1. session \in SessionStatuses /\ deposits \in Nat
    BY Bounds DEF TypeOK
  <2>2. [loc[p] EXCEPT !.sess = session, !.amt = deposits] \in LocType
    BY LocFields, <2>1 DEF LocType
  <2> QED BY <1>1, <2>1, <2>2, GotoType, FinishType, LocalType
     DEF LoadSession, Then, TypeOK, Labels
<1>2. CASE PostDepositConfirmed(p)
  BY <1>2, GotoType, FinishType, PostType, LocFields
     DEF PostDepositConfirmed, Then, TypeOK, Labels
<1>3. CASE PostFxConversion(p)
  <2>1. CryptoToFiat(loc[p].amt) \in Nat
    BY LocFields, AmountIsNat
  <2> QED BY <1>3, <2>1, GotoType, FinishType, PostType
     DEF PostFxConversion, Then, TypeOK, Labels
<1>4. CASE StartSettling(p)
  <2>1. CryptoToFiat(loc[p].amt) \in Nat
    BY LocFields, AmountIsNat
  <2>2. row' \in RowType
    BY <1>4, <2>1 DEF StartSettling, RowType, Statuses, TypeOK
  <2>3. [loc[p] EXCEPT !.pay = CryptoToFiat(loc[p].amt)] \in LocType
    BY LocFields, <2>1 DEF LocType
  <2>4. AfterSettling(loc[p]) \in Labels
    BY DEF AfterSettling, Labels
  <2> QED BY <1>4, <2>1, <2>2, <2>3, <2>4, GotoType, FinishType, LocalType
     DEF StartSettling, Then, TypeOK, Labels
<1>5. CASE TransitionToSettling(p)
  BY <1>5, GotoType, FinishType
     DEF TransitionToSettling, Then, TypeOK, Labels, SessionCAS, SessionStatuses
<1>6. CASE ChooseProvider(p)
  <2>1. ASSUME NEW bindings \in Corridors
        PROVE  [loc[p] EXCEPT !.prov = SelectProvider(bindings), !.att = 0, !.out = ""]
                 \in LocType
    BY LocFields, SelectedIsEnabled, Bounds DEF LocType
  <2>2. PICK bindings \in Corridors :
          IF SelectProvider(bindings) = ""
          THEN Then(p, "fail")
          ELSE /\ Local(p, [loc[p] EXCEPT !.prov = SelectProvider(bindings),
                                          !.att = 0, !.out = ""])
               /\ Goto(p, "claim")
    BY <1>6 DEF ChooseProvider
  <2> QED BY <1>6, <2>1, <2>2, GotoType, FinishType, LocalType
     DEF ChooseProvider, Then, TypeOK, Labels
<1>7. CASE ClaimPayout(p)
  BY <1>7, GotoType, FinishType, PostType, LocFields
     DEF ClaimPayout, Then, TypeOK, Labels
<1>8. CASE InsertAttempt(p)
  <2>1. ResolveDestination(loc[p].dest) \in Dests
    BY LocFields, DestinationResolved
  <2>2. [NoAttempt EXCEPT !.status = "dispatched", !.provider = loc[p].prov,
                        !.dest = ResolveDestination(loc[p].dest)] \in AttemptType
    BY LocFields, <2>1 DEF NoAttempt, AttemptType, AttemptStatuses
  <2>3. attempts' \in [Attempt -> AttemptType]
    BY <1>8, <2>2, UpdateType DEF InsertAttempt, TypeOK
  <2> QED BY <1>8, <2>1, <2>2, <2>3, GotoType, FinishType
     DEF InsertAttempt, Then, TypeOK, Labels
<1>9. CASE BumpAttemptCount(p)
  <2>1. loc[p].cnt + 1 \in 0..MaxAttempts
    BY <1>9, NextAttempt DEF BumpAttemptCount, At, Attempt, TypeInv
  <2>2. row' \in RowType
    BY <1>9, <2>1 DEF BumpAttemptCount, RowType, Statuses, TypeOK
  <2>3. [loc[p] EXCEPT !.cnt = loc[p].cnt + 1, !.att = loc[p].cnt + 1] \in LocType
    BY LocFields, <2>1 DEF LocType
  <2> QED BY <1>9, <2>1, <2>2, <2>3, GotoType, FinishType, LocalType
     DEF BumpAttemptCount, Then, TypeOK, Labels
<1>10. CASE CallProvider(p)
  <2>1. PICK r \in OutcomeFates(loc[p].prov) :
            /\ flight' = [flight EXCEPT ![loc[p].att] = r[2]]
            /\ Local(p, [loc[p] EXCEPT !.out = r[1]])
    BY <1>10 DEF CallProvider
  <2>2. r[1] \in Outcomes /\ r[2] \in Fates
    BY DEF OutcomeFates, HyparrowFates, HttpFates, Outcomes, Fates
  <2>3. flight' \in [Attempt -> Fates]
    BY <2>1, <2>2 DEF TypeOK
  <2>4. [loc[p] EXCEPT !.out = r[1]] \in LocType
    BY LocFields, <2>2 DEF LocType
  <2>5. loc' \in [Procs -> LocType]
    BY <2>1, <2>4, LocalType
  <2> QED BY <1>10, <2>1, <2>2, <2>3, <2>4, <2>5, GotoType, FinishType
     DEF CallProvider, Then, TypeOK, Labels
<1>11. CASE ClearPendingDestination(p)
  <2>1. row' \in RowType
    BY <1>11 DEF ClearPendingDestination, RowType, Statuses, TypeOK
  <2>2. [loc[p] EXCEPT !.dest = NoDest] \in LocType
    BY LocFields DEF LocType
  <2> QED BY <1>11, <2>1, <2>2, GotoType, FinishType, LocalType
     DEF ClearPendingDestination, Then, TypeOK, Labels
<1>12. CASE RecordDispatch(p)
  <2>1. row' \in RowType
    BY <1>12 DEF RecordDispatch, RowType, Statuses, TypeOK
  <2>2. loc[p].att \in Attempt => [attempts[loc[p].att] EXCEPT !.ref = TRUE,
                                            !.reason = IF loc[p].out = "uncertain" THEN TRUE ELSE @] \in AttemptType
    <3>1. ASSUME NEW a \in AttemptType, NEW b \in BOOLEAN
          PROVE  [a EXCEPT !.ref = TRUE, !.reason = b] \in AttemptType
      BY <3>1 DEF AttemptType
    <3>2. \A n \in Attempt : attempts[n] \in AttemptType
      BY DEF TypeOK
    <3>3. \A n \in Attempt :
            (IF loc[p].out = "uncertain" THEN TRUE ELSE attempts[n].reason) \in BOOLEAN
      BY <3>2 DEF AttemptType
    <3> QED  BY <3>1, <3>2, <3>3
  <2> QED BY <1>12, <2>1, <2>2, GotoType, FinishType, UpdateType
     DEF RecordDispatch, Then, TypeOK, Labels
<1>13. CASE MarkFailed(p)
  <2>1. Bucket(loc[p].out) \in Failed
    BY DEF Bucket, Failed
  <2>2. loc[p].att \in Attempt => [attempts[loc[p].att] EXCEPT !.status = Bucket(loc[p].out),
                                            !.reason = TRUE] \in AttemptType
    <3>1. ASSUME NEW a \in AttemptType, NEW st \in AttemptStatuses
          PROVE  [a EXCEPT !.status = st, !.reason = TRUE] \in AttemptType
      BY <3>1 DEF AttemptType
    <3>2. \A n \in Attempt : attempts[n] \in AttemptType
      BY DEF TypeOK
    <3> QED  BY <2>1, <3>1, <3>2 DEF AttemptStatuses, Failed
  <2> QED BY <1>13, <2>1, <2>2, GotoType, FinishType, UpdateType
     DEF MarkFailed, Then, TypeOK, Labels
<1>14. CASE Reload(p)
  BY <1>14, GotoType, FinishType, LocalType, LocFields, CopiedType
     DEF Reload, Then, TypeOK, Labels
<1>15. CASE ReverseAttempt(p)
  BY <1>15, GotoType, FinishType, PostType, LocFields
     DEF ReverseAttempt, Then, TypeOK, Labels
<1>16. CASE WakeFromBackoff(p)
  BY <1>16, GotoType, FinishType DEF WakeFromBackoff, Then, TypeOK, Labels
<1>17. CASE FailSettlement(p)
  <2>1. chat' \in [alerts : Nat, paid : Nat, overtaken : Nat]
    BY <1>17 DEF FailSettlement, TypeOK
  <2>2. pc' \in [Procs -> Labels] /\ UNCHANGED loc
    BY <1>17, GotoType DEF FailSettlement, Then, Labels
  <2> QED BY <1>17, <2>1, <2>2 DEF FailSettlement, TypeOK
<1>18. CASE ParkForManualPayout(p)
  <2>1. row' \in RowType
    BY <1>18 DEF ParkForManualPayout, RowType, Statuses, TypeOK
  <2> QED BY <1>18, <2>1, GotoType, FinishType DEF ParkForManualPayout, Then, TypeOK, Labels
<1>19. CASE GiveUp(p)
  <2>1. row' \in RowType
    BY <1>19 DEF GiveUp, RowType, Statuses, TypeOK
  <2> QED BY <1>19, <2>1, GotoType, FinishType DEF GiveUp, Then, TypeOK, Labels
<1>20. CASE TransitionToSettlementFailed(p)
  BY <1>20, GotoType, FinishType
     DEF TransitionToSettlementFailed, Then, TypeOK, Labels, SessionCAS, SessionStatuses
<1>21. CASE ReleaseReservation(p)
  BY <1>21, GotoType, FinishType DEF ReleaseReservation, Then, TypeOK, Labels
<1>22. CASE MarkSucceeded(p)
  <2>1. loc[p].att \in Attempt => [attempts[loc[p].att] EXCEPT !.status = "succeeded"] \in AttemptType
    <3>1. ASSUME NEW a \in AttemptType
          PROVE  [a EXCEPT !.status = "succeeded"] \in AttemptType
      BY <3>1 DEF AttemptType, AttemptStatuses
    <3>2. \A n \in Attempt : attempts[n] \in AttemptType
      BY DEF TypeOK
    <3> QED  BY <3>1, <3>2
  <2> QED BY <1>22, <2>1, GotoType, FinishType, UpdateType
     DEF MarkSucceeded, Then, TypeOK, Labels
<1>23. CASE Settle(p)
  <2>1. row' \in RowType
    BY <1>23 DEF Settle, RowType, Statuses, TypeOK
  <2> QED BY <1>23, <2>1, GotoType, FinishType DEF Settle, Then, TypeOK, Labels
<1>24. CASE TransitionToSettled(p)
  BY <1>24, GotoType, FinishType
     DEF TransitionToSettled, Then, TypeOK, Labels, SessionCAS, SessionStatuses
<1>25. CASE ReturnPayout(p)
  <2>1. row' \in RowType
    BY <1>25 DEF ReturnPayout, RowType, Statuses, TypeOK
  <2> QED BY <1>25, <2>1, GotoType, FinishType, LocalType, LocFields, CopiedType
     DEF ReturnPayout, Then, TypeOK, Labels
<1>26. CASE TransitionToReversed(p)
  BY <1>26, GotoType, FinishType
     DEF TransitionToReversed, Then, TypeOK, Labels, SessionCAS, SessionStatuses
<1>27. CASE PostReturn(p)
  BY <1>27, GotoType, FinishType, PostType, LocFields
     DEF PostReturn, Then, TypeOK, Labels
<1>28. CASE FlagDeclined(p)
  <2>1. loc[p].att \in Attempt => [attempts[loc[p].att] EXCEPT !.reason = TRUE] \in AttemptType
    <3>1. ASSUME NEW a \in AttemptType
          PROVE  [a EXCEPT !.reason = TRUE] \in AttemptType
      BY <3>1 DEF AttemptType, AttemptStatuses
    <3>2. \A n \in Attempt : attempts[n] \in AttemptType
      BY DEF TypeOK
    <3> QED  BY <3>1, <3>2
  <2> QED BY <1>28, <2>1, GotoType, FinishType, UpdateType
     DEF FlagDeclined, Then, TypeOK, Labels
<1>29. CASE PageForDeclined(p)
  <2>1. row' \in RowType
    BY <1>29 DEF PageForDeclined, RowType, Statuses, TypeOK
  <2> QED BY <1>29, <2>1, GotoType, FinishType DEF PageForDeclined, Then, TypeOK, Labels
<1>30. CASE ManualSettle(p)
  <2>1. loc[p].cnt + 1 \in Attempt
    BY <1>30, NextAttempt DEF ManualSettle, At, TypeInv
  <2>2. loc[p].cnt + 1 \in 0..MaxAttempts
    BY <2>1, Bounds DEF Attempt
  <2>3. row' \in RowType
    BY <1>30, <2>2 DEF ManualSettle, RowType, Statuses, TypeOK
  <2>4. [NoAttempt EXCEPT !.status = "succeeded", !.provider = Manual] \in AttemptType
    BY DEF NoAttempt, AttemptType, AttemptStatuses
  <2>5. attempts' \in [Attempt -> AttemptType]
    BY <1>30, <2>4, UpdateType DEF ManualSettle, TypeOK
  <2> QED BY <1>30, <2>1, <2>2, <2>3, <2>4, <2>5, GotoType, FinishType
     DEF ManualSettle, Then, TypeOK, Labels
<1>31. CASE ClaimManualPayout(p)
  BY <1>31, GotoType, FinishType, PostType, LocFields
     DEF ClaimManualPayout, Then, TypeOK, Labels
<1>32. CASE ConfirmFailed(p)
  <2>1. \A n \in Attempt :
            [attempts[n] EXCEPT !.status = "failed_bucket3", !.reason = TRUE] \in AttemptType
    BY DEF TypeOK, AttemptType, AttemptStatuses, Failed
  <2>2. attempts' \in [Attempt -> AttemptType]
    BY <1>32, <2>1 DEF ConfirmFailed, TypeOK
  <2>3. [loc[p] EXCEPT !.todo = {n \in Attempt : Open(n)}] \in LocType
    BY LocFields DEF LocType
  <2> QED BY <1>32, <2>1, <2>2, <2>3, GotoType, FinishType, LocalType
     DEF ConfirmFailed, Then, TypeOK, Labels
<1>33. CASE ReverseConfirmed(p)
  <2>1. PICK n \in loc[p].todo :
            /\ Post(Reversal(n), loc[p].pay)
            /\ Local(p, [loc[p] EXCEPT !.todo = @ \ {n}])
            /\ Goto(p, IF loc[p].todo = {n} THEN "requeue" ELSE "confirm_reversals")
    BY <1>33 DEF ReverseConfirmed
  <2>2. [loc[p] EXCEPT !.todo = @ \ {n}] \in LocType
    BY LocFields DEF LocType
  <2>3. loc' \in [Procs -> LocType] /\ ledger' \in [Keys -> Nat]
    BY <2>1, <2>2, LocalType, PostType, LocFields
  <2>4. pc' \in [Procs -> Labels]
    BY <2>1, GotoType DEF Labels
  <2> QED BY <1>33, <2>1, <2>2, <2>3, <2>4, GotoType, FinishType
     DEF ReverseConfirmed, Then, TypeOK, Labels
<1>34. CASE Requeue(p)
  <2>1. \A d \in Corrections \cup {NoDest} :
            [row EXCEPT !.status = "pending_dispatch", !.paged = FALSE, !.dest = d] \in RowType
    BY DEF TypeOK, RowType, Statuses, Dests
  <2>2. row' \in RowType
    BY <1>34, <2>1 DEF Requeue, TypeOK
  <2>3. retries' = retries \/ (retries < MaxRetries /\ retries' = retries + 1)
    BY <1>34 DEF Requeue
  <2>4. retries' \in 0..MaxRetries
    BY <2>3, Bounds DEF TypeOK
  <2>5. chat' \in [alerts : Nat, paid : Nat, overtaken : Nat]
    BY <1>34 DEF Requeue, TypeOK
  <2> QED BY <1>34, <2>1, <2>2, <2>3, <2>4, <2>5, GotoType, FinishType
     DEF Requeue, Then, TypeOK, Labels
<1>35. CASE RetryToSettling(p)
  BY <1>35, GotoType, FinishType
     DEF RetryToSettling, Then, TypeOK, Labels, SessionStatuses
<1>36. CASE PostManualAdjustment(p)
  BY <1>36, GotoType, FinishType, PostType, LocFields
     DEF PostManualAdjustment, Then, TypeOK, Labels
<1>37. CASE CloseReversalCase(p)
  BY <1>37, GotoType, FinishType DEF CloseReversalCase, Then, TypeOK, Labels
<1>38. CASE ResolveRow(p)
  <2>1. row' \in RowType
    BY <1>38 DEF ResolveRow, RowType, Statuses, TypeOK
  <2> QED BY <1>38, <2>1, GotoType, FinishType DEF ResolveRow, Then, TypeOK, Labels
<1>39. CASE TransitionToReversalResolved(p)
  BY <1>39, GotoType, FinishType
     DEF TransitionToReversalResolved, Then, TypeOK, Labels, SessionStatuses
<1> QED BY <1>1, <1>2, <1>3, <1>4, <1>5, <1>6, <1>7, <1>8, <1>9, <1>10, <1>11,
          <1>12, <1>13, <1>14, <1>15, <1>16, <1>17, <1>18, <1>19, <1>20, <1>21,
          <1>22, <1>23, <1>24, <1>25, <1>26, <1>27, <1>28, <1>29, <1>30, <1>31,
          <1>32, <1>33, <1>34, <1>35, <1>36, <1>37, <1>38, <1>39 DEF Continue

(* Only dispatchAttempt's bound and ManualSettle's lead to an attempt number. *)
LEMMA CountContinue ==
  ASSUME TypeInv, NEW p \in Procs, Continue(p)
  PROVE  CountInv'
<1>1. pc \in [Procs -> Labels] /\ loc \in [Procs -> LocType] /\ CountInv
  BY DEF TypeInv, TypeOK
<1> HIDE DEF TypeInv
<1> USE <1>1 DEF CountInv, At, Goto, Then, Local, Finish
<1>2. CASE LoadSession(p)
  BY <1>2 DEF LoadSession
<1>3. CASE PostDepositConfirmed(p)
  BY <1>3 DEF PostDepositConfirmed
<1>4. CASE PostFxConversion(p)
  BY <1>4 DEF PostFxConversion
<1>5. CASE StartSettling(p)
  BY <1>5 DEF StartSettling, AfterSettling
<1>6. CASE TransitionToSettling(p)
  BY <1>6 DEF TransitionToSettling, SessionCAS
<1>7. CASE ChooseProvider(p)
  <2>1. ASSUME NEW bindings \in Corridors
        PROVE  [loc[p] EXCEPT !.prov = SelectProvider(bindings), !.att = 0, !.out = ""].cnt
                 = loc[p].cnt
    BY ZenonT(30) DEF LocType
  <2> QED BY <1>7, <2>1 DEF ChooseProvider
<1>8. CASE ClaimPayout(p)
  BY <1>8 DEF ClaimPayout
<1>9. CASE InsertAttempt(p)
  BY <1>9 DEF InsertAttempt
<1>10. CASE BumpAttemptCount(p)
  BY <1>10 DEF BumpAttemptCount
<1>11. CASE CallProvider(p)
  BY <1>11 DEF CallProvider
<1>12. CASE ClearPendingDestination(p)
  BY <1>12 DEF ClearPendingDestination
<1>13. CASE RecordDispatch(p)
  BY <1>13 DEF RecordDispatch
<1>14. CASE MarkFailed(p)
  BY <1>14 DEF MarkFailed
<1>15. CASE Reload(p)
  BY <1>15 DEF Reload
<1>16. CASE ReverseAttempt(p)
  BY <1>16 DEF ReverseAttempt
<1>17. CASE WakeFromBackoff(p)
  BY <1>17 DEF WakeFromBackoff
<1>18. CASE FailSettlement(p)
  BY <1>18 DEF FailSettlement
<1>19. CASE ParkForManualPayout(p)
  BY <1>19 DEF ParkForManualPayout
<1>20. CASE GiveUp(p)
  BY <1>20 DEF GiveUp
<1>21. CASE TransitionToSettlementFailed(p)
  BY <1>21 DEF TransitionToSettlementFailed, SessionCAS
<1>22. CASE ReleaseReservation(p)
  BY <1>22 DEF ReleaseReservation
<1>23. CASE MarkSucceeded(p)
  BY <1>23 DEF MarkSucceeded
<1>24. CASE Settle(p)
  BY <1>24 DEF Settle
<1>25. CASE TransitionToSettled(p)
  BY <1>25 DEF TransitionToSettled, SessionCAS
<1>26. CASE ReturnPayout(p)
  BY <1>26 DEF ReturnPayout
<1>27. CASE TransitionToReversed(p)
  BY <1>27 DEF TransitionToReversed, SessionCAS
<1>28. CASE PostReturn(p)
  BY <1>28 DEF PostReturn
<1>29. CASE FlagDeclined(p)
  BY <1>29 DEF FlagDeclined
<1>30. CASE PageForDeclined(p)
  BY <1>30 DEF PageForDeclined
<1>31. CASE ManualSettle(p)
  BY <1>31 DEF ManualSettle
<1>32. CASE ClaimManualPayout(p)
  BY <1>32 DEF ClaimManualPayout
<1>33. CASE ConfirmFailed(p)
  BY <1>33 DEF ConfirmFailed
<1>34. CASE ReverseConfirmed(p)
  BY <1>34 DEF ReverseConfirmed
<1>35. CASE Requeue(p)
  BY <1>35 DEF Requeue
<1>36. CASE RetryToSettling(p)
  BY <1>36 DEF RetryToSettling
<1>37. CASE PostManualAdjustment(p)
  BY <1>37 DEF PostManualAdjustment
<1>38. CASE CloseReversalCase(p)
  BY <1>38 DEF CloseReversalCase
<1>39. CASE ResolveRow(p)
  BY <1>39 DEF ResolveRow
<1>40. CASE TransitionToReversalResolved(p)
  BY <1>40 DEF TransitionToReversalResolved
<1> QED BY <1>2, <1>3, <1>4, <1>5, <1>6, <1>7, <1>8, <1>9, <1>10, <1>11, <1>12,
          <1>13, <1>14, <1>15, <1>16, <1>17, <1>18, <1>19, <1>20, <1>21, <1>22,
          <1>23, <1>24, <1>25, <1>26, <1>27, <1>28, <1>29, <1>30, <1>31, <1>32,
          <1>33, <1>34, <1>35, <1>36, <1>37, <1>38, <1>39, <1>40 DEF Continue

LEMMA TypeNext == TypeInv /\ [Next]_vars => TypeInv'
<1> SUFFICES ASSUME TypeInv, [Next]_vars PROVE TypeInv'
  OBVIOUS
<1> TypeOK /\ CountInv BY DEF TypeInv
<1> USE DEF aside, bounds
<1>1. CASE HandleDepositConfirmed
  <2>1. row' \in RowType
    BY <1>1 DEF HandleDepositConfirmed, RowType, Statuses, Dests, TypeOK
  <2> QED BY <1>1, <2>1 DEF HandleDepositConfirmed, TypeInv, TypeOK, CountInv
<1>2. CASE WorkerTick
  <2> Worker \in Procs BY DEF Procs
  <2>1. CASE ClaimNextPendingDispatch
    <3>1. row' \in RowType
      BY <2>1 DEF ClaimNextPendingDispatch, RowType, Statuses, TypeOK
    <3>2. TypeOK'
      BY <2>1, <3>1, GotoType, LocalType, LocFields, CopiedType
         DEF ClaimNextPendingDispatch, TypeOK, Labels
    <3> QED BY <2>1, <3>2
            DEF ClaimNextPendingDispatch, TypeInv, TypeOK, CountInv, Goto, Local
  <2>2. ASSUME NEW n \in Attempt, ConfirmSandboxDispatch(n) PROVE TypeInv'
    <3>1. [Blank EXCEPT !.att = n] \in LocType
      BY BlankType, Bounds, AttemptNumbers DEF LocType, Outcomes
    <3>2. TypeOK'
      BY <2>2, <3>1, GotoType, LocalType DEF ConfirmSandboxDispatch, TypeOK, Labels
    <3> QED BY <2>2, <3>2
            DEF ConfirmSandboxDispatch, TypeInv, TypeOK, CountInv, Goto, Local
  <2> QED BY <1>2, <2>1, <2>2 DEF WorkerTick
<1>3. CASE PageTimedOutConfirmation
  <2>1. row' \in RowType
    BY <1>3 DEF PageTimedOutConfirmation, RowType, TypeOK
  <2> QED BY <1>3, <2>1 DEF PageTimedOutConfirmation, TypeInv, TypeOK, CountInv
<1>4. CASE \E p \in Procs : Continue(p)
  BY <1>4, TypeContinue, CountContinue DEF TypeInv
<1>5. ASSUME NEW p \in Requests, Arrive(p) PROVE TypeInv'
  <2> p \in Procs BY DEF Procs
  <2>1. ASSUME NEW l \in Labels, NEW m \in LocType, Serve(p, l, m),
               l = "manual" => m.cnt < MaxAttempts, l \notin {"claim", "insert", "bump"}
        PROVE  TypeInv'
    <3>1. TypeOK'
      BY <2>1, GotoType, LocalType DEF Serve, TypeOK
    <3> QED BY <2>1, <3>1 DEF Serve, TypeInv, TypeOK, CountInv, Goto, Local
  <2>2. Copied(Blank) \in LocType /\ Copied(Blank).cnt = row.cnt
    BY BlankType, CopiedType DEF Copied, Blank
  <2>3. ASSUME NEW n \in Attempt, HandleSettlementWebhook(p, n) PROVE TypeInv'
    <3>1. PICK event \in Callbacks(attempts[n].provider, flight[n]) :
            Serve(p, Route(event, attempts[n].status),
                  [Blank EXCEPT !.att = n, !.out = "failed"])
      BY <2>3 DEF HandleSettlementWebhook
    <3>2. [Blank EXCEPT !.att = n, !.out = "failed"] \in LocType
      BY BlankType, Bounds, AttemptNumbers DEF LocType, Outcomes
    <3>3. Route(event, attempts[n].status) \in {"mark_succeeded", "flag", "return", "mark_failed"}
      BY DEF Route
    <3>4. Route(event, attempts[n].status) \in Labels
      BY <3>3 DEF Labels
    <3> QED BY <2>1, <3>1, <3>2, <3>3, <3>4
  <2>4. CASE StartManualSettle(p)
    BY <2>1, <2>2, <2>4 DEF StartManualSettle, Labels
  <2>5. CASE StartRetry(p)
    <3>1. [Copied(Blank) EXCEPT !.from = row.status] \in LocType
      BY <2>2 DEF LocType, TypeOK, RowType
    <3> QED BY <2>1, <2>5, <3>1 DEF StartRetry, Labels
  <2>6. CASE StartResolveReversal(p)
    BY <2>1, <2>2, <2>6 DEF StartResolveReversal, Labels
  <2> QED BY <1>5, <2>3, <2>4, <2>5, <2>6 DEF Arrive
<1>6. CASE Environment
  <2>1. ASSUME NEW n \in Attempt, NEW from, NEW to \in Fates, FateChanges(n, from, to)
        PROVE  TypeInv'
    BY <2>1 DEF FateChanges, TypeInv, TypeOK, CountInv
  <2>2. ASSUME NEW n \in Attempt, ProviderPays(n) \/ ProviderRejects(n) \/ BankReturns(n)
        PROVE  TypeInv'
    BY <2>1, <2>2 DEF ProviderPays, ProviderRejects, BankReturns, Fates
  <2>3. CASE LateDeposit
    <3>1. deposits' \in 1..MaxDeposit
      BY <2>3, Bounds DEF LateDeposit, TypeOK
    <3> QED BY <2>3, <3>1 DEF LateDeposit, TypeInv, TypeOK, CountInv
  <2>4. ASSUME NEW p \in Procs, Interrupted(p) \/ CallInterrupted(p) PROVE TypeInv'
    <3>1. Finish(p) /\ faults < MaxFaults /\ faults' = faults + 1
          /\ UNCHANGED <<row, attempts, ledger, session, reservation, reversalCase,
                         deposits, chat, retries>>
      BY <2>4 DEF Interrupted, CallInterrupted
    <3>2. faults' \in 0..MaxFaults
      BY <3>1, Bounds DEF TypeOK
    <3>3. flight' \in [Attempt -> Fates]
      BY <2>4 DEF Interrupted, CallInterrupted, TypeOK, Fates
    <3>4. TypeOK'
      BY <3>1, <3>2, <3>3, FinishType DEF TypeOK
    <3> QED BY <3>1, <3>4 DEF TypeInv, TypeOK, CountInv, Finish, Local
  <2>5. CASE HumanPays
    BY <2>5 DEF HumanPays, TypeInv, TypeOK, CountInv
  <2> QED BY <1>6, <2>2, <2>3, <2>4, <2>5 DEF Environment
<1>7. CASE UNCHANGED vars
  BY <1>7 DEF vars, TypeInv, TypeOK, CountInv
<1> QED BY <1>1, <1>2, <1>3, <1>4, <1>5, <1>6, <1>7 DEF Next

(* Every variable keeps its type in every reachable state: in particular the *)
(* statuses, and the goroutines' program counters, are the listed ones.      *)
THEOREM TypeCorrect == Spec => []TypeOK
<1>1. Spec => []TypeInv
  BY TypeInit, TypeNext, PTL DEF Spec
<1>2. TypeInv => TypeOK
  BY DEF TypeInv
<1> QED BY <1>1, <1>2, PTL

-----------------------------------------------------------------------------
(* Resolutions are final: every update of an attempt's status is guarded by  *)
(* Open, or takes an attempt number no row has.                              *)

LEMMA UpdateKeepsStatus ==
  ASSUME TypeOK, NEW n, NEW a, UpdateAttempt(n, a), NEW m \in Attempt,
         n = m => (attempts[m].status \in {"none", "dispatched"} \/ a.status = attempts[m].status),
         attempts[m].status \notin {"none", "dispatched"}
  PROVE  attempts'[m].status = attempts[m].status
BY DEF TypeOK, UpdateAttempt

LEMMA ResolvedStay ==
  ASSUME TypeOK, [Next]_vars, NEW m \in Attempt,
         attempts[m].status \notin {"none", "dispatched"}
  PROVE  attempts'[m].status = attempts[m].status
<1> USE DEF aside, bounds
<1>1. CASE UNCHANGED attempts
  BY <1>1
<1>2. attempts[m] \in AttemptType
  BY DEF TypeOK
<1>3. ASSUME NEW p \in Procs, Continue(p) PROVE attempts'[m].status = attempts[m].status
  <2>1. CASE InsertAttempt(p)
    BY <2>1, <1>1, UpdateKeepsStatus DEF InsertAttempt
  <2>2. CASE RecordDispatch(p)
    <3> DEFINE n == loc[p].att
               uncertain == loc[p].out = "uncertain"
               updated == [attempts[n] EXCEPT !.ref = TRUE,
                                              !.reason = IF uncertain THEN TRUE ELSE @]
    <3>1. n = m => updated.status = attempts[m].status
      BY <1>2 DEF AttemptType
    <3>2. UpdateAttempt(n, updated) \/ UNCHANGED attempts
      BY <2>2 DEF RecordDispatch, UpdateAttempt
    <3> HIDE DEF n, updated
    <3> QED BY <3>1, <3>2, <1>1, UpdateKeepsStatus
  <2>3. CASE MarkFailed(p)
    BY <2>3, <1>1, UpdateKeepsStatus DEF MarkFailed, Open
  <2>4. CASE MarkSucceeded(p)
    BY <2>4, <1>1, UpdateKeepsStatus DEF MarkSucceeded, Open
  <2>5. CASE FlagDeclined(p)
    BY <2>5, <1>1, UpdateKeepsStatus DEF FlagDeclined, Open
  <2>6. CASE ManualSettle(p)
    BY <2>6, <1>1, UpdateKeepsStatus DEF ManualSettle
  <2>7. CASE ConfirmFailed(p)
    BY <2>7 DEF ConfirmFailed, Open
  <2>8. CASE UNCHANGED attempts
    BY <2>8
  <2> QED BY <1>3, <2>1, <2>2, <2>3, <2>4, <2>5, <2>6, <2>7, <2>8 DEF
         Continue, LoadSession, PostDepositConfirmed, PostFxConversion,
         StartSettling, TransitionToSettling, ChooseProvider, ClaimPayout,
         BumpAttemptCount, CallProvider, ClearPendingDestination, Reload,
         ReverseAttempt, WakeFromBackoff, FailSettlement, ParkForManualPayout,
         GiveUp, TransitionToSettlementFailed, ReleaseReservation, Settle,
         TransitionToSettled, ReturnPayout, TransitionToReversed, PostReturn,
         PageForDeclined, ClaimManualPayout, ReverseConfirmed, Requeue,
         RetryToSettling, PostManualAdjustment, CloseReversalCase, ResolveRow,
         TransitionToReversalResolved
<1>4. CASE \E p \in Procs : Continue(p)
  BY <1>3, <1>4
<1>5. CASE Next /\ ~(\E p \in Procs : Continue(p))
  BY <1>5, <1>1
     DEF Next, HandleDepositConfirmed, WorkerTick, ClaimNextPendingDispatch,
         ConfirmSandboxDispatch, PageTimedOutConfirmation, Arrive, Serve,
         HandleSettlementWebhook, StartManualSettle, StartRetry, StartResolveReversal,
         Environment, ProviderPays, ProviderRejects, BankReturns, FateChanges,
         HumanPays, LateDeposit, Interrupted, CallInterrupted
<1>6. CASE UNCHANGED vars
  BY <1>6, <1>1 DEF vars
<1> QED BY <1>4, <1>5, <1>6

(* Attempts are resolved once: no interleaving of the worker, callbacks and  *)
(* ops requests changes the status of an attempt that has been resolved.     *)
THEOREM ResolutionIsFinal == Spec => ResolvedAttemptsStay
<1>1. TypeOK /\ [Next]_vars
        => [\A n \in Attempt : attempts[n].status \notin {"none", "dispatched"}
                               => attempts'[n].status = attempts[n].status]_vars
  BY ResolvedStay
<1> QED BY <1>1, TypeCorrect, PTL DEF Spec, ResolvedAttemptsStay

-----------------------------------------------------------------------------
(* Only failures are reversed.  Before it posts a reversal, a goroutine has   *)
(* recorded the failure, and nothing can undo that.                           *)

FailureInv ==
  \A p \in Procs :
    /\ pc[p] \in {"reload", "reverse"} /\ loc[p].att \in Attempt
         => attempts[loc[p].att].status \in Failed
    /\ pc[p] = "confirm_reversals" => \A n \in loc[p].todo : attempts[n].status \in Failed

ReversalInv == TypeInv /\ ReversalsAreOfFailures /\ FailureInv

LEMMA ReversalInit == Init => ReversalInv
<1>1. Init => FailureInv
  BY DEF Init, FailureInv
<1>2. Init => ReversalsAreOfFailures
  BY DEF Init, ReversalsAreOfFailures, Posted, Reversal, Keys
<1> QED BY <1>1, <1>2, TypeInit DEF ReversalInv

LEMMA FailedStay ==
  ASSUME TypeOK, [Next]_vars, NEW n \in Attempt, attempts[n].status \in Failed
  PROVE  attempts'[n].status \in Failed
BY ResolvedStay DEF Failed

(* A goroutine that moves on keeps what it knows. *)
LEMMA FailureKept ==
  ASSUME TypeOK, FailureInv, [Next]_vars, NEW q \in Procs, pc'[q] = pc[q], loc'[q] = loc[q]
  PROVE  /\ pc'[q] \in {"reload", "reverse"} /\ loc'[q].att \in Attempt
              => attempts'[loc'[q].att].status \in Failed
         /\ pc'[q] = "confirm_reversals"
              => \A n \in loc'[q].todo : attempts'[n].status \in Failed
<1>1. loc[q].todo \subseteq Attempt
  BY LocFields
<1> QED BY <1>1, FailedStay DEF FailureInv

(* A step of p leaves the other goroutines where they are. *)
LEMMA OthersKeep ==
  ASSUME TypeOK, NEW p \in Procs, Continue(p), NEW q \in Procs, q # p
  PROVE  pc'[q] = pc[q] /\ loc'[q] = loc[q]
<1> pc \in [Procs -> Labels] /\ loc \in [Procs -> LocType]
  BY DEF TypeOK
<1> USE DEF Goto, Then, Local, Finish, SessionCAS
<1>1. CASE CallProvider(p)
  BY <1>1 DEF CallProvider
<1>2. CASE ReverseConfirmed(p)
  BY <1>2 DEF ReverseConfirmed
<1> QED BY <1>1, <1>2 DEF Continue, LoadSession, PostDepositConfirmed,
        PostFxConversion, StartSettling, TransitionToSettling, ChooseProvider,
        ClaimPayout, InsertAttempt, BumpAttemptCount, ClearPendingDestination,
        RecordDispatch, MarkFailed, Reload, ReverseAttempt, WakeFromBackoff,
        FailSettlement, ParkForManualPayout, GiveUp,
        TransitionToSettlementFailed, ReleaseReservation, MarkSucceeded, Settle,
        TransitionToSettled, ReturnPayout, TransitionToReversed, PostReturn,
        FlagDeclined, PageForDeclined, ManualSettle, ClaimManualPayout,
        ConfirmFailed, Requeue, RetryToSettling, PostManualAdjustment,
        CloseReversalCase, ResolveRow, TransitionToReversalResolved

(* The three ways to reach a reversal: each has recorded the failure. *)
LEMMA FailureStep ==
  ASSUME TypeInv, FailureInv, [Next]_vars, NEW p \in Procs, Continue(p)
  PROVE  FailureInv'
<1> TypeOK BY DEF TypeInv
<1> pc \in [Procs -> Labels] /\ loc \in [Procs -> LocType]
  BY DEF TypeOK
<1> DEFINE Known(q) ==
      /\ pc'[q] \in {"reload", "reverse"} /\ loc'[q].att \in Attempt
           => attempts'[loc'[q].att].status \in Failed
      /\ pc'[q] = "confirm_reversals"
           => \A n \in loc'[q].todo : attempts'[n].status \in Failed
<1>1. ASSUME MarkFailed(p) PROVE Known(p)
  <2> DEFINE n == loc[p].att
  <2>1. Bucket(loc[p].out) \in Failed
    BY DEF Bucket, Failed
  <2>2. n \in Attempt
          => [attempts[n] EXCEPT !.status = Bucket(loc[p].out), !.reason = TRUE].status \in Failed
    BY <2>1 DEF TypeOK, AttemptType
  <2>3. CASE Open(n)
    <3>1. loc'[p] = loc[p] /\ pc'[p] = "reload"
      BY <1>1, <2>3 DEF MarkFailed, Then, Goto
    <3>2. UpdateAttempt(n, [attempts[n] EXCEPT !.status = Bucket(loc[p].out), !.reason = TRUE])
      BY <1>1, <2>3 DEF MarkFailed
    <3>3. n \in Attempt => attempts'[n].status \in Failed
      BY <2>2, <3>2 DEF UpdateAttempt, TypeOK
    <3> QED BY <3>1, <3>3
  <2>4. CASE ~Open(n)
    BY <1>1, <2>4 DEF MarkFailed, Finish
  <2> QED BY <2>3, <2>4
<1>2. ASSUME Reload(p) PROVE Known(p)
  <2>1. Copied(loc[p]).att = loc[p].att
    BY LocFields DEF Copied, LocType
  <2>2. loc'[p].att = loc[p].att /\ pc[p] = "reload" /\ pc'[p] = "reverse"
    BY <1>2, <2>1 DEF Reload, At, Goto, Local
  <2> QED BY <2>2, FailedStay DEF FailureInv
<1>3. ASSUME ConfirmFailed(p) PROVE Known(p)
  <2> DEFINE open == {n \in Attempt : Open(n)}
  <2>1. [loc[p] EXCEPT !.todo = open].todo = open
    BY LocFields DEF LocType
  <2>2. loc'[p].todo = open /\ pc'[p] \notin {"reload", "reverse"}
    BY <1>3, <2>1 DEF ConfirmFailed, Goto, Local
  <2>3. \A n \in Attempt :
          [attempts[n] EXCEPT !.status = "failed_bucket3", !.reason = TRUE].status \in Failed
    BY DEF TypeOK, AttemptType, Failed
  <2>4. \A n \in open : attempts'[n].status \in Failed
    BY <1>3, <2>3 DEF ConfirmFailed
  <2> QED BY <2>2, <2>4
<1>4. ASSUME ReverseConfirmed(p) PROVE Known(p)
  <2>1. PICK n \in loc[p].todo : Local(p, [loc[p] EXCEPT !.todo = @ \ {n}])
    BY <1>4 DEF ReverseConfirmed
  <2>2. [loc[p] EXCEPT !.todo = @ \ {n}].todo \subseteq loc[p].todo
    BY LocFields DEF LocType
  <2>3. loc'[p].todo \subseteq loc[p].todo /\ loc[p].todo \subseteq Attempt
    BY <2>1, <2>2, LocFields DEF Local
  <2>4. pc[p] = "confirm_reversals" /\ pc'[p] \notin {"reload", "reverse"}
    BY <1>4 DEF ReverseConfirmed, At, Goto
  <2> QED BY <2>3, <2>4, FailedStay DEF FailureInv
<1>5. ASSUME pc'[p] \notin {"reload", "reverse", "confirm_reversals"} PROVE Known(p)
  BY <1>5
<1>6. Known(p)
  BY <1>1, <1>2, <1>3, <1>4, <1>5 DEF Continue, Goto, Then, Local, Finish,
         SessionCAS, AfterSettling, LoadSession, PostDepositConfirmed,
         PostFxConversion, StartSettling, TransitionToSettling, ChooseProvider,
         ClaimPayout, InsertAttempt, BumpAttemptCount, CallProvider,
         ClearPendingDestination, RecordDispatch, ReverseAttempt,
         WakeFromBackoff, FailSettlement, ParkForManualPayout, GiveUp,
         TransitionToSettlementFailed, ReleaseReservation, MarkSucceeded,
         Settle, TransitionToSettled, ReturnPayout, TransitionToReversed,
         PostReturn, FlagDeclined, PageForDeclined, ManualSettle,
         ClaimManualPayout, Requeue, RetryToSettling, PostManualAdjustment,
         CloseReversalCase, ResolveRow, TransitionToReversalResolved
<1>7. ASSUME NEW q \in Procs, q # p PROVE Known(q)
  BY <1>7, OthersKeep, FailureKept
<1> QED BY <1>6, <1>7 DEF FailureInv

LEMMA FailureNext == TypeInv /\ FailureInv /\ [Next]_vars => FailureInv'
<1> SUFFICES ASSUME TypeInv, FailureInv, [Next]_vars PROVE FailureInv'
  OBVIOUS
<1> TypeOK BY DEF TypeInv
<1>1. ASSUME NEW p \in Procs, Continue(p) PROVE FailureInv'
  BY <1>1, FailureStep
<1>2. ASSUME NEW p \in Procs, \A q \in Procs \ {p} : pc'[q] = pc[q] /\ loc'[q] = loc[q],
             pc'[p] \notin {"reload", "reverse", "confirm_reversals"}
      PROVE  FailureInv'
  BY <1>2, FailureKept DEF FailureInv
<1> pc \in [Procs -> Labels] /\ loc \in [Procs -> LocType]
  BY DEF TypeOK
<1>3. CASE UNCHANGED <<pc, loc>>
  BY <1>3, FailureKept DEF FailureInv
<1>4. CASE WorkerTick
  <2> Worker \in Procs BY DEF Procs
  <2> QED BY <1>4, <1>2
          DEF WorkerTick, ClaimNextPendingDispatch, ConfirmSandboxDispatch, Goto, Local
<1>5. ASSUME NEW p \in Requests, Arrive(p) PROVE FailureInv'
  <2> p \in Procs BY DEF Procs
  <2>1. ASSUME NEW n \in Attempt, HandleSettlementWebhook(p, n) PROVE FailureInv'
    BY <2>1, <1>2 DEF HandleSettlementWebhook, Serve, Goto, Local, Route
  <2> QED BY <1>5, <2>1, <1>2
          DEF Arrive, StartManualSettle, StartRetry, StartResolveReversal, Serve, Goto, Local
<1>6. ASSUME NEW p \in Procs, Interrupted(p) \/ CallInterrupted(p) PROVE FailureInv'
  BY <1>6, <1>2 DEF Interrupted, CallInterrupted, Finish, Local
<1> QED BY <1>1, <1>3, <1>4, <1>5, <1>6
        DEF Next, vars, HandleDepositConfirmed, PageTimedOutConfirmation, Environment,
            ProviderPays, ProviderRejects, BankReturns, FateChanges, HumanPays, LateDeposit, aside

LEMMA ReversalNext == ReversalInv /\ [Next]_vars => ReversalInv'
<1> SUFFICES ASSUME ReversalInv, [Next]_vars PROVE ReversalInv'
  OBVIOUS
<1> TypeInv /\ TypeOK /\ FailureInv /\ ReversalsAreOfFailures
  BY DEF ReversalInv, TypeInv
<1>1. ASSUME NEW n \in Attempt,
             Posted(Reversal(n)) \/ attempts[n].status \in Failed
      PROVE  attempts'[n].status \in Failed
  BY <1>1, FailedStay DEF ReversalsAreOfFailures
<1>2. ASSUME UNCHANGED ledger PROVE ReversalsAreOfFailures'
  BY <1>1, <1>2 DEF ReversalsAreOfFailures, Posted
<1>3. ASSUME NEW k, NEW amount, Post(k, amount),
             \A n \in Attempt : k = Reversal(n) => attempts[n].status \in Failed
      PROVE  ReversalsAreOfFailures'
  <2>1. \A n \in Attempt : k # Reversal(n) => ledger'[Reversal(n)] = ledger[Reversal(n)]
    BY <1>3 DEF Post, TypeOK
  <2> QED BY <1>1, <2>1, <1>3 DEF ReversalsAreOfFailures, Posted
<1>4. ASSUME NEW p \in Procs, ReverseAttempt(p) PROVE ReversalsAreOfFailures'
  <2>1. pc[p] = "reverse" /\ Post(Reversal(loc[p].att), loc[p].pay)
    BY <1>4 DEF ReverseAttempt, At
  <2>2. \A n \in Attempt : Reversal(loc[p].att) = Reversal(n) => n = loc[p].att
    BY DEF Reversal
  <2> QED BY <2>1, <2>2, <1>3 DEF FailureInv
<1>5. ASSUME NEW p \in Procs, ReverseConfirmed(p) PROVE ReversalsAreOfFailures'
  <2>1. PICK n \in loc[p].todo : Post(Reversal(n), loc[p].pay)
    BY <1>5 DEF ReverseConfirmed
  <2>2. attempts[n].status \in Failed
    BY <1>5, <2>1 DEF ReverseConfirmed, At, FailureInv
  <2>3. \A m \in Attempt : Reversal(n) = Reversal(m) => m = n
    BY DEF Reversal
  <2> QED BY <2>1, <2>2, <2>3, <1>3
<1>6. ASSUME NEW k \in {DepositConfirmed, FxConversion, ManualPayout, Return, Adjustment},
             NEW n \in Attempt
      PROVE  k # Reversal(n)
  <2>1. n # 0
    BY SettlementAssumption DEF Attempt
  <2> QED BY <2>1 DEF DepositConfirmed, FxConversion, ManualPayout, Return, Adjustment, Reversal
<1>7. ASSUME NEW n, NEW m PROVE Payout(n) # Reversal(m)
  BY DEF Payout, Reversal
<1>8. ASSUME NEW p \in Procs, Continue(p), ~ReverseAttempt(p), ~ReverseConfirmed(p)
      PROVE  ReversalsAreOfFailures'
  <2>1. CASE PostDepositConfirmed(p)
    BY <2>1, <1>3, <1>6 DEF PostDepositConfirmed
  <2>2. CASE PostFxConversion(p)
    BY <2>2, <1>3, <1>6 DEF PostFxConversion
  <2>3. CASE ClaimPayout(p)
    BY <2>3, <1>2, <1>3, <1>7 DEF ClaimPayout
  <2>4. CASE PostReturn(p)
    BY <2>4, <1>3, <1>6 DEF PostReturn
  <2>5. CASE ClaimManualPayout(p)
    BY <2>5, <1>3, <1>6 DEF ClaimManualPayout
  <2>6. CASE PostManualAdjustment(p)
    BY <2>6, <1>3, <1>6 DEF PostManualAdjustment
  <2> QED BY <1>2, <1>8, <2>1, <2>2, <2>3, <2>4, <2>5, <2>6 DEF Continue,
          LoadSession, StartSettling, TransitionToSettling, ChooseProvider,
          InsertAttempt, BumpAttemptCount, CallProvider,
          ClearPendingDestination, RecordDispatch, MarkFailed, Reload,
          WakeFromBackoff, FailSettlement, ParkForManualPayout, GiveUp,
          TransitionToSettlementFailed, ReleaseReservation, MarkSucceeded,
          Settle, TransitionToSettled, ReturnPayout, TransitionToReversed,
          FlagDeclined, PageForDeclined, ManualSettle, ConfirmFailed, Requeue,
          RetryToSettling, CloseReversalCase, ResolveRow,
          TransitionToReversalResolved
<1>9. ReversalsAreOfFailures'
  BY <1>2, <1>4, <1>5, <1>8
     DEF Next, vars, HandleDepositConfirmed, WorkerTick, ClaimNextPendingDispatch,
         ConfirmSandboxDispatch, PageTimedOutConfirmation, Arrive, Serve,
         HandleSettlementWebhook, StartManualSettle, StartRetry, StartResolveReversal,
         Environment, ProviderPays, ProviderRejects, BankReturns, FateChanges,
         HumanPays, LateDeposit, Interrupted, CallInterrupted
<1> QED BY <1>9, TypeNext, FailureNext DEF ReversalInv

(* A compensating reversal is only ever posted for an attempt that is recorded *)
(* as failed, and the record never changes afterwards: handleAttemptFailure    *)
(* and resolveConfirmedFailedAttempts mark the attempt before they reverse it. *)
THEOREM OnlyFailuresReversed == Spec => []ReversalsAreOfFailures
<1>1. Spec => []ReversalInv
  BY ReversalInit, ReversalNext, PTL DEF Spec
<1>2. ReversalInv => ReversalsAreOfFailures
  BY DEF ReversalInv
<1> QED BY <1>1, <1>2, PTL

-----------------------------------------------------------------------------
(* What one call of a goroutine may do to the attempts.  The safety proofs    *)
(* below argue from this and from the control flow, not from the actions.     *)

Inserts(p, m) ==
  /\ InsertAttempt(p) /\ m = loc[p].cnt + 1
  /\ attempts[m].status = "none"
  /\ attempts'[m].status = "dispatched" /\ ~attempts'[m].ref
  /\ attempts'[m].dest = ResolveDestination(loc[p].dest)
PaysByHand(p, m) ==
  /\ ManualSettle(p) /\ m = loc[p].cnt + 1
  /\ row.status = "awaiting_manual_payout" /\ row'.status = "settled"
  /\ attempts[m].status = "none"
  /\ attempts'[m].status = "succeeded" /\ ~attempts'[m].ref
Fails(p, m) ==
  /\ MarkFailed(p) /\ m = loc[p].att
  /\ attempts[m].status = "dispatched"
  /\ attempts'[m].status \in Failed /\ attempts'[m].ref = attempts[m].ref
Succeeds(p, m) ==
  /\ MarkSucceeded(p) /\ m = loc[p].att
  /\ attempts[m].status = "dispatched"
  /\ attempts'[m].status = "succeeded" /\ attempts'[m].ref = attempts[m].ref
GivenUp(p, m) ==
  /\ pc[p] = "confirm_failed"
  /\ attempts[m].status = "dispatched"
  /\ attempts'[m].status \in Failed /\ attempts'[m].ref = attempts[m].ref
Records(p, m) ==
  /\ RecordDispatch(p) /\ m = loc[p].att
  /\ attempts'[m].status = attempts[m].status
Kept(m) == attempts'[m].status = attempts[m].status /\ attempts'[m].ref = attempts[m].ref

LEMMA Updated ==
  ASSUME TypeOK, NEW n, NEW a \in AttemptType, UpdateAttempt(n, a), NEW m \in Attempt
  PROVE  /\ m = n => attempts'[m] = a
         /\ m # n => attempts'[m] = attempts[m]
BY DEF TypeOK, UpdateAttempt

LEMMA AttemptStep ==
  ASSUME TypeInv, NEW p \in Procs, Continue(p), NEW m \in Attempt
  PROVE  \/ Inserts(p, m) \/ PaysByHand(p, m) \/ Fails(p, m) \/ Succeeds(p, m)
         \/ GivenUp(p, m) \/ Records(p, m) \/ Kept(m)
<1> TypeOK BY DEF TypeInv
<1> DEFINE a == attempts[m]
<1>1. a \in AttemptType
  BY DEF TypeOK
<1>2. CASE InsertAttempt(p)
  <2> DEFINE n == loc[p].cnt + 1
             new == [NoAttempt EXCEPT !.status = "dispatched", !.provider = loc[p].prov,
                                      !.dest = ResolveDestination(loc[p].dest)]
  <2>1. new.status = "dispatched" /\ new.ref = FALSE /\ new.dest = ResolveDestination(loc[p].dest)
    BY DEF NoAttempt
  <2>2. (attempts[n].status = "none" /\ attempts' = [attempts EXCEPT ![n] = new]) \/ UNCHANGED attempts
    BY <1>2 DEF InsertAttempt, UpdateAttempt
  <2> HIDE DEF n, new
  <2>3. CASE m = n /\ ~UNCHANGED attempts
    BY <1>2, <2>1, <2>2, <2>3 DEF Inserts, n, TypeOK
  <2> QED BY <2>2, <2>3 DEF Kept, TypeOK
<1>3. CASE RecordDispatch(p)
  <2> DEFINE n == loc[p].att
             updated == [attempts[n] EXCEPT !.ref = TRUE,
                          !.reason = IF loc[p].out = "uncertain" THEN TRUE ELSE @]
  <2>1. n = m => updated.status = attempts[m].status
    BY <1>1 DEF AttemptType
  <2>2. attempts' = [attempts EXCEPT ![n] = updated] \/ UNCHANGED attempts
    BY <1>3 DEF RecordDispatch, UpdateAttempt
  <2> HIDE DEF n, updated
  <2>3. CASE m = n /\ ~UNCHANGED attempts
    BY <1>3, <2>1, <2>2, <2>3 DEF Records, n, TypeOK
  <2> QED BY <2>2, <2>3 DEF Kept, TypeOK
<1>4. CASE MarkFailed(p)
  <2> DEFINE n == loc[p].att
             failed == [attempts[n] EXCEPT !.status = Bucket(loc[p].out), !.reason = TRUE]
  <2>1. Bucket(loc[p].out) \in Failed
    BY DEF Bucket, Failed
  <2>2. n = m => failed.status \in Failed /\ failed.ref = attempts[m].ref
    BY <1>1, <2>1 DEF AttemptType
  <2>3. (Open(n) /\ attempts' = [attempts EXCEPT ![n] = failed]) \/ UNCHANGED attempts
    BY <1>4 DEF MarkFailed, UpdateAttempt
  <2> HIDE DEF n, failed
  <2>4. CASE m = n /\ ~UNCHANGED attempts
    BY <1>4, <2>2, <2>3, <2>4 DEF Fails, Open, n, TypeOK
  <2> QED BY <2>3, <2>4 DEF Kept, TypeOK
<1>5. CASE MarkSucceeded(p)
  <2> DEFINE n == loc[p].att
             paid == [attempts[n] EXCEPT !.status = "succeeded"]
  <2>1. n = m => paid.status = "succeeded" /\ paid.ref = attempts[m].ref
    BY <1>1 DEF AttemptType
  <2>2. (Open(n) /\ attempts' = [attempts EXCEPT ![n] = paid]) \/ UNCHANGED attempts
    BY <1>5 DEF MarkSucceeded, UpdateAttempt
  <2> HIDE DEF n, paid
  <2>3. CASE m = n /\ ~UNCHANGED attempts
    BY <1>5, <2>1, <2>2, <2>3 DEF Succeeds, Open, n, TypeOK
  <2> QED BY <2>2, <2>3 DEF Kept, TypeOK
<1>6. CASE FlagDeclined(p)
  <2> DEFINE n == loc[p].att
             flagged == [attempts[n] EXCEPT !.reason = TRUE]
  <2>1. n = m => flagged.status = a.status /\ flagged.ref = a.ref
    BY <1>1 DEF AttemptType
  <2>2. attempts' = [attempts EXCEPT ![n] = flagged] \/ UNCHANGED attempts
    BY <1>6 DEF FlagDeclined, UpdateAttempt
  <2> HIDE DEF n, flagged
  <2> QED BY <2>1, <2>2 DEF Kept, TypeOK
<1>7. CASE ManualSettle(p)
  <2> DEFINE n == loc[p].cnt + 1
             new == [NoAttempt EXCEPT !.status = "succeeded", !.provider = Manual]
  <2>1. new.status = "succeeded" /\ new.ref = FALSE
    BY DEF NoAttempt
  <2>2. \/ /\ attempts[n].status = "none" /\ attempts' = [attempts EXCEPT ![n] = new]
           /\ row.status = "awaiting_manual_payout"
           /\ row' = [row EXCEPT !.status = "settled", !.cnt = n]
        \/ UNCHANGED attempts
    BY <1>7 DEF ManualSettle, UpdateAttempt
  <2>3. row' = [row EXCEPT !.status = "settled", !.cnt = n] => row'.status = "settled"
    BY DEF TypeOK, RowType
  <2> HIDE DEF n, new
  <2>4. CASE m = n /\ ~UNCHANGED attempts
    BY <1>7, <2>1, <2>2, <2>3, <2>4 DEF PaysByHand, n, TypeOK
  <2> QED BY <2>2, <2>4 DEF Kept, TypeOK
<1>8. CASE ConfirmFailed(p)
  <2>1. [a EXCEPT !.status = "failed_bucket3", !.reason = TRUE].status \in Failed
    BY <1>1 DEF AttemptType, Failed
  <2>2. [a EXCEPT !.status = "failed_bucket3", !.reason = TRUE].ref = a.ref
    BY <1>1 DEF AttemptType
  <2> QED BY <1>8, <2>1, <2>2 DEF ConfirmFailed, GivenUp, Kept, Open, At
<1>9. CASE UNCHANGED attempts
  BY <1>9 DEF Kept
<1> QED BY <1>2, <1>3, <1>4, <1>5, <1>6, <1>7, <1>8, <1>9 DEF
         Continue, aside, LoadSession, PostDepositConfirmed, PostFxConversion,
         StartSettling, TransitionToSettling, ChooseProvider, ClaimPayout,
         BumpAttemptCount, CallProvider, ClearPendingDestination, Reload,
         ReverseAttempt, WakeFromBackoff, FailSettlement, ParkForManualPayout,
         GiveUp, TransitionToSettlementFailed, ReleaseReservation, Settle,
         TransitionToSettled, ReturnPayout, TransitionToReversed, PostReturn,
         PageForDeclined, ClaimManualPayout, ReverseConfirmed, Requeue,
         RetryToSettling, PostManualAdjustment, CloseReversalCase, ResolveRow,
         TransitionToReversalResolved

(* Nothing else touches the attempts. *)
LEMMA AttemptsAlone ==
  ASSUME [Next]_vars, ~(\E p \in Procs : Continue(p))
  PROVE  UNCHANGED attempts
BY DEF Next, vars, HandleDepositConfirmed, WorkerTick, ClaimNextPendingDispatch,
       ConfirmSandboxDispatch, PageTimedOutConfirmation, Arrive, Serve,
       HandleSettlementWebhook, StartManualSettle, StartRetry, StartResolveReversal,
       Environment, ProviderPays, ProviderRejects, BankReturns, FateChanges,
       HumanPays, LateDeposit, Interrupted, CallInterrupted

-----------------------------------------------------------------------------
(* A goroutine that works on an attempt has its number.                      *)

AttemptInv == \A p \in Procs :
  pc[p] \in {"call", "clear_dest", "record", "mark_failed", "reload", "reverse",
             "mark_succeeded", "flag"} => loc[p].att \in Attempt

LEMMA AttemptInit == Init => AttemptInv
BY DEF Init, AttemptInv

LEMMA AttemptContinue ==
  ASSUME TypeInv, AttemptInv, NEW p \in Procs, Continue(p)
  PROVE  AttemptInv'
<1> TypeOK BY DEF TypeInv
<1> pc \in [Procs -> Labels] /\ loc \in [Procs -> LocType]
  BY DEF TypeOK
<1> DEFINE Known(q) ==
      pc'[q] \in {"call", "clear_dest", "record", "mark_failed", "reload", "reverse",
                  "mark_succeeded", "flag"} => loc'[q].att \in Attempt
<1>0. loc[p] \in LocType
  BY LocFields
<1>1. ASSUME BumpAttemptCount(p) PROVE Known(p)
  <2> DEFINE n == loc[p].cnt + 1
  <2>1. n \in Attempt
    BY <1>1, NextAttempt DEF BumpAttemptCount, At
  <2>2. [loc[p] EXCEPT !.cnt = n, !.att = n].att = n
    BY <1>0 DEF LocType
  <2>3. loc'[p] = [loc[p] EXCEPT !.cnt = n, !.att = n]
    BY <1>1 DEF BumpAttemptCount, Local
  <2> QED BY <2>1, <2>2, <2>3
<1>2. ASSUME CallProvider(p) PROVE Known(p)
  <2>1. PICK out : loc'[p] = [loc[p] EXCEPT !.out = out]
    BY <1>2 DEF CallProvider, Local
  <2>2. [loc[p] EXCEPT !.out = out].att = loc[p].att
    BY <1>0 DEF LocType
  <2> QED BY <1>2, <2>1, <2>2 DEF CallProvider, At, AttemptInv
<1>3. ASSUME ClearPendingDestination(p) PROVE Known(p)
  <2>1. [loc[p] EXCEPT !.dest = NoDest].att = loc[p].att
    BY <1>0 DEF LocType
  <2> QED BY <1>3, <2>1 DEF ClearPendingDestination, Local, At, AttemptInv
<1>4. ASSUME Reload(p) PROVE Known(p)
  <2>1. Copied(loc[p]).att = loc[p].att
    BY <1>0 DEF LocType, Copied
  <2> QED BY <1>4, <2>1 DEF Reload, Local, At, AttemptInv
<1>5. ASSUME MarkFailed(p) PROVE Known(p)
  BY <1>5 DEF MarkFailed, Then, Goto, Finish, At, AttemptInv
<1>6. ASSUME pc'[p] \notin {"call", "clear_dest", "record", "mark_failed", "reload", "reverse",
                            "mark_succeeded", "flag"}
      PROVE  Known(p)
  BY <1>6
<1>7. Known(p)
  BY <1>1, <1>2, <1>3, <1>4, <1>5, <1>6 DEF Continue, Goto, Then, Local, Finish,
         SessionCAS, AfterSettling, LoadSession, PostDepositConfirmed,
         PostFxConversion, StartSettling, TransitionToSettling, ChooseProvider,
         ClaimPayout, InsertAttempt, RecordDispatch, ReverseAttempt,
         WakeFromBackoff, FailSettlement, ParkForManualPayout, GiveUp,
         TransitionToSettlementFailed, ReleaseReservation, MarkSucceeded,
         Settle, TransitionToSettled, ReturnPayout, TransitionToReversed,
         PostReturn, FlagDeclined, PageForDeclined, ManualSettle, ConfirmFailed,
         ReverseConfirmed, ClaimManualPayout, Requeue, RetryToSettling,
         PostManualAdjustment, CloseReversalCase, ResolveRow,
         TransitionToReversalResolved
<1>8. ASSUME NEW q \in Procs, q # p PROVE Known(q)
  BY <1>8, OthersKeep DEF AttemptInv
<1> QED BY <1>7, <1>8 DEF AttemptInv

LEMMA AttemptNext == TypeInv /\ AttemptInv /\ [Next]_vars => AttemptInv'
<1> SUFFICES ASSUME TypeInv, AttemptInv, [Next]_vars PROVE AttemptInv'
  OBVIOUS
<1> TypeOK BY DEF TypeInv
<1> pc \in [Procs -> Labels] /\ loc \in [Procs -> LocType]
  BY DEF TypeOK
<1>1. CASE \E p \in Procs : Continue(p)
  BY <1>1, AttemptContinue
<1>2. ASSUME NEW p \in Procs, \A q \in Procs \ {p} : pc'[q] = pc[q] /\ loc'[q] = loc[q],
             pc'[p] \in {"call", "clear_dest", "record", "mark_failed", "reload", "reverse",
                         "mark_succeeded", "flag"} => loc'[p].att \in Attempt
      PROVE  AttemptInv'
  BY <1>2 DEF AttemptInv
<1>3. CASE UNCHANGED <<pc, loc>>
  BY <1>3 DEF AttemptInv
<1>4. CASE WorkerTick
  <2> Worker \in Procs BY DEF Procs
  <2>1. ASSUME NEW n \in Attempt, ConfirmSandboxDispatch(n) PROVE AttemptInv'
    <3>1. [Blank EXCEPT !.att = n].att = n
      BY DEF Blank
    <3> QED BY <2>1, <3>1, <1>2 DEF ConfirmSandboxDispatch, Goto, Local
  <2> QED BY <1>4, <2>1, <1>2 DEF WorkerTick, ClaimNextPendingDispatch, Goto, Local
<1>5. ASSUME NEW p \in Requests, Arrive(p) PROVE AttemptInv'
  <2> p \in Procs BY DEF Procs
  <2>1. ASSUME NEW n \in Attempt, HandleSettlementWebhook(p, n) PROVE AttemptInv'
    <3>1. [Blank EXCEPT !.att = n, !.out = "failed"].att = n
      BY DEF Blank
    <3> QED BY <2>1, <3>1, <1>2 DEF HandleSettlementWebhook, Serve, Goto, Local
  <2> QED BY <1>5, <2>1, <1>2
          DEF Arrive, StartManualSettle, StartRetry, StartResolveReversal, Serve, Goto, Local
<1>6. ASSUME NEW p \in Procs, Interrupted(p) \/ CallInterrupted(p) PROVE AttemptInv'
  BY <1>6, <1>2 DEF Interrupted, CallInterrupted, Finish, Local
<1> QED BY <1>1, <1>3, <1>4, <1>5, <1>6
        DEF Next, vars, HandleDepositConfirmed, PageTimedOutConfirmation, Environment,
            ProviderPays, ProviderRejects, BankReturns, FateChanges, HumanPays, LateDeposit, aside

-----------------------------------------------------------------------------
(* The session keeps to its lifecycle.  What the writers of sessions.status   *)
(* rely on: nothing runs before the settlement is queued, and whoever is      *)
(* about to call the session settled has recorded a success.                  *)

Paid == \E n \in Attempt : attempts[n].status = "succeeded"

NotQueued ==
  row.status = "none" =>
    /\ \A p \in Procs : pc[p] = "idle"
    /\ session = "deposit_confirmed"
    /\ reversalCase = "none"
    /\ \A n \in Attempt : attempts[n].status = "none" /\ ~attempts[n].ref

PaidFirst ==
  /\ session \in {"settled", "reversed", "reversal_resolved"} => Paid
  /\ \A p \in Procs : pc[p] \in {"settle", "session_settled", "manual_claim"} => Paid

LifeInv == NotQueued /\ PaidFirst

LEMMA NoAttemptYet ==
  ASSUME Init, NEW n \in Attempt
  PROVE  attempts[n].status = "none" /\ attempts[n].ref = FALSE
<1>1. attempts[n] = NoAttempt
  BY DEF Init
<1>2. NoAttempt.status = "none" /\ NoAttempt.ref = FALSE
  BY DEF NoAttempt
<1> QED BY <1>1, <1>2

LEMMA LifeInit == Init => LifeInv
<1> SUFFICES ASSUME Init PROVE LifeInv
  OBVIOUS
<1>1. session = "deposit_confirmed" /\ reversalCase = "none" /\ \A p \in Procs : pc[p] = "idle"
  BY DEF Init
<1>2. \A n \in Attempt : attempts[n].status = "none" /\ ~attempts[n].ref
  BY NoAttemptYet
<1> QED BY <1>1, <1>2 DEF LifeInv, NotQueued, PaidFirst

LEMMA PaidStays == ASSUME TypeOK, [Next]_vars, Paid PROVE Paid'
BY ResolvedStay DEF Paid

(* The settlement, once queued, stays. *)
LEMMA QueuedStays ==
  ASSUME TypeOK, [Next]_vars, row.status # "none"
  PROVE  row'.status # "none"
<1> row \in RowType
  BY DEF TypeOK
<1>1. ASSUME NEW p \in Procs, Continue(p) PROVE row'.status # "none"
  <2>1. CASE Requeue(p)
    <3>1. PICK d : row' = row \/ row' = [row EXCEPT !.status = "pending_dispatch", !.paged = FALSE, !.dest = d]
      BY <2>1 DEF Requeue
    <3> QED BY <3>1 DEF RowType
  <2>2. CASE ManualSettle(p)
    BY <2>2 DEF ManualSettle, RowType
  <2>3. CASE UNCHANGED row
    BY <2>3
  <2> QED BY <1>1, <2>1, <2>2, <2>3 DEF Continue, aside, RowType,
         LoadSession, PostDepositConfirmed, PostFxConversion,
         StartSettling, TransitionToSettling, ChooseProvider, ClaimPayout, InsertAttempt,
         BumpAttemptCount, CallProvider, ClearPendingDestination, RecordDispatch, MarkFailed,
         Reload, ReverseAttempt, WakeFromBackoff, FailSettlement, ParkForManualPayout,
         GiveUp, TransitionToSettlementFailed, ReleaseReservation, MarkSucceeded, Settle,
         TransitionToSettled, ReturnPayout, TransitionToReversed, PostReturn, FlagDeclined,
         PageForDeclined, ClaimManualPayout, ConfirmFailed, ReverseConfirmed,
         RetryToSettling, PostManualAdjustment, CloseReversalCase, ResolveRow,
         TransitionToReversalResolved
<1>2. CASE ~(\E p \in Procs : Continue(p))
  BY <1>2 DEF Next, vars, HandleDepositConfirmed, WorkerTick, ClaimNextPendingDispatch,
       ConfirmSandboxDispatch, PageTimedOutConfirmation, Arrive, Serve,
       HandleSettlementWebhook, StartManualSettle, StartRetry, StartResolveReversal,
       Environment, ProviderPays, ProviderRejects, BankReturns, FateChanges,
       HumanPays, LateDeposit, Interrupted, CallInterrupted, RowType
<1> QED BY <1>1, <1>2

(* Until it is queued, nothing but the event and the chain can happen. *)
LEMMA BeforeQueue ==
  ASSUME TypeInv, LifeInv, [Next]_vars, row.status = "none"
  PROVE  UNCHANGED <<attempts, session, reversalCase, pc, loc>>
<1> TypeOK /\ row \in RowType
  BY DEF TypeInv, TypeOK
<1>1. \A p \in Procs : pc[p] = "idle"
  BY DEF LifeInv, NotQueued
<1>2. \A n \in Attempt : attempts[n].status = "none" /\ ~attempts[n].ref
  BY DEF LifeInv, NotQueued
<1>3. reversalCase # "open"
  BY DEF LifeInv, NotQueued
<1>4. ASSUME NEW p \in Procs PROVE ~Continue(p)
  BY <1>1 DEF At, Continue,
         LoadSession, PostDepositConfirmed, PostFxConversion,
         StartSettling, TransitionToSettling, ChooseProvider, ClaimPayout, InsertAttempt,
         BumpAttemptCount, CallProvider, ClearPendingDestination, RecordDispatch, MarkFailed,
         Reload, ReverseAttempt, WakeFromBackoff, FailSettlement, ParkForManualPayout,
         GiveUp, TransitionToSettlementFailed, ReleaseReservation, MarkSucceeded, Settle,
         TransitionToSettled, ReturnPayout, TransitionToReversed, PostReturn, FlagDeclined,
         PageForDeclined, ManualSettle, ClaimManualPayout, ConfirmFailed, ReverseConfirmed,
         Requeue, RetryToSettling, PostManualAdjustment, CloseReversalCase, ResolveRow,
         TransitionToReversalResolved
<1>5. ~ClaimNextPendingDispatch
  BY DEF ClaimNextPendingDispatch
<1>6. ASSUME NEW n \in Attempt PROVE ~ConfirmSandboxDispatch(n)
  BY <1>2 DEF ConfirmSandboxDispatch, Open
<1>7. ASSUME NEW p \in Requests PROVE ~Arrive(p)
  BY <1>2, <1>3 DEF Arrive, HandleSettlementWebhook, KnownReference, StartManualSettle,
     StartRetry, Retryable, StartResolveReversal
<1>8. ASSUME NEW p \in Procs PROVE ~Interrupted(p) /\ ~CallInterrupted(p)
  BY <1>1 DEF Interrupted, CallInterrupted, At
<1> QED BY <1>4, <1>5, <1>6, <1>7, <1>8 DEF Next, WorkerTick, HandleDepositConfirmed,
       PageTimedOutConfirmation, Environment, ProviderPays, ProviderRejects, BankReturns,
       FateChanges, HumanPays, LateDeposit, aside, vars

(* Only a recorded success leads to the statements that settle the session. *)
LEMMA SettlingGoroutines ==
  ASSUME TypeInv, AttemptInv, LifeInv, [Next]_vars, NEW q \in Procs,
         pc'[q] \in {"settle", "session_settled", "manual_claim"}
  PROVE  Paid'
<1> TypeOK BY DEF TypeInv
<1> pc \in [Procs -> Labels] /\ loc \in [Procs -> LocType]
  BY DEF TypeOK
<1>1. CASE pc[q] \in {"settle", "session_settled", "manual_claim"}
  BY <1>1, PaidStays DEF LifeInv, PaidFirst
<1>2. ASSUME pc[q] \notin {"settle", "session_settled", "manual_claim"}, NEW p \in Procs, Continue(p)
      PROVE  Paid'
  <2>1. p = q
    BY <1>2, OthersKeep
  <2>2. MarkSucceeded(q) \/ ManualSettle(q)
    BY <1>2, <2>1 DEF Continue, Goto, Then, Local, Finish, At,
         SessionCAS, AfterSettling, LoadSession, PostDepositConfirmed,
         PostFxConversion, StartSettling, TransitionToSettling, ChooseProvider,
         ClaimPayout, InsertAttempt, BumpAttemptCount, CallProvider,
         ClearPendingDestination, RecordDispatch, MarkFailed, Reload, ReverseAttempt,
         WakeFromBackoff, FailSettlement, ParkForManualPayout, GiveUp,
         TransitionToSettlementFailed, ReleaseReservation,
         Settle, TransitionToSettled, ReturnPayout, TransitionToReversed,
         PostReturn, FlagDeclined, PageForDeclined, ConfirmFailed, ReverseConfirmed,
         ClaimManualPayout, Requeue, RetryToSettling, PostManualAdjustment,
         CloseReversalCase, ResolveRow, TransitionToReversalResolved
  <2>3. CASE MarkSucceeded(q)
    <3> DEFINE n == loc[q].att
    <3>0. \A a \in AttemptType : [a EXCEPT !.status = "succeeded"].status = "succeeded"
      BY DEF AttemptType
    <3>1. n \in Attempt
      BY <2>3 DEF MarkSucceeded, At, AttemptInv
    <3>2. UpdateAttempt(n, [attempts[n] EXCEPT !.status = "succeeded"])
      BY <1>2, <2>3 DEF MarkSucceeded, Finish, At
    <3>3. [attempts[n] EXCEPT !.status = "succeeded"].status = "succeeded"
      <4>1. attempts[n] \in AttemptType
        BY <3>1 DEF TypeOK
      <4> QED BY <3>0, <4>1
    <3>4. attempts'[n].status = "succeeded"
      BY <3>1, <3>2, <3>3 DEF UpdateAttempt, TypeOK
    <3> QED BY <3>1, <3>4 DEF Paid
  <2>4. CASE ManualSettle(q)
    <3> DEFINE n == loc[q].cnt + 1
               new == [NoAttempt EXCEPT !.status = "succeeded", !.provider = Manual]
    <3>1. n \in Attempt
      BY <2>4, NextAttempt DEF ManualSettle, At
    <3>2. UpdateAttempt(n, new)
      BY <1>2, <2>4 DEF ManualSettle, Finish, At
    <3>3. new.status = "succeeded"
      BY DEF NoAttempt
    <3>4. attempts'[n].status = "succeeded"
      BY <3>1, <3>2, <3>3 DEF UpdateAttempt, TypeOK
    <3> QED BY <3>1, <3>4 DEF Paid
  <2> QED BY <2>2, <2>3, <2>4
<1>3. CASE ~(\E p \in Procs : Continue(p))
  <2>1. ASSUME NEW p \in Procs, \A r \in Procs \ {p} : pc'[r] = pc[r],
               pc'[p] \notin {"settle", "session_settled", "manual_claim"}
        PROVE  pc[q] \in {"settle", "session_settled", "manual_claim"}
    BY <2>1
  <2> Worker \in Procs /\ Requests \subseteq Procs BY DEF Procs
  <2>2. ASSUME NEW p \in Requests, NEW n \in Attempt, HandleSettlementWebhook(p, n)
        PROVE  pc[q] \in {"settle", "session_settled", "manual_claim"}
    BY <2>2, <2>1 DEF HandleSettlementWebhook, Serve, Goto, Route
  <2>3. ASSUME UNCHANGED pc
        PROVE  pc[q] \in {"settle", "session_settled", "manual_claim"}
    BY <2>3
  <2>4. pc[q] \in {"settle", "session_settled", "manual_claim"}
    BY <1>3, <2>1, <2>2, <2>3 DEF Next, vars, HandleDepositConfirmed, WorkerTick,
       ClaimNextPendingDispatch, ConfirmSandboxDispatch, PageTimedOutConfirmation, Arrive,
       StartManualSettle, StartRetry, StartResolveReversal, Serve, Goto,
       Environment, ProviderPays, ProviderRejects, BankReturns, FateChanges,
       HumanPays, LateDeposit, Interrupted, CallInterrupted, Finish
  <2> QED BY <2>4, <1>1
<1> QED BY <1>1, <1>2, <1>3

(* What a step does to the session: a move of its lifecycle. *)
Step == [Promise!Next]_(Promise!vars)

(* The statements that write sessions.status, each with what it has read. *)
LEMMA SessionWriters ==
  ASSUME TypeOK, [Next]_vars, session' # session
  PROVE  /\ row' = row /\ UNCHANGED attempts
         /\ \E p \in Procs : pc[p] # "idle"
              /\ <<pc[p], session, session'>> \in
                   {<<"session_settling", "deposit_confirmed", "settling">>,
                    <<"session_failed", "settling", "settlement_failed">>,
                    <<"session_settled", "settling", "settled">>,
                    <<"session_reversed", "settled", "reversed">>,
                    <<"session_retry", "settlement_failed", "settling">>,
                    <<"session_resolved", "reversed", "reversal_resolved">>}
<1>1. ASSUME NEW p \in Procs, Continue(p)
      PROVE  \/ TransitionToSettling(p) \/ TransitionToSettlementFailed(p)
             \/ TransitionToSettled(p) \/ TransitionToReversed(p)
             \/ RetryToSettling(p) \/ TransitionToReversalResolved(p)
  BY <1>1 DEF Continue, aside, bounds, LoadSession, PostDepositConfirmed, PostFxConversion,
         StartSettling, ChooseProvider, ClaimPayout, InsertAttempt,
         BumpAttemptCount, CallProvider, ClearPendingDestination, RecordDispatch, MarkFailed,
         Reload, ReverseAttempt, WakeFromBackoff, FailSettlement, ParkForManualPayout,
         GiveUp, ReleaseReservation, MarkSucceeded, Settle,
         ReturnPayout, PostReturn, FlagDeclined, PageForDeclined, ManualSettle,
         ClaimManualPayout, ConfirmFailed, ReverseConfirmed, Requeue,
         PostManualAdjustment, CloseReversalCase, ResolveRow
<1>2. ASSUME NEW p \in Procs, Continue(p)
      PROVE  /\ row' = row /\ UNCHANGED attempts /\ pc[p] # "idle"
             /\ <<pc[p], session, session'>> \in
                   {<<"session_settling", "deposit_confirmed", "settling">>,
                    <<"session_failed", "settling", "settlement_failed">>,
                    <<"session_settled", "settling", "settled">>,
                    <<"session_reversed", "settled", "reversed">>,
                    <<"session_retry", "settlement_failed", "settling">>,
                    <<"session_resolved", "reversed", "reversal_resolved">>}
  BY <1>1, <1>2 DEF TransitionToSettling, TransitionToSettlementFailed, TransitionToSettled,
     TransitionToReversed, RetryToSettling, TransitionToReversalResolved, SessionCAS, At
<1>3. \E p \in Procs : Continue(p)
  BY DEF Next, vars, HandleDepositConfirmed, WorkerTick, ClaimNextPendingDispatch,
       ConfirmSandboxDispatch, PageTimedOutConfirmation, Arrive, Serve,
       HandleSettlementWebhook, StartManualSettle, StartRetry, StartResolveReversal,
       Environment, ProviderPays, ProviderRejects, BankReturns, FateChanges,
       HumanPays, LateDeposit, Interrupted, CallInterrupted
<1> QED BY <1>2, <1>3

LEMMA LifeNext ==
  TypeInv /\ AttemptInv /\ LifeInv /\ [Next]_vars => LifeInv' /\ Step
<1> SUFFICES ASSUME TypeInv, AttemptInv, LifeInv, [Next]_vars PROVE LifeInv' /\ Step
  OBVIOUS
<1> TypeOK BY DEF TypeInv
<1> USE DEF Promise!facts, Promise!vars, Promise!Move
<1>1. NotQueued'
  BY BeforeQueue, QueuedStays DEF LifeInv, NotQueued
<1>2. ASSUME session' # session
      PROVE  /\ session' \in {"settled", "reversed", "reversal_resolved"} => Paid'
             /\ Step
  <2>1. row' = row /\ UNCHANGED attempts
    BY <1>2, SessionWriters
  <2>2. row.status # "none"
    BY <1>2, SessionWriters DEF LifeInv, NotQueued
  <2>3. PICK p \in Procs :
          <<pc[p], session, session'>> \in
                   {<<"session_settling", "deposit_confirmed", "settling">>,
                    <<"session_failed", "settling", "settlement_failed">>,
                    <<"session_settled", "settling", "settled">>,
                    <<"session_reversed", "settled", "reversed">>,
                    <<"session_retry", "settlement_failed", "settling">>,
                    <<"session_resolved", "reversed", "reversal_resolved">>}
    BY <1>2, SessionWriters
  <2>4. session' \in {"settled", "reversed", "reversal_resolved"} => Paid
    BY <2>3 DEF LifeInv, PaidFirst
  <2>5. Paid' <=> Paid
    BY <2>1 DEF Paid
  <2>6. Promise!StartSettling \/ Promise!Settle \/ Promise!Fail \/ Promise!Reverse
        \/ Promise!ResolveReversal
    BY <2>1, <2>2, <2>3, <2>4, <2>5 DEF Paid, Promise!StartSettling, Promise!Settle,
       Promise!Fail, Promise!Reverse, Promise!ResolveReversal
  <2> QED BY <2>4, <2>5, <2>6 DEF Step, Promise!Next
<1>3. PaidFirst'
  BY <1>2, PaidStays, SettlingGoroutines DEF LifeInv, PaidFirst
<1>4. ASSUME session' = session PROVE Step
  <2>1. CASE row.status = "none" /\ row'.status # "none"
    <3>1. session = "deposit_confirmed" /\ UNCHANGED attempts
      BY <2>1, BeforeQueue DEF LifeInv, NotQueued
    <3>2. Promise!Queue
      BY <1>4, <2>1, <3>1 DEF Promise!Queue
    <3> QED BY <3>2 DEF Step, Promise!Next
  <2>2. CASE row.status = "none" /\ row'.status = "none"
    <3>1. UNCHANGED attempts
      BY <2>2, BeforeQueue
    <3> QED BY <1>4, <2>2, <3>1 DEF Step
  <2>3. CASE row.status # "none"
    <3>1. row'.status # "none"
      BY <2>3, QueuedStays
    <3>2. CASE Paid'
      <4>1. Promise!Pay
        BY <1>4, <2>3, <3>1, <3>2 DEF Promise!Pay, Paid
      <4> QED BY <4>1 DEF Step, Promise!Next
    <3>3. CASE ~Paid'
      <4>1. ~Paid
        BY <3>3, PaidStays
      <4>2. (\E n \in Attempt : attempts'[n].status = "succeeded")
              = (\E n \in Attempt : attempts[n].status = "succeeded")
        BY <3>3, <4>1 DEF Paid
      <4> QED BY <1>4, <2>3, <3>1, <4>2 DEF Step
    <3> QED BY <3>2, <3>3
  <2> QED BY <2>1, <2>2, <2>3
<1> QED BY <1>1, <1>2, <1>3, <1>4 DEF LifeInv

(* The settlement module implements the session's lifecycle from              *)
(* deposit_confirmed on: each statement of each handler is one move of        *)
(* session.go's Status made when what it waits for holds, or leaves the       *)
(* lifecycle's state alone, for any number of handlers, crashes and retries.  *)
THEOREM ImplementsLifecycle == Spec => KeepsLifecycle
<1>1. Init => Promise!HandedOver
  <2> SUFFICES ASSUME Init PROVE Promise!HandedOver
    OBVIOUS
  <2>1. session = "deposit_confirmed" /\ row.status = "none"
    BY DEF Init
  <2>2. (\E n \in Attempt : attempts[n].status = "succeeded") = FALSE
    BY NoAttemptYet
  <2> QED BY <2>1, <2>2 DEF Promise!HandedOver
<1>2. Spec => [](TypeInv /\ AttemptInv /\ LifeInv)
  BY TypeInit, TypeNext, AttemptInit, AttemptNext, LifeInit, LifeNext, PTL DEF Spec
<1>3. TypeInv /\ AttemptInv /\ LifeInv /\ [Next]_vars => [Promise!Next]_(Promise!vars)
  BY LifeNext DEF Step
<1> QED BY <1>1, <1>2, <1>3, PTL DEF Spec, KeepsLifecycle, Promise!SpecFromHandOver

-----------------------------------------------------------------------------
(* Whose turn it is.  Between the claim of the row and the claim of the next  *)
(* payout one goroutine drives the settlement; while an attempt is dispatched *)
(* or has succeeded, nobody does, and the row waits for nobody.  A crash      *)
(* leaves the row in a state that nothing drives from.  This is what keeps    *)
(* payouts apart, and it fails with RetryPayout(confirmedFailed): that takes  *)
(* the row from a goroutine that may still be at work on it.                  *)

Driving == {"load", "post_deposit", "post_fx", "start_settling", "session_settling",
            "select", "claim", "insert", "reload", "reverse", "backoff",
            "fail", "park", "give_up"}
Drives(p) == pc[p] \in Driving
Waits == row.status \in {"none", "pending_dispatch", "settlement_failed",
                         "awaiting_manual_payout"}
Holds(n) == attempts[n].status \in {"dispatched", "succeeded"}

NeverConfirmed == \A p \in Procs :
  /\ pc[p] \notin {"confirm_failed", "confirm_reversals"}
  /\ pc[p] = "requeue" => loc[p].from \in {"settlement_failed", "awaiting_manual_payout"}
OneDriver == \A p \in Procs : \A q \in Procs : Drives(p) /\ Drives(q) => p = q
DriverHasTurn == \A p \in Procs : Drives(p) => ~Waits /\ \A n \in Attempt : ~Holds(n)
WaitingHasTurn == Waits => \A n \in Attempt : ~Holds(n)
OneHolder == \A m \in Attempt : \A n \in Attempt : Holds(m) /\ Holds(n) => m = n

TurnInv == /\ NeverConfirmed /\ OneDriver /\ DriverHasTurn /\ WaitingHasTurn /\ OneHolder

(* What a step in which goroutine p acts may do to the turn. *)
TurnStep(p) ==
  /\ \A q \in Procs \ {p} : Drives(q)' = Drives(q)
  /\ Drives(p)' => \/ Drives(p)
                   \/ Waits /\ ~Waits' /\ UNCHANGED attempts
                   \/ \E n \in Attempt : Holds(n) /\ ~Holds(n)' /\ row' = row
  /\ Waits' => \/ Waits
               \/ Drives(p) /\ ~Drives(p)' /\ UNCHANGED attempts
  /\ \A n \in Attempt : Holds(n)' /\ ~Holds(n) =>
       /\ n = loc[p].cnt + 1
       /\ ~Drives(p)'
       /\ \/ Drives(p) /\ row' = row
          \/ Waits /\ ~Waits'

LEMMA TurnKept ==
  ASSUME TurnInv, NEW p \in Procs, TurnStep(p)
  PROVE  OneDriver' /\ DriverHasTurn' /\ WaitingHasTurn' /\ OneHolder'
<1> USE DEF TurnInv
<1>1. OneDriver'
  BY DEF TurnStep, OneDriver, DriverHasTurn, WaitingHasTurn
<1>2. DriverHasTurn'
  BY DEF TurnStep, OneDriver, DriverHasTurn, WaitingHasTurn, OneHolder, Holds
<1>3. WaitingHasTurn'
  BY DEF TurnStep, DriverHasTurn, WaitingHasTurn, Holds
<1>4. OneHolder'
  BY DEF TurnStep, DriverHasTurn, WaitingHasTurn, OneHolder
<1> QED BY <1>1, <1>2, <1>3, <1>4

LEMMA TurnContinue ==
  ASSUME TypeInv, AttemptInv, NeverConfirmed, NEW p \in Procs, Continue(p)
  PROVE  TurnStep(p)
<1> TypeOK BY DEF TypeInv
<1> pc \in [Procs -> Labels] /\ loc \in [Procs -> LocType] /\ row \in RowType
  BY DEF TypeOK
<1>1. \A q \in Procs \ {p} : Drives(q)' = Drives(q)
  BY OthersKeep DEF Drives
<1>2. \A n \in Attempt : Holds(n)' /\ ~Holds(n) => Inserts(p, n) \/ PaysByHand(p, n)
  BY AttemptStep DEF Holds, Fails, Succeeds, GivenUp, Records, Kept, Failed
<1>3. ASSUME InsertAttempt(p) PROVE TurnStep(p)
  <2>1. Drives(p) /\ ~Drives(p)' /\ row' = row
    BY <1>3 DEF InsertAttempt, At, Then, Goto, Finish, Drives, Driving
  <2>2. Waits' = Waits
    BY <2>1 DEF Waits
  <2>3. \A n \in Attempt : Inserts(p, n) => n = loc[p].cnt + 1
    BY DEF Inserts
  <2>4. \A n \in Attempt : ~PaysByHand(p, n)
    BY <2>1 DEF PaysByHand, ManualSettle, At, Drives, Driving
  <2> QED BY <1>1, <1>2, <2>1, <2>2, <2>3, <2>4 DEF TurnStep
<1>4. ASSUME ManualSettle(p) PROVE TurnStep(p)
  <2>1. ~Drives(p)'
    BY <1>4 DEF ManualSettle, At, Then, Goto, Finish, Drives, Driving
  <2>2. Waits' => Waits
    BY <1>4 DEF ManualSettle, Waits
  <2>3. \A n \in Attempt : PaysByHand(p, n) => n = loc[p].cnt + 1 /\ Waits /\ ~Waits'
    BY DEF PaysByHand, Waits
  <2>4. \A n \in Attempt : ~Inserts(p, n)
    BY <1>4 DEF Inserts, InsertAttempt, ManualSettle, At
  <2> QED BY <1>1, <1>2, <2>1, <2>2, <2>3, <2>4 DEF TurnStep
<1>5. ASSUME MarkFailed(p) PROVE TurnStep(p)
  <2> DEFINE n == loc[p].att
  <2>1. n \in Attempt /\ pc[p] = "mark_failed"
    BY <1>5 DEF MarkFailed, At, AttemptInv
  <2>2. row' = row /\ Waits' = Waits
    BY <1>5 DEF MarkFailed, Waits
  <2>3. \A m \in Attempt : ~Inserts(p, m) /\ ~PaysByHand(p, m)
    BY <2>1 DEF Inserts, InsertAttempt, PaysByHand, ManualSettle, At
  <2>4. ASSUME Drives(p)'
        PROVE  Holds(n) /\ attempts'[n].status \notin {"dispatched", "succeeded"}
    <3>1. Open(n) /\ UpdateAttempt(n, [attempts[n] EXCEPT !.status = Bucket(loc[p].out), !.reason = TRUE])
      BY <1>5, <2>4 DEF MarkFailed, Finish, Drives, Driving
    <3>2. [attempts[n] EXCEPT !.status = Bucket(loc[p].out), !.reason = TRUE].status
            \notin {"dispatched", "succeeded"}
      BY <2>1 DEF TypeOK, AttemptType, Bucket
    <3> QED BY <2>1, <3>1, <3>2 DEF UpdateAttempt, Open, Holds, TypeOK
  <2>5. Drives(p)' => \E m \in Attempt : Holds(m) /\ ~Holds(m)' /\ row' = row
    BY <2>1, <2>2, <2>4 DEF Holds
  <2> QED BY <1>1, <1>2, <2>2, <2>3, <2>5 DEF TurnStep
<1>6. ASSUME ParkForManualPayout(p) \/ GiveUp(p) PROVE TurnStep(p)
  <2>1. Drives(p) /\ ~Drives(p)' /\ UNCHANGED attempts
    BY <1>6 DEF ParkForManualPayout, GiveUp, At, Then, Goto, Finish, Drives, Driving
  <2> QED BY <1>1, <2>1 DEF TurnStep, Holds
<1>7. ASSUME Requeue(p) PROVE TurnStep(p)
  <2>1. ~Drives(p)' /\ UNCHANGED attempts
    BY <1>7 DEF Requeue, Then, Goto, Finish, Drives, Driving
  <2>2. row' # row => row.status \in {"settlement_failed", "awaiting_manual_payout"}
    BY <1>7 DEF Requeue, At, NeverConfirmed
  <2>3. Waits' => Waits
    BY <2>2 DEF Waits
  <2> QED BY <1>1, <2>1, <2>3 DEF TurnStep, Holds
<1>8. ASSUME ~InsertAttempt(p), ~ManualSettle(p), ~MarkFailed(p), ~ParkForManualPayout(p),
             ~GiveUp(p), ~Requeue(p)
      PROVE  TurnStep(p)
  <2>1. Drives(p)' => Drives(p)
    BY <1>8 DEF Continue, Drives, Driving, Goto, Then, Local, Finish, At,
         SessionCAS, AfterSettling, LoadSession, PostDepositConfirmed,
         PostFxConversion, StartSettling, TransitionToSettling, ChooseProvider,
         ClaimPayout, BumpAttemptCount, CallProvider,
         ClearPendingDestination, RecordDispatch, Reload, ReverseAttempt,
         WakeFromBackoff, FailSettlement,
         TransitionToSettlementFailed, ReleaseReservation, MarkSucceeded,
         Settle, TransitionToSettled, ReturnPayout, TransitionToReversed,
         PostReturn, FlagDeclined, PageForDeclined, ConfirmFailed, ReverseConfirmed,
         ClaimManualPayout, RetryToSettling, PostManualAdjustment,
         CloseReversalCase, ResolveRow, TransitionToReversalResolved
  <2>2. Waits' => Waits
    BY <1>8 DEF Continue, Waits, RowType, aside,
         SessionCAS, LoadSession, PostDepositConfirmed,
         PostFxConversion, StartSettling, TransitionToSettling, ChooseProvider,
         ClaimPayout, BumpAttemptCount, CallProvider,
         ClearPendingDestination, RecordDispatch, Reload, ReverseAttempt,
         WakeFromBackoff, FailSettlement,
         TransitionToSettlementFailed, ReleaseReservation, MarkSucceeded,
         Settle, TransitionToSettled, ReturnPayout, TransitionToReversed,
         PostReturn, FlagDeclined, PageForDeclined, ConfirmFailed, ReverseConfirmed,
         ClaimManualPayout, RetryToSettling, PostManualAdjustment,
         CloseReversalCase, ResolveRow, TransitionToReversalResolved
  <2>3. \A n \in Attempt : ~Inserts(p, n) /\ ~PaysByHand(p, n)
    BY <1>8 DEF Inserts, PaysByHand
  <2> QED BY <1>1, <1>2, <2>1, <2>2, <2>3 DEF TurnStep
<1> QED BY <1>3, <1>4, <1>5, <1>6, <1>7, <1>8

LEMMA NeverConfirmedNext ==
  ASSUME ~OpsConfirm, TypeInv, NeverConfirmed, [Next]_vars
  PROVE  NeverConfirmed'
<1> TypeOK BY DEF TypeInv
<1> pc \in [Procs -> Labels] /\ loc \in [Procs -> LocType] /\ row \in RowType
  BY DEF TypeOK
<1> USE DEF NeverConfirmed
<1>1. ASSUME NEW p \in Procs, \A q \in Procs \ {p} : pc'[q] = pc[q] /\ loc'[q] = loc[q],
             pc'[p] \notin {"confirm_failed", "confirm_reversals", "requeue"}
      PROVE  NeverConfirmed'
  BY <1>1
<1>2. ASSUME NEW p \in Procs, Continue(p) PROVE NeverConfirmed'
  <2>1. pc'[p] \notin {"confirm_failed", "confirm_reversals", "requeue"}
    BY <1>2 DEF Continue, Goto, Then, Local, Finish, At,
         SessionCAS, AfterSettling, LoadSession, PostDepositConfirmed,
         PostFxConversion, StartSettling, TransitionToSettling, ChooseProvider,
         ClaimPayout, InsertAttempt, BumpAttemptCount, CallProvider,
         ClearPendingDestination, RecordDispatch, MarkFailed, Reload, ReverseAttempt,
         WakeFromBackoff, FailSettlement, ParkForManualPayout, GiveUp,
         TransitionToSettlementFailed, ReleaseReservation, MarkSucceeded,
         Settle, TransitionToSettled, ReturnPayout, TransitionToReversed,
         PostReturn, FlagDeclined, PageForDeclined, ManualSettle, ConfirmFailed,
         ReverseConfirmed, ClaimManualPayout, Requeue, RetryToSettling,
         PostManualAdjustment, CloseReversalCase, ResolveRow, TransitionToReversalResolved
  <2> QED BY <1>1, <1>2, <2>1, OthersKeep
<1>3. ASSUME NEW p \in Requests, Arrive(p) PROVE NeverConfirmed'
  <2> p \in Procs BY DEF Procs
  <2>1. CASE StartRetry(p)
    <3> DEFINE copy == [Copied(Blank) EXCEPT !.from = row.status]
    <3>1. copy.from = row.status
      BY DEF Copied, Blank
    <3>2. row.status \in {"settlement_failed", "awaiting_manual_payout"}
      BY <2>1 DEF StartRetry, Retryable
    <3>3. pc' = [pc EXCEPT ![p] = "requeue"] /\ loc' = [loc EXCEPT ![p] = copy]
      BY <2>1, <3>2 DEF StartRetry, Serve, Goto, Local
    <3> HIDE DEF copy
    <3> QED BY <3>1, <3>2, <3>3
  <2>2. ASSUME NEW n \in Attempt, HandleSettlementWebhook(p, n) PROVE NeverConfirmed'
    BY <2>2, <1>1 DEF HandleSettlementWebhook, Serve, Goto, Local, Route
  <2> QED BY <1>3, <2>1, <2>2, <1>1
          DEF Arrive, StartManualSettle, StartResolveReversal, Serve, Goto, Local
<1>4. CASE WorkerTick
  <2> Worker \in Procs BY DEF Procs
  <2> QED BY <1>4, <1>1 DEF WorkerTick, ClaimNextPendingDispatch, ConfirmSandboxDispatch, Goto, Local
<1>5. ASSUME NEW p \in Procs, Interrupted(p) \/ CallInterrupted(p) PROVE NeverConfirmed'
  BY <1>5, <1>1 DEF Interrupted, CallInterrupted, Finish, Local
<1>6. CASE UNCHANGED <<pc, loc>>
  BY <1>6
<1> QED BY <1>2, <1>3, <1>4, <1>5, <1>6
        DEF Next, vars, HandleDepositConfirmed, PageTimedOutConfirmation, Environment,
            ProviderPays, ProviderRejects, BankReturns, FateChanges, HumanPays, LateDeposit, aside

(* Every step is a turn step of somebody: what is not a call of a goroutine    *)
(* either gives the worker the turn, or leaves it where it is.                 *)
LEMMA EveryTurn ==
  ASSUME TypeInv, AttemptInv, NeverConfirmed, [Next]_vars
  PROVE  \E p \in Procs : TurnStep(p)
<1> TypeOK BY DEF TypeInv
<1> pc \in [Procs -> Labels] /\ loc \in [Procs -> LocType] /\ row \in RowType
  BY DEF TypeOK
<1> Worker \in Procs /\ Requests \subseteq Procs BY DEF Procs
<1> DEFINE Somebody == \E p \in Procs : TurnStep(p)
<1>3. ASSUME NEW p \in Procs, Continue(p) PROVE Somebody
  BY <1>3, TurnContinue
<1>4. ASSUME NEW p \in Procs, UNCHANGED attempts, \A q \in Procs \ {p} : pc'[q] = pc[q],
             Drives(p)' => Drives(p) \/ (Waits /\ ~Waits'), Waits' => Waits
      PROVE  Somebody
  BY <1>4 DEF TurnStep, Drives, Holds
<1> HIDE DEF Somebody
<1>5. ASSUME WorkerTick PROVE Somebody
  <2>1. ASSUME ClaimNextPendingDispatch PROVE Somebody
    BY <2>1, <1>4 DEF ClaimNextPendingDispatch, Waits, RowType, Goto
  <2>2. ASSUME NEW n \in Attempt, ConfirmSandboxDispatch(n) PROVE Somebody
    BY <2>2, <1>4 DEF ConfirmSandboxDispatch, Waits, Goto, Drives, Driving
  <2> QED BY <1>5, <2>1, <2>2 DEF WorkerTick
<1>6. ASSUME NEW p \in Requests, Arrive(p) PROVE Somebody
  <2>1. ASSUME NEW l \in Labels \ Driving, NEW m, Serve(p, l, m) PROVE Somebody
    BY <2>1, <1>4 DEF Serve, Goto, Drives, Waits
  <2>2. ASSUME NEW n \in Attempt, HandleSettlementWebhook(p, n) PROVE Somebody
    <3>1. PICK event \in Callbacks(attempts[n].provider, flight[n]) :
            Serve(p, Route(event, attempts[n].status), [Blank EXCEPT !.att = n, !.out = "failed"])
      BY <2>2 DEF HandleSettlementWebhook
    <3>2. Route(event, attempts[n].status) \in Labels \ Driving
      BY DEF Route, Labels, Driving
    <3> QED BY <2>1, <3>1, <3>2
  <2>3. {"manual", "confirm_failed", "requeue", "adjust"} \subseteq Labels \ Driving
    BY DEF Labels, Driving
  <2> QED BY <1>6, <2>1, <2>2, <2>3
          DEF Arrive, StartManualSettle, StartRetry, StartResolveReversal
<1>7. ASSUME NEW p \in Procs, Interrupted(p) \/ CallInterrupted(p) PROVE Somebody
  BY <1>7, <1>4 DEF Interrupted, CallInterrupted, Finish, Drives, Driving, Waits
<1>8. ASSUME HandleDepositConfirmed \/ PageTimedOutConfirmation PROVE Somebody
  BY <1>8, <1>4 DEF HandleDepositConfirmed, PageTimedOutConfirmation, Waits, RowType, Drives
<1>9. ASSUME UNCHANGED <<row, attempts, pc>> PROVE Somebody
  BY <1>9, <1>4 DEF Waits, Drives
<1>10. Somebody
  BY <1>3, <1>5, <1>6, <1>7, <1>8, <1>9
        DEF Next, vars, Environment, ProviderPays, ProviderRejects, BankReturns, FateChanges,
            HumanPays, LateDeposit, aside, Somebody
<1> QED BY <1>10 DEF Somebody

(* Who has the turn stays known. *)
LEMMA TurnAlways ==
  ASSUME ~OpsConfirm, TypeInv, AttemptInv, TurnInv, [Next]_vars
  PROVE  TurnInv'
<1>1. NeverConfirmed'
  BY NeverConfirmedNext DEF TurnInv
<1>2. PICK p \in Procs : TurnStep(p)
  BY EveryTurn DEF TurnInv
<1> QED BY <1>1, <1>2, TurnKept DEF TurnInv

LEMMA TurnInit == Init => TurnInv
<1> SUFFICES ASSUME Init PROVE TurnInv
  OBVIOUS
<1>1. \A p \in Procs : pc[p] = "idle"
  BY DEF Init
<1>2. \A n \in Attempt : attempts[n].status = "none"
  BY NoAttemptYet
<1> QED BY <1>1, <1>2 DEF TurnInv, NeverConfirmed, OneDriver, DriverHasTurn, WaitingHasTurn,
                          OneHolder, Drives, Driving, Holds

-----------------------------------------------------------------------------
(* Who is calling the provider: one goroutine per attempt, between the        *)
(* attempt's row and the provider's recorded answer.  No callback is          *)
(* recognised for that attempt meanwhile, since its reference is not stored.  *)

Calling(p, n) == \/ pc[p] = "bump" /\ loc[p].cnt + 1 = n
                 \/ pc[p] \in {"call", "clear_dest", "record"} /\ loc[p].att = n
Failing(p, n) == pc[p] = "mark_failed" /\ loc[p].att = n

CallerHolds == \A n \in Attempt : \A p \in Procs :
  Calling(p, n) => Holds(n) /\ ~attempts[n].ref
OneCaller == \A n \in Attempt : \A p \in Procs : \A q \in Procs :
  Calling(p, n) /\ Calling(q, n) => p = q
AnsweredFails == \A n \in Attempt : \A p \in Procs :
  Failing(p, n) => attempts[n].status # "none" /\ \A q \in Procs : ~Calling(q, n)
ReferenceOfRow == \A n \in Attempt : attempts[n].ref => attempts[n].status # "none"

CallInv == CallerHolds /\ OneCaller /\ AnsweredFails /\ ReferenceOfRow

LEMMA CallInit == Init => CallInv
<1> SUFFICES ASSUME Init PROVE CallInv
  OBVIOUS
<1>1. \A p \in Procs : pc[p] = "idle"
  BY DEF Init
<1>2. \A n \in Attempt : attempts[n].status = "none" /\ attempts[n].ref = FALSE
  BY NoAttemptYet
<1> QED BY <1>1, <1>2 DEF CallInv, CallerHolds, OneCaller, AnsweredFails, ReferenceOfRow,
                          Calling, Failing

(* What a step in which goroutine p acts may do to the calls. *)
CallStep(p) ==
  /\ \A q \in Procs \ {p} : \A n \in Attempt :
       Calling(q, n)' = Calling(q, n) /\ Failing(q, n)' = Failing(q, n)
  /\ \A n \in Attempt : Calling(p, n)' => Calling(p, n) \/ Inserts(p, n)
  /\ \A n \in Attempt : Failing(p, n)' =>
       \/ Calling(p, n) /\ ~Calling(p, n)'
       \/ attempts[n].ref /\ ~Calling(p, n) /\ ~Calling(p, n)'
  /\ \A n \in Attempt :
       \/ Inserts(p, n)
       \/ attempts[n].status = "none" /\ ~attempts'[n].ref
       \/ Failing(p, n) /\ Holds(n) /\ ~Holds(n)' /\ attempts'[n].status # "none"
       \/ Holds(n) /\ Holds(n)' /\ attempts'[n].ref = attempts[n].ref
       \/ Calling(p, n) /\ ~Calling(p, n)' /\ attempts'[n].status = attempts[n].status
       \/ Kept(n)

LEMMA CallKept ==
  ASSUME TypeOK, CallInv, NEW p \in Procs, CallStep(p)
  PROVE  CallInv'
<1> USE DEF CallInv
<1>0. \A n \in Attempt : attempts[n].ref \in BOOLEAN
  BY DEF TypeOK, AttemptType
<1>1. ReferenceOfRow'
  <2> SUFFICES ASSUME NEW n \in Attempt, attempts'[n].ref PROVE attempts'[n].status # "none"
    BY DEF ReferenceOfRow
  <2> QED BY <1>0 DEF CallStep, Inserts, CallerHolds, ReferenceOfRow, Holds, Kept
<1>2. CallerHolds'
  <2> SUFFICES ASSUME NEW n \in Attempt, NEW q \in Procs, Calling(q, n)'
               PROVE  Holds(n)' /\ ~attempts'[n].ref
    BY DEF CallerHolds
  <2>1. CASE Inserts(p, n)
    BY <2>1 DEF Inserts, Holds
  <2>2. CASE ~Inserts(p, n)
    <3>1. Calling(q, n)
      BY <2>2 DEF CallStep
    <3>2. Holds(n) /\ ~attempts[n].ref
      BY <3>1 DEF CallerHolds
    <3>3. ~Failing(p, n)
      BY <3>1 DEF AnsweredFails
    <3>4. ~(Calling(p, n) /\ ~Calling(p, n)')
      BY <3>1 DEF OneCaller
    <3> QED BY <2>2, <3>2, <3>3, <3>4 DEF CallStep, Kept, Holds
  <2> QED BY <2>1, <2>2
<1>3. OneCaller'
  <2> SUFFICES ASSUME NEW n \in Attempt, NEW q \in Procs, Calling(q, n)',
                      NEW r \in Procs, Calling(r, n)'
               PROVE  q = r
    BY DEF OneCaller
  <2>1. CASE Inserts(p, n)
    BY <2>1 DEF CallStep, Inserts, CallerHolds, Holds
  <2>2. CASE ~Inserts(p, n)
    BY <2>2 DEF CallStep, OneCaller
  <2> QED BY <2>1, <2>2
<1>4. AnsweredFails'
  <2> SUFFICES ASSUME NEW n \in Attempt, NEW q \in Procs, Failing(q, n)'
               PROVE  attempts'[n].status # "none" /\ \A r \in Procs : ~Calling(r, n)'
    BY DEF AnsweredFails
  <2>1. attempts[n].status # "none"
    BY DEF CallStep, AnsweredFails, CallerHolds, Holds, ReferenceOfRow
  <2>2. attempts'[n].status # "none"
    BY <2>1 DEF CallStep, Inserts, Holds, Kept
  <2>3. ~Inserts(p, n)
    BY <2>1 DEF Inserts
  <2>4. ASSUME NEW r \in Procs, Calling(r, n)' PROVE FALSE
    <3>1. Calling(r, n)
      BY <2>3, <2>4 DEF CallStep
    <3>2. ~Failing(q, n)
      BY <3>1 DEF AnsweredFails
    <3>3. q = p /\ ~Calling(p, n)' /\ (Calling(p, n) \/ attempts[n].ref)
      BY <3>2 DEF CallStep
    <3>4. Calling(p, n)
      BY <3>1, <3>3 DEF CallerHolds
    <3>5. r = p
      BY <3>1, <3>4 DEF OneCaller
    <3> QED BY <2>4, <3>3, <3>5
  <2> QED BY <2>2, <2>4
<1> QED BY <1>1, <1>2, <1>3, <1>4

(* An insert that does not fail has written the row. *)
LEMMA Inserted ==
  ASSUME TypeInv, NEW p \in Procs, InsertAttempt(p), pc'[p] = "bump"
  PROVE  Inserts(p, loc[p].cnt + 1)
<1> DEFINE n == loc[p].cnt + 1
           new == [NoAttempt EXCEPT !.status = "dispatched", !.provider = loc[p].prov,
                                    !.dest = ResolveDestination(loc[p].dest)]
<1> TypeOK BY DEF TypeInv
<1>1. pc \in [Procs -> Labels] /\ n \in Attempt
  BY NextAttempt DEF TypeOK, InsertAttempt, At
<1>2. attempts[n].status = "none" /\ attempts' = [attempts EXCEPT ![n] = new]
  BY <1>1 DEF InsertAttempt, Finish, UpdateAttempt
<1>3. new.status = "dispatched" /\ new.ref = FALSE /\ new.dest = ResolveDestination(loc[p].dest)
  BY DEF NoAttempt
<1> HIDE DEF new
<1>4. attempts'[n] = new
  BY <1>1, <1>2 DEF TypeOK
<1> QED BY <1>2, <1>3, <1>4 DEF Inserts

LEMMA CallContinue ==
  ASSUME TypeInv, AttemptInv, NeverConfirmed, NEW p \in Procs, Continue(p)
  PROVE  CallStep(p)
<1> TypeOK BY DEF TypeInv
<1> pc \in [Procs -> Labels] /\ loc \in [Procs -> LocType]
  BY DEF TypeOK
<1>0. loc[p] \in LocType
  BY LocFields
<1>1. \A q \in Procs \ {p} : \A n \in Attempt :
        Calling(q, n)' = Calling(q, n) /\ Failing(q, n)' = Failing(q, n)
  BY OthersKeep DEF Calling, Failing
<1>2. ASSUME BumpAttemptCount(p), NEW n \in Attempt
      PROVE  (Calling(p, n)' => Calling(p, n)) /\ ~Failing(p, n)'
  <2> DEFINE m == loc[p].cnt + 1
  <2>1. [loc[p] EXCEPT !.cnt = m, !.att = m].att = m
    BY <1>0 DEF LocType
  <2>2. pc[p] = "bump" /\ pc'[p] = "call" /\ loc'[p].att = m
    BY <1>2, <2>1 DEF BumpAttemptCount, At, Goto, Local
  <2> QED BY <2>2 DEF Calling, Failing
<1>3. ASSUME CallProvider(p), NEW n \in Attempt
      PROVE  (Calling(p, n)' => Calling(p, n)) /\ ~Failing(p, n)'
  <2>1. PICK out : loc'[p] = [loc[p] EXCEPT !.out = out]
    BY <1>3 DEF CallProvider, Local
  <2>2. [loc[p] EXCEPT !.out = out].att = loc[p].att
    BY <1>0 DEF LocType
  <2>3. pc[p] = "call" /\ pc'[p] = "clear_dest"
    BY <1>3 DEF CallProvider, At, Goto
  <2> QED BY <2>1, <2>2, <2>3 DEF Calling, Failing
<1>4. ASSUME ClearPendingDestination(p), NEW n \in Attempt
      PROVE  /\ Calling(p, n)' => Calling(p, n)
             /\ Failing(p, n)' => Calling(p, n) /\ ~Calling(p, n)'
  <2>1. [loc[p] EXCEPT !.dest = NoDest].att = loc[p].att
    BY <1>0 DEF LocType
  <2>2. pc[p] = "clear_dest" /\ pc'[p] \in {"record", "mark_failed"} /\ loc'[p].att = loc[p].att
    BY <1>4, <2>1 DEF ClearPendingDestination, At, Goto, Local
  <2> QED BY <2>2 DEF Calling, Failing
<1>5. ASSUME InsertAttempt(p), NEW n \in Attempt
      PROVE  (Calling(p, n)' => Inserts(p, n)) /\ ~Failing(p, n)'
  <2>1. pc'[p] \in {"bump", "idle"}
    BY <1>5 DEF InsertAttempt, Then, Goto, Finish
  <2>2. CASE pc'[p] = "bump"
    <3>1. loc'[p] = loc[p]
      BY <1>5, <2>2 DEF InsertAttempt, Then, Finish
    <3> QED BY <2>2, <3>1, <1>5, Inserted DEF Calling, Failing
  <2> QED BY <2>1, <2>2 DEF Calling, Failing
<1>6. ASSUME ~BumpAttemptCount(p), ~CallProvider(p), ~ClearPendingDestination(p), ~InsertAttempt(p)
      PROVE  pc'[p] \notin {"bump", "call", "clear_dest", "record", "mark_failed"}
  BY <1>6 DEF Continue, Goto, Then, Local, Finish, At,
         SessionCAS, AfterSettling, LoadSession, PostDepositConfirmed,
         PostFxConversion, StartSettling, TransitionToSettling, ChooseProvider,
         ClaimPayout, RecordDispatch, MarkFailed, Reload, ReverseAttempt,
         WakeFromBackoff, FailSettlement, ParkForManualPayout, GiveUp,
         TransitionToSettlementFailed, ReleaseReservation, MarkSucceeded,
         Settle, TransitionToSettled, ReturnPayout, TransitionToReversed,
         PostReturn, FlagDeclined, PageForDeclined, ManualSettle, ConfirmFailed,
         ReverseConfirmed, ClaimManualPayout, Requeue, RetryToSettling,
         PostManualAdjustment, CloseReversalCase, ResolveRow, TransitionToReversalResolved
<1>7. ASSUME NEW n \in Attempt
      PROVE  /\ Calling(p, n)' => Calling(p, n) \/ Inserts(p, n)
             /\ Failing(p, n)' => Calling(p, n) /\ ~Calling(p, n)'
  BY <1>2, <1>3, <1>4, <1>5, <1>6 DEF Calling, Failing
<1>8. ASSUME NEW n \in Attempt
      PROVE  \/ Inserts(p, n)
             \/ attempts[n].status = "none" /\ ~attempts'[n].ref
             \/ Failing(p, n) /\ Holds(n) /\ ~Holds(n)' /\ attempts'[n].status # "none"
             \/ Holds(n) /\ Holds(n)' /\ attempts'[n].ref = attempts[n].ref
             \/ Calling(p, n) /\ ~Calling(p, n)' /\ attempts'[n].status = attempts[n].status
             \/ Kept(n)
  <2>1. CASE PaysByHand(p, n)
    BY <2>1 DEF PaysByHand
  <2>2. CASE Fails(p, n)
    <3>1. Failing(p, n) /\ Holds(n)
      BY <2>2 DEF Fails, MarkFailed, At, Failing, Holds
    <3>2. ~Holds(n)' /\ attempts'[n].status # "none"
      BY <2>2 DEF Fails, Failed, Holds
    <3> QED BY <3>1, <3>2
  <2>3. CASE Succeeds(p, n)
    BY <2>3 DEF Succeeds, Holds
  <2>4. CASE GivenUp(p, n)
    BY <2>4 DEF GivenUp, NeverConfirmed
  <2>5. CASE Records(p, n)
    <3>1. pc[p] = "record" /\ loc[p].att = n /\ pc'[p] = "idle"
      BY <2>5 DEF Records, RecordDispatch, At, Finish
    <3> QED BY <2>5, <3>1 DEF Records, Calling
  <2> QED BY <2>1, <2>2, <2>3, <2>4, <2>5, AttemptStep
<1> QED BY <1>1, <1>7, <1>8 DEF CallStep

LEMMA CallNext ==
  ASSUME TypeInv, AttemptInv, NeverConfirmed, CallInv, [Next]_vars
  PROVE  CallInv'
<1> TypeOK BY DEF TypeInv
<1> pc \in [Procs -> Labels] /\ loc \in [Procs -> LocType]
  BY DEF TypeOK
<1> Worker \in Procs /\ Requests \subseteq Procs BY DEF Procs
<1>1. ASSUME NEW p \in Procs, Continue(p) PROVE CallInv'
  BY <1>1, CallContinue, CallKept
<1>2. ASSUME UNCHANGED attempts, NEW p \in Procs,
             \A q \in Procs \ {p} : pc'[q] = pc[q] /\ loc'[q] = loc[q],
             pc'[p] \notin {"bump", "call", "clear_dest", "record"},
             \A n \in Attempt : Failing(p, n)' => ~Calling(p, n) /\ attempts[n].ref
      PROVE  CallInv'
  <2>1. CallStep(p)
    BY <1>2 DEF CallStep, Calling, Failing, Kept
  <2> QED BY <2>1, CallKept
<1>3. CASE UNCHANGED <<attempts, pc, loc>>
  BY <1>3 DEF CallInv, CallerHolds, OneCaller, AnsweredFails, ReferenceOfRow, Calling, Failing, Holds
<1>4. CASE WorkerTick
  BY <1>4, <1>2 DEF WorkerTick, ClaimNextPendingDispatch, ConfirmSandboxDispatch, Goto, Local, Failing
<1>5. ASSUME NEW p \in Requests, Arrive(p) PROVE CallInv'
  <2>1. ASSUME NEW m \in Attempt, HandleSettlementWebhook(p, m) PROVE CallInv'
    <3>1. PICK event \in Callbacks(attempts[m].provider, flight[m]) :
            Serve(p, Route(event, attempts[m].status), [Blank EXCEPT !.att = m, !.out = "failed"])
      BY <2>1 DEF HandleSettlementWebhook
    <3>2. [Blank EXCEPT !.att = m, !.out = "failed"].att = m
      BY DEF Blank
    <3>3. attempts[m].ref /\ pc[p] = "idle"
      BY <2>1, <3>1 DEF HandleSettlementWebhook, KnownReference, Serve, At
    <3>4. pc'[p] = Route(event, attempts[m].status) /\ loc'[p].att = m /\ UNCHANGED attempts
          /\ \A q \in Procs \ {p} : pc'[q] = pc[q] /\ loc'[q] = loc[q]
      BY <3>1, <3>2 DEF Serve, Goto, Local
    <3>5. Route(event, attempts[m].status) \notin {"bump", "call", "clear_dest", "record"}
      BY DEF Route
    <3> QED BY <3>3, <3>4, <3>5, <1>2 DEF Failing, Calling
  <2> QED BY <1>5, <2>1, <1>2
          DEF Arrive, StartManualSettle, StartRetry, StartResolveReversal, Serve, Goto, Local, Failing
<1>6. ASSUME NEW p \in Procs, Interrupted(p) \/ CallInterrupted(p) PROVE CallInv'
  BY <1>6, <1>2 DEF Interrupted, CallInterrupted, Finish, Local, Failing
<1> QED BY <1>1, <1>3, <1>4, <1>5, <1>6
        DEF Next, vars, HandleDepositConfirmed, PageTimedOutConfirmation, Environment,
            ProviderPays, ProviderRejects, BankReturns, FateChanges, HumanPays, LateDeposit, aside

-----------------------------------------------------------------------------
(* What the provider has done with each attempt, and what the code knows of   *)
(* it: an attempt is only recorded as failed when its payout is over.         *)

Over(n) == flight[n] \in {"dead", "returned"}

FlightOfRow == \A n \in Attempt : flight[n] # "none" => attempts[n].status # "none"
LiveHolds == \A n \in Attempt : Live(n) => Holds(n)
NotSentYet == \A n \in Attempt : \A p \in Procs :
  pc[p] \in {"bump", "call"} /\ Calling(p, n) => flight[n] = "none"
FailingIsOver == \A n \in Attempt : \A p \in Procs : Failing(p, n) => Over(n)
RejectedIsOver == \A n \in Attempt : \A p \in Procs :
  pc[p] = "clear_dest" /\ loc[p].att = n /\ loc[p].out \notin {"accepted", "uncertain"}
    => Over(n)
FlightInv == FlightOfRow /\ LiveHolds /\ NotSentYet /\ FailingIsOver /\ RejectedIsOver

ProviderInv == \A p \in Procs :
  pc[p] \in {"claim", "insert", "bump", "call"} => loc[p].prov \in Adapters

LEMMA FlightInit == Init => FlightInv /\ ProviderInv
<1> SUFFICES ASSUME Init PROVE FlightInv /\ ProviderInv
  OBVIOUS
<1>1. \A p \in Procs : pc[p] = "idle"
  BY DEF Init
<1>2. \A n \in Attempt : flight[n] = "none"
  BY DEF Init
<1> QED BY <1>1, <1>2 DEF FlightInv, FlightOfRow, LiveHolds, NotSentYet, FailingIsOver,
                          RejectedIsOver, ProviderInv, Live, Failing

LEMMA ProviderNext == TypeInv /\ ProviderInv /\ [Next]_vars => ProviderInv'
<1> SUFFICES ASSUME TypeInv, ProviderInv, [Next]_vars PROVE ProviderInv'
  OBVIOUS
<1> TypeOK BY DEF TypeInv
<1> pc \in [Procs -> Labels] /\ loc \in [Procs -> LocType]
  BY DEF TypeOK
<1> Worker \in Procs /\ Requests \subseteq Procs BY DEF Procs
<1>1. ASSUME NEW p \in Procs, \A q \in Procs \ {p} : pc'[q] = pc[q] /\ loc'[q] = loc[q],
             pc'[p] \in {"claim", "insert", "bump", "call"} => loc'[p].prov \in Adapters
      PROVE  ProviderInv'
  BY <1>1 DEF ProviderInv
<1>2. ASSUME NEW p \in Procs, Continue(p) PROVE ProviderInv'
  <2>0. loc[p] \in LocType
    BY LocFields
  <2>1. ASSUME ChooseProvider(p), pc'[p] \in {"claim", "insert", "bump", "call"}
        PROVE  loc'[p].prov \in Adapters
    <3>1. PICK bindings \in Corridors :
            IF SelectProvider(bindings) = ""
            THEN Then(p, "fail")
            ELSE /\ Local(p, [loc[p] EXCEPT !.prov = SelectProvider(bindings), !.att = 0, !.out = ""])
                 /\ Goto(p, "claim")
      BY <2>1 DEF ChooseProvider
    <3>2. SelectProvider(bindings) # ""
      BY <2>1, <3>1 DEF Then, Goto
    <3>3. [loc[p] EXCEPT !.prov = SelectProvider(bindings), !.att = 0, !.out = ""].prov
            = SelectProvider(bindings)
      BY <2>0 DEF LocType
    <3>4. loc'[p].prov = SelectProvider(bindings)
      BY <3>1, <3>2, <3>3 DEF Local
    <3> QED BY <3>2, <3>4, SelectedIsEnabled
  <2>2. ASSUME BumpAttemptCount(p) PROVE loc'[p].prov \in Adapters
    <3> DEFINE n == loc[p].cnt + 1
    <3>1. [loc[p] EXCEPT !.cnt = n, !.att = n].prov = loc[p].prov
      BY <2>0 DEF LocType
    <3> QED BY <2>2, <3>1 DEF BumpAttemptCount, At, Local, ProviderInv
  <2>3. ASSUME ClaimPayout(p) \/ InsertAttempt(p), pc'[p] \in {"claim", "insert", "bump", "call"}
        PROVE  loc'[p].prov \in Adapters
    BY <2>3 DEF ClaimPayout, InsertAttempt, At, Then, Finish, ProviderInv
  <2>4. ASSUME ~ChooseProvider(p), ~ClaimPayout(p), ~InsertAttempt(p), ~BumpAttemptCount(p)
        PROVE  pc'[p] \notin {"claim", "insert", "bump", "call"}
    BY <1>2, <2>4 DEF Continue, Goto, Then, Local, Finish, At,
         SessionCAS, AfterSettling, LoadSession, PostDepositConfirmed,
         PostFxConversion, StartSettling, TransitionToSettling, CallProvider,
         ClearPendingDestination, RecordDispatch, MarkFailed, Reload, ReverseAttempt,
         WakeFromBackoff, FailSettlement, ParkForManualPayout, GiveUp,
         TransitionToSettlementFailed, ReleaseReservation, MarkSucceeded,
         Settle, TransitionToSettled, ReturnPayout, TransitionToReversed,
         PostReturn, FlagDeclined, PageForDeclined, ManualSettle, ConfirmFailed,
         ReverseConfirmed, ClaimManualPayout, Requeue, RetryToSettling,
         PostManualAdjustment, CloseReversalCase, ResolveRow, TransitionToReversalResolved
  <2> QED BY <1>1, <1>2, <2>1, <2>2, <2>3, <2>4, OthersKeep
<1>3. CASE UNCHANGED <<pc, loc>>
  BY <1>3 DEF ProviderInv
<1>4. CASE WorkerTick
  BY <1>4, <1>1 DEF WorkerTick, ClaimNextPendingDispatch, ConfirmSandboxDispatch, Goto, Local
<1>5. ASSUME NEW p \in Requests, Arrive(p) PROVE ProviderInv'
  <2>1. ASSUME NEW n \in Attempt, HandleSettlementWebhook(p, n) PROVE ProviderInv'
    BY <2>1, <1>1 DEF HandleSettlementWebhook, Serve, Goto, Local, Route
  <2> QED BY <1>5, <2>1, <1>1
          DEF Arrive, StartManualSettle, StartRetry, StartResolveReversal, Serve, Goto, Local
<1>6. ASSUME NEW p \in Procs, Interrupted(p) \/ CallInterrupted(p) PROVE ProviderInv'
  BY <1>6, <1>1 DEF Interrupted, CallInterrupted, Finish, Local
<1> QED BY <1>2, <1>3, <1>4, <1>5, <1>6
        DEF Next, vars, HandleDepositConfirmed, PageTimedOutConfirmation, Environment,
            ProviderPays, ProviderRejects, BankReturns, FateChanges, HumanPays, LateDeposit, aside

(* What a step in which goroutine p acts may do to the flights. *)
FlightStep(p) ==
  /\ \A n \in Attempt :
       \/ flight'[n] = flight[n]
       \/ pc[p] = "call" /\ Calling(p, n) /\ pc'[p] # "call"
  /\ \A n \in Attempt :
       \/ attempts[n].status = "none" \/ Holds(n)'
       \/ ~Holds(n) /\ attempts'[n].status # "none"
       \/ Failing(p, n) /\ attempts'[n].status # "none"
  /\ \A n \in Attempt : pc'[p] \in {"bump", "call"} /\ Calling(p, n)' =>
       \/ pc[p] = "bump" /\ Calling(p, n)
       \/ attempts[n].status = "none" /\ flight'[n] = flight[n]
  /\ \A n \in Attempt : Failing(p, n)' =>
       \/ Over(n) /\ ~Calling(p, n)
       \/ pc[p] = "clear_dest" /\ loc[p].att = n /\ loc[p].out \notin {"accepted", "uncertain"}
  /\ \A n \in Attempt :
       pc'[p] = "clear_dest" /\ loc'[p].att = n /\ loc'[p].out \notin {"accepted", "uncertain"}
         => Over(n)'

LEMMA FlightKept ==
  ASSUME CallInv, FlightInv, NEW p \in Procs, FlightStep(p),
         \A q \in Procs \ {p} : pc'[q] = pc[q] /\ loc'[q] = loc[q]
  PROVE  FlightInv'
<1> USE DEF CallInv, FlightInv
<1>1. FlightOfRow'
  BY DEF FlightStep, FlightOfRow, CallerHolds, Holds, FailingIsOver
<1>2. LiveHolds'
  BY DEF FlightStep, LiveHolds, CallerHolds, AnsweredFails, FailingIsOver, FlightOfRow, Holds, Live, Over
<1>3. NotSentYet'
  <2> SUFFICES ASSUME NEW n \in Attempt, NEW q \in Procs, pc'[q] \in {"bump", "call"}, Calling(q, n)'
               PROVE  flight'[n] = "none"
    BY DEF NotSentYet
  <2>1. CASE q = p
    BY <2>1 DEF FlightStep, NotSentYet, FlightOfRow, CallerHolds, Holds
  <2>2. CASE q # p
    <3>1. pc[q] \in {"bump", "call"} /\ Calling(q, n)
      BY <2>2 DEF Calling
    <3>2. ~Calling(p, n) /\ attempts[n].status # "none"
      BY <2>2, <3>1 DEF OneCaller, CallerHolds, Holds
    <3> QED BY <3>1, <3>2 DEF FlightStep, NotSentYet
  <2> QED BY <2>1, <2>2
<1>4. ASSUME NEW n \in Attempt, Over(n), ~Calling(p, n) PROVE Over(n)'
  BY <1>4 DEF FlightStep, FlightOfRow, Over
<1>5. FailingIsOver'
  <2> SUFFICES ASSUME NEW n \in Attempt, NEW q \in Procs, Failing(q, n)'
               PROVE  Over(n)'
    BY DEF FailingIsOver
  <2>1. CASE q = p /\ Over(n) /\ ~Calling(p, n)
    BY <2>1, <1>4
  <2>2. CASE q = p /\ ~(Over(n) /\ ~Calling(p, n))
    <3>1. pc[p] = "clear_dest" /\ Over(n) /\ attempts[n].status # "none"
      BY <2>2 DEF FlightStep, RejectedIsOver, FlightOfRow, Over
    <3> QED BY <3>1 DEF FlightStep, Over
  <2>3. CASE q # p
    <3>1. Failing(q, n)
      BY <2>3 DEF Failing
    <3> QED BY <3>1, <1>4 DEF FailingIsOver, AnsweredFails
  <2> QED BY <2>1, <2>2, <2>3
<1>6. RejectedIsOver'
  <2> SUFFICES ASSUME NEW n \in Attempt, NEW q \in Procs,
                      pc'[q] = "clear_dest", loc'[q].att = n,
                      loc'[q].out \notin {"accepted", "uncertain"}
               PROVE  Over(n)'
    BY DEF RejectedIsOver
  <2>1. CASE q = p
    BY <2>1 DEF FlightStep
  <2>2. CASE q # p
    <3>1. pc[q] = "clear_dest" /\ loc[q].att = n /\ loc[q].out \notin {"accepted", "uncertain"}
      BY <2>2
    <3>2. Calling(q, n) /\ Over(n)
      BY <3>1 DEF RejectedIsOver, Calling
    <3>3. ~Calling(p, n)
      BY <2>2, <3>2 DEF OneCaller
    <3> QED BY <3>2, <3>3, <1>4
  <2> QED BY <2>1, <2>2
<1> QED BY <1>1, <1>2, <1>3, <1>5, <1>6

(* How the answers of the two real adapters are read: a rejection only when    *)
(* nothing is in flight.                                                       *)
LEMMA RejectionIsOver ==
  ASSUME NEW provider \in {Hyparrow, Sandbox}, NEW r \in OutcomeFates(provider),
         r[1] \notin {"accepted", "uncertain"}
  PROVE  r[2] = "dead"
BY DEF OutcomeFates, HyparrowFates

LEMMA FlightContinue ==
  ASSUME Adapters \subseteq {Hyparrow, Sandbox}, TypeInv, AttemptInv, NeverConfirmed, CallInv,
         ProviderInv, NEW p \in Procs, Continue(p)
  PROVE  FlightStep(p)
<1> TypeOK BY DEF TypeInv
<1> pc \in [Procs -> Labels] /\ loc \in [Procs -> LocType] /\ flight \in [Attempt -> Fates]
  BY DEF TypeOK
<1>0. loc[p] \in LocType
  BY LocFields
<1>1. ASSUME NEW n \in Attempt
      PROVE  \/ attempts[n].status = "none" \/ Holds(n)'
             \/ ~Holds(n) /\ attempts'[n].status # "none"
             \/ Failing(p, n) /\ attempts'[n].status # "none"
  BY CallContinue DEF CallStep, Inserts, Kept, Holds
<1>2. ASSUME CallProvider(p), NEW n \in Attempt
      PROVE  /\ flight'[n] = flight[n] \/ Calling(p, n)
             /\ pc[p] = "call" /\ pc'[p] = "clear_dest"
             /\ loc'[p].att = n /\ loc'[p].out \notin {"accepted", "uncertain"} => Over(n)'
  <2>1. pc[p] = "call" /\ pc'[p] = "clear_dest"
    BY <1>2 DEF CallProvider, At, Goto
  <2>2. PICK r \in OutcomeFates(loc[p].prov) :
            /\ flight' = [flight EXCEPT ![loc[p].att] = r[2]]
            /\ Local(p, [loc[p] EXCEPT !.out = r[1]])
    BY <1>2 DEF CallProvider
  <2>3. flight'[n] = flight[n] \/ Calling(p, n)
    BY <2>1, <2>2 DEF Calling
  <2>4. [loc[p] EXCEPT !.out = r[1]].att = loc[p].att /\ [loc[p] EXCEPT !.out = r[1]].out = r[1]
    BY <1>0 DEF LocType
  <2>5. loc'[p].att = loc[p].att /\ loc'[p].out = r[1]
    BY <2>2, <2>4 DEF Local
  <2>6. loc[p].prov \in {Hyparrow, Sandbox}
    BY <2>1 DEF ProviderInv
  <2>7. r[1] \notin {"accepted", "uncertain"} => r[2] = "dead"
    BY <2>6, RejectionIsOver
  <2>8. loc[p].att = n => flight'[n] = r[2]
    BY <2>2
  <2> QED BY <2>1, <2>3, <2>5, <2>7, <2>8 DEF Over
<1>3. ~CallProvider(p) => flight' = flight
  BY DEF Continue, aside,
         SessionCAS, LoadSession, PostDepositConfirmed,
         PostFxConversion, StartSettling, TransitionToSettling, ChooseProvider,
         ClaimPayout, InsertAttempt, BumpAttemptCount,
         ClearPendingDestination, RecordDispatch, MarkFailed, Reload, ReverseAttempt,
         WakeFromBackoff, FailSettlement, ParkForManualPayout, GiveUp,
         TransitionToSettlementFailed, ReleaseReservation, MarkSucceeded,
         Settle, TransitionToSettled, ReturnPayout, TransitionToReversed,
         PostReturn, FlagDeclined, PageForDeclined, ManualSettle, ConfirmFailed,
         ReverseConfirmed, ClaimManualPayout, Requeue, RetryToSettling,
         PostManualAdjustment, CloseReversalCase, ResolveRow, TransitionToReversalResolved
<1>4. ASSUME NEW n \in Attempt
      PROVE  \/ flight'[n] = flight[n]
             \/ pc[p] = "call" /\ Calling(p, n) /\ pc'[p] # "call"
  BY <1>2, <1>3
<1>5. ASSUME NEW n \in Attempt, pc'[p] \in {"bump", "call"}, Calling(p, n)'
      PROVE  \/ pc[p] = "bump" /\ Calling(p, n)
             \/ attempts[n].status = "none" /\ flight'[n] = flight[n]
  <2>1. BumpAttemptCount(p) \/ InsertAttempt(p)
    BY <1>5 DEF Continue, Goto, Then, Local, Finish, At,
         SessionCAS, AfterSettling, LoadSession, PostDepositConfirmed,
         PostFxConversion, StartSettling, TransitionToSettling, ChooseProvider,
         ClaimPayout, CallProvider, ClearPendingDestination,
         RecordDispatch, MarkFailed, Reload, ReverseAttempt,
         WakeFromBackoff, FailSettlement, ParkForManualPayout, GiveUp,
         TransitionToSettlementFailed, ReleaseReservation, MarkSucceeded,
         Settle, TransitionToSettled, ReturnPayout, TransitionToReversed,
         PostReturn, FlagDeclined, PageForDeclined, ManualSettle, ConfirmFailed,
         ReverseConfirmed, ClaimManualPayout, Requeue, RetryToSettling,
         PostManualAdjustment, CloseReversalCase, ResolveRow, TransitionToReversalResolved
  <2>2. Calling(p, n) \/ Inserts(p, n)
    BY <1>5, CallContinue DEF CallStep
  <2>3. flight'[n] = flight[n]
    BY <2>1 DEF BumpAttemptCount, InsertAttempt, aside
  <2>4. CASE BumpAttemptCount(p)
    BY <2>2, <2>4 DEF BumpAttemptCount, Inserts, InsertAttempt, At
  <2>5. CASE InsertAttempt(p)
    BY <2>2, <2>3, <2>5 DEF InsertAttempt, At, Calling, Inserts
  <2> QED BY <2>1, <2>4, <2>5
<1>6. ASSUME NEW n \in Attempt, Failing(p, n)'
      PROVE  pc[p] = "clear_dest" /\ loc[p].att = n /\ loc[p].out \notin {"accepted", "uncertain"}
  <2>1. ClearPendingDestination(p)
    BY <1>6 DEF Failing, Continue, Goto, Then, Local, Finish, At,
         SessionCAS, AfterSettling, LoadSession, PostDepositConfirmed,
         PostFxConversion, StartSettling, TransitionToSettling, ChooseProvider,
         ClaimPayout, InsertAttempt, BumpAttemptCount, CallProvider,
         RecordDispatch, MarkFailed, Reload, ReverseAttempt,
         WakeFromBackoff, FailSettlement, ParkForManualPayout, GiveUp,
         TransitionToSettlementFailed, ReleaseReservation, MarkSucceeded,
         Settle, TransitionToSettled, ReturnPayout, TransitionToReversed,
         PostReturn, FlagDeclined, PageForDeclined, ManualSettle, ConfirmFailed,
         ReverseConfirmed, ClaimManualPayout, Requeue, RetryToSettling,
         PostManualAdjustment, CloseReversalCase, ResolveRow, TransitionToReversalResolved
  <2>2. [loc[p] EXCEPT !.dest = NoDest].att = loc[p].att
    BY <1>0 DEF LocType
  <2> QED BY <1>6, <2>1, <2>2 DEF ClearPendingDestination, Failing, At, Goto, Local
<1>7. ASSUME pc'[p] = "clear_dest" PROVE CallProvider(p)
  BY <1>7 DEF Continue, Goto, Then, Local, Finish, At,
         SessionCAS, AfterSettling, LoadSession, PostDepositConfirmed,
         PostFxConversion, StartSettling, TransitionToSettling, ChooseProvider,
         ClaimPayout, InsertAttempt, BumpAttemptCount, ClearPendingDestination,
         RecordDispatch, MarkFailed, Reload, ReverseAttempt,
         WakeFromBackoff, FailSettlement, ParkForManualPayout, GiveUp,
         TransitionToSettlementFailed, ReleaseReservation, MarkSucceeded,
         Settle, TransitionToSettled, ReturnPayout, TransitionToReversed,
         PostReturn, FlagDeclined, PageForDeclined, ManualSettle, ConfirmFailed,
         ReverseConfirmed, ClaimManualPayout, Requeue, RetryToSettling,
         PostManualAdjustment, CloseReversalCase, ResolveRow, TransitionToReversalResolved
<1> QED BY <1>1, <1>2, <1>4, <1>5, <1>6, <1>7 DEF FlightStep

LEMMA FlightNext ==
  ASSUME Adapters \subseteq {Hyparrow, Sandbox}, TypeInv, AttemptInv, NeverConfirmed, CallInv,
         ProviderInv, FlightInv, [Next]_vars
  PROVE  FlightInv'
<1> TypeOK BY DEF TypeInv
<1> pc \in [Procs -> Labels] /\ loc \in [Procs -> LocType] /\ flight \in [Attempt -> Fates]
  BY DEF TypeOK
<1> Worker \in Procs /\ Requests \subseteq Procs BY DEF Procs
<1>1. ASSUME NEW p \in Procs, Continue(p) PROVE FlightInv'
  BY <1>1, FlightContinue, FlightKept, OthersKeep
<1>2. ASSUME UNCHANGED <<attempts, flight>>, NEW p \in Procs,
             \A q \in Procs \ {p} : pc'[q] = pc[q] /\ loc'[q] = loc[q],
             pc'[p] \notin {"bump", "call", "clear_dest"},
             \A n \in Attempt : Failing(p, n)' => Over(n) /\ ~Calling(p, n)
      PROVE  FlightInv'
  <2>1. FlightStep(p)
    BY <1>2 DEF FlightStep, Holds
  <2> QED BY <1>2, <2>1, FlightKept
<1>3. CASE UNCHANGED <<attempts, flight, pc, loc>>
  BY <1>3 DEF FlightInv, FlightOfRow, LiveHolds, NotSentYet, FailingIsOver, RejectedIsOver,
              Calling, Failing, Holds, Live, Over
<1>4. CASE WorkerTick
  BY <1>4, <1>2 DEF WorkerTick, ClaimNextPendingDispatch, ConfirmSandboxDispatch, Goto, Local,
                    Failing, aside
<1>5. ASSUME NEW p \in Requests, Arrive(p) PROVE FlightInv'
  <2>1. ASSUME NEW m \in Attempt, HandleSettlementWebhook(p, m) PROVE FlightInv'
    <3>1. PICK event \in Callbacks(attempts[m].provider, flight[m]) :
            Serve(p, Route(event, attempts[m].status), [Blank EXCEPT !.att = m, !.out = "failed"])
      BY <2>1 DEF HandleSettlementWebhook
    <3>2. [Blank EXCEPT !.att = m, !.out = "failed"].att = m
      BY DEF Blank
    <3>3. pc[p] = "idle" /\ pc'[p] = Route(event, attempts[m].status) /\ loc'[p].att = m
          /\ UNCHANGED <<attempts, flight>>
          /\ \A q \in Procs \ {p} : pc'[q] = pc[q] /\ loc'[q] = loc[q]
      BY <3>1, <3>2 DEF Serve, Goto, Local, At, aside
    <3>4. Route(event, attempts[m].status) \notin {"bump", "call", "clear_dest"}
      BY DEF Route
    <3>5. Route(event, attempts[m].status) = "mark_failed" => Over(m)
      <4>1. event \in HyparrowCallbacks(flight[m]) \/ event \in GenericCallbacks(flight[m])
        BY <3>1 DEF Callbacks
      <4>2. Route(event, attempts[m].status) = "mark_failed"
              => event \notin {"succeeded", "declined", "returned"}
        BY DEF Route
      <4> QED BY <4>1, <4>2 DEF HyparrowCallbacks, GenericCallbacks, Over
    <3> QED BY <3>3, <3>4, <3>5, <1>2 DEF Failing, Calling
  <2> QED BY <1>5, <2>1, <1>2
          DEF Arrive, StartManualSettle, StartRetry, StartResolveReversal, Serve, Goto, Local,
              Failing, aside
<1>6. ASSUME NEW p \in Procs, Interrupted(p) PROVE FlightInv'
  BY <1>6, <1>2 DEF Interrupted, Finish, Local, Failing
<1>7. ASSUME NEW p \in Procs, CallInterrupted(p) PROVE FlightInv'
  <2>1. PICK fate \in {"inflight", "dead"} : flight' = [flight EXCEPT ![loc[p].att] = fate]
    BY <1>7 DEF CallInterrupted
  <2>2. pc[p] = "call" /\ pc'[p] = "idle" /\ UNCHANGED attempts
        /\ \A q \in Procs \ {p} : pc'[q] = pc[q] /\ loc'[q] = loc[q]
    BY <1>7 DEF CallInterrupted, At, Finish, Local
  <2>3. \A n \in Attempt : flight'[n] = flight[n] \/ Calling(p, n)
    BY <2>1, <2>2 DEF Calling
  <2>4. FlightStep(p)
    BY <2>2, <2>3 DEF FlightStep, Failing, Holds
  <2> QED BY <2>2, <2>4, FlightKept
<1>8. ASSUME NEW n \in Attempt, ProviderPays(n) \/ ProviderRejects(n) \/ BankReturns(n)
      PROVE  FlightInv'
  <2>1. UNCHANGED <<attempts, pc, loc>>
    BY <1>8 DEF ProviderPays, ProviderRejects, BankReturns, FateChanges
  <2>2. \A m \in Attempt : \/ flight'[m] = flight[m]
                           \/ Live(m) /\ flight'[m] \in {"paid", "dead", "returned"}
    BY <1>8 DEF ProviderPays, ProviderRejects, BankReturns, FateChanges, Live
  <2> QED BY <2>1, <2>2 DEF FlightInv, FlightOfRow, LiveHolds, NotSentYet, FailingIsOver,
          RejectedIsOver, Calling, Failing, Holds, Live, Over
<1> QED BY <1>1, <1>3, <1>4, <1>5, <1>6, <1>7, <1>8
        DEF Next, vars, HandleDepositConfirmed, PageTimedOutConfirmation, Environment,
            HumanPays, LateDeposit, aside

(* No set of attempts of which one at most holds the turn has two members. *)
LEMMA AtMostOne ==
  ASSUME NEW S \in SUBSET Attempt, \A m \in S : \A n \in S : m = n
  PROVE  Cardinality(S) <= 1
<1>1. CASE S = {}
  BY <1>1, FS_EmptySet
<1>2. CASE S # {}
  <2>1. PICK n \in S : TRUE
    BY <1>2
  <2>2. S = {n}
    BY <2>1
  <2> QED BY <2>2, FS_Singleton
<1> QED BY <1>1, <1>2

MoneyInv == TypeInv /\ AttemptInv /\ TurnInv /\ CallInv /\ ProviderInv /\ FlightInv

LEMMA MoneyAlways ==
  ASSUME ~OpsConfirm, Adapters \subseteq {Hyparrow, Sandbox}
  PROVE  Spec => []MoneyInv
<1>1. Init => MoneyInv
  BY TypeInit, AttemptInit, TurnInit, CallInit, FlightInit DEF MoneyInv
<1>2. MoneyInv /\ [Next]_vars => MoneyInv'
  BY TypeNext, AttemptNext, TurnAlways, CallNext, ProviderNext, FlightNext DEF MoneyInv, TurnInv
<1> QED BY <1>1, <1>2, PTL DEF Spec

-----------------------------------------------------------------------------
(* The hand-over to the humans.  While an alert is in the chat that no retry  *)
(* has overtaken, no goroutine is on its way to a provider and nothing is in  *)
(* flight or paid by one: failSettlement is reached with the turn.  A retry   *)
(* overtakes every alert delivered before it, so there is at most one such    *)
(* alert, and only alerts that were overtaken can be paid beside it.          *)

Outstanding == chat.alerts > chat.overtaken
\* The calls between the claim of the row and the answer of the provider.
Paying == (Driving \ {"park", "give_up"}) \cup {"bump", "call"}
WithHumans ==
  /\ row.status \notin {"none", "pending_dispatch"}
  /\ \A p \in Procs : pc[p] \notin Paying
  /\ \A n \in Attempt : ~Open(n) /\ ~Live(n)
HandInv ==
  /\ chat.paid <= chat.alerts /\ chat.overtaken <= chat.alerts
  /\ chat.alerts <= chat.overtaken + 1
  /\ Outstanding => WithHumans

(* An alert goes out from the turn, when nothing is on its way. *)
LEMMA AlertHandsOver ==
  ASSUME MoneyInv, HandInv, NEW p \in Procs, FailSettlement(p)
  PROVE  HandInv'
<1> TypeOK /\ chat \in [alerts : Nat, paid : Nat, overtaken : Nat] /\ pc \in [Procs -> Labels]
  BY DEF MoneyInv, TypeInv, TypeOK
<1>1. At(p, "fail") /\ Drives(p) /\ pc[p] \in Paying
  BY DEF FailSettlement, At, Drives, Driving, Paying
<1>2. ~Outstanding
  BY <1>1 DEF HandInv, WithHumans
<1>3. \A n \in Attempt : ~Holds(n)
  BY <1>1 DEF MoneyInv, TurnInv, DriverHasTurn
<1>4. \A n \in Attempt : ~Open(n) /\ ~Live(n)
  BY <1>3 DEF MoneyInv, FlightInv, LiveHolds, Holds, Open
<1>5. row.status \notin {"none", "pending_dispatch"}
  BY <1>1 DEF MoneyInv, TurnInv, DriverHasTurn, Waits
<1>6. ASSUME NEW q \in Procs \ {p} PROVE pc[q] \notin Paying
  <2>1. ~Drives(q)
    BY <1>1 DEF MoneyInv, TurnInv, OneDriver
  <2>2. pc[q] # "bump"
    <3>1. ASSUME pc[q] = "bump" PROVE FALSE
      <4>1. loc[q].cnt + 1 \in Attempt
        BY <3>1, NextAttempt DEF MoneyInv, TypeInv, CountInv
      <4> QED BY <3>1, <4>1, <1>3 DEF MoneyInv, CallInv, CallerHolds, Calling
    <3> QED BY <3>1
  <2>3. pc[q] # "call"
    <3>1. ASSUME pc[q] = "call" PROVE FALSE
      <4>1. loc[q].att \in Attempt
        BY <3>1 DEF MoneyInv, AttemptInv
      <4> QED BY <3>1, <4>1, <1>3 DEF MoneyInv, CallInv, CallerHolds, Calling
    <3> QED BY <3>1
  <2> QED BY <2>1, <2>2, <2>3 DEF Drives, Paying
<1>7. pc'[p] \notin Paying /\ \A q \in Procs \ {p} : pc'[q] = pc[q]
  BY DEF FailSettlement, Then, Goto, Paying, Driving
<1>8. WithHumans'
  BY <1>4, <1>5, <1>6, <1>7 DEF FailSettlement, WithHumans, Open, Live
<1>9. chat' = chat \/ chat' = [chat EXCEPT !.alerts = @ + 1]
  BY DEF FailSettlement
<1>10. /\ chat'.paid <= chat'.alerts /\ chat'.overtaken <= chat'.alerts
       /\ chat'.alerts <= chat'.overtaken + 1
  BY <1>2, <1>9 DEF HandInv, Outstanding
<1> QED BY <1>8, <1>10 DEF HandInv

(* No call of a goroutine takes the settlement back from the humans, but the   *)
(* retry that overtakes their alert.                                           *)
LEMMA HandContinue ==
  ASSUME TypeInv, AttemptInv, WithHumans, NEW p \in Procs, Continue(p), ~Requeue(p)
  PROVE  WithHumans'
<1> TypeOK BY DEF TypeInv
<1> pc \in [Procs -> Labels] /\ loc \in [Procs -> LocType] /\ row \in RowType
  BY DEF TypeOK
<1>1. pc[p] \notin Paying
  BY DEF WithHumans
<1>2. \A n \in Attempt : Open(n)' => Open(n)
  <2>1. \A n \in Attempt : ~Inserts(p, n)
    BY <1>1 DEF Inserts, InsertAttempt, At, Paying, Driving
  <2> QED BY <2>1, AttemptStep
          DEF Open, PaysByHand, Fails, Succeeds, GivenUp, Records, Kept, Failed
<1>3. flight' = flight
  BY <1>1 DEF Continue, aside, At, Paying, Driving,
         SessionCAS, LoadSession, PostDepositConfirmed,
         PostFxConversion, StartSettling, TransitionToSettling, ChooseProvider,
         ClaimPayout, InsertAttempt, BumpAttemptCount, CallProvider,
         ClearPendingDestination, RecordDispatch, MarkFailed, Reload, ReverseAttempt,
         WakeFromBackoff, FailSettlement, ParkForManualPayout, GiveUp,
         TransitionToSettlementFailed, ReleaseReservation, MarkSucceeded,
         Settle, TransitionToSettled, ReturnPayout, TransitionToReversed,
         PostReturn, FlagDeclined, PageForDeclined, ManualSettle, ConfirmFailed,
         ReverseConfirmed, ClaimManualPayout, RetryToSettling,
         PostManualAdjustment, CloseReversalCase, ResolveRow, TransitionToReversalResolved
<1>4. row'.status \notin {"none", "pending_dispatch"}
  BY DEF WithHumans, Continue, RowType, aside,
         SessionCAS, LoadSession, PostDepositConfirmed,
         PostFxConversion, StartSettling, TransitionToSettling, ChooseProvider,
         ClaimPayout, InsertAttempt, BumpAttemptCount, CallProvider,
         ClearPendingDestination, RecordDispatch, MarkFailed, Reload, ReverseAttempt,
         WakeFromBackoff, FailSettlement, ParkForManualPayout, GiveUp,
         TransitionToSettlementFailed, ReleaseReservation, MarkSucceeded,
         Settle, TransitionToSettled, ReturnPayout, TransitionToReversed,
         PostReturn, FlagDeclined, PageForDeclined, ManualSettle, ConfirmFailed,
         ReverseConfirmed, ClaimManualPayout, RetryToSettling,
         PostManualAdjustment, CloseReversalCase, ResolveRow, TransitionToReversalResolved
<1>5. pc'[p] \notin Paying
  <2>1. CASE MarkFailed(p)
    <3>1. loc[p].att \in Attempt
      BY <2>1 DEF MarkFailed, At, AttemptInv
    <3>2. ~Open(loc[p].att)
      BY <3>1 DEF WithHumans
    <3> QED BY <2>1, <3>2 DEF MarkFailed, Finish, Paying, Driving
  <2>2. CASE ~MarkFailed(p)
    BY <1>1, <2>2 DEF Paying, Driving, Continue, Goto, Then, Local, Finish, At,
         SessionCAS, AfterSettling, LoadSession, PostDepositConfirmed,
         PostFxConversion, StartSettling, TransitionToSettling, ChooseProvider,
         ClaimPayout, InsertAttempt, BumpAttemptCount, CallProvider,
         ClearPendingDestination, RecordDispatch, Reload, ReverseAttempt,
         WakeFromBackoff, FailSettlement, ParkForManualPayout, GiveUp,
         TransitionToSettlementFailed, ReleaseReservation, MarkSucceeded,
         Settle, TransitionToSettled, ReturnPayout, TransitionToReversed,
         PostReturn, FlagDeclined, PageForDeclined, ManualSettle, ConfirmFailed,
         ReverseConfirmed, ClaimManualPayout, RetryToSettling,
         PostManualAdjustment, CloseReversalCase, ResolveRow, TransitionToReversalResolved
  <2> QED BY <2>1, <2>2
<1>6. \A q \in Procs \ {p} : pc'[q] = pc[q]
  BY OthersKeep
<1> QED BY <1>2, <1>3, <1>4, <1>5, <1>6 DEF WithHumans, Live

(* Nothing outside the handlers does: not the ticks, not a webhook for an      *)
(* attempt already resolved, not the humans themselves.                        *)
LEMMA HandElsewhere ==
  ASSUME TypeInv, WithHumans, [Next]_vars, ~(\E p \in Procs : Continue(p))
  PROVE  WithHumans' /\ (chat' = chat \/ HumanPays)
<1> TypeOK BY DEF TypeInv
<1> pc \in [Procs -> Labels] /\ row \in RowType /\ flight \in [Attempt -> Fates]
  BY DEF TypeOK
<1> Worker \in Procs /\ Requests \subseteq Procs BY DEF Procs
<1>1. UNCHANGED attempts /\ \A n \in Attempt : Open(n)' = Open(n)
  BY AttemptsAlone DEF Open
<1>2. ASSUME NEW p \in Procs, \A q \in Procs \ {p} : pc'[q] = pc[q], pc'[p] \notin Paying,
             row' = row, flight' = flight
      PROVE  WithHumans'
  BY <1>1, <1>2 DEF WithHumans, Live
<1>3. ASSUME NEW p \in Requests, Arrive(p) PROVE WithHumans' /\ chat' = chat
  <2>1. ASSUME NEW l \in Labels \ Paying, NEW m, Serve(p, l, m) PROVE WithHumans' /\ chat' = chat
    BY <2>1, <1>2 DEF Serve, Goto, aside
  <2>2. ASSUME NEW n \in Attempt, HandleSettlementWebhook(p, n) PROVE WithHumans' /\ chat' = chat
    <3>1. PICK event \in Callbacks(attempts[n].provider, flight[n]) :
            Serve(p, Route(event, attempts[n].status), [Blank EXCEPT !.att = n, !.out = "failed"])
      BY <2>2 DEF HandleSettlementWebhook
    <3>2. Route(event, attempts[n].status) \in Labels \ Paying
      BY DEF Route, Labels, Paying, Driving
    <3> QED BY <2>1, <3>1, <3>2
  <2>3. {"manual", "confirm_failed", "requeue", "adjust"} \subseteq Labels \ Paying
    BY DEF Labels, Paying, Driving
  <2> QED BY <1>3, <2>1, <2>2, <2>3
          DEF Arrive, StartManualSettle, StartRetry, StartResolveReversal
<1>4. CASE WorkerTick
  BY <1>1, <1>4, <1>2 DEF WorkerTick, ClaimNextPendingDispatch, ConfirmSandboxDispatch, WithHumans,
       Goto, Paying, Driving, aside
<1>5. CASE HandleDepositConfirmed \/ PageTimedOutConfirmation
  BY <1>1, <1>5 DEF HandleDepositConfirmed, PageTimedOutConfirmation, WithHumans, RowType, Live, aside
<1>6. ASSUME NEW p \in Procs, Interrupted(p) \/ CallInterrupted(p) PROVE WithHumans' /\ chat' = chat
  BY <1>6, <1>2 DEF Interrupted, CallInterrupted, Finish, At, WithHumans, Paying, Driving
<1>7. ASSUME NEW n \in Attempt, ProviderPays(n) \/ ProviderRejects(n) \/ BankReturns(n)
      PROVE  WithHumans' /\ chat' = chat
  BY <1>1, <1>7 DEF ProviderPays, ProviderRejects, BankReturns, FateChanges, WithHumans, Live
<1>8. CASE HumanPays \/ LateDeposit
  BY <1>1, <1>8 DEF HumanPays, LateDeposit, WithHumans, Live
<1>9. CASE UNCHANGED vars
  BY <1>1, <1>9 DEF vars, WithHumans, Live
<1> QED BY <1>3, <1>4, <1>5, <1>6, <1>7, <1>8, <1>9 DEF Next, Environment

(* Who writes in the chat: failSettlement, a retry, and whoever pays by hand.  *)
LEMMA ChatWriters ==
  ASSUME [Next]_vars
  PROVE  \/ chat' = chat
         \/ HumanPays
         \/ \E p \in Procs : FailSettlement(p) \/ Requeue(p)
<1>1. ASSUME NEW p \in Procs, Continue(p), ~FailSettlement(p), ~Requeue(p)
      PROVE  chat' = chat
  BY <1>1 DEF Continue, aside,
         SessionCAS, LoadSession, PostDepositConfirmed,
         PostFxConversion, StartSettling, TransitionToSettling, ChooseProvider,
         ClaimPayout, InsertAttempt, BumpAttemptCount, CallProvider,
         ClearPendingDestination, RecordDispatch, MarkFailed, Reload, ReverseAttempt,
         WakeFromBackoff, ParkForManualPayout, GiveUp,
         TransitionToSettlementFailed, ReleaseReservation, MarkSucceeded,
         Settle, TransitionToSettled, ReturnPayout, TransitionToReversed,
         PostReturn, FlagDeclined, PageForDeclined, ManualSettle, ConfirmFailed,
         ReverseConfirmed, ClaimManualPayout, RetryToSettling,
         PostManualAdjustment, CloseReversalCase, ResolveRow, TransitionToReversalResolved
<1>2. ASSUME ~(\E p \in Procs : Continue(p)) PROVE chat' = chat \/ HumanPays
  BY <1>2 DEF Next, vars, HandleDepositConfirmed, WorkerTick, ClaimNextPendingDispatch,
       ConfirmSandboxDispatch, PageTimedOutConfirmation, Arrive, Serve,
       HandleSettlementWebhook, StartManualSettle, StartRetry, StartResolveReversal,
       Environment, ProviderPays, ProviderRejects, BankReturns, FateChanges,
       LateDeposit, Interrupted, CallInterrupted, aside
<1> QED BY <1>1, <1>2

LEMMA HandNext == MoneyInv /\ HandInv /\ [Next]_vars => HandInv'
<1> SUFFICES ASSUME MoneyInv, HandInv, [Next]_vars PROVE HandInv'
  OBVIOUS
<1> TypeInv /\ AttemptInv /\ TypeOK /\ chat \in [alerts : Nat, paid : Nat, overtaken : Nat]
  BY DEF MoneyInv, TypeInv, TypeOK
<1>1. ASSUME NEW p \in Procs, FailSettlement(p) PROVE HandInv'
  BY <1>1, AlertHandsOver
<1>2. ASSUME NEW p \in Procs, Requeue(p), chat' # chat PROVE HandInv'
  <2>1. chat' = [chat EXCEPT !.overtaken = chat.alerts]
    BY <1>2 DEF Requeue
  <2> QED BY <2>1 DEF HandInv, Outstanding
<1>3. ASSUME NEW p \in Procs, Requeue(p), chat' = chat PROVE HandInv'
  <2>1. UNCHANGED <<row, attempts, flight>> \/ chat' = [chat EXCEPT !.overtaken = chat.alerts]
    BY <1>3 DEF Requeue
  <2>2. CASE chat' = [chat EXCEPT !.overtaken = chat.alerts]
    BY <2>2 DEF HandInv, Outstanding
  <2>3. CASE UNCHANGED <<row, attempts, flight>>
    <3>1. pc' = [pc EXCEPT ![p] = "idle"] \/ pc' = [pc EXCEPT ![p] = "session_retry"]
      BY <1>3 DEF Requeue, Finish, Then, Goto
    <3>2. WithHumans => WithHumans'
      BY <2>3, <3>1 DEF WithHumans, Open, Live, Paying, Driving, TypeOK
    <3> QED BY <1>3, <3>2 DEF HandInv, Outstanding
  <2> QED BY <2>1, <2>2, <2>3
<1>4. ASSUME ~(\E p \in Procs : FailSettlement(p) \/ Requeue(p)) PROVE HandInv'
  <2>1. WithHumans => WithHumans'
    BY <1>4, HandContinue, HandElsewhere
  <2>2. chat' = chat \/ HumanPays
    BY <1>4, ChatWriters
  <2>3. CASE chat' = chat
    BY <2>1, <2>3 DEF HandInv, Outstanding
  <2>4. CASE HumanPays
    <3>1. chat.paid < chat.alerts /\ chat' = [chat EXCEPT !.paid = @ + 1]
      BY <2>4 DEF HumanPays
    <3> QED BY <2>1, <3>1 DEF HandInv, Outstanding
  <2> QED BY <2>2, <2>3, <2>4
<1> QED BY <1>1, <1>2, <1>3, <1>4

LEMMA HandAlways ==
  ASSUME ~OpsConfirm, Adapters \subseteq {Hyparrow, Sandbox}
  PROVE  Spec => []HandInv
<1>1. Init => HandInv
  BY DEF Init, HandInv, Outstanding
<1> QED BY <1>1, HandNext, MoneyAlways, PTL DEF Spec

(* A session is paid once.  dispatch.go claims a ledger key and writes the      *)
(* attempt before each call, and starts another attempt only from the turn that *)
(* a recorded failure gives back; an alert goes out from the turn as well, so a *)
(* payment by hand is beside another payment only if a retry has overtaken its  *)
(* alert, one payment for each alert overtaken.  Holds for the adapters that    *)
(* tell a rejection from a lost answer, as long as ops do not use               *)
(* confirmed_failed.                                                            *)
THEOREM PaidOnceAtMost ==
  ASSUME ~OpsConfirm, Adapters \subseteq {Hyparrow, Sandbox}
  PROVE  Spec => []NoDoublePayout
<1>1. MoneyInv /\ HandInv => NoDoublePayout
  <2> SUFFICES ASSUME MoneyInv, HandInv PROVE NoDoublePayout
    OBVIOUS
  <2> DEFINE live == {n \in Attempt : Live(n)}
  <2>1. \A m \in Attempt : \A n \in Attempt : Live(m) /\ Live(n) => m = n
    BY DEF MoneyInv, TurnInv, OneHolder, FlightInv, LiveHolds
  <2>2. Cardinality(live) <= 1 /\ Cardinality(live) \in Nat
    <3>1. IsFiniteSet(live)
      <4>1. IsFiniteSet(Attempt)
        BY SettlementAssumption, FS_Interval DEF Attempt
      <4> QED BY <4>1, FS_Subset
    <3> QED BY <2>1, <3>1, AtMostOne, FS_CardinalityType
  <2>3. chat \in [alerts : Nat, paid : Nat, overtaken : Nat]
    BY DEF MoneyInv, TypeInv, TypeOK
  <2>4. CASE Outstanding
    <3>1. live = {}
      BY <2>4 DEF HandInv, WithHumans
    <3>2. Cardinality(live) = 0
      BY <3>1, FS_EmptySet
    <3> QED BY <2>3, <3>2 DEF HandInv, NoDoublePayout
  <2>5. CASE ~Outstanding
    BY <2>2, <2>3, <2>5 DEF HandInv, Outstanding, NoDoublePayout
  <2> QED BY <2>4, <2>5
<1> QED BY <1>1, MoneyAlways, HandAlways, PTL

(* What the ledger takes back is never still moving: handleAttemptFailure      *)
(* reverses a claim only after the attempt is known to have failed, and a      *)
(* failed attempt's payout is over.                                            *)
THEOREM ReversedIsOver ==
  ASSUME ~OpsConfirm, Adapters \subseteq {Hyparrow, Sandbox}
  PROVE  Spec => []ReversedClaimIsDead
<1>1. MoneyInv /\ ReversalsAreOfFailures => ReversedClaimIsDead
  BY DEF MoneyInv, FlightInv, LiveHolds, ReversalsAreOfFailures, ReversedClaimIsDead, Holds, Failed
<1> QED BY <1>1, MoneyAlways, OnlyFailuresReversed, PTL

-----------------------------------------------------------------------------
(* Where a correction goes.  The driver's copy of the pending destination is  *)
(* current: only whoever has the turn, or ops while the row waits, change it. *)

DestinationInv == \A p \in Procs :
  Drives(p) /\ pc[p] # "reload" => loc[p].dest = row.dest

LEMMA DestinationOfRow ==
  ASSUME TypeInv, AttemptInv, NeverConfirmed, CallInv, [Next]_vars
  PROVE  row'.dest = row.dest \/ Waits \/ \E n \in Attempt : Holds(n)
<1> TypeOK /\ row \in RowType BY DEF TypeInv, TypeOK
<1>1. ASSUME NEW p \in Procs, Continue(p)
      PROVE  row'.dest = row.dest \/ Waits \/ \E n \in Attempt : Holds(n)
  <2>1. CASE ClearPendingDestination(p)
    <3>1. loc[p].att \in Attempt /\ Calling(p, loc[p].att)
      BY <2>1 DEF ClearPendingDestination, At, AttemptInv, Calling
    <3> QED BY <3>1 DEF CallInv, CallerHolds
  <2>2. CASE Requeue(p)
    BY <2>2 DEF Requeue, At, NeverConfirmed, Waits
  <2>3. CASE ManualSettle(p)
    BY <2>3 DEF ManualSettle, RowType
  <2>4. CASE ~ClearPendingDestination(p) /\ ~Requeue(p) /\ ~ManualSettle(p)
    BY <1>1, <2>4 DEF Continue, aside, RowType,
         SessionCAS, LoadSession, PostDepositConfirmed,
         PostFxConversion, StartSettling, TransitionToSettling, ChooseProvider,
         ClaimPayout, InsertAttempt, BumpAttemptCount, CallProvider,
         RecordDispatch, MarkFailed, Reload, ReverseAttempt,
         WakeFromBackoff, FailSettlement, ParkForManualPayout, GiveUp,
         TransitionToSettlementFailed, ReleaseReservation, MarkSucceeded,
         Settle, TransitionToSettled, ReturnPayout, TransitionToReversed,
         PostReturn, FlagDeclined, PageForDeclined, ConfirmFailed,
         ReverseConfirmed, ClaimManualPayout, RetryToSettling,
         PostManualAdjustment, CloseReversalCase, ResolveRow, TransitionToReversalResolved
  <2> QED BY <2>1, <2>2, <2>3, <2>4
<1>2. ASSUME ~(\E p \in Procs : Continue(p))
      PROVE  row'.dest = row.dest \/ Waits \/ \E n \in Attempt : Holds(n)
  BY <1>2 DEF Next, vars, HandleDepositConfirmed, WorkerTick, ClaimNextPendingDispatch,
       ConfirmSandboxDispatch, PageTimedOutConfirmation, Arrive, Serve,
       HandleSettlementWebhook, StartManualSettle, StartRetry, StartResolveReversal,
       Environment, ProviderPays, ProviderRejects, BankReturns, FateChanges,
       HumanPays, LateDeposit, Interrupted, CallInterrupted, RowType, Waits, aside
<1> QED BY <1>1, <1>2

LEMMA DestinationContinue ==
  ASSUME TypeInv, AttemptInv, TurnInv, CallInv, DestinationInv, [Next]_vars,
         NEW p \in Procs, Continue(p), Drives(p)', pc'[p] # "reload"
  PROVE  loc'[p].dest = row'.dest
<1> TypeOK BY DEF TypeInv
<1> pc \in [Procs -> Labels] /\ loc \in [Procs -> LocType] /\ row \in RowType
  BY DEF TypeOK
<1>0. loc[p] \in LocType
  BY LocFields
<1>1. CASE Reload(p)
  <2>1. Copied(loc[p]).dest = row.dest
    BY <1>0 DEF LocType, Copied
  <2> QED BY <1>1, <2>1 DEF Reload, Local
<1>2. CASE ~Reload(p)
  <2>1. Drives(p) /\ pc[p] # "reload"
    BY <1>2 DEF Drives, Driving, Continue, Goto, Then, Local, Finish, At,
         SessionCAS, AfterSettling, LoadSession, PostDepositConfirmed,
         PostFxConversion, StartSettling, TransitionToSettling, ChooseProvider,
         ClaimPayout, InsertAttempt, BumpAttemptCount, CallProvider, ClearPendingDestination,
         RecordDispatch, MarkFailed, ReverseAttempt,
         WakeFromBackoff, FailSettlement, ParkForManualPayout, GiveUp,
         TransitionToSettlementFailed, ReleaseReservation, MarkSucceeded,
         Settle, TransitionToSettled, ReturnPayout, TransitionToReversed,
         PostReturn, FlagDeclined, PageForDeclined, ManualSettle, ConfirmFailed,
         ReverseConfirmed, ClaimManualPayout, Requeue, RetryToSettling,
         PostManualAdjustment, CloseReversalCase, ResolveRow, TransitionToReversalResolved
  <2>2. row'.dest = row.dest
    BY <2>1, DestinationOfRow DEF TurnInv, DriverHasTurn
  <2>3. loc'[p].dest = loc[p].dest
    <3>1. CASE LoadSession(p)
      <4>1. [loc[p] EXCEPT !.sess = session, !.amt = deposits].dest = loc[p].dest
        BY <1>0 DEF LocType
      <4> QED BY <3>1, <4>1 DEF LoadSession, Local
    <3>2. CASE StartSettling(p)
      <4>1. [loc[p] EXCEPT !.pay = CryptoToFiat(loc[p].amt)].dest = loc[p].dest
        BY <1>0 DEF LocType
      <4> QED BY <3>2, <4>1 DEF StartSettling, Local
    <3>3. CASE ChooseProvider(p)
      <4>1. PICK provider : loc' = loc
               \/ loc'[p] = [loc[p] EXCEPT !.prov = provider, !.att = 0, !.out = ""]
        BY <3>3 DEF ChooseProvider, Then, Local
      <4>2. [loc[p] EXCEPT !.prov = provider, !.att = 0, !.out = ""].dest = loc[p].dest
        BY <1>0 DEF LocType
      <4> QED BY <4>1, <4>2
    <3>4. CASE ~LoadSession(p) /\ ~StartSettling(p) /\ ~ChooseProvider(p)
      BY <1>2, <2>1, <3>4 DEF Drives, Driving, Continue, Goto, Then, Local, Finish, At,
         SessionCAS, PostDepositConfirmed, PostFxConversion, TransitionToSettling,
         ClaimPayout, InsertAttempt, BumpAttemptCount, CallProvider, ClearPendingDestination,
         RecordDispatch, MarkFailed, ReverseAttempt,
         WakeFromBackoff, FailSettlement, ParkForManualPayout, GiveUp,
         TransitionToSettlementFailed, ReleaseReservation, MarkSucceeded,
         Settle, TransitionToSettled, ReturnPayout, TransitionToReversed,
         PostReturn, FlagDeclined, PageForDeclined, ManualSettle, ConfirmFailed,
         ReverseConfirmed, ClaimManualPayout, Requeue, RetryToSettling,
         PostManualAdjustment, CloseReversalCase, ResolveRow, TransitionToReversalResolved
    <3> QED BY <3>1, <3>2, <3>3, <3>4
  <2> QED BY <2>1, <2>2, <2>3 DEF DestinationInv
<1> QED BY <1>1, <1>2

LEMMA DestinationNext ==
  ASSUME TypeInv, AttemptInv, TurnInv, CallInv, DestinationInv, [Next]_vars
  PROVE  DestinationInv'
<1> TypeOK BY DEF TypeInv
<1> pc \in [Procs -> Labels] /\ loc \in [Procs -> LocType] /\ row \in RowType
  BY DEF TypeOK
<1> Worker \in Procs /\ Requests \subseteq Procs BY DEF Procs
<1>1. ASSUME NEW q \in Procs, Drives(q), pc[q] # "reload", loc'[q] = loc[q]
      PROVE  loc'[q].dest = row'.dest
  BY <1>1, DestinationOfRow DEF TurnInv, NeverConfirmed, DriverHasTurn, DestinationInv
<1>2. ASSUME NEW p \in Procs, \A q \in Procs \ {p} : pc'[q] = pc[q] /\ loc'[q] = loc[q],
             Drives(p)' /\ pc'[p] # "reload" => loc'[p].dest = row'.dest
      PROVE  DestinationInv'
  BY <1>1, <1>2 DEF DestinationInv, Drives
<1>3. ASSUME NEW p \in Procs, Continue(p) PROVE DestinationInv'
  BY <1>2, <1>3, DestinationContinue, OthersKeep
<1>4. CASE UNCHANGED <<pc, loc>>
  BY <1>4, <1>1 DEF DestinationInv, Drives
<1>5. CASE WorkerTick
  <2>1. CASE ClaimNextPendingDispatch
    <3>1. Copied(loc[Worker]).dest = row.dest
      BY LocFields DEF LocType, Copied
    <3>2. loc'[Worker].dest = row.dest /\ row'.dest = row.dest
      BY <2>1, <3>1 DEF ClaimNextPendingDispatch, Local, RowType
    <3> QED BY <2>1, <3>2, <1>2 DEF ClaimNextPendingDispatch, Goto, Local
  <2>2. ASSUME NEW n \in Attempt, ConfirmSandboxDispatch(n) PROVE DestinationInv'
    BY <2>2, <1>2 DEF ConfirmSandboxDispatch, Goto, Local, Drives, Driving
  <2> QED BY <1>5, <2>1, <2>2 DEF WorkerTick
<1>6. ASSUME NEW p \in Requests, Arrive(p) PROVE DestinationInv'
  <2>1. ASSUME NEW l \in Labels \ Driving, NEW m, Serve(p, l, m) PROVE DestinationInv'
    BY <2>1, <1>2 DEF Serve, Goto, Local, Drives
  <2>2. ASSUME NEW n \in Attempt, HandleSettlementWebhook(p, n) PROVE DestinationInv'
    <3>1. PICK event \in Callbacks(attempts[n].provider, flight[n]) :
            Serve(p, Route(event, attempts[n].status), [Blank EXCEPT !.att = n, !.out = "failed"])
      BY <2>2 DEF HandleSettlementWebhook
    <3>2. Route(event, attempts[n].status) \in Labels \ Driving
      BY DEF Route, Labels, Driving
    <3> QED BY <2>1, <3>1, <3>2
  <2>3. {"manual", "confirm_failed", "requeue", "adjust"} \subseteq Labels \ Driving
    BY DEF Labels, Driving
  <2> QED BY <1>6, <2>1, <2>2, <2>3
          DEF Arrive, StartManualSettle, StartRetry, StartResolveReversal
<1>7. ASSUME NEW p \in Procs, Interrupted(p) \/ CallInterrupted(p) PROVE DestinationInv'
  BY <1>7, <1>2 DEF Interrupted, CallInterrupted, Finish, Local, Drives, Driving
<1> QED BY <1>3, <1>4, <1>5, <1>6, <1>7
        DEF Next, vars, HandleDepositConfirmed, PageTimedOutConfirmation, Environment,
            ProviderPays, ProviderRejects, BankReturns, FateChanges, HumanPays, LateDeposit, aside

TargetInv == TypeInv /\ AttemptInv /\ TurnInv /\ CallInv /\ DestinationInv

LEMMA TargetAlways == ASSUME ~OpsConfirm PROVE Spec => []TargetInv
<1>1. Init => DestinationInv
  <2> SUFFICES ASSUME Init PROVE DestinationInv
    OBVIOUS
  <2>1. \A p \in Procs : pc[p] = "idle"
    BY DEF Init
  <2> QED BY <2>1 DEF DestinationInv, Drives, Driving
<1>2. Init => TargetInv
  BY <1>1, TypeInit, AttemptInit, TurnInit, CallInit DEF TargetInv
<1>3. TargetInv /\ [Next]_vars => TargetInv'
  BY TypeNext, AttemptNext, TurnAlways, CallNext, DestinationNext DEF TargetInv, TurnInv
<1> QED BY <1>2, <1>3, PTL DEF Spec

(* With nothing pending, resolveDestination takes the latest attempt's.        *)
LEMMA LastIsResolved ==
  ASSUME NEW m \in Attempt, LastAddressed(m)
  PROVE  ResolveDestination(NoDest) = attempts[m].dest
<1> DEFINE earlier == {k \in Attempt : attempts[k].status # "none" /\ attempts[k].dest # NoDest}
           last == CHOOSE k \in earlier : \A l \in earlier : l <= k
<1>1. m \in earlier
  BY DEF LastAddressed, Addressed
<1>2. \A k \in Attempt : k \in Nat
  BY SettlementAssumption DEF Attempt
<1>3. last \in earlier /\ m <= last
  BY <1>1, GreatestExists
<1>4. last = m
  BY <1>2, <1>3 DEF LastAddressed, Addressed
<1> QED BY <1>1, <1>4 DEF ResolveDestination

(* A correction ops supply with a retry is where the next attempt pays to, and *)
(* those after it, whatever crashes, failovers and callbacks come between:     *)
(* processSettlement and handleAttemptFailure work from a copy of the row that *)
(* nobody can have made stale.                                                 *)
THEOREM CorrectionsAreUsed == ASSUME ~OpsConfirm PROVE Spec => PaysLatestDestination
<1> DEFINE Latest(n, d) == IF row.dest # NoDest
                           THEN d = row.dest
                           ELSE \A m \in Attempt : LastAddressed(m) => d = attempts[m].dest
<1>1. ASSUME TargetInv, [Next]_vars, NEW n \in Attempt,
             attempts[n].status = "none", attempts'[n].status = "dispatched"
      PROVE  Latest(n, attempts'[n].dest)
  <2>1. PICK p \in Procs : Continue(p)
    BY <1>1, AttemptsAlone
  <2>2. Inserts(p, n)
    BY <1>1, <2>1, AttemptStep
       DEF TargetInv, PaysByHand, Fails, Succeeds, GivenUp, Records, Kept, Failed
  <2>3. loc[p].dest = row.dest
    BY <1>1, <2>2 DEF Inserts, InsertAttempt, At, TargetInv, DestinationInv, Drives, Driving
  <2>4. attempts'[n].dest = ResolveDestination(row.dest)
    BY <2>2, <2>3 DEF Inserts
  <2>5. CASE row.dest # NoDest
    BY <2>4, <2>5 DEF ResolveDestination
  <2>6. CASE row.dest = NoDest
    <3> SUFFICES ASSUME NEW m \in Attempt, LastAddressed(m)
                 PROVE  ResolveDestination(row.dest) = attempts[m].dest
      BY <2>4, <2>6
    <3> QED BY <2>6, LastIsResolved
  <2> QED BY <2>5, <2>6
<1>2. TargetInv /\ [Next]_vars
        => [\A n \in Attempt :
              attempts[n].status = "none" /\ attempts'[n].status = "dispatched"
                => Latest(n, attempts'[n].dest)]_vars
  BY <1>1
<1>3. Spec => [][\A n \in Attempt :
              attempts[n].status = "none" /\ attempts'[n].status = "dispatched"
                => Latest(n, attempts'[n].dest)]_vars
  BY <1>2, TargetAlways, PTL DEF Spec
<1> QED BY <1>3 DEF PaysLatestDestination

-----------------------------------------------------------------------------
(* A recorded success settles the row, as long as no handler is cut short: the *)
(* row cannot have been taken elsewhere between the two statements.            *)

SettleInv ==
  faults = 0 =>
    /\ row.status = "dispatching" =>
         \E p \in Procs : pc[p] \in {"load", "post_deposit", "post_fx", "start_settling"}
    /\ Paid /\ row.status = "settling" => \E p \in Procs : pc[p] = "settle"

LEMMA SettleContinue ==
  ASSUME TypeInv, AttemptInv, TurnInv, SettleInv, faults = 0, NEW p \in Procs, Continue(p)
  PROVE  SettleInv'
<1> TypeOK BY DEF TypeInv
<1> pc \in [Procs -> Labels] /\ loc \in [Procs -> LocType] /\ row \in RowType
  BY DEF TypeOK
<1>1. ASSUME row'.status = "dispatching"
      PROVE  \E q \in Procs : pc'[q] \in {"load", "post_deposit", "post_fx", "start_settling"}
  <2>1. row.status = "dispatching"
    <3>1. CASE ManualSettle(p)
      BY <1>1, <3>1 DEF ManualSettle, RowType
    <3>2. CASE Requeue(p)
      BY <1>1, <3>2 DEF Requeue, RowType
    <3>3. CASE ~ManualSettle(p) /\ ~Requeue(p)
      BY <1>1, <3>3 DEF RowType, aside, Continue,
         LoadSession, PostDepositConfirmed,
         PostFxConversion, StartSettling, TransitionToSettling, ChooseProvider,
         ClaimPayout, InsertAttempt, BumpAttemptCount, CallProvider, ClearPendingDestination,
         RecordDispatch, MarkFailed, Reload, ReverseAttempt,
         WakeFromBackoff, FailSettlement, ParkForManualPayout, GiveUp,
         TransitionToSettlementFailed, ReleaseReservation, MarkSucceeded,
         Settle, TransitionToSettled, ReturnPayout, TransitionToReversed,
         PostReturn, FlagDeclined, PageForDeclined, ConfirmFailed,
         ReverseConfirmed, ClaimManualPayout, RetryToSettling,
         PostManualAdjustment, CloseReversalCase, ResolveRow, TransitionToReversalResolved
    <3> QED BY <3>1, <3>2, <3>3
  <2>2. PICK q \in Procs : pc[q] \in {"load", "post_deposit", "post_fx", "start_settling"}
    BY <2>1 DEF SettleInv
  <2>3. CASE q # p
    BY <2>2, <2>3, OthersKeep
  <2>4. CASE q = p
    <3>1. LoadSession(p) \/ PostDepositConfirmed(p) \/ PostFxConversion(p) \/ StartSettling(p)
      BY <2>2, <2>4 DEF At, Continue,
         TransitionToSettling, ChooseProvider,
         ClaimPayout, InsertAttempt, BumpAttemptCount, CallProvider, ClearPendingDestination,
         RecordDispatch, MarkFailed, Reload, ReverseAttempt,
         WakeFromBackoff, FailSettlement, ParkForManualPayout, GiveUp,
         TransitionToSettlementFailed, ReleaseReservation, MarkSucceeded,
         Settle, TransitionToSettled, ReturnPayout, TransitionToReversed,
         PostReturn, FlagDeclined, PageForDeclined, ManualSettle, ConfirmFailed,
         ReverseConfirmed, ClaimManualPayout, Requeue, RetryToSettling,
         PostManualAdjustment, CloseReversalCase, ResolveRow, TransitionToReversalResolved
    <3>2. ~StartSettling(p)
      BY <1>1, <2>1 DEF StartSettling, RowType
    <3> QED BY <3>1, <3>2 DEF LoadSession, PostDepositConfirmed, PostFxConversion, Then, Goto
  <2> QED BY <2>3, <2>4
<1>2. ASSUME Paid', row'.status = "settling"
      PROVE  \E q \in Procs : pc'[q] = "settle"
  <2>1. CASE row.status # "settling"
    <3>1. StartSettling(p)
      <4>1. CASE ManualSettle(p)
        BY <1>2, <2>1, <4>1 DEF ManualSettle, RowType
      <4>2. CASE Requeue(p)
        BY <1>2, <2>1, <4>2 DEF Requeue, RowType
      <4>3. CASE ~ManualSettle(p) /\ ~Requeue(p)
        BY <1>2, <2>1, <4>3 DEF RowType, aside, Continue,
         LoadSession, PostDepositConfirmed,
         PostFxConversion, TransitionToSettling, ChooseProvider,
         ClaimPayout, InsertAttempt, BumpAttemptCount, CallProvider, ClearPendingDestination,
         RecordDispatch, MarkFailed, Reload, ReverseAttempt,
         WakeFromBackoff, FailSettlement, ParkForManualPayout, GiveUp,
         TransitionToSettlementFailed, ReleaseReservation, MarkSucceeded,
         Settle, TransitionToSettled, ReturnPayout, TransitionToReversed,
         PostReturn, FlagDeclined, PageForDeclined, ConfirmFailed,
         ReverseConfirmed, ClaimManualPayout, RetryToSettling,
         PostManualAdjustment, CloseReversalCase, ResolveRow, TransitionToReversalResolved
      <4> QED BY <4>1, <4>2, <4>3
    <3>2. Drives(p) /\ UNCHANGED attempts
      BY <3>1 DEF StartSettling, At, Drives, Driving
    <3>3. \A n \in Attempt : ~Holds(n)
      BY <3>2 DEF TurnInv, DriverHasTurn
    <3> QED BY <1>2, <3>2, <3>3 DEF Paid, Holds
  <2>2. CASE row.status = "settling" /\ Paid
    <3>1. PICK q \in Procs : pc[q] = "settle"
      BY <2>2 DEF SettleInv
    <3>2. CASE q # p
      BY <3>1, <3>2, OthersKeep
    <3>3. CASE q = p
      <4>1. Settle(p)
        BY <3>1, <3>3 DEF At, Continue,
         LoadSession, PostDepositConfirmed,
         PostFxConversion, StartSettling, TransitionToSettling, ChooseProvider,
         ClaimPayout, InsertAttempt, BumpAttemptCount, CallProvider, ClearPendingDestination,
         RecordDispatch, MarkFailed, Reload, ReverseAttempt,
         WakeFromBackoff, FailSettlement, ParkForManualPayout, GiveUp,
         TransitionToSettlementFailed, ReleaseReservation, MarkSucceeded,
         TransitionToSettled, ReturnPayout, TransitionToReversed,
         PostReturn, FlagDeclined, PageForDeclined, ManualSettle, ConfirmFailed,
         ReverseConfirmed, ClaimManualPayout, Requeue, RetryToSettling,
         PostManualAdjustment, CloseReversalCase, ResolveRow, TransitionToReversalResolved
      <4> QED BY <1>2, <2>2, <4>1 DEF Settle, RowType
    <3> QED BY <3>2, <3>3
  <2>3. CASE row.status = "settling" /\ ~Paid
    <3>1. PICK n \in Attempt : attempts'[n].status = "succeeded" /\ attempts[n].status # "succeeded"
      BY <1>2, <2>3 DEF Paid
    <3>2. Succeeds(p, n) \/ PaysByHand(p, n)
      BY <3>1, AttemptStep DEF Inserts, Fails, GivenUp, Records, Kept, Failed
    <3>3. ~PaysByHand(p, n)
      BY <1>2 DEF PaysByHand
    <3>4. MarkSucceeded(p) /\ Open(loc[p].att)
      BY <3>2, <3>3 DEF Succeeds, Open
    <3> QED BY <3>4 DEF MarkSucceeded, Then, Goto
  <2> QED BY <2>1, <2>2, <2>3
<1> QED BY <1>1, <1>2 DEF SettleInv

LEMMA SettleNext ==
  ASSUME TypeInv, AttemptInv, TurnInv, SettleInv, [Next]_vars
  PROVE  SettleInv'
<1> TypeOK BY DEF TypeInv
<1> pc \in [Procs -> Labels] /\ row \in RowType /\ faults \in Nat
  BY Bounds DEF TypeOK
<1> Worker \in Procs /\ Requests \subseteq Procs BY DEF Procs
<1>1. ASSUME NEW p \in Procs, Interrupted(p) \/ CallInterrupted(p) PROVE SettleInv'
  BY <1>1 DEF Interrupted, CallInterrupted, SettleInv
<1>2. ASSUME NEW p \in Procs, Continue(p) PROVE SettleInv'
  <2>1. faults' = faults
    BY <1>2 DEF aside, bounds, Continue,
         LoadSession, PostDepositConfirmed,
         PostFxConversion, StartSettling, TransitionToSettling, ChooseProvider,
         ClaimPayout, InsertAttempt, BumpAttemptCount, CallProvider, ClearPendingDestination,
         RecordDispatch, MarkFailed, Reload, ReverseAttempt,
         WakeFromBackoff, FailSettlement, ParkForManualPayout, GiveUp,
         TransitionToSettlementFailed, ReleaseReservation, MarkSucceeded,
         Settle, TransitionToSettled, ReturnPayout, TransitionToReversed,
         PostReturn, FlagDeclined, PageForDeclined, ManualSettle, ConfirmFailed,
         ReverseConfirmed, ClaimManualPayout, Requeue, RetryToSettling,
         PostManualAdjustment, CloseReversalCase, ResolveRow, TransitionToReversalResolved
  <2> QED BY <1>2, <2>1, SettleContinue DEF SettleInv
<1>3. ASSUME NEW p \in Procs, \A q \in Procs \ {p} : pc'[q] = pc[q], UNCHANGED <<attempts, faults>>,
             pc[p] = "idle",
             row'.status = "dispatching" =>
                \/ row.status = "dispatching"
                \/ pc'[p] = "load",
             row'.status = "settling" => row.status = "settling"
      PROVE  SettleInv'
  BY <1>3 DEF SettleInv, Paid
<1>4. CASE WorkerTick
  BY <1>4, <1>3 DEF WorkerTick, ClaimNextPendingDispatch, ConfirmSandboxDispatch, Goto, At,
                    RowType, aside, bounds
<1>5. ASSUME NEW p \in Requests, Arrive(p) PROVE SettleInv'
  BY <1>5, <1>3 DEF Arrive, HandleSettlementWebhook, StartManualSettle, StartRetry,
                    StartResolveReversal, Serve, Goto, At, aside, bounds
<1>6. ASSUME UNCHANGED <<pc, attempts, faults>>, row'.status = row.status
             \/ row'.status \notin {"dispatching", "settling"}
      PROVE  SettleInv'
  BY <1>6 DEF SettleInv, Paid
<1>7. CASE HandleDepositConfirmed \/ PageTimedOutConfirmation
  BY <1>6, <1>7 DEF HandleDepositConfirmed, PageTimedOutConfirmation, RowType, aside, bounds
<1>8. CASE UNCHANGED <<row, pc, attempts, faults>>
  BY <1>6, <1>8
<1> QED BY <1>1, <1>2, <1>4, <1>5, <1>7, <1>8
        DEF Next, vars, Environment, ProviderPays, ProviderRejects, BankReturns, FateChanges,
            HumanPays, LateDeposit, bounds

(* An attempt recorded as succeeded settles the settlement, for any number of  *)
(* handlers: settleAttempt's second statement finds the row settling, unless   *)
(* its process dies between the two.                                           *)
THEOREM SuccessSettles ==
  ASSUME ~OpsConfirm
  PROVE  Spec => [](faults = 0 => SucceededAttemptSettles)
<1>1. Init => SettleInv
  <2> SUFFICES ASSUME Init PROVE SettleInv
    OBVIOUS
  <2>1. row.status = "none"
    BY DEF Init
  <2> QED BY <2>1 DEF SettleInv
<1>2. TargetInv /\ SettleInv /\ [Next]_vars => SettleInv'
  BY SettleNext DEF TargetInv
<1>3. TargetInv /\ SettleInv => (faults = 0 => SucceededAttemptSettles)
  <2> SUFFICES ASSUME TargetInv, SettleInv, faults = 0, Quiet, Paid
               PROVE  row.status \in {"settled", "reversed", "reversal_resolved"}
    BY DEF SucceededAttemptSettles, Paid
  <2>1. ~Waits
    BY DEF TargetInv, TurnInv, WaitingHasTurn, Paid, Holds
  <2>2. row.status \in Statuses
    BY DEF TargetInv, TypeInv, TypeOK, RowType
  <2>3. row.status \notin {"dispatching", "settling"}
    BY DEF SettleInv, Quiet, At
  <2> QED BY <2>1, <2>2, <2>3 DEF Waits, Statuses
<1> QED BY <1>1, <1>2, <1>3, TargetAlways, PTL DEF Spec

-----------------------------------------------------------------------------
(* Sums over the attempts: the library's sum is a recursive function, so that  *)
(* each fact about it is shown by a least set that violates it.                *)

\* What is true of all finite subsets smaller than a given one is true of all.
LEMMA SmallestSubset ==
  ASSUME NEW S, IsFiniteSet(S), NEW Bad \in SUBSET SUBSET S, Bad # {}
  PROVE  \E t \in Bad : \A u \in Bad : ~(u \subseteq t /\ u # t)
<1>1. Bad \subseteq FiniteSubsetsOf(S)
  <2>1. \A t \in Bad : IsFiniteSet(t)
    BY FS_Subset
  <2> QED BY <2>1 DEF FiniteSubsetsOf
<1>2. PICK t \in Bad : \A u \in Bad : ~(<<u, t>> \in StrictSubsetOrdering(S))
  BY <1>1, WFMin, FS_StrictSubsetOrderingWellFounded
<1>3. ASSUME NEW u \in Bad, u \subseteq t, u # t PROVE FALSE
  BY <1>1, <1>2, <1>3 DEF StrictSubsetOrdering, FiniteSubsetsOf
<1> QED BY <1>3

Pick(s) == CHOOSE x \in s : TRUE
Sums(f, S, g) ==
  g = [s \in SUBSET S |-> IF s = {} THEN 0 ELSE f[Pick(s)] + g[s \ {Pick(s)}]]
Total(f, S) == (CHOOSE g : Sums(f, S, g))[S]

\* The library's sum is the entry for the whole set in its table of partial sums.
LEMMA SumUnfolds ==
  ASSUME NEW f, NEW S
  PROVE  SumFunctionOnSet(f, S) = Total(f, S)
BY DEF SumFunctionOnSet, FoldFunctionOnSet, MapThenFoldSet, Sums, Pick, Total

\* The element the library takes out first.
LEMMA Picked == ASSUME NEW s, s # {} PROVE Pick(s) \in s
BY DEF Pick

\* Two tables of partial sums agree where both are defined.
LEMMA SumsAgree ==
  ASSUME NEW S, IsFiniteSet(S), NEW T \in SUBSET S, NEW f, NEW g, NEW h,
         Sums(f, S, g), Sums(f, T, h)
  PROVE  g[T] = h[T]
<1> DEFINE Bad == {t \in SUBSET T : g[t] # h[t]}
<1>1. CASE Bad = {}
  BY <1>1
<1>2. CASE Bad # {}
  <2>1. IsFiniteSet(T)
    BY FS_Subset
  <2>2. PICK t \in Bad : \A u \in Bad : ~(u \subseteq t /\ u # t)
    <3>1. Bad \in SUBSET SUBSET T
      OBVIOUS
    <3> HIDE DEF Bad
    <3> QED BY <1>2, <2>1, <3>1, SmallestSubset
  <2>3. t \in SUBSET S /\ t \in SUBSET T
    OBVIOUS
  <2>4. t # {}
    <3>1. g[{}] = 0 /\ h[{}] = 0
      BY DEF Sums
    <3> QED BY <2>2, <3>1
  <2> DEFINE u == t \ {Pick(t)}
  <2>5. u \subseteq t /\ u # t /\ u \in SUBSET T
    BY <2>3, <2>4, Picked
  <2>6. g[u] = h[u]
    BY <2>2, <2>5
  <2>7. g[t] = f[Pick(t)] + g[u] /\ h[t] = f[Pick(t)] + h[u]
    BY <2>3, <2>4 DEF Sums
  <2> QED BY <2>2, <2>6, <2>7
<1> QED BY <1>1, <1>2

\* Every finite set has a table of partial sums: a smallest one without would get
\* one from those of its subsets.
LEMMA SumsExist ==
  ASSUME NEW S, IsFiniteSet(S), NEW f
  PROVE  \E g : Sums(f, S, g)
<1> DEFINE Bad == {t \in SUBSET S : ~\E g : Sums(f, t, g)}
<1>1. CASE Bad = {}
  BY <1>1
<1>2. CASE Bad # {}
  <2>1. PICK t \in Bad : \A u \in Bad : ~(u \subseteq t /\ u # t)
    <3>1. Bad \in SUBSET SUBSET S
      OBVIOUS
    <3> HIDE DEF Bad
    <3> QED BY <1>2, <3>1, SmallestSubset
  <2> DEFINE g == [s \in SUBSET t |-> IF s = {} THEN 0
                                    ELSE f[Pick(s)] + Total(f, s \ {Pick(s)})]
  <2>2. ASSUME NEW s \in SUBSET t, s # {}
        PROVE  g[s \ {Pick(s)}] = Total(f, s \ {Pick(s)})
    <3> DEFINE u == s \ {Pick(s)}
    <3>1. u \in SUBSET t /\ u \in SUBSET S /\ u # t /\ IsFiniteSet(u)
      BY <2>2, Picked, FS_Subset
    <3>2. PICK h : Sums(f, u, h) /\ h = CHOOSE e : Sums(f, u, e)
      BY <2>1, <3>1
    <3>3. CASE u = {}
      <4>1. h[u] = 0
        BY <3>2, <3>3 DEF Sums
      <4>2. g[u] = 0
        BY <3>1, <3>3
      <4>3. Total(f, u) = 0
        BY <3>2, <4>1 DEF Total
      <4> QED BY <4>2, <4>3
    <3>4. CASE u # {}
      <4> DEFINE v == u \ {Pick(u)}
      <4>1. v \in SUBSET u /\ v \in SUBSET S /\ v # t /\ v \in SUBSET t
        BY <3>1
      <4>2. PICK e : Sums(f, v, e) /\ e = CHOOSE k : Sums(f, v, k)
        BY <2>1, <3>1, <3>4, Picked, <4>1
      <4>3. h[v] = e[v]
        BY <3>1, <3>2, <4>1, <4>2, SumsAgree
      <4>4. h[u] = f[Pick(u)] + h[v]
        BY <3>2, <3>4 DEF Sums
      <4>5. g[u] = f[Pick(u)] + Total(f, v)
        BY <3>1, <3>4
      <4> QED BY <3>2, <4>2, <4>3, <4>4, <4>5 DEF Total
    <3> QED BY <3>3, <3>4
  <2>3. Sums(f, t, g)
    BY <2>2 DEF Sums
  <2> QED BY <2>3
<1> QED BY <1>1, <1>2

\* The two equations that define a sum, and the one that makes it one: any
\* element may be taken out first.
LEMMA SumRecursion ==
  ASSUME NEW S, IsFiniteSet(S), NEW f, S # {}
  PROVE  SumFunctionOnSet(f, S) = f[Pick(S)] + SumFunctionOnSet(f, S \ {Pick(S)})
<1> DEFINE T == S \ {Pick(S)}
<1>1. T \in SUBSET S /\ IsFiniteSet(T)
  BY FS_Subset
<1>2. PICK g : Sums(f, S, g) /\ g = CHOOSE h : Sums(f, S, h)
  BY SumsExist
<1>3. PICK h : Sums(f, T, h) /\ h = CHOOSE e : Sums(f, T, e)
  BY <1>1, SumsExist
<1>4. g[T] = h[T]
  BY <1>1, <1>2, <1>3, SumsAgree
<1>5. g[S] = f[Pick(S)] + g[T]
  BY <1>2 DEF Sums
<1>6. Total(f, S) = g[S] /\ Total(f, T) = h[T]
  BY <1>2, <1>3 DEF Total
<1> QED BY <1>4, <1>5, <1>6, SumUnfolds

\* The sum over no element.
LEMMA SumOfNothing == ASSUME NEW f PROVE SumFunctionOnSet(f, {}) = 0
<1>1. PICK g : Sums(f, {}, g) /\ g = CHOOSE h : Sums(f, {}, h)
  BY SumsExist, FS_EmptySet
<1>2. g[{}] = 0
  BY <1>1 DEF Sums
<1> QED BY <1>1, <1>2, SumUnfolds DEF Total

\* A sum with one element at most that counts is that element.
LEMMA SumOfOne ==
  ASSUME NEW S, IsFiniteSet(S), NEW f, NEW a, f[a] \in Int,
         \A x \in S : x = a \/ f[x] = 0
  PROVE  SumFunctionOnSet(f, S) = IF a \in S THEN f[a] ELSE 0
<1> DEFINE Sum(t) == SumFunctionOnSet(f, t)
           One(t) == IF a \in t THEN f[a] ELSE 0
           Bad == {t \in SUBSET S : Sum(t) # One(t)}
<1>1. CASE Bad = {}
  BY <1>1
<1>2. CASE Bad # {}
  <2>1. PICK t \in Bad : \A u \in Bad : ~(u \subseteq t /\ u # t)
    <3>1. Bad \in SUBSET SUBSET S
      OBVIOUS
    <3> HIDE DEF Bad
    <3> QED BY <1>2, <3>1, SmallestSubset
  <2>2. t # {} /\ IsFiniteSet(t)
    BY SumOfNothing, FS_Subset
  <2> DEFINE u == t \ {Pick(t)}
  <2>3. Pick(t) \in t /\ Pick(t) \in S /\ u \in SUBSET S /\ u \subseteq t /\ u # t
    BY <2>2, Picked
  <2>4. Sum(u) = One(u)
    BY <2>1, <2>3
  <2>5. Sum(t) = f[Pick(t)] + Sum(u)
    BY <2>2, SumRecursion
  <2>6. Sum(t) # One(t)
    BY <2>1
  <2> HIDE DEF Sum
  <2>7. CASE Pick(t) = a
    BY <2>3, <2>4, <2>5, <2>6, <2>7
  <2>8. CASE Pick(t) # a
    BY <2>3, <2>4, <2>5, <2>6, <2>8
  <2> QED BY <2>7, <2>8
<1> QED BY <1>1, <1>2

-----------------------------------------------------------------------------
(* tenant_payable is never overdrawn while there is one deposit: the payout's  *)
(* amount is credited before it is claimed (the amount), and one claim at most *)
(* stands, that of a payout made by hand included (the claims).                *)

\* What an attempt has taken from tenant_payable, and what came back.
Claim(n) == ledger[<<"settlement_reversal", n>>] - ledger[<<"settlement_payout", n>>]
Claims == [n \in Attempt |-> Claim(n)]
ClaimSums(S, g) ==
  g = [s \in SUBSET S |-> IF s = {} THEN 0 ELSE Claim(Pick(s)) + g[s \ {Pick(s)}]]

\* The balance, with the library's sum in the form the lemmas above have.
LEMMA OwedIs ==
  Owed = ledger[FxConversion] + ledger[Return] - ledger[ManualPayout]
         + SumFunctionOnSet(Claims, Attempt)
<1> DEFINE taken == MapThenSumSet(LAMBDA n : ledger[<<"settlement_reversal", n>>]
                                              - ledger[<<"settlement_payout", n>>], Attempt)
<1>1. taken = (CHOOSE g : ClaimSums(Attempt, g))[Attempt]
  BY DEF MapThenSumSet, MapThenFoldSet, ClaimSums, Claim, Pick
<1>2. ASSUME NEW g PROVE ClaimSums(Attempt, g) = Sums(Claims, Attempt, g)
  <2>1. ASSUME NEW s \in SUBSET Attempt, s # {}
        PROVE  Claim(Pick(s)) = Claims[Pick(s)]
    BY <2>1, Picked DEF Claims
  <2> DEFINE h == [s \in SUBSET Attempt |->
                     IF s = {} THEN 0 ELSE Claim(Pick(s)) + g[s \ {Pick(s)}]]
             k == [s \in SUBSET Attempt |->
                     IF s = {} THEN 0 ELSE Claims[Pick(s)] + g[s \ {Pick(s)}]]
  <2>2. h = k
    BY <2>1
  <2> QED BY <2>2 DEF ClaimSums, Sums
<1>3. taken = Total(Claims, Attempt)
  BY <1>1, <1>2 DEF Total
<1> QED BY <1>3, SumUnfolds DEF Owed

(* Which postings of a goroutine concern the tenant's payable. *)
PayableKeys == {FxConversion, ManualPayout} \cup ({"settlement_payout", "settlement_reversal"} \X Attempt)

(* They are keys, and the other postings have other keys. *)
LEMMA PayableAreKeys ==
  /\ PayableKeys \subseteq Keys
  /\ DepositConfirmed \in Keys \ PayableKeys /\ Return \in Keys \ PayableKeys /\ Adjustment \in Keys \ PayableKeys
  /\ \A n \in Attempt : Payout(n) \in PayableKeys /\ Reversal(n) \in PayableKeys
<1>1. 0 \notin Attempt
  BY SettlementAssumption DEF Attempt
<1> QED BY <1>1 DEF PayableKeys, Keys, FxConversion, ManualPayout, DepositConfirmed, Return, Adjustment,
                   Payout, Reversal

(* No two postings share a key. *)
LEMMA KeysApart ==
  ASSUME NEW m \in Attempt, NEW n \in Attempt
  PROVE  /\ Payout(m) # Reversal(n) /\ FxConversion # ManualPayout
         /\ Payout(m) # FxConversion /\ Payout(m) # ManualPayout
         /\ Reversal(m) # FxConversion /\ Reversal(m) # ManualPayout
         /\ Payout(m) = Payout(n) => m = n
         /\ Reversal(m) = Reversal(n) => m = n
BY DEF Payout, Reversal, FxConversion, ManualPayout

(* Post writes one key, once. *)
LEMMA PostsOne ==
  ASSUME TypeOK, NEW k \in Keys, NEW amount, Post(k, amount), NEW j \in Keys
  PROVE  ledger'[j] = IF j = k /\ ~Posted(k) THEN amount ELSE ledger[j]
BY DEF TypeOK, Post

(* Four statements post to the payable; no other step does. *)
LEMMA PayableAlone ==
  ASSUME TypeOK, NeverConfirmed, [Next]_vars, NEW k \in PayableKeys,
         \A p \in Procs : /\ ~PostFxConversion(p) /\ ~ClaimPayout(p)
                          /\ ~ReverseAttempt(p) /\ ~ClaimManualPayout(p)
  PROVE  ledger'[k] = ledger[k]
<1>1. ASSUME NEW j \in Keys \ PayableKeys, NEW amount, Post(j, amount) PROVE ledger'[k] = ledger[k]
  BY <1>1, PostsOne, PayableAreKeys
<1>2. ASSUME NEW p \in Procs, Continue(p) PROVE ledger'[k] = ledger[k]
  <2>1. CASE PostDepositConfirmed(p) \/ PostReturn(p) \/ PostManualAdjustment(p)
    BY <2>1, <1>1, PayableAreKeys DEF PostDepositConfirmed, PostReturn, PostManualAdjustment
  <2>2. ~ReverseConfirmed(p)
    BY DEF ReverseConfirmed, At, NeverConfirmed
  <2> QED BY <1>2, <2>1, <2>2 DEF Continue,
          LoadSession, StartSettling, TransitionToSettling, ChooseProvider,
          InsertAttempt, BumpAttemptCount, CallProvider,
          ClearPendingDestination, RecordDispatch, MarkFailed, Reload,
          WakeFromBackoff, FailSettlement, ParkForManualPayout, GiveUp,
          TransitionToSettlementFailed, ReleaseReservation, MarkSucceeded,
          Settle, TransitionToSettled, ReturnPayout, TransitionToReversed,
          FlagDeclined, PageForDeclined, ManualSettle, ConfirmFailed, Requeue,
          RetryToSettling, CloseReversalCase, ResolveRow,
          TransitionToReversalResolved
<1> QED BY <1>2
     DEF Next, vars, HandleDepositConfirmed, WorkerTick, ClaimNextPendingDispatch,
         ConfirmSandboxDispatch, PageTimedOutConfirmation, Arrive, Serve,
         HandleSettlementWebhook, StartManualSettle, StartRetry, StartResolveReversal,
         Environment, ProviderPays, ProviderRejects, BankReturns, FateChanges,
         HumanPays, LateDeposit, Interrupted, CallInterrupted

(* What is posted stays posted. *)
LEMMA PostedStays ==
  ASSUME TypeOK, NeverConfirmed, AttemptInv, CountInv, [Next]_vars, NEW k \in PayableKeys, Posted(k)
  PROVE  ledger'[k] = ledger[k]
<1> TypeInv BY DEF TypeInv
<1>1. ASSUME NEW j \in Keys, NEW amount, Post(j, amount) PROVE ledger'[k] = ledger[k]
  BY <1>1, PostsOne, PayableAreKeys
<1>2. ASSUME NEW p \in Procs, PostFxConversion(p) PROVE ledger'[k] = ledger[k]
  BY <1>2, <1>1, PayableAreKeys DEF PostFxConversion, PayableKeys
<1>3. ASSUME NEW p \in Procs, ClaimPayout(p) PROVE ledger'[k] = ledger[k]
  <2>1. Payout(loc[p].cnt + 1) \in Keys
    BY <1>3, NextAttempt, PayableAreKeys DEF ClaimPayout, At
  <2> QED BY <1>3, <2>1, <1>1 DEF ClaimPayout
<1>4. ASSUME NEW p \in Procs, ReverseAttempt(p) PROVE ledger'[k] = ledger[k]
  <2>1. Reversal(loc[p].att) \in Keys
    BY <1>4, PayableAreKeys DEF ReverseAttempt, At, AttemptInv
  <2> QED BY <1>4, <2>1, <1>1 DEF ReverseAttempt
<1>5. ASSUME NEW p \in Procs, ClaimManualPayout(p) PROVE ledger'[k] = ledger[k]
  BY <1>5, <1>1, PayableAreKeys DEF ClaimManualPayout, PayableKeys
<1> QED BY <1>2, <1>3, <1>4, <1>5, PayableAlone

(* The amount.  While there is one deposit, whoever is about to post has in    *)
(* its local variables the amount that the row has, and that the ledger was    *)
(* credited with before: each in a statement of its own.                       *)

Early == {"none", "pending_dispatch", "dispatching"}

PricedRow ==
  /\ row.pay \in {0, Rate}
  /\ row.pay = Rate => ledger[FxConversion] = Rate
  /\ row.status \notin Early => row.pay = Rate
  /\ \A n \in Attempt : attempts[n].status # "none" \/ Posted(Payout(n)) => row.pay = Rate
PricedCopies == \A p \in Procs :
  /\ pc[p] \in {"post_deposit", "post_fx", "start_settling"} => loc[p].amt = 1
  /\ pc[p] \in {"load", "post_deposit", "post_fx", "start_settling"} => row.status = "dispatching"
  /\ pc[p] = "start_settling" => ledger[FxConversion] = Rate
  /\ pc[p] \in {"session_settling", "select", "claim", "insert", "reverse", "backoff",
                "manual", "manual_claim"} => loc[p].pay = Rate /\ row.pay = Rate
PricedLedger ==
  /\ ledger[FxConversion] \in {0, Rate}
  /\ ledger[ManualPayout] \in {0, Rate}
  /\ \A n \in Attempt : ledger[Payout(n)] \in {0, Rate} /\ ledger[Reversal(n)] \in {0, Rate}

PriceInv == deposits = 1 => PricedRow /\ PricedCopies /\ PricedLedger

(* One unit of the deposit is Rate units of the payout. *)
LEMMA RateIsPositive == Rate \in Nat /\ Rate # 0 /\ CryptoToFiat(1) = Rate
BY SettlementAssumption DEF CryptoToFiat

LEMMA PriceInit == Init => PriceInv
<1> SUFFICES ASSUME Init PROVE PriceInv
  OBVIOUS
<1>1. row.pay = 0 /\ row.status = "none" /\ \A p \in Procs : pc[p] = "idle"
  BY DEF Init
<1>2. \A k \in Keys : ledger[k] = 0
  BY DEF Init
<1>3. \A n \in Attempt : attempts[n].status = "none"
  BY NoAttemptYet
<1>4. PayableKeys \subseteq Keys /\ \A n \in Attempt : Payout(n) \in PayableKeys /\ Reversal(n) \in PayableKeys
  BY PayableAreKeys
<1>5. FxConversion \in Keys /\ ManualPayout \in Keys
  BY <1>4 DEF PayableKeys
<1> QED BY <1>1, <1>2, <1>3, <1>4, <1>5, RateIsPositive
        DEF PriceInv, PricedRow, PricedCopies, PricedLedger, Early, Posted

(* The row's amount is set once it is settling, and never changed. *)
LEMMA AmountOfRow ==
  ASSUME TypeInv, NeverConfirmed, [Next]_vars, \A p \in Procs : ~StartSettling(p)
  PROVE  /\ row'.pay = row.pay
         /\ row'.status \notin Early => row.status \notin Early
         /\ row.status = "dispatching" => row'.status = "dispatching"
<1> TypeOK /\ row \in RowType BY DEF TypeInv, TypeOK
<1>1. ASSUME NEW p \in Procs, Continue(p)
      PROVE  /\ row'.pay = row.pay
             /\ row'.status \notin Early => row.status \notin Early
             /\ row.status = "dispatching" => row'.status = "dispatching"
  <2>1. CASE Requeue(p)
    <3>1. CASE row' = row
      BY <3>1
    <3>2. CASE row' # row
      <4>1. row.status \in {"settlement_failed", "awaiting_manual_payout"}
        BY <2>1, <3>2 DEF Requeue, At, NeverConfirmed
      <4>2. PICK d : row' = [row EXCEPT !.status = "pending_dispatch", !.paged = FALSE, !.dest = d]
        BY <2>1, <3>2 DEF Requeue
      <4> QED BY <4>1, <4>2 DEF RowType, Early
    <3> QED BY <3>1, <3>2
  <2>2. CASE ManualSettle(p)
    BY <2>2 DEF ManualSettle, RowType, Early
  <2>3. CASE ~Requeue(p) /\ ~ManualSettle(p)
    BY <1>1, <2>3 DEF Continue, aside, RowType, Early,
         LoadSession, PostDepositConfirmed, PostFxConversion,
         TransitionToSettling, ChooseProvider, ClaimPayout, InsertAttempt,
         BumpAttemptCount, CallProvider, ClearPendingDestination, RecordDispatch, MarkFailed,
         Reload, ReverseAttempt, WakeFromBackoff, FailSettlement, ParkForManualPayout,
         GiveUp, TransitionToSettlementFailed, ReleaseReservation, MarkSucceeded, Settle,
         TransitionToSettled, ReturnPayout, TransitionToReversed, PostReturn, FlagDeclined,
         PageForDeclined, ClaimManualPayout, ConfirmFailed, ReverseConfirmed,
         RetryToSettling, PostManualAdjustment, CloseReversalCase, ResolveRow,
         TransitionToReversalResolved
  <2> QED BY <2>1, <2>2, <2>3
<1>2. CASE ~(\E p \in Procs : Continue(p))
  BY <1>2 DEF Next, vars, HandleDepositConfirmed, WorkerTick, ClaimNextPendingDispatch,
       ConfirmSandboxDispatch, PageTimedOutConfirmation, Arrive, Serve,
       HandleSettlementWebhook, StartManualSettle, StartRetry, StartResolveReversal,
       Environment, ProviderPays, ProviderRejects, BankReturns, FateChanges,
       HumanPays, LateDeposit, Interrupted, CallInterrupted, RowType, Early
<1> QED BY <1>1, <1>2

(* An attempt's row is new only where an amount was fixed before. *)
LEMMA NewAttempt ==
  ASSUME TypeInv, NeverConfirmed, [Next]_vars, NEW n \in Attempt,
         attempts[n].status = "none", attempts'[n].status # "none"
  PROVE  \E p \in Procs : Inserts(p, n) \/ PaysByHand(p, n)
<1>1. PICK p \in Procs : Continue(p)
  BY AttemptsAlone
<1> QED BY <1>1, AttemptStep DEF Fails, Succeeds, GivenUp, Records, Kept

(* The amount of the row, and with it the credit: fixed by the driver's own    *)
(* statements, in this order.                                                  *)
LEMMA PricedRowNext ==
  ASSUME TypeInv, AttemptInv, TurnInv, deposits = 1, PricedRow, PricedCopies, PricedLedger,
         [Next]_vars
  PROVE  /\ PricedRow'
         /\ row.pay = Rate => row'.pay = Rate
         /\ ledger[FxConversion] = Rate => ledger'[FxConversion] = Rate
<1> TypeOK /\ NeverConfirmed /\ CountInv /\ row \in RowType BY DEF TypeInv, TypeOK, TurnInv
<1> USE RateIsPositive
<1>1. ledger[FxConversion] = Rate => ledger'[FxConversion] = Rate
  <2>1. FxConversion \in PayableKeys
    BY DEF PayableKeys
  <2> QED BY <2>1, PostedStays DEF Posted
<1>2. ASSUME NEW p \in Procs, StartSettling(p)
      PROVE  row'.pay = Rate /\ ledger[FxConversion] = Rate
  <2>1. pc[p] = "start_settling" /\ loc[p].amt = 1 /\ row.status = "dispatching"
    BY <1>2 DEF StartSettling, At, PricedCopies
  <2>2. row' = [row EXCEPT !.status = "settling", !.pay = Rate]
    BY <1>2, <2>1 DEF StartSettling
  <2> QED BY <2>1, <2>2 DEF RowType, PricedCopies
<1>3. row.pay = Rate => row'.pay = Rate
  BY <1>2, AmountOfRow
<1>4. row'.pay \in {0, Rate} /\ (row'.pay = Rate => ledger'[FxConversion] = Rate)
  BY <1>1, <1>2, AmountOfRow DEF PricedRow
<1>5. row'.status \notin Early => row'.pay = Rate
  BY <1>2, <1>3, AmountOfRow DEF PricedRow
<1>6. ASSUME NEW n \in Attempt, attempts'[n].status # "none"
      PROVE  row'.pay = Rate
  <2>1. CASE attempts[n].status # "none"
    BY <2>1, <1>3 DEF PricedRow
  <2>2. CASE attempts[n].status = "none"
    <3>1. PICK p \in Procs : Inserts(p, n) \/ PaysByHand(p, n)
      BY <1>6, <2>2, NewAttempt
    <3>2. row.pay = Rate
      BY <3>1 DEF Inserts, InsertAttempt, PaysByHand, ManualSettle, At, PricedCopies
    <3> QED BY <3>2, <1>3
  <2> QED BY <2>1, <2>2
<1>7. ASSUME NEW n \in Attempt, ledger'[Payout(n)] # 0
      PROVE  row'.pay = Rate
  <2>1. CASE ledger[Payout(n)] # 0
    BY <2>1, <1>3 DEF PricedRow, Posted
  <2>2. CASE \E p \in Procs : ClaimPayout(p)
    BY <2>2, <1>3 DEF ClaimPayout, At, PricedCopies
  <2>3. CASE ledger[Payout(n)] = 0 /\ \A p \in Procs : ~ClaimPayout(p)
    <3>1. ASSUME NEW j \in Keys, NEW amount, Post(j, amount), j # Payout(n) PROVE FALSE
      BY <1>7, <2>3, <3>1, PostsOne, PayableAreKeys
    <3>2. ASSUME NEW p \in Procs PROVE ~PostFxConversion(p) /\ ~ClaimManualPayout(p)
      BY <3>1, KeysApart, PayableAreKeys DEF PostFxConversion, ClaimManualPayout, PayableKeys
    <3>3. ASSUME NEW p \in Procs PROVE ~ReverseAttempt(p)
      BY <3>1, KeysApart, PayableAreKeys DEF ReverseAttempt, At, AttemptInv
    <3> QED BY <1>7, <2>3, <3>2, <3>3, PayableAlone, PayableAreKeys
  <2> QED BY <2>1, <2>2, <2>3
<1> QED BY <1>1, <1>3, <1>4, <1>5, <1>6, <1>7 DEF PricedRow, Posted

(* Every posting is of the one amount. *)
LEMMA PricedLedgerNext ==
  ASSUME TypeInv, AttemptInv, TurnInv, deposits = 1, PricedRow, PricedCopies, PricedLedger,
         [Next]_vars
  PROVE  PricedLedger'
<1> TypeOK /\ NeverConfirmed BY DEF TypeInv, TurnInv
<1> USE RateIsPositive
<1>1. ASSUME NEW k \in PayableKeys, NEW j \in Keys, Post(j, Rate), ledger[k] \in {0, Rate}
      PROVE  ledger'[k] \in {0, Rate}
  BY <1>1, PostsOne, PayableAreKeys
<1>2. ASSUME NEW k \in PayableKeys, ledger[k] \in {0, Rate} PROVE ledger'[k] \in {0, Rate}
  <2>1. ASSUME NEW p \in Procs, PostFxConversion(p) PROVE ledger'[k] \in {0, Rate}
    BY <2>1, <1>1, <1>2, PayableAreKeys DEF PostFxConversion, At, PricedCopies, PayableKeys
  <2>2. ASSUME NEW p \in Procs, ClaimPayout(p) PROVE ledger'[k] \in {0, Rate}
    BY <2>2, <1>1, <1>2, NextAttempt, PayableAreKeys DEF ClaimPayout, At, PricedCopies
  <2>3. ASSUME NEW p \in Procs, ReverseAttempt(p) PROVE ledger'[k] \in {0, Rate}
    BY <2>3, <1>1, <1>2, PayableAreKeys DEF ReverseAttempt, At, AttemptInv, PricedCopies
  <2>4. ASSUME NEW p \in Procs, ClaimManualPayout(p) PROVE ledger'[k] \in {0, Rate}
    BY <2>4, <1>1, <1>2, PayableAreKeys DEF ClaimManualPayout, At, PricedCopies, PayableKeys
  <2> QED BY <1>2, <2>1, <2>2, <2>3, <2>4, PayableAlone
<1>3. FxConversion \in PayableKeys /\ ManualPayout \in PayableKeys
  BY DEF PayableKeys
<1> QED BY <1>2, <1>3, PayableAreKeys DEF PricedLedger

(* What one goroutine knows of the amount. *)
Knows(p) ==
  /\ pc[p] \in {"post_deposit", "post_fx", "start_settling"} => loc[p].amt = 1
  /\ pc[p] \in {"load", "post_deposit", "post_fx", "start_settling"} => row.status = "dispatching"
  /\ pc[p] = "start_settling" => ledger[FxConversion] = Rate
  /\ pc[p] \in {"session_settling", "select", "claim", "insert", "reverse", "backoff",
                "manual", "manual_claim"} => loc[p].pay = Rate /\ row.pay = Rate

(* The goroutine that acts. *)
LEMMA KnowsContinue ==
  ASSUME TypeInv, AttemptInv, TurnInv, FailureInv, deposits = 1,
         PricedRow, PricedCopies, PricedLedger, [Next]_vars, NEW p \in Procs, Continue(p)
  PROVE  Knows(p)'
<1> TypeOK /\ NeverConfirmed BY DEF TypeInv, TurnInv
<1> pc \in [Procs -> Labels] /\ loc \in [Procs -> LocType] /\ row \in RowType
  BY DEF TypeOK
<1> USE RateIsPositive
<1>0. loc[p] \in LocType /\ Knows(p)
  BY LocFields DEF PricedCopies, Knows
<1>1. CASE LoadSession(p)
  <2>1. [loc[p] EXCEPT !.sess = session, !.amt = deposits].amt = deposits
    BY <1>0 DEF LocType
  <2> QED BY <1>0, <1>1, <2>1 DEF LoadSession, At, Goto, Local, Knows
<1>2. CASE PostDepositConfirmed(p)
  BY <1>0, <1>2 DEF PostDepositConfirmed, At, Then, Goto, Knows
<1>3. CASE PostFxConversion(p)
  <2>1. ledger'[FxConversion] = Rate
    <3>1. FxConversion \in Keys
      BY PayableAreKeys DEF PayableKeys
    <3>2. Post(FxConversion, Rate)
      BY <1>0, <1>3 DEF PostFxConversion, At, Knows
    <3> QED BY <3>1, <3>2, PostsOne DEF PricedLedger, Posted
  <2> QED BY <1>0, <1>3, <2>1 DEF PostFxConversion, At, Then, Goto, Knows
<1>4. CASE StartSettling(p)
  <2>1. loc[p].amt = 1 /\ row.status = "dispatching"
    BY <1>0, <1>4 DEF StartSettling, At, Knows
  <2>2. row' = [row EXCEPT !.status = "settling", !.pay = Rate]
    BY <1>4, <2>1 DEF StartSettling
  <2>3. loc'[p] = [loc[p] EXCEPT !.pay = Rate]
    BY <1>4, <2>1 DEF StartSettling, Local
  <2>4. row'.pay = Rate /\ loc'[p].pay = Rate
    BY <1>0, <2>2, <2>3 DEF RowType, LocType
  <2> QED BY <1>4, <2>4 DEF StartSettling, AfterSettling, Goto, Knows
<1>5. CASE ChooseProvider(p)
  <2>1. PICK provider : loc' = loc
           \/ loc'[p] = [loc[p] EXCEPT !.prov = provider, !.att = 0, !.out = ""]
    BY <1>5 DEF ChooseProvider, Then, Local
  <2>2. [loc[p] EXCEPT !.prov = provider, !.att = 0, !.out = ""].pay = loc[p].pay
    BY <1>0 DEF LocType
  <2>3. loc'[p].pay = Rate /\ row'.pay = Rate
    BY <1>0, <1>5, <2>1, <2>2 DEF ChooseProvider, At, Knows
  <2> QED BY <1>5, <2>3 DEF ChooseProvider, Then, Goto, Knows
<1>6. CASE Reload(p)
  <2>1. loc[p].att \in Attempt /\ attempts[loc[p].att].status \in Failed
    BY <1>6 DEF Reload, At, AttemptInv, FailureInv
  <2>2. row.pay = Rate
    BY <2>1 DEF PricedRow, Failed
  <2>3. Copied(loc[p]).pay = row.pay
    BY <1>0 DEF LocType, Copied
  <2> QED BY <1>6, <2>2, <2>3 DEF Reload, Goto, Local, Knows
<1>7. CASE TransitionToSettling(p) \/ ClaimPayout(p) \/ ReverseAttempt(p) \/ WakeFromBackoff(p)
  <2>1. loc[p].pay = Rate /\ row.pay = Rate /\ row' = row
    BY <1>0, <1>7 DEF TransitionToSettling, ClaimPayout, ReverseAttempt, WakeFromBackoff, At, Knows
  <2>2. pc'[p] = "idle" \/ (loc' = loc /\ pc'[p] \in {"select", "insert", "fail", "backoff"})
    BY <1>7 DEF TransitionToSettling, ClaimPayout, ReverseAttempt, WakeFromBackoff, SessionCAS,
                Then, Goto, Finish
  <2> QED BY <2>1, <2>2 DEF Knows
<1>8. CASE ManualSettle(p)
  <2>1. loc[p].pay = Rate /\ row.pay = Rate
    BY <1>0, <1>8 DEF ManualSettle, At, Knows
  <2>2. row'.pay = Rate
    BY <2>1, <1>8 DEF ManualSettle, RowType
  <2>3. pc'[p] = "idle" \/ (loc' = loc /\ pc'[p] = "manual_claim")
    BY <1>8 DEF ManualSettle, Then, Goto, Finish
  <2> QED BY <2>1, <2>2, <2>3 DEF Knows
<1>9. CASE pc'[p] \notin {"post_deposit", "post_fx", "start_settling", "load",
             "session_settling", "select", "claim", "insert", "reverse", "backoff",
             "manual", "manual_claim"}
  BY <1>9 DEF Knows
<1> QED BY <1>1, <1>2, <1>3, <1>4, <1>5, <1>6, <1>7, <1>8, <1>9
        DEF Continue, Goto, Then, Local, Finish, SessionCAS,
         InsertAttempt, BumpAttemptCount, CallProvider,
         ClearPendingDestination, RecordDispatch, MarkFailed,
         FailSettlement, ParkForManualPayout, GiveUp,
         TransitionToSettlementFailed, ReleaseReservation, MarkSucceeded,
         Settle, TransitionToSettled, ReturnPayout, TransitionToReversed,
         PostReturn, FlagDeclined, PageForDeclined, ConfirmFailed,
         ReverseConfirmed, ClaimManualPayout, Requeue, RetryToSettling,
         PostManualAdjustment, CloseReversalCase, ResolveRow, TransitionToReversalResolved

(* One deposit so far means none was confirmed late. *)
LEMMA OneDeposit ==
  ASSUME TypeOK, [Next]_vars, deposits' = 1
  PROVE  deposits = 1
<1>1. deposits \in Nat \ {0}
  BY Bounds DEF TypeOK
<1>2. CASE LateDeposit
  BY <1>1, <1>2 DEF LateDeposit
<1>3. CASE UNCHANGED deposits
  BY <1>3
<1>4. ASSUME NEW p \in Procs, Continue(p) PROVE UNCHANGED deposits
  BY <1>4 DEF Continue, aside,
         LoadSession, PostDepositConfirmed, PostFxConversion, StartSettling,
         TransitionToSettling, ChooseProvider, ClaimPayout, InsertAttempt,
         BumpAttemptCount, CallProvider, ClearPendingDestination, RecordDispatch, MarkFailed,
         Reload, ReverseAttempt, WakeFromBackoff, FailSettlement, ParkForManualPayout,
         GiveUp, TransitionToSettlementFailed, ReleaseReservation, MarkSucceeded, Settle,
         TransitionToSettled, ReturnPayout, TransitionToReversed, PostReturn, FlagDeclined,
         PageForDeclined, ManualSettle, ClaimManualPayout, ConfirmFailed, ReverseConfirmed,
         Requeue, RetryToSettling, PostManualAdjustment, CloseReversalCase, ResolveRow,
         TransitionToReversalResolved
<1> QED BY <1>2, <1>3, <1>4
    DEF Next, vars, HandleDepositConfirmed, WorkerTick, ClaimNextPendingDispatch,
        ConfirmSandboxDispatch, PageTimedOutConfirmation, Arrive, Serve,
        HandleSettlementWebhook, StartManualSettle, StartRetry, StartResolveReversal,
        Environment, ProviderPays, ProviderRejects, BankReturns, FateChanges,
        HumanPays, Interrupted, CallInterrupted, aside

(* The others still know it. *)
LEMMA KnowsKept ==
  ASSUME TypeInv, AttemptInv, TurnInv, deposits = 1, PricedRow, PricedCopies, PricedLedger,
         [Next]_vars, NEW q \in Procs, pc'[q] = pc[q], loc'[q] = loc[q],
         ~StartSettling(q)
  PROVE  Knows(q)'
<1> NeverConfirmed BY DEF TurnInv
<1>1. Knows(q)
  BY DEF PricedCopies, Knows
<1>2. Drives(q) /\ row.status = "dispatching" => row'.status = "dispatching"
  <2>1. ASSUME NEW p \in Procs, StartSettling(p) PROVE ~Drives(q)
    <3>1. Drives(p)
      BY <2>1 DEF StartSettling, At, Drives, Driving
    <3> QED BY <2>1, <3>1 DEF TurnInv, OneDriver
  <2> QED BY <2>1, AmountOfRow
<1>3. pc[q] \in {"load", "post_deposit", "post_fx", "start_settling"} => Drives(q)
  BY DEF Drives, Driving
<1> QED BY <1>1, <1>2, <1>3, PricedRowNext DEF Knows

(* While there is one deposit, there is one amount. *)
LEMMA PriceNext ==
  ASSUME TypeInv, AttemptInv, TurnInv, FailureInv, PriceInv, [Next]_vars
  PROVE  PriceInv'
<1> SUFFICES ASSUME deposits' = 1 PROVE PricedRow' /\ PricedCopies' /\ PricedLedger'
  BY DEF PriceInv
<1> TypeOK BY DEF TypeInv
<1> pc \in [Procs -> Labels] /\ loc \in [Procs -> LocType] /\ row \in RowType
  BY DEF TypeOK
<1> Worker \in Procs /\ Requests \subseteq Procs BY DEF Procs
<1>1. deposits = 1
  BY OneDeposit
<1> PricedRow /\ PricedCopies /\ PricedLedger
  BY <1>1 DEF PriceInv
<1>2. PricedRow' /\ PricedLedger'
  BY <1>1, PricedRowNext, PricedLedgerNext
<1>3. ASSUME NEW p \in Procs, \A q \in Procs \ {p} : pc'[q] = pc[q] /\ loc'[q] = loc[q],
             \A q \in Procs \ {p} : ~StartSettling(q), Knows(p)'
      PROVE  PricedCopies'
  BY <1>1, <1>3, KnowsKept DEF PricedCopies, Knows
<1>4. ASSUME NEW p \in Procs, Continue(p) PROVE PricedCopies'
  <2>1. \A q \in Procs \ {p} : pc'[q] = pc[q] /\ loc'[q] = loc[q]
    BY <1>4, OthersKeep
  <2>2. \A q \in Procs \ {p} : ~StartSettling(q)
    BY <2>1 DEF StartSettling, At, Goto, AfterSettling
  <2> QED BY <1>1, <1>3, <1>4, <2>1, <2>2, KnowsContinue
<1>5. ASSUME NEW p \in Procs, \A q \in Procs \ {p} : pc'[q] = pc[q] /\ loc'[q] = loc[q],
             Knows(p)'
      PROVE  PricedCopies'
  <2>1. \A q \in Procs \ {p} : ~StartSettling(q)
    BY <1>5 DEF StartSettling, At, Goto, AfterSettling
  <2> QED BY <1>3, <1>5, <2>1
<1>6. CASE WorkerTick
  <2>1. CASE ClaimNextPendingDispatch
    <3>1. pc'[Worker] = "load" /\ row'.status = "dispatching"
      BY <2>1 DEF ClaimNextPendingDispatch, Goto, RowType
    <3>2. Knows(Worker)'
      BY <3>1 DEF Knows
    <3> QED BY <1>2, <2>1, <3>2, <1>5 DEF ClaimNextPendingDispatch, Goto, Local, At
  <2>2. ASSUME NEW n \in Attempt, ConfirmSandboxDispatch(n) PROVE PricedCopies'
    <3>1. Knows(Worker)'
      BY <2>2 DEF ConfirmSandboxDispatch, Goto, Knows
    <3> QED BY <2>2, <3>1, <1>5 DEF ConfirmSandboxDispatch, Goto, Local, At
  <2> QED BY <1>2, <1>6, <2>1, <2>2 DEF WorkerTick
<1>7. ASSUME NEW p \in Requests, Arrive(p) PROVE PricedCopies'
  <2>1. ASSUME NEW l, NEW m, Serve(p, l, m), Knows(p)' PROVE PricedCopies'
    BY <2>1, <1>5 DEF Serve, Goto, Local
  <2>2. ASSUME NEW l \in {"mark_failed", "mark_succeeded", "return", "flag", "confirm_failed",
                          "requeue", "adjust"}, NEW m, Serve(p, l, m)
        PROVE  PricedCopies'
    BY <2>1, <2>2 DEF Serve, Goto, Knows
  <2>3. ASSUME NEW n \in Attempt, HandleSettlementWebhook(p, n) PROVE PricedCopies'
    <3>1. PICK event \in Callbacks(attempts[n].provider, flight[n]) :
            Serve(p, Route(event, attempts[n].status), [Blank EXCEPT !.att = n, !.out = "failed"])
      BY <2>3 DEF HandleSettlementWebhook
    <3> QED BY <2>2, <3>1 DEF Route
  <2>4. CASE StartManualSettle(p)
    <3>1. row.pay = Rate
      BY <2>4 DEF StartManualSettle, PricedRow, Early
    <3>2. Copied(Blank).pay = row.pay
      BY DEF Copied, Blank
    <3>3. Knows(p)'
      BY <2>4, <3>1, <3>2 DEF StartManualSettle, Serve, Goto, Local, Knows
    <3> QED BY <2>1, <2>4, <3>3 DEF StartManualSettle
  <2> QED BY <1>7, <2>2, <2>3, <2>4 DEF Arrive, StartRetry, StartResolveReversal
<1>8. ASSUME NEW p \in Procs, Interrupted(p) \/ CallInterrupted(p) PROVE PricedCopies'
  <2>1. pc'[p] = "idle" /\ row' = row
    BY <1>8 DEF Interrupted, CallInterrupted, Finish
  <2> QED BY <1>8, <2>1, <1>5 DEF Interrupted, CallInterrupted, Finish, Local, Knows
<1>9. CASE UNCHANGED <<pc, loc>>
  <2>1. \A q \in Procs : ~StartSettling(q)
    BY <1>9 DEF StartSettling, At, Goto, AfterSettling
  <2> QED BY <1>1, <1>2, <1>9, <2>1, KnowsKept DEF PricedCopies, Knows
<1> QED BY <1>2, <1>4, <1>6, <1>7, <1>8, <1>9
        DEF Next, vars, HandleDepositConfirmed, PageTimedOutConfirmation, Environment,
            ProviderPays, ProviderRejects, BankReturns, FateChanges, HumanPays, LateDeposit, aside

-----------------------------------------------------------------------------
(* The claims.  One that is not reversed belongs to an attempt that may still *)
(* be paid, to the goroutine that works on it, or to a settlement that nobody *)
(* drives any more: in each case no other is made.                            *)

Out(n) == Posted(Payout(n)) /\ ~Posted(Reversal(n))
Pursues(p, n) == \/ pc[p] = "insert" /\ loc[p].cnt + 1 = n
                 \/ pc[p] \in {"reload", "reverse"} /\ loc[p].att = n
Nobody == ~Waits /\ (\A p \in Procs : ~Drives(p)) /\ (\A n \in Attempt : ~Holds(n))

ClaimedFirst ==
  /\ \A n \in Attempt : attempts[n].status \in {"dispatched"} \cup Failed => Posted(Payout(n))
  /\ \A p \in Procs : pc[p] = "insert" => Posted(Payout(loc[p].cnt + 1))
ReversedAfter == \A n \in Attempt : Posted(Reversal(n)) => Posted(Payout(n))
OutIsHeld == \A n \in Attempt : Out(n) => Holds(n) \/ Nobody \/ \E p \in Procs : Pursues(p, n)
OneOut == \A m \in Attempt : \A n \in Attempt : Out(m) /\ Out(n) => m = n
ManualIsAlone ==
  Posted(ManualPayout) \/ (\E p \in Procs : pc[p] = "manual_claim")
    => Paid /\ Posted(FxConversion) /\ \A n \in Attempt : ~Out(n)

ClaimInv ==
  deposits = 1 => ClaimedFirst /\ ReversedAfter /\ OutIsHeld /\ OneOut /\ ManualIsAlone

LEMMA ClaimInit == Init => ClaimInv
<1> SUFFICES ASSUME Init PROVE ClaimInv
  OBVIOUS
<1>1. \A p \in Procs : pc[p] = "idle"
  BY DEF Init
<1>2. \A k \in Keys : ledger[k] = 0
  BY DEF Init
<1>3. \A n \in Attempt : attempts[n].status = "none"
  BY NoAttemptYet
<1>4. ManualPayout \in Keys /\ \A n \in Attempt : Payout(n) \in Keys /\ Reversal(n) \in Keys
  BY PayableAreKeys DEF PayableKeys
<1> QED BY <1>1, <1>2, <1>3, <1>4
        DEF ClaimInv, ClaimedFirst, ReversedAfter, OutIsHeld, OneOut, ManualIsAlone, Out, Posted, Failed

(* Whoever drives has at most the claim that it is working on to answer for,   *)
(* and while the row waits there is none.                                      *)
LEMMA DriverIsPursuer ==
  ASSUME TurnInv, OutIsHeld, NEW n \in Attempt, Out(n)
  PROVE  /\ ~Waits
         /\ \A p \in Procs : Drives(p) => Pursues(p, n)
<1>1. ASSUME NEW p \in Procs, NEW m, Pursues(p, m) PROVE Drives(p)
  BY <1>1 DEF Pursues, Drives, Driving
<1> QED BY <1>1 DEF TurnInv, WaitingHasTurn, DriverHasTurn, OneDriver, OutIsHeld, Nobody

(* A claim is new only when the driver posts it. *)
LEMMA NewPayout ==
  ASSUME TypeInv, AttemptInv, NeverConfirmed, [Next]_vars, NEW n \in Attempt,
         ~Posted(Payout(n)), Posted(Payout(n))'
  PROVE  \E p \in Procs : ClaimPayout(p) /\ n = loc[p].cnt + 1
<1> TypeOK BY DEF TypeInv
<1>1. ASSUME NEW j \in Keys, NEW amount, Post(j, amount) PROVE j = Payout(n)
  BY <1>1, PostsOne, PayableAreKeys DEF Posted
<1>2. ASSUME NEW p \in Procs PROVE ~PostFxConversion(p) /\ ~ClaimManualPayout(p)
  BY <1>1, KeysApart, PayableAreKeys DEF PostFxConversion, ClaimManualPayout, PayableKeys
<1>3. ASSUME NEW p \in Procs PROVE ~ReverseAttempt(p)
  BY <1>1, KeysApart, PayableAreKeys DEF ReverseAttempt, At, AttemptInv
<1>4. PICK p \in Procs : ClaimPayout(p)
  BY <1>2, <1>3, PayableAlone, PayableAreKeys DEF Posted
<1>5. loc[p].cnt + 1 \in Attempt
  BY <1>4, NextAttempt DEF ClaimPayout, At
<1>6. CASE Post(Payout(loc[p].cnt + 1), loc[p].pay)
  BY <1>1, <1>4, <1>5, <1>6, KeysApart, PayableAreKeys
<1>7. CASE UNCHANGED ledger
  BY <1>7 DEF Posted
<1> QED BY <1>4, <1>6, <1>7 DEF ClaimPayout

(* And a reversal only when the driver posts that. *)
LEMMA NewReversal ==
  ASSUME TypeInv, AttemptInv, NeverConfirmed, [Next]_vars, NEW n \in Attempt,
         ~Posted(Reversal(n)), Posted(Reversal(n))'
  PROVE  \E p \in Procs : ReverseAttempt(p) /\ n = loc[p].att
<1> TypeOK BY DEF TypeInv
<1>1. ASSUME NEW j \in Keys, NEW amount, Post(j, amount) PROVE j = Reversal(n)
  BY <1>1, PostsOne, PayableAreKeys DEF Posted
<1>2. ASSUME NEW p \in Procs PROVE ~PostFxConversion(p) /\ ~ClaimManualPayout(p)
  BY <1>1, KeysApart, PayableAreKeys DEF PostFxConversion, ClaimManualPayout, PayableKeys
<1>3. ASSUME NEW p \in Procs PROVE ~ClaimPayout(p)
  <2> SUFFICES ASSUME ClaimPayout(p) PROVE FALSE
    OBVIOUS
  <2>1. loc[p].cnt + 1 \in Attempt
    BY NextAttempt DEF ClaimPayout, At
  <2>2. CASE Post(Payout(loc[p].cnt + 1), loc[p].pay)
    BY <1>1, <2>1, <2>2, KeysApart, PayableAreKeys
  <2>3. CASE UNCHANGED ledger
    BY <2>3 DEF Posted
  <2> QED BY <2>2, <2>3 DEF ClaimPayout
<1>4. PICK p \in Procs : ReverseAttempt(p)
  BY <1>2, <1>3, PayableAlone, PayableAreKeys DEF Posted
<1>5. loc[p].att \in Attempt
  BY <1>4 DEF ReverseAttempt, At, AttemptInv
<1> QED BY <1>1, <1>4, <1>5, KeysApart, PayableAreKeys DEF ReverseAttempt

(* A claim is out only since the driver made it. *)
LEMMA OutNext ==
  ASSUME TypeInv, AttemptInv, NeverConfirmed, [Next]_vars, NEW n \in Attempt, Out(n)', ~Out(n)
  PROVE  \E p \in Procs : ClaimPayout(p) /\ n = loc[p].cnt + 1
<1>1. ~Posted(Reversal(n))
  BY PostedStays, PayableAreKeys DEF TypeInv, Out, Posted
<1> QED BY <1>1, NewPayout DEF Out

(* An attempt has a row only after its claim. *)
LEMMA ClaimedFirstNext ==
  ASSUME TypeInv, AttemptInv, NeverConfirmed, PricedCopies, ClaimedFirst, [Next]_vars
  PROVE  ClaimedFirst'
<1> TypeOK BY DEF TypeInv
<1> pc \in [Procs -> Labels] /\ loc \in [Procs -> LocType]
  BY DEF TypeOK
<1> Worker \in Procs /\ Requests \subseteq Procs BY DEF Procs
<1>1. ASSUME NEW n \in Attempt, Posted(Payout(n)) PROVE ledger'[Payout(n)] # 0
  BY <1>1, PostedStays, PayableAreKeys DEF TypeInv, Posted
<1>2. ASSUME NEW n \in Attempt, attempts'[n].status \in {"dispatched"} \cup Failed
      PROVE  ledger'[Payout(n)] # 0
  <2>1. CASE attempts[n].status \in {"dispatched"} \cup Failed
    BY <1>1, <2>1 DEF ClaimedFirst
  <2>2. CASE attempts[n].status = "none"
    <3>1. PICK p \in Procs : Inserts(p, n)
      BY <1>2, <2>2, NewAttempt DEF PaysByHand, Failed
    <3> QED BY <1>1, <3>1 DEF Inserts, InsertAttempt, At, ClaimedFirst
  <2>3. CASE attempts[n].status = "succeeded"
    BY <1>2, <2>3, ResolvedStay DEF Failed
  <2> QED BY <2>1, <2>2, <2>3 DEF TypeOK, AttemptType, AttemptStatuses
<1>3. ASSUME NEW q \in Procs, pc'[q] = "insert", pc[q] = "insert", loc'[q] = loc[q]
      PROVE  ledger'[Payout(loc[q].cnt + 1)] # 0
  BY <1>1, <1>3, NextAttempt DEF ClaimedFirst
<1>4. ASSUME NEW p \in Procs, Continue(p), pc'[p] = "insert"
      PROVE  ledger'[Payout(loc[p].cnt + 1)] # 0 /\ loc'[p] = loc[p]
  <2>1. ClaimPayout(p)
    BY <1>4 DEF Continue, Goto, Then, Local, Finish, At,
         SessionCAS, AfterSettling, LoadSession, PostDepositConfirmed,
         PostFxConversion, StartSettling, TransitionToSettling, ChooseProvider,
         InsertAttempt, BumpAttemptCount, CallProvider,
         ClearPendingDestination, RecordDispatch, MarkFailed, Reload, ReverseAttempt,
         WakeFromBackoff, FailSettlement, ParkForManualPayout, GiveUp,
         TransitionToSettlementFailed, ReleaseReservation, MarkSucceeded,
         Settle, TransitionToSettled, ReturnPayout, TransitionToReversed,
         PostReturn, FlagDeclined, PageForDeclined, ManualSettle, ConfirmFailed,
         ReverseConfirmed, ClaimManualPayout, Requeue, RetryToSettling,
         PostManualAdjustment, CloseReversalCase, ResolveRow, TransitionToReversalResolved
  <2>2. Post(Payout(loc[p].cnt + 1), loc[p].pay) /\ loc' = loc
    BY <1>4, <2>1 DEF ClaimPayout, Then, Goto, Finish
  <2>3. loc[p].cnt + 1 \in Attempt /\ loc[p].pay = Rate
    BY <2>1, NextAttempt DEF ClaimPayout, At, PricedCopies
  <2> QED BY <2>2, <2>3, PostsOne, PayableAreKeys, RateIsPositive DEF Posted
<1>5. ASSUME NEW q \in Procs, pc'[q] = "insert" PROVE ledger'[Payout(loc'[q].cnt + 1)] # 0
  <2>1. ASSUME NEW p \in Procs, Continue(p) PROVE ledger'[Payout(loc'[q].cnt + 1)] # 0
    BY <2>1, <1>3, <1>4, <1>5, OthersKeep
  <2>2. ASSUME NEW p \in Procs, \A r \in Procs \ {p} : pc'[r] = pc[r] /\ loc'[r] = loc[r],
               pc'[p] # "insert"
        PROVE  ledger'[Payout(loc'[q].cnt + 1)] # 0
    BY <2>2, <1>3, <1>5
  <2>3. ASSUME WorkerTick PROVE ledger'[Payout(loc'[q].cnt + 1)] # 0
    BY <2>2, <2>3 DEF WorkerTick, ClaimNextPendingDispatch, ConfirmSandboxDispatch, Goto, Local
  <2>4. ASSUME NEW p \in Requests, Arrive(p) PROVE ledger'[Payout(loc'[q].cnt + 1)] # 0
    BY <2>2, <2>4 DEF Arrive, HandleSettlementWebhook, StartManualSettle, StartRetry,
                      StartResolveReversal, Serve, Goto, Local, Route
  <2>5. ASSUME NEW p \in Procs, Interrupted(p) \/ CallInterrupted(p)
        PROVE  ledger'[Payout(loc'[q].cnt + 1)] # 0
    BY <2>2, <2>5 DEF Interrupted, CallInterrupted, Finish, Local
  <2>6. ASSUME UNCHANGED <<pc, loc>> PROVE ledger'[Payout(loc'[q].cnt + 1)] # 0
    BY <2>6, <1>3, <1>5
  <2> QED BY <2>1, <2>3, <2>4, <2>5, <2>6
        DEF Next, vars, HandleDepositConfirmed, PageTimedOutConfirmation, Environment,
            ProviderPays, ProviderRejects, BankReturns, FateChanges, HumanPays, LateDeposit, aside
<1> QED BY <1>2, <1>5 DEF ClaimedFirst, Posted

(* A reversal has a claim to reverse. *)
LEMMA ReversedAfterNext ==
  ASSUME TypeInv, AttemptInv, NeverConfirmed, FailureInv, ClaimedFirst, ReversedAfter, [Next]_vars
  PROVE  ReversedAfter'
<1> SUFFICES ASSUME NEW n \in Attempt, Posted(Reversal(n))' PROVE Posted(Payout(n))'
  BY DEF ReversedAfter
<1>1. Posted(Payout(n))
  <2>1. CASE Posted(Reversal(n))
    BY <2>1 DEF ReversedAfter
  <2>2. CASE ~Posted(Reversal(n))
    BY <2>2, NewReversal DEF ReverseAttempt, At, FailureInv, ClaimedFirst
  <2> QED BY <2>1, <2>2
<1> QED BY <1>1, PostedStays, PayableAreKeys DEF TypeInv, Posted

(* A claim is made only when none stands. *)
LEMMA OneOutNext ==
  ASSUME TypeInv, AttemptInv, TurnInv, OutIsHeld, OneOut, [Next]_vars
  PROVE  OneOut'
<1> NeverConfirmed BY DEF TurnInv
<1> SUFFICES ASSUME NEW m \in Attempt, NEW n \in Attempt, Out(m)', Out(n)' PROVE m = n
  BY DEF OneOut
<1>1. ASSUME NEW k \in Attempt, Out(k), NEW p \in Procs PROVE ~ClaimPayout(p)
  BY <1>1, DriverIsPursuer DEF ClaimPayout, At, Drives, Driving, Pursues
<1>2. CASE Out(m) /\ Out(n)
  BY <1>2 DEF OneOut
<1>3. CASE ~Out(m) /\ ~Out(n)
  <2>1. PICK p \in Procs : ClaimPayout(p) /\ m = loc[p].cnt + 1
    BY <1>3, OutNext
  <2>2. PICK q \in Procs : ClaimPayout(q) /\ n = loc[q].cnt + 1
    BY <1>3, OutNext
  <2>3. p = q
    BY <2>1, <2>2 DEF ClaimPayout, At, Drives, Driving, TurnInv, OneDriver
  <2> QED BY <2>1, <2>2, <2>3
<1>4. CASE Out(m) /\ ~Out(n)
  BY <1>1, <1>4, OutNext
<1>5. CASE ~Out(m) /\ Out(n)
  BY <1>1, <1>5, OutNext
<1> QED BY <1>2, <1>3, <1>4, <1>5

(* Whatever happens to a claim that stands, no other can be made until it is    *)
(* reversed: the goroutine that works on it has the turn, its attempt holds it, *)
(* or a crash has ended it for good.                                            *)
LEMMA OutIsHeldNext ==
  ASSUME TypeInv, AttemptInv, TurnInv, PricedCopies, OutIsHeld, [Next]_vars
  PROVE  OutIsHeld'
<1> TypeOK /\ NeverConfirmed BY DEF TypeInv, TurnInv
<1> pc \in [Procs -> Labels] /\ loc \in [Procs -> LocType] /\ row \in RowType
  BY DEF TypeOK
<1> Worker \in Procs /\ Requests \subseteq Procs BY DEF Procs
<1> SUFFICES ASSUME NEW n \in Attempt, Out(n)'
             PROVE  Holds(n)' \/ Nobody' \/ \E p \in Procs : Pursues(p, n)'
  BY DEF OutIsHeld
<1> DEFINE Goal == Holds(n)' \/ Nobody' \/ \E p \in Procs : Pursues(p, n)'
<1>1. ASSUME ~Out(n) PROVE Goal
  <2>1. PICK p \in Procs : ClaimPayout(p) /\ n = loc[p].cnt + 1
    BY <1>1, OutNext
  <2>2. ~Posted(Payout(n))
    <3>1. ~Posted(Reversal(n))
      BY PostedStays, PayableAreKeys DEF TypeInv, Out, Posted
    <3> QED BY <1>1, <3>1 DEF Out
  <2>3. pc'[p] = "insert" /\ loc' = loc
    BY <2>1, <2>2 DEF ClaimPayout, Then, Goto
  <2>4. Pursues(p, n)'
    BY <2>1, <2>3 DEF Pursues
  <2> QED BY <2>4
<1>2. ASSUME Holds(n) PROVE Goal
  <2>1. CASE ~(\E p \in Procs : Continue(p))
    BY <1>2, <2>1, AttemptsAlone DEF Holds
  <2>2. ASSUME NEW p \in Procs, Continue(p), ~Holds(n)' PROVE Goal
    <3>1. Fails(p, n)
      BY <1>2, <2>2, AttemptStep
         DEF Holds, Inserts, PaysByHand, Succeeds, GivenUp, Records, Kept, NeverConfirmed
    <3>2. pc'[p] = "reload" /\ loc' = loc /\ loc[p].att = n
      BY <3>1 DEF Fails, MarkFailed, Open, Then, Goto
    <3>3. Pursues(p, n)'
      BY <3>2 DEF Pursues
    <3> QED BY <3>3
  <2> QED BY <2>1, <2>2
<1>3. ASSUME Nobody PROVE Goal
  <2>1. PICK p \in Procs : TurnStep(p)
    BY EveryTurn
  <2>2. Nobody'
    BY <1>3, <2>1 DEF Nobody, TurnStep
  <2> QED BY <2>2
<1>4. ASSUME NEW q \in Procs, Pursues(q, n) PROVE Goal
  <2>1. /\ Drives(q) /\ ~Waits /\ (\A m \in Attempt : ~Holds(m))
        /\ \A p \in Procs \ {q} : ~Drives(p)
    BY <1>4 DEF Pursues, Drives, Driving, TurnInv, DriverHasTurn, OneDriver
  <2>2. ASSUME pc'[q] = pc[q], loc'[q] = loc[q] PROVE Goal
    BY <1>4, <2>2 DEF Pursues
  <2>3. ASSUME UNCHANGED <<row, attempts>>, pc'[q] = "idle", \A p \in Procs \ {q} : pc'[p] = pc[p]
        PROVE  Goal
    <3>1. Nobody'
      BY <2>1, <2>3 DEF Nobody, Drives, Driving, Holds, Waits
    <3> QED BY <3>1
  <2>4. ASSUME Continue(q) PROVE Goal
    <3>1. CASE InsertAttempt(q)
      <4>1. loc[q].cnt + 1 = n
        BY <1>4, <3>1 DEF InsertAttempt, At, Pursues
      <4>2. CASE UNCHANGED attempts /\ Finish(q)
        BY <2>3, <3>1, <4>2 DEF InsertAttempt, Finish
      <4>3. CASE attempts[n].status = "none"
        <5>1. attempts'[n].status = "dispatched"
          <6> DEFINE new == [NoAttempt EXCEPT !.status = "dispatched", !.provider = loc[q].prov,
                                             !.dest = ResolveDestination(loc[q].dest)]
          <6>1. new.status = "dispatched"
            BY DEF NoAttempt
          <6>2. attempts' = [attempts EXCEPT ![n] = new]
            BY <3>1, <4>1, <4>3 DEF InsertAttempt, UpdateAttempt
          <6> HIDE DEF new
          <6> QED BY <6>1, <6>2 DEF TypeOK
        <5> QED BY <5>1 DEF Holds
      <4> QED BY <3>1, <4>1, <4>2, <4>3 DEF InsertAttempt
    <3>2. CASE Reload(q)
      <4>1. Copied(loc[q]).att = loc[q].att
        BY LocFields DEF Copied, LocType
      <4>2. loc'[q].att = loc[q].att /\ pc[q] = "reload" /\ pc'[q] = "reverse"
        BY <3>2, <4>1 DEF Reload, At, Goto, Local
      <4>3. Pursues(q, n)'
        BY <1>4, <4>2 DEF Pursues
      <4> QED BY <4>3
    <3>3. CASE ReverseAttempt(q)
      <4>1. loc[q].att = n /\ loc[q].pay = Rate /\ Post(Reversal(n), loc[q].pay)
        BY <1>4, <3>3 DEF ReverseAttempt, At, Pursues, PricedCopies
      <4>2. Posted(Reversal(n))'
        BY <4>1, PostsOne, PayableAreKeys, RateIsPositive DEF Posted
      <4> QED BY <4>2 DEF Out
    <3>4. pc[q] \in {"insert", "reload", "reverse"}
      BY <1>4 DEF Pursues
    <3> QED BY <2>4, <3>1, <3>2, <3>3, <3>4 DEF Continue, At,
         LoadSession, PostDepositConfirmed, PostFxConversion, StartSettling,
         TransitionToSettling, ChooseProvider, ClaimPayout,
         BumpAttemptCount, CallProvider, ClearPendingDestination, RecordDispatch, MarkFailed,
         WakeFromBackoff, FailSettlement, ParkForManualPayout,
         GiveUp, TransitionToSettlementFailed, ReleaseReservation, MarkSucceeded, Settle,
         TransitionToSettled, ReturnPayout, TransitionToReversed, PostReturn, FlagDeclined,
         PageForDeclined, ManualSettle, ClaimManualPayout, ConfirmFailed, ReverseConfirmed,
         Requeue, RetryToSettling, PostManualAdjustment, CloseReversalCase, ResolveRow,
         TransitionToReversalResolved
  <2>5. ASSUME NEW p \in Procs, Continue(p), p # q PROVE Goal
    BY <2>2, <2>5, OthersKeep
  <2>6. pc[q] # "idle"
    BY <1>4 DEF Pursues
  <2>7. ASSUME WorkerTick PROVE Goal
    <3>1. pc'[q] = pc[q] /\ loc'[q] = loc[q]
      BY <2>6, <2>7 DEF WorkerTick, ClaimNextPendingDispatch, ConfirmSandboxDispatch, At, Goto, Local
    <3> QED BY <2>2, <3>1
  <2>8. ASSUME NEW p \in Requests, Arrive(p) PROVE Goal
    <3>1. pc'[q] = pc[q] /\ loc'[q] = loc[q]
      BY <2>6, <2>8 DEF Arrive, HandleSettlementWebhook, StartManualSettle, StartRetry,
                        StartResolveReversal, Serve, At, Goto, Local
    <3> QED BY <2>2, <3>1
  <2>9. ASSUME NEW p \in Procs, Interrupted(p) \/ CallInterrupted(p) PROVE Goal
    BY <2>2, <2>3, <2>9 DEF Interrupted, CallInterrupted, Finish, Local
  <2>10. ASSUME UNCHANGED <<pc, loc>> PROVE Goal
    BY <2>2, <2>10
  <2> HIDE DEF Goal
  <2> QED BY <2>4, <2>5, <2>7, <2>8, <2>9, <2>10
        DEF Next, vars, HandleDepositConfirmed, PageTimedOutConfirmation, Environment,
            ProviderPays, ProviderRejects, BankReturns, FateChanges, HumanPays, LateDeposit, aside
<1> QED BY <1>1, <1>2, <1>3, <1>4 DEF OutIsHeld

(* A payout made by hand is claimed when no other claim stands, and for good. *)
LEMMA ManualIsAloneNext ==
  ASSUME TypeInv, AttemptInv, TurnInv, PricedRow, PricedCopies, OutIsHeld, ManualIsAlone,
         PaidFirst', [Next]_vars
  PROVE  ManualIsAlone'
<1> TypeOK /\ NeverConfirmed BY DEF TypeInv, TurnInv
<1> pc \in [Procs -> Labels] /\ loc \in [Procs -> LocType] /\ row \in RowType
  BY DEF TypeOK
<1> Worker \in Procs /\ Requests \subseteq Procs BY DEF Procs
<1> DEFINE Before == Posted(ManualPayout) \/ \E p \in Procs : pc[p] = "manual_claim"
           Alone == Paid' /\ ledger'[FxConversion] # 0 /\ \A n \in Attempt : ~Out(n)'
<1>1. ASSUME Before PROVE Alone
  <2>1. Paid /\ Posted(FxConversion) /\ \A n \in Attempt : ~Out(n)
    BY <1>1 DEF ManualIsAlone
  <2>2. ledger'[FxConversion] # 0
    BY <2>1, PostedStays DEF PayableKeys, TypeInv, Posted
  <2>3. \A p \in Procs : ~Drives(p)
    BY <2>1 DEF Paid, Holds, TurnInv, DriverHasTurn
  <2>4. \A n \in Attempt : ~Out(n)'
    BY <2>1, <2>3, OutNext DEF ClaimPayout, At, Drives, Driving
  <2> QED BY <2>1, <2>2, <2>4, PaidStays
<1>2. ASSUME NEW p \in Procs, pc'[p] = "manual_claim", pc[p] # "manual_claim" PROVE Alone
  <2>1. ManualSettle(p)
    <3>1. ASSUME NEW q \in Procs, Continue(q) PROVE q = p /\ ManualSettle(p)
      <4>1. q = p
        BY <1>2, <3>1, OthersKeep
      <4> QED BY <1>2, <3>1, <4>1 DEF Continue, Goto, Then, Local, Finish, At,
         SessionCAS, AfterSettling, LoadSession, PostDepositConfirmed,
         PostFxConversion, StartSettling, TransitionToSettling, ChooseProvider,
         ClaimPayout, InsertAttempt, BumpAttemptCount, CallProvider,
         ClearPendingDestination, RecordDispatch, MarkFailed, Reload, ReverseAttempt,
         WakeFromBackoff, FailSettlement, ParkForManualPayout, GiveUp,
         TransitionToSettlementFailed, ReleaseReservation, MarkSucceeded,
         Settle, TransitionToSettled, ReturnPayout, TransitionToReversed,
         PostReturn, FlagDeclined, PageForDeclined, ConfirmFailed,
         ReverseConfirmed, ClaimManualPayout, Requeue, RetryToSettling,
         PostManualAdjustment, CloseReversalCase, ResolveRow, TransitionToReversalResolved
    <3>2. ASSUME NEW q \in Requests, Arrive(q) PROVE pc'[p] # "manual_claim"
      BY <1>2, <3>2 DEF Arrive, HandleSettlementWebhook, StartManualSettle, StartRetry,
                        StartResolveReversal, Serve, Goto, Route
    <3> QED BY <1>2, <3>1, <3>2
        DEF Next, vars, WorkerTick, ClaimNextPendingDispatch, ConfirmSandboxDispatch, Goto,
            Interrupted, CallInterrupted, Finish,
            HandleDepositConfirmed, PageTimedOutConfirmation, Environment,
            ProviderPays, ProviderRejects, BankReturns, FateChanges, HumanPays, LateDeposit, aside
  <2>2. row.status = "awaiting_manual_payout" /\ UNCHANGED ledger /\ pc[p] = "manual"
    BY <1>2, <2>1 DEF ManualSettle, At, Finish
  <2>3. \A n \in Attempt : ~Out(n)
    BY <2>2, DriverIsPursuer DEF Waits
  <2>4. ledger[FxConversion] = Rate
    BY <2>2 DEF PricedCopies, PricedRow
  <2>5. Paid'
    BY <1>2 DEF PaidFirst
  <2> QED BY <2>2, <2>3, <2>4, <2>5, RateIsPositive DEF Out, Posted
<1>3. ASSUME ~Posted(ManualPayout), ledger'[ManualPayout] # 0 PROVE Before
  <2>1. ASSUME NEW j \in Keys, NEW amount, Post(j, amount), j # ManualPayout PROVE FALSE
    BY <1>3, <2>1, PostsOne DEF Posted, Keys
  <2>2. ASSUME NEW p \in Procs PROVE ~PostFxConversion(p)
    BY <2>1 DEF PostFxConversion, FxConversion, ManualPayout, Keys
  <2>3. ASSUME NEW p \in Procs PROVE ~ReverseAttempt(p)
    BY <2>1, KeysApart, PayableAreKeys DEF ReverseAttempt, At, AttemptInv
  <2>4. ASSUME NEW p \in Procs PROVE ~ClaimPayout(p)
    <3> SUFFICES ASSUME ClaimPayout(p) PROVE FALSE
      OBVIOUS
    <3>1. loc[p].cnt + 1 \in Attempt
      BY NextAttempt DEF ClaimPayout, At
    <3>2. CASE Post(Payout(loc[p].cnt + 1), loc[p].pay)
      BY <2>1, <3>1, <3>2, KeysApart, PayableAreKeys
    <3>3. CASE UNCHANGED ledger
      BY <1>3, <3>3 DEF Posted
    <3> QED BY <3>2, <3>3 DEF ClaimPayout
  <2>5. PICK p \in Procs : ClaimManualPayout(p)
    BY <1>3, <2>2, <2>3, <2>4, PayableAlone DEF PayableKeys, Posted
  <2> QED BY <2>5 DEF ClaimManualPayout, At
<1>4. ASSUME ledger'[ManualPayout] # 0 \/ \E p \in Procs : pc'[p] = "manual_claim" PROVE Alone
  <2>1. CASE Before
    BY <1>1, <2>1
  <2>2. CASE ~Before
    <3>1. ledger'[ManualPayout] = 0
      BY <1>3, <2>2
    <3>2. PICK p \in Procs : pc'[p] = "manual_claim"
      BY <1>4, <3>1
    <3> QED BY <1>2, <2>2, <3>2
  <2> QED BY <2>1, <2>2
<1> QED BY <1>4 DEF ManualIsAlone, Posted

AccountInv == /\ TypeInv /\ AttemptInv /\ TurnInv /\ LifeInv /\ FailureInv
              /\ PriceInv /\ ClaimInv

(* Amount and claims together are inductive. *)
LEMMA AccountNext == ASSUME ~OpsConfirm, AccountInv, [Next]_vars PROVE AccountInv'
<1>1. (TypeInv /\ AttemptInv /\ TurnInv /\ LifeInv /\ FailureInv /\ PriceInv)'
  BY TypeNext, AttemptNext, TurnAlways, LifeNext, FailureNext, PriceNext DEF AccountInv
<1>2. ClaimInv'
  <2> SUFFICES ASSUME deposits' = 1
               PROVE  (ClaimedFirst /\ ReversedAfter /\ OutIsHeld /\ OneOut /\ ManualIsAlone)'
    BY DEF ClaimInv
  <2>1. deposits = 1
    BY OneDeposit DEF AccountInv, TypeInv
  <2>2. /\ PricedRow /\ PricedCopies
        /\ ClaimedFirst /\ ReversedAfter /\ OutIsHeld /\ OneOut /\ ManualIsAlone
    BY <2>1 DEF AccountInv, PriceInv, ClaimInv
  <2>3. NeverConfirmed /\ PaidFirst'
    BY <1>1 DEF AccountInv, TurnInv, LifeInv
  <2> QED BY <2>2, <2>3, ClaimedFirstNext, ReversedAfterNext, OutIsHeldNext, OneOutNext,
             ManualIsAloneNext DEF AccountInv
<1> QED BY <1>1, <1>2 DEF AccountInv

(* What the claims have taken is one payout at most. *)
LEMMA OneClaimAtMost ==
  ASSUME TypeOK, PricedLedger, ReversedAfter, OneOut
  PROVE  \/ SumFunctionOnSet(Claims, Attempt) = 0 /\ \A n \in Attempt : ~Out(n)
         \/ SumFunctionOnSet(Claims, Attempt) = -Rate /\ \E n \in Attempt : Out(n)
<1>1. IsFiniteSet(Attempt)
  BY FS_Interval, SettlementAssumption DEF Attempt
<1>2. ASSUME NEW n \in Attempt
      PROVE  Claims[n] = IF Out(n) THEN -Rate ELSE 0
  <2>1. ledger[Payout(n)] \in {0, Rate} /\ ledger[Reversal(n)] \in {0, Rate}
    BY DEF PricedLedger
  <2>2. Claims[n] = ledger[Reversal(n)] - ledger[Payout(n)]
    BY DEF Claims, Claim, Payout, Reversal
  <2>3. ledger[Reversal(n)] # 0 => ledger[Payout(n)] # 0
    BY DEF ReversedAfter, Posted
  <2> QED BY <2>1, <2>2, <2>3, RateIsPositive DEF Out, Posted
<1>3. CASE \E n \in Attempt : Out(n)
  <2>1. PICK a \in Attempt : Out(a)
    BY <1>3
  <2>2. Claims[a] = -Rate /\ -Rate \in Int /\ \A n \in Attempt : n = a \/ Claims[n] = 0
    BY <1>2, <2>1, RateIsPositive DEF OneOut
  <2>3. SumFunctionOnSet(Claims, Attempt) = -Rate
    BY <1>1, <2>2, SumOfOne
  <2> QED BY <2>1, <2>3
<1>4. CASE \A n \in Attempt : ~Out(n)
  <2>1. \A n \in Attempt : Claims[n] = 0
    BY <1>2, <1>4
  <2>2. 1 \in Attempt
    BY SettlementAssumption DEF Attempt
  <2>3. SumFunctionOnSet(Claims, Attempt) = 0
    BY <1>1, <2>1, <2>2, SumOfOne
  <2> QED BY <1>4, <2>3
<1> QED BY <1>3, <1>4

(* tenant_payable is never debited for more than the deposit has credited:     *)
(* dispatch.go credits before it claims, reverses a failed claim before the    *)
(* next one, and a payout made by hand is claimed when no other stands.  Once  *)
(* a later deposit has been confirmed this is no longer so: a retry pays it    *)
(* out without a credit.                                                       *)
THEOREM NeverOverdrawn ==
  ASSUME ~OpsConfirm
  PROVE  Spec => [](deposits = 1 => PayableNeverOverdrawn)
<1>1. Init => AccountInv
  BY TypeInit, AttemptInit, TurnInit, LifeInit, ReversalInit, PriceInit, ClaimInit
     DEF AccountInv, ReversalInv
<1>2. AccountInv /\ [Next]_vars => AccountInv'
  BY AccountNext
<1>3. AccountInv => (deposits = 1 => PayableNeverOverdrawn)
  <2> SUFFICES ASSUME AccountInv, deposits = 1 PROVE Owed >= 0
    BY DEF PayableNeverOverdrawn
  <2>1. PricedRow /\ PricedLedger /\ ReversedAfter /\ OneOut /\ ManualIsAlone /\ TypeOK
    BY DEF AccountInv, PriceInv, ClaimInv, TypeInv
  <2> DEFINE sum == SumFunctionOnSet(Claims, Attempt)
             fx == ledger[FxConversion]
             back == ledger[Return]
             hand == ledger[ManualPayout]
  <2>2. Owed = fx + back - hand + sum
    BY OwedIs
  <2>3. fx \in {0, Rate} /\ hand \in {0, Rate} /\ back \in Nat
    BY <2>1, PayableAreKeys DEF PricedLedger, TypeOK
  <2>4. hand # 0 => fx # 0 /\ \A n \in Attempt : ~Out(n)
    BY <2>1 DEF ManualIsAlone, Posted
  <2>5. (\E n \in Attempt : Out(n)) => fx = Rate
    BY <2>1 DEF PricedRow, Out
  <2>6. \/ sum = 0
        \/ sum = -Rate /\ hand = 0 /\ fx = Rate
    BY <2>1, <2>4, <2>5, OneClaimAtMost
  <2> HIDE DEF sum, fx, back, hand
  <2> QED BY <2>2, <2>3, <2>4, <2>6, RateIsPositive
<1> QED BY <1>1, <1>2, <1>3, PTL DEF Spec

-----------------------------------------------------------------------------
(* Session and settlement agree until something parts them.  What can: a retry *)
(* or a return that overtakes the statements of another handler, and a handler *)
(* cut short between the settlement's statement and the session's.  Until      *)
(* then, only the worker acts before the session is settling, and whoever has  *)
(* moved the settlement on is about to move the session.                       *)

Opening == {"load", "post_deposit", "post_fx", "start_settling", "session_settling"}
Settles(p) == pc[p] \in {"session_settled", "manual_claim"}
Undisturbed == retries = 0 /\ faults = 0 /\ reversalCase = "none"

NotBegun ==
  /\ \A n \in Attempt : attempts[n].status = "none" /\ ~attempts[n].ref
  /\ \A q \in Requests : pc[q] = "idle"
  /\ ~row.paged
  /\ \/ row.status \in {"none", "pending_dispatch"} /\ pc[Worker] = "idle"
     \/ row.status = "dispatching" /\ pc[Worker] \in Opening \ {"session_settling"}
     \/ row.status = "settling" /\ pc[Worker] = "session_settling"
  /\ pc[Worker] \in Opening \ {"load"} => loc[Worker].sess = "deposit_confirmed"

NeverAt == Opening \cup {"session_retry", "session_reversed", "session_resolved", "row_resolved"}
Begun ==
  /\ \A p \in Procs : pc[p] \notin NeverAt
  /\ \A p \in Procs : Settles(p) => row.status = "settled"
  /\ \A p \in Procs : pc[p] = "session_failed" => row.status = "settlement_failed"
  /\ \/ session = "settling" /\ row.status \in {"settling", "awaiting_manual_payout"}
     \/ session = "settling" /\ row.status = "settled" /\ \E p \in Procs : Settles(p)
     \/ /\ session = "settling" /\ row.status = "settlement_failed"
        /\ \E p \in Procs : pc[p] = "session_failed"
     \/ session = row.status /\ session \in {"settled", "settlement_failed"}

AgreeInv == Undisturbed => IF session = "deposit_confirmed" THEN NotBegun ELSE Begun

LEMMA AgreeInit == Init => AgreeInv
<1> SUFFICES ASSUME Init PROVE NotBegun /\ session = "deposit_confirmed"
  BY DEF AgreeInv
<1>1. \A p \in Procs : pc[p] = "idle"
  BY DEF Init
<1>2. pc[Worker] = "idle" /\ \A q \in Requests : pc[q] = "idle"
  BY <1>1 DEF Procs
<1>3. \A n \in Attempt : attempts[n].status = "none" /\ ~attempts[n].ref
  BY NoAttemptYet
<1> QED BY <1>2, <1>3 DEF Init, NotBegun, Opening

(* A retry, a fault or a return is not forgotten, and a step that is none of   *)
(* them leaves the way to a return closed.                                     *)
LEMMA DisturbedStays ==
  ASSUME TypeOK, [Next]_vars, Undisturbed'
  PROVE  /\ Undisturbed
         /\ \A p \in Procs : ~Interrupted(p) /\ ~CallInterrupted(p)
<1> retries \in Nat /\ faults \in Nat
  BY SettlementAssumption DEF TypeOK
<1>1. ASSUME NEW p \in Procs, Continue(p) PROVE Undisturbed
  <2>1. CASE Requeue(p)
    <3>1. UNCHANGED <<faults, reversalCase>> /\ (retries' = retries \/ retries' = retries + 1)
      BY <2>1 DEF Requeue
    <3> QED BY <3>1 DEF Undisturbed
  <2>2. CASE ReturnPayout(p)
    BY <2>2 DEF ReturnPayout, bounds, Undisturbed
  <2>3. CASE CloseReversalCase(p)
    <3>1. UNCHANGED <<retries, faults>> /\ (reversalCase' = reversalCase \/ reversalCase' = "resolved")
      BY <2>3 DEF CloseReversalCase, bounds
    <3> QED BY <3>1 DEF Undisturbed
  <2>4. CASE UNCHANGED <<retries, faults, reversalCase>>
    BY <2>4 DEF Undisturbed
  <2> QED BY <1>1, <2>1, <2>2, <2>3, <2>4 DEF Continue, aside, bounds,
         LoadSession, PostDepositConfirmed, PostFxConversion,
         StartSettling, TransitionToSettling, ChooseProvider, ClaimPayout, InsertAttempt,
         BumpAttemptCount, CallProvider, ClearPendingDestination, RecordDispatch, MarkFailed,
         Reload, ReverseAttempt, WakeFromBackoff, FailSettlement, ParkForManualPayout,
         GiveUp, TransitionToSettlementFailed, ReleaseReservation, MarkSucceeded, Settle,
         TransitionToSettled, TransitionToReversed, PostReturn, FlagDeclined,
         PageForDeclined, ManualSettle, ClaimManualPayout, ConfirmFailed, ReverseConfirmed,
         RetryToSettling, PostManualAdjustment, ResolveRow, TransitionToReversalResolved
<1>2. ASSUME NEW p \in Procs PROVE ~Interrupted(p) /\ ~CallInterrupted(p)
  BY DEF Interrupted, CallInterrupted, Undisturbed
<1>3. CASE ~(\E p \in Procs : Continue(p))
  BY <1>2, <1>3 DEF Next, vars, aside, bounds, Undisturbed, HandleDepositConfirmed, WorkerTick,
       ClaimNextPendingDispatch, ConfirmSandboxDispatch, PageTimedOutConfirmation, Arrive, Serve,
       HandleSettlementWebhook, StartManualSettle, StartRetry, StartResolveReversal,
       Environment, ProviderPays, ProviderRejects, BankReturns, FateChanges, HumanPays, LateDeposit
<1> QED BY <1>1, <1>2, <1>3

(* Before the session is settling: the event, then the worker's chain.         *)
LEMMA NotBegunNext ==
  ASSUME TypeInv, NotBegun, session = "deposit_confirmed", Undisturbed, Undisturbed',
         [Next]_vars
  PROVE  IF session' = "deposit_confirmed" THEN NotBegun' ELSE Begun'
<1> TypeOK BY DEF TypeInv
<1> /\ row \in RowType /\ pc \in [Procs -> Labels] /\ loc \in [Procs -> LocType]
    /\ Worker \in Procs /\ loc[Worker] \in LocType
  BY DEF TypeOK, Procs
<1> Worker \notin Requests
  BY SettlementAssumption
<1> DEFINE Untouched == /\ UNCHANGED <<attempts, session>> /\ row'.paged = row.paged
                        /\ \A q \in Requests : pc'[q] = pc[q]
<1>1. ASSUME NEW p \in Procs, Continue(p) PROVE p = Worker /\ pc[Worker] \in Opening
  <2>1. pc[p] # "idle"
    BY <1>1 DEF At, Continue,
         LoadSession, PostDepositConfirmed, PostFxConversion,
         StartSettling, TransitionToSettling, ChooseProvider, ClaimPayout, InsertAttempt,
         BumpAttemptCount, CallProvider, ClearPendingDestination, RecordDispatch, MarkFailed,
         Reload, ReverseAttempt, WakeFromBackoff, FailSettlement, ParkForManualPayout,
         GiveUp, TransitionToSettlementFailed, ReleaseReservation, MarkSucceeded, Settle,
         TransitionToSettled, ReturnPayout, TransitionToReversed, PostReturn, FlagDeclined,
         PageForDeclined, ManualSettle, ClaimManualPayout, ConfirmFailed, ReverseConfirmed,
         Requeue, RetryToSettling, PostManualAdjustment, CloseReversalCase, ResolveRow,
         TransitionToReversalResolved
  <2> QED BY <2>1 DEF NotBegun, Procs, Opening
<1>2. ASSUME Continue(Worker)
      PROVE  \/ LoadSession(Worker) \/ PostDepositConfirmed(Worker)
             \/ PostFxConversion(Worker) \/ StartSettling(Worker)
             \/ TransitionToSettling(Worker)
  BY <1>1, <1>2 DEF Opening, At, Continue,
         ChooseProvider, ClaimPayout, InsertAttempt,
         BumpAttemptCount, CallProvider, ClearPendingDestination, RecordDispatch, MarkFailed,
         Reload, ReverseAttempt, WakeFromBackoff, FailSettlement, ParkForManualPayout,
         GiveUp, TransitionToSettlementFailed, ReleaseReservation, MarkSucceeded, Settle,
         TransitionToSettled, ReturnPayout, TransitionToReversed, PostReturn, FlagDeclined,
         PageForDeclined, ManualSettle, ClaimManualPayout, ConfirmFailed, ReverseConfirmed,
         Requeue, RetryToSettling, PostManualAdjustment, CloseReversalCase, ResolveRow,
         TransitionToReversalResolved
<1>3. ASSUME Continue(Worker) PROVE \A q \in Requests : pc'[q] = pc[q]
  BY <1>3, OthersKeep DEF Procs
<1>4. ASSUME Untouched,
             \/ row'.status \in {"none", "pending_dispatch"} /\ pc'[Worker] = "idle"
             \/ row'.status = "dispatching" /\ pc'[Worker] \in Opening \ {"session_settling"}
             \/ row'.status = "settling" /\ pc'[Worker] = "session_settling",
             pc'[Worker] \in Opening \ {"load"} => loc'[Worker].sess = "deposit_confirmed"
      PROVE  session' = "deposit_confirmed" /\ NotBegun'
  BY <1>4 DEF NotBegun
<1>5. ASSUME LoadSession(Worker) PROVE session' = "deposit_confirmed" /\ NotBegun'
  <2>1. loc'[Worker].sess = "deposit_confirmed"
    BY <1>5 DEF LoadSession, Local, LocType
  <2>2. pc'[Worker] = "post_deposit" /\ row.status = "dispatching"
    BY <1>5 DEF LoadSession, Goto, At, NotBegun, Opening
  <2>3. Continue(Worker)
    BY <1>5 DEF Continue
  <2> QED BY <1>3, <1>4, <1>5, <2>1, <2>2, <2>3 DEF LoadSession, Opening
<1>6. ASSUME PostDepositConfirmed(Worker) \/ PostFxConversion(Worker)
      PROVE  session' = "deposit_confirmed" /\ NotBegun'
  <2>1. /\ UNCHANGED <<row, attempts, session, loc>> /\ row.status = "dispatching"
        /\ pc'[Worker] \in {"post_fx", "start_settling"}
        /\ loc[Worker].sess = "deposit_confirmed"
    BY <1>6 DEF PostDepositConfirmed, PostFxConversion, Then, Goto, At, NotBegun, Opening
  <2>2. Continue(Worker)
    BY <1>6 DEF Continue
  <2> QED BY <1>3, <1>4, <2>1, <2>2 DEF Opening
<1>7. ASSUME StartSettling(Worker) PROVE session' = "deposit_confirmed" /\ NotBegun'
  <2>1. row.status = "dispatching" /\ loc[Worker].sess = "deposit_confirmed"
    BY <1>7 DEF StartSettling, At, NotBegun, Opening
  <2>2. /\ pc'[Worker] = "session_settling" /\ row'.status = "settling"
        /\ row'.paged = row.paged
    BY <1>7, <2>1 DEF StartSettling, Goto, AfterSettling, RowType
  <2>3. loc'[Worker].sess = "deposit_confirmed"
    BY <1>7, <2>1 DEF StartSettling, Local, LocType
  <2>4. Continue(Worker)
    BY <1>7 DEF Continue
  <2> QED BY <1>3, <1>4, <1>7, <2>2, <2>3, <2>4 DEF StartSettling, Opening
<1>8. ASSUME TransitionToSettling(Worker) PROVE session' # "deposit_confirmed" /\ Begun'
  <2>1. row.status = "settling" /\ row' = row /\ session' = "settling" /\ pc'[Worker] = "select"
    BY <1>8 DEF TransitionToSettling, SessionCAS, Then, Goto, At, NotBegun, Opening
  <2>2. Continue(Worker)
    BY <1>8 DEF Continue
  <2>3. \A q \in Procs \ {Worker} : pc'[q] = "idle"
    BY <1>3, <2>2 DEF NotBegun, Procs
  <2> QED BY <2>1, <2>3 DEF Begun, NeverAt, Opening, Settles
<1>9. CASE \E p \in Procs : Continue(p)
  BY <1>1, <1>2, <1>5, <1>6, <1>7, <1>8, <1>9
<1>10. CASE HandleDepositConfirmed
  <2>1. row'.status = "pending_dispatch" /\ row'.paged = row.paged /\ pc[Worker] = "idle"
    BY <1>10 DEF HandleDepositConfirmed, RowType, NotBegun
  <2> QED BY <1>4, <1>10, <2>1 DEF HandleDepositConfirmed, Opening
<1>11. CASE ClaimNextPendingDispatch
  <2>1. row'.status = "dispatching" /\ row'.paged = row.paged /\ pc'[Worker] = "load"
    BY <1>11 DEF ClaimNextPendingDispatch, RowType, Goto
  <2>2. \A q \in Requests : pc'[q] = pc[q]
    BY <1>11 DEF ClaimNextPendingDispatch, Goto
  <2> QED BY <1>4, <1>11, <2>1, <2>2 DEF ClaimNextPendingDispatch, Opening
<1>12. ASSUME NEW n \in Attempt
       PROVE  ~ConfirmSandboxDispatch(n) /\ ~TimedOut(n) /\ ~KnownReference(n)
  BY DEF ConfirmSandboxDispatch, TimedOut, Open, KnownReference, NotBegun
<1>13. ASSUME NEW p \in Requests PROVE ~Arrive(p)
  BY <1>12 DEF Arrive, HandleSettlementWebhook, StartManualSettle, StartRetry, Retryable,
               StartResolveReversal, NotBegun, Undisturbed
<1>14. CASE UNCHANGED <<row, attempts, session, pc, loc>>
  BY <1>14 DEF NotBegun
<1>15. ASSUME NEW p \in Procs PROVE ~Interrupted(p) /\ ~CallInterrupted(p)
  BY DisturbedStays
<1>16. ~PageTimedOutConfirmation
  BY <1>12 DEF PageTimedOutConfirmation
<1>17. ASSUME \/ HumanPays \/ LateDeposit
              \/ \E n \in Attempt : ProviderPays(n) \/ ProviderRejects(n) \/ BankReturns(n)
       PROVE  UNCHANGED <<row, attempts, session, pc, loc>>
  BY <1>17 DEF ProviderPays, ProviderRejects, BankReturns, FateChanges, HumanPays, LateDeposit
<1>18. \/ \E p \in Procs : Continue(p)
       \/ HandleDepositConfirmed \/ ClaimNextPendingDispatch
       \/ UNCHANGED <<row, attempts, session, pc, loc>>
  BY <1>12, <1>13, <1>15, <1>16, <1>17 DEF Next, WorkerTick, Environment, vars
<1> QED BY <1>9, <1>10, <1>11, <1>14, <1>18

(* From then on: whoever moves the settlement goes on to move the session.     *)
LEMMA BegunNext ==
  ASSUME TypeInv, Begun, session # "deposit_confirmed", Undisturbed, Undisturbed',
         [Next]_vars
  PROVE  session' # "deposit_confirmed" /\ Begun'
<1> TypeOK BY DEF TypeInv
<1> /\ row \in RowType /\ pc \in [Procs -> Labels] /\ loc \in [Procs -> LocType]
    /\ Worker \in Procs /\ Requests \subseteq Procs
  BY DEF TypeOK, Procs
<1>1. ASSUME NEW p \in Procs, \A q \in Procs \ {p} : pc'[q] = pc[q],
             pc'[p] \notin NeverAt \cup {"session_settled", "manual_claim", "session_failed"},
             pc[p] \notin {"session_settled", "manual_claim", "session_failed"},
             row'.status = row.status, session' = session
      PROVE  session' # "deposit_confirmed" /\ Begun'
  BY <1>1 DEF Begun, Settles
<1>2. ASSUME NEW p \in Procs, Continue(p) PROVE session' # "deposit_confirmed" /\ Begun'
  <2>0. \A q \in Procs \ {p} : pc'[q] = pc[q]
    BY <1>2, OthersKeep
  <2> DEFINE Moved(from, to, l) == /\ row.status = from /\ row'.status = to /\ session' = session
                                   /\ pc'[p] = l
             Stays == row' = row /\ session' = session /\ pc'[p] = "idle"
  <2>1. CASE Settle(p)
    <3>1. Moved("settling", "settled", "session_settled") \/ Stays
      BY <2>1 DEF Settle, Then, Goto, Finish, RowType
    <3>2. pc[p] = "settle"
      BY <2>1 DEF Settle, At
    <3> QED BY <1>1, <2>0, <3>1, <3>2 DEF Begun, Settles, NeverAt, Opening
  <2>2. CASE ManualSettle(p)
    <3>1. Moved("awaiting_manual_payout", "settled", "manual_claim") \/ Stays
      BY <2>2 DEF ManualSettle, Then, Goto, Finish, RowType
    <3>2. pc[p] = "manual"
      BY <2>2 DEF ManualSettle, At
    <3> QED BY <1>1, <2>0, <3>1, <3>2 DEF Begun, Settles, NeverAt, Opening
  <2>3. CASE ClaimManualPayout(p)
    <3>1. /\ pc[p] = "manual_claim" /\ pc'[p] = "session_settled"
          /\ row' = row /\ session' = session
      BY <2>3 DEF ClaimManualPayout, At, Then, Goto
    <3> QED BY <2>0, <3>1 DEF Begun, Settles, NeverAt, Opening
  <2>4. CASE TransitionToSettled(p)
    <3>1. pc[p] = "session_settled" /\ row' = row /\ row.status = "settled"
      BY <2>4 DEF TransitionToSettled, At, Begun, Settles
    <3>2. session' = "settled" /\ pc'[p] \in {"release", "idle"}
      BY <2>4, <3>1 DEF TransitionToSettled, SessionCAS, Then, Goto, Finish, Begun
    <3> QED BY <2>0, <3>1, <3>2 DEF Begun, Settles, NeverAt, Opening
  <2>5. CASE GiveUp(p)
    <3>1. Moved("settling", "settlement_failed", "session_failed") \/ Stays
      BY <2>5 DEF GiveUp, Then, Goto, Finish, RowType
    <3>2. pc[p] = "give_up"
      BY <2>5 DEF GiveUp, At
    <3> QED BY <1>1, <2>0, <3>1, <3>2 DEF Begun, Settles, NeverAt, Opening
  <2>6. CASE TransitionToSettlementFailed(p)
    <3>1. pc[p] = "session_failed" /\ row' = row /\ row.status = "settlement_failed"
      BY <2>6 DEF TransitionToSettlementFailed, At, Begun
    <3>2. session' = "settlement_failed" /\ pc'[p] \in {"release", "idle"}
      BY <2>6, <3>1 DEF TransitionToSettlementFailed, SessionCAS, Then, Goto, Finish, Begun
    <3> QED BY <2>0, <3>1, <3>2 DEF Begun, Settles, NeverAt, Opening
  <2>7. CASE ParkForManualPayout(p)
    <3>1. /\ pc[p] = "park" /\ pc'[p] = "idle" /\ session' = session
          /\ \/ row.status = "settling" /\ row'.status = "awaiting_manual_payout"
             \/ row' = row
      BY <2>7 DEF ParkForManualPayout, At, Finish, RowType
    <3> QED BY <1>1, <2>0, <3>1 DEF Begun, Settles, NeverAt, Opening
  <2>8. CASE ReturnPayout(p) \/ Requeue(p) \/ CloseReversalCase(p)
    <3>1. /\ pc[p] \in {"return", "requeue", "close_case"} /\ Stays
      BY <2>8, SettlementAssumption DEF ReturnPayout, Requeue, CloseReversalCase, At, Finish,
         Undisturbed
    <3> QED BY <1>1, <2>0, <3>1 DEF NeverAt, Opening
  <2>9. CASE /\ row'.status = row.status /\ session' = session
             /\ pc'[p] \notin NeverAt \cup {"session_settled", "manual_claim", "session_failed"}
             /\ pc[p] \notin {"session_settled", "manual_claim", "session_failed"}
    BY <1>1, <2>0, <2>9
  <2>10. /\ ~LoadSession(p) /\ ~PostDepositConfirmed(p) /\ ~PostFxConversion(p)
         /\ ~StartSettling(p) /\ ~TransitionToSettling(p) /\ ~RetryToSettling(p)
         /\ ~TransitionToReversed(p) /\ ~ResolveRow(p) /\ ~TransitionToReversalResolved(p)
    BY DEF Begun, NeverAt, Opening, At, LoadSession, PostDepositConfirmed, PostFxConversion,
       StartSettling, TransitionToSettling, RetryToSettling, TransitionToReversed, ResolveRow,
       TransitionToReversalResolved
  <2> QED BY <1>2, <2>1, <2>2, <2>3, <2>4, <2>5, <2>6, <2>7, <2>8, <2>9, <2>10
          DEF NeverAt, Opening, Continue, At, Goto, Then, Finish, RowType, aside,
         ChooseProvider, ClaimPayout, InsertAttempt,
         BumpAttemptCount, CallProvider, ClearPendingDestination, RecordDispatch, MarkFailed,
         Reload, ReverseAttempt, WakeFromBackoff, FailSettlement,
         ReleaseReservation, MarkSucceeded,
         PostReturn, FlagDeclined,
         PageForDeclined, ConfirmFailed, ReverseConfirmed,
         PostManualAdjustment
<1>3. CASE HandleDepositConfirmed \/ ClaimNextPendingDispatch
  BY <1>3 DEF HandleDepositConfirmed, ClaimNextPendingDispatch, Begun
<1>4. ASSUME NEW n \in Attempt, ConfirmSandboxDispatch(n)
      PROVE  session' # "deposit_confirmed" /\ Begun'
  BY <1>1, <1>4 DEF ConfirmSandboxDispatch, At, Goto, NeverAt, Opening
<1>5. ASSUME NEW p \in Requests, Arrive(p) PROVE session' # "deposit_confirmed" /\ Begun'
  <2>1. ASSUME NEW l, Serve(p, l, loc'[p]),
               l \notin NeverAt \cup {"session_settled", "manual_claim", "session_failed"}
        PROVE  session' # "deposit_confirmed" /\ Begun'
    BY <1>1, <2>1 DEF Serve, At, Goto
  <2>2. \E l : Serve(p, l, loc'[p]) /\ l \in {"mark_succeeded", "flag", "return", "mark_failed",
                                              "manual", "confirm_failed", "requeue", "adjust"}
    <3>1. ASSUME NEW n \in Attempt, HandleSettlementWebhook(p, n)
          PROVE  \E l : Serve(p, l, loc'[p])
                        /\ l \in {"mark_succeeded", "flag", "return", "mark_failed"}
      BY <3>1 DEF HandleSettlementWebhook, Serve, Local, Route
    <3>2. ASSUME StartManualSettle(p) PROVE Serve(p, "manual", loc'[p])
      BY <3>2 DEF StartManualSettle, Serve, Local
    <3>3. ASSUME StartResolveReversal(p) PROVE Serve(p, "adjust", loc'[p])
      BY <3>3 DEF StartResolveReversal, Serve, Local
    <3>4. ASSUME StartRetry(p)
          PROVE  Serve(p, "confirm_failed", loc'[p]) \/ Serve(p, "requeue", loc'[p])
      BY <3>4 DEF StartRetry, Serve, Local
    <3> QED BY <1>5, <3>1, <3>2, <3>3, <3>4 DEF Arrive
  <2> QED BY <2>1, <2>2 DEF NeverAt, Opening
<1>6. CASE UNCHANGED <<session, pc>> /\ row'.status = row.status
  BY <1>6 DEF Begun, Settles
<1> QED BY <1>2, <1>3, <1>4, <1>5, <1>6, DisturbedStays
        DEF Next, vars, WorkerTick, PageTimedOutConfirmation, Environment, RowType,
            ProviderPays, ProviderRejects, BankReturns, FateChanges, HumanPays, LateDeposit

LEMMA AgreeNext == TypeInv /\ AgreeInv /\ [Next]_vars => AgreeInv'
<1> SUFFICES ASSUME TypeInv, AgreeInv, [Next]_vars, Undisturbed'
             PROVE  IF session' = "deposit_confirmed" THEN NotBegun' ELSE Begun'
  BY DEF AgreeInv
<1>1. Undisturbed
  BY DisturbedStays DEF TypeInv
<1> QED BY <1>1, NotBegunNext, BegunNext DEF AgreeInv

(* No handler running, session and settlement are in the same state, for any   *)
(* handlers, adapters, deposits and confirmations: until a retry, a crash or a *)
(* returned payout comes between a handler's two statements.                   *)
THEOREM SessionAgrees ==
  Spec => [](faults = 0 /\ reversalCase = "none" => StatusesAgree)
<1>1. Spec => [](TypeInv /\ AgreeInv)
  BY TypeInit, TypeNext, AgreeInit, AgreeNext, PTL DEF Spec
<1>2. TypeInv /\ AgreeInv => (faults = 0 /\ reversalCase = "none" => StatusesAgree)
  <2> SUFFICES ASSUME TypeInv, AgreeInv, faults = 0, reversalCase = "none", Quiet, retries = 0
               PROVE  session \in SessionsFor(row.status)
    BY DEF StatusesAgree
  <2>1. \A p \in Procs : pc[p] = "idle"
    BY DEF Quiet, At
  <2>2. CASE session = "deposit_confirmed"
    <3>1. NotBegun /\ pc[Worker] = "idle"
      BY <2>1, <2>2 DEF AgreeInv, Undisturbed, Procs
    <3> QED BY <2>2, <3>1 DEF NotBegun, Opening, SessionsFor
  <2>3. CASE session # "deposit_confirmed"
    BY <2>1, <2>3 DEF AgreeInv, Undisturbed, Begun, Settles, SessionsFor
  <2> QED BY <2>2, <2>3
<1> QED BY <1>1, <1>2, PTL

-----------------------------------------------------------------------------
(* The liability follows the row's status.  What that takes beyond the claims  *)
(* above: a settled row has a recorded success, a reversed one its case        *)
(* (CaseInv), and while no handler is cut short, no claim is orphaned between  *)
(* the ledger's statement and the attempt's (UncutInv).                        *)

CaseInv ==
  /\ row.status = "settled" => Paid
  /\ row.status \in {"reversed", "reversal_resolved"} => reversalCase # "none"
  /\ Posted(Return) => reversalCase # "none"
  /\ \A p \in Procs : pc[p] \in {"session_reversed", "post_return"} => reversalCase # "none"

FreshInsert == \A p \in Procs : pc[p] = "insert" => attempts[loc[p].cnt + 1].status = "none"
OutIsPursued == \A n \in Attempt : Out(n) => Holds(n) \/ \E p \in Procs : Pursues(p, n)
SuccessIsClaimed == \A n \in Attempt :
  attempts[n].status = "succeeded" =>
    Posted(Payout(n)) \/ Posted(ManualPayout) \/ \E p \in Procs : pc[p] = "manual_claim"
UncutInv == faults = 0 /\ deposits = 1 => FreshInsert /\ OutIsPursued /\ SuccessIsClaimed

(* Where a request or the worker's next task begins. *)
Entries == {"load", "mark_succeeded", "mark_failed", "flag", "return", "manual",
            "confirm_failed", "requeue", "adjust"}

(* Nobody moves a goroutine but itself. *)
LEMMA Movers ==
  ASSUME TypeOK, [Next]_vars, NEW q \in Procs, pc'[q] # pc[q] \/ loc'[q] # loc[q]
  PROVE  \/ Continue(q) \/ Interrupted(q) \/ CallInterrupted(q)
         \/ pc[q] = "idle" /\ pc'[q] \in Entries
<1> pc \in [Procs -> Labels] /\ loc \in [Procs -> LocType]
  BY DEF TypeOK
<1> Worker \in Procs /\ Requests \subseteq Procs BY DEF Procs
<1>1. ASSUME NEW p \in Procs, Continue(p) PROVE p = q
  BY <1>1, OthersKeep
<1>2. ASSUME NEW p \in Procs, Interrupted(p) \/ CallInterrupted(p) PROVE p = q
  BY <1>2 DEF Interrupted, CallInterrupted, Finish, Local
<1>3. ASSUME NEW p \in Requests, Arrive(p) PROVE pc[q] = "idle" /\ pc'[q] \in Entries
  <2>1. ASSUME NEW l \in Entries, NEW m, Serve(p, l, m)
        PROVE  pc[q] = "idle" /\ pc'[q] \in Entries
    BY <2>1 DEF Serve, At, Goto, Local
  <2>2. ASSUME NEW n \in Attempt, HandleSettlementWebhook(p, n)
        PROVE  \E l \in Entries : \E m : Serve(p, l, m)
    <3>1. PICK event \in Callbacks(attempts[n].provider, flight[n]) :
            Serve(p, Route(event, attempts[n].status), [Blank EXCEPT !.att = n, !.out = "failed"])
      BY <2>2 DEF HandleSettlementWebhook
    <3>2. Route(event, attempts[n].status) \in Entries
      BY DEF Route, Entries
    <3> QED BY <3>1, <3>2
  <2> QED BY <1>3, <2>1, <2>2
          DEF Arrive, StartManualSettle, StartRetry, StartResolveReversal, Entries
<1>4. ASSUME WorkerTick PROVE pc[q] = "idle" /\ pc'[q] \in Entries
  BY <1>4 DEF WorkerTick, ClaimNextPendingDispatch, ConfirmSandboxDispatch, At, Goto, Local, Entries
<1> QED BY <1>1, <1>2, <1>3, <1>4
        DEF Next, vars, HandleDepositConfirmed, PageTimedOutConfirmation, Environment,
            ProviderPays, ProviderRejects, BankReturns, FateChanges, HumanPays, LateDeposit, aside

(* A case, once opened, is never none again. *)
LEMMA CaseStays ==
  ASSUME [Next]_vars, reversalCase # "none"
  PROVE  reversalCase' # "none"
<1>1. ASSUME NEW p \in Procs, Continue(p) PROVE reversalCase' \in {reversalCase, "open", "resolved"}
  BY <1>1 DEF Continue, aside, LoadSession, PostDepositConfirmed, PostFxConversion,
         StartSettling, TransitionToSettling, ChooseProvider, ClaimPayout, InsertAttempt,
         BumpAttemptCount, CallProvider, ClearPendingDestination, RecordDispatch, MarkFailed,
         Reload, ReverseAttempt, WakeFromBackoff, FailSettlement, ParkForManualPayout,
         GiveUp, TransitionToSettlementFailed, ReleaseReservation, MarkSucceeded, Settle,
         TransitionToSettled, ReturnPayout, TransitionToReversed, PostReturn, FlagDeclined,
         PageForDeclined, ManualSettle, ClaimManualPayout, ConfirmFailed, ReverseConfirmed,
         Requeue, RetryToSettling, PostManualAdjustment, CloseReversalCase, ResolveRow,
         TransitionToReversalResolved
<1>2. CASE ~(\E p \in Procs : Continue(p))
  BY <1>2 DEF Next, vars, aside, HandleDepositConfirmed, WorkerTick,
       ClaimNextPendingDispatch, ConfirmSandboxDispatch, PageTimedOutConfirmation, Arrive, Serve,
       HandleSettlementWebhook, StartManualSettle, StartRetry, StartResolveReversal,
       Environment, ProviderPays, ProviderRejects, BankReturns, FateChanges, HumanPays, LateDeposit,
       Interrupted, CallInterrupted
<1> QED BY <1>1, <1>2

(* The statements that call a settlement settled, reversed or resolved. *)
LEMMA StatusWriters ==
  ASSUME TypeOK, [Next]_vars, row'.status # row.status,
         row'.status \in {"settled", "reversed", "reversal_resolved"}
  PROVE  \E p \in Procs : \/ Settle(p) /\ row'.status = "settled"
                          \/ ManualSettle(p) /\ row'.status = "settled" /\ pc'[p] = "manual_claim"
                          \/ ReturnPayout(p) /\ row'.status = "reversed" /\ reversalCase' = "open"
                          \/ ResolveRow(p) /\ row.status = "reversed"
<1> row \in RowType /\ pc \in [Procs -> Labels]
  BY DEF TypeOK
<1>1. ASSUME NEW p \in Procs, Continue(p)
      PROVE  \/ Settle(p) \/ ManualSettle(p) \/ ReturnPayout(p) \/ ResolveRow(p)
  <2>1. CASE Requeue(p)
    <3>1. PICK d : row' = row \/ row' = [row EXCEPT !.status = "pending_dispatch", !.paged = FALSE, !.dest = d]
      BY <2>1 DEF Requeue
    <3> QED BY <3>1 DEF RowType
  <2>2. CASE ~Requeue(p)
    BY <1>1, <2>2 DEF Continue, aside, RowType,
         LoadSession, PostDepositConfirmed, PostFxConversion,
         StartSettling, TransitionToSettling, ChooseProvider, ClaimPayout, InsertAttempt,
         BumpAttemptCount, CallProvider, ClearPendingDestination, RecordDispatch, MarkFailed,
         Reload, ReverseAttempt, WakeFromBackoff, FailSettlement, ParkForManualPayout,
         GiveUp, TransitionToSettlementFailed, ReleaseReservation, MarkSucceeded,
         TransitionToSettled, TransitionToReversed, PostReturn, FlagDeclined,
         PageForDeclined, ClaimManualPayout, ConfirmFailed, ReverseConfirmed,
         RetryToSettling, PostManualAdjustment, CloseReversalCase,
         TransitionToReversalResolved
  <2> QED BY <2>1, <2>2
<1>2. ASSUME NEW p \in Procs, Settle(p) PROVE row'.status = "settled"
  BY <1>2 DEF Settle, RowType
<1>3. ASSUME NEW p \in Procs, ManualSettle(p) PROVE row'.status = "settled" /\ pc'[p] = "manual_claim"
  BY <1>3 DEF ManualSettle, RowType, Then, Goto
<1>4. ASSUME NEW p \in Procs, ReturnPayout(p) PROVE row'.status = "reversed" /\ reversalCase' = "open"
  BY <1>4 DEF ReturnPayout, RowType
<1>5. ASSUME NEW p \in Procs, ResolveRow(p) PROVE row.status = "reversed"
  BY <1>5 DEF ResolveRow
<1>6. \E p \in Procs : Continue(p)
  BY DEF Next, vars, RowType, HandleDepositConfirmed, WorkerTick, ClaimNextPendingDispatch,
       ConfirmSandboxDispatch, PageTimedOutConfirmation, Arrive, Serve,
       HandleSettlementWebhook, StartManualSettle, StartRetry, StartResolveReversal,
       Environment, ProviderPays, ProviderRejects, BankReturns, FateChanges,
       HumanPays, LateDeposit, Interrupted, CallInterrupted
<1> QED BY <1>1, <1>2, <1>3, <1>4, <1>5, <1>6

(* Only PostReturn posts a return. *)
LEMMA NewReturn ==
  ASSUME TypeInv, AttemptInv, NeverConfirmed, [Next]_vars, ~Posted(Return), Posted(Return)'
  PROVE  \E p \in Procs : pc[p] = "post_return"
<1> TypeOK BY DEF TypeInv
<1> SUFFICES ASSUME \A p \in Procs : pc[p] # "post_return" PROVE FALSE
  OBVIOUS
<1>1. 0 \notin Attempt
  BY SettlementAssumption DEF Attempt
<1>2. ASSUME NEW j \in Keys, NEW amount, Post(j, amount) PROVE j = Return
  BY <1>2, PostsOne, PayableAreKeys DEF Posted
<1>3. \A n \in Attempt : Payout(n) # Return /\ Reversal(n) # Return
  BY <1>1 DEF Payout, Reversal, Return
<1>4. {DepositConfirmed, FxConversion, ManualPayout, Adjustment} \subseteq Keys \ {Return}
  BY DEF Keys, DepositConfirmed, FxConversion, ManualPayout, Adjustment, Return
<1>5. ASSUME NEW p \in Procs, Continue(p) PROVE UNCHANGED ledger
  <2>1. ~PostDepositConfirmed(p) /\ ~PostFxConversion(p) /\ ~ClaimManualPayout(p)
        /\ ~PostManualAdjustment(p)
    BY <1>2, <1>4 DEF PostDepositConfirmed, PostFxConversion, ClaimManualPayout, PostManualAdjustment
  <2>2. CASE ClaimPayout(p)
    <3>1. loc[p].cnt + 1 \in Attempt
      BY <2>2, NextAttempt DEF ClaimPayout, At
    <3> QED BY <2>2, <3>1, <1>2, <1>3, PayableAreKeys DEF ClaimPayout
  <2>3. ~ReverseAttempt(p)
    BY <1>2, <1>3, PayableAreKeys DEF ReverseAttempt, At, AttemptInv
  <2>4. ~ReverseConfirmed(p) /\ ~PostReturn(p)
    BY DEF ReverseConfirmed, PostReturn, At, NeverConfirmed
  <2> QED BY <1>5, <2>1, <2>2, <2>3, <2>4 DEF Continue, LoadSession,
         StartSettling, TransitionToSettling, ChooseProvider, InsertAttempt,
         BumpAttemptCount, CallProvider, ClearPendingDestination, RecordDispatch, MarkFailed,
         Reload, WakeFromBackoff, FailSettlement, ParkForManualPayout,
         GiveUp, TransitionToSettlementFailed, ReleaseReservation, MarkSucceeded, Settle,
         TransitionToSettled, ReturnPayout, TransitionToReversed, FlagDeclined,
         PageForDeclined, ManualSettle, ConfirmFailed,
         Requeue, RetryToSettling, CloseReversalCase, ResolveRow,
         TransitionToReversalResolved
<1>6. UNCHANGED ledger
  BY <1>5 DEF Next, vars, HandleDepositConfirmed, WorkerTick, ClaimNextPendingDispatch,
         ConfirmSandboxDispatch, PageTimedOutConfirmation, Arrive, Serve,
         HandleSettlementWebhook, StartManualSettle, StartRetry, StartResolveReversal,
         Environment, ProviderPays, ProviderRejects, BankReturns, FateChanges,
         HumanPays, LateDeposit, Interrupted, CallInterrupted
<1> QED BY <1>6 DEF Posted

LEMMA CaseNext ==
  ASSUME TypeInv, AttemptInv, NeverConfirmed, LifeInv, LifeInv', CaseInv, [Next]_vars
  PROVE  CaseInv'
<1> TypeOK BY DEF TypeInv
<1> pc \in [Procs -> Labels] /\ row \in RowType
  BY DEF TypeOK
<1>1. row'.status = "settled" => Paid'
  <2>1. CASE row.status = "settled"
    BY <2>1, PaidStays DEF CaseInv
  <2>2. CASE row.status # "settled" /\ row'.status = "settled"
    <3>1. PICK p \in Procs : \/ Settle(p)
                             \/ ManualSettle(p) /\ pc'[p] = "manual_claim"
                             \/ ResolveRow(p) /\ row.status = "reversed"
      BY <2>2, StatusWriters
    <3>2. CASE Settle(p)
      BY <3>2, PaidStays DEF Settle, At, LifeInv, PaidFirst
    <3>3. CASE ManualSettle(p) /\ pc'[p] = "manual_claim"
      BY <3>3 DEF LifeInv, PaidFirst
    <3>4. CASE ResolveRow(p) /\ row.status = "reversed"
      BY <2>2, <3>4 DEF ResolveRow, RowType
    <3> QED BY <3>1, <3>2, <3>3, <3>4
  <2> QED BY <2>1, <2>2
<1>2. row'.status \in {"reversed", "reversal_resolved"} => reversalCase' # "none"
  <2>1. CASE row.status \in {"reversed", "reversal_resolved"}
    BY <2>1, CaseStays DEF CaseInv
  <2>2. CASE /\ row.status \notin {"reversed", "reversal_resolved"}
             /\ row'.status \in {"reversed", "reversal_resolved"}
    BY <2>2, StatusWriters
  <2> QED BY <2>1, <2>2
<1>3. Posted(Return)' => reversalCase' # "none"
  BY NewReturn, CaseStays DEF CaseInv
<1>4. ASSUME NEW q \in Procs, pc'[q] \in {"session_reversed", "post_return"}
      PROVE  reversalCase' # "none"
  <2>1. CASE pc[q] \in {"session_reversed", "post_return"}
    BY <2>1, CaseStays DEF CaseInv
  <2>2. CASE pc[q] \notin {"session_reversed", "post_return"}
    <3>1. Continue(q)
      BY <1>4, <2>2, Movers DEF Interrupted, CallInterrupted, Finish, Entries
    <3>2. ReturnPayout(q)
      BY <1>4, <2>2, <3>1 DEF Continue, Goto, Then, Local, Finish, At,
         SessionCAS, AfterSettling, LoadSession, PostDepositConfirmed,
         PostFxConversion, StartSettling, TransitionToSettling, ChooseProvider,
         ClaimPayout, InsertAttempt, BumpAttemptCount, CallProvider,
         ClearPendingDestination, RecordDispatch, MarkFailed, Reload, ReverseAttempt,
         WakeFromBackoff, FailSettlement, ParkForManualPayout, GiveUp,
         TransitionToSettlementFailed, ReleaseReservation, MarkSucceeded,
         Settle, TransitionToSettled, TransitionToReversed,
         PostReturn, FlagDeclined, PageForDeclined, ManualSettle, ConfirmFailed,
         ReverseConfirmed, ClaimManualPayout, Requeue, RetryToSettling, PostManualAdjustment,
         CloseReversalCase, ResolveRow, TransitionToReversalResolved
    <3> QED BY <1>4, <3>2 DEF ReturnPayout, Finish
  <2> QED BY <2>1, <2>2
<1> QED BY <1>1, <1>2, <1>3, <1>4 DEF CaseInv

(* The driver inserts an attempt that nobody can have inserted before it. *)
LEMMA FreshInsertNext ==
  ASSUME TypeInv, AttemptInv, TurnInv, ClaimedFirst, FreshInsert, [Next]_vars
  PROVE  FreshInsert'
<1> TypeOK BY DEF TypeInv
<1> pc \in [Procs -> Labels] /\ loc \in [Procs -> LocType]
  BY DEF TypeOK
<1> SUFFICES ASSUME NEW q \in Procs, pc'[q] = "insert"
             PROVE  attempts'[loc'[q].cnt + 1].status = "none"
  BY DEF FreshInsert
<1> DEFINE n == loc[q].cnt + 1
<1>1. CASE pc'[q] = pc[q] /\ loc'[q] = loc[q]
  <2>1. Drives(q) /\ n \in Attempt /\ attempts[n].status = "none"
    BY <1>1, NextAttempt DEF Drives, Driving, FreshInsert
  <2>2. ASSUME NEW p \in Procs PROVE ~Inserts(p, n) /\ ~PaysByHand(p, n)
    <3>1. ~PaysByHand(p, n)
      BY <2>1 DEF PaysByHand, Waits, TurnInv, DriverHasTurn
    <3>2. Inserts(p, n) => p = q
      BY <2>1 DEF Inserts, InsertAttempt, At, Drives, Driving, TurnInv, OneDriver
    <3>3. ~InsertAttempt(q)
      BY <1>1 DEF InsertAttempt, Then, Goto, Finish
    <3> QED BY <3>1, <3>2, <3>3 DEF Inserts
  <2>3. attempts'[n].status = "none"
    BY <2>1, <2>2, NewAttempt DEF TurnInv
  <2> QED BY <1>1, <2>3
<1>2. CASE pc'[q] # pc[q] \/ loc'[q] # loc[q]
  <2>1. Continue(q)
    BY <1>2, Movers DEF Interrupted, CallInterrupted, Finish, Entries
  <2>2. ClaimPayout(q)
    BY <2>1 DEF Continue, Goto, Then, Local, Finish, At,
         SessionCAS, AfterSettling, LoadSession, PostDepositConfirmed,
         PostFxConversion, StartSettling, TransitionToSettling, ChooseProvider,
         InsertAttempt, BumpAttemptCount, CallProvider,
         ClearPendingDestination, RecordDispatch, MarkFailed, Reload, ReverseAttempt,
         WakeFromBackoff, FailSettlement, ParkForManualPayout, GiveUp,
         TransitionToSettlementFailed, ReleaseReservation, MarkSucceeded,
         Settle, TransitionToSettled, ReturnPayout, TransitionToReversed,
         PostReturn, FlagDeclined, PageForDeclined, ManualSettle, ConfirmFailed,
         ReverseConfirmed, ClaimManualPayout, Requeue, RetryToSettling, PostManualAdjustment,
         CloseReversalCase, ResolveRow, TransitionToReversalResolved
  <2>3. pc[q] = "claim" /\ ~Posted(Payout(n)) /\ loc' = loc /\ attempts' = attempts
    BY <2>2 DEF ClaimPayout, At, Then, Finish
  <2>4. n \in Attempt /\ Drives(q)
    BY <2>3, NextAttempt DEF Drives, Driving
  <2>5. attempts[n].status \notin {"dispatched", "succeeded"} \cup Failed
    BY <2>3, <2>4 DEF ClaimedFirst, TurnInv, DriverHasTurn, Holds
  <2>6. attempts[n].status \in AttemptStatuses
    BY <2>4 DEF TypeOK, AttemptType
  <2> QED BY <2>3, <2>5, <2>6 DEF AttemptStatuses
<1> QED BY <1>1, <1>2

(* A claim that stands is held or worked on: nothing comes between the claim,  *)
(* the attempt's row, its failure and its reversal but a crash.                *)
LEMMA OutIsPursuedNext ==
  ASSUME TypeInv, AttemptInv, TurnInv, PricedCopies, FreshInsert, OutIsPursued, [Next]_vars,
         \A p \in Procs : ~Interrupted(p) /\ ~CallInterrupted(p)
  PROVE  OutIsPursued'
<1> TypeOK /\ NeverConfirmed BY DEF TypeInv, TurnInv
<1> pc \in [Procs -> Labels] /\ loc \in [Procs -> LocType]
  BY DEF TypeOK
<1> SUFFICES ASSUME NEW n \in Attempt, Out(n)'
             PROVE  Holds(n)' \/ \E p \in Procs : Pursues(p, n)'
  BY DEF OutIsPursued
<1> DEFINE Goal == Holds(n)' \/ \E p \in Procs : Pursues(p, n)'
<1>1. ASSUME ~Out(n) PROVE Goal
  <2>1. PICK p \in Procs : ClaimPayout(p) /\ n = loc[p].cnt + 1
    BY <1>1, OutNext
  <2>2. ~Posted(Payout(n))
    <3>1. ~Posted(Reversal(n))
      BY PostedStays, PayableAreKeys DEF TypeInv, Out, Posted
    <3> QED BY <1>1, <3>1 DEF Out
  <2>3. pc'[p] = "insert" /\ loc' = loc
    BY <2>1, <2>2 DEF ClaimPayout, Then, Goto
  <2> QED BY <2>1, <2>3 DEF Pursues
<1>2. ASSUME Holds(n) PROVE Goal
  <2>1. CASE ~(\E p \in Procs : Continue(p))
    BY <1>2, <2>1, AttemptsAlone DEF Holds
  <2>2. ASSUME NEW p \in Procs, Continue(p), ~Holds(n)' PROVE Goal
    <3>1. Fails(p, n)
      BY <1>2, <2>2, AttemptStep
         DEF Holds, Inserts, PaysByHand, Succeeds, GivenUp, Records, Kept, NeverConfirmed
    <3>2. pc'[p] = "reload" /\ loc' = loc /\ loc[p].att = n
      BY <3>1 DEF Fails, MarkFailed, Open, Then, Goto
    <3> QED BY <3>2 DEF Pursues
  <2> QED BY <2>1, <2>2
<1>3. ASSUME NEW q \in Procs, Pursues(q, n) PROVE Goal
  <2>1. CASE pc'[q] = pc[q] /\ loc'[q] = loc[q]
    BY <1>3, <2>1 DEF Pursues
  <2>2. CASE pc'[q] # pc[q] \/ loc'[q] # loc[q]
    <3>1. Continue(q) /\ pc[q] \in {"insert", "reload", "reverse"}
      BY <1>3, <2>2, Movers DEF Pursues
    <3>2. CASE InsertAttempt(q)
      <4>1. loc[q].cnt + 1 = n /\ attempts[n].status = "none"
        BY <1>3, <3>2 DEF InsertAttempt, At, Pursues, FreshInsert
      <4> DEFINE new == [NoAttempt EXCEPT !.status = "dispatched", !.provider = loc[q].prov,
                                         !.dest = ResolveDestination(loc[q].dest)]
      <4>2. new.status = "dispatched"
        BY DEF NoAttempt
      <4>3. attempts' = [attempts EXCEPT ![n] = new]
        BY <3>2, <4>1 DEF InsertAttempt, UpdateAttempt
      <4> HIDE DEF new
      <4> QED BY <4>2, <4>3 DEF TypeOK, Holds
    <3>3. CASE Reload(q)
      <4>1. Copied(loc[q]).att = loc[q].att
        BY LocFields DEF Copied, LocType
      <4>2. loc'[q].att = loc[q].att /\ pc[q] = "reload" /\ pc'[q] = "reverse"
        BY <3>3, <4>1 DEF Reload, At, Goto, Local
      <4> QED BY <1>3, <4>2 DEF Pursues
    <3>4. CASE ReverseAttempt(q)
      <4>1. loc[q].att = n /\ loc[q].pay = Rate /\ Post(Reversal(n), loc[q].pay)
        BY <1>3, <3>4 DEF ReverseAttempt, At, Pursues, PricedCopies
      <4>2. Posted(Reversal(n))'
        BY <4>1, PostsOne, PayableAreKeys, RateIsPositive DEF Posted
      <4> QED BY <4>2 DEF Out
    <3> QED BY <3>1, <3>2, <3>3, <3>4 DEF Continue, At,
         LoadSession, PostDepositConfirmed, PostFxConversion, StartSettling,
         TransitionToSettling, ChooseProvider, ClaimPayout,
         BumpAttemptCount, CallProvider, ClearPendingDestination, RecordDispatch, MarkFailed,
         WakeFromBackoff, FailSettlement, ParkForManualPayout,
         GiveUp, TransitionToSettlementFailed, ReleaseReservation, MarkSucceeded, Settle,
         TransitionToSettled, ReturnPayout, TransitionToReversed, PostReturn, FlagDeclined,
         PageForDeclined, ManualSettle, ClaimManualPayout, ConfirmFailed, ReverseConfirmed,
         Requeue, RetryToSettling, PostManualAdjustment, CloseReversalCase, ResolveRow,
         TransitionToReversalResolved
  <2> QED BY <2>1, <2>2
<1> QED BY <1>1, <1>2, <1>3 DEF OutIsPursued

(* A success is claimed: an attempt before its call, a payout by hand after. *)
LEMMA SuccessIsClaimedNext ==
  ASSUME TypeInv, AttemptInv, TurnInv, PricedCopies, ClaimedFirst, SuccessIsClaimed, [Next]_vars,
         \A p \in Procs : ~Interrupted(p) /\ ~CallInterrupted(p)
  PROVE  SuccessIsClaimed'
<1> TypeOK /\ NeverConfirmed BY DEF TypeInv, TurnInv
<1> pc \in [Procs -> Labels] /\ loc \in [Procs -> LocType]
  BY DEF TypeOK
<1> SUFFICES ASSUME NEW n \in Attempt, attempts'[n].status = "succeeded"
             PROVE  \/ Posted(Payout(n))' \/ Posted(ManualPayout)'
                    \/ \E p \in Procs : pc'[p] = "manual_claim"
  BY DEF SuccessIsClaimed
<1> DEFINE Goal == \/ Posted(Payout(n))' \/ Posted(ManualPayout)'
                   \/ \E p \in Procs : pc'[p] = "manual_claim"
<1>1. ASSUME Posted(Payout(n)) \/ Posted(ManualPayout) PROVE Goal
  BY <1>1, PostedStays, PayableAreKeys DEF TypeInv, PayableKeys, Posted
<1>2. ASSUME NEW q \in Procs, pc[q] = "manual_claim", ~Posted(ManualPayout) PROVE Goal
  <2>1. CASE pc'[q] = pc[q] /\ loc'[q] = loc[q]
    BY <1>2, <2>1
  <2>2. CASE pc'[q] # pc[q] \/ loc'[q] # loc[q]
    <3>1. Continue(q)
      BY <1>2, <2>2, Movers
    <3>2. ClaimManualPayout(q)
      BY <1>2, <3>1 DEF Continue, At,
         LoadSession, PostDepositConfirmed, PostFxConversion, StartSettling,
         TransitionToSettling, ChooseProvider, ClaimPayout, InsertAttempt,
         BumpAttemptCount, CallProvider, ClearPendingDestination, RecordDispatch, MarkFailed,
         Reload, ReverseAttempt, WakeFromBackoff, FailSettlement, ParkForManualPayout,
         GiveUp, TransitionToSettlementFailed, ReleaseReservation, MarkSucceeded, Settle,
         TransitionToSettled, ReturnPayout, TransitionToReversed, PostReturn, FlagDeclined,
         PageForDeclined, ManualSettle, ConfirmFailed, ReverseConfirmed,
         Requeue, RetryToSettling, PostManualAdjustment, CloseReversalCase, ResolveRow,
         TransitionToReversalResolved
    <3>3. Post(ManualPayout, loc[q].pay) /\ loc[q].pay = Rate
      BY <1>2, <3>2 DEF ClaimManualPayout, PricedCopies
    <3>4. Posted(ManualPayout)'
      BY <1>2, <3>3, PostsOne, PayableAreKeys, RateIsPositive DEF PayableKeys, Posted
    <3> QED BY <3>4
  <2> QED BY <2>1, <2>2
<1>3. CASE attempts[n].status = "succeeded"
  BY <1>1, <1>2, <1>3 DEF SuccessIsClaimed
<1>4. CASE attempts[n].status # "succeeded"
  <2>1. PICK p \in Procs : Continue(p)
    BY <1>4, AttemptsAlone
  <2>2. Succeeds(p, n) \/ PaysByHand(p, n)
    BY <1>4, <2>1, AttemptStep DEF Inserts, Fails, GivenUp, Records, Kept, Failed
  <2>3. CASE Succeeds(p, n)
    BY <1>1, <2>3 DEF Succeeds, ClaimedFirst
  <2>4. CASE PaysByHand(p, n)
    BY <2>4 DEF PaysByHand, ManualSettle, Then, Goto
  <2> QED BY <2>2, <2>3, <2>4
<1> QED BY <1>3, <1>4

(* A fault is not forgotten. *)
LEMMA FaultsStay ==
  ASSUME TypeOK, [Next]_vars, faults' = 0
  PROVE  faults = 0 /\ \A p \in Procs : ~Interrupted(p) /\ ~CallInterrupted(p)
<1> faults \in Nat
  BY Bounds DEF TypeOK
<1>1. ASSUME NEW p \in Procs, Continue(p) PROVE UNCHANGED faults
  BY <1>1 DEF Continue, aside, bounds, LoadSession, PostDepositConfirmed, PostFxConversion,
         StartSettling, TransitionToSettling, ChooseProvider, ClaimPayout, InsertAttempt,
         BumpAttemptCount, CallProvider, ClearPendingDestination, RecordDispatch, MarkFailed,
         Reload, ReverseAttempt, WakeFromBackoff, FailSettlement, ParkForManualPayout,
         GiveUp, TransitionToSettlementFailed, ReleaseReservation, MarkSucceeded, Settle,
         TransitionToSettled, ReturnPayout, TransitionToReversed, PostReturn, FlagDeclined,
         PageForDeclined, ManualSettle, ClaimManualPayout, ConfirmFailed, ReverseConfirmed,
         Requeue, RetryToSettling, PostManualAdjustment, CloseReversalCase, ResolveRow,
         TransitionToReversalResolved
<1>2. ASSUME NEW p \in Procs PROVE ~Interrupted(p) /\ ~CallInterrupted(p)
  BY DEF Interrupted, CallInterrupted
<1> QED BY <1>1, <1>2 DEF Next, vars, aside, bounds, HandleDepositConfirmed, WorkerTick,
       ClaimNextPendingDispatch, ConfirmSandboxDispatch, PageTimedOutConfirmation, Arrive, Serve,
       HandleSettlementWebhook, StartManualSettle, StartRetry, StartResolveReversal,
       Environment, ProviderPays, ProviderRejects, BankReturns, FateChanges, HumanPays, LateDeposit

BalanceInv == AccountInv /\ ReversalsAreOfFailures /\ SettleInv /\ CaseInv /\ UncutInv

LEMMA BalanceInit == Init => BalanceInv
<1> SUFFICES ASSUME Init PROVE BalanceInv
  OBVIOUS
<1>1. AccountInv /\ ReversalsAreOfFailures
  BY TypeInit, AttemptInit, TurnInit, LifeInit, ReversalInit, PriceInit, ClaimInit
     DEF AccountInv, ReversalInv
<1>2. row.status = "none" /\ \A p \in Procs : pc[p] = "idle"
  BY DEF Init
<1>3. \A n \in Attempt : attempts[n].status = "none"
  BY NoAttemptYet
<1>4. \A k \in Keys : ~Posted(k)
  BY DEF Init, Posted
<1>5. Return \in Keys /\ \A n \in Attempt : Payout(n) \in Keys
  BY PayableAreKeys
<1> QED BY <1>1, <1>2, <1>3, <1>4, <1>5
        DEF BalanceInv, SettleInv, CaseInv, UncutInv, FreshInsert, OutIsPursued, Out,
            SuccessIsClaimed

LEMMA BalanceNext == ASSUME ~OpsConfirm, BalanceInv, [Next]_vars PROVE BalanceInv'
<1>0. /\ TypeInv /\ TypeOK /\ AttemptInv /\ TurnInv /\ NeverConfirmed /\ LifeInv /\ FailureInv
      /\ SettleInv /\ CaseInv
  BY DEF BalanceInv, AccountInv, TurnInv, TypeInv
<1>1. AccountInv'
  BY AccountNext DEF BalanceInv
<1>2. ReversalsAreOfFailures'
  BY <1>0, ReversalNext DEF BalanceInv, ReversalInv
<1>3. SettleInv'
  BY <1>0, SettleNext
<1>4. CaseInv'
  <2>1. LifeInv'
    BY <1>1 DEF AccountInv
  <2> QED BY <1>0, <2>1, CaseNext
<1>5. UncutInv'
  <2> SUFFICES ASSUME faults' = 0, deposits' = 1
               PROVE  FreshInsert' /\ OutIsPursued' /\ SuccessIsClaimed'
    BY DEF UncutInv
  <2>1. faults = 0 /\ \A p \in Procs : ~Interrupted(p) /\ ~CallInterrupted(p)
    BY <1>0, FaultsStay
  <2>2. deposits = 1
    BY <1>0, OneDeposit
  <2>3. PricedCopies /\ ClaimedFirst /\ FreshInsert /\ OutIsPursued /\ SuccessIsClaimed
    BY <2>1, <2>2 DEF BalanceInv, AccountInv, PriceInv, ClaimInv, UncutInv
  <2> QED BY <1>0, <2>1, <2>3, FreshInsertNext, OutIsPursuedNext, SuccessIsClaimedNext
<1> QED BY <1>1, <1>2, <1>3, <1>4, <1>5 DEF BalanceInv

(* No handler running, one claim of the row's amount stands exactly while the  *)
(* row is settled, or settling with an attempt out.                            *)
LEMMA ClaimsOfStatus ==
  ASSUME BalanceInv, Quiet, faults = 0, deposits = 1, reversalCase = "none"
  PROVE  IF row.status = "settled" \/ (row.status = "settling" /\ \E n \in Attempt : Open(n))
         THEN (ledger[ManualPayout] # 0) # (\E n \in Attempt : Out(n))
         ELSE ledger[ManualPayout] = 0 /\ \A n \in Attempt : ~Out(n)
<1>1. /\ TypeOK /\ TurnInv /\ ClaimedFirst /\ ManualIsAlone /\ CaseInv
      /\ OutIsPursued /\ SuccessIsClaimed /\ ReversalsAreOfFailures /\ SettleInv
  BY DEF BalanceInv, AccountInv, TypeInv, ClaimInv, UncutInv
<1>2. \A p \in Procs : pc[p] = "idle"
  BY DEF Quiet, At
<1>3. ledger[ManualPayout] # 0 => Paid /\ \A n \in Attempt : ~Out(n)
  BY <1>1 DEF ManualIsAlone, Posted
<1>4. ASSUME NEW n \in Attempt, attempts[n].status \in {"dispatched", "succeeded"}, Posted(Payout(n))
      PROVE  Out(n)
  BY <1>1, <1>4 DEF ReversalsAreOfFailures, Failed, Out
<1>5. Paid => row.status = "settled"
  <2> SUFFICES ASSUME Paid PROVE row.status = "settled"
    OBVIOUS
  <2>1. ~Waits
    BY <1>1 DEF TurnInv, WaitingHasTurn, Paid, Holds
  <2>2. row.status \in Statuses
    BY <1>1 DEF TypeOK, RowType
  <2>3. row.status \notin {"dispatching", "settling", "reversed", "reversal_resolved"}
    BY <1>1, <1>2 DEF SettleInv, CaseInv
  <2> QED BY <2>1, <2>2, <2>3 DEF Waits, Statuses
<1>6. CASE row.status = "settled"
  <2>1. PICK n \in Attempt : attempts[n].status = "succeeded"
    BY <1>1, <1>6 DEF CaseInv, Paid
  <2>2. Posted(Payout(n)) \/ ledger[ManualPayout] # 0
    BY <1>1, <1>2, <2>1 DEF SuccessIsClaimed, Posted
  <2> QED BY <1>3, <1>4, <1>6, <2>1, <2>2
<1>7. CASE row.status = "settling" /\ \E n \in Attempt : Open(n)
  <2>1. PICK n \in Attempt : Open(n)
    BY <1>7
  <2>2. Out(n)
    BY <1>1, <1>4, <2>1 DEF ClaimedFirst, Open
  <2> QED BY <1>3, <1>7, <2>2
<1>8. CASE /\ row.status # "settled"
           /\ ~(row.status = "settling" /\ \E n \in Attempt : Open(n))
  <2>1. ledger[ManualPayout] = 0
    BY <1>3, <1>5, <1>8
  <2>2. ASSUME NEW n \in Attempt, Out(n) PROVE FALSE
    <3>1. Holds(n)
      BY <1>1, <1>2, <2>2 DEF OutIsPursued, Pursues
    <3>2. Open(n)
      BY <1>5, <1>8, <3>1 DEF Holds, Open, Paid
    <3>3. ~Waits
      BY <1>1, <3>1 DEF TurnInv, WaitingHasTurn
    <3>4. row.status \in Statuses
      BY <1>1 DEF TypeOK, RowType
    <3>5. row.status \notin {"dispatching", "reversed", "reversal_resolved"}
      BY <1>1, <1>2 DEF SettleInv, CaseInv
    <3> QED BY <1>8, <3>2, <3>3, <3>4, <3>5 DEF Waits, Statuses
  <2> QED BY <1>8, <2>1, <2>2
<1> QED BY <1>6, <1>7, <1>8

(* The ledger says that the row's amount is paid exactly when the row does,    *)
(* for any handlers, adapters, retries and payouts by hand: until a handler    *)
(* is cut short, a second deposit is confirmed, or a payout comes back.        *)
THEOREM LiabilityFollows ==
  ASSUME ~OpsConfirm
  PROVE  Spec => [](faults = 0 /\ deposits = 1 /\ reversalCase = "none" => LiabilityMatchesStatus)
<1>1. Spec => []BalanceInv
  BY BalanceInit, BalanceNext, PTL DEF Spec
<1>2. BalanceInv => (faults = 0 /\ deposits = 1 /\ reversalCase = "none" => LiabilityMatchesStatus)
  <2> DEFINE paid == row.status = "settled" \/ (row.status = "settling" /\ \E n \in Attempt : Open(n))
             sum == SumFunctionOnSet(Claims, Attempt)
             fx == ledger[FxConversion]
             back == ledger[Return]
             hand == ledger[ManualPayout]
  <2> SUFFICES ASSUME BalanceInv, faults = 0, deposits = 1, reversalCase = "none", Quiet
               PROVE  Owed = fx - IF paid THEN row.pay ELSE 0
    BY DEF LiabilityMatchesStatus
  <2>1. /\ TypeOK /\ PricedRow /\ PricedLedger /\ ReversedAfter /\ OneOut /\ CaseInv
    BY DEF BalanceInv, AccountInv, TypeInv, PriceInv, ClaimInv
  <2>2. Owed = fx + back - hand + sum
    BY OwedIs
  <2>3. fx \in {0, Rate} /\ hand \in {0, Rate} /\ back = 0
    BY <2>1, PayableAreKeys DEF PricedLedger, TypeOK, CaseInv, Posted
  <2>4. \/ sum = 0 /\ \A n \in Attempt : ~Out(n)
        \/ sum = -Rate /\ \E n \in Attempt : Out(n)
    BY <2>1, OneClaimAtMost
  <2>5. IF paid THEN (hand # 0) # (\E n \in Attempt : Out(n))
                ELSE hand = 0 /\ \A n \in Attempt : ~Out(n)
    BY ClaimsOfStatus
  <2>6. paid => row.pay = Rate
    BY <2>1 DEF PricedRow, Early
  <2>7. CASE paid
    <3>1. \/ sum = 0 /\ hand = Rate
          \/ sum = -Rate /\ hand = 0
      BY <2>3, <2>4, <2>5, <2>7
    <3> HIDE DEF paid, sum, fx, back, hand
    <3> QED BY <2>2, <2>3, <2>6, <2>7, <3>1, RateIsPositive
  <2>8. CASE ~paid
    <3>1. sum = 0 /\ hand = 0
      BY <2>4, <2>5, <2>8
    <3> HIDE DEF paid, sum, fx, back, hand
    <3> QED BY <2>2, <2>3, <2>8, <3>1, RateIsPositive
  <2> QED BY <2>7, <2>8
<1> QED BY <1>1, <1>2, PTL
=============================================================================
