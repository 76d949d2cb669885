----------------------------- MODULE Settlement -----------------------------
(***************************************************************************)
(* The payout of one confirmed session (internal/settlement): its row in   *)
(* settlements, the attempts to pay it, the ledger transactions that claim *)
(* and reverse each attempt, and the session's own status column, as they  *)
(* are written by the dispatch worker, provider webhooks, ops requests and *)
(* the timeout job, which all run concurrently.                            *)
(*                                                                         *)
(* One action is one database transaction or one provider call.  A Go      *)
(* function that makes several of them is a chain of actions of the        *)
(* goroutine p that runs it: pc[p] names the next call, loc[p] holds the   *)
(* function's local variables, among them the copy of the row it works     *)
(* from.  Settlements of different sessions share only ledger accounts and *)
(* the worker's turn, so one settlement is modelled.                       *)
(***************************************************************************)
EXTENDS Integers, Sequences, FiniteSetsExt

CONSTANTS
  Worker,                \* the dispatch worker's goroutine
  Requests,              \* goroutines serving webhooks, ops and Telegram
  Corridors,             \* the active settlement bindings, by priority, that an
                         \* attempt may find: ops edit them at any time
  Adapters,              \* names of the enabled adapters in Store.providers
  Sandbox,               \* the name of the sandbox adapter
  Hyparrow,              \* the name of the Hyparrow adapter
  TelegramEnabled,       \* whether the manual-payout fallback is configured
  MaxAutoRetryAttempts,  \* settlement.go: 3
  SessionDest,           \* the session's payout destination
  Corrections,           \* destinations ops may supply with a retry
  NoDest,                \* SQL NULL in pending_destination
  OpsConfirm,            \* whether ops use RetryPayout(confirmedFailed)
  Rate,                  \* the locked rate: fiat units per crypto unit
  MaxDeposit,            \* bound: confirmed deposit total, in crypto units
  MaxAttempts,           \* bound: rows in settlement_attempts
  MaxRetries,            \* bound: accepted RetryPayout calls
  MaxFaults              \* bound: handlers cut short by a crash or an error

Procs == {Worker} \cup Requests
Attempt == 1..MaxAttempts
Dests == {SessionDest} \cup Corrections

ASSUME SettlementAssumption ==
  /\ Worker \notin Requests
  /\ Corridors \subseteq Seq(STRING)
  /\ Adapters \subseteq STRING
  /\ Sandbox \in STRING
  /\ Hyparrow \in STRING
  /\ TelegramEnabled \in BOOLEAN
  /\ OpsConfirm \in BOOLEAN
  /\ NoDest \notin Dests
  /\ MaxAutoRetryAttempts \in Nat \ {0}
  /\ Rate \in Nat \ {0}
  /\ MaxDeposit \in Nat \ {0}
  /\ MaxAttempts \in Nat \ {0}
  /\ MaxRetries \in Nat
  /\ MaxFaults \in Nat

VARIABLES
  row,          \* the settlements row
  attempts,     \* its settlement_attempts rows, by attempt_number
  ledger,       \* amount posted under each idempotency key, 0 if not posted
  session,      \* sessions.status
  reservation,  \* treasury deposit reservation
  reversalCase, \* settlement_reversals row
  deposits,     \* confirmed deposit total of the reservation, in crypto units
  flight,       \* what became of each attempt at the provider
  chat,         \* the ops chat: alerts delivered, payouts made by hand from
                \* them, and (observed) alerts a retry has overtaken since
  pc,           \* the next call each goroutine makes
  loc,          \* each goroutine's local variables
  retries,      \* accepted retries, bounded by MaxRetries
  faults        \* handlers cut short, bounded by MaxFaults

vars == <<row, attempts, ledger, session, reservation, reversalCase, deposits,
          flight, chat, pc, loc, retries, faults>>
bounds == <<retries, faults>>
\* what most handlers leave alone
aside == <<reservation, reversalCase, deposits, flight, chat, retries, faults>>

Statuses == {"none", "pending_dispatch", "dispatching", "settling", "settled",
             "settlement_failed", "awaiting_manual_payout", "reversed",
             "reversal_resolved"}
SessionStatuses == {"deposit_confirmed", "settling", "settled",
                    "settlement_failed", "reversed", "reversal_resolved"}
Failed == {"failed_bucket1", "failed_bucket2", "failed_bucket3", "failed_bucket4"}
AttemptStatuses == {"none", "dispatched", "succeeded"} \cup Failed
Fates == {"none", "inflight", "paid", "dead", "returned"}
Outcomes == {"accepted", "uncertain", "rejected_retryable", "rejected_terminal"}
Manual == "manual"

\* Idempotency keys of the ledger transactions posted for this session.
Payout(n) == <<"settlement_payout", n>>
Reversal_FirstAttempt(n) == <<"settlement_reversal", 1>>
Reversal(n) == <<"settlement_reversal", n>>
ManualPayout == <<"settlement_payout:manual", 0>>
Return == <<"settlement_reversal", 0>>
DepositConfirmed == <<"deposit_confirmed", 0>>
FxConversion == <<"fx_conversion", 0>>
Adjustment == <<"manual_adjustment", 0>>
Keys == ({"settlement_payout", "settlement_reversal"} \X Attempt)
        \cup {ManualPayout, Return, DepositConfirmed, FxConversion, Adjustment}

NoAttempt == [status |-> "none", provider |-> "", ref |-> FALSE,
              reason |-> FALSE, dest |-> NoDest]
Blank == [att |-> 0, cnt |-> 0, pay |-> 0, dest |-> NoDest, amt |-> 0,
          sess |-> "", from |-> "", prov |-> "", out |-> "", todo |-> {}]

\* The calls a goroutine can be about to make.
Labels ==
  {"idle",
   "load", "post_deposit", "post_fx", "start_settling", "session_settling",
   "select", "claim", "insert", "bump", "call", "clear_dest", "record",
   "mark_failed", "reload", "reverse", "backoff",
   "fail", "park", "give_up", "session_failed", "release",
   "mark_succeeded", "settle", "session_settled",
   "return", "session_reversed", "post_return", "flag", "page",
   "manual", "manual_claim",
   "confirm_failed", "confirm_reversals", "requeue", "session_retry",
   "adjust", "close_case", "row_resolved", "session_resolved"}

RowType == [status : Statuses, cnt : 0..MaxAttempts, pay : Nat, paged : BOOLEAN,
            dest : Dests \cup {NoDest}]
AttemptType == [status : AttemptStatuses, provider : Adapters \cup {Manual, ""},
                ref : BOOLEAN, reason : BOOLEAN, dest : Dests \cup {NoDest}]
LocType == [att : 0..MaxAttempts, cnt : 0..MaxAttempts, pay : Nat,
            dest : Dests \cup {NoDest}, amt : Nat, sess : SessionStatuses \cup {""},
            from : Statuses \cup {""}, prov : Adapters \cup {""},
            out : Outcomes \cup {"failed", ""}, todo : SUBSET Attempt]

TypeOK ==
  /\ row \in RowType
  /\ attempts \in [Attempt -> AttemptType]
  /\ ledger \in [Keys -> Nat]
  /\ session \in SessionStatuses
  /\ reservation \in {"reserved", "released"}
  /\ reversalCase \in {"none", "open", "resolved"}
  /\ deposits \in 1..MaxDeposit
  /\ flight \in [Attempt -> Fates]
  /\ chat \in [alerts : Nat, paid : Nat, overtaken : Nat]
  /\ pc \in [Procs -> Labels]
  /\ loc \in [Procs -> LocType]
  /\ retries \in 0..MaxRetries
  /\ faults \in 0..MaxFaults

Init ==
  /\ row = [status |-> "none", cnt |-> 0, pay |-> 0, paged |-> FALSE, dest |-> NoDest]
  /\ attempts = [n \in Attempt |-> NoAttempt]
  /\ ledger = [k \in Keys |-> 0]
  /\ session = "deposit_confirmed"
  /\ reservation = "reserved"
  /\ reversalCase = "none"
  /\ deposits = 1
  /\ flight = [n \in Attempt |-> "none"]
  /\ chat = [alerts |-> 0, paid |-> 0, overtaken |-> 0]
  /\ pc = [p \in Procs |-> "idle"]
  /\ loc = [p \in Procs |-> Blank]
  /\ retries = 0
  /\ faults = 0

-----------------------------------------------------------------------------
(* Control flow of a goroutine. *)

At(p, l) == pc[p] = l
Goto(p, l) == pc' = [pc EXCEPT ![p] = l]
Local(p, l) == loc' = [loc EXCEPT ![p] = l]
Finish(p) == /\ pc' = [pc EXCEPT ![p] = "idle"]
             /\ Local(p, Blank)
Then(p, l) == Goto(p, l) /\ UNCHANGED loc

UpdateAttempt(n, a) == attempts' = [attempts EXCEPT ![n] = a]

\* GetSettlement: the goroutine's own copy of the row.
Copied(l) == [l EXCEPT !.cnt = row.cnt, !.pay = row.pay, !.dest = row.dest]

\* ledger.Post under key k: an unused key takes the amount, a used one changes
\* nothing (ErrAlreadyPosted).
Posted(k) == ledger[k] # 0
Post(k, amount) == ledger' = IF Posted(k) THEN ledger ELSE [ledger EXCEPT ![k] = amount]

\* casTransition: the caller goes on to l, or gives up with the error of a
\* compare-and-set that matched no row.
SessionCAS_Blind(p, from, to, l) == session' = to /\ Then(p, l)
SessionCAS(p, from, to, l) ==
  IF session = from
  THEN session' = to /\ Then(p, l)
  ELSE UNCHANGED session /\ Finish(p)

CryptoToFiat(amount) == amount * Rate

\* The guard of every update of an attempt's status.
Open_Any(n) == attempts[n].status # "none"
Open(n) == attempts[n].status = "dispatched"

Tried == {attempts[n].provider : n \in {m \in Attempt : attempts[m].status # "none"}}

\* resolveDestination: the copy's pending destination, else the last
\* attempt's, else the session's.
ResolveDestination_LastAttempt(pending) ==
  LET earlier == {n \in Attempt : attempts[n].status # "none" /\ attempts[n].dest # NoDest}
  IN IF earlier # {} THEN attempts[CHOOSE n \in earlier : \A m \in earlier : m <= n].dest
                     ELSE pending

ResolveDestination(pending) ==
  LET earlier == {n \in Attempt : attempts[n].status # "none" /\ attempts[n].dest # NoDest}
  IN CASE pending # NoDest -> pending
       [] pending = NoDest /\ earlier # {} ->
            attempts[CHOOSE n \in earlier : \A m \in earlier : m <= n].dest
       [] OTHER -> SessionDest

\* selectProvider: the first enabled binding not tried yet, else the first
\* enabled one; "" when no binding is enabled.
SelectProvider(bindings) ==
  LET First(S) == bindings[CHOOSE i \in S : \A j \in S : i <= j]
      enabled == {i \in DOMAIN bindings : bindings[i] \in Adapters}
      untried == {i \in enabled : bindings[i] \notin Tried}
  IN CASE enabled = {} -> ""
       [] untried # {} -> First(untried)
       [] OTHER -> First(enabled)

-----------------------------------------------------------------------------
(* The event handler and the dispatch worker. *)

\* Delivery of session.deposit_confirmed; a redelivery meets ON CONFLICT.
HandleDepositConfirmed ==
  /\ row.status = "none"
  /\ row' = [row EXCEPT !.status = "pending_dispatch", !.dest = SessionDest]
  /\ UNCHANGED <<attempts, ledger, session, pc, loc, aside>>

ClaimNextPendingDispatch ==
  /\ At(Worker, "idle")
  /\ row.status = "pending_dispatch"
  /\ row' = [row EXCEPT !.status = "dispatching"]
  /\ Local(Worker, Copied(loc[Worker]))
  /\ Goto(Worker, "load")
  /\ UNCHANGED <<attempts, ledger, session, aside>>

\* processSettlement reads the session, the confirmed total and the rate lock.
LoadSession(p) ==
  /\ At(p, "load")
  /\ Local(p, [loc[p] EXCEPT !.sess = session, !.amt = deposits])
  /\ Goto(p, "post_deposit")
  /\ UNCHANGED <<row, attempts, ledger, session, aside>>

PostDepositConfirmed(p) ==
  /\ At(p, "post_deposit")
  /\ Post(DepositConfirmed, loc[p].amt)
  /\ Then(p, "post_fx")
  /\ UNCHANGED <<row, attempts, session, aside>>

PostFxConversion(p) ==
  /\ At(p, "post_fx")
  /\ Post(FxConversion, CryptoToFiat(loc[p].amt))
  /\ Then(p, "start_settling")
  /\ UNCHANGED <<row, attempts, session, aside>>

\* An ops retry has moved the session already.
AfterSettling_Never(l) == "select"
AfterSettling(l) == IF l.sess = "settling" THEN "select" ELSE "session_settling"

\* The update's row count is not checked: a miss goes on all the same.
StartSettling(p) ==
  LET payable == CryptoToFiat(loc[p].amt)
  IN /\ At(p, "start_settling")
     /\ row' = IF row.status = "dispatching"
               THEN [row EXCEPT !.status = "settling", !.pay = payable]
               ELSE row
     /\ Local(p, [loc[p] EXCEPT !.pay = payable])
     /\ Goto(p, AfterSettling(loc[p]))
     /\ UNCHANGED <<attempts, ledger, session, aside>>

TransitionToSettling(p) ==
  /\ At(p, "session_settling")
  /\ SessionCAS(p, "deposit_confirmed", "settling", "select")
  /\ UNCHANGED <<row, attempts, ledger, aside>>

-----------------------------------------------------------------------------
(* dispatchAttempt, from the goroutine's copy of the row. *)

ChooseProvider(p) ==
  /\ At(p, "select")
  /\ loc[p].cnt < MaxAttempts
  /\ \E bindings \in Corridors :
       LET provider == SelectProvider(bindings)
       IN IF provider = ""
          THEN Then(p, "fail")
          ELSE /\ Local(p, [loc[p] EXCEPT !.prov = provider, !.att = 0, !.out = ""])
               /\ Goto(p, "claim")
  /\ UNCHANGED <<row, attempts, ledger, session, aside>>

\* The claim that must succeed before the provider is called.
ClaimPayout(p) ==
  LET key == Payout(loc[p].cnt + 1)
  IN /\ At(p, "claim")
     /\ IF Posted(key)
        THEN UNCHANGED ledger /\ Finish(p)
        ELSE Post(key, loc[p].pay) /\ Then(p, "insert")
     /\ UNCHANGED <<row, attempts, session, aside>>

\* (settlement_id, attempt_number) is unique: a second row is an error.
InsertAttempt(p) ==
  LET n == loc[p].cnt + 1
  IN /\ At(p, "insert")
     /\ IF attempts[n].status # "none"
        THEN UNCHANGED attempts /\ Finish(p)
        ELSE /\ UpdateAttempt(n, [NoAttempt EXCEPT !.status = "dispatched",
                                                  !.provider = loc[p].prov,
                                                  !.dest = ResolveDestination(loc[p].dest)])
             /\ Then(p, "bump")
     /\ UNCHANGED <<row, ledger, session, aside>>

BumpAttemptCount(p) ==
  LET n == loc[p].cnt + 1
  IN /\ At(p, "bump")
     /\ row' = [row EXCEPT !.cnt = n]
     /\ Local(p, [loc[p] EXCEPT !.cnt = n, !.att = n])
     /\ Goto(p, "call")
     /\ UNCHANGED <<attempts, ledger, session, aside>>

\* How Hyparrow's answer is read: a rejection only when nothing is in flight;
\* a lost answer that the status lookup cannot settle is uncertain.
HyparrowFates ==
  {<<"accepted", "inflight">>, <<"uncertain", "inflight">>, <<"uncertain", "dead">>,
   <<"rejected_retryable", "dead">>, <<"rejected_terminal", "dead">>}

\* The other adapters, stubs so far, call every lost answer a rejection.
HttpFates == {"accepted", "rejected_retryable"} \X {"inflight", "dead"}

\* What an outcome says of the money.  The sandbox accepts, and nothing can go
\* wrong.
OutcomeFates(provider) ==
  CASE provider = Sandbox -> {<<"accepted", "paid">>}
    [] provider = Hyparrow -> HyparrowFates
    [] OTHER -> HttpFates

\* provider.Dispatch; an error instead of an outcome is Interrupted below.
CallProvider(p) ==
  /\ At(p, "call")
  /\ \E r \in OutcomeFates(loc[p].prov) :
       /\ flight' = [flight EXCEPT ![loc[p].att] = r[2]]
       /\ Local(p, [loc[p] EXCEPT !.out = r[1]])
  /\ Goto(p, "clear_dest")
  /\ UNCHANGED <<row, attempts, ledger, session, reservation,
                 reversalCase, deposits, chat, bounds>>

ClearPendingDestination(p) ==
  /\ At(p, "clear_dest")
  /\ row' = IF loc[p].dest = NoDest THEN row ELSE [row EXCEPT !.dest = NoDest]
  /\ Local(p, [loc[p] EXCEPT !.dest = NoDest])
  /\ Goto(p, IF loc[p].out \in {"accepted", "uncertain"} THEN "record" ELSE "mark_failed")
  /\ UNCHANGED <<attempts, ledger, session, aside>>

\* Accepted or uncertain: settling -> settling, storing the provider's
\* reference; nothing is stored if the row is no longer settling.
RecordDispatch(p) ==
  LET n == loc[p].att
      uncertain == loc[p].out = "uncertain"
  IN /\ At(p, "record")
     /\ IF row.status = "settling"
        THEN /\ UpdateAttempt(n, [attempts[n] EXCEPT !.ref = TRUE,
                                                        !.reason = IF uncertain THEN TRUE ELSE @])
             /\ row' = IF uncertain THEN [row EXCEPT !.paged = TRUE] ELSE row
        ELSE UNCHANGED <<attempts, row>>
     /\ Finish(p)
     /\ UNCHANGED <<ledger, session, aside>>

-----------------------------------------------------------------------------
(* handleAttemptFailure and failSettlement. *)

Bucket_Unnumbered(out) == IF out = "rejected_terminal" THEN "failed_bucket4" ELSE "failed"
Bucket(out) == CASE out = "rejected_terminal" -> "failed_bucket4"
                 [] out = "rejected_retryable" -> "failed_bucket1"
                 [] OTHER -> "failed_bucket2"

MarkFailed(p) ==
  LET n == loc[p].att
  IN /\ At(p, "mark_failed")
     /\ IF Open(n)
        THEN /\ UpdateAttempt(n, [attempts[n] EXCEPT !.status = Bucket(loc[p].out), !.reason = TRUE])
             /\ Then(p, "reload")
        ELSE UNCHANGED attempts /\ Finish(p)
     /\ UNCHANGED <<row, ledger, session, aside>>

Reload(p) ==
  /\ At(p, "reload")
  /\ Local(p, Copied(loc[p]))
  /\ Goto(p, "reverse")
  /\ UNCHANGED <<row, attempts, ledger, session, aside>>

\* The compensating reversal, and where it leads: give up, fail over at once,
\* or sleep for RetryBackoff when every enabled adapter was tried.
ReverseAttempt(p) ==
  LET l == loc[p]
  IN /\ At(p, "reverse")
     /\ Post(Reversal(l.att), l.pay)
     /\ Then(p, IF l.out = "rejected_terminal" \/ l.att >= MaxAutoRetryAttempts
                THEN "fail"
                ELSE IF Adapters \subseteq Tried THEN "backoff" ELSE "select")
     /\ UNCHANGED <<row, attempts, session, aside>>

WakeFromBackoff(p) ==
  /\ At(p, "backoff")
  /\ Then(p, "select")
  /\ UNCHANGED <<row, attempts, ledger, session, aside>>

\* failSettlement: with Telegram configured and bank details in the destination
\* an alert is sent, before any transition; the payout is parked for a human if
\* the answer says that it was delivered.  An alert whose answer was lost is
\* read by the humans all the same.
FailSettlement(p) ==
  /\ At(p, "fail")
  /\ \/ /\ TelegramEnabled
        /\ chat' = [chat EXCEPT !.alerts = @ + 1]
        /\ \E handled \in BOOLEAN : Then(p, IF handled THEN "park" ELSE "give_up")
     \/ UNCHANGED chat /\ Then(p, "give_up")
  /\ UNCHANGED <<row, attempts, ledger, session, reservation, reversalCase, deposits,
                 flight, bounds>>

ParkForManualPayout(p) ==
  /\ At(p, "park")
  /\ row' = IF row.status = "settling"
            THEN [row EXCEPT !.status = "awaiting_manual_payout", !.paged = TRUE]
            ELSE row
  /\ Finish(p)
  /\ UNCHANGED <<attempts, ledger, session, aside>>

GiveUp(p) ==
  /\ At(p, "give_up")
  /\ IF row.status = "settling"
     THEN /\ row' = [row EXCEPT !.status = "settlement_failed", !.paged = TRUE]
          /\ Then(p, "session_failed")
     ELSE UNCHANGED row /\ Finish(p)
  /\ UNCHANGED <<attempts, ledger, session, aside>>

TransitionToSettlementFailed(p) ==
  /\ At(p, "session_failed")
  /\ SessionCAS(p, "settling", "settlement_failed", "release")
  /\ UNCHANGED <<row, attempts, ledger, aside>>

ReleaseReservation(p) ==
  /\ At(p, "release")
  /\ reservation' = "released"
  /\ Finish(p)
  /\ UNCHANGED <<row, attempts, ledger, session, reversalCase,
                 deposits, flight, chat, bounds>>

-----------------------------------------------------------------------------
(* Requests: provider webhooks. *)

\* A request handler: it decodes the request, checks the caller, and runs one
\* method of the store, whose first call is l.
Serve(p, l, local) ==
  /\ p \in Requests
  /\ At(p, "idle")
  /\ Goto(p, l)
  /\ Local(p, local)
  /\ UNCHANGED <<row, attempts, ledger, session, aside>>

\* The callbacks a provider may send, late and more than once, for a payout.
\* Hyparrow declines before it reverses, and reverses what it had settled too.
HyparrowCallbacks(fate) ==
  CASE fate = "inflight" -> {"declined"}
    [] fate = "paid" -> {"succeeded", "declined"}
    [] fate = "dead" -> {"reversed", "declined"}
    [] fate = "returned" -> {"succeeded", "reversed"}
    [] OTHER -> {}

GenericCallbacks(fate) ==
  CASE fate = "paid" -> {"succeeded"}
    [] fate = "dead" -> {"failed"}
    [] fate = "returned" -> {"succeeded", "returned"}
    [] OTHER -> {}

Callbacks(provider, fate) ==
  IF provider = Hyparrow THEN HyparrowCallbacks(fate) ELSE GenericCallbacks(fate)

\* Which function handles a callback: "reversed" depends on the attempt's
\* status, as read before any of that function's own statements.
Route_DeclineIsFailure(event, status) ==
  CASE event = "succeeded" -> "mark_succeeded"
    [] event = "returned" \/ (event = "reversed" /\ status = "succeeded") -> "return"
    [] OTHER -> "mark_failed"

Route(event, status) ==
  CASE event = "succeeded" -> "mark_succeeded"
    [] event = "declined" -> "flag"
    [] event = "returned" \/ (event = "reversed" /\ status = "succeeded") -> "return"
    [] OTHER -> "mark_failed"

\* A callback whose reference was not stored finds no attempt, and the sandbox
\* adapter refuses every callback.
KnownReference(n) == attempts[n].ref

HandleSettlementWebhook(p, n) ==
  /\ KnownReference(n)
  /\ attempts[n].provider # Sandbox
  /\ \E event \in Callbacks(attempts[n].provider, flight[n]) :
       Serve(p, Route(event, attempts[n].status), [Blank EXCEPT !.att = n, !.out = "failed"])

\* The worker's confirmSandboxDispatches, for one attempt it finds.
ConfirmSandboxDispatch(n) ==
  /\ At(Worker, "idle")
  /\ Open(n)
  /\ attempts[n].provider = Sandbox
  /\ Local(Worker, [Blank EXCEPT !.att = n])
  /\ Goto(Worker, "mark_succeeded")
  /\ UNCHANGED <<row, attempts, ledger, session, aside>>

MarkSucceeded(p) ==
  LET n == loc[p].att
  IN /\ At(p, "mark_succeeded")
     /\ IF Open(n)
        THEN UpdateAttempt(n, [attempts[n] EXCEPT !.status = "succeeded"]) /\ Then(p, "settle")
        ELSE UNCHANGED attempts /\ Finish(p)
     /\ UNCHANGED <<row, ledger, session, aside>>

Settle_OnlyUnpaged(p) ==
  /\ At(p, "settle")
  /\ IF row.status = "settling" /\ ~row.paged
     THEN row' = [row EXCEPT !.status = "settled"] /\ Then(p, "session_settled")
     ELSE UNCHANGED row /\ Finish(p)
  /\ UNCHANGED <<attempts, ledger, session, aside>>

Settle(p) ==
  /\ At(p, "settle")
  /\ IF row.status = "settling"
     THEN row' = [row EXCEPT !.status = "settled"] /\ Then(p, "session_settled")
     ELSE UNCHANGED row /\ Finish(p)
  /\ UNCHANGED <<attempts, ledger, session, aside>>

TransitionToSettled(p) ==
  /\ At(p, "session_settled")
  /\ SessionCAS(p, "settling", "settled", "release")
  /\ UNCHANGED <<row, attempts, ledger, aside>>

\* handlePayoutReturned: the case is opened with the transition; the attempt
\* stays succeeded.
ReturnPayout(p) ==
  /\ At(p, "return")
  /\ IF row.status = "settled"
     THEN /\ row' = [row EXCEPT !.status = "reversed"]
          /\ reversalCase' = "open"
          /\ Local(p, Copied(loc[p]))
          /\ Goto(p, "session_reversed")
     ELSE UNCHANGED <<row, reversalCase>> /\ Finish(p)
  /\ UNCHANGED <<attempts, ledger, session, reservation,
                 deposits, flight, chat, bounds>>

TransitionToReversed(p) ==
  /\ At(p, "session_reversed")
  /\ SessionCAS(p, "settled", "reversed", "post_return")
  /\ UNCHANGED <<row, attempts, ledger, aside>>

PostReturn(p) ==
  /\ At(p, "post_return")
  /\ Post(Return, loc[p].pay)
  /\ Finish(p)
  /\ UNCHANGED <<row, attempts, session, aside>>

\* flagDeclinedAttempt: recorded once per attempt, nothing reversed or retried.
FlagDeclined(p) ==
  LET n == loc[p].att
  IN /\ At(p, "flag")
     /\ IF Open(n) /\ ~attempts[n].reason
        THEN UpdateAttempt(n, [attempts[n] EXCEPT !.reason = TRUE]) /\ Then(p, "page")
        ELSE UNCHANGED attempts /\ Finish(p)
     /\ UNCHANGED <<row, ledger, session, aside>>

PageForDeclined(p) ==
  /\ At(p, "page")
  /\ row' = [row EXCEPT !.paged = TRUE]
  /\ Finish(p)
  /\ UNCHANGED <<attempts, ledger, session, aside>>

-----------------------------------------------------------------------------
(* Requests: ManualSettle, RetryPayout, ResolveReversal; the timeout job. *)

\* HandleTelegramUpdate: the "Settlement completed" button, pressed in the ops
\* chat, possibly more than once.  Nothing checks that the money was sent.
StartManualSettle(p) ==
  /\ row.status = "awaiting_manual_payout"
  /\ row.cnt < MaxAttempts
  /\ Serve(p, "manual", Copied(Blank))

\* One transaction: the transition, the 'manual' attempt and the count.  An
\* attempt_number already taken rolls all of it back.
ManualSettle(p) ==
  LET n == loc[p].cnt + 1
  IN /\ At(p, "manual")
     /\ IF row.status = "awaiting_manual_payout" /\ attempts[n].status = "none"
        THEN /\ row' = [row EXCEPT !.status = "settled", !.cnt = n]
             /\ UpdateAttempt(n, [NoAttempt EXCEPT !.status = "succeeded", !.provider = Manual])
             /\ Then(p, "manual_claim")
        ELSE UNCHANGED <<row, attempts>> /\ Finish(p)
     /\ UNCHANGED <<ledger, session, aside>>

ClaimManualPayout(p) ==
  /\ At(p, "manual_claim")
  /\ Post(ManualPayout, loc[p].pay)
  /\ Then(p, "session_settled")
  /\ UNCHANGED <<row, attempts, session, aside>>

\* RetryPayout's eligibility, from the row it reads.
Retryable(confirmedFailed) ==
  \/ row.status \in {"settlement_failed", "awaiting_manual_payout"}
  \/ row.status = "settling" /\ row.paged /\ confirmedFailed

\* A human confirms a failure only after the provider says that no payout of
\* this settlement is in flight or paid.
ProviderSaysFailed ==
  \A n \in Attempt : flight[n] \notin {"inflight", "paid"}

\* POST /admin/settlements/{id}/retry, with confirmed_failed and a correction.
StartRetry(p) ==
  /\ retries < MaxRetries
  /\ Retryable(OpsConfirm /\ ProviderSaysFailed)
  /\ Serve(p, IF row.status = "settling" THEN "confirm_failed" ELSE "requeue",
           [Copied(Blank) EXCEPT !.from = row.status])

\* resolveConfirmedFailedAttempts: every attempt still dispatched, at once.
ConfirmFailed(p) ==
  LET open == {n \in Attempt : Open(n)}
  IN /\ At(p, "confirm_failed")
     /\ attempts' = [n \in Attempt |-> IF n \in open
                       THEN [attempts[n] EXCEPT !.status = "failed_bucket3", !.reason = TRUE]
                       ELSE attempts[n]]
     /\ Local(p, [loc[p] EXCEPT !.todo = open])
     /\ Goto(p, IF open = {} THEN "requeue" ELSE "confirm_reversals")
     /\ UNCHANGED <<row, ledger, session, aside>>

ReverseConfirmed(p) ==
  /\ At(p, "confirm_reversals")
  /\ \E n \in loc[p].todo :
       /\ Post(Reversal(n), loc[p].pay)
       /\ Local(p, [loc[p] EXCEPT !.todo = @ \ {n}])
       /\ Goto(p, IF loc[p].todo = {n} THEN "requeue" ELSE "confirm_reversals")
  /\ UNCHANGED <<row, attempts, session, aside>>

\* The row is requeued here; the session follows in a statement of its own.
Requeue(p) ==
  /\ At(p, "requeue")
  /\ IF row.status = loc[p].from /\ retries < MaxRetries
     THEN /\ \E d \in Corrections \cup {NoDest} :
               row' = [row EXCEPT !.status = "pending_dispatch", !.paged = FALSE, !.dest = d]
          /\ retries' = retries + 1
          /\ chat' = [chat EXCEPT !.overtaken = chat.alerts]
          /\ Then(p, "session_retry")
     ELSE UNCHANGED <<row, chat, retries>> /\ Finish(p)
  /\ UNCHANGED <<attempts, ledger, session, reservation, reversalCase,
                 deposits, flight, faults>>

RetryToSettling(p) ==
  /\ At(p, "session_retry")
  /\ session' = IF session = (IF loc[p].from = "settlement_failed"
                              THEN "settlement_failed" ELSE "settling")
                THEN "settling" ELSE session
  /\ Finish(p)
  /\ UNCHANGED <<row, attempts, ledger, aside>>

\* POST /admin/settlements/reversals/{id}/resolve.
StartResolveReversal(p) ==
  /\ reversalCase = "open"
  /\ Serve(p, "adjust", Copied(Blank))

PostManualAdjustment(p) ==
  /\ At(p, "adjust")
  /\ Post(Adjustment, loc[p].pay)
  /\ Then(p, "close_case")
  /\ UNCHANGED <<row, attempts, session, aside>>

CloseReversalCase(p) ==
  /\ At(p, "close_case")
  /\ IF reversalCase = "open"
     THEN reversalCase' = "resolved" /\ Then(p, "row_resolved")
     ELSE UNCHANGED reversalCase /\ Finish(p)
  /\ UNCHANGED <<row, attempts, ledger, session, reservation,
                 deposits, flight, chat, bounds>>

ResolveRow(p) ==
  /\ At(p, "row_resolved")
  /\ row' = IF row.status = "reversed" THEN [row EXCEPT !.status = "reversal_resolved"] ELSE row
  /\ Then(p, "session_resolved")
  /\ UNCHANGED <<attempts, ledger, session, aside>>

TransitionToReversalResolved(p) ==
  /\ At(p, "session_resolved")
  /\ session' = IF session = "reversed" THEN "reversal_resolved" ELSE session
  /\ Finish(p)
  /\ UNCHANGED <<row, attempts, ledger, aside>>

\* pageOpsForTimedOutConfirmations: ConfirmationTimeout has passed for a
\* dispatched attempt.  A provider call takes seconds, so it has not passed for
\* one whose goroutine is still between the insert and its recorded outcome.
CallInProgress(n) ==
  \E p \in Procs : \/ At(p, "bump") /\ loc[p].cnt + 1 = n
                   \/ pc[p] \in {"call", "clear_dest", "record", "mark_failed"} /\ loc[p].att = n

TimedOut_OnlyFlagged(n) == Open(n) /\ attempts[n].reason
TimedOut(n) == Open(n) /\ ~CallInProgress(n)

PageTimedOutConfirmation ==
  /\ row.status = "settling"
  /\ ~row.paged
  /\ \E n \in Attempt : TimedOut(n)
  /\ row' = [row EXCEPT !.paged = TRUE]
  /\ UNCHANGED <<attempts, ledger, session, pc, loc, aside>>

-----------------------------------------------------------------------------
(* The environment: provider, bank, the humans in the chat, depositor, and failures. *)

FateChanges(n, from, to) ==
  /\ flight[n] = from
  /\ flight' = [flight EXCEPT ![n] = to]
  /\ UNCHANGED <<row, attempts, ledger, session, reservation, reversalCase, deposits,
                 chat, pc, loc, bounds>>

ProviderPays(n) == FateChanges(n, "inflight", "paid")
ProviderRejects(n) == FateChanges(n, "inflight", "dead")
BankReturns(n) == attempts[n].provider # Sandbox /\ FateChanges(n, "paid", "returned")

\* A human pays what an alert asks for, at their bank and once per alert: any
\* time after it was delivered, whatever has become of the settlement since, and
\* before or after the button is pressed.
HumanPays ==
  /\ chat.paid < chat.alerts
  /\ chat' = [chat EXCEPT !.paid = @ + 1]
  /\ UNCHANGED <<row, attempts, ledger, session, reservation, reversalCase, deposits,
                 flight, pc, loc, bounds>>

\* One more deposit to the same address is confirmed (internal/treasury).
LateDeposit ==
  /\ deposits < MaxDeposit
  /\ deposits' = deposits + 1
  /\ UNCHANGED <<row, attempts, ledger, session, reservation, reversalCase, flight,
                 chat, pc, loc, bounds>>

\* A crash, a database error or a cancelled request between two calls: what
\* was written stays, the rest of the function never runs.
Interrupted(p) ==
  /\ ~At(p, "idle")
  /\ faults < MaxFaults
  /\ faults' = faults + 1
  /\ Finish(p)
  /\ UNCHANGED <<row, attempts, ledger, session, reservation, reversalCase,
                 deposits, flight, chat, retries>>

\* The same, inside the provider call: the request may have reached it.
CallInterrupted(p) ==
  /\ At(p, "call")
  /\ loc[p].prov # Sandbox
  /\ faults < MaxFaults
  /\ faults' = faults + 1
  /\ \E fate \in {"inflight", "dead"} : flight' = [flight EXCEPT ![loc[p].att] = fate]
  /\ Finish(p)
  /\ UNCHANGED <<row, attempts, ledger, session, reservation,
                 reversalCase, deposits, chat, retries>>

-----------------------------------------------------------------------------
\* The next call of a goroutine already serving something.
Continue(p) ==
  \/ LoadSession(p) \/ PostDepositConfirmed(p) \/ PostFxConversion(p)
  \/ StartSettling(p) \/ TransitionToSettling(p)
  \/ ChooseProvider(p) \/ ClaimPayout(p) \/ InsertAttempt(p) \/ BumpAttemptCount(p)
  \/ CallProvider(p) \/ ClearPendingDestination(p) \/ RecordDispatch(p)
  \/ MarkFailed(p) \/ Reload(p) \/ ReverseAttempt(p) \/ WakeFromBackoff(p)
  \/ FailSettlement(p) \/ ParkForManualPayout(p) \/ GiveUp(p)
  \/ TransitionToSettlementFailed(p) \/ ReleaseReservation(p)
  \/ MarkSucceeded(p) \/ Settle(p) \/ TransitionToSettled(p)
  \/ ReturnPayout(p) \/ TransitionToReversed(p) \/ PostReturn(p)
  \/ FlagDeclined(p) \/ PageForDeclined(p)
  \/ ManualSettle(p) \/ ClaimManualPayout(p)
  \/ ConfirmFailed(p) \/ ReverseConfirmed(p) \/ Requeue(p) \/ RetryToSettling(p)
  \/ PostManualAdjustment(p) \/ CloseReversalCase(p) \/ ResolveRow(p)
  \/ TransitionToReversalResolved(p)

Arrive(p) ==
  \/ \E n \in Attempt : HandleSettlementWebhook(p, n)
  \/ StartManualSettle(p)
  \/ StartRetry(p)
  \/ StartResolveReversal(p)

WorkerTick == ClaimNextPendingDispatch \/ \E n \in Attempt : ConfirmSandboxDispatch(n)

Environment ==
  \/ \E n \in Attempt : ProviderPays(n) \/ ProviderRejects(n) \/ BankReturns(n)
  \/ HumanPays
  \/ LateDeposit
  \/ \E p \in Procs : Interrupted(p) \/ CallInterrupted(p)

Next ==
  \/ HandleDepositConfirmed
  \/ WorkerTick
  \/ PageTimedOutConfirmation
  \/ \E p \in Procs : Continue(p)
  \/ \E p \in Requests : Arrive(p)
  \/ Environment

Spec == Init /\ [][Next]_vars

\* Goroutines keep running, the outbox delivers, and both tickers keep
\* ticking.  Nothing is assumed of providers, ops or depositors.
Fairness ==
  /\ WF_vars(HandleDepositConfirmed)
  /\ WF_vars(WorkerTick)
  /\ WF_vars(PageTimedOutConfirmation)
  /\ \A p \in Procs : WF_vars(Continue(p))

LiveSpec == Spec /\ Fairness

-----------------------------------------------------------------------------
(* Derived state, for the properties. *)

Quiet == \A p \in Procs : At(p, "idle")
Live(n) == flight[n] \in {"inflight", "paid"}

\* The balance of tenant_payable for this session.
Owed ==
  ledger[FxConversion] + ledger[Return] - ledger[ManualPayout]
  + MapThenSumSet(LAMBDA n : ledger[<<"settlement_reversal", n>>]
                              - ledger[<<"settlement_payout", n>>], Attempt)

\* The session statuses that go with a settlement status.
SessionsFor(status) ==
  CASE status = "none" -> {"deposit_confirmed"}
    [] status \in {"pending_dispatch", "dispatching"} -> {"deposit_confirmed", "settling"}
    [] status = "awaiting_manual_payout" -> {"settling"}
    [] OTHER -> {status}

-----------------------------------------------------------------------------
(* Properties. *)

Promise == INSTANCE SessionLifecycle WITH
  status <- session,
  approved <- TRUE,
  confirmed <- TRUE,
  job <- (row.status # "none"),
  paid <- (\E n \in Attempt : attempts[n].status = "succeeded")

\* The settlement module keeps the session to its lifecycle from
\* deposit_confirmed on: settled only after a recorded success, reversed only
\* after settled, whatever handlers race for the session's row.
KeepsLifecycle == Promise!SpecFromHandOver

\* A session is paid once.  Of its attempts one at most is in flight or paid:
\* dispatch.go claims a ledger key before each call and starts a new attempt only
\* when the previous one is known to be dead.  Payments by hand count too: an
\* attempt and a payment by hand, or two of them, can only both happen when a
\* retry has overtaken an alert (ops.go lets it, "instead of paying by hand",
\* without knowing whether somebody has paid or is about to), and each alert it
\* overtakes adds one payment at most.
NoDoublePayout ==
  LET live == Cardinality({n \in Attempt : Live(n)})
  IN live <= 1 /\ live + chat.paid <= 1 + chat.overtaken

\* A claim reversed in the ledger is never that of money still moving: only a
\* confirmed failure posts settlement_reversal.
ReversedClaimIsDead == \A n \in Attempt : Posted(Reversal(n)) => ~Live(n)

\* tenant_payable is never debited for more than was credited, at any point
\* between the statements of concurrent handlers.
PayableNeverOverdrawn == Owed >= 0

\* An attempt resolved once keeps its resolution, whatever callbacks and ops
\* confirmations race for it.
ResolvedAttemptsStay ==
  [][\A n \in Attempt : attempts[n].status \notin {"none", "dispatched"}
                          => attempts'[n].status = attempts[n].status]_vars

\* Money goes to the latest destination known: a correction ops have supplied
\* is what the next attempt pays to, not the details of the last one, and the
\* attempts after that one pay to the corrected details too.
Addressed(n) == attempts[n].status # "none" /\ attempts[n].dest # NoDest
LastAddressed(n) == Addressed(n) /\ \A m \in Attempt : m > n => ~Addressed(m)
PaysLatestDestination ==
  [][\A n \in Attempt :
       attempts[n].status = "none" /\ attempts'[n].status = "dispatched" =>
         IF row.dest # NoDest
         THEN attempts'[n].dest = row.dest
         ELSE \A m \in Attempt : LastAddressed(m) => attempts'[n].dest = attempts[m].dest]_vars

\* A compensating reversal is only ever that of an attempt recorded as failed,
\* and stays so: no callback can make a reversed attempt succeed.
ReversalsAreOfFailures ==
  \A n \in Attempt : Posted(Reversal(n)) => attempts[n].status \in Failed

\* When no handler is running, the ledger says that the row's amount has been
\* paid exactly when the row does: settled, or settling with an attempt out.  The
\* amount is what fx_conversion credited unless a deposit was confirmed between
\* a dispatch and its retry.
LiabilityMatchesStatus ==
  Quiet =>
    Owed = ledger[FxConversion]
           - IF \/ row.status = "settled"
                \/ row.status = "settling" /\ \E n \in Attempt : Open(n)
             THEN row.pay ELSE 0

\* When no handler is running, session and settlement are in the same state
\* (awaiting_manual_payout being the settlement's own), up to the first retry:
\* one accepted between failSettlement's two statements can part them.
StatusesAgree ==
  Quiet /\ retries = 0 => session \in SessionsFor(row.status)

\* When no handler is running, an attempt that succeeded has settled the
\* settlement: the callback for it is answered as a no-op from then on.
SucceededAttemptSettles ==
  Quiet /\ (\E n \in Attempt : attempts[n].status = "succeeded")
    => row.status \in {"settled", "reversed", "reversal_resolved"}

\* A confirmed deposit is settled, or somebody is told: the payout resolves,
\* or ops are paged for it, even if the provider never calls back.  Up to the
\* first retry: one that overtakes the session's transition to
\* settlement_failed can leave the row settling with nothing dispatched.
PayoutResolvesOrPages ==
  row.status = "pending_dispatch"
    ~> (row.status = "settled" \/ row.paged \/ retries > 0)

=============================================================================
