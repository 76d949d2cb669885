------------------------------- MODULE Ledger -------------------------------
(***************************************************************************)
(* The double-entry ledger (internal/ledger): concurrent calls of Post,    *)
(* each one database transaction that takes the unique-index lock of its   *)
(* idempotency key and then the row locks of the balances it touches, and  *)
(* the reconciliation job with its discrepancies.  Settlement uses Post as *)
(* one atomic step; this module is what that step abstracts.               *)
(***************************************************************************)
EXTENDS Integers, SequencesExt, FiniteSets

CONSTANTS
  Accounts,
  Assets,
  Transactions,  \* [key, entries], entries of [account, asset, direction, amount]
  Callers,       \* the goroutines that post
  NoCaller, NoTxn, NoAccount,
  MaxFaults,     \* bound: failed statements, lost connections, crashes
  MaxDrifts,     \* bound: changes of ledger_balances from outside Post
  MaxResolved    \* bound: discrepancies ops resolve

ASSUME LedgerAssumption ==
  /\ \A t \in Transactions : t.entries \in Seq([account : Accounts, asset : Assets,
                                                direction : {"debit", "credit"},
                                                amount : Nat \ {0}])
  /\ NoCaller \notin Callers
  /\ NoTxn \notin Transactions
  /\ NoAccount \notin Accounts
  /\ MaxFaults \in Nat /\ MaxDrifts \in Nat /\ MaxResolved \in Nat

Keys == {t.key : t \in Transactions}

VARIABLES
  posted,    \* the committed transactions, in the order of their commits
  balance,   \* committed ledger_balances
  txn,       \* the transaction each caller is posting
  pc,        \* its next statement
  next,      \* the entry it inserts next
  staged,    \* the balances its open database transaction has written
  result,    \* what its last call of Post returned
  keyLock,   \* the caller whose uncommitted insert holds a key
  rowLock,   \* the caller that holds a balance row
  found,     \* the drifts the current sweep has still to flag
  flagging,  \* the one whose open discrepancies it has just looked up
  open,      \* the drift amounts of an account's unresolved discrepancies
  outside,   \* what changes from outside Post have added to a balance
  faults, drifts, resolved

postVars == <<posted, balance, txn, pc, next, staged, result, keyLock, rowLock>>
sweepVars == <<found, flagging>>
opsVars == <<open, resolved>>
driftVars == <<outside, drifts>>
vars == <<postVars, sweepVars, opsVars, driftVars, faults>>

Signed(e) == IF e.direction = "debit" THEN e.amount ELSE -e.amount

\* The net debit of the entries In selects.
Net(entries, In(_)) ==
  SumFunction([j \in DOMAIN entries |-> IF In(entries[j]) THEN Signed(entries[j]) ELSE 0])

\* The fresh sum of an account's entries, transaction by transaction.
Computed(a) ==
  SumFunction([i \in DOMAIN posted |-> Net(posted[i].entries, LAMBDA e : e.account = a)])

IsPosted(key) == \E i \in DOMAIN posted : posted[i].key = key

ValidateBalance(entries) ==
  \A asset \in Assets : Net(entries, LAMBDA e : e.asset = asset) = 0

Results == {"none", "rejected", "already_posted", "posted", "error"}

TypeOK ==
  /\ posted \in Seq(Transactions)
  /\ balance \in [Accounts -> Int]
  /\ txn \in [Callers -> Transactions \cup {NoTxn}]
  /\ \A c \in Callers :
       /\ txn[c] = NoTxn <=> pc[c] = "idle"
       /\ pc[c] \in {"idle", "claim", "entry", "commit"}
       /\ pc[c] = "entry" => next[c] \in DOMAIN txn[c].entries
       /\ DOMAIN staged[c] = {a \in Accounts : rowLock[a] = c}
  /\ result \in [Callers -> Results]
  /\ keyLock \in [Keys -> Callers \cup {NoCaller}]
  /\ rowLock \in [Accounts -> Callers \cup {NoCaller}]
  /\ flagging \in Accounts \cup {NoAccount}
  /\ outside \in [Accounts -> Int]
  /\ faults \in 0..MaxFaults /\ drifts \in 0..MaxDrifts /\ resolved \in 0..MaxResolved

Init ==
  /\ posted = <<>>
  /\ balance = [a \in Accounts |-> 0]
  /\ txn = [c \in Callers |-> NoTxn]
  /\ pc = [c \in Callers |-> "idle"]
  /\ next = [c \in Callers |-> 1]
  /\ staged = [c \in Callers |-> [a \in {} |-> 0]]
  /\ result = [c \in Callers |-> "none"]
  /\ keyLock = [k \in Keys |-> NoCaller]
  /\ rowLock = [a \in Accounts |-> NoCaller]
  /\ found = {} /\ flagging = NoAccount
  /\ open = [a \in Accounts |-> <<>>]
  /\ outside = [a \in Accounts |-> 0]
  /\ faults = 0 /\ drifts = 0 /\ resolved = 0

-----------------------------------------------------------------------------
(* Post. *)

Release(c) ==
  /\ txn' = [txn EXCEPT ![c] = NoTxn]
  /\ pc' = [pc EXCEPT ![c] = "idle"]
  /\ next' = [next EXCEPT ![c] = 1]
  /\ staged' = [staged EXCEPT ![c] = [a \in {} |-> 0]]
  /\ keyLock' = [k \in Keys |-> IF keyLock[k] = c THEN NoCaller ELSE keyLock[k]]
  /\ rowLock' = [a \in Accounts |-> IF rowLock[a] = c THEN NoCaller ELSE rowLock[a]]

Rollback(c, why) ==
  /\ Release(c)
  /\ result' = [result EXCEPT ![c] = why]
  /\ UNCHANGED <<posted, balance>>

PostRejected(c, t) ==
  /\ pc[c] = "idle"
  /\ t.entries = <<>> \/ ~ValidateBalance(t.entries)
  /\ result[c] # "rejected"
  /\ result' = [result EXCEPT ![c] = "rejected"]
  /\ UNCHANGED <<posted, balance, txn, pc, next, staged, keyLock, rowLock>>
  /\ UNCHANGED <<sweepVars, opsVars, driftVars, faults>>

BeginPost(c, t) ==
  /\ pc[c] = "idle"
  /\ t.entries # <<>> /\ ValidateBalance(t.entries)
  /\ txn' = [txn EXCEPT ![c] = t]
  /\ pc' = [pc EXCEPT ![c] = "claim"]
  /\ result' = [result EXCEPT ![c] = "none"]
  /\ UNCHANGED <<posted, balance, next, staged, keyLock, rowLock>>
  /\ UNCHANGED <<sweepVars, opsVars, driftVars, faults>>

\* INSERT ... ON CONFLICT DO NOTHING waits for an uncommitted insert of the
\* same key, and then finds it committed or gone.
MayClaim_NoWait(key) == TRUE
MayClaim(key) == keyLock[key] = NoCaller

Claim(c) ==
  /\ keyLock' = [keyLock EXCEPT ![txn[c].key] = c]
  /\ pc' = [pc EXCEPT ![c] = "entry"]
  /\ UNCHANGED <<posted, balance, txn, next, staged, result, rowLock>>

ClaimKey_Impatient(c) ==
  /\ pc[c] = "claim"
  /\ IF IsPosted(txn[c].key) \/ ~MayClaim(txn[c].key)
     THEN Rollback(c, "already_posted")
     ELSE Claim(c)
  /\ UNCHANGED <<sweepVars, opsVars, driftVars, faults>>

ClaimKey(c) ==
  /\ pc[c] = "claim"
  /\ MayClaim(txn[c].key)
  /\ IF IsPosted(txn[c].key)
     THEN Rollback(c, "already_posted")
     ELSE Claim(c)
  /\ UNCHANGED <<sweepVars, opsVars, driftVars, faults>>

\* The balance an update adds to: the transaction's own, or the committed one.
Current(c, a) == IF a \in DOMAIN staged[c] THEN staged[c][a] ELSE balance[a]

MayUpdate_NoLock(c, a) == TRUE
MayUpdate(c, a) == rowLock[a] \in {NoCaller, c}

InsertEntry(c) ==
  /\ pc[c] = "entry"
  /\ LET e == txn[c].entries[next[c]] IN
       /\ MayUpdate(c, e.account)
       /\ rowLock' = [rowLock EXCEPT ![e.account] = c]
       /\ staged' = [staged EXCEPT ![c] =
            [a \in DOMAIN @ \cup {e.account} |->
               IF a = e.account THEN Current(c, a) + Signed(e) ELSE @[a]]]
  /\ IF next[c] < Len(txn[c].entries)
     THEN next' = [next EXCEPT ![c] = @ + 1] /\ UNCHANGED pc
     ELSE pc' = [pc EXCEPT ![c] = "commit"] /\ UNCHANGED next
  /\ UNCHANGED <<posted, balance, txn, result, keyLock>>
  /\ UNCHANGED <<sweepVars, opsVars, driftVars, faults>>

\* A commit whose acknowledgement is lost has happened all the same.
CommitPost(c) ==
  /\ pc[c] = "commit"
  /\ posted' = Append(posted, txn[c])
  /\ balance' = [a \in Accounts |-> Current(c, a)]
  /\ Release(c)
  /\ \/ /\ result' = [result EXCEPT ![c] = "posted"]
        /\ UNCHANGED faults
     \/ /\ faults < MaxFaults
        /\ faults' = faults + 1
        /\ result' = [result EXCEPT ![c] = "error"]
  /\ UNCHANGED <<sweepVars, opsVars, driftVars>>

AbortPost(c) ==
  /\ pc[c] # "idle"
  /\ faults < MaxFaults
  /\ faults' = faults + 1
  /\ Rollback(c, "error")
  /\ UNCHANGED <<sweepVars, opsVars, driftVars>>

\* The caller whose lock c waits for, NoCaller if it waits for none.
WaitsFor(c) ==
  LET holder == CASE pc[c] = "claim" -> keyLock[txn[c].key]
                  [] pc[c] = "entry" -> rowLock[txn[c].entries[next[c]].account]
                  [] OTHER -> NoCaller
  IN IF holder = c THEN NoCaller ELSE holder

InCycle(c) ==
  \E S \in SUBSET Callers : c \in S /\ S = {WaitsFor(d) : d \in S}

\* PostgreSQL aborts a transaction of a cycle of waiting transactions.
BreakDeadlock_Never(c) == InCycle(c) /\ FALSE
BreakDeadlock(c) ==
  /\ InCycle(c)
  /\ Rollback(c, "error")
  /\ UNCHANGED <<sweepVars, opsVars, driftVars, faults>>

-----------------------------------------------------------------------------
(* The reconciliation job. *)

Cached_Uncommitted(a) ==
  IF rowLock[a] = NoCaller THEN balance[a] ELSE staged[rowLock[a]][a]
Cached(a) == balance[a]

Differs_Above(a) == Cached(a) > Computed(a)
Differs(a) == Cached(a) # Computed(a)

\* One query compares every cached balance with a fresh sum.
SweepOnce ==
  /\ found = {} /\ flagging = NoAccount
  /\ found' = {<<a, Cached(a) - Computed(a)>> : a \in {x \in Accounts : Differs(x)}}
  /\ found' # {}
  /\ UNCHANGED <<postVars, flagging, opsVars, driftVars, faults>>

\* flagDrift looks for an open discrepancy of the account, then inserts one.
HasOpen(a) == open[a] # <<>>

CheckOpen(d) ==
  /\ flagging = NoAccount
  /\ d \in found
  /\ IF HasOpen(d[1])
     THEN found' = found \ {d} /\ UNCHANGED flagging
     ELSE flagging' = d[1] /\ UNCHANGED found
  /\ UNCHANGED <<postVars, opsVars, driftVars, faults>>

InsertDiscrepancy(d) ==
  /\ d \in found /\ flagging = d[1]
  /\ open' = [open EXCEPT ![d[1]] = Append(@, d[2])]
  /\ found' = found \ {d}
  /\ flagging' = NoAccount
  /\ UNCHANGED <<postVars, resolved, driftVars, faults>>

\* The first error ends the sweep.
SweepFails ==
  /\ found # {}
  /\ faults < MaxFaults
  /\ faults' = faults + 1
  /\ found' = {} /\ flagging' = NoAccount
  /\ UNCHANGED <<postVars, opsVars, driftVars>>

ResolveDiscrepancy(a) ==
  /\ open[a] # <<>>
  /\ resolved < MaxResolved
  /\ resolved' = resolved + 1
  /\ open' = [open EXCEPT ![a] = Tail(@)]
  /\ UNCHANGED <<postVars, sweepVars, driftVars, faults>>

\* Manual intervention in, or corruption of, an unlocked balance row.
ChangedOutside(a, delta) ==
  /\ rowLock[a] = NoCaller
  /\ drifts < MaxDrifts
  /\ drifts' = drifts + 1
  /\ balance' = [balance EXCEPT ![a] = @ + delta]
  /\ outside' = [outside EXCEPT ![a] = @ + delta]
  /\ UNCHANGED <<posted, txn, pc, next, staged, result, keyLock, rowLock>>
  /\ UNCHANGED <<sweepVars, opsVars, faults>>

-----------------------------------------------------------------------------
PostStep(c) == ClaimKey(c) \/ InsertEntry(c) \/ CommitPost(c)
Flag == \E d \in found : CheckOpen(d) \/ InsertDiscrepancy(d)

Next ==
  \/ \E c \in Callers :
       \/ \E t \in Transactions : PostRejected(c, t) \/ BeginPost(c, t)
       \/ PostStep(c) \/ AbortPost(c) \/ BreakDeadlock(c)
  \/ SweepOnce \/ Flag \/ SweepFails
  \/ \E a \in Accounts :
       ResolveDiscrepancy(a) \/ (\E delta \in {-1, 1} : ChangedOutside(a, delta))

Spec == Init /\ [][Next]_vars

\* A statement that may run does, a waiting one gets a lock that is given back
\* again and again, deadlocks are detected, and the sweep keeps ticking.
LiveSpec ==
  /\ Spec
  /\ \A c \in Callers : SF_vars(PostStep(c)) /\ WF_vars(BreakDeadlock(c))
  /\ WF_vars(SweepOnce) /\ WF_vars(Flag)

-----------------------------------------------------------------------------
(* Properties. *)

\* The cached balances are the sums of the committed entries, whatever the
\* interleaving of the posts; only changes from outside make them differ.
CacheIsSumOfEntries ==
  \A a \in Accounts : balance[a] = Computed(a) + outside[a]

\* An idempotency key is claimed once.
KeyPostedOnce ==
  \A i, j \in DOMAIN posted : posted[i].key = posted[j].key => i = j

\* ErrAlreadyPosted is returned only for a key that is committed and stays so:
\* the caller may rely on another trigger having made the claim.
DuplicateMeansPosted ==
  [][\A c \in Callers :
       result'[c] = "already_posted" /\ pc[c] = "claim" /\ pc'[c] = "idle"
         => IsPosted(txn[c].key)]_vars

\* A discrepancy reports a drift that came from outside Post.
OnlyOutsideDriftIsFlagged ==
  \A a \in Accounts : \A i \in DOMAIN open[a] : open[a][i] \in (-drifts..drifts) \ {0}

\* Every call of Post returns, also when calls lock the same rows in opposite
\* orders.
EveryPostReturns == \A c \in Callers : pc[c] # "idle" ~> pc[c] = "idle"

\* A balance that stays wrong is flagged to ops.
DriftIsFlagged ==
  \A a \in Accounts : outside[a] # 0 ~> outside[a] = 0 \/ open[a] # <<>>
=============================================================================
