---------------------------- MODULE LedgerProofs ----------------------------
(***************************************************************************)
(* The promises of Post and of its reconciliation, for any accounts,       *)
(* transactions, callers and faults.                                       *)
(*                                                                         *)
(* Idempotency: the lock that an uncommitted insert of a key holds makes a *)
(* key be posted once and ErrAlreadyPosted an answer about a committed     *)
(* transaction (KeyHeld).  Balances: the row locks keep what a call has    *)
(* written equal to the committed balance and its own entries (Working),   *)
(* so a commit adds just its entries to balance and sum alike.  Drifts:    *)
(* what a sweep finds is therefore what came from outside (DriftInv).      *)
(***************************************************************************)
EXTENDS Ledger, WellFoundedInduction, FiniteSetTheorems, TLAPS

-----------------------------------------------------------------------------
(* Idempotency.                                                             *)

Typed ==
  /\ DOMAIN pc = Callers /\ DOMAIN txn = Callers /\ DOMAIN result = Callers
  /\ DOMAIN keyLock = Keys
  /\ posted \in Seq(Transactions)
  /\ \A c \in Callers : pc[c] # "idle" => txn[c] \in Transactions

\* A call past its claim holds its key, and nobody has posted it.
KeyHeld ==
  \A c \in Callers : pc[c] \in {"entry", "commit"} =>
    keyLock[txn[c].key] = c /\ ~IsPosted(txn[c].key)

Inv == Typed /\ KeyHeld /\ KeyPostedOnce

LEMMA KeysAre == \A t \in Transactions : t.key \in Keys
BY DEF Keys

\* Other callers keep what they hold when c gives up its own.
LEMMA Releasing ==
  ASSUME LedgerAssumption, Inv, NEW c \in Callers, Release(c), posted' = posted,
         DOMAIN result' = Callers
  PROVE  Inv'
<1>1. Typed'
  BY DEF Inv, Typed, Release
<1>2. KeyHeld'
  BY KeysAre DEF Inv, Typed, KeyHeld, Release, IsPosted
<1> QED  BY <1>1, <1>2 DEF Inv, KeyPostedOnce

\* The next statement of a call that stays before or after its claim.
LEMMA Stays ==
  ASSUME Inv, UNCHANGED <<posted, txn, keyLock>>, DOMAIN result' = Callers, DOMAIN pc' = Callers,
         \A c \in Callers : /\ pc'[c] \in {"entry", "commit"} <=> pc[c] \in {"entry", "commit"}
                            /\ pc'[c] # "idle" => pc[c] # "idle"
  PROVE  Inv'
BY DEF Inv, Typed, KeyHeld, KeyPostedOnce, IsPosted

LEMMA Claiming ==
  ASSUME LedgerAssumption, Inv, NEW c \in Callers, ClaimKey(c)
  PROVE  Inv'
<1>1. CASE IsPosted(txn[c].key)
  BY <1>1, Releasing DEF ClaimKey, Rollback, Inv, Typed
<1>2. CASE ~IsPosted(txn[c].key)
  <2>1. /\ pc[c] = "claim" /\ keyLock[txn[c].key] = NoCaller
        /\ keyLock' = [keyLock EXCEPT ![txn[c].key] = c]
        /\ pc' = [pc EXCEPT ![c] = "entry"]
        /\ UNCHANGED <<posted, txn, result>>
    BY <1>2 DEF ClaimKey, MayClaim, Claim
  <2>2. Typed'
    BY <2>1 DEF Inv, Typed
  <2>3. KeyHeld'
    BY <1>2, <2>1, KeysAre DEF Inv, Typed, KeyHeld, IsPosted, LedgerAssumption
  <2> QED  BY <2>1, <2>2, <2>3 DEF Inv, KeyPostedOnce
<1> QED  BY <1>1, <1>2

LEMMA Committing ==
  ASSUME LedgerAssumption, Inv, NEW c \in Callers, CommitPost(c)
  PROVE  Inv'
<1> DEFINE t == txn[c]
<1>1. /\ pc[c] = "commit" /\ t \in Transactions /\ ~IsPosted(t.key)
      /\ keyLock[t.key] = c
      /\ posted \in Seq(Transactions) /\ posted' = Append(posted, t)
      /\ Release(c) /\ DOMAIN result' = Callers
  BY DEF CommitPost, Inv, Typed, KeyHeld
<1>2. /\ posted' \in Seq(Transactions)
      /\ DOMAIN posted = 1..Len(posted) /\ Len(posted) \in Nat
      /\ DOMAIN posted' = 1..(Len(posted) + 1)
      /\ \A i \in DOMAIN posted : posted'[i] = posted[i]
      /\ posted'[Len(posted) + 1] = t
  <2> HIDE DEF t
  <2> QED  BY <1>1
<1>3. Typed'
  BY <1>1, <1>2 DEF Inv, Typed, Release
<1>4. KeyHeld'
  <2> SUFFICES ASSUME NEW d \in Callers, pc'[d] \in {"entry", "commit"}
               PROVE  keyLock'[txn'[d].key] = d /\ ~IsPosted(txn[d].key)'
    BY DEF KeyHeld, IsPosted
  <2>1. /\ d # c /\ txn'[d] = txn[d] /\ pc[d] \in {"entry", "commit"}
        /\ txn[d] \in Transactions
    BY <1>1 DEF Release, Inv, Typed
  <2>2. keyLock[txn[d].key] = d /\ ~IsPosted(txn[d].key) /\ txn[d].key \in Keys
    BY <2>1, KeysAre DEF Inv, KeyHeld
  <2>3. keyLock'[txn'[d].key] = d
    BY <1>1, <2>1, <2>2 DEF Release
  <2>4. txn[d].key # t.key
    BY <1>1, <2>1, <2>2
  <2>5. ~IsPosted(txn[d].key)'
    BY <1>2, <2>1, <2>2, <2>4 DEF IsPosted
  <2> QED  BY <2>3, <2>5
<1>5. KeyPostedOnce'
  <2> SUFFICES ASSUME NEW i \in DOMAIN posted', NEW j \in DOMAIN posted',
                      posted'[i].key = posted'[j].key
               PROVE  i = j
    BY DEF KeyPostedOnce
  <2>1. \A k \in DOMAIN posted : posted[k].key # t.key
    BY <1>1 DEF IsPosted
  <2> HIDE DEF t
  <2>2. CASE i \in DOMAIN posted /\ j \in DOMAIN posted
    BY <1>2, <2>2 DEF Inv, KeyPostedOnce
  <2>3. CASE i = Len(posted) + 1 /\ j \in DOMAIN posted
    BY <1>2, <2>1, <2>3
  <2>4. CASE i \in DOMAIN posted /\ j = Len(posted) + 1
    BY <1>2, <2>1, <2>4
  <2> QED  BY <1>2, <2>2, <2>3, <2>4
<1> QED  BY <1>3, <1>4, <1>5 DEF Inv

LEMMA InvStep ==
  ASSUME LedgerAssumption, Inv, [Next]_vars
  PROVE  Inv'
<1>1. ASSUME NEW c \in Callers, NEW t \in Transactions, PostRejected(c, t) PROVE Inv'
  BY <1>1, Stays DEF PostRejected, Inv, Typed
<1>2. ASSUME NEW c \in Callers, NEW t \in Transactions, BeginPost(c, t) PROVE Inv'
  <2>1. Typed'
    BY <1>2 DEF BeginPost, Inv, Typed
  <2>2. KeyHeld'
    BY <1>2 DEF BeginPost, Inv, Typed, KeyHeld, IsPosted
  <2> QED  BY <1>2, <2>1, <2>2 DEF BeginPost, Inv, KeyPostedOnce
<1>3. ASSUME NEW c \in Callers, PostStep(c) PROVE Inv'
  <2>1. CASE InsertEntry(c)
    BY <2>1, Stays DEF InsertEntry, Inv, Typed
  <2> QED  BY <1>3, <2>1, Claiming, Committing DEF PostStep
<1>4. ASSUME NEW c \in Callers, AbortPost(c) \/ BreakDeadlock(c) PROVE Inv'
  BY <1>4, Releasing DEF AbortPost, BreakDeadlock, Rollback, Inv, Typed
<1>5. CASE \/ SweepOnce \/ Flag \/ SweepFails
           \/ \E a \in Accounts : \/ ResolveDiscrepancy(a)
                                  \/ \E delta \in {-1, 1} : ChangedOutside(a, delta)
  BY <1>5, Stays DEF SweepOnce, Flag, CheckOpen, InsertDiscrepancy, SweepFails,
     ResolveDiscrepancy, ChangedOutside, postVars, Inv, Typed
<1>6. CASE UNCHANGED vars
  BY <1>6, Stays DEF vars, postVars, Inv, Typed
<1> QED  BY <1>1, <1>2, <1>3, <1>4, <1>5, <1>6 DEF Next

LEMMA Invariant == Spec => []Inv
<1>1. Init => Inv
  BY DEF Init, Inv, Typed, KeyHeld, KeyPostedOnce
<1>2. Inv /\ [Next]_vars => Inv'
  BY InvStep, LedgerAssumption
<1> QED  BY <1>1, <1>2, PTL DEF Spec

-----------------------------------------------------------------------------
\* ledger.go:123, ON CONFLICT DO NOTHING: whatever goroutines post under one key,
\* and wherever they are cut short, one transaction is committed.
THEOREM OnePostPerKey == Spec => []KeyPostedOnce
<1>1. Inv => KeyPostedOnce
  BY DEF Inv
<1> QED  BY <1>1, Invariant, PTL

\* ledger.go:128, ErrAlreadyPosted: who gets it may rely on the transaction, and
\* never on one that is still to be rolled back.
LEMMA AnswerOfClaim ==
  ASSUME Inv, [Next]_vars, NEW c \in Callers,
         result'[c] = "already_posted", pc[c] = "claim", pc'[c] = "idle"
  PROVE  IsPosted(txn[c].key)
<1>. USE DEF Inv, Typed
<1>1. ASSUME NEW d \in Callers, NEW t \in Transactions, PostRejected(d, t) \/ BeginPost(d, t)
      PROVE  FALSE
  BY <1>1 DEF PostRejected, BeginPost
<1>2. ASSUME NEW d \in Callers, InsertEntry(d) \/ CommitPost(d) PROVE FALSE
  BY <1>2 DEF InsertEntry, CommitPost, Release
<1>3. ASSUME NEW d \in Callers, AbortPost(d) \/ BreakDeadlock(d) PROVE FALSE
  BY <1>3 DEF AbortPost, BreakDeadlock, Rollback, Release
<1>4. ASSUME NEW d \in Callers, ClaimKey(d) PROVE IsPosted(txn[c].key)
  BY <1>4 DEF ClaimKey, Claim, Rollback, Release
<1>5. pc' # pc
  OBVIOUS
<1> QED  BY <1>1, <1>2, <1>3, <1>4, <1>5 DEF Next, PostStep, vars, postVars, SweepOnce, Flag,
            CheckOpen, InsertDiscrepancy, SweepFails, ResolveDiscrepancy, ChangedOutside

THEOREM DuplicateIsCommitted == Spec => DuplicateMeansPosted
<1>1. Inv /\ [Next]_vars =>
        [\A c \in Callers :
           result'[c] = "already_posted" /\ pc[c] = "claim" /\ pc'[c] = "idle"
             => IsPosted(txn[c].key)]_vars
  BY AnswerOfClaim
<1> QED  BY <1>1, Invariant, PTL DEF Spec, DuplicateMeansPosted

-----------------------------------------------------------------------------
(* Sums over finite sets.                                                   *)

\* What is true of all finite subsets smaller than a given one is true of all.
LEMMA SmallestSubset ==
  ASSUME NEW S, IsFiniteSet(S), NEW Bad \in SUBSET SUBSET S, Bad # {}
  PROVE  \E t \in Bad : \A u \in Bad : ~(u \subseteq t /\ u # t)
<1>1. Bad \subseteq FiniteSubsetsOf(S)
  <2>1. \A t \in Bad : IsFiniteSet(t)
    BY FS_Subset
  <2> QED  BY <2>1 DEF FiniteSubsetsOf
<1>2. PICK t \in Bad : \A u \in Bad : ~(<<u, t>> \in StrictSubsetOrdering(S))
  BY <1>1, WFMin, FS_StrictSubsetOrderingWellFounded
<1>3. ASSUME NEW u \in Bad, u \subseteq t, u # t PROVE FALSE
  BY <1>1, <1>2, <1>3 DEF StrictSubsetOrdering, FiniteSubsetsOf
<1> QED  BY <1>3

Pick(s) == CHOOSE x \in s : TRUE
Sums(f, S, g) ==
  g = [s \in SUBSET S |-> IF s = {} THEN 0 ELSE f[Pick(s)] + g[s \ {Pick(s)}]]
Total(f, S) == (CHOOSE g : Sums(f, S, g))[S]

\* The library's sum is the entry for the whole set in its table of partial sums.
LEMMA SumUnfolds ==
  ASSUME NEW f, NEW S
  PROVE  SumFunctionOnSet(f, S) = Total(f, S)
BY DEF SumFunctionOnSet, FoldFunctionOnSet, MapThenFoldSet, Sums, Pick, Total

\* The element the library takes out first.
LEMMA Picked == ASSUME NEW s, s # {} PROVE Pick(s) \in s
BY DEF Pick

\* Two tables of partial sums agree where both are defined.
LEMMA SumsAgree ==
  ASSUME NEW S, IsFiniteSet(S), NEW T \in SUBSET S, NEW f, NEW g, NEW h,
         Sums(f, S, g), Sums(f, T, h)
  PROVE  g[T] = h[T]
<1> DEFINE Bad == {t \in SUBSET T : g[t] # h[t]}
<1>1. CASE Bad = {}
  BY <1>1
<1>2. CASE Bad # {}
  <2>1. IsFiniteSet(T)
    BY FS_Subset
  <2>2. PICK t \in Bad : \A u \in Bad : ~(u \subseteq t /\ u # t)
    <3>1. Bad \in SUBSET SUBSET T
      OBVIOUS
    <3> HIDE DEF Bad
    <3> QED  BY <1>2, <2>1, <3>1, SmallestSubset
  <2>3. t \in SUBSET S /\ t \in SUBSET T
    OBVIOUS
  <2>4. t # {}
    <3>1. g[{}] = 0 /\ h[{}] = 0
      BY DEF Sums
    <3> QED  BY <2>2, <3>1
  <2> DEFINE u == t \ {Pick(t)}
  <2>5. u \subseteq t /\ u # t /\ u \in SUBSET T
    BY <2>3, <2>4, Picked
  <2>6. g[u] = h[u]
    BY <2>2, <2>5
  <2>7. g[t] = f[Pick(t)] + g[u] /\ h[t] = f[Pick(t)] + h[u]
    BY <2>3, <2>4 DEF Sums
  <2> QED  BY <2>2, <2>6, <2>7
<1> QED  BY <1>1, <1>2

\* Every finite set has a table of partial sums: a smallest one without would get
\* one from those of its subsets.
LEMMA SumsExist ==
  ASSUME NEW S, IsFiniteSet(S), NEW f
  PROVE  \E g : Sums(f, S, g)
<1> DEFINE Bad == {t \in SUBSET S : ~\E g : Sums(f, t, g)}
<1>1. CASE Bad = {}
  BY <1>1
<1>2. CASE Bad # {}
  <2>1. PICK t \in Bad : \A u \in Bad : ~(u \subseteq t /\ u # t)
    <3>1. Bad \in SUBSET SUBSET S
      OBVIOUS
    <3> HIDE DEF Bad
    <3> QED  BY <1>2, <3>1, SmallestSubset
  <2> DEFINE g == [s \in SUBSET t |-> IF s = {} THEN 0
                                    ELSE f[Pick(s)] + Total(f, s \ {Pick(s)})]
  <2>2. ASSUME NEW s \in SUBSET t, s # {}
        PROVE  g[s \ {Pick(s)}] = Total(f, s \ {Pick(s)})
    <3> DEFINE u == s \ {Pick(s)}
    <3>1. u \in SUBSET t /\ u \in SUBSET S /\ u # t /\ IsFiniteSet(u)
      BY <2>2, Picked, FS_Subset
    <3>2. PICK h : Sums(f, u, h) /\ h = CHOOSE e : Sums(f, u, e)
      BY <2>1, <3>1
    <3>3. CASE u = {}
      <4>1. h[u] = 0
        BY <3>2, <3>3 DEF Sums
      <4>2. g[u] = 0
        BY <3>1, <3>3
      <4>3. Total(f, u) = 0
        BY <3>2, <4>1 DEF Total
      <4> QED  BY <4>2, <4>3
    <3>4. CASE u # {}
      <4> DEFINE v == u \ {Pick(u)}
      <4>1. v \in SUBSET u /\ v \in SUBSET S /\ v # t /\ v \in SUBSET t
        BY <3>1
      <4>2. PICK e : Sums(f, v, e) /\ e = CHOOSE k : Sums(f, v, k)
        BY <2>1, <3>1, <3>4, Picked, <4>1
      <4>3. h[v] = e[v]
        BY <3>1, <3>2, <4>1, <4>2, SumsAgree
      <4>4. h[u] = f[Pick(u)] + h[v]
        BY <3>2, <3>4 DEF Sums
      <4>5. g[u] = f[Pick(u)] + Total(f, v)
        BY <3>1, <3>4
      <4> QED  BY <3>2, <4>2, <4>3, <4>4, <4>5 DEF Total
    <3> QED  BY <3>3, <3>4
  <2>3. Sums(f, t, g)
    BY <2>2 DEF Sums
  <2> QED  BY <2>3
<1> QED  BY <1>1, <1>2

\* The two equations that define a sum, and the one that makes it one: any
\* element may be taken out first.
LEMMA SumRecursion ==
  ASSUME NEW S, IsFiniteSet(S), NEW f, S # {}
  PROVE  SumFunctionOnSet(f, S) = f[Pick(S)] + SumFunctionOnSet(f, S \ {Pick(S)})
<1> DEFINE T == S \ {Pick(S)}
<1>1. T \in SUBSET S /\ IsFiniteSet(T)
  BY FS_Subset
<1>2. PICK g : Sums(f, S, g) /\ g = CHOOSE h : Sums(f, S, h)
  BY SumsExist
<1>3. PICK h : Sums(f, T, h) /\ h = CHOOSE e : Sums(f, T, e)
  BY <1>1, SumsExist
<1>4. g[T] = h[T]
  BY <1>1, <1>2, <1>3, SumsAgree
<1>5. g[S] = f[Pick(S)] + g[T]
  BY <1>2 DEF Sums
<1>6. Total(f, S) = g[S] /\ Total(f, T) = h[T]
  BY <1>2, <1>3 DEF Total
<1> QED  BY <1>4, <1>5, <1>6, SumUnfolds

\* The sum over no element.
LEMMA SumOfNothing == ASSUME NEW f PROVE SumFunctionOnSet(f, {}) = 0
<1>1. PICK g : Sums(f, {}, g) /\ g = CHOOSE h : Sums(f, {}, h)
  BY SumsExist, FS_EmptySet
<1>2. g[{}] = 0
  BY <1>1 DEF Sums
<1> QED  BY <1>1, <1>2, SumUnfolds DEF Total

\* A sum of integers is an integer.
LEMMA SumIsInt ==
  ASSUME NEW S, IsFiniteSet(S), NEW f, \A x \in S : f[x] \in Int
  PROVE  SumFunctionOnSet(f, S) \in Int
<1> DEFINE Sum(t) == SumFunctionOnSet(f, t)
           Bad == {t \in SUBSET S : Sum(t) \notin Int}
<1>1. CASE Bad = {}
  BY <1>1
<1>2. CASE Bad # {}
  <2>1. PICK t \in Bad : \A u \in Bad : ~(u \subseteq t /\ u # t)
    <3>1. Bad \in SUBSET SUBSET S
      OBVIOUS
    <3> HIDE DEF Bad
    <3> QED  BY <1>2, <3>1, SmallestSubset
  <2>2. t # {} /\ IsFiniteSet(t)
    <3>1. t # {}
      BY SumOfNothing
    <3> QED  BY <3>1, FS_Subset
  <2> DEFINE u == t \ {Pick(t)}
  <2>3. Pick(t) \in S /\ u \in SUBSET S /\ u \subseteq t /\ u # t
    BY <2>2, Picked
  <2>4. Sum(u) \in Int
    BY <2>1, <2>3
  <2>5. Sum(t) = f[Pick(t)] + Sum(u)
    BY <2>2, SumRecursion
  <2> HIDE DEF Sum
  <2> QED  BY <2>3, <2>4, <2>5
<1> QED  BY <1>1, <1>2

\* Whatever element is taken out, the rest adds up to the rest of the sum.
LEMMA SumTakesOut ==
  ASSUME NEW S, IsFiniteSet(S), NEW f, \A x \in S : f[x] \in Int, NEW a \in S
  PROVE  SumFunctionOnSet(f, S) = f[a] + SumFunctionOnSet(f, S \ {a})
<1> DEFINE Sum(t) == SumFunctionOnSet(f, t)
           Bad == {t \in SUBSET S : \E b \in t : Sum(t) # f[b] + Sum(t \ {b})}
<1>1. CASE Bad = {}
  BY <1>1
<1>2. CASE Bad # {}
  <2>1. PICK t \in Bad : \A u \in Bad : ~(u \subseteq t /\ u # t)
    <3>1. Bad \in SUBSET SUBSET S
      OBVIOUS
    <3> HIDE DEF Bad
    <3> QED  BY <1>2, <3>1, SmallestSubset
  <2>2. PICK b \in t : Sum(t) # f[b] + Sum(t \ {b})
    BY <2>1
  <2> DEFINE p == Pick(t)
             v == t \ {b, p}
  <2>3. IsFiniteSet(t) /\ t # {} /\ p \in t
    BY <2>2, FS_Subset, Picked
  <2>4. Sum(t) = f[p] + Sum(t \ {p})
    BY <2>3, SumRecursion
  <2>5. b # p
    BY <2>2, <2>4
  <2>6. Sum(t \ {p}) = f[b] + Sum(v)
    <3>1. /\ t \ {p} \notin Bad /\ t \ {p} \in SUBSET S /\ b \in t \ {p}
          /\ (t \ {p}) \ {b} = v
      BY <2>1, <2>2, <2>3, <2>5
    <3> QED  BY <3>1
  <2>7. Sum(t \ {b}) = f[p] + Sum(v)
    <3>1. /\ t \ {b} \notin Bad /\ t \ {b} \in SUBSET S /\ p \in t \ {b}
          /\ (t \ {b}) \ {p} = v
      BY <2>1, <2>2, <2>3, <2>5
    <3> QED  BY <3>1
  <2>8. Sum(v) \in Int /\ f[b] \in Int /\ f[p] \in Int
    <3>1. IsFiniteSet(v) /\ \A x \in v : f[x] \in Int
      BY FS_Subset
    <3> QED  BY <2>2, <2>3, <3>1, SumIsInt
  <2> HIDE DEF Sum, v, p
  <2> QED  BY <2>2, <2>4, <2>6, <2>7, <2>8
<1> QED  BY <1>1, <1>2

\* Only the summands count.
LEMMA SameSum ==
  ASSUME NEW S, IsFiniteSet(S), NEW f, NEW g, \A x \in S : f[x] = g[x]
  PROVE  SumFunctionOnSet(f, S) = SumFunctionOnSet(g, S)
<1> DEFINE Bad == {t \in SUBSET S : SumFunctionOnSet(f, t) # SumFunctionOnSet(g, t)}
<1>1. CASE Bad = {}
  BY <1>1
<1>2. CASE Bad # {}
  <2>1. PICK t \in Bad : \A u \in Bad : ~(u \subseteq t /\ u # t)
    <3>1. Bad \in SUBSET SUBSET S
      OBVIOUS
    <3> HIDE DEF Bad
    <3> QED  BY <1>2, <3>1, SmallestSubset
  <2>2. t # {} /\ IsFiniteSet(t)
    BY SumOfNothing, FS_Subset
  <2> DEFINE u == t \ {Pick(t)}
  <2>3. Pick(t) \in S /\ u \in SUBSET S /\ u \subseteq t /\ u # t
    BY <2>2, Picked
  <2>4. SumFunctionOnSet(f, u) = SumFunctionOnSet(g, u)
    BY <2>1, <2>3
  <2>5. /\ SumFunctionOnSet(f, t) = f[Pick(t)] + SumFunctionOnSet(f, u)
        /\ SumFunctionOnSet(g, t) = g[Pick(t)] + SumFunctionOnSet(g, u)
    BY <2>2, SumRecursion
  <2> QED  BY <2>1, <2>3, <2>4, <2>5
<1> QED  BY <1>1, <1>2


-----------------------------------------------------------------------------
(* The cached balances.                                                     *)

\* What each entry of a transaction adds to an account.
Share(t, a) ==
  [j \in DOMAIN t.entries |-> IF t.entries[j].account = a THEN Signed(t.entries[j]) ELSE 0]

\* The entries a call has inserted and not committed.
Added(c) ==
  CASE pc[c] = "entry"  -> 1..(next[c] - 1)
    [] pc[c] = "commit" -> DOMAIN txn[c].entries
    [] OTHER            -> {}

Through(c, a) == SumFunctionOnSet(Share(txn[c], a), Added(c))

RowsTyped ==
  /\ balance \in [Accounts -> Int] /\ outside \in [Accounts -> Int]
  /\ DOMAIN next = Callers /\ DOMAIN staged = Callers
  /\ DOMAIN rowLock = Accounts
  /\ \A c \in Callers :
       /\ pc[c] \in {"idle", "claim", "entry", "commit"}
       /\ pc[c] = "entry" => next[c] \in DOMAIN txn[c].entries
       /\ pc[c] \in {"idle", "claim"} => next[c] = 1
       /\ pc[c] # "idle" => 1 \in DOMAIN txn[c].entries
       /\ DOMAIN staged[c] = {a \in Accounts : rowLock[a] = c}
       /\ \A a \in DOMAIN staged[c] : staged[c][a] \in Int

\* What a call would commit is the committed balance and its own entries: the
\* row locks keep everybody else from a balance it has written.
Working == \A c \in Callers, a \in Accounts : Current(c, a) = balance[a] + Through(c, a)

BalanceInv == RowsTyped /\ Working /\ CacheIsSumOfEntries

\* The fresh sum of an account, as the sum over the transactions of sums.
Nets(p, a) ==
  [i \in DOMAIN p |-> SumFunctionOnSet(Share(p[i], a), DOMAIN p[i].entries)]

\* Computed is that sum, before and after a step.
LEMMA ComputedIs ==
  ASSUME NEW a
  PROVE  /\ Computed(a) = SumFunctionOnSet(Nets(posted, a), DOMAIN posted)
         /\ Computed(a)' = SumFunctionOnSet(Nets(posted', a), DOMAIN posted')
BY DEF Computed, Net, SumFunction, Nets, Share

\* It changes with the commits only.
LEMMA SameComputed ==
  ASSUME UNCHANGED posted, NEW a
  PROVE  Computed(a)' = Computed(a)
BY ComputedIs

\* Transactions have finitely many entries, of whole amounts.
LEMMA SharesAre ==
  ASSUME LedgerAssumption, NEW t \in Transactions, NEW a
  PROVE  /\ DOMAIN t.entries = 1..Len(t.entries) /\ Len(t.entries) \in Nat
         /\ IsFiniteSet(DOMAIN t.entries)
         /\ \A j \in DOMAIN t.entries :
              /\ t.entries[j].account \in Accounts
              /\ Signed(t.entries[j]) \in Int
              /\ Share(t, a)[j] \in Int
<1> DEFINE Entry == [account : Accounts, asset : Assets,
                     direction : {"debit", "credit"}, amount : Nat \ {0}]
<1>1. t.entries \in Seq(Entry)
  BY DEF LedgerAssumption
<1>2. \A e \in Entry : e.account \in Accounts /\ Signed(e) \in Int
  BY DEF Signed
<1> HIDE DEF Entry
<1>3. /\ DOMAIN t.entries = 1..Len(t.entries) /\ Len(t.entries) \in Nat
      /\ \A j \in DOMAIN t.entries : t.entries[j] \in Entry
  BY <1>1
<1>4. IsFiniteSet(1..Len(t.entries))
  BY <1>3, FS_Interval
<1>5. \A j \in DOMAIN t.entries : Share(t, a)[j] \in Int
  BY <1>2, <1>3 DEF Share
<1> QED  BY <1>2, <1>3, <1>4, <1>5

\* So has what a call has inserted.
LEMMA AddedAre ==
  ASSUME LedgerAssumption, Typed, RowsTyped, NEW c \in Callers, NEW a
  PROVE  Through(c, a) \in Int
<1>1. CASE pc[c] \in {"entry", "commit"}
  <2>1. txn[c] \in Transactions
    BY <1>1 DEF Typed
  <2>2. Added(c) \subseteq DOMAIN txn[c].entries
    <3>1. CASE pc[c] = "entry"
      <4>1. next[c] \in 1..Len(txn[c].entries) /\ Len(txn[c].entries) \in Nat
        BY <2>1, <3>1, SharesAre DEF RowsTyped
      <4>2. DOMAIN txn[c].entries = 1..Len(txn[c].entries)
        BY <2>1, SharesAre
      <4>3. Added(c) = 1..(next[c] - 1)
        BY <3>1 DEF Added
      <4> QED  BY <4>1, <4>2, <4>3
    <3>2. CASE pc[c] = "commit"
      BY <3>2 DEF Added
    <3> QED  BY <1>1, <3>1, <3>2
  <2>3. IsFiniteSet(DOMAIN txn[c].entries) /\ IsFiniteSet(Added(c))
    BY <2>1, <2>2, SharesAre, FS_Subset
  <2>4. \A j \in Added(c) : Share(txn[c], a)[j] \in Int
    BY <2>1, <2>2, SharesAre
  <2> QED  BY <2>3, <2>4, SumIsInt DEF Through
<1>2. CASE pc[c] \notin {"entry", "commit"}
  BY <1>2, SumOfNothing DEF Through, Added
<1> QED  BY <1>1, <1>2

\* A step of nobody's call.
LEMMA CallsWait ==
  ASSUME BalanceInv, UNCHANGED <<posted, balance, outside, txn, pc, next, staged, rowLock>>
  PROVE  BalanceInv'
<1>1. RowsTyped'
  BY DEF BalanceInv, RowsTyped
<1>2. Working'
  BY DEF BalanceInv, Working, Current, Through, Added
<1>3. CacheIsSumOfEntries'
  BY SameComputed DEF BalanceInv, CacheIsSumOfEntries
<1> QED  BY <1>1, <1>2, <1>3 DEF BalanceInv

\* A call that ends gives its rows back, and leaves the others theirs.
LEMMA Ending ==
  ASSUME LedgerAssumption, RowsTyped, NEW c \in Callers, DOMAIN pc = Callers,
         Release(c), balance' \in [Accounts -> Int], UNCHANGED outside
  PROVE  /\ RowsTyped'
         /\ \A a \in Accounts : Current(c, a)' = balance'[a] + Through(c, a)'
         /\ \A d \in Callers \ {c} : /\ staged'[d] = staged[d]
                                     /\ \A a : Through(d, a)' = Through(d, a)
<1>1. /\ txn' = [txn EXCEPT ![c] = NoTxn] /\ pc' = [pc EXCEPT ![c] = "idle"]
      /\ next' = [next EXCEPT ![c] = 1]
      /\ staged' = [staged EXCEPT ![c] = [a \in {} |-> 0]]
      /\ rowLock' = [a \in Accounts |-> IF rowLock[a] = c THEN NoCaller ELSE rowLock[a]]
  BY DEF Release
<1>2. \A a \in Accounts : rowLock'[a] # c
  BY <1>1 DEF LedgerAssumption
<1>3. \A d \in Callers \ {c}, a \in Accounts : rowLock'[a] = d <=> rowLock[a] = d
  BY <1>1 DEF LedgerAssumption
<1>4. staged'[c] = [a \in {} |-> 0] /\ pc'[c] = "idle" /\ next'[c] = 1
  BY <1>1 DEF RowsTyped
<1>5. ASSUME NEW d \in Callers \ {c}
      PROVE  staged'[d] = staged[d] /\ pc'[d] = pc[d] /\ next'[d] = next[d] /\ txn'[d] = txn[d]
  BY <1>1
<1>6. DOMAIN staged'[c] = {a \in Accounts : rowLock'[a] = c}
  BY <1>2, <1>4
<1>7. \A d \in Callers \ {c} : DOMAIN staged'[d] = {a \in Accounts : rowLock'[a] = d}
  BY <1>3, <1>5 DEF RowsTyped
<1>8. DOMAIN next' = Callers /\ DOMAIN staged' = Callers /\ DOMAIN rowLock' = Accounts
  BY <1>1 DEF RowsTyped
<1>9. RowsTyped'
  <2>1. \A d \in Callers \ {c} :
          /\ pc'[d] \in {"idle", "claim", "entry", "commit"}
          /\ pc'[d] = "entry" => next'[d] \in DOMAIN txn'[d].entries
          /\ pc'[d] \in {"idle", "claim"} => next'[d] = 1
          /\ pc'[d] # "idle" => 1 \in DOMAIN txn'[d].entries
          /\ \A a \in DOMAIN staged'[d] : staged'[d][a] \in Int
    BY <1>5 DEF RowsTyped
  <2>2. balance' \in [Accounts -> Int] /\ outside' \in [Accounts -> Int]
    BY DEF RowsTyped
  <2> QED  BY <1>4, <1>6, <1>7, <1>8, <2>1, <2>2 DEF RowsTyped
<1>10. ASSUME NEW a \in Accounts
       PROVE  Current(c, a)' = balance'[a] + Through(c, a)'
  <2>1. Through(c, a)' = 0
    BY <1>4, SumOfNothing DEF Through, Added
  <2>2. Current(c, a)' = balance'[a]
    BY <1>4 DEF Current
  <2> QED  BY <2>1, <2>2
<1>11. \A d \in Callers \ {c} : \A a : Through(d, a)' = Through(d, a)
  BY <1>5 DEF Through, Added
<1> QED  BY <1>5, <1>9, <1>10, <1>11

\* A rollback takes its entries with it: balance and sum stay.
LEMMA RollingBack ==
  ASSUME LedgerAssumption, Inv, BalanceInv, NEW c \in Callers, NEW why, Rollback(c, why),
         UNCHANGED outside
  PROVE  BalanceInv'
<1>1. Release(c) /\ UNCHANGED <<posted, balance>>
  BY DEF Rollback
<1>2. /\ RowsTyped'
      /\ \A a \in Accounts : Current(c, a)' = balance'[a] + Through(c, a)'
      /\ \A d \in Callers \ {c} : staged'[d] = staged[d] /\ \A a : Through(d, a)' = Through(d, a)
  BY <1>1, Ending DEF Inv, Typed, BalanceInv, RowsTyped
<1>3. \A d \in Callers \ {c}, a \in Accounts : Current(d, a)' = Current(d, a)
  BY <1>1, <1>2 DEF Current
<1>4. Working'
  BY <1>1, <1>2, <1>3 DEF Working, BalanceInv
<1>5. CacheIsSumOfEntries'
  BY <1>1, SameComputed DEF BalanceInv, CacheIsSumOfEntries
<1> QED  BY <1>2, <1>4, <1>5 DEF BalanceInv

\* What a transaction adds to an account is an integer.
LEMMA NetIsInt ==
  ASSUME LedgerAssumption, NEW t \in Transactions, NEW a
  PROVE  SumFunctionOnSet(Share(t, a), DOMAIN t.entries) \in Int
BY SharesAre, SumIsInt

\* The fresh sum is an integer.
LEMMA ComputedIsInt ==
  ASSUME LedgerAssumption, posted \in Seq(Transactions), NEW a
  PROVE  Computed(a) \in Int
<1>1. /\ DOMAIN posted = 1..Len(posted) /\ Len(posted) \in Nat
      /\ \A i \in DOMAIN posted : posted[i] \in Transactions
  OBVIOUS
<1>2. IsFiniteSet(DOMAIN posted)
  BY <1>1, FS_Interval
<1>3. \A i \in DOMAIN posted : Nets(posted, a)[i] \in Int
  BY <1>1, NetIsInt DEF Nets
<1> QED  BY <1>2, <1>3, SumIsInt, ComputedIs

\* A commit adds the transaction's own entries to the fresh sum.
LEMMA PostedSums ==
  ASSUME LedgerAssumption, posted \in Seq(Transactions), NEW t \in Transactions,
         posted' = Append(posted, t), NEW a
  PROVE  Computed(a)' = Computed(a) + SumFunctionOnSet(Share(t, a), DOMAIN t.entries)
<1> DEFINE n == Len(posted)
           F == Nets(posted, a)
           G == Nets(posted', a)
<1>1. /\ DOMAIN posted = 1..n /\ n \in Nat /\ DOMAIN posted' = 1..(n + 1)
      /\ \A i \in 1..n : posted'[i] = posted[i] /\ posted[i] \in Transactions
      /\ posted'[n + 1] = t
  OBVIOUS
<1>2. \A i \in 1..n : F[i] = G[i] /\ F[i] \in Int
  <2>1. ASSUME NEW i \in 1..n PROVE F[i] = G[i] /\ F[i] \in Int
    <3>1. i \in DOMAIN posted /\ i \in DOMAIN posted' /\ posted[i] \in Transactions
      BY <1>1, <2>1
    <3>2. F[i] = SumFunctionOnSet(Share(posted[i], a), DOMAIN posted[i].entries)
      BY <3>1 DEF Nets
    <3>3. G[i] = SumFunctionOnSet(Share(posted'[i], a), DOMAIN posted'[i].entries)
      BY <3>1 DEF Nets
    <3> QED  BY <1>1, <3>1, <3>2, <3>3, NetIsInt
  <2> QED  BY <2>1
<1>3. G[n + 1] = SumFunctionOnSet(Share(t, a), DOMAIN t.entries) /\ G[n + 1] \in Int
  <2>1. n + 1 \in DOMAIN posted' /\ posted'[n + 1] = t
    BY <1>1
  <2>2. G[n + 1] = SumFunctionOnSet(Share(posted'[n + 1], a), DOMAIN posted'[n + 1].entries)
    BY <2>1 DEF Nets
  <2> QED  BY <2>1, <2>2, NetIsInt
<1>4. /\ Computed(a) = SumFunctionOnSet(F, 1..n)
      /\ Computed(a)' = SumFunctionOnSet(G, 1..(n + 1))
  BY <1>1, ComputedIs
<1> HIDE DEF F, G
<1>5. IsFiniteSet(1..n) /\ IsFiniteSet(1..(n + 1))
  BY <1>1, FS_Interval
<1>6. SumFunctionOnSet(F, 1..n) = SumFunctionOnSet(G, 1..n)
  BY <1>2, <1>5, SameSum
<1>7. SumFunctionOnSet(F, 1..n) \in Int
  BY <1>2, <1>5, SumIsInt
<1>8. SumFunctionOnSet(G, 1..(n + 1)) = G[n + 1] + SumFunctionOnSet(G, 1..n)
  <2>1. n + 1 \in 1..(n + 1) /\ (1..(n + 1)) \ {n + 1} = 1..n
    BY <1>1
  <2>2. \A i \in 1..(n + 1) : G[i] \in Int
    <3>1. \A i \in 1..(n + 1) : i \in 1..n \/ i = n + 1
      BY <1>1
    <3> QED  BY <1>2, <1>3, <3>1
  <2>3. SumFunctionOnSet(G, 1..(n + 1))
          = G[n + 1] + SumFunctionOnSet(G, (1..(n + 1)) \ {n + 1})
    BY <1>5, <2>1, <2>2, SumTakesOut
  <2> QED  BY <2>1, <2>3
<1> QED  BY <1>3, <1>4, <1>6, <1>7, <1>8

\* It adds the same to the cached balance, and to none that another call has written.
LEMMA CommittingBalances ==
  ASSUME LedgerAssumption, Inv, BalanceInv, NEW c \in Callers, CommitPost(c)
  PROVE  BalanceInv'
<1> DEFINE t == txn[c]
<1>1. /\ pc[c] = "commit" /\ t \in Transactions /\ posted \in Seq(Transactions)
      /\ posted' = Append(posted, t) /\ Release(c) /\ outside' = outside
      /\ balance' = [a \in Accounts |-> Current(c, a)]
  BY DEF CommitPost, Inv, Typed, driftVars
<1>2. \A a \in Accounts : Current(c, a) = balance[a] + Through(c, a)
  BY DEF BalanceInv, Working
<1>3. \A a \in Accounts : Through(c, a) \in Int
  BY AddedAre DEF Inv, BalanceInv
<1>4. balance' \in [Accounts -> Int]
  BY <1>1, <1>2, <1>3 DEF BalanceInv, RowsTyped
<1>5. /\ RowsTyped'
      /\ \A a \in Accounts : Current(c, a)' = balance'[a] + Through(c, a)'
      /\ \A d \in Callers \ {c} : staged'[d] = staged[d] /\ \A a : Through(d, a)' = Through(d, a)
  BY <1>1, <1>4, Ending DEF Inv, Typed, BalanceInv
<1>6. ASSUME NEW d \in Callers \ {c}, NEW a \in Accounts
      PROVE  Current(d, a)' = balance'[a] + Through(d, a)'
  <2>1. Through(d, a) \in Int /\ balance[a] \in Int /\ balance'[a] \in Int
    BY <1>4, AddedAre DEF Inv, BalanceInv, RowsTyped
  <2>2. CASE a \in DOMAIN staged[d]
    <3>1. a \notin DOMAIN staged[c]
      BY <2>2 DEF BalanceInv, RowsTyped
    <3>2. balance'[a] = balance[a]
      BY <1>1, <3>1 DEF Current
    <3>3. Current(d, a)' = Current(d, a)
      BY <1>5, <2>2 DEF Current
    <3> QED  BY <1>5, <3>2, <3>3 DEF BalanceInv, Working
  <2>3. CASE a \notin DOMAIN staged[d]
    <3>1. Current(d, a) = balance[a] /\ Current(d, a)' = balance'[a]
      BY <1>5, <2>3 DEF Current
    <3>2. Through(d, a) = 0
      <4>1. balance[a] = balance[a] + Through(d, a)
        BY <3>1 DEF BalanceInv, Working
      <4> QED  BY <2>1, <4>1
    <3> QED  BY <1>5, <2>1, <3>1, <3>2
  <2> QED  BY <2>2, <2>3
<1>7. Working'
  BY <1>5, <1>6 DEF Working
<1>8. ASSUME NEW a \in Accounts
      PROVE  balance'[a] = Computed(a)' + outside'[a]
  <2>1. Through(c, a) = SumFunctionOnSet(Share(t, a), DOMAIN t.entries)
    BY <1>1 DEF Through, Added
  <2>2. /\ Computed(a) \in Int
        /\ Computed(a)' = Computed(a) + Through(c, a)
    BY <1>1, <2>1, PostedSums, ComputedIsInt
  <2>3. balance[a] = Computed(a) + outside[a] /\ outside[a] \in Int /\ balance[a] \in Int
    BY DEF BalanceInv, CacheIsSumOfEntries, RowsTyped
  <2>4. balance'[a] = balance[a] + Through(c, a)
    BY <1>1, <1>2
  <2>5. Through(c, a) \in Int
    BY <1>3
  <2> QED  BY <1>1, <2>2, <2>3, <2>4, <2>5
<1> QED  BY <1>5, <1>7, <1>8 DEF BalanceInv, CacheIsSumOfEntries

\* An entry is added to the balance whose row the call holds.
LEMMA InsertingEntry ==
  ASSUME LedgerAssumption, Inv, BalanceInv, NEW c \in Callers, InsertEntry(c)
  PROVE  BalanceInv'
<1> DEFINE t == txn[c]
           n == next[c]
           e == t.entries[n]
           m == Len(t.entries)
<1>1. /\ pc[c] = "entry" /\ t \in Transactions /\ n \in DOMAIN t.entries
      /\ rowLock[e.account] \in {NoCaller, c}
      /\ rowLock' = [rowLock EXCEPT ![e.account] = c]
      /\ staged' = [staged EXCEPT ![c] =
            [a \in DOMAIN staged[c] \cup {e.account} |->
               IF a = e.account THEN Current(c, a) + Signed(e) ELSE staged[c][a]]]
      /\ UNCHANGED <<posted, balance, txn, outside>>
  BY DEF InsertEntry, MayUpdate, driftVars, Inv, Typed, BalanceInv, RowsTyped
<1>2. /\ DOMAIN t.entries = 1..m /\ m \in Nat /\ n \in 1..m
      /\ e.account \in Accounts /\ Signed(e) \in Int
  BY <1>1, SharesAre
<1>3. \/ n < m /\ next' = [next EXCEPT ![c] = n + 1] /\ pc' = pc
      \/ n = m /\ next' = next /\ pc' = [pc EXCEPT ![c] = "commit"]
  BY <1>2 DEF InsertEntry
<1>4. /\ DOMAIN pc = Callers /\ DOMAIN next = Callers /\ DOMAIN staged = Callers
      /\ DOMAIN rowLock = Accounts
  BY DEF Inv, Typed, BalanceInv, RowsTyped
<1>5. Added(c)' = 1..n /\ Added(c) = 1..(n - 1)
  <2>1. Added(c) = 1..(n - 1)
    BY <1>1 DEF Added
  <2>2. CASE n < m
    <3>1. pc'[c] = "entry" /\ next'[c] = n + 1
      BY <1>1, <1>2, <1>3, <1>4, <2>2
    <3> QED  BY <1>2, <2>1, <3>1 DEF Added
  <2>3. CASE n = m
    <3>1. pc'[c] = "commit" /\ txn' = txn
      BY <1>1, <1>2, <1>3, <1>4, <2>3
    <3> QED  BY <1>2, <2>1, <2>3, <3>1 DEF Added
  <2> QED  BY <1>3, <2>2, <2>3
<1>6. ASSUME NEW a \in Accounts
      PROVE  /\ Through(c, a)' = Share(t, a)[n] + Through(c, a)
             /\ Through(c, a) \in Int /\ Share(t, a)[n] \in Int
             /\ Share(t, a)[n] = IF e.account = a THEN Signed(e) ELSE 0
  <2>1. Share(t, a)[n] = IF e.account = a THEN Signed(e) ELSE 0
    BY <1>1 DEF Share
  <2>2. \A j \in 1..n : Share(t, a)[j] \in Int
    <3>1. \A j \in DOMAIN t.entries : Share(t, a)[j] \in Int
      BY <1>1, SharesAre
    <3> QED  BY <1>2, <3>1
  <2>3. IsFiniteSet(1..n) /\ n \in 1..n /\ (1..n) \ {n} = 1..(n - 1)
    <3>1. n \in Int /\ n >= 1
      BY <1>2
    <3> HIDE DEF n
    <3>2. IsFiniteSet(1..n)
      BY <3>1, FS_Interval
    <3> QED  BY <3>1, <3>2
  <2>4. SumFunctionOnSet(Share(t, a), 1..n)
          = Share(t, a)[n] + SumFunctionOnSet(Share(t, a), 1..(n - 1))
    BY <2>2, <2>3, SumTakesOut
  <2>5. Through(c, a)' = SumFunctionOnSet(Share(t, a), 1..n)
    BY <1>1, <1>5 DEF Through
  <2>6. Through(c, a) = SumFunctionOnSet(Share(t, a), 1..(n - 1))
    BY <1>5 DEF Through
  <2>7. Through(c, a) \in Int
    BY AddedAre DEF Inv, BalanceInv
  <2> QED  BY <2>1, <2>2, <2>3, <2>4, <2>5, <2>6, <2>7
<1>7. ASSUME NEW a \in Accounts
      PROVE  /\ Current(c, a) = balance[a] + Through(c, a)
             /\ Current(c, a) \in Int /\ balance[a] \in Int
  BY <1>6 DEF BalanceInv, Working, RowsTyped
<1>8. /\ DOMAIN staged'[c] = DOMAIN staged[c] \cup {e.account}
      /\ staged'[c][e.account] = Current(c, e.account) + Signed(e)
      /\ \A a \in DOMAIN staged[c] : a # e.account => staged'[c][a] = staged[c][a]
  BY <1>1, <1>4
<1>9. \A d \in Callers \ {c} :
        staged'[d] = staged[d] /\ pc'[d] = pc[d] /\ next'[d] = next[d] /\ txn'[d] = txn[d]
  BY <1>1, <1>3, <1>4
<1> HIDE DEF e
<1>10. RowsTyped'
  <2>1. \A d \in Callers : DOMAIN staged'[d] = {a \in Accounts : rowLock'[a] = d}
    <3>1. DOMAIN staged'[c] = {a \in Accounts : rowLock'[a] = c}
      BY <1>1, <1>2, <1>4, <1>8 DEF BalanceInv, RowsTyped
    <3>2. ASSUME NEW d \in Callers \ {c}
          PROVE  DOMAIN staged'[d] = {a \in Accounts : rowLock'[a] = d}
      <4>1. rowLock[e.account] # d /\ rowLock'[e.account] # d
        BY <1>1, <1>2, <1>4 DEF LedgerAssumption
      <4>2. \A a \in Accounts : rowLock'[a] = d <=> rowLock[a] = d
        BY <1>1, <1>4, <4>1
      <4> QED  BY <1>9, <4>2 DEF BalanceInv, RowsTyped
    <3> QED  BY <3>1, <3>2
  <2>2. \A a \in DOMAIN staged'[c] : staged'[c][a] \in Int
    BY <1>2, <1>7, <1>8 DEF BalanceInv, RowsTyped
  <2>3. /\ pc'[c] \in {"entry", "commit"}
        /\ pc'[c] = "entry" => next'[c] \in DOMAIN txn'[c].entries
        /\ 1 \in DOMAIN txn'[c].entries
    BY <1>1, <1>2, <1>3, <1>4
  <2>4. DOMAIN next' = Callers /\ DOMAIN staged' = Callers /\ DOMAIN rowLock' = Accounts
    BY <1>1, <1>3, <1>4
  <2>5. balance' \in [Accounts -> Int] /\ outside' \in [Accounts -> Int]
    BY <1>1 DEF BalanceInv, RowsTyped
  <2>6. ASSUME NEW d \in Callers \ {c}
        PROVE  /\ pc'[d] \in {"idle", "claim", "entry", "commit"}
               /\ pc'[d] = "entry" => next'[d] \in DOMAIN txn'[d].entries
               /\ pc'[d] \in {"idle", "claim"} => next'[d] = 1
               /\ pc'[d] # "idle" => 1 \in DOMAIN txn'[d].entries
               /\ \A a \in DOMAIN staged'[d] : staged'[d][a] \in Int
    BY <1>9 DEF BalanceInv, RowsTyped
  <2> QED  BY <2>1, <2>2, <2>3, <2>4, <2>5, <2>6 DEF RowsTyped
<1>11. ASSUME NEW a \in Accounts
       PROVE  Current(c, a)' = balance'[a] + Through(c, a)'
  <2>1. CASE a = e.account
    <3>1. Current(c, a)' = Current(c, a) + Signed(e)
      BY <1>8, <2>1 DEF Current
    <3>2. Through(c, a)' = Signed(e) + Through(c, a)
      BY <1>6, <2>1
    <3>3. /\ Current(c, a) = balance[a] + Through(c, a) /\ balance'[a] = balance[a]
          /\ balance[a] \in Int /\ Through(c, a) \in Int
      BY <1>1, <1>6, <1>7
    <3> QED  BY <1>2, <3>1, <3>2, <3>3
  <2>2. CASE a # e.account
    <3>1. Current(c, a)' = Current(c, a)
      BY <1>1, <1>8, <2>2 DEF Current
    <3>2. Through(c, a)' = Through(c, a)
      BY <1>6, <2>2
    <3> QED  BY <1>1, <1>7, <3>1, <3>2
  <2> QED  BY <2>1, <2>2
<1>12. ASSUME NEW d \in Callers \ {c}, NEW a \in Accounts
       PROVE  Current(d, a)' = balance'[a] + Through(d, a)'
  <2>1. Current(d, a)' = Current(d, a) /\ Through(d, a)' = Through(d, a)
    BY <1>1, <1>9 DEF Current, Through, Added
  <2> QED  BY <1>1, <2>1 DEF BalanceInv, Working
<1>13. Working'
  BY <1>11, <1>12 DEF Working
<1>14. CacheIsSumOfEntries'
  BY <1>1, SameComputed DEF BalanceInv, CacheIsSumOfEntries
<1> QED  BY <1>10, <1>13, <1>14 DEF BalanceInv

\* The first two statements of a call write no balance.
LEMMA BeginningBalances ==
  ASSUME LedgerAssumption, Inv, BalanceInv, NEW c \in Callers, NEW u, NEW l \in {"claim", "entry"},
         (pc[c] = "idle" /\ l = "claim") \/ (pc[c] = "claim" /\ l = "entry" /\ u = txn[c]),
         u \in Transactions, 1 \in DOMAIN u.entries,
         pc' = [pc EXCEPT ![c] = l], txn'[c] = u, \A d \in Callers \ {c} : txn'[d] = txn[d],
         UNCHANGED <<posted, balance, outside, next, staged, rowLock>>
  PROVE  BalanceInv'
<1>1. next[c] = 1 /\ pc'[c] = l /\ txn'[c] = u
  BY DEF Inv, Typed, BalanceInv, RowsTyped
<1>2. \A d \in Callers \ {c} : pc'[d] = pc[d] /\ txn'[d] = txn[d]
  OBVIOUS
<1>3. RowsTyped'
  BY <1>1, <1>2 DEF BalanceInv, RowsTyped
<1>4. Added(c)' = {} /\ Added(c) = {}
  BY <1>1 DEF Added
<1>5. \A a : Through(c, a)' = 0 /\ Through(c, a) = 0
  BY <1>4, SumOfNothing DEF Through
<1>6. \A d \in Callers \ {c} : \A a : Through(d, a)' = Through(d, a)
  BY <1>2 DEF Through, Added
<1>7. \A d \in Callers : \A a : Through(d, a)' = Through(d, a)
  BY <1>5, <1>6
<1>8. \A d \in Callers, a \in Accounts : Current(d, a)' = Current(d, a)
  BY DEF Current
<1>9. Working'
  BY <1>7, <1>8 DEF BalanceInv, Working
<1>10. CacheIsSumOfEntries'
  BY SameComputed DEF BalanceInv, CacheIsSumOfEntries
<1> QED  BY <1>3, <1>9, <1>10 DEF BalanceInv

\* Only a balance that no call has written changes from outside.
LEMMA OutsideChange ==
  ASSUME LedgerAssumption, Inv, BalanceInv, NEW a \in Accounts, NEW delta \in {-1, 1},
         ChangedOutside(a, delta)
  PROVE  BalanceInv'
<1>1. /\ rowLock[a] = NoCaller
      /\ balance' = [balance EXCEPT ![a] = balance[a] + delta]
      /\ outside' = [outside EXCEPT ![a] = outside[a] + delta]
      /\ UNCHANGED <<posted, txn, pc, next, staged, rowLock>>
  BY DEF ChangedOutside
<1>2. RowsTyped'
  BY <1>1 DEF BalanceInv, RowsTyped
<1>3. ASSUME NEW d \in Callers, NEW b \in Accounts
      PROVE  Current(d, b)' = balance'[b] + Through(d, b)'
  <2>1. Through(d, b)' = Through(d, b) /\ Through(d, b) \in Int
    BY <1>1, AddedAre DEF Through, Added, Inv, BalanceInv
  <2>2. CASE b # a
    BY <1>1, <2>1, <2>2 DEF Current, BalanceInv, Working, RowsTyped
  <2>3. CASE b = a
    <3>1. a \notin DOMAIN staged[d]
      BY <1>1 DEF BalanceInv, RowsTyped, LedgerAssumption
    <3>2. Current(d, a) = balance[a] /\ Current(d, a)' = balance'[a]
      BY <1>1, <3>1 DEF Current
    <3>3. balance[a] = balance[a] + Through(d, a) /\ balance[a] \in Int
      BY <3>2 DEF BalanceInv, Working, RowsTyped
    <3>4. Through(d, a) = 0
      BY <2>1, <2>3, <3>3
    <3>5. balance'[a] \in Int
      BY <1>2 DEF RowsTyped
    <3> QED  BY <2>1, <2>3, <3>2, <3>4, <3>5
  <2> QED  BY <2>2, <2>3
<1>4. Working'
  BY <1>3 DEF Working
<1>5. ASSUME NEW b \in Accounts
      PROVE  balance'[b] = Computed(b)' + outside'[b]
  <2>1. Computed(b)' = Computed(b)
    BY <1>1, SameComputed
  <2>2. Computed(b) \in Int
    BY ComputedIsInt DEF Inv, Typed
  <2>3. balance[b] = Computed(b) + outside[b] /\ outside[b] \in Int
    BY DEF BalanceInv, CacheIsSumOfEntries, RowsTyped
  <2> QED  BY <1>1, <2>1, <2>2, <2>3 DEF BalanceInv, RowsTyped
<1> QED  BY <1>2, <1>4, <1>5 DEF BalanceInv, CacheIsSumOfEntries

\* One lemma per action of a call; the sweep and ops touch no balance.
LEMMA BalanceStep ==
  ASSUME LedgerAssumption, Inv, BalanceInv, [Next]_vars
  PROVE  BalanceInv'
<1>1. ASSUME NEW c \in Callers, NEW t \in Transactions, PostRejected(c, t) PROVE BalanceInv'
  BY <1>1, CallsWait DEF PostRejected, driftVars
<1>2. ASSUME NEW c \in Callers, NEW t \in Transactions, BeginPost(c, t) PROVE BalanceInv'
  <2>1. 1 \in DOMAIN t.entries
    <3>1. t.entries # <<>> /\ \E S : t.entries \in Seq(S)
      BY <1>2 DEF BeginPost, LedgerAssumption
    <3> QED  BY <3>1
  <2> QED  BY <1>2, <2>1, BeginningBalances DEF BeginPost, driftVars, Inv, Typed
<1>3. ASSUME NEW c \in Callers, ClaimKey(c) PROVE BalanceInv'
  <2>1. CASE IsPosted(txn[c].key)
    BY <1>3, <2>1, RollingBack DEF ClaimKey, driftVars
  <2>2. CASE ~IsPosted(txn[c].key)
    <3>1. /\ pc[c] = "claim" /\ pc' = [pc EXCEPT ![c] = "entry"]
          /\ UNCHANGED <<posted, balance, outside, txn, next, staged, rowLock>>
      BY <1>3, <2>2 DEF ClaimKey, Claim, driftVars
    <3>2. txn[c] \in Transactions
      BY <3>1 DEF Inv, Typed
    <3>3. 1 \in DOMAIN txn[c].entries
      BY <3>1 DEF BalanceInv, RowsTyped
    <3> QED  BY <3>1, <3>2, <3>3, BeginningBalances
  <2> QED  BY <2>1, <2>2
<1>4. ASSUME NEW c \in Callers, AbortPost(c) \/ BreakDeadlock(c) PROVE BalanceInv'
  BY <1>4, RollingBack DEF AbortPost, BreakDeadlock, driftVars
<1>5. CASE \/ SweepOnce \/ Flag \/ SweepFails
           \/ \E a \in Accounts : ResolveDiscrepancy(a)
  BY <1>5, CallsWait DEF SweepOnce, Flag, CheckOpen, InsertDiscrepancy, SweepFails,
     ResolveDiscrepancy, postVars, driftVars
<1>6. CASE UNCHANGED vars
  BY <1>6, CallsWait DEF vars, postVars, driftVars
<1> QED  BY <1>1, <1>2, <1>3, <1>4, <1>5, <1>6, InsertingEntry, CommittingBalances, OutsideChange
         DEF Next, PostStep

LEMMA BalanceInvariant == Spec => []BalanceInv
<1>1. Init => BalanceInv
  <2> SUFFICES ASSUME Init PROVE BalanceInv
    OBVIOUS
  <2>1. RowsTyped
    BY LedgerAssumption DEF Init, RowsTyped
  <2>2. ASSUME NEW c \in Callers, NEW a \in Accounts
        PROVE  Current(c, a) = balance[a] + Through(c, a)
    <3>1. Through(c, a) = 0
      BY SumOfNothing DEF Init, Through, Added
    <3>2. Current(c, a) = 0 /\ balance[a] = 0
      BY DEF Init, Current
    <3> QED  BY <3>1, <3>2
  <2>3. ASSUME NEW a \in Accounts PROVE Computed(a) = 0
    <3>1. DOMAIN posted = {}
      BY DEF Init
    <3> QED  BY <3>1, ComputedIs, SumOfNothing
  <2>4. CacheIsSumOfEntries
    BY <2>3 DEF Init, CacheIsSumOfEntries
  <2> QED  BY <2>1, <2>2, <2>4 DEF BalanceInv, Working
<1>2. Inv /\ BalanceInv /\ [Next]_vars => BalanceInv'
  BY BalanceStep, LedgerAssumption
<1> QED  BY <1>1, <1>2, Invariant, PTL DEF Spec

\* ledger.go:148, the balance updates of Post: for any transactions, callers and
\* interleaving, and wherever calls fail, a cached balance is the sum of the
\* committed entries of its account and what changed it from outside.
THEOREM CacheFollowsEntries == Spec => []CacheIsSumOfEntries
<1>1. BalanceInv => CacheIsSumOfEntries
  BY DEF BalanceInv
<1> QED  BY <1>1, BalanceInvariant, PTL

-----------------------------------------------------------------------------
(* The discrepancies.                                                       *)

Drifts == (-drifts..drifts) \ {0}

\* A drift is what came from outside, found in one sweep, flagged later.
DriftInv ==
  /\ drifts \in Nat
  /\ DOMAIN outside = Accounts /\ \A a \in Accounts : outside[a] \in -drifts..drifts
  /\ \A d \in found : d[1] \in Accounts /\ d[2] \in Drifts
  /\ DOMAIN open = Accounts
  /\ \A a \in Accounts : open[a] \in Seq(Int) /\ \A i \in DOMAIN open[a] : open[a][i] \in Drifts

\* A step that finds nothing new.
LEMMA DriftsStay ==
  ASSUME DriftInv, UNCHANGED <<outside, drifts, open>>, found' \subseteq found
  PROVE  DriftInv'
BY DEF DriftInv, Drifts

\* What the sweep finds is the balance less its sum: what came from outside.
LEMMA Sweeping ==
  ASSUME LedgerAssumption, Inv, BalanceInv, DriftInv, SweepOnce
  PROVE  DriftInv'
<1>1. /\ found' = {<<a, Cached(a) - Computed(a)>> : a \in {x \in Accounts : Differs(x)}}
      /\ UNCHANGED <<outside, drifts, open>>
  BY DEF SweepOnce, opsVars, driftVars
<1>2. ASSUME NEW a \in Accounts, Differs(a)
      PROVE  Cached(a) - Computed(a) \in Drifts
  <2>1. Computed(a) \in Int
    BY ComputedIsInt DEF Inv, Typed
  <2>2. balance[a] = Computed(a) + outside[a] /\ outside[a] \in -drifts..drifts /\ drifts \in Nat
    BY DEF BalanceInv, CacheIsSumOfEntries, DriftInv
  <2>3. balance[a] # Computed(a)
    BY <1>2 DEF Differs, Cached
  <2> QED  BY <2>1, <2>2, <2>3 DEF Cached, Drifts
<1>3. \A d \in found' : d[1] \in Accounts /\ d[2] \in Drifts
  BY <1>1, <1>2
<1> QED  BY <1>1, <1>3 DEF DriftInv, Drifts

\* What is flagged has been found.
LEMMA Flagging ==
  ASSUME DriftInv, NEW d \in found, InsertDiscrepancy(d)
  PROVE  DriftInv'
<1>1. /\ open' = [open EXCEPT ![d[1]] = Append(open[d[1]], d[2])]
      /\ found' = found \ {d} /\ UNCHANGED <<outside, drifts>>
  BY DEF InsertDiscrepancy, driftVars
<1>2. d[1] \in Accounts /\ d[2] \in Drifts /\ Drifts \subseteq Int /\ Drifts' = Drifts
  BY <1>1 DEF DriftInv, Drifts
<1>3. ASSUME NEW a \in Accounts
      PROVE  open'[a] \in Seq(Int) /\ \A i \in DOMAIN open'[a] : open'[a][i] \in Drifts
  <2>1. open[a] \in Seq(Int) /\ \A i \in DOMAIN open[a] : open[a][i] \in Drifts
    BY DEF DriftInv
  <2>2. CASE a = d[1]
    <3>1. open'[a] = Append(open[a], d[2])
      BY <1>1, <2>2 DEF DriftInv
    <3> DEFINE s == open[a]
               x == d[2]
    <3>2. s \in Seq(Int) /\ x \in Int /\ open'[a] = Append(s, x)
      BY <1>2, <2>1, <3>1
    <3>3. x \in Drifts /\ \A i \in DOMAIN s : s[i] \in Drifts
      BY <1>2, <2>1
    <3> HIDE DEF s, x
    <3>4. /\ Append(s, x) \in Seq(Int) /\ DOMAIN Append(s, x) = 1..(Len(s) + 1)
          /\ DOMAIN s = 1..Len(s) /\ Len(s) \in Nat
          /\ Append(s, x)[Len(s) + 1] = x
          /\ \A i \in 1..Len(s) : Append(s, x)[i] = s[i]
      BY <3>2
    <3>5. \A i \in 1..(Len(s) + 1) : i \in 1..Len(s) \/ i = Len(s) + 1
      BY <3>4
    <3> QED  BY <3>2, <3>3, <3>4, <3>5
  <2>3. CASE a # d[1]
    BY <1>1, <2>1, <2>3 DEF DriftInv
  <2> QED  BY <2>2, <2>3
<1> QED  BY <1>1, <1>2, <1>3 DEF DriftInv

LEMMA ResolvingDrift ==
  ASSUME DriftInv, NEW a \in Accounts, ResolveDiscrepancy(a)
  PROVE  DriftInv'
<1>1. /\ open[a] # <<>> /\ open' = [open EXCEPT ![a] = Tail(open[a])]
      /\ UNCHANGED <<outside, drifts, found>>
  BY DEF ResolveDiscrepancy, driftVars, sweepVars
<1>2. open[a] \in Seq(Int) /\ \A i \in DOMAIN open[a] : open[a][i] \in Drifts
  BY DEF DriftInv
<1>3. /\ Tail(open[a]) \in Seq(Int)
      /\ \A i \in DOMAIN Tail(open[a]) : i + 1 \in DOMAIN open[a] /\ Tail(open[a])[i] = open[a][i + 1]
  BY <1>1, <1>2
<1>4. Drifts' = Drifts
  BY <1>1 DEF Drifts
<1> QED  BY <1>1, <1>2, <1>3, <1>4 DEF DriftInv

LEMMA Drifting ==
  ASSUME DriftInv, NEW a \in Accounts, NEW delta \in {-1, 1}, ChangedOutside(a, delta)
  PROVE  DriftInv'
<1>1. /\ outside' = [outside EXCEPT ![a] = outside[a] + delta] /\ drifts' = drifts + 1
      /\ UNCHANGED <<found, open>>
  BY DEF ChangedOutside, sweepVars, opsVars
<1>2. drifts \in Nat /\ drifts' \in Nat /\ Drifts \subseteq Drifts'
  BY <1>1 DEF DriftInv, Drifts
<1>3. \A b \in Accounts : outside'[b] \in -drifts'..drifts'
  <2>1. \A b \in Accounts : outside[b] \in -drifts..drifts
    BY DEF DriftInv
  <2> QED  BY <1>1, <1>2, <2>1 DEF DriftInv
<1> QED  BY <1>1, <1>2, <1>3 DEF DriftInv

LEMMA DriftStep ==
  ASSUME LedgerAssumption, Inv, BalanceInv, DriftInv, [Next]_vars
  PROVE  DriftInv'
<1>1. CASE \E c \in Callers :
             \/ \E t \in Transactions : PostRejected(c, t) \/ BeginPost(c, t)
             \/ PostStep(c) \/ AbortPost(c) \/ BreakDeadlock(c)
  BY <1>1, DriftsStay DEF PostRejected, BeginPost, PostStep, ClaimKey, InsertEntry, CommitPost,
     AbortPost, BreakDeadlock, sweepVars, opsVars, driftVars
<1>2. CASE (\E d \in found : CheckOpen(d)) \/ SweepFails
  BY <1>2, DriftsStay DEF CheckOpen, SweepFails, opsVars, driftVars
<1>3. CASE UNCHANGED vars
  BY <1>3, DriftsStay DEF vars, sweepVars, opsVars, driftVars
<1> QED  BY <1>1, <1>2, <1>3, Sweeping, Flagging, ResolvingDrift, Drifting DEF Next, Flag

\* reconcile.go:86, sweepOnce and flagDrift: what Post writes is never flagged,
\* not even while transactions are open; a discrepancy is some amount that
\* changes from outside have added up to.
THEOREM FlaggedDriftIsOutside == Spec => []OnlyOutsideDriftIsFlagged
<1>1. Init => DriftInv
  BY DEF Init, DriftInv
<1>2. Inv /\ BalanceInv /\ DriftInv /\ [Next]_vars => DriftInv'
  BY DriftStep, LedgerAssumption
<1>3. DriftInv => OnlyOutsideDriftIsFlagged
  BY DEF DriftInv, Drifts, OnlyOutsideDriftIsFlagged
<1> QED  BY <1>1, <1>2, <1>3, Invariant, BalanceInvariant, PTL DEF Spec
=============================================================================
