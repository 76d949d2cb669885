------------------------- MODULE SessionQuoteProofs -------------------------
(***************************************************************************)
(* Two promises of the creation of a session, for any sessions, amounts,   *)
(* threshold, providers, quotes, stale age and interval of the job.        *)
(*                                                                         *)
(* No session is priced with an old quote: LockRate compares nothing, so   *)
(* the age of what it finds is bounded by two others, that of the quote    *)
(* when the job selected it, at most maxStaleAge, and the time since the   *)
(* job ran (AgesWithTheJob).  What the travel rule lets go on stays below  *)
(* its threshold: the session cleared last was counted with all the others *)
(* (Checking), which takes the few facts about sums proved here first.     *)
(***************************************************************************)
EXTENDS SessionQuote, WellFoundedInduction, FiniteSetTheorems, TLAPS

-----------------------------------------------------------------------------
(* The age of a quote.                                                      *)

Priced == [provider : Cached \cup {"system"}, rate : Quotes \cup {Ceiling}, age : Nat]

Typed ==
  /\ rows \in [Cached -> Priced \cup {None}]
  /\ current \in Priced \cup {None}
  /\ since \in 0..Interval

\* As long as no run is lost, a provider's quote is no older than it could be
\* when it was selected and the ticks that have passed since.
AgesWithTheJob ==
  ~lapsed /\ current.provider \in Cached => current.age <= MaxStaleAge + since

Inv == Typed /\ AgesWithTheJob

\* None and the system's quote are no provider's.
LEMMA NoProvider == None.provider \notin Cached
BY RateAssumption DEF None

LEMMA InvInit == QuoteInit => Inv
<1> SUFFICES ASSUME QuoteInit
             PROVE  Inv
  OBVIOUS
<1>1. Typed
  BY RateAssumption DEF QuoteInit, RateInit, Typed
<1>2. AgesWithTheJob
  BY NoProvider DEF QuoteInit, RateInit, AgesWithTheJob
<1> QED  BY <1>1, <1>2 DEF Inv

-----------------------------------------------------------------------------
(* Time passing.                                                            *)

LEMMA OlderQuote ==
  ASSUME NEW q \in Priced \cup {None}, NEW n \in Nat, NEW bound \in Nat
  PROVE  /\ Older(q, n, bound) \in Priced \cup {None}
         /\ Older(q, n, bound).provider = q.provider
         /\ q.provider \in Cached => Older(q, n, bound).age <= q.age + n
<1>1. CASE q.provider \in Cached
  <2>1. q \in Priced
    BY <1>1, NoProvider
  <2>2. q.age \in Nat
    BY <2>1 DEF Priced
  <2> DEFINE age == IF q.age + n > bound THEN bound ELSE q.age + n
  <2>3. age \in Nat /\ age <= q.age + n
    BY <2>2
  <2>4. Older(q, n, bound) = [q EXCEPT !.age = age]
    BY <1>1 DEF Older
  <2> HIDE DEF age
  <2> QED  BY <2>1, <2>3, <2>4 DEF Priced
<1>2. CASE q.provider \notin Cached
  BY <1>2 DEF Older
<1> QED  BY <1>1, <1>2

LEMMA Passing ==
  ASSUME Inv, NEW n \in Nat, Passes(n)
  PROVE  /\ rows' \in [Cached -> Priced \cup {None}]
         /\ current' \in Priced \cup {None}
         /\ current'.provider = current.provider
         /\ current.provider \in Cached => current'.age <= current.age + n
<1>1. MaxStaleAge + 1 \in Nat /\ MaxAge \in Nat
  BY RateAssumption
<1>2. \A p \in Cached : Older(rows[p], n, MaxStaleAge + 1) \in Priced \cup {None}
  BY <1>1, OlderQuote DEF Inv, Typed
<1>3. rows' \in [Cached -> Priced \cup {None}]
  BY <1>2 DEF Passes
<1> QED  BY <1>1, <1>3, OlderQuote DEF Inv, Typed, Passes

-----------------------------------------------------------------------------
(* The loops.                                                               *)

LEMMA Ticking ==
  ASSUME Inv, Tick
  PROVE  Inv'
<1>1. Passes(1) /\ since' = since + 1 /\ since < Interval /\ lapsed' = lapsed
  BY DEF Tick
<1>2. Typed'
  BY <1>1, Passing, RateAssumption DEF Inv, Typed
<1>3. AgesWithTheJob'
  <2> SUFFICES ASSUME ~lapsed, current.provider \in Cached
               PROVE  current'.age <= MaxStaleAge + since'
    BY <1>1, Passing DEF AgesWithTheJob
  <2>1. current \in Priced /\ current' \in Priced
    BY <1>1, Passing, NoProvider DEF Inv, Typed
  <2>2. current.age \in Nat /\ current'.age \in Nat /\ since \in Nat /\ MaxStaleAge \in Nat
    BY <2>1, RateAssumption DEF Priced, Inv, Typed
  <2>3. current'.age <= current.age + 1 /\ current.age <= MaxStaleAge + since
    BY <1>1, Passing DEF Inv, AgesWithTheJob
  <2> QED  BY <1>1, <2>2, <2>3
<1> QED  BY <1>2, <1>3 DEF Inv

LEMMA GoingDown ==
  ASSUME Inv, Outage
  PROVE  Inv'
<1>1. PICK n \in 1..MaxAge : Passes(n)
  BY DEF Outage
<1>2. n \in Nat /\ Interval \in 0..Interval
  BY RateAssumption
<1>3. since' = Interval /\ lapsed'
  BY DEF Outage
<1> QED  BY <1>1, <1>2, <1>3, Passing DEF Inv, Typed, AgesWithTheJob

LEMMA Fetching ==
  ASSUME Inv, NEW p \in Cached, Fetch(p)
  PROVE  Inv'
<1>1. PICK rate \in Quotes : UpsertProviderRate(p, rate)
  BY DEF Fetch
<1>2. Quote(p, rate, 0) \in Priced
  BY DEF Quote, Priced
<1>3. UNCHANGED <<current, since, lapsed>>
  BY DEF Fetch
<1> QED  BY <1>1, <1>2, <1>3 DEF UpsertProviderRate, Inv, Typed, AgesWithTheJob

\* What the job selects is the system's or was read as fresh.
LEMMA Running ==
  ASSUME Inv, RunOnce
  PROVE  Inv'
<1>1. since' = 0 /\ rows' = rows
  BY DEF RunOnce
<1>2. 0 \in 0..Interval /\ MaxStaleAge \in Nat
  BY RateAssumption
<1>3. CASE RunIsLost
  BY <1>1, <1>2, <1>3 DEF RunIsLost, Inv, Typed, AgesWithTheJob
<1>4. ASSUME NEW read \in SUBSET Readable, ComputeAndPersistCurrentRate(read)
      PROVE  Inv'
  <2>1. PICK p \in Readable : current' = FetchRate(p)
    BY <1>4 DEF ComputeAndPersistCurrentRate, SelectBest
  <2>2. CASE p = "system"
    <3>1. current' = Quote("system", Ceiling, 0)
      BY <2>1, <2>2 DEF FetchRate
    <3>2. current' \in Priced /\ current'.provider = "system"
      BY <3>1 DEF Quote, Priced
    <3>3. current'.provider \notin Cached
      BY <3>2, RateAssumption
    <3> QED  BY <1>1, <1>2, <3>2, <3>3 DEF Inv, Typed, AgesWithTheJob
  <2>3. CASE p # "system"
    <3>1. p \in Cached /\ Fresh(p)
      BY <2>3 DEF Readable
    <3>2. current' = rows[p] /\ rows[p] \in Priced /\ rows[p].age <= MaxStaleAge
      BY <2>1, <2>3, <3>1 DEF FetchRate, Fresh, Inv, Typed
    <3>3. MaxStaleAge + since' = MaxStaleAge
      BY <1>1, <1>2
    <3> QED  BY <1>1, <1>2, <3>2, <3>3 DEF Inv, Typed, AgesWithTheJob
  <2> QED  BY <2>2, <2>3
<1> QED  BY <1>3, <1>4 DEF RunOnce

LEMMA InvStep == Inv /\ [Next]_vars => Inv'
<1> SUFFICES ASSUME Inv, [Next]_vars
             PROVE  Inv'
  OBVIOUS
<1>1. CASE RateNext
  <2>1. CASE SetCorridorActive
    BY <2>1 DEF SetCorridorActive, Inv, Typed, AgesWithTheJob
  <2> QED  BY <1>1, <2>1, Ticking, GoingDown, Fetching, Running DEF RateNext
<1>2. CASE UNCHANGED rateVars
  BY <1>2 DEF rateVars, Inv, Typed, AgesWithTheJob
<1>3. RateNext \/ UNCHANGED rateVars
  BY DEF Next, CreateSession, Screen, LockAndOpen, LockRate, Lapse, vars
<1> QED  BY <1>1, <1>2, <1>3

\* LockRate and CurrentRateJob: while the job runs, a session that becomes
\* pending is priced with a quote not older than maxStaleAge and one interval,
\* whatever providers, corridors and fetchers do.
THEOREM OpenedAtRecentQuotes == Spec => LockedQuoteIsRecent
<1>1. Inv /\ [Next]_vars =>
        [\A s \in Sessions :
           LockAndOpen(s) /\ ~lapsed /\ current.provider \in Cached
             => current.age <= MaxStaleAge + Interval]_vars
  <2> SUFFICES ASSUME Inv, ~lapsed, current.provider \in Cached
               PROVE  current.age <= MaxStaleAge + Interval
    OBVIOUS
  <2>1. current \in Priced
    BY NoProvider DEF Inv, Typed
  <2>2. /\ current.age \in Nat /\ MaxStaleAge \in Nat /\ Interval \in Nat
        /\ since \in 0..Interval
    BY <2>1, RateAssumption DEF Priced, Inv, Typed
  <2>3. current.age <= MaxStaleAge + since
    BY DEF Inv, AgesWithTheJob
  <2> QED  BY <2>2, <2>3
<1> QED  BY <1>1, InvInit, InvStep, PTL DEF Spec, LockedQuoteIsRecent
-----------------------------------------------------------------------------
(* Sums over finite sets.                                                   *)

\* What is true of all finite subsets smaller than a given one is true of all.
LEMMA SmallestSubset ==
  ASSUME NEW S, IsFiniteSet(S), NEW Bad \in SUBSET SUBSET S, Bad # {}
  PROVE  \E t \in Bad : \A u \in Bad : ~(u \subseteq t /\ u # t)
<1>1. Bad \subseteq FiniteSubsetsOf(S)
  <2>1. \A t \in Bad : IsFiniteSet(t)
    BY FS_Subset
  <2> QED  BY <2>1 DEF FiniteSubsetsOf
<1>2. PICK t \in Bad : \A u \in Bad : ~(<<u, t>> \in StrictSubsetOrdering(S))
  BY <1>1, WFMin, FS_StrictSubsetOrderingWellFounded
<1>3. ASSUME NEW u \in Bad, u \subseteq t, u # t PROVE FALSE
  BY <1>1, <1>2, <1>3 DEF StrictSubsetOrdering, FiniteSubsetsOf
<1> QED  BY <1>3

Pick(s) == CHOOSE x \in s : TRUE
Sums(f, S, g) ==
  g = [s \in SUBSET S |-> IF s = {} THEN 0 ELSE f[Pick(s)] + g[s \ {Pick(s)}]]
Total(f, S) == (CHOOSE g : Sums(f, S, g))[S]

\* The library's sum is the entry for the whole set in its table of partial sums.
LEMMA SumUnfolds ==
  ASSUME NEW f, NEW S
  PROVE  SumFunctionOnSet(f, S) = Total(f, S)
BY DEF SumFunctionOnSet, FoldFunctionOnSet, MapThenFoldSet, Sums, Pick, Total

\* The element the library takes out first.
LEMMA Picked == ASSUME NEW s, s # {} PROVE Pick(s) \in s
BY DEF Pick

\* Two tables of partial sums agree where both are defined.
LEMMA SumsAgree ==
  ASSUME NEW S, IsFiniteSet(S), NEW T \in SUBSET S, NEW f, NEW g, NEW h,
         Sums(f, S, g), Sums(f, T, h)
  PROVE  g[T] = h[T]
<1> DEFINE Bad == {t \in SUBSET T : g[t] # h[t]}
<1>1. CASE Bad = {}
  BY <1>1
<1>2. CASE Bad # {}
  <2>1. IsFiniteSet(T)
    BY FS_Subset
  <2>2. PICK t \in Bad : \A u \in Bad : ~(u \subseteq t /\ u # t)
    <3>1. Bad \in SUBSET SUBSET T
      OBVIOUS
    <3> HIDE DEF Bad
    <3> QED  BY <1>2, <2>1, <3>1, SmallestSubset
  <2>3. t \in SUBSET S /\ t \in SUBSET T
    OBVIOUS
  <2>4. t # {}
    <3>1. g[{}] = 0 /\ h[{}] = 0
      BY DEF Sums
    <3> QED  BY <2>2, <3>1
  <2> DEFINE u == t \ {Pick(t)}
  <2>5. u \subseteq t /\ u # t /\ u \in SUBSET T
    BY <2>3, <2>4, Picked
  <2>6. g[u] = h[u]
    BY <2>2, <2>5
  <2>7. g[t] = f[Pick(t)] + g[u] /\ h[t] = f[Pick(t)] + h[u]
    BY <2>3, <2>4 DEF Sums
  <2> QED  BY <2>2, <2>6, <2>7
<1> QED  BY <1>1, <1>2

\* Every finite set has a table of partial sums: a smallest one without would get
\* one from those of its subsets.
LEMMA SumsExist ==
  ASSUME NEW S, IsFiniteSet(S), NEW f
  PROVE  \E g : Sums(f, S, g)
<1> DEFINE Bad == {t \in SUBSET S : ~\E g : Sums(f, t, g)}
<1>1. CASE Bad = {}
  BY <1>1
<1>2. CASE Bad # {}
  <2>1. PICK t \in Bad : \A u \in Bad : ~(u \subseteq t /\ u # t)
    <3>1. Bad \in SUBSET SUBSET S
      OBVIOUS
    <3> HIDE DEF Bad
    <3> QED  BY <1>2, <3>1, SmallestSubset
  <2> DEFINE g == [s \in SUBSET t |-> IF s = {} THEN 0
                                    ELSE f[Pick(s)] + Total(f, s \ {Pick(s)})]
  <2>2. ASSUME NEW s \in SUBSET t, s # {}
        PROVE  g[s \ {Pick(s)}] = Total(f, s \ {Pick(s)})
    <3> DEFINE u == s \ {Pick(s)}
    <3>1. u \in SUBSET t /\ u \in SUBSET S /\ u # t /\ IsFiniteSet(u)
      BY <2>2, Picked, FS_Subset
    <3>2. PICK h : Sums(f, u, h) /\ h = CHOOSE e : Sums(f, u, e)
      BY <2>1, <3>1
    <3>3. CASE u = {}
      <4>1. h[u] = 0
        BY <3>2, <3>3 DEF Sums
      <4>2. g[u] = 0
        BY <3>1, <3>3
      <4>3. Total(f, u) = 0
        BY <3>2, <4>1 DEF Total
      <4> QED  BY <4>2, <4>3
    <3>4. CASE u # {}
      <4> DEFINE v == u \ {Pick(u)}
      <4>1. v \in SUBSET u /\ v \in SUBSET S /\ v # t /\ v \in SUBSET t
        BY <3>1
      <4>2. PICK e : Sums(f, v, e) /\ e = CHOOSE k : Sums(f, v, k)
        BY <2>1, <3>1, <3>4, Picked, <4>1
      <4>3. h[v] = e[v]
        BY <3>1, <3>2, <4>1, <4>2, SumsAgree
      <4>4. h[u] = f[Pick(u)] + h[v]
        BY <3>2, <3>4 DEF Sums
      <4>5. g[u] = f[Pick(u)] + Total(f, v)
        BY <3>1, <3>4
      <4> QED  BY <3>2, <4>2, <4>3, <4>4, <4>5 DEF Total
    <3> QED  BY <3>3, <3>4
  <2>3. Sums(f, t, g)
    BY <2>2 DEF Sums
  <2> QED  BY <2>3
<1> QED  BY <1>1, <1>2

\* The two equations that define a sum, and the one that makes it one: any
\* element may be taken out first.
LEMMA SumRecursion ==
  ASSUME NEW S, IsFiniteSet(S), NEW f, S # {}
  PROVE  SumFunctionOnSet(f, S) = f[Pick(S)] + SumFunctionOnSet(f, S \ {Pick(S)})
<1> DEFINE T == S \ {Pick(S)}
<1>1. T \in SUBSET S /\ IsFiniteSet(T)
  BY FS_Subset
<1>2. PICK g : Sums(f, S, g) /\ g = CHOOSE h : Sums(f, S, h)
  BY SumsExist
<1>3. PICK h : Sums(f, T, h) /\ h = CHOOSE e : Sums(f, T, e)
  BY <1>1, SumsExist
<1>4. g[T] = h[T]
  BY <1>1, <1>2, <1>3, SumsAgree
<1>5. g[S] = f[Pick(S)] + g[T]
  BY <1>2 DEF Sums
<1>6. Total(f, S) = g[S] /\ Total(f, T) = h[T]
  BY <1>2, <1>3 DEF Total
<1> QED  BY <1>4, <1>5, <1>6, SumUnfolds

\* The sum over no element.
LEMMA SumOfNothing == ASSUME NEW f PROVE SumFunctionOnSet(f, {}) = 0
<1>1. PICK g : Sums(f, {}, g) /\ g = CHOOSE h : Sums(f, {}, h)
  BY SumsExist, FS_EmptySet
<1>2. g[{}] = 0
  BY <1>1 DEF Sums
<1> QED  BY <1>1, <1>2, SumUnfolds DEF Total

\* A sum of integers is an integer.
LEMMA SumIsInt ==
  ASSUME NEW S, IsFiniteSet(S), NEW f, \A x \in S : f[x] \in Int
  PROVE  SumFunctionOnSet(f, S) \in Int
<1> DEFINE Sum(t) == SumFunctionOnSet(f, t)
           Bad == {t \in SUBSET S : Sum(t) \notin Int}
<1>1. CASE Bad = {}
  BY <1>1
<1>2. CASE Bad # {}
  <2>1. PICK t \in Bad : \A u \in Bad : ~(u \subseteq t /\ u # t)
    <3>1. Bad \in SUBSET SUBSET S
      OBVIOUS
    <3> HIDE DEF Bad
    <3> QED  BY <1>2, <3>1, SmallestSubset
  <2>2. t # {} /\ IsFiniteSet(t)
    <3>1. t # {}
      BY SumOfNothing
    <3> QED  BY <3>1, FS_Subset
  <2> DEFINE u == t \ {Pick(t)}
  <2>3. Pick(t) \in S /\ u \in SUBSET S /\ u \subseteq t /\ u # t
    BY <2>2, Picked
  <2>4. Sum(u) \in Int
    BY <2>1, <2>3
  <2>5. Sum(t) = f[Pick(t)] + Sum(u)
    BY <2>2, SumRecursion
  <2> HIDE DEF Sum
  <2> QED  BY <2>3, <2>4, <2>5
<1> QED  BY <1>1, <1>2

\* Whatever element is taken out, the rest adds up to the rest of the sum.
LEMMA SumTakesOut ==
  ASSUME NEW S, IsFiniteSet(S), NEW f, \A x \in S : f[x] \in Int, NEW a \in S
  PROVE  SumFunctionOnSet(f, S) = f[a] + SumFunctionOnSet(f, S \ {a})
<1> DEFINE Sum(t) == SumFunctionOnSet(f, t)
           Bad == {t \in SUBSET S : \E b \in t : Sum(t) # f[b] + Sum(t \ {b})}
<1>1. CASE Bad = {}
  BY <1>1
<1>2. CASE Bad # {}
  <2>1. PICK t \in Bad : \A u \in Bad : ~(u \subseteq t /\ u # t)
    <3>1. Bad \in SUBSET SUBSET S
      OBVIOUS
    <3> HIDE DEF Bad
    <3> QED  BY <1>2, <3>1, SmallestSubset
  <2>2. PICK b \in t : Sum(t) # f[b] + Sum(t \ {b})
    BY <2>1
  <2> DEFINE p == Pick(t)
             v == t \ {b, p}
  <2>3. IsFiniteSet(t) /\ t # {} /\ p \in t
    BY <2>2, FS_Subset, Picked
  <2>4. Sum(t) = f[p] + Sum(t \ {p})
    BY <2>3, SumRecursion
  <2>5. b # p
    BY <2>2, <2>4
  <2>6. Sum(t \ {p}) = f[b] + Sum(v)
    <3>1. /\ t \ {p} \notin Bad /\ t \ {p} \in SUBSET S /\ b \in t \ {p}
          /\ (t \ {p}) \ {b} = v
      BY <2>1, <2>2, <2>3, <2>5
    <3> QED  BY <3>1
  <2>7. Sum(t \ {b}) = f[p] + Sum(v)
    <3>1. /\ t \ {b} \notin Bad /\ t \ {b} \in SUBSET S /\ p \in t \ {b}
          /\ (t \ {b}) \ {p} = v
      BY <2>1, <2>2, <2>3, <2>5
    <3> QED  BY <3>1
  <2>8. Sum(v) \in Int /\ f[b] \in Int /\ f[p] \in Int
    <3>1. IsFiniteSet(v) /\ \A x \in v : f[x] \in Int
      BY FS_Subset
    <3> QED  BY <2>2, <2>3, <3>1, SumIsInt
  <2> HIDE DEF Sum, v, p
  <2> QED  BY <2>2, <2>4, <2>6, <2>7, <2>8
<1> QED  BY <1>1, <1>2

\* Only the summands count.
LEMMA SameSum ==
  ASSUME NEW S, IsFiniteSet(S), NEW f, NEW g, \A x \in S : f[x] = g[x]
  PROVE  SumFunctionOnSet(f, S) = SumFunctionOnSet(g, S)
<1> DEFINE Bad == {t \in SUBSET S : SumFunctionOnSet(f, t) # SumFunctionOnSet(g, t)}
<1>1. CASE Bad = {}
  BY <1>1
<1>2. CASE Bad # {}
  <2>1. PICK t \in Bad : \A u \in Bad : ~(u \subseteq t /\ u # t)
    <3>1. Bad \in SUBSET SUBSET S
      OBVIOUS
    <3> HIDE DEF Bad
    <3> QED  BY <1>2, <3>1, SmallestSubset
  <2>2. t # {} /\ IsFiniteSet(t)
    BY SumOfNothing, FS_Subset
  <2> DEFINE u == t \ {Pick(t)}
  <2>3. Pick(t) \in S /\ u \in SUBSET S /\ u \subseteq t /\ u # t
    BY <2>2, Picked
  <2>4. SumFunctionOnSet(f, u) = SumFunctionOnSet(g, u)
    BY <2>1, <2>3
  <2>5. /\ SumFunctionOnSet(f, t) = f[Pick(t)] + SumFunctionOnSet(f, u)
        /\ SumFunctionOnSet(g, t) = g[Pick(t)] + SumFunctionOnSet(g, u)
    BY <2>2, SumRecursion
  <2> QED  BY <2>1, <2>3, <2>4, <2>5
<1> QED  BY <1>1, <1>2

\* A subset of natural numbers has no larger sum.
LEMMA SumGrows ==
  ASSUME NEW S, IsFiniteSet(S), NEW f, \A x \in S : f[x] \in Nat, NEW T \in SUBSET S
  PROVE  SumFunctionOnSet(f, T) <= SumFunctionOnSet(f, S)
<1> DEFINE Sum(t) == SumFunctionOnSet(f, t)
           Bad == {t \in SUBSET S : T \subseteq t /\ ~(Sum(T) <= Sum(t))}
<1>1. CASE Bad = {}
  BY <1>1
<1>2. CASE Bad # {}
  <2>1. PICK t \in Bad : \A u \in Bad : ~(u \subseteq t /\ u # t)
    <3>1. Bad \in SUBSET SUBSET S
      OBVIOUS
    <3> HIDE DEF Bad
    <3> QED  BY <1>2, <3>1, SmallestSubset
  <2>2. IsFiniteSet(t) /\ IsFiniteSet(T) /\ t \in SUBSET S /\ T \subseteq t
    BY FS_Subset
  <2>3. Sum(T) \in Int /\ Sum(t) \in Int
    BY <2>2, SumIsInt
  <2>4. t # T
    BY <2>1, <2>3
  <2>5. PICK a \in t : a \notin T
    BY <2>2, <2>4
  <2> DEFINE u == t \ {a}
  <2>6. u \in SUBSET S /\ T \subseteq u /\ u \subseteq t /\ u # t /\ IsFiniteSet(u)
    BY <2>2, <2>5, FS_Subset
  <2>7. Sum(T) <= Sum(u)
    BY <2>1, <2>6
  <2>8. Sum(t) = f[a] + Sum(u)
    BY <2>2, <2>5, SumTakesOut
  <2>9. Sum(u) \in Int /\ f[a] \in Nat
    BY <2>2, <2>6, SumIsInt
  <2>10. ~(Sum(T) <= Sum(t))
    BY <2>1
  <2> HIDE DEF Sum, u
  <2> QED  BY <2>3, <2>7, <2>8, <2>9, <2>10
<1> QED  BY <1>1, <1>2
-----------------------------------------------------------------------------
(* The travel rule.                                                         *)

Cleared == {s \in recent : check[s] = "clear" /\ status[s] # "rejected"}

\* A session the check has still to sum is in the window, and one that is not
\* inserted has not been checked.
RuleTyped ==
  /\ DOMAIN status = Sessions /\ DOMAIN check = Sessions
  /\ recent \subseteq Sessions /\ IsFiniteSet(recent)
  /\ \A s \in Sessions :
       /\ status[s] = "screening" /\ check[s] = "none" => s \in recent
       /\ status[s] = "none" => check[s] = "none"

RuleInv == RuleTyped /\ ClearedVolumeBelowThreshold

\* The model's sum of amounts is the library's.
LEMMA AmountsSum ==
  ASSUME NEW S
  PROVE  SumOfAmounts(S) = SumFunctionOnSet(Amount, S)
BY SumUnfolds DEF SumOfAmounts, MapThenSumSet, MapThenFoldSet, Sums, Pick, Total

\* A part of the sessions moves no more than all of them.
LEMMA VolumeGrows ==
  ASSUME NEW S \in SUBSET Sessions, IsFiniteSet(S), NEW T \in SUBSET S
  PROVE  /\ SumOfAmounts(T) <= SumOfAmounts(S)
         /\ SumOfAmounts(T) \in Int /\ SumOfAmounts(S) \in Int
<1>1. \A s \in S : Amount[s] \in Nat
  BY TravelRuleAssumption
<1>2. IsFiniteSet(T)
  BY FS_Subset
<1>3. SumFunctionOnSet(Amount, T) <= SumFunctionOnSet(Amount, S)
  BY <1>1, SumGrows
<1>4. SumFunctionOnSet(Amount, T) \in Int /\ SumFunctionOnSet(Amount, S) \in Int
  BY <1>1, <1>2, SumIsInt
<1> QED  BY <1>3, <1>4, AmountsSum

\* A step that clears no further session.
LEMMA NoneCleared ==
  ASSUME RuleInv, RuleTyped', Cleared' \subseteq Cleared
  PROVE  RuleInv'
<1>1. CASE Cleared' = {}
  BY <1>1 DEF RuleInv, ClearedVolumeBelowThreshold, Cleared
<1>2. CASE Cleared' # {}
  <2>1. SumOfAmounts(Cleared) < Threshold
    BY <1>2 DEF RuleInv, ClearedVolumeBelowThreshold, Cleared
  <2>2. Cleared \in SUBSET Sessions /\ IsFiniteSet(Cleared)
    <3>1. Cleared \subseteq recent
      BY DEF Cleared
    <3> QED  BY <3>1, FS_Subset DEF RuleInv, RuleTyped
  <2>3. /\ SumOfAmounts(Cleared') <= SumOfAmounts(Cleared)
        /\ SumOfAmounts(Cleared') \in Int /\ SumOfAmounts(Cleared) \in Int
    BY <2>2, VolumeGrows
  <2>4. SumOfAmounts(Cleared') < Threshold
    BY <2>1, <2>3, TravelRuleAssumption
  <2> QED  BY <2>4 DEF RuleInv, ClearedVolumeBelowThreshold, Cleared
<1> QED  BY <1>1, <1>2

\* What the check lets go on it has counted, with all that went on before.
LEMMA Checking ==
  ASSUME RuleInv, NEW s \in Sessions, TravelRuleThresholdExceeded(s)
  PROVE  RuleInv'
<1>1. RuleTyped'
  BY DEF RuleInv, RuleTyped, TravelRuleThresholdExceeded
<1>2. /\ s \in recent /\ status[s] = "screening" /\ recent' = recent /\ status' = status
      /\ DOMAIN check = Sessions
  BY DEF RuleInv, RuleTyped, TravelRuleThresholdExceeded
<1>3. CASE Exceeds(SumOfAmounts(Counted) + Amount[s])
  <2>1. check' = [check EXCEPT ![s] = "hit"]
    BY <1>3 DEF TravelRuleThresholdExceeded
  <2> QED  BY <1>1, <1>2, <2>1, NoneCleared DEF Cleared
<1>4. CASE ~Exceeds(SumOfAmounts(Counted) + Amount[s])
  <2>1. check' = [check EXCEPT ![s] = "clear"]
    BY <1>4 DEF TravelRuleThresholdExceeded
  <2>2. Cleared' \subseteq Counted /\ Counted \subseteq recent
    BY <1>2, <2>1 DEF Cleared, Counted
  <2>3. Counted \in SUBSET Sessions /\ IsFiniteSet(Counted)
    BY <2>2, FS_Subset DEF RuleInv, RuleTyped
  <2>4. /\ SumOfAmounts(Cleared') <= SumOfAmounts(Counted)
        /\ SumOfAmounts(Cleared') \in Int /\ SumOfAmounts(Counted) \in Int
    BY <2>2, <2>3, VolumeGrows
  <2>5. Amount[s] \in Nat /\ Threshold \in Nat
    BY TravelRuleAssumption
  <2>6. SumOfAmounts(Cleared') < Threshold
    BY <1>4, <2>4, <2>5 DEF Exceeds
  <2> QED  BY <1>1, <2>6 DEF RuleInv, ClearedVolumeBelowThreshold, Cleared
<1> QED  BY <1>3, <1>4

\* A session that leaves a status clears none, and is never taken back from a refusal.
LEMMA Moving ==
  ASSUME RuleInv, NEW s \in Sessions, NEW to \in {"compliance_hold", "rejected", "pending", "expired"},
         status[s] # "none", status[s] # "rejected", MoveTo(s, to), UNCHANGED <<recent, check>>
  PROVE  RuleInv'
<1>1. RuleTyped'
  BY DEF RuleInv, RuleTyped, MoveTo
<1>2. Cleared' \subseteq Cleared
  BY DEF RuleInv, RuleTyped, MoveTo, Cleared
<1> QED  BY <1>1, <1>2, NoneCleared

\* A session is inserted unchecked.
LEMMA Inserting ==
  ASSUME RuleInv, NEW s \in Sessions, InsertSession(s)
  PROVE  RuleInv'
<1>1. IsFiniteSet(recent')
  BY FS_AddElement DEF InsertSession, RuleInv, RuleTyped
<1>2. RuleTyped'
  BY <1>1 DEF RuleInv, RuleTyped, InsertSession, MoveTo
<1>3. Cleared' \subseteq Cleared
  BY DEF RuleInv, RuleTyped, InsertSession, MoveTo, Cleared
<1> QED  BY <1>2, <1>3, NoneCleared

\* A session that leaves the window takes its volume with it.
LEMMA Leaving ==
  ASSUME RuleInv, NEW s \in Sessions, LeaveWindow(s)
  PROVE  RuleInv'
<1>1. IsFiniteSet(recent')
  BY FS_RemoveElement DEF LeaveWindow, RuleInv, RuleTyped
<1>2. RuleTyped'
  BY <1>1 DEF RuleInv, RuleTyped, LeaveWindow
<1>3. Cleared' \subseteq Cleared
  BY DEF LeaveWindow, Cleared
<1> QED  BY <1>2, <1>3, NoneCleared

LEMMA RuleStep ==
  ASSUME RuleInv, [Next]_vars
  PROVE  RuleInv'
<1>1. ASSUME UNCHANGED <<status, recent, check>> PROVE RuleInv'
  BY <1>1, NoneCleared DEF RuleInv, RuleTyped, Cleared
<1>2. ASSUME NEW s \in Sessions, Hold(s) \/ Reject(s) \/ TransitionToPending(s) \/ Expire(s)
      PROVE  RuleInv'
  BY <1>2, Moving DEF Hold, Reject, TransitionToPending, Expire, Undecided, MayDecide
<1>3. ASSUME NEW s \in Sessions, Approve(s) PROVE RuleInv'
  BY <1>1, <1>3 DEF Approve
<1>4. ASSUME UNCHANGED ruleVars PROVE RuleInv'
  BY <1>1, <1>4 DEF ruleVars
<1> QED  BY <1>2, <1>3, <1>4, Inserting, Checking, Leaving
         DEF Next, vars, CreateSession, Screen, LockAndOpen, Lapse

\* compliance.go, travelRuleThresholdExceeded: for any sessions, amounts and
\* threshold, what one tenant's cleared sessions of the window add up to stays
\* below the threshold, in whatever order they are created and checked.
THEOREM ClearedStaysBelowThreshold == Spec => []ClearedVolumeBelowThreshold
<1>1. QuoteInit => RuleInv
  <2>1. QuoteInit => Cleared = {} /\ RuleTyped
    BY FS_EmptySet DEF QuoteInit, Init, Cleared, RuleTyped
  <2> QED  BY <2>1 DEF RuleInv, ClearedVolumeBelowThreshold, Cleared
<1>2. RuleInv /\ [Next]_vars => RuleInv'
  BY RuleStep
<1>3. RuleInv => ClearedVolumeBelowThreshold
  BY DEF RuleInv
<1> QED  BY <1>1, <1>2, <1>3, PTL DEF Spec
=============================================================================
