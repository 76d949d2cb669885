-------------------------------- MODULE Rate --------------------------------
(***************************************************************************)
(* The rate of one fiat currency (internal/rate, cmd/ratefetcher): quotes  *)
(* are fetched into provider_rates in the background, CurrentRateJob       *)
(* selects one into current_rates, and LockRate takes what it finds there. *)
(*                                                                         *)
(* Time passes in ticks.  The job's ticker does not slip by more than the  *)
(* tick it is due in; fetchers promise nothing, a fetch that fails or a    *)
(* fetcher that is down being a fetch that is not made.                    *)
(***************************************************************************)
EXTENDS Integers, FiniteSetsExt

CONSTANTS
  Cached,       \* providers with rows in provider_rates
  Polled,       \* those FetchJob fetches; ratefetcher feeds the others
  Ceiling,      \* system_rates.current_rate
  Quotes,       \* the rates providers may answer
  MaxStaleAge,  \* maxStaleAge, in ticks
  Interval,     \* RATE_CURRENT_RATE_INTERVAL, in ticks
  MaxAge        \* bound: ages are counted up to it

ASSUME RateAssumption ==
  /\ Polled \subseteq Cached /\ Cached \cap {"system", "none"} = {}
  /\ Quotes \subseteq Nat \ {0} /\ Ceiling \in Nat \ {0}
  /\ MaxStaleAge \in Nat /\ Interval \in Nat \ {0}
  /\ MaxAge \in Nat /\ MaxAge > MaxStaleAge + Interval

VARIABLES
  rows,    \* provider_rates: by provider, a quote or none
  current, \* the current_rates row: the quote selected, or none
  since,   \* ticks since the job's last run
  lapsed,  \* whether a run has been lost since the row was last written
  active   \* whether an active corridor uses the currency

rateVars == <<rows, current, since, lapsed, active>>

None == [provider |-> "none"]
Quote(p, rate, age) == [provider |-> p, rate |-> rate, age |-> age]

AllQuotes ==
  {None} \cup [provider : Cached \cup {"system"}, rate : Quotes \cup {Ceiling},
               age : 0..MaxAge]

RateTypeOK ==
  /\ rows \in [Cached -> AllQuotes]
  /\ current \in AllQuotes
  /\ since \in 0..Interval
  /\ lapsed \in BOOLEAN /\ active \in BOOLEAN

\* The job runs at once when the server starts.
RateInit ==
  /\ rows = [p \in Cached |-> None]
  /\ current = None
  /\ since = Interval
  /\ lapsed = FALSE
  /\ active = TRUE

-----------------------------------------------------------------------------
\* The system rate does not go stale; a row older than maxStaleAge is as good
\* as none, whatever its age.
Older(q, n, bound) ==
  IF q.provider \in Cached
  THEN [q EXCEPT !.age = IF q.age + n > bound THEN bound ELSE q.age + n] ELSE q

Passes(n) ==
  /\ rows' = [p \in Cached |-> Older(rows[p], n, MaxStaleAge + 1)]
  /\ current' = Older(current, n, MaxAge)

Tick ==
  /\ since < Interval
  /\ Passes(1)
  /\ since' = since + 1
  /\ UNCHANGED <<lapsed, active>>

\* The server is down for a while; the job's first run is due when it is back,
\* and requests are served before it has been made.
Outage ==
  /\ \E n \in 1..MaxAge : Passes(n)
  /\ since' = Interval
  /\ lapsed' = TRUE
  /\ UNCHANGED active

UpsertProviderRate(p, rate) == rows' = [rows EXCEPT ![p] = Quote(p, rate, 0)]

\* One quote fetched and stored, by ratefetcher for its one currency whatever
\* the corridors, or by a run of FetchJob, which goes through the currencies of
\* active corridors and passes over a provider that fails.
Wanted(p) == p \in Polled => active

Fetch(p) ==
  /\ Wanted(p)
  /\ \E rate \in Quotes : UpsertProviderRate(p, rate)
  /\ UNCHANGED <<current, since, lapsed, active>>

\* systemProvider.FetchRate and fetchCachedProviderRate.
Fresh_AnyAge(p) == rows[p] # None
Fresh(p) == rows[p] # None /\ rows[p].age <= MaxStaleAge

FetchRate(p) == IF p = "system" THEN Quote("system", Ceiling, 0) ELSE rows[p]

Readable == {"system"} \cup {p \in Cached : Fresh(p)}

\* The lowest wins; of equal ones whichever was read first.
SelectBest(quotes) == {q \in quotes : \A r \in quotes : q.rate <= r.rate}

\* GetBestQuote over the providers whose reads succeeded, and the upsert.
ComputeAndPersistCurrentRate(read) ==
  /\ current' \in SelectBest({FetchRate(p) : p \in read})
  /\ lapsed' = FALSE

\* A run does nothing when no active corridor uses the currency, when no quote
\* could be read or when the row could not be written.
RunIsLost ==
  /\ lapsed' = TRUE
  /\ UNCHANGED current

RunDue == since = Interval

RunOnce ==
  /\ RunDue
  /\ since' = 0
  /\ \/ active /\ \E read \in SUBSET Readable \ {{}} : ComputeAndPersistCurrentRate(read)
     \/ RunIsLost
  /\ UNCHANGED <<rows, active>>

SetCorridorActive ==
  /\ active' = ~active
  /\ UNCHANGED <<rows, current, since, lapsed>>

\* GetCurrentRate fails until the job has written the row.
Computed == current # None

\* LockRate takes the row as it is, however old and whether or not a corridor
\* is active; without one, or without a price of the asset, it fails.
LockRate ==
  /\ Computed
  /\ UNCHANGED rateVars

RateNext ==
  Tick \/ Outage \/ (\E p \in Cached : Fetch(p)) \/ RunOnce \/ SetCorridorActive

RateSpec == RateInit /\ [][RateNext]_rateVars

=============================================================================
