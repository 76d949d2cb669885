------------------------- MODULE AddressPoolProofs -------------------------
(***************************************************************************)
(* The two promises of the address pool, for any sessions, tenants,        *)
(* chains, bindings and wallets: no address has two open sessions, and a   *)
(* derived address serves one tenant on one chain for ever.                *)
(*                                                                         *)
(* The first holds by the unique index alone.  The second needs what lies  *)
(* between an address being found or derived and its reservation: the      *)
(* request that is about to persist one (Carries) has it of its own        *)
(* tenant's pool or from a registered wallet, and the pool                 *)
(* (derived_addresses) has an address once.                                *)
(***************************************************************************)
EXTENDS AddressPool, TLAPS

OfPool(pool, s, address) ==
  \E d \in pool : d.tenant = TenantOf[s] /\ d.chain = ChainOf[s] /\ d.address = address

\* A registered wallet, or an address of the session's own pool.
Suits(pool, s, address) == address \in Wallets \cup {NoAddress} \/ OfPool(pool, s, address)

Locals == [binding : Nat, account : Nat, index : Nat, address : Address \cup {NoAddress}]
Reservations == [status : {"none", "reserved", "released"}, address : Address \cup {NoAddress}]
Pool == [tenant : Tenants, chain : Chains, index : Nat, address : Derivable]

PoolTyped ==
  /\ account \in [Tenants -> Nat]
  /\ nextAccount \in Nat
  /\ nextIndex \in [Tenants \X Chains -> Nat]
  /\ derived \subseteq Pool
CustomTyped == custom \in [Tenants \X Chains -> Wallets \cup {NoAddress}]
RequestTyped == DOMAIN pc = Sessions /\ loc \in [Sessions -> Locals]

PoolHasAddressOnce == \A d, e \in derived : d.address = e.address => d = e
Carries == \A s \in Sessions : pc[s] = "persist" => Suits(derived, s, loc[s].address)
Reserved == \A s \in Sessions : Suits(derived, s, reservation[s].address)

Requests == RequestTyped /\ Carries
Reservation == reservation \in [Sessions -> Reservations] /\ Reserved
HD == PoolTyped /\ PoolHasAddressOnce
Inv == CustomTyped /\ HD /\ Requests /\ Reservation

-----------------------------------------------------------------------------
(* What each kind of update preserves.                                      *)

\* Nothing is ever removed from the pool, so what suits a session goes on to.
LEMMA SuitsForEver ==
  ASSUME NEW p, NEW q, p \subseteq q, NEW s, NEW a, Suits(p, s, a)
  PROVE  Suits(q, s, a)
BY DEF Suits, OfPool

\* A request takes a step: its next statement and its local variables.
LEMMA RequestStep ==
  ASSUME Requests, derived \subseteq derived',
         NEW s \in Sessions, NEW l, NEW value \in Locals,
         Goto(s, l), Local(s, value),
         l = "persist" => Suits(derived', s, value.address)
  PROVE  Requests'
<1>1. RequestTyped'
  BY DEF Requests, RequestTyped, Goto, Local
<1>2. Carries'
  <2> SUFFICES ASSUME NEW r \in Sessions, pc'[r] = "persist"
               PROVE  Suits(derived', r, loc'[r].address)
    BY DEF Carries, Suits, OfPool
  <2>1. CASE r = s
    BY <2>1 DEF Requests, RequestTyped, Goto, Local
  <2>2. CASE r # s
    <3>1. pc[r] = "persist" /\ loc'[r] = loc[r]
      BY <2>2 DEF Requests, RequestTyped, Goto, Local
    <3> QED  BY <3>1, SuitsForEver DEF Requests, Carries
  <2> QED  BY <2>1, <2>2
<1> QED  BY <1>1, <1>2 DEF Requests

\* The same when only the next statement changes, and it is not the reservation.
LEMMA GotoStep ==
  ASSUME Requests, derived \subseteq derived', NEW s \in Sessions, NEW l,
         Goto(s, l), l # "persist", loc' = loc
  PROVE  Requests'
<1>1. loc[s] \in Locals /\ Local(s, loc[s])
  BY DEF Requests, RequestTyped, Local
<1> QED  BY <1>1, RequestStep

LEMMA FinishStep ==
  ASSUME Requests, derived' = derived, NEW s \in Sessions, Finish(s)
  PROVE  Requests'
<1>1. Start \in Locals
  BY DEF Start, Locals
<1> QED  BY <1>1, RequestStep DEF Finish

LEMMA NextBindingStep ==
  ASSUME Requests, derived' = derived, NEW s \in Sessions, NextBinding(s)
  PROVE  Requests'
<1>1. loc[s] \in Locals
  BY DEF Requests, RequestTyped
<1>2. [loc[s] EXCEPT !.binding = @ + 1] \in Locals
  BY <1>1 DEF Locals
<1> QED  BY <1>2, RequestStep DEF NextBinding

LEMMA PersistStep ==
  ASSUME Requests, derived \subseteq derived', NEW s \in Sessions,
         NEW a \in Address \cup {NoAddress}, Suits(derived', s, a), Persist(s, a)
  PROVE  Requests'
<1>1. loc[s] \in Locals
  BY DEF Requests, RequestTyped
<1>2. [loc[s] EXCEPT !.address = a] \in Locals /\ [loc[s] EXCEPT !.address = a].address = a
  BY <1>1 DEF Locals
<1> QED  BY <1>2, RequestStep DEF Persist

\* Reservations stay as they are while the pool grows.
LEMMA ReservationStays ==
  ASSUME Reservation, derived \subseteq derived', reservation' = reservation
  PROVE  Reservation'
BY SuitsForEver DEF Reservation, Reserved, Suits, OfPool

\* A step that leaves the pool's rows and the reservations alone.
LEMMA Elsewhere ==
  ASSUME Inv, UNCHANGED <<custom, hd, reservation>>, Requests'
  PROVE  Inv'
BY DEF Inv, CustomTyped, HD, PoolTyped, PoolHasAddressOnce, Reservation, Reserved,
       Suits, OfPool, hd

LEMMA NothingMoves ==
  ASSUME Inv, UNCHANGED <<custom, hd, reservation, requests>>
  PROVE  Inv'
BY DEF Inv, CustomTyped, HD, PoolTyped, PoolHasAddressOnce, Reservation, Reserved,
       Requests, RequestTyped, Carries, Suits, OfPool, hd, requests

-----------------------------------------------------------------------------
(* The steps.                                                               *)

LEMMA InvInit == Init => Inv
<1> SUFFICES ASSUME Init PROVE Inv
  OBVIOUS
<1>1. CustomTyped
  BY DEF Init, CustomTyped
<1>2. HD
  BY DEF Init, HD, PoolTyped, PoolHasAddressOnce, TenantAccountOffset
<1>3. Requests
  <2>1. Start \in Locals
    BY DEF Start, Locals
  <2> QED  BY <2>1 DEF Init, Requests, RequestTyped, Carries
<1>4. Reservation
  <2>1. [status |-> "none", address |-> NoAddress] \in Reservations
    BY DEF Reservations
  <2> QED  BY <2>1 DEF Init, Reservation, Reserved, Suits
<1> QED  BY <1>1, <1>2, <1>3, <1>4 DEF Inv

LEMMA SessionsAreOf ==
  ASSUME NEW s \in Sessions
  PROVE  TenantOf[s] \in Tenants /\ ChainOf[s] \in Chains
BY DEF Tenants, Chains

\* Looking for an address: the tenant's wallet, or a free one of its pool.
LEMMA Finding ==
  ASSUME Inv, NEW s \in Sessions,
         NoProviderLeft(s) \/ TenantWallet(s) \/ FindFreeDerivedAddress(s)
  PROVE  Inv'
<1>. USE SessionsAreOf DEF Inv
<1>1. CASE NoProviderLeft(s)
  BY <1>1, FinishStep, Elsewhere DEF NoProviderLeft, outside, hd
<1>2. CASE TenantWallet(s)
  <2> DEFINE a == custom[TenantOf[s], ChainOf[s]]
  <2>1. a \in Wallets \cup {NoAddress}
    BY DEF CustomTyped
  <2>2. a \in Address \cup {NoAddress} /\ Suits(derived', s, a)
    BY <2>1 DEF Address, Suits
  <2>3. Requests'
    <3>1. derived' = derived
      BY <1>2 DEF TenantWallet, hd
    <3>2. CASE NextBinding(s)
      BY <3>1, <3>2, NextBindingStep
    <3>3. CASE Persist(s, a)
      BY <2>2, <3>1, <3>3, PersistStep
    <3> QED  BY <1>2, <3>2, <3>3 DEF TenantWallet
  <2> QED  BY <1>2, <2>3, Elsewhere DEF TenantWallet, outside
<1>3. CASE FindFreeDerivedAddress(s)
  <2>1. UNCHANGED <<custom, hd, reservation>>
    BY <1>3 DEF FindFreeDerivedAddress, outside
  <2>2. Requests'
    <3>1. CASE Goto(s, "account") /\ UNCHANGED loc
      BY <2>1, <3>1, GotoStep DEF hd
    <3>2. ASSUME NEW d \in Free(TenantOf[s], ChainOf[s]), Persist(s, d.address)
          PROVE  Requests'
      <4>1. d \in derived /\ d.tenant = TenantOf[s] /\ d.chain = ChainOf[s] /\ derived' = derived
        BY <2>1 DEF Free, hd
      <4>2. d.address \in Address \cup {NoAddress}
        BY <4>1 DEF HD, PoolTyped, Pool, Address
      <4>3. Suits(derived', s, d.address)
        BY <4>1 DEF Suits, OfPool
      <4> QED  BY <3>2, <4>1, <4>2, <4>3, PersistStep
    <3> QED  BY <1>3, <3>1, <3>2 DEF FindFreeDerivedAddress
  <2> QED  BY <2>1, <2>2, Elsewhere
<1> QED  BY <1>1, <1>2, <1>3

\* Accounts and indices: what is allocated is a number, and no row is inserted.
LEMMA Allocating ==
  ASSUME Inv, NEW s \in Sessions,
         ReadAccount(s) \/ AllocateAccount(s) \/ AssignAccount(s) \/ AllocateNextIndex(s)
  PROVE  Inv'
<1>. USE SessionsAreOf DEF Inv
<1>0. loc[s] \in Locals
  BY DEF Requests, RequestTyped
<1>1. CASE ReadAccount(s)
  <2>1. [loc[s] EXCEPT !.account = account[TenantOf[s]]] \in Locals
    BY <1>0 DEF Locals, HD, PoolTyped
  <2>2. derived' = derived
    BY <1>1 DEF ReadAccount, hd
  <2>3. Requests'
    BY <1>1, <2>1, <2>2, RequestStep DEF ReadAccount
  <2> QED  BY <1>1, <2>3, Elsewhere DEF ReadAccount, outside
<1>2. CASE AllocateAccount(s)
  <2>1. [loc[s] EXCEPT !.account = Allocated(nextAccount)] \in Locals
    BY <1>0 DEF Locals, HD, PoolTyped, Allocated
  <2>2. derived' = derived /\ custom' = custom /\ reservation' = reservation
    BY <1>2 DEF AllocateAccount, outside
  <2>3. Requests'
    BY <1>2, <2>1, <2>2, RequestStep DEF AllocateAccount
  <2>4. HD'
    BY <1>2 DEF AllocateAccount, HD, PoolTyped, PoolHasAddressOnce
  <2> QED  BY <2>2, <2>3, <2>4, ReservationStays DEF CustomTyped
<1>3. CASE AssignAccount(s)
  <2>1. derived' = derived /\ custom' = custom /\ reservation' = reservation
    BY <1>3 DEF AssignAccount, outside
  <2>2. Requests'
    BY <1>3, <2>1, GotoStep DEF AssignAccount
  <2>3. account' \in [Tenants -> Nat]
    BY <1>0, <1>3 DEF AssignAccount, HD, PoolTyped, Locals
  <2>4. HD'
    BY <1>3, <2>3 DEF AssignAccount, HD, PoolTyped, PoolHasAddressOnce
  <2> QED  BY <2>1, <2>2, <2>4, ReservationStays DEF CustomTyped
<1>4. CASE AllocateNextIndex(s)
  <2> DEFINE k == <<TenantOf[s], ChainOf[s]>>
  <2>1. k \in Tenants \X Chains /\ nextIndex[k] \in Nat
    BY DEF HD, PoolTyped
  <2>2. [loc[s] EXCEPT !.index = nextIndex[k]] \in Locals
    BY <1>0, <2>1 DEF Locals
  <2>3. derived' = derived /\ custom' = custom /\ reservation' = reservation
    BY <1>4 DEF AllocateNextIndex, outside
  <2>4. Requests'
    BY <1>4, <2>2, <2>3, RequestStep DEF AllocateNextIndex
  <2>5. HD'
    <3>1. nextIndex' = [nextIndex EXCEPT ![k] = nextIndex[k] + 1]
      BY <1>4 DEF AllocateNextIndex
    <3>2. nextIndex' \in [Tenants \X Chains -> Nat]
      BY <2>1, <3>1 DEF HD, PoolTyped
    <3> QED  BY <1>4, <3>2 DEF AllocateNextIndex, HD, PoolTyped, PoolHasAddressOnce
  <2> QED  BY <2>3, <2>4, <2>5, ReservationStays DEF CustomTyped
<1> QED  BY <1>1, <1>2, <1>3, <1>4

\* The insert: the unique column keeps an address from two rows.
LEMMA Inserting ==
  ASSUME AddressPoolAssumption, Inv, NEW s \in Sessions, InsertDerivedAddress(s)
  PROVE  Inv'
<1>. USE SessionsAreOf DEF Inv
<1> DEFINE a == <<CoinType[ChainOf[s]], loc[s].account, loc[s].index>>
           row == [tenant |-> TenantOf[s], chain |-> ChainOf[s],
                   index |-> loc[s].index, address |-> a]
<1>0. UNCHANGED <<custom, reservation, account, nextAccount, nextIndex>>
  BY DEF InsertDerivedAddress, outside
<1>1. CASE NextBinding(s) /\ UNCHANGED derived
  <2>1. Requests'
    BY <1>1, NextBindingStep
  <2>2. HD'
    BY <1>1 DEF InsertDerivedAddress, HD, PoolTyped, PoolHasAddressOnce
  <2> QED  BY <1>0, <1>1, <2>1, <2>2, ReservationStays DEF CustomTyped
<1>2. CASE /\ ~\E d \in derived : d.address = a
           /\ derived' = derived \cup {row}
           /\ Persist(s, a)
  <2>0. loc[s].account \in Nat /\ loc[s].index \in Nat
    BY DEF Requests, RequestTyped, Locals
  <2>1. a \in Derivable
    <3>1. CoinType[ChainOf[s]] \in {CoinType[c] : c \in Chains}
      OBVIOUS
    <3> QED  BY <2>0, <3>1 DEF Derivable
  <2>2. /\ row \in Pool
        /\ row.tenant = TenantOf[s] /\ row.chain = ChainOf[s] /\ row.address = a
    <3> HIDE DEF a
    <3> QED  BY <2>0, <2>1 DEF Pool
  <2> HIDE DEF row
  <2>3. HD'
    <3> HIDE DEF a
    <3> QED  BY <1>0, <1>2, <2>2 DEF HD, PoolTyped, PoolHasAddressOnce
  <2>4. Suits(derived', s, a)
    <3> HIDE DEF a
    <3> QED  BY <1>2, <2>2 DEF Suits, OfPool
  <2>5. Requests'
    BY <1>2, <2>1, <2>4, PersistStep DEF Address
  <2> QED  BY <1>0, <1>2, <2>3, <2>5, ReservationStays DEF CustomTyped
<1> QED  BY <1>1, <1>2 DEF InsertDerivedAddress

\* The reservation: what the request carries is what its session has.
LEMMA Persisting ==
  ASSUME Inv, NEW s \in Sessions, PersistReservation(s)
  PROVE  Inv'
<1>. USE DEF Inv
<1>1. UNCHANGED <<custom, hd>>
  BY DEF PersistReservation, outside
<1>2. Requests'
  BY <1>1, FinishStep DEF PersistReservation, hd
<1>3. loc[s] \in Locals /\ Suits(derived, s, loc[s].address)
  BY DEF PersistReservation, At, Requests, RequestTyped, Carries
<1>4. [status |-> "reserved", address |-> loc[s].address] \in Reservations
  BY <1>3 DEF Reservations, Locals
<1>5. Reservation'
  <2>1. derived' = derived
    BY <1>1 DEF hd
  <2>2. CASE reservation' = reservation
    BY <2>1, <2>2, ReservationStays
  <2>3. CASE reservation' =
          [reservation EXCEPT ![s] = [status |-> "reserved", address |-> loc[s].address]]
    BY <1>3, <1>4, <2>1, <2>3 DEF Reservation, Reserved, Suits, OfPool
  <2> QED  BY <2>2, <2>3 DEF PersistReservation
<1> QED  BY <1>1, <1>2, <1>5 DEF CustomTyped, HD, PoolTyped, PoolHasAddressOnce, hd

LEMMA Releasing ==
  ASSUME Inv, NEW s \in Sessions, ReleaseReservation(s)
  PROVE  Inv'
<1>. USE DEF Inv
<1>1. UNCHANGED <<custom, hd, requests>>
  BY DEF ReleaseReservation, outside
<1>2. reservation[s] \in Reservations
  BY DEF Reservation
<1>3. /\ [reservation[s] EXCEPT !.status = "released"] \in Reservations
      /\ [reservation[s] EXCEPT !.status = "released"].address = reservation[s].address
  BY <1>2 DEF Reservations
<1>4. Reservation'
  <2>1. reservation' = [reservation EXCEPT ![s] = [reservation[s] EXCEPT !.status = "released"]]
    BY DEF ReleaseReservation
  <2>2. reservation' \in [Sessions -> Reservations]
    BY <1>3, <2>1 DEF Reservation
  <2>3. \A t \in Sessions : reservation'[t].address = reservation[t].address
    BY <1>3, <2>1 DEF Reservation
  <2>4. derived' = derived
    BY <1>1 DEF hd
  <2>5. Reserved'
    BY <2>3, <2>4 DEF Reservation, Reserved, Suits, OfPool
  <2> QED  BY <2>2, <2>5 DEF Reservation
<1>5. CustomTyped' /\ HD'
  BY <1>1 DEF CustomTyped, HD, PoolTyped, PoolHasAddressOnce, hd
<1>6. Requests'
  BY <1>1 DEF Requests, RequestTyped, Carries, Suits, OfPool, hd, requests
<1> QED  BY <1>4, <1>5, <1>6

LEMMA Registering ==
  ASSUME Inv, NEW k \in Tenants, NEW c \in Chains, NEW a \in WalletsOf[k, c],
         RegisterTenantCustomWallet(k, c, a)
  PROVE  Inv'
<1>1. a \in Wallets
  <2>1. <<k, c>> \in Tenants \X Chains
    OBVIOUS
  <2> QED  BY <2>1 DEF Wallets
<1>2. CustomTyped'
  BY <1>1 DEF RegisterTenantCustomWallet, Inv, CustomTyped
<1>3. UNCHANGED <<hd, reservation, requests>>
  BY DEF RegisterTenantCustomWallet
<1> QED  BY <1>2, <1>3 DEF Inv, HD, PoolTyped, PoolHasAddressOnce, Reservation, Reserved,
              Requests, RequestTyped, Carries, Suits, OfPool, hd, requests

\* A request that is cut short, and everything that is not a request's.
LEMMA Failing ==
  ASSUME Inv, NEW s \in Sessions, BindingFails(s) \/ Interrupted(s)
  PROVE  Inv'
<1>1. UNCHANGED <<custom, hd, reservation>>
  BY DEF BindingFails, Interrupted
<1>2. Requests'
  BY <1>1, NextBindingStep, FinishStep DEF BindingFails, Interrupted, Inv, hd
<1> QED  BY <1>1, <1>2, Elsewhere

LEMMA InvStep ==
  ASSUME AddressPoolAssumption, Inv, [Next]_vars
  PROVE  Inv'
<1>1. ASSUME NEW s \in Sessions, Reserve(s) PROVE Inv'
  BY <1>1, Finding, Allocating, Inserting, Persisting DEF Reserve
<1>2. ASSUME NEW s \in Sessions, ReleaseReservation(s) PROVE Inv'
  BY <1>2, Releasing
<1>3. ASSUME NEW s \in Sessions, BindingFails(s) \/ Interrupted(s) PROVE Inv'
  BY <1>3, Failing
<1>4. ASSUME NEW k \in Tenants, NEW c \in Chains, NEW a \in WalletsOf[k, c],
             RegisterTenantCustomWallet(k, c, a)
      PROVE  Inv'
  BY <1>4, Registering
<1>5. CASE Poll \/ PollFails
  BY <1>5, NothingMoves DEF Poll, ListOpenReservations, ListIncomingTransactions,
     RecordDeposit, PollFails, polling
<1>6. CASE \E t \in Txs : TransferFinal(t) \/ \E s \in Sessions : SendTransfer(t, s)
  BY <1>6, NothingMoves DEF TransferFinal, SendTransfer
<1>7. CASE UNCHANGED vars
  BY <1>7, NothingMoves DEF vars
<1> QED  BY <1>1, <1>2, <1>3, <1>4, <1>5, <1>6, <1>7 DEF Next

LEMMA Invariant == Spec => []Inv
<1>1. Init => Inv
  BY InvInit
<1>2. Inv /\ [Next]_vars => Inv'
  BY InvStep, AddressPoolAssumption
<1> QED  BY <1>1, <1>2, PTL DEF Spec

-----------------------------------------------------------------------------
(* The theorems.                                                            *)

\* hdwallet.go:98: a derived address never serves two tenants, nor one tenant on
\* two chains, however the first requests race for accounts and indices.
THEOREM PoolsAreApart == Spec => []AddressStaysWithTenant
<1>1. Inv => AddressStaysWithTenant
  BY DEF Inv, Reservation, Reserved, Suits, OfPool, HD, PoolHasAddressOnce,
     AddressStaysWithTenant
<1> QED  BY <1>1, Invariant, PTL

\* migrations/000011's unique index: of all the requests that found an address
\* free, one reserves it, and it stays the only one until it is released.
LEMMA ReservedOnce ==
  ASSUME Inv, OneOpenSessionPerAddress, [Next]_vars
  PROVE  OneOpenSessionPerAddress'
<1>0. reservation \in [Sessions -> Reservations]
  BY DEF Inv, Reservation
<1>1. ASSUME NEW s \in Sessions, PersistReservation(s) PROVE OneOpenSessionPerAddress'
  <2>1. CASE Conflicts(s)
    BY <1>1, <2>1 DEF PersistReservation, OneOpenSessionPerAddress
  <2>2. CASE ~Conflicts(s)
    BY <1>0, <1>1, <2>2 DEF PersistReservation, Conflicts, Taken, OneOpenSessionPerAddress
  <2> QED  BY <2>1, <2>2
<1>2. ASSUME NEW s \in Sessions, ReleaseReservation(s) PROVE OneOpenSessionPerAddress'
  BY <1>0, <1>2 DEF ReleaseReservation, OneOpenSessionPerAddress, Reservations
<1>3. CASE reservation' = reservation
  BY <1>3 DEF OneOpenSessionPerAddress
<1>4. \/ \E s \in Sessions : PersistReservation(s) \/ ReleaseReservation(s)
      \/ reservation' = reservation
  BY DEF Next, vars, Reserve, NoProviderLeft, TenantWallet, FindFreeDerivedAddress,
     ReadAccount, AllocateAccount, AssignAccount, AllocateNextIndex, InsertDerivedAddress,
     BindingFails, Interrupted, RegisterTenantCustomWallet, Poll, ListOpenReservations,
     ListIncomingTransactions, RecordDeposit, PollFails, polling, TransferFinal, SendTransfer
<1> QED  BY <1>1, <1>2, <1>3, <1>4

THEOREM NoDoubleBooking == Spec => []OneOpenSessionPerAddress
<1>1. Init => OneOpenSessionPerAddress
  <2>1. ASSUME Init, NEW s \in Sessions PROVE reservation[s].status = "none"
    <3>1. reservation[s] = [status |-> "none", address |-> NoAddress]
      BY <2>1 DEF Init
    <3> QED  BY <3>1
  <2> QED  BY <2>1 DEF OneOpenSessionPerAddress
<1>2. Inv /\ OneOpenSessionPerAddress /\ [Next]_vars => OneOpenSessionPerAddress'
  BY ReservedOnce
<1> QED  BY <1>1, <1>2, Invariant, PTL DEF Spec
=============================================================================
