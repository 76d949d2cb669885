---------------------------- MODULE AddressPool ----------------------------
(***************************************************************************)
(* Deposit addresses of several sessions (internal/treasury): requests     *)
(* that reserve one concurrently, from the tenant's own wallet or its HD   *)
(* account, the watcher that records what arrives at reserved addresses,   *)
(* and their release and reuse.  Session models one session's deposit with *)
(* all its writers; here the sessions share tenants, chains and addresses. *)
(*                                                                         *)
(* One action is one SQL statement or one call of a chain's API; pc[s] is  *)
(* the next statement of the request that reserves for session s.          *)
(***************************************************************************)
EXTENDS Integers, Sequences, FiniteSetsExt

CONSTANTS
  Sessions,
  TenantOf,  \* the tenant and
  ChainOf,   \*   the chain of each session
  CoinType,  \* slip44CoinType of each chain: 60 for both Ethereum and BSC
  Bindings,  \* the corridor's collection providers, by priority
  WalletsOf, \* addresses each tenant may register as its own on each chain
  Txs,       \* transfers depositors may make
  MaxFaults  \* bound: requests cut short, polls that fail

Tenants == {TenantOf[s] : s \in Sessions}
Chains == {ChainOf[s] : s \in Sessions}
Derivable == {CoinType[c] : c \in Chains} \X Nat \X Nat
NoAddress == <<>>
Wallets == UNION {WalletsOf[k] : k \in Tenants \X Chains}

ASSUME AddressPoolAssumption ==
  /\ TenantOf \in [Sessions -> Tenants]
  /\ ChainOf \in [Sessions -> Chains]
  /\ CoinType \in [Chains -> Nat]
  /\ Bindings \in Seq({"self_custody_wallet", "tenant_provided_wallet"})
  /\ Wallets \cap (Derivable \cup {NoAddress}) = {}
  /\ MaxFaults \in Nat

VARIABLES
  custom,      \* treasury_tenant_custom_wallets
  account,     \* treasury_tenant_hd_accounts, 0 if the tenant has none
  nextAccount, \* treasury_hd_account_counter
  nextIndex,   \* hd_wallet_indices
  derived,     \* derived_addresses
  reservation, \* treasury_address_reservations
  transfer,    \* what the chains show
  deposit,     \* treasury_deposits
  pc, loc,     \* each request's next statement and local variables
  poll,        \* the watcher's local variables
  faults       \* bounded by MaxFaults

hd == <<account, nextAccount, nextIndex, derived>>
requests == <<pc, loc>>
vars == <<custom, hd, reservation, transfer, deposit, requests, poll, faults>>

TenantAccountOffset == 2
Recorded == {"none", "detected", "confirmed"}
Start == [binding |-> 1, account |-> 0, index |-> 0, address |-> NoAddress]
IdlePoll == [todo |-> {}, found |-> {}]

Address == Wallets \cup Derivable

TypeOK ==
  /\ custom \in [Tenants \X Chains -> Wallets \cup {NoAddress}]
  /\ account \in [Tenants -> Nat]
  /\ \A t \in Tenants : account[t] = 0 \/ account[t] >= TenantAccountOffset
  /\ nextAccount \in Nat
  /\ nextIndex \in [Tenants \X Chains -> Nat]
  /\ derived \subseteq [tenant : Tenants, chain : Chains, index : Nat, address : Derivable]
  /\ reservation \in [Sessions -> [status : {"none", "reserved", "released"},
                                   address : Address \cup {NoAddress}]]
  /\ transfer \in [Txs -> [state : {"none", "seen", "final"}, chain : Chains \cup {""},
                           address : Address \cup {NoAddress}]]
  /\ deposit \in [Sessions \X Txs -> Recorded]
  /\ pc \in [Sessions -> {"provider", "account", "counter", "assign", "index",
                          "derive", "persist", "done"}]
  /\ loc \in [Sessions -> [binding : Nat \ {0}, account : Nat, index : Nat,
                           address : Address \cup {NoAddress}]]
  /\ poll.todo \subseteq Sessions
  /\ poll.found \subseteq Sessions \X Txs \X {"detected", "confirmed"}
  /\ faults \in 0..MaxFaults

Init ==
  /\ custom = [k \in Tenants \X Chains |-> NoAddress]
  /\ account = [t \in Tenants |-> 0]
  /\ nextAccount = TenantAccountOffset
  /\ nextIndex = [k \in Tenants \X Chains |-> 0]
  /\ derived = {}
  /\ reservation = [s \in Sessions |-> [status |-> "none", address |-> NoAddress]]
  /\ transfer = [t \in Txs |-> [state |-> "none", chain |-> "", address |-> NoAddress]]
  /\ deposit = [k \in Sessions \X Txs |-> "none"]
  /\ pc = [s \in Sessions |-> "provider"]
  /\ loc = [s \in Sessions |-> Start]
  /\ poll = IdlePoll
  /\ faults = 0

-----------------------------------------------------------------------------
(* ReserveAddress: the first binding that yields an address is persisted.   *)

At(s, l) == pc[s] = l
Goto(s, l) == pc' = [pc EXCEPT ![s] = l]
Local(s, value) == loc' = [loc EXCEPT ![s] = value]

Finish(s) == Goto(s, "done") /\ Local(s, Start)

NextBinding(s) ==
  /\ Goto(s, "provider")
  /\ Local(s, [loc[s] EXCEPT !.binding = @ + 1])

Persist(s, address) ==
  /\ Goto(s, "persist")
  /\ Local(s, [loc[s] EXCEPT !.address = address])

\* What a request's statements leave alone.
outside == <<custom, transfer, deposit, poll, faults>>

NoProviderLeft(s) ==
  /\ At(s, "provider")
  /\ loc[s].binding > Len(Bindings)
  /\ Finish(s)
  /\ UNCHANGED <<hd, reservation, outside>>

Offered(s, provider) ==
  /\ At(s, "provider")
  /\ loc[s].binding <= Len(Bindings)
  /\ Bindings[loc[s].binding] = provider

TenantWallet(s) ==
  /\ Offered(s, "tenant_provided_wallet")
  /\ IF custom[TenantOf[s], ChainOf[s]] = NoAddress
     THEN NextBinding(s)
     ELSE Persist(s, custom[TenantOf[s], ChainOf[s]])
  /\ UNCHANGED <<hd, reservation, outside>>

Taken(address) ==
  \E r \in Sessions : reservation[r].status = "reserved" /\ reservation[r].address = address

\* findFreeDerivedAddress: of the tenant's own pool on the chain.
Free_AnyTenant(tenant, chain) == {d \in derived : d.chain = chain /\ ~Taken(d.address)}
Free(tenant, chain) ==
  {d \in derived : d.tenant = tenant /\ d.chain = chain /\ ~Taken(d.address)}

FindFreeDerivedAddress(s) ==
  LET free == Free(TenantOf[s], ChainOf[s])
  IN /\ Offered(s, "self_custody_wallet")
     /\ IF free = {}
        THEN Goto(s, "account") /\ UNCHANGED loc
        ELSE \E d \in free : /\ \A e \in free : d.index <= e.index
                             /\ Persist(s, d.address)
     /\ UNCHANGED <<hd, reservation, outside>>

-----------------------------------------------------------------------------
(* getOrAllocateTenantAccount, allocateNextIndex and the insert after them. *)

ReadAccount(s) ==
  /\ At(s, "account")
  /\ Goto(s, IF account[TenantOf[s]] = 0 THEN "counter" ELSE "index")
  /\ Local(s, [loc[s] EXCEPT !.account = account[TenantOf[s]]])
  /\ UNCHANGED <<hd, reservation, outside>>

\* RETURNING next_account_index - 1, the counter having just been incremented.
Allocated(counter) == counter

AllocateAccount(s) ==
  /\ At(s, "counter")
  /\ Goto(s, "assign")
  /\ Local(s, [loc[s] EXCEPT !.account = Allocated(nextAccount)])
  /\ nextAccount' = nextAccount + 1
  /\ UNCHANGED <<account, nextIndex, derived, reservation, outside>>

\* tenant_id and account_index are unique: the loser of a race for its tenant's
\* first account reads the winner's.
AssignAccount(s) ==
  /\ At(s, "assign")
  /\ IF account[TenantOf[s]] # 0 \/ \E t \in Tenants : account[t] = loc[s].account
     THEN UNCHANGED account /\ Goto(s, "account")
     ELSE account' = [account EXCEPT ![TenantOf[s]] = loc[s].account] /\ Goto(s, "index")
  /\ UNCHANGED <<nextAccount, nextIndex, derived, reservation, loc, outside>>

AllocateNextIndex(s) ==
  LET k == <<TenantOf[s], ChainOf[s]>>
  IN /\ At(s, "index")
     /\ Goto(s, "derive")
     /\ Local(s, [loc[s] EXCEPT !.index = nextIndex[k]])
     /\ nextIndex' = [nextIndex EXCEPT ![k] = @ + 1]
     /\ UNCHANGED <<account, nextAccount, derived, reservation, outside>>

\* derived_addresses.address is unique: the same path on a chain with the same
\* coin type is refused, and the provider fails.
InsertDerivedAddress(s) ==
  LET address == <<CoinType[ChainOf[s]], loc[s].account, loc[s].index>>
  IN /\ At(s, "derive")
     /\ IF \E d \in derived : d.address = address
        THEN NextBinding(s) /\ UNCHANGED derived
        ELSE /\ derived' = derived \cup {[tenant |-> TenantOf[s], chain |-> ChainOf[s],
                                          index |-> loc[s].index, address |-> address]}
             /\ Persist(s, address)
     /\ UNCHANGED <<account, nextAccount, nextIndex, reservation, outside>>

\* The partial unique index on (address) WHERE status = 'reserved'.  A conflict
\* is the request's error: it does not fail over.
Conflicts_Never(s) == FALSE
Conflicts(s) == Taken(loc[s].address)

PersistReservation(s) ==
  /\ At(s, "persist")
  /\ reservation' = IF Conflicts(s) THEN reservation
       ELSE [reservation EXCEPT ![s] = [status |-> "reserved", address |-> loc[s].address]]
  /\ Finish(s)
  /\ UNCHANGED <<hd, outside>>

Reserve(s) ==
  \/ NoProviderLeft(s) \/ TenantWallet(s) \/ FindFreeDerivedAddress(s)
  \/ ReadAccount(s) \/ AllocateAccount(s) \/ AssignAccount(s) \/ AllocateNextIndex(s)
  \/ InsertDerivedAddress(s) \/ PersistReservation(s)

\* Settlement releases the address of a session it has settled or given up,
\* neither of which happens before a deposit is confirmed.
ReleaseReservation(s) ==
  /\ reservation[s].status = "reserved"
  /\ \E t \in Txs : deposit[s, t] = "confirmed"
  /\ reservation' = [reservation EXCEPT ![s].status = "released"]
  /\ UNCHANGED <<hd, requests, outside>>

RegisterTenantCustomWallet(tenant, chain, address) ==
  /\ custom[tenant, chain] # address
  /\ custom' = [custom EXCEPT ![<<tenant, chain>>] = address]
  /\ UNCHANGED <<hd, reservation, requests, transfer, deposit, poll, faults>>

-----------------------------------------------------------------------------
(* The watcher: pollOnce.                                                   *)

polling == <<custom, hd, reservation, transfer, requests>>

ListOpenReservations ==
  LET open == {s \in Sessions : reservation[s].status = "reserved"}
  IN /\ poll = IdlePoll
     /\ open # {}
     /\ poll' = [poll EXCEPT !.todo = open]
     /\ UNCHANGED <<deposit, faults, polling>>

\* Every transfer the address ever received on the chain.
Incoming(s) ==
  {t \in Txs : /\ transfer[t].state # "none"
               /\ transfer[t].address = reservation[s].address
               /\ transfer[t].chain = ChainOf[s]}

Status(t) == IF transfer[t].state = "final" THEN "confirmed" ELSE "detected"

ListIncomingTransactions(s) ==
  /\ poll.found = {}
  /\ s \in poll.todo
  /\ poll' = [todo |-> poll.todo \ {s}, found |-> {<<s, t, Status(t)>> : t \in Incoming(s)}]
  /\ UNCHANGED <<deposit, faults, polling>>

Transitions_OnlyInserts(s, t, status) == deposit[s, t] = "none"
\* recordDepositTransition: an insert, or the confirmation of a detected row.
Transitions(s, t, status) ==
  \/ deposit[s, t] = "none"
  \/ deposit[s, t] = "detected" /\ status = "confirmed"

RecordDeposit(s, t, status) ==
  /\ <<s, t, status>> \in poll.found
  /\ deposit' = IF Transitions(s, t, status) THEN [deposit EXCEPT ![<<s, t>>] = status] ELSE deposit
  /\ poll' = [poll EXCEPT !.found = @ \ {<<s, t, status>>}]
  /\ UNCHANGED <<faults, polling>>

Poll ==
  \/ ListOpenReservations
  \/ \E s \in Sessions : ListIncomingTransactions(s)
  \/ \E s \in Sessions, t \in Txs, status \in {"detected", "confirmed"} : RecordDeposit(s, t, status)

-----------------------------------------------------------------------------
(* Depositors, and failures.                                                *)

\* A depositor pays to the address the session was given, in time or late.
SendTransfer(t, s) ==
  /\ transfer[t].state = "none"
  /\ reservation[s].status # "none"
  /\ transfer' = [transfer EXCEPT ![t] = [state |-> "seen", chain |-> ChainOf[s],
                                          address |-> reservation[s].address]]
  /\ UNCHANGED <<custom, hd, reservation, requests, deposit, poll, faults>>

TransferFinal(t) ==
  /\ transfer[t].state = "seen"
  /\ transfer' = [transfer EXCEPT ![t].state = "final"]
  /\ UNCHANGED <<custom, hd, reservation, requests, deposit, poll, faults>>

Faulty == faults < MaxFaults /\ faults' = faults + 1

\* A statement fails: the binding yields no address, and the next one is tried.
BindingFails(s) ==
  /\ \/ pc[s] \in {"account", "counter", "assign", "index", "derive"}
     \/ At(s, "provider") /\ loc[s].binding <= Len(Bindings)
  /\ Faulty
  /\ NextBinding(s)
  /\ UNCHANGED <<custom, hd, reservation, transfer, deposit, poll>>

\* The request is cancelled, the process crashes, or the last insert fails.
Interrupted(s) ==
  /\ ~At(s, "done")
  /\ Faulty
  /\ Finish(s)
  /\ UNCHANGED <<custom, hd, reservation, transfer, deposit, poll>>

\* A failed call or statement: logged, and the next reservation is looked at.
PollFails ==
  /\ poll # IdlePoll
  /\ Faulty
  /\ poll' \in {[poll EXCEPT !.found = @ \ {f}] : f \in poll.found}
               \cup {[poll EXCEPT !.todo = @ \ {s}] : s \in poll.todo}
  /\ UNCHANGED <<deposit, polling>>

-----------------------------------------------------------------------------
Next ==
  \/ \E s \in Sessions : Reserve(s) \/ ReleaseReservation(s)
                      \/ BindingFails(s) \/ Interrupted(s)
  \/ \E tenant \in Tenants, chain \in Chains : \E address \in WalletsOf[tenant, chain] :
       RegisterTenantCustomWallet(tenant, chain, address)
  \/ Poll \/ PollFails
  \/ \E t \in Txs : TransferFinal(t) \/ \E s \in Sessions : SendTransfer(t, s)

Spec == Init /\ [][Next]_vars

\* The watcher's ticker keeps ticking; requests, depositors and settlements may
\* all stop.
LiveSpec == Spec /\ WF_vars(Poll)

-----------------------------------------------------------------------------
(* Properties.                                                              *)

\* hdwallet.go: no address is double-booked, whatever requests race between
\* finding it free and reserving it, and whoever registered it.
OneOpenSessionPerAddress ==
  \A r, s \in Sessions :
    /\ reservation[r].status = "reserved" /\ reservation[s].status = "reserved"
    /\ reservation[r].address = reservation[s].address
    => r = s

\* A derived address only ever serves sessions of one tenant on one chain,
\* however the first requests of the tenants race for accounts and indices.
AddressStaysWithTenant ==
  \A r, s \in Sessions :
    /\ reservation[r].address \notin Wallets \cup {NoAddress}
    /\ reservation[r].address = reservation[s].address
    => TenantOf[r] = TenantOf[s] /\ ChainOf[r] = ChainOf[s]

\* What arrives at a reserved address is recorded once it is final, whenever it
\* was sent and whatever the watcher was doing, unless the session ends first.
FinalTransferRecorded ==
  \A s \in Sessions, t \in Txs :
    reservation[s].status = "reserved" /\ t \in Incoming(s) /\ transfer[t].state = "final"
      ~> deposit[s, t] = "confirmed" \/ reservation[s].status = "released"

\* migrations/000011: the unique index is there lest "one deposit fund two
\* sessions via a reused address".
OneDepositOneSession ==
  \A t \in Txs : Cardinality({s \in Sessions : deposit[s, t] = "confirmed"}) <= 1
=============================================================================
