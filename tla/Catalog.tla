------------------------------ MODULE Catalog ------------------------------
(***************************************************************************)
(* Corridors, their provider bindings and the crypto catalog they draw on  *)
(* (internal/corridor and the admin handlers), edited by several admins    *)
(* while sessions are created on them.                                     *)
(*                                                                         *)
(* One action is one SQL statement, or a transaction's statements up to    *)
(* the next one that may wait or read anew.  A corridor row locked FOR     *)
(* UPDATE holds up other edits of it and, through its foreign key, inserts *)
(* of sessions on it; plain reads never wait.                              *)
(***************************************************************************)
EXTENDS Integers, FiniteSets

CONSTANTS
  Admins,       \* admin requests served at a time
  Sessions,     \* requests that create a session
  Corridors,    \* corridor ids, one currency's
  Assets, Networks,
  Providers,    \* provider names a request may hold
  Registered,   \* the adapters this server has
  BindingSets,  \* complete sets a request may ask for
  None,         \* an absent row or field
  MaxEdits      \* bound: admin requests

Codes == Assets \cup Networks
Pairs == Assets \X Networks
\* a PATCH body: a field that is None is absent from it
Patches == [pair : Pairs \cup {None}, active : BOOLEAN \cup {None}]
             \ {[pair |-> None, active |-> None]}

ASSUME CatalogAssumption ==
  /\ Assets \cap Networks = {}
  /\ Sessions \cap Admins = {}
  /\ Registered \subseteq Providers
  /\ BindingSets \subseteq SUBSET Providers
  /\ None \notin Pairs \cup BOOLEAN \cup [pair : Pairs, active : BOOLEAN]
  /\ None # "on"
  /\ MaxEdits \in Nat

VARIABLES
  entry,     \* crypto_assets, crypto_networks
  available, \* crypto_asset_networks
  corridor,  \* corridors, [pair, active], None before and after its life
  gone,      \* ids of deleted corridors
  binding,   \* corridor_providers
  pc, arg,   \* each admin request's next statement and its local variables
  session,   \* sessions' progress: its row, or its copy of the corridor's
  asked,     \* observation: binding sets asked for on each corridor
  edits      \* bounded by MaxEdits

catalog == <<entry, available>>
corridors == <<corridor, gone, binding>>
requests == <<pc, arg, edits>>
vars == <<catalog, corridors, requests, session, asked>>

NoRequest == [corridor |-> None, pair |-> None, active |-> None, code |-> None,
              wanted |-> {}, written |-> {}]
NoSession == [step |-> "idle", corridor |-> None]

TypeOK ==
  /\ entry \in [Codes -> {None, "active", "inactive"}]
  /\ available \subseteq Pairs
  /\ \A c \in Corridors : corridor[c] \in [pair : Pairs, active : BOOLEAN] \cup {None}
  /\ gone \subseteq Corridors
  /\ binding \in [Corridors -> [Providers -> {None, "on", "off"}]]
  /\ pc \in [Admins -> {"idle", "create", "edit", "write", "bind", "rebind",
                        "delete", "drop", "unlist"}]
  /\ \A s \in Sessions : session[s].step \in {"idle", "insert", "reserve", "done"}
  /\ edits \in 0..MaxEdits

Init ==
  /\ entry = [x \in Codes |-> "active"]
  /\ available = Pairs
  /\ corridor = [c \in Corridors |-> None]
  /\ gone = {}
  /\ binding = [c \in Corridors |-> [p \in Providers |-> None]]
  /\ pc = [a \in Admins |-> "idle"]
  /\ arg = [a \in Admins |-> NoRequest]
  /\ session = [s \in Sessions |-> NoSession]
  /\ asked = [c \in Corridors |-> {}]
  /\ edits = 0

Request(a, l, r) ==
  /\ pc[a] = "idle"
  /\ edits < MaxEdits
  /\ edits' = edits + 1
  /\ pc' = [pc EXCEPT ![a] = l]
  /\ arg' = [arg EXCEPT ![a] = r]

Goto(a, l, r) ==
  /\ pc' = [pc EXCEPT ![a] = l]
  /\ arg' = [arg EXCEPT ![a] = r]
  /\ UNCHANGED edits

Reply(a) == Goto(a, "idle", NoRequest)

-----------------------------------------------------------------------------
(* What statements wait for and read.                                       *)

Exists(c) == corridor[c] # None

HoldsLock(a, c) == pc[a] \in {"edit", "write", "bind", "rebind", "delete", "drop"}
                     /\ arg[a].corridor = c
\* Another transaction holds the corridor's row FOR UPDATE.
LockedByOther(c, a) == \E b \in Admins \ {a} : HoldsLock(b, c)

EntryLocked(x) == \E a \in Admins : pc[a] = "unlist" /\ arg[a].code = x

CheckCryptoSupported(pair) ==
  /\ \A x \in {pair[1], pair[2]} : entry[x] = "active"
  /\ pair \in available

\* The unique index on asset, network and currency.
AlreadyExists(c, pair) == \E d \in Corridors \ {c} : Exists(d) /\ corridor[d].pair = pair

HasRow(s) == session[s].step \in {"reserve", "done"}
HasPaymentHistory_Reserved(c) == \E s \in Sessions : session[s].step = "done" /\ session[s].corridor = c
\* Sessions come before the settlements and reservations that name a corridor.
HasPaymentHistory(c) == \E s \in Sessions : HasRow(s) /\ session[s].corridor = c

\* validate: only adapters registered in this process, each once.
Validate(wanted) == wanted \subseteq Registered

ListActiveProviders(c) == {p \in Providers : binding[c][p] = "on"}

-----------------------------------------------------------------------------
(* Corridors.                                                               *)

\* createCorridor: the catalog and jurisdiction checks, then one transaction.
CreateCorridor(a, c, pair, wanted) ==
  /\ ~Exists(c) /\ c \notin gone
  /\ Validate(wanted)
  /\ CheckCryptoSupported(pair)
  /\ Request(a, "create", [NoRequest EXCEPT !.corridor = c, !.pair = pair, !.wanted = wanted])
  /\ UNCHANGED <<catalog, corridors, session, asked>>

InsertCorridor(a) ==
  LET c == arg[a].corridor
  IN /\ pc[a] = "create"
     /\ IF Exists(c) \/ c \in gone \/ AlreadyExists(c, arg[a].pair)
        THEN UNCHANGED <<corridor, binding, asked>>
        ELSE /\ corridor' = [corridor EXCEPT ![c] = [pair |-> arg[a].pair, active |-> TRUE]]
             /\ binding' = [binding EXCEPT ![c] =
                              [p \in Providers |-> IF p \in arg[a].wanted THEN "on" ELSE None]]
             /\ asked' = [asked EXCEPT ![c] = {arg[a].wanted}]
     /\ Reply(a)
     /\ UNCHANGED <<catalog, gone, session>>

\* UpdateCorridor: SELECT ... FOR UPDATE; a row deleted meanwhile is not found.
UpdateCorridor(a, c, patch) ==
  /\ Exists(c) /\ ~LockedByOther(c, a)
  /\ Request(a, "edit", [NoRequest EXCEPT !.corridor = c, !.pair = patch.pair,
                                         !.active = patch.active])
  /\ UNCHANGED <<catalog, corridors, session, asked>>

\* The patch is merged into the locked row: absent keys leave a field as it is.
ApplyCorridorPatch(patch, row) ==
  [pair |-> IF patch.pair = None THEN row.pair ELSE patch.pair,
   active |-> IF patch.active = None THEN row.active ELSE patch.active]

\* The patch is refused, or a change of asset or network passes the catalog
\* and the history check; limits and thresholds pass without.
CheckPatch(a) ==
  LET c == arg[a].corridor
      next == ApplyCorridorPatch(arg[a], corridor[c])
  IN /\ pc[a] = "edit"
     /\ IF \/ next.pair = corridor[c].pair
           \/ CheckCryptoSupported(next.pair) /\ ~HasPaymentHistory(c)
        THEN Goto(a, "write", [arg[a] EXCEPT !.pair = next.pair, !.active = next.active])
        ELSE Reply(a)
     /\ UNCHANGED <<catalog, corridors, session, asked>>

WriteCorridor(a) ==
  LET c == arg[a].corridor
  IN /\ pc[a] = "write"
     /\ corridor' = IF AlreadyExists(c, arg[a].pair) THEN corridor
          ELSE [corridor EXCEPT ![c] = [pair |-> arg[a].pair, active |-> arg[a].active]]
     /\ Reply(a)
     /\ UNCHANGED <<catalog, gone, binding, session, asked>>

DeleteCorridor(a, c) ==
  /\ Exists(c) /\ ~LockedByOther(c, a)
  /\ Request(a, "delete", [NoRequest EXCEPT !.corridor = c])
  /\ UNCHANGED <<catalog, corridors, session, asked>>

CheckHistory(a) ==
  /\ pc[a] = "delete"
  /\ IF HasPaymentHistory(arg[a].corridor) THEN Reply(a) ELSE Goto(a, "drop", arg[a])
  /\ UNCHANGED <<catalog, corridors, session, asked>>

\* Bindings, entitlements and the row; a session's foreign key refuses.
DropCorridor(a) ==
  LET c == arg[a].corridor
  IN /\ pc[a] = "drop"
     /\ IF \E s \in Sessions : HasRow(s) /\ session[s].corridor = c
        THEN UNCHANGED corridors
        ELSE /\ corridor' = [corridor EXCEPT ![c] = None]
             /\ gone' = gone \cup {c}
             /\ binding' = [binding EXCEPT ![c] = [p \in Providers |-> None]]
     /\ Reply(a)
     /\ UNCHANGED <<catalog, session, asked>>

-----------------------------------------------------------------------------
(* ReplaceProviderBindings.                                                 *)

ReplaceProviderBindings_Unlocked(a, c, wanted) ==
  /\ Validate(wanted)
  /\ Exists(c)
  /\ Request(a, "bind", [NoRequest EXCEPT !.corridor = c, !.wanted = wanted])
  /\ UNCHANGED <<catalog, corridors, session, asked>>

\* The corridor's row is locked, so that replaces follow one another.
ReplaceProviderBindings(a, c, wanted) ==
  /\ Validate(wanted)
  /\ Exists(c) /\ ~LockedByOther(c, a)
  /\ Request(a, "bind", [NoRequest EXCEPT !.corridor = c, !.wanted = wanted])
  /\ UNCHANGED <<catalog, corridors, session, asked>>

\* UPDATE ... SET active = false touches the rows there are.
DeactivateBindings(a) ==
  /\ pc[a] = "bind"
  /\ Goto(a, "rebind", [arg[a] EXCEPT !.written =
            {p \in Providers : binding[arg[a].corridor][p] # None}])
  /\ UNCHANGED <<catalog, corridors, session, asked>>

Rebound(a, old) ==
  [p \in Providers |-> IF p \in arg[a].wanted THEN "on"
                       ELSE IF p \in arg[a].written THEN "off" ELSE old[p]]

\* The upserts, and the commit that shows both.
CommitBindings(a) ==
  LET c == arg[a].corridor
  IN /\ pc[a] = "rebind"
     /\ binding' = [binding EXCEPT ![c] = Rebound(a, @)]
     /\ asked' = [asked EXCEPT ![c] = @ \cup {arg[a].wanted}]
     /\ Reply(a)
     /\ UNCHANGED <<catalog, corridor, gone, session>>

-----------------------------------------------------------------------------
(* The crypto catalog.                                                      *)

States == {"active", "inactive"}

CatalogEdit ==
  /\ edits < MaxEdits
  /\ edits' = edits + 1
  /\ UNCHANGED <<corridors, pc, arg, session, asked>>

CreateNetwork(n) ==
  /\ entry[n] = None
  /\ \E state \in States : entry' = [entry EXCEPT ![n] = state]
  /\ UNCHANGED available
  /\ CatalogEdit

UpdateNetwork(n) ==
  /\ entry[n] # None /\ ~EntryLocked(n)
  /\ entry' = [entry EXCEPT ![n] = IF @ = "active" THEN "inactive" ELSE "active"]
  /\ UNCHANGED available
  /\ CatalogEdit

\* CreateAsset and UpdateAsset, with the whole new list of networks: each must
\* be listed, and not be locked by its deletion.
SaveAsset(asset, networks) ==
  /\ ~EntryLocked(asset)
  /\ \A n \in networks : entry[n] # None /\ ~EntryLocked(n)
  /\ \E state \in States : entry' = [entry EXCEPT ![asset] = state]
  /\ available' = {p \in available : p[1] # asset} \cup {<<asset, n>> : n \in networks}
  /\ CatalogEdit

\* deleteCatalogEntry: lock the entry, look for corridors that use it.
DeleteCatalogEntry(a, x) ==
  /\ entry[x] # None /\ ~EntryLocked(x)
  /\ \A c \in Corridors : Exists(c) => x \notin {corridor[c].pair[1], corridor[c].pair[2]}
  /\ Request(a, "unlist", [NoRequest EXCEPT !.code = x])
  /\ UNCHANGED <<catalog, corridors, session, asked>>

\* Its availability rows go with it.
Unlist(a) ==
  LET x == arg[a].code
  IN /\ pc[a] = "unlist"
     /\ entry' = [entry EXCEPT ![x] = None]
     /\ available' = {p \in available : x \notin {p[1], p[2]}}
     /\ Reply(a)
     /\ UNCHANGED <<corridors, session, asked>>

-----------------------------------------------------------------------------
(* CreateSession, as far as it goes by its corridor.                        *)

GetCorridor(s, c) ==
  /\ session[s].step = "idle"
  /\ Exists(c) /\ corridor[c].active
  /\ session' = [session EXCEPT ![s] =
                   [step |-> "insert", corridor |-> c]]
  /\ UNCHANGED <<catalog, corridors, requests, asked>>

\* The insert waits for a locked corridor, and fails if it has been deleted.
InsertSession(s) ==
  LET c == session[s].corridor
  IN /\ session[s].step = "insert"
     /\ ~LockedByOther(c, s)
     /\ session' = [session EXCEPT ![s] =
                      IF Exists(c) THEN [@ EXCEPT !.step = "reserve"] ELSE NoSession]
     /\ UNCHANGED <<catalog, corridors, requests, asked>>

\* A binding must be active by then, else the request fails after the insert.
ReserveAddress(s) ==
  /\ session[s].step = "reserve"
  /\ ListActiveProviders(session[s].corridor) # {}
  /\ session' = [session EXCEPT ![s].step = "done"]
  /\ UNCHANGED <<catalog, corridors, requests, asked>>

-----------------------------------------------------------------------------
\* A failed statement or a dead process: the transaction is rolled back.
Abort(a) ==
  /\ pc[a] # "idle"
  /\ Reply(a)
  /\ UNCHANGED <<catalog, corridors, session, asked>>

EditCorridor(a) ==
  \/ InsertCorridor(a) \/ CheckPatch(a) \/ WriteCorridor(a) \/ CheckHistory(a) \/ DropCorridor(a)
  \/ DeactivateBindings(a) \/ CommitBindings(a)
  \/ \E c \in Corridors :
       \/ DeleteCorridor(a, c)
       \/ \E pair \in Pairs, wanted \in BindingSets : CreateCorridor(a, c, pair, wanted)
       \/ \E patch \in Patches : UpdateCorridor(a, c, patch)
       \/ \E wanted \in BindingSets : ReplaceProviderBindings(a, c, wanted)

EditCatalog ==
  \/ \E n \in Networks : CreateNetwork(n) \/ UpdateNetwork(n)
  \/ \E asset \in Assets, networks \in SUBSET Networks : SaveAsset(asset, networks)
  \/ \E a \in Admins : Unlist(a) \/ \E x \in Codes : DeleteCatalogEntry(a, x)

CreateSession(s) ==
  InsertSession(s) \/ ReserveAddress(s) \/ \E c \in Corridors : GetCorridor(s, c)

Next ==
  \/ \E a \in Admins : EditCorridor(a) \/ Abort(a)
  \/ EditCatalog
  \/ \E s \in Sessions : CreateSession(s)

Spec == Init /\ [][Next]_vars

-----------------------------------------------------------------------------
(* Properties.                                                              *)

\* UpdateCorridor and DeleteCorridor: once a session has been recorded on a
\* corridor it is neither deleted nor moved to another asset or network, though
\* sessions are inserted between the edit's check and its write.
UsedCorridorStays ==
  [][\A s \in Sessions : HasRow(s) =>
       LET c == session[s].corridor
       IN corridor'[c] # None /\ corridor'[c].pair = corridor[c].pair]_vars

\* ReplaceProviderBindings: the active bindings are always one request's complete
\* set, never a mixture of two admins' (which could pay out through a provider
\* that neither of them left on).
BindingsAreOneEdit ==
  \A c \in Corridors : Exists(c) => ListActiveProviders(c) \in asked[c]
=============================================================================
