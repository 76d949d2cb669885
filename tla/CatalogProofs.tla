--------------------------- MODULE CatalogProofs ---------------------------
(***************************************************************************)
(* What the lock of a corridor's row is for, for any admins, sessions,     *)
(* corridors, catalogs and providers: an edit of a corridor acts on what   *)
(* it has read under the lock.                                             *)
(*                                                                         *)
(* One request at a time holds a corridor's lock (Exclusive), and what it  *)
(* has checked or read stays true until it writes (Fits), because the only *)
(* statements that could change it, inserts of sessions among them, wait.  *)
(***************************************************************************)
EXTENDS Catalog, TLAPS

Locks == {"edit", "write", "bind", "rebind", "delete", "drop"}
Rows == [pair : Pairs, active : BOOLEAN]
Locals == [corridor : Corridors \cup {None}, pair : Pairs \cup {None},
           active : BOOLEAN \cup {None}, code : Codes \cup {None},
           wanted : SUBSET Providers, written : SUBSET Providers]
Copies == [step : {"idle", "insert", "reserve", "done"}, corridor : Corridors \cup {None}]

Typed ==
  /\ DOMAIN pc = Admins
  /\ arg \in [Admins -> Locals]
  /\ corridor \in [Corridors -> Rows \cup {None}]
  /\ DOMAIN binding = Corridors
  /\ DOMAIN asked = Corridors
  /\ session \in [Sessions -> Copies]
  /\ \A s \in Sessions : session[s].step # "idle" => session[s].corridor \in Corridors

\* What a request at l with the local variables r has made sure of.
Fits(l, r) ==
  /\ l = "create" => r.corridor \in Corridors /\ r.pair \in Pairs
  /\ l \in Locks => r.corridor \in Corridors /\ Exists(r.corridor)
  /\ l = "write" =>
       /\ r.pair \in Pairs /\ r.active \in BOOLEAN
       /\ r.pair = corridor[r.corridor].pair \/ ~HasPaymentHistory(r.corridor)
  /\ l = "rebind" => r.written = {p \in Providers : binding[r.corridor][p] # None}

Checked == \A a \in Admins : Fits(pc[a], arg[a])

Exclusive ==
  \A a, b \in Admins :
    /\ pc[a] \in Locks /\ pc[b] \in Locks
    /\ arg[a].corridor = arg[b].corridor
    => a = b

\* The foreign key of sessions.
Referenced == \A s \in Sessions : HasRow(s) => Exists(session[s].corridor)

Inv == Typed /\ Checked /\ Exclusive /\ Referenced /\ BindingsAreOneEdit

-----------------------------------------------------------------------------
(* Requests that only go on.                                                *)

To(a, l, r) == pc' = [pc EXCEPT ![a] = l] /\ arg' = [arg EXCEPT ![a] = r]

\* The request has the lock already, or nobody has.
MayHold(a, l, r) ==
  l \in Locks =>
    \/ pc[a] \in Locks /\ arg[a].corridor = r.corridor
    \/ ~LockedByOther(r.corridor, a)

LEMMA GoesOn ==
  ASSUME Inv, NEW a \in Admins, NEW l, NEW r \in Locals, To(a, l, r),
         Fits(l, r), MayHold(a, l, r), UNCHANGED <<corridor, binding, session, asked>>
  PROVE  Inv'
<1>1. Typed'
  BY DEF Inv, Typed, To
<1>2. Checked'
  BY DEF Inv, Typed, Checked, Fits, To, Exists, HasPaymentHistory, HasRow
<1>3. Exclusive'
  <2>1. ASSUME NEW b \in Admins, b # a, l \in Locks, pc[b] \in Locks
        PROVE  arg[b].corridor # r.corridor
    BY <2>1 DEF MayHold, LockedByOther, HoldsLock, Locks, Inv, Exclusive
  <2> QED  BY <2>1 DEF Inv, Typed, Exclusive, To
<1>4. Referenced' /\ BindingsAreOneEdit'
  BY DEF Inv, Referenced, HasRow, Exists, BindingsAreOneEdit, ListActiveProviders
<1> QED  BY <1>1, <1>2, <1>3, <1>4 DEF Inv

LEMMA NoRequestIsLocal == NoRequest \in Locals
BY DEF NoRequest, Locals

LEMMA GivesUp ==
  ASSUME Inv, NEW a \in Admins, Reply(a), UNCHANGED <<corridor, binding, session, asked>>
  PROVE  Inv'
<1>1. To(a, "idle", NoRequest) /\ Fits("idle", NoRequest) /\ MayHold(a, "idle", NoRequest)
  BY DEF Reply, Goto, To, Fits, MayHold, Locks
<1> QED  BY <1>1, NoRequestIsLocal, GoesOn

\* A request's end leaves the other requests what they hold.
LEMMA Done ==
  ASSUME Typed, Exclusive, NEW a \in Admins, Reply(a)
  PROVE  /\ DOMAIN pc' = Admins /\ arg' \in [Admins -> Locals] /\ Exclusive'
         /\ \A b \in Admins : pc'[b] # "idle" => b # a /\ pc'[b] = pc[b] /\ arg'[b] = arg[b]
BY NoRequestIsLocal DEF Typed, Exclusive, Reply, Goto, Locks

-----------------------------------------------------------------------------
(* The steps.                                                               *)

LEMMA Starting ==
  ASSUME CatalogAssumption, Inv, NEW a \in Admins, NEW c \in Corridors,
         \/ DeleteCorridor(a, c)
         \/ \E pair \in Pairs, wanted \in BindingSets : CreateCorridor(a, c, pair, wanted)
         \/ \E patch \in Patches : UpdateCorridor(a, c, patch)
         \/ \E wanted \in BindingSets : ReplaceProviderBindings(a, c, wanted)
  PROVE  Inv'
<1>1. UNCHANGED <<corridor, binding, session, asked>>
  BY DEF DeleteCorridor, CreateCorridor, UpdateCorridor, ReplaceProviderBindings, corridors
<1>2. CASE DeleteCorridor(a, c)
  <2> DEFINE r == [NoRequest EXCEPT !.corridor = c]
  <2>1. r \in Locals /\ r.corridor = c
    BY DEF NoRequest, Locals
  <2>2. To(a, "delete", r)
    BY <1>2 DEF DeleteCorridor, Request, To
  <2> HIDE DEF r
  <2>3. Fits("delete", r) /\ MayHold(a, "delete", r)
    BY <1>2, <2>1 DEF DeleteCorridor, Fits, MayHold
  <2> QED  BY <1>1, <2>1, <2>2, <2>3, GoesOn
<1>3. ASSUME NEW pair \in Pairs, NEW wanted \in BindingSets, CreateCorridor(a, c, pair, wanted)
      PROVE  Inv'
  <2> DEFINE r == [NoRequest EXCEPT !.corridor = c, !.pair = pair, !.wanted = wanted]
  <2>1. r \in Locals /\ r.corridor = c /\ r.pair = pair
    BY DEF NoRequest, Locals, CatalogAssumption
  <2>2. To(a, "create", r)
    BY <1>3 DEF CreateCorridor, Request, To
  <2> HIDE DEF r
  <2>3. Fits("create", r) /\ MayHold(a, "create", r)
    BY <2>1 DEF Fits, MayHold, Locks
  <2> QED  BY <1>1, <2>1, <2>2, <2>3, GoesOn
<1>4. ASSUME NEW patch \in Patches, UpdateCorridor(a, c, patch) PROVE Inv'
  <2> DEFINE r == [NoRequest EXCEPT !.corridor = c, !.pair = patch.pair,
                                    !.active = patch.active]
  <2>1. r \in Locals /\ r.corridor = c
    BY DEF NoRequest, Locals, Patches
  <2>2. To(a, "edit", r)
    BY <1>4 DEF UpdateCorridor, Request, To
  <2> HIDE DEF r
  <2>3. Fits("edit", r) /\ MayHold(a, "edit", r)
    BY <1>4, <2>1 DEF UpdateCorridor, Fits, MayHold
  <2> QED  BY <1>1, <2>1, <2>2, <2>3, GoesOn
<1>5. ASSUME NEW wanted \in BindingSets, ReplaceProviderBindings(a, c, wanted) PROVE Inv'
  <2> DEFINE r == [NoRequest EXCEPT !.corridor = c, !.wanted = wanted]
  <2>1. r \in Locals /\ r.corridor = c
    BY DEF NoRequest, Locals, CatalogAssumption
  <2>2. To(a, "bind", r)
    BY <1>5 DEF ReplaceProviderBindings, Request, To
  <2> HIDE DEF r
  <2>3. Fits("bind", r) /\ MayHold(a, "bind", r)
    BY <1>5, <2>1 DEF ReplaceProviderBindings, Fits, MayHold
  <2> QED  BY <1>1, <2>1, <2>2, <2>3, GoesOn
<1> QED  BY <1>2, <1>3, <1>4, <1>5

\* Under the lock: what is checked or read is what Fits asks for.
LEMMA Checking ==
  ASSUME Inv, NEW a \in Admins, CheckPatch(a) \/ CheckHistory(a) \/ DeactivateBindings(a)
  PROVE  Inv'
<1>1. UNCHANGED <<corridor, binding, session, asked>>
  BY DEF CheckPatch, CheckHistory, DeactivateBindings, corridors
<1>2. arg[a] \in Locals /\ Fits(pc[a], arg[a])
  BY DEF Inv, Typed, Checked
<1>3. CASE CheckPatch(a)
  <2> DEFINE c == arg[a].corridor
             next == ApplyCorridorPatch(arg[a], corridor[c])
             r == [arg[a] EXCEPT !.pair = next.pair, !.active = next.active]
  <2>1. pc[a] = "edit" /\ c \in Corridors /\ corridor[c] \in Rows
    BY <1>2, <1>3 DEF CheckPatch, Fits, Locks, Exists, Inv, Typed
  <2>2. next.pair \in Pairs /\ next.active \in BOOLEAN
    BY <1>2, <2>1 DEF ApplyCorridorPatch, Locals, Rows
  <2>3. CASE Reply(a)
    BY <1>1, <2>3, GivesUp
  <2>4. CASE /\ next.pair = corridor[c].pair \/ ~HasPaymentHistory(c)
             /\ Goto(a, "write", r)
    <3> HIDE DEF next
    <3>1. /\ r \in Locals /\ r.corridor = c /\ r.pair = next.pair /\ r.active = next.active
      BY <1>2, <2>2 DEF Locals
    <3>2. To(a, "write", r)
      BY <2>4 DEF Goto, To
    <3> HIDE DEF r
    <3>3. Fits("write", r) /\ MayHold(a, "write", r)
      BY <1>2, <2>1, <2>2, <2>4, <3>1 DEF Fits, MayHold, Locks
    <3> QED  BY <1>1, <3>1, <3>2, <3>3, GoesOn
  <2> QED  BY <1>3, <2>3, <2>4 DEF CheckPatch
<1>4. CASE CheckHistory(a)
  <2>1. CASE Reply(a)
    BY <1>1, <2>1, GivesUp
  <2>2. CASE Goto(a, "drop", arg[a])
    <3>1. Fits("drop", arg[a]) /\ MayHold(a, "drop", arg[a]) /\ To(a, "drop", arg[a])
      BY <1>2, <1>4, <2>2 DEF CheckHistory, Fits, MayHold, Locks, Goto, To
    <3> QED  BY <1>1, <1>2, <3>1, GoesOn
  <2> QED  BY <1>4, <2>1, <2>2 DEF CheckHistory
<1>5. CASE DeactivateBindings(a)
  <2> DEFINE there == {p \in Providers : binding[arg[a].corridor][p] # None}
             r == [arg[a] EXCEPT !.written = there]
  <2>1. r \in Locals /\ r.corridor = arg[a].corridor /\ r.written = there
    BY <1>2 DEF Locals
  <2>2. To(a, "rebind", r) /\ pc[a] = "bind"
    BY <1>5 DEF DeactivateBindings, Goto, To
  <2> HIDE DEF r
  <2>3. Fits("rebind", r) /\ MayHold(a, "rebind", r)
    BY <1>2, <2>1, <2>2 DEF Fits, MayHold, Locks
  <2> QED  BY <1>1, <2>1, <2>2, <2>3, GoesOn
<1> QED  BY <1>3, <1>4, <1>5

\* A write of one corridor, by the request that ends with it: the others have
\* no lock on that corridor.
LEMMA OneCorridor ==
  ASSUME Inv, NEW a \in Admins, NEW c \in Corridors, Reply(a), UNCHANGED session,
         \A b \in Admins \ {a} : pc[b] \in Locks => arg[b].corridor # c,
         corridor' \in [Corridors -> Rows \cup {None}],
         DOMAIN binding' = Corridors, DOMAIN asked' = Corridors,
         \A d \in Corridors : d # c =>
           /\ corridor'[d] = corridor[d] /\ binding'[d] = binding[d] /\ asked'[d] = asked[d],
         \A s \in Sessions : HasRow(s) /\ session[s].corridor = c => corridor'[c] # None,
         corridor'[c] # None => {p \in Providers : binding'[c][p] = "on"} \in asked'[c]
  PROVE  Inv'
<1>1. Typed'
  BY Done DEF Inv, Typed
<1>2. Checked'
  <2> SUFFICES ASSUME NEW b \in Admins PROVE Fits(pc[b], arg[b])'
    BY DEF Checked, Fits, Exists, HasPaymentHistory, HasRow
  <2>1. CASE pc'[b] = "idle"
    BY <2>1 DEF Fits, Locks
  <2>2. CASE pc'[b] # "idle"
    <3>1. b # a /\ pc'[b] = pc[b] /\ arg'[b] = arg[b] /\ Fits(pc[b], arg[b])
      BY <2>2, Done DEF Inv, Checked
    <3>2. CASE pc[b] \in Locks
      <4>1. arg[b].corridor \in Corridors /\ arg[b].corridor # c
        BY <3>1, <3>2 DEF Fits
      <4> QED  BY <3>1, <4>1 DEF Fits, Exists, HasPaymentHistory, HasRow
    <3>3. CASE pc[b] \notin Locks
      BY <3>1, <3>3 DEF Fits, Locks
    <3> QED  BY <3>2, <3>3
  <2> QED  BY <2>1, <2>2
<1>3. Exclusive'
  BY Done DEF Inv
<1>4. Referenced'
  <2> SUFFICES ASSUME NEW s \in Sessions, HasRow(s)
               PROVE  corridor'[session[s].corridor] # None
    BY DEF Referenced, HasRow, Exists
  <2>1. session[s].corridor \in Corridors /\ corridor[session[s].corridor] # None
    BY DEF Inv, Typed, Referenced, HasRow, Exists
  <2> QED  BY <2>1
<1>5. BindingsAreOneEdit'
  BY DEF Inv, BindingsAreOneEdit, Exists, ListActiveProviders
<1> QED  BY <1>1, <1>2, <1>3, <1>4, <1>5 DEF Inv

LEMMA Inserting ==
  ASSUME CatalogAssumption, Inv, NEW a \in Admins, InsertCorridor(a)
  PROVE  Inv'
<1> DEFINE c == arg[a].corridor
           row == [pair |-> arg[a].pair, active |-> TRUE]
           new == [p \in Providers |-> IF p \in arg[a].wanted THEN "on" ELSE None]
<1>1. /\ c \in Corridors /\ arg[a].pair \in Pairs /\ arg[a] \in Locals /\ Reply(a)
      /\ session' = session
  BY DEF InsertCorridor, Inv, Typed, Checked, Fits
<1>2. CASE UNCHANGED <<corridor, binding, asked>>
  BY <1>1, <1>2, GivesUp
<1>3. CASE /\ ~Exists(c)
           /\ corridor' = [corridor EXCEPT ![c] = row]
           /\ binding' = [binding EXCEPT ![c] = new]
           /\ asked' = [asked EXCEPT ![c] = {arg[a].wanted}]
  <2>1. row \in Rows
    BY <1>1 DEF Rows
  <2>2. \A b \in Admins \ {a} : pc[b] \in Locks => arg[b].corridor # c
    BY <1>3 DEF Inv, Checked, Fits
  <2>3. {p \in Providers : new[p] = "on"} = arg[a].wanted
    BY <1>1 DEF Locals, CatalogAssumption
  <2> HIDE DEF row, new
  <2>4. \A s \in Sessions : HasRow(s) => session[s].corridor # c
    BY <1>3 DEF Inv, Referenced
  <2>5. corridor' \in [Corridors -> Rows \cup {None}]
    BY <1>3, <2>1 DEF Inv, Typed
  <2>6. /\ DOMAIN binding' = Corridors /\ DOMAIN asked' = Corridors
        /\ binding'[c] = new /\ asked'[c] = {arg[a].wanted}
    BY <1>1, <1>3 DEF Inv, Typed
  <2>7. \A d \in Corridors : d # c =>
          corridor'[d] = corridor[d] /\ binding'[d] = binding[d] /\ asked'[d] = asked[d]
    BY <1>3 DEF Inv, Typed
  <2>8. {p \in Providers : binding'[c][p] = "on"} \in asked'[c]
    BY <2>3, <2>6
  <2> HIDE DEF c
  <2> QED  BY <1>1, <2>2, <2>4, <2>5, <2>6, <2>7, <2>8, OneCorridor
<1> QED  BY <1>2, <1>3 DEF InsertCorridor

\* What a request with the lock relies on.
LEMMA Locked ==
  ASSUME Inv, NEW a \in Admins, pc[a] \in Locks
  PROVE  /\ arg[a] \in Locals
         /\ arg[a].corridor \in Corridors /\ corridor[arg[a].corridor] \in Rows
         /\ Exists(arg[a].corridor)
         /\ \A b \in Admins \ {a} : pc[b] \in Locks => arg[b].corridor # arg[a].corridor
BY DEF Inv, Typed, Checked, Fits, Exclusive, Exists

LEMMA Writing ==
  ASSUME CatalogAssumption, Inv, NEW a \in Admins, WriteCorridor(a)
  PROVE  Inv'
<1> DEFINE c == arg[a].corridor
           row == [pair |-> arg[a].pair, active |-> arg[a].active]
<1>1. pc[a] = "write" /\ Reply(a) /\ UNCHANGED <<binding, session, asked>>
  BY DEF WriteCorridor
<1>2. c \in Corridors /\ Exists(c) /\ \A b \in Admins \ {a} : pc[b] \in Locks => arg[b].corridor # c
  BY <1>1, Locked DEF Locks
<1>3. CASE corridor' = corridor
  BY <1>1, <1>3, GivesUp
<1>4. CASE corridor' = [corridor EXCEPT ![c] = row]
  <2>1. row \in Rows
    BY <1>1 DEF Inv, Checked, Fits, Rows
  <2> HIDE DEF row
  <2>2. corridor' \in [Corridors -> Rows \cup {None}] /\ corridor'[c] # None
    BY <1>2, <1>4, <2>1 DEF Inv, Typed, CatalogAssumption, Rows
  <2>3. {p \in Providers : binding'[c][p] = "on"} \in asked'[c]
    BY <1>1, <1>2 DEF Inv, BindingsAreOneEdit, ListActiveProviders
  <2>4. \A d \in Corridors : d # c => corridor'[d] = corridor[d]
    BY <1>4 DEF Inv, Typed
  <2> HIDE DEF c
  <2> QED  BY <1>1, <1>2, <2>2, <2>3, <2>4, OneCorridor DEF Inv, Typed
<1> QED  BY <1>3, <1>4 DEF WriteCorridor

LEMMA Dropping ==
  ASSUME Inv, NEW a \in Admins, DropCorridor(a)
  PROVE  Inv'
<1> DEFINE c == arg[a].corridor
<1>1. pc[a] = "drop" /\ Reply(a) /\ UNCHANGED <<session, asked>>
  BY DEF DropCorridor
<1>2. c \in Corridors /\ \A b \in Admins \ {a} : pc[b] \in Locks => arg[b].corridor # c
  BY <1>1, Locked DEF Locks
<1>3. CASE UNCHANGED <<corridor, binding>>
  BY <1>1, <1>3, GivesUp
<1>4. CASE /\ ~\E s \in Sessions : HasRow(s) /\ session[s].corridor = c
           /\ corridor' = [corridor EXCEPT ![c] = None]
           /\ binding' = [binding EXCEPT ![c] = [p \in Providers |-> None]]
  <2>1. corridor' \in [Corridors -> Rows \cup {None}] /\ corridor'[c] = None
    BY <1>2, <1>4 DEF Inv, Typed
  <2>2. DOMAIN binding' = Corridors /\ DOMAIN asked' = Corridors
    BY <1>1, <1>4 DEF Inv, Typed
  <2>3. \A d \in Corridors : d # c =>
          corridor'[d] = corridor[d] /\ binding'[d] = binding[d] /\ asked'[d] = asked[d]
    BY <1>1, <1>4 DEF Inv, Typed
  <2>4. \A s \in Sessions : HasRow(s) => session[s].corridor # c
    BY <1>4
  <2> HIDE DEF c
  <2> QED  BY <1>1, <1>2, <2>1, <2>2, <2>3, <2>4, OneCorridor
<1> QED  BY <1>3, <1>4 DEF DropCorridor, corridors

LEMMA Rebinding ==
  ASSUME CatalogAssumption, Inv, NEW a \in Admins, CommitBindings(a)
  PROVE  Inv'
<1> DEFINE c == arg[a].corridor
           new == Rebound(a, binding[c])
<1>1. /\ pc[a] = "rebind" /\ Reply(a) /\ UNCHANGED <<corridor, session>>
      /\ binding' = [binding EXCEPT ![c] = new]
      /\ asked' = [asked EXCEPT ![c] = asked[c] \cup {arg[a].wanted}]
  BY DEF CommitBindings
<1>2. /\ c \in Corridors /\ Exists(c) /\ arg[a] \in Locals
      /\ \A b \in Admins \ {a} : pc[b] \in Locks => arg[b].corridor # c
  BY <1>1, Locked DEF Locks
<1>3. arg[a].written = {p \in Providers : binding[c][p] # None}
  BY <1>1 DEF Inv, Checked, Fits
<1>4. {p \in Providers : new[p] = "on"} = arg[a].wanted
  <2>1. ASSUME NEW p \in Providers PROVE new[p] = "on" <=> p \in arg[a].wanted
    BY <1>3 DEF Rebound, CatalogAssumption
  <2> QED  BY <1>2, <2>1 DEF Locals
<1> HIDE DEF new
<1>5. /\ DOMAIN binding' = Corridors /\ DOMAIN asked' = Corridors
      /\ binding'[c] = new /\ arg[a].wanted \in asked'[c]
  BY <1>1, <1>2 DEF Inv, Typed
<1>6. \A d \in Corridors : d # c =>
        corridor'[d] = corridor[d] /\ binding'[d] = binding[d] /\ asked'[d] = asked[d]
  BY <1>1 DEF Inv, Typed
<1>7. corridor' \in [Corridors -> Rows \cup {None}] /\ corridor'[c] # None
  BY <1>1, <1>2 DEF Inv, Typed, Exists
<1>8. {p \in Providers : binding'[c][p] = "on"} \in asked'[c]
  BY <1>4, <1>5
<1> HIDE DEF c
<1> QED  BY <1>1, <1>2, <1>5, <1>6, <1>7, <1>8, OneCorridor

\* A session's insert waits for the lock, so nobody under it misses the row.
LEMMA CreatingSession ==
  ASSUME CatalogAssumption, Inv, NEW s \in Sessions, CreateSession(s)
  PROVE  Inv'
<1>1. UNCHANGED <<corridor, binding, asked, pc, arg>>
  BY DEF CreateSession, InsertSession, ReserveAddress, GetCorridor, corridors, requests
<1>2. session[s] \in Copies
  BY DEF Inv, Typed
<1>3. PICK copy \in Copies :
        /\ session' = [session EXCEPT ![s] = copy]
        /\ copy.step # "idle" => copy.corridor \in Corridors
        /\ copy.step \in {"reserve", "done"} =>
             /\ Exists(copy.corridor)
             /\ \/ HasRow(s) /\ copy.corridor = session[s].corridor
                \/ ~LockedByOther(copy.corridor, s)
  <2>1. ASSUME NEW c \in Corridors, GetCorridor(s, c)
        PROVE  session' = [session EXCEPT ![s] = [step |-> "insert", corridor |-> c]]
    BY <2>1 DEF GetCorridor
  <2>2. \A c \in Corridors : [step |-> "insert", corridor |-> c] \in Copies
    BY DEF Copies
  <2>3. ASSUME NEW l \in {"reserve", "done"}
        PROVE  /\ [session[s] EXCEPT !.step = l] \in Copies
               /\ [session[s] EXCEPT !.step = l].step = l
               /\ [session[s] EXCEPT !.step = l].corridor = session[s].corridor
    BY <1>2, <2>3 DEF Copies
  <2>4. NoSession \in Copies /\ NoSession.step = "idle"
    BY DEF NoSession, Copies
  <2>5. CASE InsertSession(s)
    <3>1. session[s].corridor \in Corridors
      BY <2>5 DEF InsertSession, Inv, Typed
    <3>2. CASE Exists(session[s].corridor)
      BY <2>3, <2>5, <3>1, <3>2 DEF InsertSession
    <3>3. CASE ~Exists(session[s].corridor)
      BY <2>4, <2>5, <3>3 DEF InsertSession
    <3> QED  BY <3>2, <3>3
  <2>6. CASE ReserveAddress(s)
    <3>1. /\ session[s].corridor \in Corridors /\ Exists(session[s].corridor) /\ HasRow(s)
          /\ session' = [session EXCEPT ![s] = [session[s] EXCEPT !.step = "done"]]
      BY <2>6 DEF ReserveAddress, Inv, Typed, Referenced, HasRow
    <3> QED  BY <2>3, <3>1
  <2> QED  BY <2>1, <2>2, <2>5, <2>6 DEF CreateSession
<1>4. Typed'
  BY <1>1, <1>3 DEF Inv, Typed
<1>5. Checked'
  <2> SUFFICES ASSUME NEW a \in Admins, pc[a] = "write", ~HasPaymentHistory(arg[a].corridor)
               PROVE  ~HasPaymentHistory(arg[a].corridor)'
    BY <1>1 DEF Inv, Checked, Fits, Exists, HasPaymentHistory, HasRow
  <2>1. a # s
    BY DEF CatalogAssumption
  <2>2. LockedByOther(arg[a].corridor, s)
    BY <2>1 DEF LockedByOther, HoldsLock
  <2>3. copy.step \in {"reserve", "done"} => copy.corridor # arg[a].corridor
    BY <1>3, <2>2 DEF HasPaymentHistory
  <2> QED  BY <1>1, <1>3, <2>3 DEF HasPaymentHistory, HasRow, Inv, Typed
<1>6. Referenced'
  BY <1>1, <1>3 DEF Inv, Typed, Referenced, HasRow, Exists
<1> QED  BY <1>1, <1>4, <1>5, <1>6 DEF Inv, Exclusive, BindingsAreOneEdit, Exists,
            ListActiveProviders

\* The catalog: nothing of a corridor depends on it once it has been checked.
LEMMA EditingCatalog ==
  ASSUME Inv, EditCatalog
  PROVE  Inv' /\ UNCHANGED <<corridor, session>>
<1>1. UNCHANGED <<corridor, binding, session, asked>>
  BY DEF EditCatalog, CreateNetwork, UpdateNetwork, SaveAsset, CatalogEdit, Unlist,
     DeleteCatalogEntry, corridors
<1>2. CASE UNCHANGED <<pc, arg>>
  BY <1>1, <1>2 DEF Inv, Typed, Checked, Fits, Exclusive, Referenced, BindingsAreOneEdit,
     Exists, HasPaymentHistory, HasRow, ListActiveProviders
<1>3. ASSUME NEW a \in Admins, Unlist(a) PROVE Inv'
  BY <1>1, <1>3, GivesUp DEF Unlist
<1>4. ASSUME NEW a \in Admins, NEW x \in Codes, DeleteCatalogEntry(a, x) PROVE Inv'
  <2> DEFINE r == [NoRequest EXCEPT !.code = x]
  <2>1. r \in Locals
    BY DEF NoRequest, Locals
  <2>2. To(a, "unlist", r) /\ Fits("unlist", r) /\ MayHold(a, "unlist", r)
    BY <1>4 DEF DeleteCatalogEntry, Request, To, Fits, MayHold, Locks
  <2> HIDE DEF r
  <2> QED  BY <1>1, <2>1, <2>2, GoesOn
<1> QED  BY <1>1, <1>2, <1>3, <1>4 DEF EditCatalog, CreateNetwork, UpdateNetwork, SaveAsset,
            CatalogEdit

LEMMA InvStep ==
  ASSUME CatalogAssumption, Inv, [Next]_vars
  PROVE  Inv'
<1>1. ASSUME NEW a \in Admins, EditCorridor(a) PROVE Inv'
  BY <1>1, Starting, Checking, Inserting, Writing, Dropping, Rebinding DEF EditCorridor
<1>2. ASSUME NEW a \in Admins, Abort(a) PROVE Inv'
  BY <1>2, GivesUp DEF Abort, corridors
<1>3. ASSUME NEW s \in Sessions, CreateSession(s) PROVE Inv'
  BY <1>3, CreatingSession
<1>4. CASE UNCHANGED vars
  BY <1>4 DEF vars, corridors, requests, Inv, Typed, Checked, Fits, Exclusive, Referenced,
     BindingsAreOneEdit, Exists, HasPaymentHistory, HasRow, ListActiveProviders
<1> QED  BY <1>1, <1>2, <1>3, <1>4, EditingCatalog DEF Next

LEMMA Invariant == Spec => []Inv
<1>1. Init => Inv
  <2> SUFFICES ASSUME Init PROVE Inv
    OBVIOUS
  <2>1. NoSession \in Copies /\ NoSession.step = "idle"
    BY DEF NoSession, Copies
  <2>2. Typed
    BY <2>1, NoRequestIsLocal DEF Init, Typed
  <2>3. \A a \in Admins : pc[a] = "idle"
    BY DEF Init
  <2>4. Checked /\ Exclusive
    BY <2>3 DEF Checked, Fits, Exclusive, Locks
  <2>5. \A s \in Sessions : session[s] = NoSession
    BY DEF Init
  <2>6. Referenced
    BY <2>1, <2>5 DEF Referenced, HasRow
  <2>7. BindingsAreOneEdit
    BY DEF Init, BindingsAreOneEdit, Exists
  <2> QED  BY <2>2, <2>4, <2>6, <2>7 DEF Inv
<1>2. Inv /\ [Next]_vars => Inv'
  BY InvStep, CatalogAssumption
<1> QED  BY <1>1, <1>2, PTL DEF Spec

-----------------------------------------------------------------------------
(* The theorems.                                                            *)

\* corridor.go:440, replaceProviderBindings under the corridor's lock: whatever
\* admins edit at once, the active bindings are one request's complete set.
THEOREM BindingsNeverMix == Spec => []BindingsAreOneEdit
<1>1. Inv => BindingsAreOneEdit
  BY DEF Inv
<1> QED  BY <1>1, Invariant, PTL

\* corridor.go:381 and :610, UpdateCorridor and DeleteCorridor: no write moves or
\* removes a corridor that has a session, though it was checked earlier.
LEMMA WritesSpareUsed ==
  ASSUME Inv, [Next]_vars, NEW s \in Sessions, HasRow(s)
  PROVE  /\ corridor'[session[s].corridor] # None
         /\ corridor'[session[s].corridor].pair = corridor[session[s].corridor].pair
<1> DEFINE c == session[s].corridor
<1>1. c \in Corridors /\ Exists(c) /\ DOMAIN corridor = Corridors
  BY DEF Inv, Typed, Referenced, HasRow
<1>2. CASE corridor' = corridor
  BY <1>1, <1>2 DEF Exists
<1>3. ASSUME NEW a \in Admins, InsertCorridor(a) PROVE corridor'[c] = corridor[c]
  BY <1>1, <1>3 DEF InsertCorridor
<1>4. ASSUME NEW a \in Admins, WriteCorridor(a)
      PROVE  corridor'[c] # None /\ corridor'[c].pair = corridor[c].pair
  <2>1. Fits("write", arg[a]) /\ Inv'
    BY <1>4, Writing, CatalogAssumption DEF WriteCorridor, Inv, Checked
  <2>2. corridor'[c] # None
    BY <1>1, <1>4, <2>1 DEF WriteCorridor, Inv, Referenced, HasRow, Exists
  <2>3. CASE c = arg[a].corridor
    <3>1. arg[a].pair = corridor[c].pair
      BY <2>1, <2>3 DEF Fits, HasPaymentHistory
    <3> QED  BY <1>1, <1>4, <2>2, <2>3, <3>1 DEF WriteCorridor
  <2>4. CASE c # arg[a].corridor
    BY <1>1, <1>4, <2>2, <2>4 DEF WriteCorridor
  <2> QED  BY <2>3, <2>4
<1>5. ASSUME NEW a \in Admins, DropCorridor(a) PROVE corridor'[c] = corridor[c]
  BY <1>1, <1>5 DEF DropCorridor, corridors
<1>6. \/ corridor' = corridor
      \/ \E a \in Admins : InsertCorridor(a) \/ WriteCorridor(a) \/ DropCorridor(a)
  BY EditingCatalog DEF Next, EditCorridor, CheckPatch, CheckHistory, DeactivateBindings,
     CommitBindings, DeleteCorridor, CreateCorridor, UpdateCorridor, ReplaceProviderBindings,
     Abort, CreateSession, InsertSession, ReserveAddress, GetCorridor, corridors, vars
<1> QED  BY <1>1, <1>2, <1>3, <1>4, <1>5, <1>6 DEF Exists

THEOREM UsedCorridorsStay == Spec => UsedCorridorStays
<1>1. Inv /\ [Next]_vars =>
        [\A s \in Sessions : HasRow(s) =>
           LET c == session[s].corridor
           IN corridor'[c] # None /\ corridor'[c].pair = corridor[c].pair]_vars
  BY WritesSpareUsed
<1> QED  BY <1>1, Invariant, PTL DEF Spec, UsedCorridorStays
=============================================================================
