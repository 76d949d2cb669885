---------------------------- MODULE TenantProofs ----------------------------
(***************************************************************************)
(* Five promises of a tenant's account, for any handlers, links, keys,     *)
(* corridors, declarations and bounds.                                     *)
(*                                                                         *)
(* Login: a consumed link stays consumed, and between its consumption and  *)
(* the insert of its session exactly one request is on its way (OnItsWay). *)
(* Credentials: what a deletion has found is revoked or gone, and what is  *)
(* inserted later is new.  Entitlements: the form behind every corridor    *)
(* that is open, or about to be opened, has been validated and approved.   *)
(* Blocks: only an admin's grant lifts an admin's block.                   *)
(* Activations: a request on its way to activate the tenant owes that to   *)
(* an approval of its own, so both together are counted (EarnedInv); and   *)
(* where a tenant is active, or a request about to activate it, the case   *)
(* was approved since the last restoration, or the request was on its way  *)
(* already then (ReviewedInv).                                             *)
(***************************************************************************)
EXTENDS Tenant, SequenceTheorems, FiniteSetTheorems, TLAPS

-----------------------------------------------------------------------------
(* Login.                                                                   *)

LoginTyped ==
  /\ DOMAIN pc = Handlers /\ DOMAIN arg = Handlers /\ DOMAIN link = Links
  /\ opened \subseteq Sessions
  /\ \A h \in Handlers : pc[h] \in {"consume", "open"} => arg[h] \in Links

OpenedIsUsed == \A s \in opened : link[s[1]] = "used"

OnItsWay ==
  \A h \in Handlers : pc[h] = "open" =>
    /\ link[arg[h]] = "used"
    /\ \A s \in opened : s[1] # arg[h]
    /\ \A g \in Handlers : pc[g] = "open" /\ arg[g] = arg[h] => g = h

LoginInv == LoginTyped /\ OpenedIsUsed /\ OnItsWay /\ LinkOpensOneSession

\* A request goes on to anything but the insert of a session.
Elsewhere(h, l, a) == Goto(h, l, a) /\ l # "open" /\ (l = "consume" => a \in Links)
Moves == UNCHANGED requests \/ \E h \in Handlers : \E l, a : Elsewhere(h, l, a)

LEMMA LoginTypedStep ==
  ASSUME LoginTyped, Moves, DOMAIN link' = Links, UNCHANGED opened
  PROVE  LoginTyped'
BY DEF LoginTyped, Moves, Elsewhere, Goto, requests, Sessions

\* Links only change on their way to "used", and no session is inserted.
LEMMA LoginMoves ==
  ASSUME LoginInv, Moves, UNCHANGED opened,
         DOMAIN link' = Links, \A l \in Links : link[l] = "used" => link'[l] = "used"
  PROVE  LoginInv'
<1>1. LoginTyped'
  BY LoginTypedStep DEF LoginInv
<1>2. \A s \in opened : s[1] \in Links
  BY DEF Sessions, LoginInv, LoginTyped
<1>3. OpenedIsUsed'
  BY <1>2 DEF LoginInv, OpenedIsUsed
<1>4. ASSUME NEW h \in Handlers, pc'[h] = "open"
      PROVE  pc[h] = "open" /\ arg'[h] = arg[h] /\ arg[h] \in Links
  BY <1>4 DEF Moves, Elsewhere, Goto, requests, LoginInv, LoginTyped
<1>5. OnItsWay'
  BY <1>4 DEF LoginInv, OnItsWay
<1> QED  BY <1>1, <1>3, <1>5 DEF LoginInv, LinkOpensOneSession

\* Only the two steps of VerifyMagicLink do anything else to a login.
LEMMA OthersMove ==
  ASSUME LoginTyped, Next,
         ~\E h \in Handlers : ConsumeMagicLink(h), ~\E h \in Handlers : OpenSession(h)
  PROVE  /\ Moves /\ UNCHANGED opened
         /\ DOMAIN link' = Links
         /\ \A l \in Links : link[l] = "used" => link'[l] = "used"
<1>. USE DEF Moves, Elsewhere, Reply, None, requests, credentials, observed
<1>1. CASE Register \/ RestoreAccount
  BY <1>1 DEF Register, RestoreAccount, LoginTyped
<1>2. CASE \E l \in Links : MagicLinkExpires(l)
  BY <1>2 DEF MagicLinkExpires, LoginTyped
<1>3. CASE \E t \in Sessions : SessionExpires(t)
  BY <1>3 DEF SessionExpires, LoginTyped
<1>4. CASE \E c \in Corridors : RevokeCorridorEntitlement(c)
  BY <1>4 DEF RevokeCorridorEntitlement, LoginTyped
<1>5. ASSUME NEW h \in Handlers, Login(h)
      PROVE  /\ Moves /\ UNCHANGED opened
             /\ DOMAIN link' = Links
             /\ \A l \in Links : link[l] = "used" => link'[l] = "used"
  <2>1. CASE \E l \in Links : RequestMagicLink(h, l)
    BY <2>1 DEF RequestMagicLink, LoginTyped
  <2>2. CASE \E l \in Links : VerifyMagicLink(h, l)
    BY <2>2 DEF VerifyMagicLink, LoginTyped
  <2>3. CASE StoreMagicLink(h)
    BY <2>3 DEF StoreMagicLink, LoginTyped
  <2>4. CASE AuthenticateSession(h)
    BY <2>4 DEF AuthenticateSession, LoginTyped
  <2>5. CASE Logout(h)
    BY <2>5 DEF Logout, LoginTyped
  <2> QED  BY <1>5, <2>1, <2>2, <2>3, <2>4, <2>5 DEF Login
<1>6. ASSUME NEW h \in Handlers, KYB(h)
      PROVE  /\ Moves /\ UNCHANGED <<opened, link>>
  <2>1. CASE SubmitKYB(h)
    BY <2>1 DEF SubmitKYB, Proceed
  <2>2. CASE ScreenTenant(h)
    BY <2>2 DEF ScreenTenant, Proceed
  <2>3. CASE ApproveKYB(h)
    BY <2>3 DEF ApproveKYB
  <2>4. CASE \E i \in DOMAIN case, verdict \in {"approved", "rejected"} : ResolveHold(h, i, verdict)
    BY <2>4 DEF ResolveHold, Proceed
  <2> QED  BY <1>6, <2>1, <2>2, <2>3, <2>4 DEF KYB
<1>7. ASSUME NEW h \in Handlers, Access(h)
      PROVE  /\ Moves /\ UNCHANGED <<opened, link>>
  <2>1. CASE IssueAPIKey(h) \/ DeleteAccount(h)
    BY <2>1 DEF IssueAPIKey, DeleteAccount, Proceed
  <2>2. CASE \E k \in Keys : StoreAPIKey(h, k) \/ RevokeAPIKey(h, k)
    BY <2>2 DEF StoreAPIKey, RevokeAPIKey
  <2>3. CASE CheckCorridorJurisdiction(h) \/ EnableCorridorSelfService(h)
             \/ SetCorridorEntitlement(h)
    BY <2>3 DEF CheckCorridorJurisdiction, EnableCorridorSelfService,
       SetCorridorEntitlement, Proceed
  <2>4. CASE \E c \in Corridors :
               \/ EnableCorridor(h, c) \/ DisableCorridorSelfService(h, c)
               \/ GrantCorridorEntitlement(h, c)
    BY <2>4 DEF EnableCorridor, DisableCorridorSelfService, GrantCorridorEntitlement, Proceed
  <2> QED  BY <1>7, <2>1, <2>2, <2>3, <2>4 DEF Access
<1>8. ASSUME NEW h \in Handlers, Interrupted(h)
      PROVE  /\ Moves /\ UNCHANGED <<opened, link>>
  BY <1>8 DEF Interrupted
<1> QED  BY <1>1, <1>2, <1>3, <1>4, <1>5, <1>6, <1>7, <1>8 DEF Next, LoginTyped

\* The update's WHERE lets one of several requests that hold the link through.
LEMMA Consuming ==
  ASSUME LoginInv, NEW h \in Handlers, ConsumeMagicLink(h)
  PROVE  LoginInv'
<1> DEFINE l == arg[h]
<1>0. l \in Links /\ opened' = opened
  BY DEF ConsumeMagicLink, At, LoginInv, LoginTyped, observed
<1>1. CASE ~Consumable(l)
  <2>1. Moves /\ link' = link
    BY <1>1 DEF ConsumeMagicLink, Proceed, Reply, Moves, Elsewhere
  <2> QED  BY <1>0, <2>1, LoginMoves DEF LoginInv, LoginTyped
<1>2. CASE Consumable(l)
  <2>1. /\ link' = [link EXCEPT ![l] = "used"]
        /\ pc' = [pc EXCEPT ![h] = "open"] /\ arg' = [arg EXCEPT ![h] = l]
    BY <1>2 DEF ConsumeMagicLink, Proceed, Goto
  <2>2. LoginTyped'
    BY <1>0, <2>1 DEF LoginInv, LoginTyped, Sessions
  <2>3. OpenedIsUsed'
    BY <1>0, <2>1 DEF LoginInv, LoginTyped, OpenedIsUsed, Sessions
  <2>4. OnItsWay'
    BY <1>0, <1>2, <2>1 DEF LoginInv, LoginTyped, OpenedIsUsed, OnItsWay, Consumable
  <2> QED  BY <1>0, <2>2, <2>3, <2>4 DEF LoginInv, LinkOpensOneSession
<1> QED  BY <1>1, <1>2

LEMMA Opening ==
  ASSUME LoginInv, NEW h \in Handlers, OpenSession(h)
  PROVE  LoginInv' /\ <<arg[h], h>> \in Sessions \ opened
<1>1. /\ pc[h] = "open" /\ link' = link
      /\ opened' = opened \cup {<<arg[h], h>>}
      /\ pc' = [pc EXCEPT ![h] = "idle"] /\ arg' = [arg EXCEPT ![h] = None]
  BY DEF OpenSession, At, Reply, Goto
<1>2. <<arg[h], h>> \in Sessions \ opened
  BY <1>1 DEF LoginInv, LoginTyped, OnItsWay, Sessions
<1>3. LoginTyped'
  BY <1>1, <1>2 DEF LoginInv, LoginTyped, Sessions
<1>4. OpenedIsUsed'
  BY <1>1 DEF LoginInv, OpenedIsUsed, OnItsWay
<1>5. OnItsWay'
  BY <1>1 DEF LoginInv, LoginTyped, OnItsWay
<1>6. LinkOpensOneSession'
  BY <1>1 DEF LoginInv, OnItsWay, LinkOpensOneSession
<1> QED  BY <1>2, <1>3, <1>4, <1>5, <1>6 DEF LoginInv

LEMMA LoginStep ==
  ASSUME LoginInv, [Next]_vars
  PROVE  LoginInv'
<1>1. CASE \E h \in Handlers : ConsumeMagicLink(h)
  BY <1>1, Consuming
<1>2. CASE \E h \in Handlers : OpenSession(h)
  BY <1>2, Opening
<1>3. CASE Next /\ ~(\E h \in Handlers : ConsumeMagicLink(h))
                /\ ~(\E h \in Handlers : OpenSession(h))
  BY <1>3, OthersMove, LoginMoves DEF LoginInv
<1>4. CASE UNCHANGED vars
  BY <1>4, LoginMoves DEF vars, Moves, credentials, observed, LoginInv, LoginTyped
<1> QED  BY <1>1, <1>2, <1>3, <1>4

LEMMA LoginInvariant == Spec => []LoginInv
<1>1. Init => LoginInv
  BY DEF Init, LoginInv, LoginTyped, OpenedIsUsed, OnItsWay, LinkOpensOneSession
<1>2. LoginInv /\ [Next]_vars => LoginInv'
  BY LoginStep
<1> QED  BY <1>1, <1>2, PTL DEF Spec

\* tenant.go:422, VerifyMagicLink: a link opens at most one session, whatever
\* requests redeem it at once.
THEOREM LinksOpenOneSession == Spec => []LinkOpensOneSession
<1>1. LoginInv => LinkOpensOneSession
  BY DEF LoginInv
<1> QED  BY <1>1, LoginInvariant, PTL

-----------------------------------------------------------------------------
(* Credentials.                                                             *)

Revocation ==
  /\ key \in [Keys -> {None, "active", "revoked"}]
  /\ sessions \subseteq opened
  /\ closed \subseteq Keys \cup opened
  /\ \A d \in closed : d \notin sessions /\ (d \in Keys => key[d] = "revoked")

\* Sessions only end, and keys only change from issued to revoked.
LEMMA NothingReturns ==
  ASSUME Revocation, UNCHANGED <<closed, opened>>, sessions' \subseteq sessions,
         key' \in [Keys -> {None, "active", "revoked"}],
         \A k \in Keys : key[k] = "revoked" => key'[k] = "revoked"
  PROVE  Revocation'
BY DEF Revocation

LEMMA RevocationStep ==
  ASSUME TenantAssumption, LoginInv, Revocation, [Next]_vars
  PROVE  Revocation'
<1>. USE DEF credentials, observed
<1>1. ASSUME NEW h \in Handlers, OpenSession(h) PROVE Revocation'
  <2> DEFINE t == <<arg[h], h>>
  <2>1. t \in Sessions /\ t \notin opened
    BY <1>1, Opening
  <2>2. t \notin closed
    BY <2>1 DEF Revocation, TenantAssumption, Sessions
  <2>3. /\ sessions' = sessions \cup {t} /\ opened' = opened \cup {t}
        /\ UNCHANGED <<closed, key>>
    BY <1>1 DEF OpenSession
  <2> HIDE DEF t
  <2> QED  BY <2>1, <2>2, <2>3 DEF Revocation
<1>2. ASSUME NEW h \in Handlers, DeleteAccount(h) PROVE Revocation'
  <2>1. CASE status = "deleted"
    BY <1>2, <2>1, NothingReturns DEF DeleteAccount, Revocation
  <2>2. CASE status # "deleted"
    <3>1. /\ sessions' = {} /\ opened' = opened
          /\ key' = [k \in Keys |-> IF key[k] = "active" THEN "revoked" ELSE key[k]]
          /\ closed' = closed \cup sessions \cup {k \in Keys : key[k] # None}
      BY <1>2, <2>2 DEF DeleteAccount, Revoked
    <3>2. ASSUME NEW k \in Keys, k \in closed' PROVE key'[k] = "revoked"
      <4>1. k \notin sessions
        BY DEF Revocation, TenantAssumption, LoginInv, LoginTyped, Sessions
      <4> QED  BY <3>1, <3>2, <4>1 DEF Revocation
    <3> QED  BY <3>1, <3>2 DEF Revocation, None
  <2> QED  BY <2>1, <2>2
<1>3. CASE \/ \E t \in Sessions : SessionExpires(t)
           \/ \E h \in Handlers : Logout(h)
  BY <1>3, NothingReturns DEF SessionExpires, Logout, Revocation
<1>4. CASE \E h \in Handlers, k \in Keys : StoreAPIKey(h, k) \/ RevokeAPIKey(h, k)
  BY <1>4, NothingReturns DEF StoreAPIKey, RevokeAPIKey, Revocation, None
<1>5. CASE UNCHANGED <<sessions, key, closed, opened>>
  BY <1>5, NothingReturns DEF Revocation
<1>6. \/ \E h \in Handlers : OpenSession(h) \/ DeleteAccount(h) \/ Logout(h)
      \/ \E t \in Sessions : SessionExpires(t)
      \/ \E h \in Handlers, k \in Keys : StoreAPIKey(h, k) \/ RevokeAPIKey(h, k)
      \/ UNCHANGED <<sessions, key, closed, opened>>
  <2>1. ASSUME NEW h \in Handlers, Login(h)
        PROVE  OpenSession(h) \/ Logout(h) \/ UNCHANGED <<sessions, key, closed, opened>>
    BY <2>1 DEF Login, RequestMagicLink, VerifyMagicLink, StoreMagicLink, ConsumeMagicLink,
       AuthenticateSession
  <2>2. ASSUME NEW h \in Handlers, KYB(h)
        PROVE  UNCHANGED <<sessions, key, closed, opened>>
    BY <2>2 DEF KYB, SubmitKYB, ScreenTenant, ApproveKYB, ResolveHold
  <2>3. ASSUME NEW h \in Handlers, Access(h)
        PROVE  \/ DeleteAccount(h)
               \/ \E k \in Keys : StoreAPIKey(h, k) \/ RevokeAPIKey(h, k)
               \/ UNCHANGED <<sessions, key, closed, opened>>
    BY <2>3 DEF Access, IssueAPIKey, CheckCorridorJurisdiction, EnableCorridorSelfService,
       SetCorridorEntitlement, EnableCorridor, DisableCorridorSelfService,
       GrantCorridorEntitlement
  <2> QED  BY <2>1, <2>2, <2>3 DEF Next, vars, Register, RestoreAccount, MagicLinkExpires,
              RevokeCorridorEntitlement, Interrupted
<1> QED  BY <1>1, <1>2, <1>3, <1>4, <1>5, <1>6

\* tenant.go:618, DeleteAccount and RestoreAccount: the sessions and keys of a
\* deleted account are not accepted again, whatever happens to the account.
THEOREM DeletedCredentialsStayDead == Spec => []DeletionRevokesForGood
<1>1. Init => Revocation
  BY DEF Init, Revocation, None
<1>2. LoginInv /\ Revocation /\ [Next]_vars => Revocation'
  BY RevocationStep, TenantAssumption
<1>3. Revocation => DeletionRevokesForGood
  BY DEF Revocation, DeletionRevokesForGood, AcceptsKey, AcceptsSession
<1> QED  BY <1>1, <1>2, <1>3, LoginInvariant, PTL DEF Spec

-----------------------------------------------------------------------------
(* Entitlements.                                                            *)

CaseTyped == case \in Seq([status : {"hold", "approved", "rejected"}, form : Declarations])

Covers(cases, c) ==
  \E i \in DOMAIN cases :
    /\ cases[i].status = "approved"
    /\ FiatOf[c] \in Declares[cases[i].form]
    /\ GetRequiredFields(FiatOf[c]) \subseteq Provides[cases[i].form]

Validated == \A i \in DOMAIN case : ValidateDeclaredCurrencies(case[i].form)

\* What is open, and what a request has checked and is about to open.
OpenIsCovered == \A c \in Corridors : entitlement[c] = "on" => Covers(case, c)
AboutToOpen ==
  \A h \in Handlers : pc[h] \in {"enable", "grant"} => Covers(case, arg[h])

RequestTyped ==
  /\ DOMAIN pc = Handlers /\ DOMAIN arg = Handlers /\ DOMAIN entitlement = Corridors
  /\ \A h \in Handlers : pc[h] = "screen" => arg[h] \in Declarations

EntitledInv == CaseTyped /\ RequestTyped /\ Validated /\ OpenIsCovered /\ AboutToOpen

\* An approved case stays what it is, so what it covers stays covered.
CasesGrow ==
  /\ DOMAIN case \subseteq DOMAIN case'
  /\ \A i \in DOMAIN case :
       /\ case'[i].form = case[i].form
       /\ case[i].status = "approved" => case'[i].status = "approved"

LEMMA CoversForEver ==
  ASSUME CasesGrow, NEW c, Covers(case, c)
  PROVE  Covers(case', c)
<1>1. PICK i \in DOMAIN case :
        /\ case[i].status = "approved"
        /\ FiatOf[c] \in Declares[case[i].form]
        /\ GetRequiredFields(FiatOf[c]) \subseteq Provides[case[i].form]
  BY DEF Covers
<1>2. i \in DOMAIN case'
  BY DEF CasesGrow
<1>3. case'[i].form = case[i].form
  BY DEF CasesGrow
<1>4. case'[i].status = "approved"
  BY <1>1 DEF CasesGrow
<1> QED  BY <1>1, <1>2, <1>3, <1>4 DEF Covers

\* A validated form that declares an approved corridor's currency covers it.
LEMMA ApprovedCovers ==
  ASSUME Validated, NEW c, IsJurisdictionApproved(FiatOf[c])
  PROVE  Covers(case, c)
BY DEF Validated, IsJurisdictionApproved, ValidateDeclaredCurrencies, Covers

\* Whatever the request goes on to: covered if it is about to open a corridor.
Continues(h, l, a) ==
  /\ Goto(h, l, a)
  /\ l \in {"enable", "grant"} => Covers(case', a)
  /\ l = "screen" => a \in Declarations

LEMMA EntitledStep ==
  ASSUME EntitledInv, CasesGrow, CaseTyped', Validated',
         UNCHANGED requests \/ \E h \in Handlers : \E l, a : Continues(h, l, a),
         DOMAIN entitlement' = Corridors,
         \A c \in Corridors : entitlement'[c] = "on" => entitlement[c] = "on" \/ Covers(case, c)
  PROVE  EntitledInv'
<1>1. RequestTyped'
  BY DEF EntitledInv, RequestTyped, Continues, Goto, requests
<1>2. OpenIsCovered'
  BY CoversForEver DEF EntitledInv, OpenIsCovered, Covers
<1>3. AboutToOpen'
  <2> SUFFICES ASSUME NEW h \in Handlers, pc'[h] \in {"enable", "grant"}
               PROVE  Covers(case', arg'[h])
    BY DEF AboutToOpen, Covers
  <2>1. CASE pc[h] = pc'[h] /\ arg[h] = arg'[h]
    BY <2>1, CoversForEver DEF EntitledInv, AboutToOpen
  <2>2. CASE \E l, a : Continues(h, l, a)
    BY <2>2 DEF EntitledInv, RequestTyped, Continues, Goto
  <2> QED  BY <2>1, <2>2 DEF EntitledInv, RequestTyped, Continues, Goto, requests
<1> QED  BY <1>1, <1>2, <1>3 DEF EntitledInv

LEMMA SameCases ==
  ASSUME EntitledInv, UNCHANGED case
  PROVE  CasesGrow /\ CaseTyped' /\ Validated'
BY DEF EntitledInv, CasesGrow, CaseTyped, Validated, ValidateDeclaredCurrencies

\* A step that leaves the cases and the entitlements alone.
LEMMA NothingOpens ==
  ASSUME EntitledInv, UNCHANGED <<case, entitlement>>,
         UNCHANGED requests \/ \E h \in Handlers : \E l, a : Continues(h, l, a)
  PROVE  EntitledInv'
BY SameCases, EntitledStep DEF EntitledInv, RequestTyped

LEMMA Screening ==
  ASSUME EntitledInv, NEW h \in Handlers, ScreenTenant(h)
  PROVE  EntitledInv'
<1>1. CASE ~ValidateDeclaredCurrencies(arg[h])
  BY <1>1, NothingOpens DEF ScreenTenant, Continues, Reply
<1>2. CASE ValidateDeclaredCurrencies(arg[h])
  <2> DEFINE row == [status |-> Screen(kybProvider), form |-> arg[h]]
             Row == [status : {"hold", "approved", "rejected"}, form : Declarations]
  <2>1. row \in Row /\ row.form = arg[h]
    BY DEF ScreenTenant, At, EntitledInv, RequestTyped, Screen
  <2>2. case' = Append(case, row) /\ entitlement' = entitlement /\ case \in Seq(Row)
    BY <1>2 DEF ScreenTenant, EntitledInv, CaseTyped
  <2> HIDE DEF row, Row
  <2>3. /\ case' \in Seq(Row) /\ DOMAIN case' = 1..(Len(case) + 1) /\ Len(case) \in Nat
        /\ DOMAIN case = 1..Len(case)
        /\ \A i \in DOMAIN case : case'[i] = case[i]
        /\ case'[Len(case) + 1] = row
    BY <2>1, <2>2
  <2>4. CasesGrow
    BY <2>3 DEF CasesGrow
  <2>5. CaseTyped'
    BY <2>3 DEF CaseTyped, Row
  <2>6. Validated'
    <3> SUFFICES ASSUME NEW i \in DOMAIN case'
                 PROVE  ValidateDeclaredCurrencies(case'[i].form)
      BY DEF Validated, ValidateDeclaredCurrencies
    <3>1. CASE i \in DOMAIN case
      BY <2>3, <3>1 DEF EntitledInv, Validated
    <3>2. CASE i = Len(case) + 1
      BY <1>2, <2>1, <2>3, <3>2
    <3> QED  BY <2>3, <3>1, <3>2
  <2>7. \E l, a : Continues(h, l, a)
    BY <1>2 DEF ScreenTenant, Proceed, Reply, Continues, None
  <2> QED  BY <2>2, <2>4, <2>5, <2>6, <2>7, EntitledStep DEF EntitledInv, RequestTyped
<1> QED  BY <1>1, <1>2

LEMMA Resolving ==
  ASSUME EntitledInv, NEW h \in Handlers, NEW i \in DOMAIN case,
         NEW verdict \in {"approved", "rejected"}, ResolveHold(h, i, verdict)
  PROVE  EntitledInv'
<1> DEFINE Row == [status : {"hold", "approved", "rejected"}, form : Declarations]
<1>1. case \in Seq(Row) /\ case[i].status = "hold" /\ entitlement' = entitlement
  BY DEF EntitledInv, CaseTyped, ResolveHold, Resolvable, Holds
<1>2. case[i] \in Row
  <2> HIDE DEF Row
  <2> QED  BY <1>1
<1>3. /\ [case[i] EXCEPT !.status = verdict] \in Row
      /\ [case[i] EXCEPT !.status = verdict].form = case[i].form
  BY <1>2
<1>4. case' = [case EXCEPT ![i] = [case[i] EXCEPT !.status = verdict]]
  BY DEF ResolveHold
<1> HIDE DEF Row
<1>5. case' \in Seq(Row)
  BY <1>1, <1>3, <1>4
<1>6. DOMAIN case' = DOMAIN case /\ \A j \in DOMAIN case : case'[j].form = case[j].form
  BY <1>3, <1>4
<1>7. CasesGrow
  BY <1>1, <1>4, <1>6 DEF CasesGrow
<1>8. CaseTyped'
  BY <1>5 DEF CaseTyped, Row
<1>9. Validated'
  BY <1>6 DEF EntitledInv, Validated, ValidateDeclaredCurrencies
<1>10. \E l, a : Continues(h, l, a)
  BY DEF ResolveHold, Proceed, Reply, Continues
<1> QED  BY <1>1, <1>7, <1>8, <1>9, <1>10, EntitledStep DEF EntitledInv, RequestTyped

\* The tenant's switch and the admin's grant act on what was checked before.
LEMMA OpeningCorridor ==
  ASSUME EntitledInv, NEW h \in Handlers,
         EnableCorridorSelfService(h) \/ SetCorridorEntitlement(h)
  PROVE  EntitledInv'
<1>1. Covers(case, arg[h]) /\ case' = case
  BY DEF EnableCorridorSelfService, SetCorridorEntitlement, At, EntitledInv, AboutToOpen
<1>2. DOMAIN entitlement' = Corridors
  BY DEF EnableCorridorSelfService, SetCorridorEntitlement, EntitledInv, RequestTyped
<1>3. \A c \in Corridors : entitlement'[c] = "on" => entitlement[c] = "on" \/ Covers(case, c)
  BY <1>1 DEF EnableCorridorSelfService, SetCorridorEntitlement, EntitledInv, RequestTyped
<1>4. \E l, a : Continues(h, l, a)
  BY DEF EnableCorridorSelfService, SetCorridorEntitlement, Reply, Continues
<1> QED  BY <1>1, <1>2, <1>3, <1>4, SameCases, EntitledStep

LEMMA ClosingCorridor ==
  ASSUME EntitledInv, NEW c \in Corridors,
         RevokeCorridorEntitlement(c)
           \/ \E h \in Handlers : DisableCorridorSelfService(h, c)
  PROVE  EntitledInv'
<1>1. case' = case
  BY DEF RevokeCorridorEntitlement, DisableCorridorSelfService
<1>2. /\ DOMAIN entitlement' = Corridors
      /\ \A d \in Corridors : entitlement'[d] = "on" => entitlement[d] = "on"
  BY DEF RevokeCorridorEntitlement, DisableCorridorSelfService, Disabled, EntitledInv,
     RequestTyped
<1>3. UNCHANGED requests \/ \E h \in Handlers : \E l, a : Continues(h, l, a)
  BY DEF RevokeCorridorEntitlement, DisableCorridorSelfService, Reply, Continues
<1> QED  BY <1>1, <1>2, <1>3, SameCases, EntitledStep

LEMMA EntitledInvStep ==
  ASSUME EntitledInv, [Next]_vars
  PROVE  EntitledInv'
<1>. USE DEF requests, Continues, Reply, None
<1>1. CASE \/ Register \/ RestoreAccount
           \/ \E l \in Links : MagicLinkExpires(l)
           \/ \E t \in Sessions : SessionExpires(t)
           \/ UNCHANGED vars
  BY <1>1, NothingOpens DEF Register, RestoreAccount, MagicLinkExpires, SessionExpires, vars
<1>2. CASE \E c \in Corridors : RevokeCorridorEntitlement(c)
  BY <1>2, ClosingCorridor
<1>3. ASSUME NEW h \in Handlers, Login(h) PROVE EntitledInv'
  <2>1. UNCHANGED <<case, entitlement>>
    BY <1>3 DEF Login, RequestMagicLink, StoreMagicLink, VerifyMagicLink, ConsumeMagicLink,
       OpenSession, AuthenticateSession, Logout
  <2>2. \E l, a : Continues(h, l, a)
    BY <1>3 DEF Login, RequestMagicLink, StoreMagicLink, VerifyMagicLink, ConsumeMagicLink,
       OpenSession, AuthenticateSession, Logout, Proceed
  <2> QED  BY <2>1, <2>2, NothingOpens
<1>4. ASSUME NEW h \in Handlers, KYB(h) PROVE EntitledInv'
  <2>1. CASE SubmitKYB(h)
    BY <2>1, NothingOpens DEF SubmitKYB, Proceed
  <2>2. CASE ApproveKYB(h)
    BY <2>2, NothingOpens DEF ApproveKYB
  <2> QED  BY <1>4, <2>1, <2>2, Screening, Resolving DEF KYB
<1>5. ASSUME NEW h \in Handlers, Access(h) PROVE EntitledInv'
  <2>1. CASE IssueAPIKey(h) \/ DeleteAccount(h)
    BY <2>1, NothingOpens DEF IssueAPIKey, DeleteAccount, Proceed
  <2>2. CASE \E k \in Keys : StoreAPIKey(h, k) \/ RevokeAPIKey(h, k)
    BY <2>2, NothingOpens DEF StoreAPIKey, RevokeAPIKey
  <2>3. CASE CheckCorridorJurisdiction(h)
    BY <2>3, NothingOpens, ApprovedCovers DEF CheckCorridorJurisdiction, Proceed, EntitledInv
  <2>4. CASE \E c \in Corridors : EnableCorridor(h, c)
    BY <2>4, NothingOpens DEF EnableCorridor, Proceed
  <2>5. CASE \E c \in Corridors : GrantCorridorEntitlement(h, c)
    BY <2>5, NothingOpens, ApprovedCovers DEF GrantCorridorEntitlement, EntitledInv
  <2> QED  BY <1>5, <2>1, <2>2, <2>3, <2>4, <2>5, OpeningCorridor, ClosingCorridor DEF Access
<1>6. ASSUME NEW h \in Handlers, Interrupted(h) PROVE EntitledInv'
  BY <1>6, NothingOpens DEF Interrupted
<1> QED  BY <1>1, <1>2, <1>3, <1>4, <1>5, <1>6 DEF Next

LEMMA EntitledInvariant == Spec => []EntitledInv
<1>1. Init => EntitledInv
  BY DEF Init, EntitledInv, CaseTyped, RequestTyped, Validated, OpenIsCovered,
     AboutToOpen, None
<1>2. EntitledInv /\ [Next]_vars => EntitledInv'
  BY EntitledInvStep
<1> QED  BY <1>1, <1>2, PTL DEF Spec

\* tenant.go:802, checkCorridorJurisdiction: a corridor is only open to a tenant
\* with an approved case on a form that declares its currency and fills in all
\* that the currency's jurisdiction requires.
THEOREM OpenCorridorsAreCovered == Spec => []EntitlementsCovered
<1>1. EntitledInv => EntitlementsCovered
  BY DEF EntitledInv, OpenIsCovered, Covers, EntitlementsCovered
<1> QED  BY <1>1, EntitledInvariant, PTL

\* tenant.go:844, EnableCorridorSelfService: no step but the end of an admin's
\* grant lifts an admin's block.
LEMMA BlockLifted ==
  ASSUME EntitledInv, [Next]_vars, NEW c \in Corridors,
         entitlement[c] = "blocked", entitlement'[c] # "blocked"
  PROVE  \E h \in Handlers : At(h, "grant") /\ pc'[h] = "idle"
<1>. USE DEF EntitledInv, RequestTyped
<1>1. PICK h \in Handlers :
        \/ EnableCorridorSelfService(h) \/ SetCorridorEntitlement(h)
        \/ \E d \in Corridors : DisableCorridorSelfService(h, d)
  <2>1. ASSUME NEW h \in Handlers, Login(h) \/ KYB(h) PROVE entitlement' = entitlement
    BY <2>1 DEF Login, RequestMagicLink, StoreMagicLink, VerifyMagicLink, ConsumeMagicLink,
       OpenSession, AuthenticateSession, Logout, KYB, SubmitKYB, ScreenTenant, ApproveKYB,
       ResolveHold
  <2>2. ASSUME NEW h \in Handlers, Access(h)
        PROVE  \/ entitlement' = entitlement
               \/ EnableCorridorSelfService(h) \/ SetCorridorEntitlement(h)
               \/ \E d \in Corridors : DisableCorridorSelfService(h, d)
    BY <2>2 DEF Access, IssueAPIKey, DeleteAccount, StoreAPIKey, RevokeAPIKey,
       CheckCorridorJurisdiction, EnableCorridor, GrantCorridorEntitlement
  <2>3. ASSUME NEW d \in Corridors, RevokeCorridorEntitlement(d) PROVE FALSE
    BY <2>3 DEF RevokeCorridorEntitlement
  <2> QED  BY <2>1, <2>2, <2>3 DEF Next, vars, Register, RestoreAccount, MagicLinkExpires,
              SessionExpires, Interrupted
<1>2. ~(\E d \in Corridors : DisableCorridorSelfService(h, d))
  BY DEF DisableCorridorSelfService, Disabled
<1>3. ~EnableCorridorSelfService(h)
  BY DEF EnableCorridorSelfService, Enabled
<1> QED  BY <1>1, <1>2, <1>3 DEF SetCorridorEntitlement, Reply, Goto

THEOREM OnlyAGrantUnblocks == Spec => AdminBlockHolds
<1>1. EntitledInv /\ [Next]_vars =>
        [\A c \in Corridors :
           entitlement[c] = "blocked" /\ entitlement'[c] # "blocked"
             => \E h \in Handlers : At(h, "grant") /\ pc'[h] = "idle"]_vars
  BY BlockLifted
<1> QED  BY <1>1, EntitledInvariant, PTL DEF Spec, AdminBlockHolds
-----------------------------------------------------------------------------
(* Activations.  An approval under way is a request that has had a case     *)
(* approved and has yet to activate the tenant: with those the count is     *)
(* inductive, since every approval is of a case that was not yet approved.  *)

Approved == {i \in DOMAIN case : case[i].status = "approved"}
Approving == {h \in Handlers : pc[h] = "approve"}

EarnedInv ==
  /\ activations \in Nat
  /\ IsFiniteSet(Approved) /\ IsFiniteSet(Approving)
  /\ activations + Cardinality(Approving) <= Cardinality(Approved)

\* No case loses its approval and no request starts to activate the tenant.
LEMMA NoneApproved ==
  ASSUME EarnedInv, UNCHANGED activations, IsFiniteSet(Approved'),
         Approved \subseteq Approved', Approving' \subseteq Approving
  PROVE  EarnedInv'
<1>1. IsFiniteSet(Approving') /\ Cardinality(Approving') <= Cardinality(Approving)
  BY FS_Subset DEF EarnedInv
<1>2. Cardinality(Approved) <= Cardinality(Approved')
  BY FS_Subset
<1>3. /\ Cardinality(Approving) \in Nat /\ Cardinality(Approving') \in Nat
      /\ Cardinality(Approved) \in Nat /\ Cardinality(Approved') \in Nat
  BY <1>1, FS_CardinalityType DEF EarnedInv
<1> QED  BY <1>1, <1>2, <1>3 DEF EarnedInv

\* One case more is approved, and one request at most goes to activate.
LEMMA OneApproved ==
  ASSUME EarnedInv, UNCHANGED activations, IsFiniteSet(Approved'),
         Approved \subseteq Approved',
         NEW i, i \in Approved' \ Approved,
         NEW h, Approving' \subseteq Approving \cup {h}
  PROVE  EarnedInv'
<1>0. IsFiniteSet(Approving) /\ Cardinality(Approving) \in Nat
  BY FS_CardinalityType DEF EarnedInv
<1>1. /\ IsFiniteSet(Approving \cup {h})
      /\ Cardinality(Approving \cup {h}) <= Cardinality(Approving) + 1
  <2>1. /\ IsFiniteSet(Approving \cup {h})
        /\ Cardinality(Approving \cup {h}) =
             IF h \in Approving THEN Cardinality(Approving) ELSE Cardinality(Approving) + 1
    BY <1>0, FS_AddElement
  <2> QED  BY <1>0, <2>1
<1>2. IsFiniteSet(Approving') /\ Cardinality(Approving') <= Cardinality(Approving \cup {h})
  BY <1>1, FS_Subset
<1>3. /\ IsFiniteSet(Approved \cup {i})
      /\ Cardinality(Approved \cup {i}) = Cardinality(Approved) + 1
  BY FS_AddElement DEF EarnedInv
<1>4. Cardinality(Approved \cup {i}) <= Cardinality(Approved')
  BY FS_Subset
<1>5. /\ Cardinality(Approving) \in Nat /\ Cardinality(Approving') \in Nat
      /\ Cardinality(Approved) \in Nat /\ Cardinality(Approved') \in Nat
      /\ Cardinality(Approving \cup {h}) \in Nat
  BY <1>1, <1>2, FS_CardinalityType DEF EarnedInv
<1> QED  BY <1>1, <1>2, <1>3, <1>4, <1>5 DEF EarnedInv

\* Where a step takes the requests: none to the activation, or only h.
LEMMA NobodyApproving ==
  ASSUME RequestTyped,
         UNCHANGED requests \/ \E h \in Handlers : \E l, a : Goto(h, l, a) /\ l # "approve"
  PROVE  Approving' \subseteq Approving
BY DEF RequestTyped, Approving, Goto, requests

LEMMA ScreeningEarns ==
  ASSUME EarnedInv, EntitledInv, NEW h \in Handlers, ScreenTenant(h)
  PROVE  EarnedInv'
<1>1. activations' = activations
  BY DEF ScreenTenant, observed
<1>2. CASE ~ValidateDeclaredCurrencies(arg[h])
  <2>1. case' = case /\ Goto(h, "idle", None)
    BY <1>2 DEF ScreenTenant, Reply
  <2> QED  BY <1>1, <2>1, NobodyApproving, NoneApproved DEF EntitledInv, Approved, EarnedInv
<1>3. CASE ValidateDeclaredCurrencies(arg[h])
  <2> DEFINE row == [status |-> Screen(kybProvider), form |-> arg[h]]
             n == Len(case) + 1
             Row == [status : {"hold", "approved", "rejected"}, form : Declarations]
  <2>1. case' = Append(case, row) /\ case \in Seq(Row) /\ row \in Row
    BY <1>3 DEF ScreenTenant, At, EntitledInv, RequestTyped, Screen, CaseTyped
  <2>2. row.status = Screen(kybProvider)
    OBVIOUS
  <2> HIDE DEF row, Row
  <2>3. /\ DOMAIN case = 1..Len(case) /\ Len(case) \in Nat /\ DOMAIN case' = 1..n
        /\ \A i \in DOMAIN case : case'[i] = case[i]
        /\ case'[n] = row
    BY <2>1
  <2>4. Approved \subseteq Approved' /\ n \notin Approved
    BY <2>3 DEF Approved
  <2>5. IsFiniteSet(Approved')
    <3>1. IsFiniteSet(1..n)
      BY <2>3, FS_Interval
    <3>2. Approved' \subseteq 1..n
      BY <2>3 DEF Approved
    <3> QED  BY <3>1, <3>2, FS_Subset
  <2>6. CASE Screen(kybProvider) = "approved"
    <3>1. n \in Approved'
      BY <2>2, <2>3, <2>6 DEF Approved
    <3>2. Approving' \subseteq Approving \cup {h}
      BY <1>3, <2>6 DEF ScreenTenant, Proceed, Goto, Approving, EntitledInv, RequestTyped
    <3> QED  BY <1>1, <2>4, <2>5, <3>1, <3>2, OneApproved
  <2>7. CASE Screen(kybProvider) # "approved"
    <3>1. Goto(h, "idle", None)
      BY <1>3, <2>7 DEF ScreenTenant, Proceed, Reply
    <3> QED  BY <1>1, <2>4, <2>5, <3>1, NobodyApproving, NoneApproved DEF EntitledInv
  <2> QED  BY <2>6, <2>7
<1> QED  BY <1>2, <1>3

LEMMA ResolvingEarns ==
  ASSUME EarnedInv, EntitledInv, NEW h \in Handlers, NEW i \in DOMAIN case,
         NEW verdict \in {"approved", "rejected"}, ResolveHold(h, i, verdict)
  PROVE  EarnedInv'
<1>1. /\ activations' = activations
      /\ case[i].status = "hold" /\ case' = [case EXCEPT ![i].status = verdict]
  BY DEF ResolveHold, Resolvable, Holds, observed
<1> DEFINE Row == [status : {"hold", "approved", "rejected"}, form : Declarations]
<1>2. case[i] \in Row
  <2>1. case \in Seq(Row)
    BY DEF EntitledInv, CaseTyped
  <2> HIDE DEF Row
  <2> QED  BY <2>1
<1>3. /\ DOMAIN case' = DOMAIN case /\ case'[i].status = verdict
      /\ \A j \in DOMAIN case : j # i => case'[j] = case[j]
  BY <1>1, <1>2
<1>4. Approved \subseteq Approved' /\ i \notin Approved
  BY <1>1, <1>3 DEF Approved
<1>5. IsFiniteSet(Approved')
  <2>1. IsFiniteSet(Approved \cup {i})
    BY FS_AddElement DEF EarnedInv
  <2>2. Approved' \subseteq Approved \cup {i}
    BY <1>3 DEF Approved
  <2> QED  BY <2>1, <2>2, FS_Subset
<1>6. CASE verdict = "approved"
  <2>1. i \in Approved'
    BY <1>3, <1>6 DEF Approved
  <2>2. Approving' \subseteq Approving \cup {h}
    BY <1>6 DEF ResolveHold, Proceed, Goto, Approving, EntitledInv, RequestTyped
  <2> QED  BY <1>1, <1>4, <1>5, <2>1, <2>2, OneApproved
<1>7. CASE verdict # "approved"
  <2>1. Goto(h, "idle", None)
    BY <1>7 DEF ResolveHold, Proceed, Reply
  <2> QED  BY <1>1, <1>4, <1>5, <2>1, NobodyApproving, NoneApproved DEF EntitledInv
<1> QED  BY <1>6, <1>7

\* The activation uses up the approval that sent the request here.
LEMMA Activating ==
  ASSUME EarnedInv, EntitledInv, NEW h \in Handlers, ApproveKYB(h)
  PROVE  EarnedInv'
<1>1. h \in Approving /\ Approving' = Approving \ {h}
  BY DEF ApproveKYB, At, Reply, Goto, Approving, EntitledInv, RequestTyped
<1>2. IsFiniteSet(Approving') /\ Cardinality(Approving') = Cardinality(Approving) - 1
  BY <1>1, FS_RemoveElement DEF EarnedInv
<1>3. Approved' = Approved
  BY DEF ApproveKYB, Approved
<1>4. activations' \in {activations, activations + 1}
  BY DEF ApproveKYB
<1>5. Cardinality(Approving) \in Nat /\ Cardinality(Approved) \in Nat
  BY FS_CardinalityType DEF EarnedInv
<1> QED  BY <1>2, <1>3, <1>4, <1>5 DEF EarnedInv

\* A step that has nothing to do with KYB.
LEMMA NothingEarned ==
  ASSUME EarnedInv, EntitledInv, UNCHANGED <<case, activations>>,
         UNCHANGED requests \/ \E h \in Handlers : \E l, a : Goto(h, l, a) /\ l # "approve"
  PROVE  EarnedInv'
BY NobodyApproving, NoneApproved DEF EntitledInv, EarnedInv, Approved

LEMMA EarnedStep ==
  ASSUME EarnedInv, EntitledInv, [Next]_vars
  PROVE  EarnedInv'
<1>. USE DEF requests, observed, Reply
<1>1. CASE \/ Register \/ RestoreAccount
           \/ \E l \in Links : MagicLinkExpires(l)
           \/ \E t \in Sessions : SessionExpires(t)
           \/ \E c \in Corridors : RevokeCorridorEntitlement(c)
           \/ UNCHANGED vars
  BY <1>1, NothingEarned DEF Register, RestoreAccount, MagicLinkExpires, SessionExpires,
     RevokeCorridorEntitlement, vars
<1>2. ASSUME NEW h \in Handlers, Login(h) PROVE EarnedInv'
  <2>1. UNCHANGED <<case, activations>>
    BY <1>2 DEF Login, RequestMagicLink, StoreMagicLink, VerifyMagicLink, ConsumeMagicLink,
       OpenSession, AuthenticateSession, Logout
  <2>2. \E l, a : Goto(h, l, a) /\ l # "approve"
    BY <1>2 DEF Login, RequestMagicLink, StoreMagicLink, VerifyMagicLink, ConsumeMagicLink,
       OpenSession, AuthenticateSession, Logout, Proceed
  <2> QED  BY <2>1, <2>2, NothingEarned
<1>3. ASSUME NEW h \in Handlers, KYB(h) PROVE EarnedInv'
  <2>1. CASE SubmitKYB(h)
    BY <2>1, NothingEarned DEF SubmitKYB, Proceed
  <2> QED  BY <1>3, <2>1, ScreeningEarns, ResolvingEarns, Activating DEF KYB
<1>4. ASSUME NEW h \in Handlers, Access(h) PROVE EarnedInv'
  <2>1. UNCHANGED <<case, activations>>
    BY <1>4 DEF Access, IssueAPIKey, DeleteAccount, StoreAPIKey, RevokeAPIKey,
       CheckCorridorJurisdiction, EnableCorridorSelfService, SetCorridorEntitlement,
       EnableCorridor, DisableCorridorSelfService, GrantCorridorEntitlement
  <2>2. \E l, a : Goto(h, l, a) /\ l # "approve"
    BY <1>4 DEF Access, IssueAPIKey, DeleteAccount, StoreAPIKey, RevokeAPIKey,
       CheckCorridorJurisdiction, EnableCorridorSelfService, SetCorridorEntitlement,
       EnableCorridor, DisableCorridorSelfService, GrantCorridorEntitlement, Proceed
  <2> QED  BY <2>1, <2>2, NothingEarned
<1>5. ASSUME NEW h \in Handlers, Interrupted(h) PROVE EarnedInv'
  BY <1>5, NothingEarned DEF Interrupted
<1> QED  BY <1>1, <1>2, <1>3, <1>4, <1>5 DEF Next

\* Whoever is about to activate the tenant comes from an approval that counts.
ReviewedInv ==
  /\ status = "active" => reviewed
  /\ Approving # {} => reviewed

\* The tenant is not activated, and no request starts to activate it.
LEMMA NothingReviewed ==
  ASSUME ReviewedInv, RequestTyped, reviewed' = reviewed,
         status' = status \/ status' # "active",
         UNCHANGED requests \/ \E h \in Handlers : \E l, a : Goto(h, l, a) /\ l # "approve"
  PROVE  ReviewedInv'
<1>1. Approving' \subseteq Approving
  BY NobodyApproving
<1> QED  BY <1>1 DEF ReviewedInv

\* A verdict: only an approval sends the request on to the activation.
LEMMA VerdictReviewed ==
  ASSUME ReviewedInv, RequestTyped, UNCHANGED status,
         NEW approved \in BOOLEAN, reviewed' = (reviewed \/ approved),
         NEW h \in Handlers, Proceed(h, approved, "approve", None)
  PROVE  ReviewedInv'
<1>1. CASE approved
  BY <1>1 DEF ReviewedInv
<1>2. CASE ~approved
  <2>1. Goto(h, "idle", None) /\ Approving' \subseteq Approving
    BY <1>2, NobodyApproving DEF Proceed, Reply
  <2> QED  BY <1>2, <2>1 DEF ReviewedInv
<1> QED  BY <1>1, <1>2

LEMMA ReviewedStep ==
  ASSUME ReviewedInv, EntitledInv, [Next]_vars
  PROVE  ReviewedInv'
<1>. USE DEF requests, observed, Reply, EntitledInv
<1>1. CASE \/ Register
           \/ \E l \in Links : MagicLinkExpires(l)
           \/ \E t \in Sessions : SessionExpires(t)
           \/ \E c \in Corridors : RevokeCorridorEntitlement(c)
           \/ UNCHANGED vars
  BY <1>1, NothingReviewed DEF Register, MagicLinkExpires, SessionExpires,
     RevokeCorridorEntitlement, vars
<1>2. CASE RestoreAccount
  <2>1. UNCHANGED pc /\ status' # "active" /\ reviewed' = ApprovalUnderWay
    BY <1>2 DEF RestoreAccount
  <2>2. Approving' = Approving /\ (Approving # {} => ApprovalUnderWay)
    BY <2>1 DEF Approving, ApprovalUnderWay, At
  <2> QED  BY <2>1, <2>2 DEF ReviewedInv
<1>3. ASSUME NEW h \in Handlers, Login(h) PROVE ReviewedInv'
  <2>1. UNCHANGED <<status, reviewed>>
    BY <1>3 DEF Login, RequestMagicLink, StoreMagicLink, VerifyMagicLink, ConsumeMagicLink,
       OpenSession, AuthenticateSession, Logout
  <2>2. \E l, a : Goto(h, l, a) /\ l # "approve"
    BY <1>3 DEF Login, RequestMagicLink, StoreMagicLink, VerifyMagicLink, ConsumeMagicLink,
       OpenSession, AuthenticateSession, Logout, Proceed
  <2> QED  BY <2>1, <2>2, NothingReviewed
<1>4. ASSUME NEW h \in Handlers, KYB(h) PROVE ReviewedInv'
  <2>1. CASE SubmitKYB(h)
    BY <2>1, NothingReviewed DEF SubmitKYB, Proceed
  <2>2. CASE ScreenTenant(h)
    <3>1. CASE ValidateDeclaredCurrencies(arg[h])
      BY <2>2, <3>1, VerdictReviewed DEF ScreenTenant
    <3>2. CASE ~ValidateDeclaredCurrencies(arg[h])
      BY <2>2, <3>2, NothingReviewed DEF ScreenTenant
    <3> QED  BY <3>1, <3>2
  <2>3. CASE ApproveKYB(h)
    <3>1. reviewed /\ reviewed' = reviewed
      BY <2>3 DEF ApproveKYB, At, Approving, ReviewedInv
    <3> QED  BY <3>1 DEF ReviewedInv
  <2>4. ASSUME NEW i \in DOMAIN case, NEW verdict \in {"approved", "rejected"},
               ResolveHold(h, i, verdict)
        PROVE  ReviewedInv'
    BY <2>4, VerdictReviewed DEF ResolveHold
  <2> QED  BY <1>4, <2>1, <2>2, <2>3, <2>4 DEF KYB
<1>5. ASSUME NEW h \in Handlers, Access(h) PROVE ReviewedInv'
  <2>1. reviewed' = reviewed /\ (status' = status \/ status' # "active")
    BY <1>5 DEF Access, IssueAPIKey, DeleteAccount, StoreAPIKey, RevokeAPIKey,
       CheckCorridorJurisdiction, EnableCorridorSelfService, SetCorridorEntitlement,
       EnableCorridor, DisableCorridorSelfService, GrantCorridorEntitlement
  <2>2. \E l, a : Goto(h, l, a) /\ l # "approve"
    BY <1>5 DEF Access, IssueAPIKey, DeleteAccount, StoreAPIKey, RevokeAPIKey,
       CheckCorridorJurisdiction, EnableCorridorSelfService, SetCorridorEntitlement,
       EnableCorridor, DisableCorridorSelfService, GrantCorridorEntitlement, Proceed
  <2> QED  BY <2>1, <2>2, NothingReviewed
<1>6. ASSUME NEW h \in Handlers, Interrupted(h) PROVE ReviewedInv'
  BY <1>6, NothingReviewed DEF Interrupted
<1> QED  BY <1>1, <1>2, <1>3, <1>4, <1>5, <1>6 DEF Next

\* tenant.go:563, ApproveKYB, and tenant.go:653, RestoreAccount: the tenant has
\* never become active more often than cases of it were approved, whoever
\* approves them; and its old cases do not keep or make it active once it was
\* deleted and restored: that takes an approval given since, or one whose
\* request was still on its way to the tenant's row at the restoration.
THEOREM ApprovalsPayForActivations == Spec => []ActivationsAreApproved
<1>1. Init => EarnedInv /\ ReviewedInv
  <2>1. Init => Approved = {} /\ Approving = {} /\ activations = 0 /\ status # "active"
    BY DEF Init, Approved, Approving, None
  <2> QED  BY <2>1, FS_EmptySet DEF EarnedInv, ReviewedInv
<1>2. EarnedInv /\ EntitledInv /\ [Next]_vars => EarnedInv'
  BY EarnedStep
<1>3. ReviewedInv /\ EntitledInv /\ [Next]_vars => ReviewedInv'
  BY ReviewedStep
<1>4. EarnedInv /\ ReviewedInv => ActivationsAreApproved
  BY FS_CardinalityType DEF EarnedInv, ReviewedInv, Approved, ActivationsAreApproved
<1> QED  BY <1>1, <1>2, <1>3, <1>4, EntitledInvariant, PTL DEF Spec
=============================================================================
