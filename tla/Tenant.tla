------------------------------- MODULE Tenant -------------------------------
(***************************************************************************)
(* The life of one tenant (internal/tenant, the KYB half of compliance and *)
(* the portal and admin handlers of cmd/server): registration, magic links *)
(* and portal sessions, KYB cases and their review, API keys, corridor     *)
(* entitlements, deletion and restoration of the account.                  *)
(*                                                                         *)
(* One action is one SQL statement or transaction.  Requests run           *)
(* concurrently: pc[h] is the next statement of the request that h serves, *)
(* arg[h] the row it works on.  A request that reads a status and then     *)
(* writes does both in steps of their own.                                 *)
(***************************************************************************)
EXTENDS Integers, Sequences, FiniteSets

CONSTANTS
  Handlers,      \* requests served at a time
  Links,         \* magic links that may be asked for
  Keys,          \* API keys that may be issued
  Corridors,
  FiatOf,        \* FiatCurrencyForCorridor of each corridor
  Declarations,  \* forms a KYB submission may declare its currencies on
  Declares,      \*   and the currencies of each,
  Provides,      \*   and the fields that it fills in
  Required,      \* jurisdiction_kyb_requirements, by currency
  Configs,       \* settings the server may be started with: sandbox mode, Youverify
  MaxCases,      \* bound: KYB submissions
  MaxDeletions,  \* bound: deletions of the account
  MaxFaults      \* bound: requests cut short between two statements

MaxKYBSubmissionsPerDay == 3

ASSUME TenantAssumption ==
  /\ DOMAIN Declares = Declarations /\ DOMAIN Provides = Declarations
  /\ Configs \subseteq BOOLEAN \X BOOLEAN
  /\ Keys \cap (Links \X Handlers) = {}
  /\ MaxCases \in Nat /\ MaxDeletions \in Nat /\ MaxFaults \in Nat

VARIABLES
  kybProvider, \* portalHandlers.kybProvider, chosen when the server starts
  status,      \* tenants.status, "none" before registration
  link,        \* tenant_magic_links
  sessions,    \* tenant_sessions: each the link and the request that opened it
  key,         \* tenant_api_keys
  case,        \* compliance_cases of the tenant, oldest first
  entitlement, \* tenant_corridor_entitlements
  pc, arg,     \* each request's next statement and the row it is about
  closed,      \* observation: the credentials a deletion has found
  opened,      \* observation: every session ever opened
  activations, \* observation: how often the tenant became active
  reviewed,    \* observation: a case was approved since the account was opened or
               \* restored, or its approval was still under way at the restoration
  deletions, faults  \* bounded by MaxDeletions and MaxFaults

credentials == <<link, sessions, key>>
observed == <<closed, opened, activations, reviewed, deletions>>
requests == <<pc, arg>>
vars == <<kybProvider, status, credentials, case, entitlement, requests, observed, faults>>

None == "none"
Sessions == Links \X Handlers
Statuses == {None, "pending_kyb", "active", "deleted"}

TypeOK ==
  /\ kybProvider \in {"", "sandbox", "youverify"}
  /\ status \in Statuses
  /\ link \in [Links -> {None, "sent", "expired", "used"}]
  /\ sessions \subseteq Sessions
  /\ key \in [Keys -> {None, "active", "revoked"}]
  /\ \A i \in DOMAIN case :
       case[i] \in [status : {"hold", "approved", "rejected"}, form : Declarations]
  /\ entitlement \in [Corridors -> {None, "on", "off", "blocked"}]
  /\ pc \in [Handlers -> {"idle", "link", "consume", "open", "portal", "screen", "approve",
                          "key", "eligible", "enable", "grant"}]
  /\ arg \in [Handlers -> Links \cup Corridors \cup Declarations \cup {None}]
  /\ closed \subseteq Keys \cup Sessions
  /\ opened \subseteq Sessions
  /\ activations \in Nat
  /\ reviewed \in BOOLEAN
  /\ deletions \in 0..MaxDeletions
  /\ faults \in 0..MaxFaults

\* Sandbox mode always wins; "" is the manual queue.
PortalKYBProvider(sandboxMode, youverifyEnabled) ==
  IF sandboxMode THEN "sandbox" ELSE IF youverifyEnabled THEN "youverify" ELSE ""

Init ==
  /\ kybProvider \in {PortalKYBProvider(config[1], config[2]) : config \in Configs}
  /\ status = None
  /\ link = [l \in Links |-> None]
  /\ sessions = {} /\ key = [k \in Keys |-> None]
  /\ case = <<>>
  /\ entitlement = [c \in Corridors |-> None]
  /\ pc = [h \in Handlers |-> "idle"] /\ arg = [h \in Handlers |-> None]
  /\ closed = {} /\ opened = {} /\ activations = 0 /\ reviewed = FALSE
  /\ deletions = 0 /\ faults = 0

At(h, l) == pc[h] = l
Goto(h, l, a) == pc' = [pc EXCEPT ![h] = l] /\ arg' = [arg EXCEPT ![h] = a]
Reply(h) == Goto(h, "idle", None)

\* A request's step either reaches the next statement or replies with an error.
Proceed(h, condition, l, a) == IF condition THEN Goto(h, l, a) ELSE Reply(h)

-----------------------------------------------------------------------------
(* Registration and portal login.                                           *)

Register ==
  /\ status = None
  /\ status' = "pending_kyb"
  /\ UNCHANGED <<credentials, case, entitlement, requests, observed, faults>>

\* RequestMagicLink reads the tenant and then inserts a link.  The e-mail may
\* fail: then nobody redeems the link.
RequestMagicLink(h, l) ==
  /\ At(h, "idle")
  /\ status \in {"pending_kyb", "active"}
  /\ link[l] = None
  /\ Goto(h, "link", l)
  /\ UNCHANGED <<status, credentials, case, entitlement, observed, faults>>

StoreMagicLink(h) ==
  /\ At(h, "link")
  /\ link' = IF link[arg[h]] = None THEN [link EXCEPT ![arg[h]] = "sent"] ELSE link
  /\ Reply(h)
  /\ UNCHANGED <<status, sessions, key, case, entitlement, observed, faults>>

MagicLinkExpires(l) ==
  /\ link[l] = "sent"
  /\ link' = [link EXCEPT ![l] = "expired"]
  /\ UNCHANGED <<status, sessions, key, case, entitlement, requests, observed, faults>>

VerifyMagicLink(h, l) ==
  /\ At(h, "idle")
  /\ link[l] = "sent"
  /\ status # "deleted"
  /\ Goto(h, "consume", l)
  /\ UNCHANGED <<status, credentials, case, entitlement, observed, faults>>

Consumable_Trusting(l) == TRUE
\* WHERE consumed_at IS NULL; that it has not expired was read before.
Consumable(l) == link[l] # "used"

ConsumeMagicLink(h) ==
  /\ At(h, "consume")
  /\ link' = IF Consumable(arg[h]) THEN [link EXCEPT ![arg[h]] = "used"] ELSE link
  /\ Proceed(h, Consumable(arg[h]), "open", arg[h])
  /\ UNCHANGED <<status, sessions, key, case, entitlement, observed, faults>>

OpenSession(h) ==
  /\ At(h, "open")
  /\ sessions' = sessions \cup {<<arg[h], h>>}
  /\ opened' = opened \cup {<<arg[h], h>>}
  /\ Reply(h)
  /\ UNCHANGED <<status, link, key, case, entitlement, closed, activations, reviewed,
                 deletions, faults>>

AcceptsSession(s) == s \in sessions /\ status # "deleted"

\* PortalMiddleware; the session may be gone when the handler gets to work.
AuthenticateSession(h) ==
  /\ At(h, "idle")
  /\ \E s \in Sessions : AcceptsSession(s) /\ Goto(h, "portal", s[1])
  /\ UNCHANGED <<status, credentials, case, entitlement, observed, faults>>

\* Logout takes away one session (the request's own), LogoutAll all of them.
Logout(h) ==
  /\ At(h, "portal")
  /\ sessions' \in {{}, {s \in sessions : s[1] # arg[h]}}
  /\ Reply(h)
  /\ UNCHANGED <<status, link, key, case, entitlement, observed, faults>>

SessionExpires(s) ==
  /\ s \in sessions
  /\ sessions' = sessions \ {s}
  /\ UNCHANGED <<status, link, key, case, entitlement, requests, observed, faults>>

-----------------------------------------------------------------------------
(* KYB: submission, screening, review, activation.                          *)

Holds == {i \in DOMAIN case : case[i].status = "hold"}

\* CheckKYBSubmissionAllowed; all cases of a behaviour are of one day.
SubmitKYB(h) ==
  /\ At(h, "portal")
  /\ \E form \in Declarations :
       Proceed(h, Holds = {} /\ Len(case) < MaxKYBSubmissionsPerDay, "screen", form)
  /\ UNCHANGED <<status, credentials, case, entitlement, observed, faults>>

\* A currency without a row requires nothing.
GetRequiredFields(currency) == IF currency \in DOMAIN Required THEN Required[currency] ELSE {}

ValidateDeclaredCurrencies(form) ==
  /\ Declares[form] # {}
  /\ UNION {GetRequiredFields(c) : c \in Declares[form]} \subseteq Provides[form]

\* Youverify's findings only inform an admin: passed, failed or unavailable, the
\* case is held, as it is without a provider or when one fails.
Screen(provider) == IF provider = "sandbox" THEN "approved" ELSE "hold"

\* A form that lacks a field its jurisdictions require inserts nothing.
ScreenTenant(h) ==
  LET decision == Screen(kybProvider)
  IN /\ At(h, "screen")
     /\ IF ValidateDeclaredCurrencies(arg[h])
        THEN /\ Len(case) < MaxCases
             /\ case' = Append(case, [status |-> decision, form |-> arg[h]])
             /\ reviewed' = (reviewed \/ decision = "approved")
             /\ Proceed(h, decision = "approved", "approve", None)
        ELSE UNCHANGED <<case, reviewed>> /\ Reply(h)
     /\ UNCHANGED <<status, credentials, entitlement, closed, opened, activations, deletions, faults>>

\* WHERE status = 'hold': two admins may be looking at the same case.
Resolvable(i) == i \in Holds

ResolveHold(h, i, verdict) ==
  /\ At(h, "idle")
  /\ Resolvable(i)
  /\ case' = [case EXCEPT ![i].status = verdict]
  /\ reviewed' = (reviewed \/ verdict = "approved")
  /\ Proceed(h, verdict = "approved", "approve", None)
  /\ UNCHANGED <<status, credentials, entitlement, closed, opened, activations, deletions, faults>>

ApproveKYB(h) ==
  /\ At(h, "approve")
  /\ IF status = "pending_kyb"
     THEN status' = "active" /\ activations' = activations + 1
     ELSE UNCHANGED <<status, activations>>
  /\ Reply(h)
  /\ UNCHANGED <<credentials, case, entitlement, closed, opened, reviewed, deletions, faults>>

-----------------------------------------------------------------------------
(* API keys, and the end of the account.                                    *)

\* GetTenant: the portal's or an admin's request.
IssueAPIKey(h) ==
  /\ At(h, "portal") \/ At(h, "idle")
  /\ status # None
  /\ Proceed(h, status = "active", "key", None)
  /\ UNCHANGED <<status, credentials, case, entitlement, observed, faults>>

StoreAPIKey(h, k) ==
  /\ At(h, "key")
  /\ key[k] = None
  /\ key' = [key EXCEPT ![k] = "active"]
  /\ Reply(h)
  /\ UNCHANGED <<status, link, sessions, case, entitlement, observed, faults>>

RevokeAPIKey(h, k) ==
  /\ At(h, "portal")
  /\ key[k] = "active"
  /\ key' = [key EXCEPT ![k] = "revoked"]
  /\ Reply(h)
  /\ UNCHANGED <<status, link, sessions, case, entitlement, observed, faults>>

Revoked_OnlyByStatus(keys) == keys
Revoked(keys) == [k \in Keys |-> IF keys[k] = "active" THEN "revoked" ELSE keys[k]]

\* One transaction: status, sessions and keys.
DeleteAccount(h) ==
  /\ At(h, "portal")
  /\ deletions < MaxDeletions
  /\ IF status # "deleted"
     THEN /\ status' = "deleted"
          /\ sessions' = {}
          /\ key' = Revoked(key)
          /\ closed' = closed \cup sessions \cup {k \in Keys : key[k] # None}
          /\ deletions' = deletions + 1
     ELSE UNCHANGED <<status, sessions, key, closed, deletions>>
  /\ Reply(h)
  /\ UNCHANGED <<link, case, entitlement, opened, activations, reviewed, faults>>

\* An approval whose request has not reached the tenant's row is still under way.
ApprovalUnderWay == \E h \in Handlers : At(h, "approve")

RestoreAccount_AsItWas ==
  /\ status = "deleted"
  /\ status' = IF activations > 0 THEN "active" ELSE "pending_kyb"
  /\ reviewed' = ApprovalUnderWay
  /\ UNCHANGED <<credentials, case, entitlement, requests, closed, opened, activations,
                 deletions, faults>>

\* Back to pending_kyb, whatever the status was before the deletion.
RestoreAccount ==
  /\ status = "deleted"
  /\ status' = "pending_kyb"
  /\ reviewed' = ApprovalUnderWay
  /\ UNCHANGED <<credentials, case, entitlement, requests, closed, opened, activations,
                 deletions, faults>>

\* LookupHMACSecret, for the API's middleware.
AcceptsKey(k) == key[k] = "active" /\ status = "active"

-----------------------------------------------------------------------------
(* Corridor entitlements: the tenant's switch and the admins' block.        *)

IsJurisdictionApproved_Any(currency) == \E i \in DOMAIN case : case[i].status = "approved"
IsJurisdictionApproved(currency) ==
  \E i \in DOMAIN case : case[i].status = "approved" /\ currency \in Declares[case[i].form]

\* EnableCorridorSelfService: GetTenant, checkCorridorJurisdiction, the upsert.
EnableCorridor(h, c) ==
  /\ At(h, "portal")
  /\ Proceed(h, status = "active", "eligible", c)
  /\ UNCHANGED <<status, credentials, case, entitlement, observed, faults>>

CheckCorridorJurisdiction(h) ==
  /\ At(h, "eligible")
  /\ Proceed(h, IsJurisdictionApproved(FiatOf[arg[h]]), "enable", arg[h])
  /\ UNCHANGED <<status, credentials, case, entitlement, observed, faults>>

\* ON CONFLICT ... WHERE NOT disabled_by_admin: check and write are one statement.
Enabled(e) == IF e = "blocked" THEN e ELSE "on"

Disabled_Forgetting(e) == IF e = None THEN e ELSE "off"
\* SET active = false leaves disabled_by_admin alone, and a missing row missing.
Disabled(e) == IF e = "on" THEN "off" ELSE e

EnableCorridorSelfService(h) ==
  /\ At(h, "enable")
  /\ entitlement' = [entitlement EXCEPT ![arg[h]] = Enabled(@)]
  /\ Reply(h)
  /\ UNCHANGED <<status, credentials, case, observed, faults>>

DisableCorridorSelfService(h, c) ==
  /\ At(h, "portal")
  /\ entitlement' = [entitlement EXCEPT ![c] = Disabled(@)]
  /\ Reply(h)
  /\ UNCHANGED <<status, credentials, case, observed, faults>>

\* An admin's grant passes the same jurisdiction check; a revocation none.
GrantCorridorEntitlement(h, c) ==
  /\ At(h, "idle")
  /\ IsJurisdictionApproved(FiatOf[c])
  /\ Goto(h, "grant", c)
  /\ UNCHANGED <<status, credentials, case, entitlement, observed, faults>>

SetCorridorEntitlement(h) ==
  /\ At(h, "grant")
  /\ entitlement' = [entitlement EXCEPT ![arg[h]] = "on"]
  /\ Reply(h)
  /\ UNCHANGED <<status, credentials, case, observed, faults>>

RevokeCorridorEntitlement(c) ==
  /\ status # None
  /\ entitlement' = [entitlement EXCEPT ![c] = "blocked"]
  /\ UNCHANGED <<status, credentials, case, requests, observed, faults>>

-----------------------------------------------------------------------------
\* The process dies, or a statement fails: what was committed stays.
Interrupted(h) ==
  /\ ~At(h, "idle")
  /\ faults < MaxFaults
  /\ faults' = faults + 1
  /\ Reply(h)
  /\ UNCHANGED <<status, credentials, case, entitlement, observed>>

Login(h) ==
  \/ \E l \in Links : RequestMagicLink(h, l) \/ VerifyMagicLink(h, l)
  \/ StoreMagicLink(h) \/ ConsumeMagicLink(h) \/ OpenSession(h)
  \/ AuthenticateSession(h) \/ Logout(h)

KYB(h) ==
  \/ SubmitKYB(h) \/ ScreenTenant(h) \/ ApproveKYB(h)
  \/ \E i \in DOMAIN case, verdict \in {"approved", "rejected"} : ResolveHold(h, i, verdict)

Access(h) ==
  \/ IssueAPIKey(h) \/ DeleteAccount(h)
  \/ \E k \in Keys : StoreAPIKey(h, k) \/ RevokeAPIKey(h, k)
  \/ CheckCorridorJurisdiction(h) \/ EnableCorridorSelfService(h) \/ SetCorridorEntitlement(h)
  \/ \E c \in Corridors : \/ EnableCorridor(h, c) \/ DisableCorridorSelfService(h, c)
                          \/ GrantCorridorEntitlement(h, c)

Next ==
  /\ \/ Register \/ RestoreAccount
     \/ \E l \in Links : MagicLinkExpires(l)
     \/ \E s \in Sessions : SessionExpires(s)
     \/ \E c \in Corridors : RevokeCorridorEntitlement(c)
     \/ \E h \in Handlers : Login(h) \/ KYB(h) \/ Access(h) \/ Interrupted(h)
  /\ UNCHANGED kybProvider

Spec == Init /\ [][Next]_vars

-----------------------------------------------------------------------------
(* Properties.                                                              *)

\* tenant.go, VerifyMagicLink: a link opens at most one session, whatever
\* requests redeem it at once and wherever they are cut short.
LinkOpensOneSession == \A s, t \in opened : s[1] = t[1] => s = t

\* tenant.go, DeleteAccount and RestoreAccount: a key or a session the account
\* had when it was deleted is never accepted again, not even once the account
\* is restored and has cleared KYB anew.
DeletionRevokesForGood ==
  \A d \in closed : ~(d \in Keys /\ AcceptsKey(d)) /\ ~AcceptsSession(d)

\* ApproveKYB and RestoreAccount: each activation is owed to an approved case of
\* its own, however many admins decide at once; and a tenant is only active on a
\* verdict given since its account was last restored, not on its old cases: the
\* one exception is an approval still on its way to the tenant's row when the
\* account is restored.
ActivationsAreApproved ==
  /\ activations <= Cardinality({i \in DOMAIN case : case[i].status = "approved"})
  /\ status = "active" => reviewed

\* GrantCorridorEntitlement and EnableCorridorSelfService: a corridor is only
\* ever open to a tenant verified for its currency, not for some currency, on a
\* form with everything that the currency's jurisdiction requires.
EntitlementsCovered ==
  \A c \in Corridors : entitlement[c] = "on" =>
    \E i \in DOMAIN case :
      /\ case[i].status = "approved"
      /\ FiatOf[c] \in Declares[case[i].form]
      /\ GetRequiredFields(FiatOf[c]) \subseteq Provides[case[i].form]

\* SetCorridorEntitlement: what an admin has switched off only an admin's grant
\* switches on, whatever switching the tenant has under way.
AdminBlockHolds ==
  [][\A c \in Corridors :
       entitlement[c] = "blocked" /\ entitlement'[c] # "blocked"
         => \E h \in Handlers : At(h, "grant") /\ pc'[h] = "idle"]_vars

=============================================================================
