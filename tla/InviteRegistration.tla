------------------------- MODULE InviteRegistration -------------------------
(***************************************************************************)
(* Registration of Jellyfin accounts through invite links: the handler     *)
(* HandleInviteSubmit run by concurrent requests, against the database,    *)
(* the Jellyfin servers and the Discord webhook, together with the admin's *)
(* handlers that create and revoke invites, sign in, and set the Jellyfin  *)
(* URL.                                                                    *)
(*                                                                         *)
(* A worker is a goroutine net/http runs a request in; it does one call    *)
(* to the database or to a server per step, and pc[w] names the next one.  *)
(* Every call but the last (Discord) is bound to the request's context.  A *)
(* caller that gives up on a POST takes nothing back: Jellyfin may have    *)
(* received it and carry it out later.                                     *)
(*                                                                         *)
(* A Jellyfin server stands for its URL, and an admin token for the server *)
(* that issued it.                                                         *)
(***************************************************************************)
EXTENDS InviteRules, FiniteSets

CONSTANTS
  Workers,         \* slots for concurrent requests
  Invites,         \* ids of invites; the URL token finds the id
  Users,           \* user names visitors choose
  Servers,         \* Jellyfin servers
  None,            \* absent: a nil, a missing row, an empty local
  FormMaxUses,     \* what admins type in max_uses
  FormExpiries,    \* what admins type in expires_at
  FormLibraries,   \* sets of libraries admins tick
  DefaultPolicy,   \* the policy of a new Jellyfin account
  WebhookSet,      \* a Discord webhook is configured
  MaxTime,         \* bound on the clock
  MaxFaults        \* bound on failing calls, lost clients and restarts

ASSUME RegistrationAssumption ==
  /\ IsFiniteSet(Workers) /\ Workers # {}
  /\ FormMaxUses \subseteq Int \cup {Unlimited}
  /\ FormExpiries \subseteq Int \cup {Never}
  /\ FormLibraries \subseteq SUBSET Libraries
  /\ DefaultPolicy \in Policy
  /\ WebhookSet \in BOOLEAN
  /\ MaxTime \in Nat
  /\ MaxFaults \in Nat
  /\ None \notin Invite \cup Invites \cup Users \cup Servers

VARIABLES
  now,             \* the wall clock
  faults,          \* failures so far
  invites,         \* table invites
  registrations,   \* table registrations
  jellyfinURL,     \* setting jellyfin_url
  adminToken,      \* setting jellyfin_admin_token
  logins,          \* tokens of HandleLogin calls that have not saved them yet
  accounts,        \* accounts on the servers; via is history
  policy,          \* access policy of each account
  lateUsers,       \* accounts of POSTs whose caller has given up
  latePolicies,    \* policies of POSTs whose caller has given up
  notices,         \* messages Discord has received
  counted,         \* history: accounts IncrementUse has counted
  gone,            \* workers whose client has hung up
  pc, req          \* program counter and locals of each worker

config  == <<jellyfinURL, adminToken, logins>>
late    == <<lateUsers, latePolicies>>
books   == <<registrations, accounts, policy, notices, counted, late>>
local   == <<gone, pc, req>>
vars    == <<now, faults, invites, config, books, local>>

Account == [ server : Servers, user : Users, via : Invites ]
Posted  == [ account : Account, policy : Policy ]
Notice  == [ invite : Invites, user : Users, count : Nat ]

Steps == { "idle", "lookup", "check", "token", "base", "create",
           "policyBase", "policy", "record", "count", "notify", "discord" }

(* Locals of HandleInviteSubmit: the path's token, the form's user name,   *)
(* inv, adminToken, and base inside the Jellyfin client.                   *)
Request == [ invite : Invites \cup {None}, user : Users \cup {None},
             snap   : Invite \cup {None},
             token  : Servers \cup {None}, base : Servers \cup {None} ]

Blank == [ invite |-> None, user |-> None, snap |-> None,
           token |-> None, base |-> None ]

TypeOK ==
  /\ now \in Nat
  /\ faults \in Nat
  /\ invites \in [Invites -> Invite \cup {None}]
  /\ registrations \subseteq Account
  /\ jellyfinURL \in Servers \cup {None}
  /\ adminToken \in Servers \cup {None}
  /\ logins \subseteq Servers
  /\ accounts \subseteq Account
  /\ policy \in [Servers \X Users -> Policy]
  /\ lateUsers \subseteq Account
  /\ latePolicies \subseteq Posted
  /\ notices \subseteq Notice
  /\ counted \subseteq Account
  /\ gone \subseteq Workers
  /\ pc \in [Workers -> Steps]
  /\ req \in [Workers -> Request]

(* A fresh database, before /setup.                                        *)
Init ==
  /\ now = 0
  /\ faults = 0
  /\ invites = [i \in Invites |-> None]
  /\ registrations = {}
  /\ jellyfinURL = None
  /\ adminToken = None
  /\ logins = {}
  /\ accounts = {}
  /\ policy = [a \in Servers \X Users |-> DefaultPolicy]
  /\ lateUsers = {}
  /\ latePolicies = {}
  /\ notices = {}
  /\ counted = {}
  /\ gone = {}
  /\ pc = [w \in Workers |-> "idle"]
  /\ req = [w \in Workers |-> Blank]

-----------------------------------------------------------------------------
(* A context-bound call of w fails: for free once the client has hung up,  *)
(* because the context is cancelled; otherwise it is a fault.              *)
CallFails_Detached(w) == faults < MaxFaults /\ faults' = faults + 1

CallFails(w) ==
  \/ w \in gone /\ UNCHANGED faults
  \/ w \notin gone /\ faults < MaxFaults /\ faults' = faults + 1

(* A call whose result w goes on with; a cancelled one has none.           *)
CallAnswers(w) == w \notin gone /\ UNCHANGED faults

(* The account w has made, or is about to.                                 *)
AccountOf(w) == [ server |-> req[w].token, user |-> req[w].user,
                  via |-> req[w].invite ]

(* No account of the server has the name yet.                              *)
Free(server, user) ==
  \A a \in accounts : ~(a.server = server /\ a.user = user)

(* The callers ws give up on a POST that Jellyfin has received and may     *)
(* still carry out: of those under way, the ones whose token is the        *)
(* server's own.                                                           *)
Posting(ws, step) == { w \in ws : pc[w] = step /\ req[w].base = req[w].token }

Abandon(ws) ==
  /\ lateUsers' = lateUsers \cup { AccountOf(w) : w \in Posting(ws, "create") }
  /\ latePolicies' = latePolicies \cup
       { [ account |-> AccountOf(w),
           policy  |-> AccessPolicy(req[w].snap.libs) ] : w \in Posting(ws, "policy") }

Goto(w, step) == pc' = [pc EXCEPT ![w] = step] /\ UNCHANGED gone

(* The handler returns, and its slot and locals are free again.            *)
Finish(w) ==
  /\ pc' = [pc EXCEPT ![w] = "idle"]
  /\ req' = [req EXCEPT ![w] = Blank]
  /\ gone' = gone \ {w}

(* RequireSetup lets a request through once a Jellyfin URL is stored.      *)
Receive(w) ==
  /\ pc[w] = "idle"
  /\ jellyfinURL # None
  /\ \E i \in Invites, u \in Users :
       req' = [req EXCEPT ![w] = [Blank EXCEPT !.invite = i, !.user = u]]
  /\ Goto(w, "lookup")
  /\ UNCHANGED <<now, faults, config, invites, books>>

(* invites.GetByToken; not found and failed end the same way.              *)
Lookup(w) ==
  /\ pc[w] = "lookup"
  /\ \/ /\ CallAnswers(w)
        /\ invites[req[w].invite] # None
        /\ req' = [req EXCEPT ![w].snap = invites[req[w].invite]]
        /\ Goto(w, "check")
     \/ /\ CallAnswers(w)
        /\ invites[req[w].invite] = None
        /\ Finish(w)
     \/ CallFails(w) /\ Finish(w)
  /\ UNCHANGED <<now, config, invites, books>>

(* inv.IsValid on the row as it was read, then the checks of the form.     *)
CheckInvite(w) ==
  /\ pc[w] = "check"
  /\ \/ /\ IsValid(req[w].snap, now)
        /\ Goto(w, "token")
        /\ UNCHANGED req
     \/ Finish(w)      \* invalid, or the form is refused
  /\ UNCHANGED <<now, faults, config, invites, books>>

(* settings.GetJellyfinAdminToken.                                         *)
FetchToken(w) ==
  /\ pc[w] = "token"
  /\ \/ /\ CallAnswers(w)
        /\ adminToken # None
        /\ req' = [req EXCEPT ![w].token = adminToken]
        /\ Goto(w, "base")
     \/ /\ CallAnswers(w)
        /\ adminToken = None
        /\ Finish(w)
     \/ CallFails(w) /\ Finish(w)
  /\ UNCHANGED <<now, config, invites, books>>

(* Client.CreateUser reads the URL setting.                                *)
ReadBase(w) ==
  /\ pc[w] = "base"
  /\ \/ /\ CallAnswers(w)
        /\ req' = [req EXCEPT ![w].base = jellyfinURL]
        /\ Goto(w, "create")
     \/ CallFails(w) /\ Finish(w)
  /\ UNCHANGED <<now, config, invites, books>>

(* A server takes the user if it issued the token and the name is free.    *)
Accepts(w) ==
  /\ req[w].base = req[w].token
  /\ Free(req[w].base, req[w].user)

CreateUser_Retries(w) ==
  /\ pc[w] = "create"
  /\ \/ /\ CallAnswers(w)
        /\ Accepts(w)
        /\ accounts' = accounts \cup {AccountOf(w)}
        /\ Goto(w, "policyBase")
        /\ UNCHANGED req
     \/ CallAnswers(w) /\ ~Accepts(w) /\ Finish(w) /\ UNCHANGED accounts
     \/ CallFails(w) /\ UNCHANGED <<accounts, gone, pc, req>>
  /\ UNCHANGED <<now, invites, config, registrations, policy, notices, counted,
                 late>>

(* POST /Users/New. When the call fails, by a hang-up or without a usable   *)
(* reply, the account may be made all the same, now or later, and the      *)
(* handler does not know.                                                  *)
CreateUser(w) ==
  /\ pc[w] = "create"
  /\ \/ /\ CallAnswers(w)
        /\ Accepts(w)
        /\ accounts' = accounts \cup {AccountOf(w)}
        /\ Goto(w, "policyBase")
        /\ UNCHANGED <<req, late>>
     \/ /\ CallAnswers(w)
        /\ ~Accepts(w)
        /\ Finish(w)
        /\ UNCHANGED <<accounts, late>>
     \/ /\ CallFails(w)
        /\ Finish(w)
        /\ \E ws \in SUBSET {w} : Abandon(ws)
        /\ UNCHANGED accounts
  /\ UNCHANGED <<now, invites, config, registrations, policy, notices, counted>>

(* Client.SetLibraryAccess reads the URL setting again.                    *)
ReadBaseAgain(w) ==
  /\ pc[w] = "policyBase"
  /\ \/ /\ CallAnswers(w)
        /\ req' = [req EXCEPT ![w].base = jellyfinURL]
        /\ Goto(w, "policy")
     \/ CallFails(w) /\ Goto(w, "record") /\ UNCHANGED req
  /\ UNCHANGED <<now, config, invites, books>>

SetLibraryAccess_ByName(w) ==
  /\ pc[w] = "policy"
  /\ IF req[w].base = None THEN UNCHANGED policy
     ELSE policy' = [policy EXCEPT ![<<req[w].base, req[w].user>>] =
                                     AccessPolicy(req[w].snap.libs)]
  /\ Goto(w, "record")
  /\ UNCHANGED <<now, faults, invites, config, registrations, accounts, notices,
                 counted, late, req>>

(* POST /Users/{id}/Policy, its error dropped: only the server that made   *)
(* the account knows the id and the token.                                 *)
SetLibraryAccess(w) ==
  /\ pc[w] = "policy"
  /\ \/ /\ req[w].base = req[w].token
        /\ policy' = [policy EXCEPT ![<<req[w].base, req[w].user>>] =
                                      AccessPolicy(req[w].snap.libs)]
        /\ UNCHANGED <<faults, late>>
     \/ req[w].base # req[w].token /\ UNCHANGED <<policy, faults, late>>
     \/ /\ CallFails(w)
        /\ \E ws \in SUBSET {w} : Abandon(ws)
        /\ UNCHANGED policy
  /\ Goto(w, "record")
  /\ UNCHANGED <<now, invites, config, registrations, accounts, notices,
                 counted, req>>

RecordRegistration_LosesTheCount(w) ==
  /\ pc[w] = "record"
  /\ registrations' = registrations \cup {AccountOf(w)}
  /\ Goto(w, "notify")
  /\ UNCHANGED <<now, faults, invites, config, accounts, policy, notices, counted,
                 late, req>>

RecordRegistration_NotMade(w) ==
  /\ pc[w] = "record"
  /\ Goto(w, "count")
  /\ UNCHANGED <<now, faults, config, invites, books, req>>

(* registrations.Create, its error dropped.                                *)
RecordRegistration(w) ==
  /\ pc[w] = "record"
  /\ \/ /\ registrations' = registrations \cup {AccountOf(w)}
        /\ UNCHANGED faults
     \/ CallFails(w) /\ UNCHANGED registrations
  /\ Goto(w, "count")
  /\ UNCHANGED <<now, invites, config, accounts, policy, notices, counted, late,
                 req>>

IncrementUse_SavesTheRow(w) ==
  /\ pc[w] = "count"
  /\ invites' = [invites EXCEPT ![req[w].invite] =
                   [req[w].snap EXCEPT !.useCount = @ + 1]]
  /\ counted' = counted \cup {AccountOf(w)}
  /\ Goto(w, "notify")
  /\ UNCHANGED <<now, faults, config, registrations, accounts, policy,
                 notices, late, req>>

IncrementUse_UpToMax(w) ==
  /\ pc[w] = "count"
  /\ LET inv == invites[req[w].invite] IN
     IF inv.maxUses # Unlimited => inv.useCount < inv.maxUses
     THEN /\ invites' = [invites EXCEPT ![req[w].invite].useCount = @ + 1]
          /\ counted' = counted \cup {AccountOf(w)}
     ELSE UNCHANGED <<invites, counted>>
  /\ Goto(w, "notify")
  /\ UNCHANGED <<now, faults, config, registrations, accounts, policy,
                 notices, late, req>>

(* invites.IncrementUse, one UPDATE, its error dropped.                    *)
IncrementUse(w) ==
  /\ pc[w] = "count"
  /\ \/ /\ invites' = [invites EXCEPT ![req[w].invite].useCount = @ + 1]
        /\ counted' = counted \cup {AccountOf(w)}
        /\ UNCHANGED faults
     \/ CallFails(w) /\ UNCHANGED <<invites, counted>>
  /\ Goto(w, "notify")
  /\ UNCHANGED <<now, config, registrations, accounts, policy,
                 notices, late, req>>

(* DiscordNotifier.InviteUsed reads the webhook setting; any error means   *)
(* no message.                                                             *)
ReadWebhook(w) ==
  /\ pc[w] = "notify"
  /\ \/ CallAnswers(w) /\ WebhookSet /\ Goto(w, "discord") /\ UNCHANGED req
     \/ CallAnswers(w) /\ ~WebhookSet /\ Finish(w)
     \/ CallFails(w) /\ Finish(w)
  /\ UNCHANGED <<now, config, invites, books>>

(* SendMessage has no context: a client that hangs up does not stop it.    *)
(* The count is the handler's copy, incremented locally.                   *)
SendMessage(w) ==
  /\ pc[w] = "discord"
  /\ \/ /\ notices' = notices \cup
             { [ invite |-> req[w].invite, user |-> req[w].user,
                 count |-> req[w].snap.useCount + 1 ] }
        /\ UNCHANGED faults
     \/ /\ faults < MaxFaults /\ faults' = faults + 1
        /\ UNCHANGED notices
  /\ Finish(w)
  /\ UNCHANGED <<now, invites, config, registrations, accounts, policy, counted,
                 late>>

Work(w) ==
  \/ Lookup(w) \/ CheckInvite(w) \/ FetchToken(w) \/ ReadBase(w)
  \/ CreateUser(w) \/ ReadBaseAgain(w) \/ SetLibraryAccess(w)
  \/ RecordRegistration(w) \/ IncrementUse(w)
  \/ ReadWebhook(w) \/ SendMessage(w)

-----------------------------------------------------------------------------
(* The client of w hangs up: net/http cancels the request's context.       *)
Disconnect(w) ==
  /\ pc[w] # "idle" /\ w \notin gone
  /\ faults < MaxFaults /\ faults' = faults + 1
  /\ gone' = gone \cup {w}
  /\ UNCHANGED <<now, config, invites, books, pc, req>>

(* The process is killed and restarted: there is no graceful shutdown, and *)
(* nothing survives but the database, the servers and what they have been  *)
(* sent.                                                                   *)
Restart ==
  /\ faults < MaxFaults /\ faults' = faults + 1
  /\ pc' = [w \in Workers |-> "idle"]
  /\ req' = [w \in Workers |-> Blank]
  /\ gone' = {}
  /\ logins' = {}
  /\ \E ws \in SUBSET Workers : Abandon(ws)
  /\ UNCHANGED <<now, invites, jellyfinURL, adminToken, registrations, accounts,
                 policy, notices, counted>>

(* Jellyfin carries out a POST /Users/New nobody waits for, or refuses or   *)
(* loses it.                                                               *)
LateUser(a) ==
  /\ a \in lateUsers
  /\ lateUsers' = lateUsers \ {a}
  /\ \/ Free(a.server, a.user) /\ accounts' = accounts \cup {a}
     \/ UNCHANGED accounts
  /\ UNCHANGED <<now, faults, invites, config, registrations, policy, notices,
                 counted, latePolicies, local>>

(* The same of a POST to the account's Policy.                             *)
LatePolicy(p) ==
  /\ p \in latePolicies
  /\ latePolicies' = latePolicies \ {p}
  /\ \/ policy' = [policy EXCEPT
                      ![<<p.account.server, p.account.user>>] = p.policy]
     \/ UNCHANGED policy
  /\ UNCHANGED <<now, faults, invites, config, registrations, accounts, notices,
                 counted, lateUsers, local>>

(* HandleSetupSubmit stores the URL; /setup stays open after first use.    *)
SaveJellyfinURL(s) ==
  /\ jellyfinURL # s
  /\ jellyfinURL' = s
  /\ UNCHANGED <<now, faults, invites, adminToken, logins, books, local>>

(* HandleLogin: Authenticate returns a token of the server in force ...    *)
Authenticate ==
  /\ jellyfinURL # None
  /\ logins' = logins \cup {jellyfinURL}
  /\ UNCHANGED <<now, faults, invites, jellyfinURL, adminToken, books, local>>

(* ... and SetJellyfinAdminToken stores it, whichever sign-in comes last:  *)
(* s stays in logins when several hold a token of s.                       *)
SetJellyfinAdminToken(s) ==
  /\ s \in logins
  /\ adminToken' = s
  /\ logins' \in {logins, logins \ {s}}
  /\ UNCHANGED <<now, faults, invites, jellyfinURL, books, local>>

(* HandleCreateInvite, behind a session, which only a sign-in gives.       *)
CreateInvite(i) ==
  /\ adminToken # None
  /\ invites[i] = None
  /\ \E m \in FormMaxUses, e \in FormExpiries, libs \in FormLibraries :
       LET inv == NewInvite(m, e, libs) IN
       /\ Storable(inv)
       /\ invites' = [invites EXCEPT ![i] = inv]
  /\ UNCHANGED <<now, faults, config, books, local>>

(* HandleRevokeInvite.                                                     *)
RevokeInvite(i) ==
  /\ invites[i] # None /\ ~invites[i].revoked
  /\ invites' = [invites EXCEPT ![i].revoked = TRUE]
  /\ UNCHANGED <<now, faults, config, books, local>>

Tick ==
  /\ now < MaxTime
  /\ now' = now + 1
  /\ UNCHANGED <<faults, config, invites, books, local>>

Next ==
  \/ \E w \in Workers : Receive(w) \/ Work(w) \/ Disconnect(w)
  \/ Restart
  \/ \E a \in lateUsers : LateUser(a)
  \/ \E p \in latePolicies : LatePolicy(p)
  \/ \E s \in Servers : SaveJellyfinURL(s) \/ SetJellyfinAdminToken(s)
  \/ Authenticate
  \/ \E i \in Invites : CreateInvite(i) \/ RevokeInvite(i)
  \/ Tick

Spec == Init /\ [][Next]_vars

-----------------------------------------------------------------------------
(* Jellyfin and Discord may stay silent, for no client has a timeout: only *)
(* the database answers, and a cancelled context ends a call to Jellyfin.  *)
Prompt(w) ==
  \/ Lookup(w) \/ CheckInvite(w) \/ FetchToken(w) \/ ReadBase(w)
  \/ ReadBaseAgain(w) \/ RecordRegistration(w) \/ IncrementUse(w)
  \/ ReadWebhook(w)
  \/ w \in gone /\ (CreateUser(w) \/ SetLibraryAccess(w))

LiveSpec == Spec /\ \A w \in Workers : WF_vars(Prompt(w))

(* Jellyfin and Discord answer every call too, or it ends with an error;   *)
(* and what Jellyfin has received it deals with in the end.                *)
PeersAnswer ==
  /\ \A w \in Workers : WF_vars(Work(w))
  /\ \A a \in Account : WF_vars(LateUser(a))
=============================================================================
