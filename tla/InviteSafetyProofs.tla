------------------------ MODULE InviteSafetyProofs -------------------------
(***************************************************************************)
(* Closed invites stay closed, the books are complete without failures,    *)
(* accounts get the scope of their own invite, and messages tell a number  *)
(* that few others tell.                                                   *)
(***************************************************************************)
EXTENDS InviteLedgerProofs

-----------------------------------------------------------------------------
LEMMA ClockStep ==
  ASSUME TypeOK, [Next]_vars
  PROVE  now' \in Nat /\ now \in Nat /\ now <= now'
<1>1. UNCHANGED now \/ Tick
  BY DEF Next, Work, vars, Receive, Lookup, CheckInvite, FetchToken, ReadBase,
         CreateUser, ReadBaseAgain, SetLibraryAccess, RecordRegistration,
         IncrementUse, ReadWebhook, SendMessage, Disconnect, Restart,
         SaveJellyfinURL, Authenticate, SetJellyfinAdminToken, CreateInvite,
         RevokeInvite, LateUser, LatePolicy
<1> QED
  BY <1>1 DEF TypeOK, Tick

(* A worker on an invite in the next state was on it already, or has only  *)
(* just been received.                                                     *)
LEMMA DrainStep ==
  ASSUME TypeOK, Locals, [Next]_vars, NEW i \in Invites, Closed(i),
         NEW v \in Workers, req'[v].invite = i
  PROVE  /\ pc'[v] \notin {"token", "base", "create"}
         /\ pc'[v] = "check" => ~IsValid(req'[v].snap, now')
<1> USE DEF Closed, Drained, config, books, late, local
<1>0. now' \in Nat /\ now \in Nat /\ now <= now'
  BY ClockStep
<1>1. CASE pc'[v] = pc[v] /\ req'[v] = req[v]
  <2>1. pc[v] = "check" => req[v].snap \in Invite
    BY DEF Locals, LocalsOK, SnapshotOf
  <2> QED
    BY <1>0, <1>1, <2>1, InvalidStaysInvalid, SnapshotReflexive
<1>2. ASSUME NEW w \in Workers, Receive(w) \/ Work(w) \/ Disconnect(w), w # v
      PROVE  pc'[v] = pc[v] /\ req'[v] = req[v]
  BY <1>2, OwnSlotOnly
<1>3. CASE Receive(v)
  BY <1>3 DEF Receive, Goto, TypeOK
<1>4. CASE Lookup(v)
  <2>1. CASE Finish(v)
    BY <2>1 DEF Finish, TypeOK
  <2>2. CASE ~Finish(v)
    <3>1. /\ req[v].invite = i /\ pc'[v] = "check" /\ now' = now
          /\ req'[v].snap = invites[i]
      BY <1>4, <2>2 DEF Lookup, Goto, TypeOK, Request
    <3> QED
      BY <3>1
  <2> QED
    BY <2>1, <2>2
<1>5. CASE CheckInvite(v)
  BY <1>5 DEF CheckInvite, Goto, Finish, TypeOK
<1>6. CASE FetchToken(v) \/ ReadBase(v)
  BY <1>6 DEF FetchToken, ReadBase, Goto, Finish, TypeOK, Request
<1>7. CASE CreateUser(v)
  BY <1>7 DEF CreateUser, Goto, Finish, TypeOK
<1>8. CASE ReadBaseAgain(v) \/ SetLibraryAccess(v) \/ RecordRegistration(v)
             \/ IncrementUse(v)
  BY <1>8 DEF ReadBaseAgain, SetLibraryAccess, RecordRegistration,
              IncrementUse, Goto, TypeOK
<1>9. CASE ReadWebhook(v) \/ SendMessage(v)
  BY <1>9 DEF ReadWebhook, SendMessage, Goto, Finish, TypeOK
<1>10. CASE Disconnect(v)
  BY <1>1, <1>10 DEF Disconnect
<1>11. CASE Restart
  BY <1>11 DEF Restart
<1>12. CASE UNCHANGED <<pc, req>>
  BY <1>1, <1>12
<1> QED
  BY <1>1, <1>2, <1>3, <1>4, <1>5, <1>6, <1>7, <1>8, <1>9, <1>10, <1>11, <1>12
     DEF Next, Work, SaveJellyfinURL, Authenticate, SetJellyfinAdminToken,
         CreateInvite, RevokeInvite, LateUser, LatePolicy, Tick, vars

(* A closed invite stays closed and yields no further account, whatever    *)
(* snapshots the workers hold (HandleInviteSubmit, HandleRevokeInvite):    *)
(* closed, it has nobody left who could post to Jellyfin, and no POST left *)
(* there whose caller has given up (CreateUser).                           *)
THEOREM ClosedStaysClosed == Spec => ClosedForGood
<1>1. ASSUME TypeOK, Locals, TypeOK', [Next]_vars, NEW i \in Invites, Closed(i)
      PROVE  Closed(i)' /\ Via(i)' = Via(i)
  <2>1. invites'[i] # None
    BY <1>1, RowsOnlyClose, RegistrationAssumption DEF Closed, SnapshotOf
  <2>2. now' \in Nat /\ now \in Nat /\ now <= now'
    BY <1>1, ClockStep
  <2>3. ~IsValid(invites'[i], now')
    BY <1>1, <2>2, RowsOnlyClose, InvalidStaysInvalid DEF Closed
  <2>4. Drained(i)'
    <3>1. ASSUME NEW a \in lateUsers'  PROVE a.via # i
      <4>1. CASE a \in lateUsers
        BY <1>1, <4>1 DEF Closed, Drained
      <4>2. ASSUME NEW w \in Workers, pc[w] = "create", a = AccountOf(w)
            PROVE  a.via # i
        BY <1>1, <4>2 DEF Closed, Drained, AccountOf
      <4> QED
        BY <1>1, <4>1, <4>2, LateStep
    <3> QED
      BY <1>1, <3>1, DrainStep DEF Drained
  <2>5. Via(i)' = Via(i)
    <3>1. ASSUME NEW w \in Workers, CreateUser(w) PROVE AccountOf(w).via # i
      BY <1>1, <3>1 DEF CreateUser, Closed, Drained, AccountOf
    <3>2. \A a \in lateUsers : a.via # i
      BY <1>1 DEF Closed, Drained
    <3> QED
      BY <1>1, <3>1, <3>2, BooksStep DEF Via
  <2> QED
    BY <2>1, <2>3, <2>4, <2>5 DEF Closed
<1>2. TypeOK /\ Locals /\ TypeOK' /\ [Next]_vars =>
        [\A i \in Invites : StaysClosed(i)]_vars
  BY <1>1 DEF StaysClosed
<1> QED
  BY <1>2, TypedLocals, PTL DEF Spec, ClosedForGood

-----------------------------------------------------------------------------
(* The policy the invite of account a stands for.                          *)
Meant(a) == AccessPolicy(invites[a.via].libs)

(* An account shows the default policy or the one its invite stands for,   *)
(* which is also what a late POST sets; a name nobody has on a server has  *)
(* the default policy there.                                               *)
FreeNamesDefault ==
  \A s \in Servers, u \in Users : Free(s, u) => policy[<<s, u>>] = DefaultPolicy

AccountsScoped ==
  \A a \in accounts : policy[<<a.server, a.user>>] \in {DefaultPolicy, Meant(a)}

LateScoped ==
  \A p \in latePolicies : p.account \in accounts /\ p.policy = Meant(p.account)

ScopeInv == FreeNamesDefault /\ AccountsScoped /\ LateScoped

(* An account stands for the same policy for good.                         *)
LEMMA MeantStep ==
  ASSUME TypeOK, Locals, Ownership, [Next]_vars, NEW a \in accounts
  PROVE  /\ a.via \in Invites /\ a.server \in Servers /\ a.user \in Users
         /\ a \in accounts' /\ Meant(a)' = Meant(a)
<1>1. a.via \in Invites /\ a.server \in Servers /\ a.user \in Users
  BY DEF TypeOK, Account
<1>2. a \in accounts'
  BY BooksStep
<1>3. invites'[a.via].libs = invites[a.via].libs
  BY <1>1, RowsOnlyClose DEF Ownership, SnapshotOf
<1> QED
  BY <1>1, <1>2, <1>3 DEF Meant

(* A worker about to post a policy, or waiting for the answer, posts the   *)
(* one its own account's invite stands for.                                *)
LEMMA PolicyInHand ==
  ASSUME TypeOK, Locals, Ownership, NEW w \in Workers, pc[w] = "policy"
  PROVE  /\ AccountOf(w) \in accounts
         /\ AccessPolicy(req[w].snap.libs) = Meant(AccountOf(w))
<1>1. AccountOf(w) \in accounts /\ AccountOf(w).via = req[w].invite
  BY DEF InHand, Ownership, AccountOf
<1>2. req[w].snap.libs = invites[req[w].invite].libs
  BY DEF Locals, LocalsOK, SnapshotOf
<1> QED
  BY <1>1, <1>2 DEF Meant

(* Jellyfin is left with a policy only by a caller that was waiting for    *)
(* its POST.                                                               *)
LEMMA LatePolicyStep ==
  ASSUME [Next]_vars, NEW p \in latePolicies', p \notin latePolicies
  PROVE  \E w \in Workers :
           /\ pc[w] = "policy" /\ p.account = AccountOf(w)
           /\ p.policy = AccessPolicy(req[w].snap.libs)
           /\ Restart \/ CallFails(w)
<1> USE DEF config, books, late, local
<1>1. ASSUME NEW ws \in SUBSET Workers, Abandon(ws)
      PROVE  \E w \in ws : /\ pc[w] = "policy" /\ p.account = AccountOf(w)
                           /\ p.policy = AccessPolicy(req[w].snap.libs)
  BY <1>1 DEF Abandon, Posting
<1>2. ASSUME NEW w \in Workers, SetLibraryAccess(w)
      PROVE  /\ pc[w] = "policy" /\ p.account = AccountOf(w)
             /\ p.policy = AccessPolicy(req[w].snap.libs)
             /\ CallFails(w)
  BY <1>1, <1>2 DEF SetLibraryAccess
<1>3. ASSUME NEW w \in Workers PROVE ~CreateUser(w)
  <2> SUFFICES ASSUME CreateUser(w) PROVE FALSE
    OBVIOUS
  <2>1. pc[w] = "create" /\ \E ws \in SUBSET {w} : Abandon(ws)
    BY DEF CreateUser
  <2> QED
    BY <1>1, <2>1
<1>4. ASSUME NEW w \in Workers, Receive(w) \/ Work(w) \/ Disconnect(w)
      PROVE  SetLibraryAccess(w)
  BY <1>3, <1>4 DEF Receive, Work, Lookup, CheckInvite, FetchToken, ReadBase,
     ReadBaseAgain, RecordRegistration, IncrementUse, ReadWebhook, SendMessage,
     Disconnect
<1>5. CASE ~ \E w \in Workers : Receive(w) \/ Work(w) \/ Disconnect(w)
  <2>1. Restart
    BY <1>5 DEF Next, vars, SaveJellyfinURL, Authenticate,
       SetJellyfinAdminToken, CreateInvite, RevokeInvite, LateUser, LatePolicy,
       Tick
  <2> QED
    BY <1>1, <2>1 DEF Restart
<1> QED
  BY <1>2, <1>4, <1>5

(* A step that writes a policy writes that of one account, to what its     *)
(* invite stands for.                                                      *)
LEMMA PolicyStep ==
  ASSUME TypeOK, Locals, Ownership, LateScoped, [Next]_vars
  PROVE  \/ UNCHANGED policy
         \/ /\ UNCHANGED accounts
            /\ \E b \in accounts :
                 policy' = [policy EXCEPT ![<<b.server, b.user>>] = Meant(b)]
<1> USE DEF config, books, late, local
<1>1. ASSUME NEW w \in Workers, SetLibraryAccess(w), policy' # policy
      PROVE  /\ UNCHANGED accounts
             /\ \E b \in accounts :
                  policy' = [policy EXCEPT ![<<b.server, b.user>>] = Meant(b)]
  <2>1. /\ policy' = [policy EXCEPT ![<<req[w].base, req[w].user>>] =
                                      AccessPolicy(req[w].snap.libs)]
        /\ req[w].base = req[w].token
        /\ pc[w] = "policy" /\ UNCHANGED accounts
    BY <1>1 DEF SetLibraryAccess
  <2>2. AccountOf(w).server = req[w].token /\ AccountOf(w).user = req[w].user
    BY DEF AccountOf
  <2> QED
    BY <2>1, <2>2, PolicyInHand
<1>2. ASSUME NEW p \in latePolicies, LatePolicy(p), policy' # policy
      PROVE  /\ UNCHANGED accounts
             /\ \E b \in accounts :
                  policy' = [policy EXCEPT ![<<b.server, b.user>>] = Meant(b)]
  BY <1>2 DEF LatePolicy, LateScoped
<1> QED
  BY <1>1, <1>2 DEF Next, Work, vars, Receive, Lookup, CheckInvite, FetchToken,
     ReadBase, CreateUser, ReadBaseAgain, RecordRegistration, IncrementUse,
     ReadWebhook, SendMessage, Disconnect, Restart, SaveJellyfinURL,
     Authenticate, SetJellyfinAdminToken, CreateInvite, RevokeInvite, LateUser,
     Tick

LEMMA ScopeStep ==
  ASSUME TypeOK, Locals, Ownership, ScopeInv, [Next]_vars
  PROVE  ScopeInv'
<1>0. \A a \in accounts :
        /\ a.via \in Invites /\ a.server \in Servers /\ a.user \in Users
        /\ a \in accounts' /\ Meant(a)' = Meant(a)
  BY MeantStep
<1>1. LateScoped'
  <2> SUFFICES ASSUME NEW p \in latePolicies'
               PROVE  p.account \in accounts' /\ p.policy = Meant(p.account)'
    BY DEF LateScoped
  <2>1. CASE p \in latePolicies
    BY <1>0, <2>1 DEF ScopeInv, LateScoped
  <2>2. CASE p \notin latePolicies
    <3>1. PICK w \in Workers : /\ pc[w] = "policy" /\ p.account = AccountOf(w)
                               /\ p.policy = AccessPolicy(req[w].snap.libs)
      BY <2>2, LatePolicyStep
    <3>2. p.account \in accounts /\ p.policy = Meant(p.account)
      BY <3>1, PolicyInHand
    <3> QED
      BY <1>0, <3>2
  <2> QED
    BY <2>1, <2>2
<1>2. CASE UNCHANGED <<accounts, policy>>
  BY <1>0, <1>1, <1>2 DEF ScopeInv, FreeNamesDefault, AccountsScoped, Free
<1>3. ASSUME NEW b, b.server \in Servers, b.user \in Users,
             Free(b.server, b.user), accounts' = accounts \cup {b},
             UNCHANGED policy
      PROVE  FreeNamesDefault' /\ AccountsScoped'
  <2>1. policy[<<b.server, b.user>>] = DefaultPolicy
    BY <1>3 DEF ScopeInv, FreeNamesDefault
  <2> QED
    BY <1>0, <1>3, <2>1
       DEF ScopeInv, FreeNamesDefault, AccountsScoped, Free
<1>4. ASSUME UNCHANGED accounts, NEW b \in accounts,
             policy' = [policy EXCEPT ![<<b.server, b.user>>] = Meant(b)]
      PROVE  FreeNamesDefault' /\ AccountsScoped'
  <2>1. ASSUME NEW a \in accounts
        PROVE  policy'[<<a.server, a.user>>] \in {DefaultPolicy, Meant(a)'}
    <3>1. CASE a = b
      BY <1>0, <1>4, <3>1 DEF TypeOK
    <3>2. CASE a # b
      <4>1. <<a.server, a.user>> # <<b.server, b.user>>
        BY <3>2 DEF Ownership, OneOwner
      <4> QED
        BY <1>0, <1>4, <4>1 DEF TypeOK, ScopeInv, AccountsScoped
    <3> QED
      BY <3>1, <3>2
  <2>2. ASSUME NEW s \in Servers, NEW u \in Users, Free(s, u)
        PROVE  policy'[<<s, u>>] = DefaultPolicy
    <3>1. <<s, u>> # <<b.server, b.user>>
      BY <1>4, <2>2 DEF Free
    <3> QED
      BY <1>4, <2>2, <3>1 DEF TypeOK, ScopeInv, FreeNamesDefault
  <2> QED
    BY <1>4, <2>1, <2>2 DEF FreeNamesDefault, AccountsScoped, Free
<1>5. ASSUME NEW w \in Workers, CreateUser(w), Accepts(w)
      PROVE  /\ AccountOf(w).server \in Servers /\ AccountOf(w).user \in Users
             /\ Free(AccountOf(w).server, AccountOf(w).user)
             /\ UNCHANGED policy
  BY <1>5 DEF CreateUser, Accepts, AccountOf, Locals, LocalsOK
<1>6. ASSUME NEW a \in lateUsers, LateUser(a)
      PROVE  a.server \in Servers /\ a.user \in Users /\ UNCHANGED policy
  BY <1>6 DEF LateUser, TypeOK, Account
<1>7. CASE UNCHANGED policy
  <2>1. CASE UNCHANGED accounts
    BY <1>1, <1>2, <1>7, <2>1 DEF ScopeInv
  <2> QED
    BY <1>1, <1>3, <1>5, <1>6, <1>7, <2>1, BooksStep DEF ScopeInv
<1> QED
  BY <1>1, <1>4, <1>7, PolicyStep DEF ScopeInv

LEMMA ScopeInvariant == Spec => [](LedgerInv /\ ScopeInv)
<1>1. Init => ScopeInv
  BY DEF Init, ScopeInv, FreeNamesDefault, AccountsScoped, LateScoped
<1>2. LedgerInv /\ ScopeInv /\ [Next]_vars => ScopeInv'
  BY ScopeStep DEF LedgerInv
<1> QED
  BY <1>1, <1>2, LedgerInvariant, PTL DEF Spec

(* What Meant shows is what the invite promises.                           *)
LEMMA MeantShows ==
  ASSUME TypeOK, Ownership, NEW a \in accounts
  PROVE  Visible(Meant(a)) \in Promised(a.via)
<1>1. a.via \in Invites /\ invites[a.via] # None
  BY DEF TypeOK, Account, Ownership
<1>2. invites[a.via].libs \in SUBSET Libraries
  BY <1>1 DEF TypeOK, Invite
<1> QED
  BY <1>2, PolicyShows DEF Meant, Promised

(* Whatever fails or comes late, and however the admin moves the Jellyfin  *)
(* URL under the requests, an account never gets the scope of another      *)
(* invite (SetLibraryAccess).                                              *)
THEOREM ScopeIsolated == Spec => []ScopeIsolation
<1>1. LedgerInv /\ ScopeInv => ScopeIsolation
  <2> SUFFICES ASSUME LedgerInv, ScopeInv, NEW a \in accounts
               PROVE  \/ policy[<<a.server, a.user>>] = DefaultPolicy
                      \/ Seen(a) \in Promised(a.via)
    BY DEF ScopeIsolation
  <2>1. Visible(Meant(a)) \in Promised(a.via)
    BY MeantShows DEF LedgerInv
  <2> QED
    BY <2>1 DEF ScopeInv, AccountsScoped, Seen
<1> QED
  BY <1>1, ScopeInvariant, PTL

-----------------------------------------------------------------------------
(* Without failures so far, no client is lost and every account is on its  *)
(* way into both tables.                                                   *)
Booked ==
  faults = 0 =>
    /\ gone = {} /\ lateUsers = {} /\ latePolicies = {}
    /\ accounts \subseteq counted \cup { AccountOf(w) : w \in InHand }
    /\ counted \subseteq registrations
    /\ \A w \in InHand : pc[w] = "count" => AccountOf(w) \in registrations

(* A step that leaves the failure count at zero has met no failure.        *)
LEMMA NoFailure ==
  ASSUME TypeOK, Booked, [Next]_vars, faults' = 0
  PROVE  /\ faults = 0
         /\ \A w \in Workers : ~CallFails(w) /\ ~Disconnect(w)
         /\ ~Restart
<1> USE DEF config, books, late, local
<1>1. faults = 0
  <2>1. ASSUME NEW w \in Workers, Work(w)
        PROVE  CallFails(w) \/ UNCHANGED faults \/ faults' = faults + 1
    BY <2>1 DEF Work, Lookup, CheckInvite, FetchToken, ReadBase, CreateUser,
       ReadBaseAgain, SetLibraryAccess, RecordRegistration, IncrementUse,
       ReadWebhook, SendMessage, CallAnswers
  <2>2. UNCHANGED faults \/ faults' = faults + 1
    BY <2>1 DEF CallFails, Next, vars, Receive, Disconnect, Restart,
       SaveJellyfinURL, Authenticate, SetJellyfinAdminToken, CreateInvite,
       RevokeInvite, LateUser, LatePolicy, Tick
  <2> QED
    BY <2>2 DEF TypeOK
<1>2. gone = {}
  BY <1>1 DEF Booked
<1> QED
  BY <1>1, <1>2 DEF CallFails, Disconnect, Restart

(* Without failures an account leaves a worker's hands only by being       *)
(* counted, and reaches that step only registered.                         *)
LEMMA HandsKeep ==
  ASSUME TypeOK, Booked, [Next]_vars, faults' = 0, NEW w \in InHand,
         ~IncrementUse(w)
  PROVE  /\ w \in InHand' /\ AccountOf(w)' = AccountOf(w)
         /\ pc'[w] = "count" /\ pc[w] # "count" =>
              AccountOf(w) \in registrations'
<1> USE DEF InHand, AccountOf, config, books, late, local
<1> w \in Workers
  OBVIOUS
<1>1. ASSUME NEW v \in Workers, Receive(v) \/ Work(v) \/ Disconnect(v), v # w
      PROVE  pc'[w] = pc[w] /\ req'[w] = req[w]
  BY <1>1, OwnSlotOnly
<1>2. CASE ReadBaseAgain(w)
  BY <1>2 DEF ReadBaseAgain, Goto, TypeOK, Request
<1>3. CASE SetLibraryAccess(w)
  BY <1>3 DEF SetLibraryAccess, Goto, TypeOK
<1>4. CASE RecordRegistration(w)
  BY <1>4, NoFailure DEF RecordRegistration, Goto, TypeOK
<1>5. CASE UNCHANGED <<pc, req>>
  BY <1>5
<1>6. Receive(w) \/ Work(w) \/ Disconnect(w) =>
        ReadBaseAgain(w) \/ SetLibraryAccess(w) \/ RecordRegistration(w)
  BY NoFailure DEF Work, Receive, Lookup, CheckInvite, FetchToken, ReadBase,
                   CreateUser, ReadWebhook, SendMessage
<1>7. CASE ~ \E v \in Workers : Receive(v) \/ Work(v) \/ Disconnect(v)
  <2>1. UNCHANGED <<pc, req>>
    BY <1>7, NoFailure
       DEF Next, SaveJellyfinURL, Authenticate, SetJellyfinAdminToken,
           CreateInvite, RevokeInvite, LateUser, LatePolicy, Tick, vars
  <2> QED
    BY <1>5, <2>1
<1> QED
  BY <1>1, <1>2, <1>3, <1>4, <1>5, <1>6, <1>7

LEMMA BookedStep ==
  ASSUME TypeOK, Locals, Booked, Ownership, [Next]_vars
  PROVE  Booked'
<1> SUFFICES ASSUME faults' = 0
             PROVE  /\ gone' = {} /\ lateUsers' = {} /\ latePolicies' = {}
                    /\ accounts' \subseteq
                         counted' \cup { AccountOf(w)' : w \in InHand' }
                    /\ counted' \subseteq registrations'
                    /\ \A w \in InHand' :
                         pc'[w] = "count" => AccountOf(w)' \in registrations'
  BY DEF Booked
<1>0. /\ faults = 0 /\ gone = {} /\ lateUsers = {} /\ latePolicies = {}
      /\ accounts \subseteq counted \cup { AccountOf(w) : w \in InHand }
      /\ counted \subseteq registrations
      /\ \A w \in InHand : pc[w] = "count" => AccountOf(w) \in registrations
  BY NoFailure DEF Booked
<1>1. gone' = {}
  BY <1>0, NoFailure
     DEF Next, Work, vars, Receive, Lookup, CheckInvite, FetchToken, ReadBase,
         CreateUser, ReadBaseAgain, SetLibraryAccess, RecordRegistration,
         IncrementUse, ReadWebhook, SendMessage, SaveJellyfinURL, Authenticate,
         SetJellyfinAdminToken, CreateInvite, RevokeInvite, LateUser,
         LatePolicy, Tick, Goto, Finish, local
<1>7. lateUsers' = {} /\ latePolicies' = {}
  BY <1>0, NoFailure, LateStep, LatePolicyStep
<1>2. registrations \subseteq registrations' /\ counted \subseteq counted'
  BY BooksStep
<1>3. ASSUME NEW w \in Workers, IncrementUse(w)
      PROVE  counted' = counted \cup {AccountOf(w)} /\ w \in InHand
             /\ AccountOf(w) \in registrations
  BY <1>0, <1>3, NoFailure DEF IncrementUse, InHand
<1>4. accounts' \subseteq counted' \cup { AccountOf(w)' : w \in InHand' }
  <2>1. ASSUME NEW a \in accounts
        PROVE  a \in counted' \cup { AccountOf(w)' : w \in InHand' }
    <3>1. CASE a \in counted
      BY <1>2, <3>1
    <3>2. ASSUME NEW w \in InHand, a = AccountOf(w)
          PROVE  a \in counted' \cup { AccountOf(v)' : v \in InHand' }
      <4>1. w \in Workers
        BY DEF InHand
      <4>2. CASE IncrementUse(w)
        BY <1>3, <3>2, <4>1, <4>2
      <4>3. CASE ~IncrementUse(w)
        BY <3>2, <4>3, HandsKeep
      <4> QED
        BY <4>2, <4>3
    <3> QED
      BY <1>0, <3>1, <3>2
  <2>2. ASSUME NEW w \in Workers, CreateUser(w), Accepts(w),
               accounts' = accounts \cup {AccountOf(w)},
               accounts' # accounts
        PROVE  w \in InHand' /\ AccountOf(w)' = AccountOf(w)
    <3>1. Goto(w, "policyBase") /\ UNCHANGED req
      BY <2>2, NoFailure DEF CreateUser
    <3> QED
      BY <3>1 DEF InHand, Goto, AccountOf, TypeOK
  <2> QED
    BY <1>0, <2>1, <2>2, BooksStep
<1>5. counted' \subseteq registrations'
  BY <1>0, <1>2, <1>3, BooksStep
<1>6. ASSUME NEW w \in InHand', pc'[w] = "count"
      PROVE  AccountOf(w)' \in registrations'
  <2>1. w \in Workers
    BY DEF InHand
  <2>2. ~IncrementUse(w) /\ ~CreateUser(w)
    BY <1>6, <2>1 DEF IncrementUse, CreateUser, Goto, Finish, TypeOK
  <2>3. w \in InHand
    BY <2>2, HandsStep
  <2>4. /\ AccountOf(w)' = AccountOf(w)
        /\ pc[w] # "count" => AccountOf(w) \in registrations'
    BY <1>6, <2>2, <2>3, HandsKeep
  <2> QED
    BY <1>0, <1>2, <2>3, <2>4
<1> QED
  BY <1>1, <1>4, <1>5, <1>6, <1>7

(* As long as nothing fails, every account is registered and counted once  *)
(* its worker is through (HandleInviteSubmit).                             *)
THEOREM BooksAreComplete == Spec => []BooksComplete
<1>1. Init => Booked
  BY DEF Init, Booked, InHand
<1>2. LedgerInv /\ Booked /\ [Next]_vars => Booked'
  BY BookedStep DEF LedgerInv
<1>3. LedgerInv /\ Booked => BooksComplete
  BY DEF LedgerInv, Booked, BooksComplete, Lost, Ownership
<1> QED
  BY <1>1, <1>2, <1>3, LedgerInvariant, PTL DEF Spec

-----------------------------------------------------------------------------
(* Account a has the policy its invite stands for.                         *)
Scoped(a) == policy[<<a.server, a.user>>] = Meant(a)

OneServer == \A s, t \in Servers : s = t

(* With one server and no failures, the policy reaches the server that     *)
(* made the account before the account is registered.                      *)
ScopedInv ==
  (faults = 0 /\ OneServer) =>
    /\ \A w \in Workers : pc[w] # "idle" => jellyfinURL # None
    /\ \A w \in Workers : pc[w] = "policy" => req[w].base = req[w].token
    /\ \A w \in Workers : pc[w] \in {"record", "count"} => Scoped(AccountOf(w))
    /\ \A a \in counted : Scoped(a)

LEMMA PolicyPosted ==
  ASSUME TypeOK, Locals, Ownership, [Next]_vars, NEW w \in Workers,
         SetLibraryAccess(w),
         policy' = [policy EXCEPT ![<<req[w].base, req[w].user>>] =
                                    AccessPolicy(req[w].snap.libs)],
         req[w].base = req[w].token
  PROVE  Scoped(AccountOf(w))'
<1>1. /\ req[w].user \in Users /\ req[w].token \in Servers
      /\ AccessPolicy(req[w].snap.libs) = Meant(AccountOf(w))
  BY PolicyInHand DEF SetLibraryAccess, Locals, LocalsOK
<1>2. /\ AccountOf(w)' = AccountOf(w)
      /\ AccountOf(w).server = req[w].token /\ AccountOf(w).user = req[w].user
  BY DEF SetLibraryAccess, AccountOf
<1>3. Meant(AccountOf(w))' = Meant(AccountOf(w))
  BY <1>2 DEF SetLibraryAccess, Meant
<1>4. policy'[<<req[w].base, req[w].user>>] = AccessPolicy(req[w].snap.libs)
  BY <1>1 DEF TypeOK
<1> QED
  BY <1>1, <1>2, <1>3, <1>4 DEF Scoped

LEMMA ScopedKept ==
  ASSUME TypeOK, Locals, Ownership, ScopeInv, [Next]_vars,
         NEW a \in accounts, Scoped(a)
  PROVE  Scoped(a)'
<1>1. /\ a.server \in Servers /\ a.user \in Users
      /\ Meant(a)' = Meant(a)
  BY MeantStep
<1>2. CASE UNCHANGED policy
  BY <1>1, <1>2 DEF Scoped
<1>3. ASSUME NEW b \in accounts,
             policy' = [policy EXCEPT ![<<b.server, b.user>>] = Meant(b)]
      PROVE  Scoped(a)'
  <2>1. CASE a = b
    BY <1>1, <1>3, <2>1 DEF Scoped, TypeOK
  <2>2. CASE a # b
    <3>1. <<a.server, a.user>> # <<b.server, b.user>>
      BY <2>2 DEF Ownership, OneOwner
    <3> QED
      BY <1>1, <1>3, <3>1 DEF TypeOK, Scoped
  <2> QED
    BY <2>1, <2>2
<1> QED
  BY <1>2, <1>3, PolicyStep DEF ScopeInv

(* How a worker gets to the steps ScopedInv speaks of.                     *)
LEMMA WayToRecord ==
  ASSUME TypeOK, Booked, [Next]_vars, faults' = 0, NEW w \in Workers
  PROVE  /\ pc[w] = "idle" /\ pc'[w] # "idle" => Receive(w)
         /\ pc'[w] = "policy" =>
              \/ pc[w] = "policy" /\ req'[w] = req[w]
              \/ ReadBaseAgain(w)
         /\ pc'[w] \in {"record", "count"} =>
              /\ req'[w] = req[w]
              /\ pc[w] \in {"record", "count"} \/ SetLibraryAccess(w)
<1> USE DEF config, books, late, local
<1>1. CASE UNCHANGED <<pc, req>>
  BY <1>1
<1>2. ASSUME NEW v \in Workers, Receive(v) \/ Work(v) \/ Disconnect(v), v # w
      PROVE  pc'[w] = pc[w] /\ req'[w] = req[w]
  BY <1>2, OwnSlotOnly
<1>3. CASE Receive(w)
  BY <1>3 DEF Receive, Goto, TypeOK
<1>4. CASE Work(w)
  BY <1>4, NoFailure
     DEF Work, Lookup, CheckInvite, FetchToken, ReadBase, CreateUser,
         ReadBaseAgain, SetLibraryAccess, RecordRegistration, IncrementUse,
         ReadWebhook, SendMessage, Goto, Finish, TypeOK
<1>5. CASE ~ \E v \in Workers : Receive(v) \/ Work(v) \/ Disconnect(v)
  <2>1. UNCHANGED <<pc, req>>
    BY <1>5, NoFailure
       DEF Next, SaveJellyfinURL, Authenticate, SetJellyfinAdminToken,
           CreateInvite, RevokeInvite, LateUser, LatePolicy, Tick, vars
  <2> QED
    BY <1>1, <2>1
<1> QED
  BY <1>2, <1>3, <1>4, <1>5, NoFailure

LEMMA ScopedStep ==
  ASSUME TypeOK, Locals, Ownership, ScopeInv, Booked, ScopedInv, [Next]_vars
  PROVE  ScopedInv'
<1> SUFFICES ASSUME faults' = 0, OneServer
             PROVE  /\ \A w \in Workers : pc'[w] # "idle" => jellyfinURL' # None
                    /\ \A w \in Workers :
                         pc'[w] = "policy" => req'[w].base = req'[w].token
                    /\ \A w \in Workers :
                         pc'[w] \in {"record", "count"} => Scoped(AccountOf(w))'
                    /\ \A a \in counted' : Scoped(a)'
  BY DEF ScopedInv, OneServer
<1>0. /\ \A w \in Workers : pc[w] # "idle" => jellyfinURL # None
      /\ \A w \in Workers : pc[w] = "policy" => req[w].base = req[w].token
      /\ \A w \in Workers : pc[w] \in {"record", "count"} => Scoped(AccountOf(w))
      /\ \A a \in counted : Scoped(a)
  BY NoFailure DEF ScopedInv
<1>1. jellyfinURL # None => jellyfinURL' # None
  BY RegistrationAssumption
     DEF Next, Work, vars, Receive, Lookup, CheckInvite, FetchToken, ReadBase,
         CreateUser, ReadBaseAgain, SetLibraryAccess, RecordRegistration,
         IncrementUse, ReadWebhook, SendMessage, Disconnect, Restart,
         SaveJellyfinURL, Authenticate, SetJellyfinAdminToken, CreateInvite,
         RevokeInvite, LateUser, LatePolicy, Tick, config, books, late, local
<1>2. ASSUME NEW w \in Workers, pc'[w] # "idle"  PROVE jellyfinURL' # None
  BY <1>0, <1>1, <1>2, WayToRecord DEF Receive
<1>3. ASSUME NEW w \in Workers, pc'[w] = "policy"
      PROVE  req'[w].base = req'[w].token
  <2>1. CASE ReadBaseAgain(w)
    <3>1. /\ req' = [req EXCEPT ![w].base = jellyfinURL]
          /\ jellyfinURL \in Servers /\ req[w].token \in Servers
      BY <1>0, <1>3, <2>1, NoFailure
         DEF ReadBaseAgain, Goto, TypeOK, Locals, LocalsOK
    <3>2. req'[w].base = jellyfinURL /\ req'[w].token = req[w].token
      BY <3>1 DEF TypeOK, Request
    <3> QED
      BY <3>1, <3>2 DEF OneServer
  <2> QED
    BY <1>0, <1>3, <2>1, WayToRecord
<1>4. ASSUME NEW w \in Workers, pc'[w] \in {"record", "count"}
      PROVE  Scoped(AccountOf(w))'
  <2>1. AccountOf(w)' = AccountOf(w)
    BY <1>4, WayToRecord DEF AccountOf
  <2>2. CASE SetLibraryAccess(w)
    <3>1. req[w].base = req[w].token
      BY <1>0, <2>2 DEF SetLibraryAccess
    <3> QED
      BY <2>2, <3>1, NoFailure, PolicyPosted DEF SetLibraryAccess
  <2>3. CASE pc[w] \in {"record", "count"}
    <3>1. AccountOf(w) \in accounts /\ Scoped(AccountOf(w))
      BY <1>0, <2>3 DEF InHand, Ownership
    <3>2. \A a \in accounts : Scoped(a) => Scoped(a)'
      BY ScopedKept
    <3> QED
      BY <2>1, <3>1, <3>2 DEF Scoped
  <2> QED
    BY <1>4, <2>2, <2>3, WayToRecord
<1>5. ASSUME NEW a \in counted'  PROVE Scoped(a)'
  <2>1. a \in counted \/ \E w \in Workers : pc[w] = "count" /\ a = AccountOf(w)
    BY BooksStep DEF IncrementUse
  <2>2. a \in accounts /\ Scoped(a)
    BY <1>0, <2>1 DEF Ownership, InHand
  <2> QED
    BY <2>2, ScopedKept
<1> QED
  BY <1>2, <1>3, <1>4, <1>5

(* As long as nothing fails and there is one Jellyfin server, an account   *)
(* that was counted has the scope its invite promises: HandleInviteSubmit  *)
(* posts the policy before it records and counts.                          *)
THEOREM ScopeIsApplied == Spec => []ScopeApplied
<1>1. Init => ScopedInv
  BY DEF Init, ScopedInv
<1>2. LedgerInv /\ ScopeInv /\ Booked /\ ScopedInv /\ [Next]_vars => ScopedInv'
  BY ScopedStep DEF LedgerInv
<1>3. LedgerInv /\ ScopedInv => ScopeApplied
  <2> SUFFICES ASSUME LedgerInv, ScopedInv, faults = 0, OneServer,
                      NEW a \in counted
               PROVE  Seen(a) \in Promised(a.via)
    BY DEF ScopeApplied, OneServer
  <2>1. Visible(Meant(a)) \in Promised(a.via)
    BY MeantShows DEF LedgerInv, Ownership
  <2> QED
    BY <2>1 DEF ScopedInv, Scoped, Seen
<1>4. Init => Booked
  BY DEF Init, Booked, InHand
<1>5. LedgerInv /\ Booked /\ [Next]_vars => Booked'
  BY BookedStep DEF LedgerInv
<1> QED
  BY <1>1, <1>2, <1>3, <1>4, <1>5, ScopeInvariant, PTL DEF Spec

-----------------------------------------------------------------------------
(* What a worker knows when it comes to notify, and what messages say.     *)
CountedBy(w) ==
  /\ AccountOf(w) \in accounts
  /\ faults = 0 =>
       /\ AccountOf(w) \in registrations \cap counted
       /\ req[w].snap.useCount + 1 <= invites[req[w].invite].useCount

NoticesInv ==
  /\ \A w \in Workers : pc[w] \in {"notify", "discord"} => CountedBy(w)
  /\ NoticesFollowBooks

LEMMA NoticesStep ==
  ASSUME LedgerInv, Booked, NoticesInv, [Next]_vars
  PROVE  NoticesInv'
<1> USE DEF config, books, late, local
<1>t. TypeOK /\ Locals /\ Ownership
  BY DEF LedgerInv
<1>0. /\ accounts \subseteq accounts' /\ counted \subseteq counted'
      /\ registrations \subseteq registrations'
      /\ faults' = 0 => faults = 0
  BY <1>t, BooksStep, NoFailure
<1>1. \A i \in Invites : invites[i] # None =>
        /\ invites[i].useCount \in Nat /\ invites'[i].useCount \in Nat
        /\ invites[i].useCount <= invites'[i].useCount
  BY <1>t, RowsOnlyClose DEF SnapshotOf, Invite
<1>2. ASSUME NEW n \in notices
      PROVE  \E a \in Via(n.invite)' :
               /\ a.user = n.user
               /\ faults' = 0 => /\ a \in registrations' \cap counted'
                                 /\ n.count <= invites'[n.invite].useCount
  <2>1. n.invite \in Invites /\ n.count \in Nat
    BY <1>t DEF TypeOK, Notice
  <2>2. PICK a \in Via(n.invite) :
          /\ a.user = n.user
          /\ faults = 0 => /\ a \in registrations \cap counted
                           /\ n.count <= invites[n.invite].useCount
    BY DEF NoticesInv, NoticesFollowBooks
  <2>3. a \in Via(n.invite)' /\ invites[n.invite] # None
    BY <1>t, <1>0, <2>2 DEF Via, Ownership
  <2> QED
    BY <1>0, <1>1, <2>1, <2>2, <2>3
<1>3. ASSUME NEW w \in Workers, SendMessage(w)
      PROVE  \E a \in accounts' :
               /\ a.via = req[w].invite /\ a.user = req[w].user
               /\ faults' = 0 =>
                    /\ a \in registrations' \cap counted'
                    /\ req[w].snap.useCount + 1
                         <= invites'[req[w].invite].useCount
  <2>1. CountedBy(w) /\ UNCHANGED <<accounts, registrations, counted, invites>>
    BY <1>3 DEF NoticesInv, SendMessage
  <2>2. /\ AccountOf(w) \in accounts'
        /\ AccountOf(w).via = req[w].invite /\ AccountOf(w).user = req[w].user
    BY <2>1 DEF CountedBy, AccountOf
  <2> QED
    BY <1>0, <2>1, <2>2 DEF CountedBy
<1>4. NoticesFollowBooks'
  <2>1. CASE UNCHANGED notices
    BY <1>2, <2>1 DEF NoticesFollowBooks
  <2>2. ASSUME NEW w \in Workers, SendMessage(w) PROVE NoticesFollowBooks'
    <3> DEFINE m == [ invite |-> req[w].invite, user |-> req[w].user,
                      count |-> req[w].snap.useCount + 1 ]
    <3>1. notices' \subseteq notices \cup {m}
      BY <2>2 DEF SendMessage
    <3>2. /\ m.invite = req[w].invite /\ m.user = req[w].user
          /\ m.count = req[w].snap.useCount + 1
      OBVIOUS
    <3> HIDE DEF m
    <3> QED
      BY <1>2, <1>3, <2>2, <3>1, <3>2 DEF NoticesFollowBooks, Via
  <2>3. UNCHANGED notices \/ \E w \in Workers : SendMessage(w)
    BY DEF Next, Work, vars, Receive, Lookup, CheckInvite, FetchToken, ReadBase,
           CreateUser, ReadBaseAgain, SetLibraryAccess, RecordRegistration,
           IncrementUse, ReadWebhook, Disconnect, Restart, SaveJellyfinURL,
           Authenticate, SetJellyfinAdminToken, CreateInvite, RevokeInvite,
           LateUser, LatePolicy, Tick
  <2> QED
    BY <2>1, <2>2, <2>3
<1>5. ASSUME NEW w \in Workers, pc[w] \in {"notify", "discord"},
             req'[w] = req[w]
      PROVE  CountedBy(w)'
  <2>1. /\ CountedBy(w)
        /\ req[w].invite \in Invites /\ invites[req[w].invite] # None
        /\ req[w].snap.useCount \in Nat
    BY <1>5, <1>t, RegistrationAssumption
       DEF NoticesInv, Locals, LocalsOK, SnapshotOf, Invite
  <2> QED
    BY <1>0, <1>1, <1>5, <2>1 DEF CountedBy, AccountOf
<1>6. ASSUME NEW w \in Workers, IncrementUse(w)
      PROVE  CountedBy(w)'
  <2>1. w \in InHand /\ pc[w] = "count" /\ req'[w] = req[w]
    BY <1>6 DEF IncrementUse, InHand
  <2>2. AccountOf(w) \in accounts /\ AccountOf(w)' = AccountOf(w)
    BY <2>1, <1>t DEF Ownership, AccountOf
  <2>3. /\ SnapshotOf(req[w].snap, invites[req[w].invite])
        /\ req[w].invite \in Invites
    BY <1>t, <2>1 DEF Locals, LocalsOK
  <2>4. ASSUME faults' = 0
        PROVE  /\ AccountOf(w) \in registrations' \cap counted'
               /\ req[w].snap.useCount + 1 <= invites'[req[w].invite].useCount
    <3>1. /\ invites' = [invites EXCEPT ![req[w].invite].useCount = @ + 1]
          /\ counted' = counted \cup {AccountOf(w)}
      BY <1>t, <1>6, <2>4, NoFailure DEF IncrementUse
    <3>2. AccountOf(w) \in registrations
      BY <1>0, <2>1, <2>4 DEF Booked
    <3>3. invites'[req[w].invite].useCount = invites[req[w].invite].useCount + 1
      BY <1>t, <2>3, <3>1 DEF TypeOK, SnapshotOf, Invite
    <3> QED
      BY <1>0, <2>3, <3>1, <3>2, <3>3 DEF SnapshotOf, Invite
  <2> QED
    BY <1>0, <2>1, <2>2, <2>4 DEF CountedBy
<1>7. ASSUME NEW w \in Workers, pc'[w] \in {"notify", "discord"}
      PROVE  IncrementUse(w) \/ (pc[w] \in {"notify", "discord"} /\ req'[w] = req[w])
  <2>1. ASSUME NEW v \in Workers, Receive(v) \/ Work(v) \/ Disconnect(v), v # w
        PROVE  pc'[w] = pc[w] /\ req'[w] = req[w]
    BY <1>t, <2>1, OwnSlotOnly
  <2>2. CASE Receive(w) \/ Lookup(w) \/ CheckInvite(w) \/ FetchToken(w)
    BY <1>t, <1>7, <2>2 DEF Receive, Lookup, CheckInvite, FetchToken, Goto,
                            Finish, TypeOK
  <2>3. CASE ReadBase(w) \/ CreateUser(w) \/ ReadBaseAgain(w)
    BY <1>t, <1>7, <2>3 DEF ReadBase, CreateUser, ReadBaseAgain, Goto, Finish,
                            TypeOK
  <2>4. CASE SetLibraryAccess(w) \/ RecordRegistration(w)
    BY <1>t, <1>7, <2>4 DEF SetLibraryAccess, RecordRegistration, Goto, TypeOK
  <2>5. CASE ReadWebhook(w) \/ SendMessage(w)
    BY <1>t, <1>7, <2>5 DEF ReadWebhook, SendMessage, Goto, Finish, TypeOK
  <2>6. CASE Disconnect(w)
    BY <1>7, <2>6 DEF Disconnect
  <2>7. CASE Restart
    BY <1>7, <2>7 DEF Restart
  <2>8. CASE UNCHANGED <<pc, req>>
    BY <1>7, <2>8
  <2> QED
    BY <1>7, <2>1, <2>2, <2>3, <2>4, <2>5, <2>6, <2>7, <2>8
       DEF Next, Work, SaveJellyfinURL, Authenticate, SetJellyfinAdminToken,
           CreateInvite, RevokeInvite, LateUser, LatePolicy, Tick, vars
<1> QED
  BY <1>4, <1>5, <1>6, <1>7 DEF NoticesInv

(* A Discord message is about an account of its invite; without failures   *)
(* it claims no more uses than the row has (InviteUsed).                   *)
THEOREM NoticesAreBacked == Spec => []NoticesFollowBooks
<1>1. Init => Booked /\ NoticesInv
  BY DEF Init, Booked, InHand, NoticesInv, NoticesFollowBooks
<1>2. LedgerInv /\ Booked /\ NoticesInv /\ [Next]_vars =>
        Booked' /\ NoticesInv'
  BY BookedStep, NoticesStep DEF LedgerInv
<1>3. NoticesInv => NoticesFollowBooks
  BY DEF NoticesInv
<1> QED
  BY <1>1, <1>2, <1>3, LedgerInvariant, PTL DEF Spec
-----------------------------------------------------------------------------
(* Messages that give invite i the number k, and workers whose snapshot    *)
(* would make them send another.                                           *)
Numbered(i, k) == { n \in notices : n.invite = i /\ n.count = k }

Holders(i, k) ==
  { w \in Workers :
      /\ pc[w] \notin {"idle", "lookup"}
      /\ req[w].invite = i /\ req[w].snap.useCount + 1 = k }

(* NumbersShared, made inductive: a worker is in one of the two at a time. *)
NumbersInv ==
  faults = 0 => \A i \in Invites, k \in Nat :
    /\ IsFiniteSet(Numbered(i, k))
    /\ Cardinality(Numbered(i, k)) + Cardinality(Holders(i, k))
         <= Cardinality(Workers)

(* A worker comes to a number only by reading a row that is one use short  *)
(* of it.                                                                  *)
LEMMA HoldersStep ==
  ASSUME TypeOK, [Next]_vars, NEW i \in Invites, NEW k \in Nat,
         NEW v \in Holders(i, k)'
  PROVE  /\ v \in Workers
         /\ \/ v \in Holders(i, k)
            \/ /\ Lookup(v) /\ UNCHANGED <<notices, invites>>
               /\ invites[i] # None /\ invites[i].useCount + 1 = k
<1> USE DEF Holders, config, books, late, local
<1>0. v \in Workers
  OBVIOUS
<1>1. ASSUME NEW w \in Workers, Receive(w) \/ Work(w) \/ Disconnect(w), w # v
      PROVE  v \in Holders(i, k)
  BY <1>0, <1>1, OwnSlotOnly
<1>2. CASE Receive(v)
  BY <1>0, <1>2 DEF Receive, Goto, TypeOK
<1>3. CASE Lookup(v)
  <2>1. ~Finish(v)
    BY <1>0 DEF Finish, TypeOK
  <2>2. /\ req[v].invite = i /\ UNCHANGED <<notices, invites>>
        /\ invites[i] # None /\ req'[v].snap = invites[i]
    BY <1>0, <1>3, <2>1 DEF Lookup, TypeOK, Request
  <2> QED
    BY <1>0, <1>3, <2>2
<1>4. CASE CheckInvite(v)
  BY <1>0, <1>4 DEF CheckInvite, Goto, Finish, TypeOK
<1>5. CASE FetchToken(v) \/ ReadBase(v)
  BY <1>0, <1>5 DEF FetchToken, ReadBase, Goto, Finish, TypeOK, Request
<1>6. CASE CreateUser(v)
  BY <1>0, <1>6 DEF CreateUser, Goto, Finish, TypeOK
<1>7. CASE ReadBaseAgain(v)
  BY <1>0, <1>7 DEF ReadBaseAgain, Goto, TypeOK, Request
<1>8. CASE SetLibraryAccess(v) \/ RecordRegistration(v) \/ IncrementUse(v)
  BY <1>0, <1>8 DEF SetLibraryAccess, RecordRegistration, IncrementUse, Goto
<1>9. CASE ReadWebhook(v) \/ SendMessage(v)
  BY <1>0, <1>9 DEF ReadWebhook, SendMessage, Goto, Finish, TypeOK
<1>10. CASE Disconnect(v)
  BY <1>0, <1>10 DEF Disconnect
<1>11. CASE Restart
  BY <1>0, <1>11 DEF Restart
<1>12. CASE UNCHANGED <<pc, req>>
  BY <1>0, <1>12
<1> QED
  BY <1>0, <1>1, <1>2, <1>3, <1>4, <1>5, <1>6, <1>7, <1>8, <1>9, <1>10, <1>11,
     <1>12
     DEF Next, Work, SaveJellyfinURL, Authenticate, SetJellyfinAdminToken,
         CreateInvite, RevokeInvite, LateUser, LatePolicy, Tick, vars

(* The number a worker's message gives.                                    *)
NoticeOf(w) == [ invite |-> req[w].invite, user |-> req[w].user,
                 count |-> req[w].snap.useCount + 1 ]

LEMMA NumberedStep ==
  ASSUME TypeOK, [Next]_vars
  PROVE  \/ UNCHANGED notices
         \/ \E w \in Workers :
              SendMessage(w) /\ notices' = notices \cup {NoticeOf(w)}
BY DEF Next, Work, vars, Receive, Lookup, CheckInvite, FetchToken, ReadBase,
       CreateUser, ReadBaseAgain, SetLibraryAccess, RecordRegistration,
       IncrementUse, ReadWebhook, SendMessage, NoticeOf, Disconnect, Restart,
       SaveJellyfinURL, Authenticate, SetJellyfinAdminToken, CreateInvite,
       RevokeInvite, LateUser, LatePolicy, Tick, books

(* A number beyond the row's use count has not been sent.                  *)
LEMMA FreshNumber ==
  ASSUME TypeOK, NoticesFollowBooks, faults = 0, NEW i \in Invites,
         invites[i] # None
  PROVE  Numbered(i, invites[i].useCount + 1) = {}
<1> SUFFICES ASSUME NEW n \in notices, n.invite = i,
                    n.count = invites[i].useCount + 1
             PROVE  FALSE
  BY DEF Numbered
<1>1. n.count <= invites[i].useCount /\ invites[i].useCount \in Nat
  BY DEF NoticesFollowBooks, TypeOK, Invite
<1> QED
  BY <1>1

LEMMA NumbersStep ==
  ASSUME LedgerInv, Booked, NoticesFollowBooks, NumbersInv, [Next]_vars
  PROVE  NumbersInv'
<1> SUFFICES ASSUME faults' = 0, NEW i \in Invites, NEW k \in Nat
             PROVE  /\ IsFiniteSet(Numbered(i, k)')
                    /\ Cardinality(Numbered(i, k)') + Cardinality(Holders(i, k)')
                         <= Cardinality(Workers)
  BY DEF NumbersInv
<1> DEFINE N == Numbered(i, k)
           H == Holders(i, k)
<1>t. TypeOK /\ faults = 0
  BY NoFailure DEF LedgerInv
<1>0. /\ IsFiniteSet(N) /\ Cardinality(N) + Cardinality(H) <= Cardinality(Workers)
      /\ Cardinality(N) \in Nat
  BY <1>t, FS_CardinalityType DEF NumbersInv
<1>f. /\ Cardinality(Workers) \in Nat
      /\ IsFiniteSet(H) /\ Cardinality(H) \in Nat
      /\ IsFiniteSet(H') /\ Cardinality(H') \in Nat
      /\ Cardinality(H') <= Cardinality(Workers)
  <2>1. H \subseteq Workers /\ H' \subseteq Workers
    BY DEF Holders
  <2> QED
    BY <2>1, RegistrationAssumption, FS_Subset, FS_CardinalityType
<1>1. ASSUME NEW v \in Workers, Lookup(v), UNCHANGED <<notices, invites>>,
             invites[i] # None, invites[i].useCount + 1 = k
      PROVE  N' = {}
  BY <1>t, <1>1, FreshNumber DEF Numbered
<1>2. CASE UNCHANGED notices
  <2>1. N' = N
    BY <1>2 DEF Numbered
  <2>2. CASE N' = {}
    BY <1>f, <2>2, FS_EmptySet
  <2>3. CASE H' \subseteq H
    <3>1. Cardinality(H') <= Cardinality(H)
      BY <1>f, <2>3, FS_Subset
    <3> QED
      BY <1>0, <1>f, <2>1, <3>1
  <2> QED
    BY <1>1, <1>t, <2>2, <2>3, HoldersStep
<1>3. ASSUME NEW w \in Workers, SendMessage(w),
             notices' = notices \cup {NoticeOf(w)}, notices' # notices
      PROVE  /\ IsFiniteSet(N')
             /\ Cardinality(N') + Cardinality(H') <= Cardinality(Workers)
  <2>1. H' \subseteq H
    BY <1>t, <1>3, HoldersStep
  <2>2. pc[w] = "discord" /\ pc'[w] = "idle"
    BY <1>t, <1>3 DEF SendMessage, Finish, TypeOK
  <2>3. /\ NoticeOf(w).invite = req[w].invite
        /\ NoticeOf(w).count = req[w].snap.useCount + 1
    BY DEF NoticeOf
  <2>4. CASE NoticeOf(w).invite = i /\ NoticeOf(w).count = k
    <3>1. N' \subseteq N \cup {NoticeOf(w)}
      BY <1>3 DEF Numbered
    <3>2. w \in H /\ H' \subseteq H \ {w}
      BY <2>1, <2>2, <2>3, <2>4 DEF Holders
    <3>3. /\ IsFiniteSet(N \cup {NoticeOf(w)})
          /\ Cardinality(N \cup {NoticeOf(w)}) \in Nat
          /\ Cardinality(N \cup {NoticeOf(w)}) <= Cardinality(N) + 1
      BY <1>0, AtMostOneMore
    <3>4. /\ IsFiniteSet(N') /\ Cardinality(N') \in Nat
          /\ Cardinality(N') <= Cardinality(N \cup {NoticeOf(w)})
      BY <3>1, <3>3, FS_Subset, FS_CardinalityType
    <3>5. /\ IsFiniteSet(H \ {w})
          /\ Cardinality(H \ {w}) = Cardinality(H) - 1
      BY <1>f, <3>2, FS_RemoveElement
    <3>6. Cardinality(H') <= Cardinality(H) - 1
      BY <3>2, <3>5, FS_Subset
    <3> QED
      BY <1>0, <1>f, <3>3, <3>4, <3>6
  <2>5. CASE ~(NoticeOf(w).invite = i /\ NoticeOf(w).count = k)
    <3>1. N' = N
      BY <1>3, <2>5 DEF Numbered
    <3>2. Cardinality(H') <= Cardinality(H)
      BY <1>f, <2>1, FS_Subset
    <3> QED
      BY <1>0, <1>f, <3>1, <3>2
  <2> QED
    BY <2>4, <2>5
<1> QED
  BY <1>t, <1>2, <1>3, NumberedStep

LEMMA NumbersInvariant == Spec => [](LedgerInv /\ NumbersInv)
<1>1. Init => NumbersInv
  <2> SUFFICES ASSUME Init, NEW i \in Invites, NEW k \in Nat
               PROVE  /\ IsFiniteSet(Numbered(i, k))
                      /\ Cardinality(Numbered(i, k)) + Cardinality(Holders(i, k))
                           <= Cardinality(Workers)
    BY DEF NumbersInv
  <2>1. Numbered(i, k) = {} /\ Holders(i, k) = {}
    BY DEF Init, Numbered, Holders
  <2>2. Cardinality(Workers) \in Nat
    BY RegistrationAssumption, FS_CardinalityType
  <2> QED
    BY <2>1, <2>2, FS_EmptySet
<1>2. Init => Booked
  BY DEF Init, Booked, InHand
<1>3. LedgerInv /\ Booked /\ [Next]_vars => Booked'
  BY BookedStep DEF LedgerInv
<1>4. LedgerInv /\ Booked /\ NoticesFollowBooks /\ NumbersInv /\ [Next]_vars =>
        NumbersInv'
  BY NumbersStep
<1> QED
  BY <1>1, <1>2, <1>3, <1>4, LedgerInvariant, NoticesAreBacked, PTL DEF Spec

(* No number of an invite is announced more often than there are workers,  *)
(* as long as nothing fails (HandleInviteSubmit, InviteUsed).              *)
THEOREM NumbersSharedByFew == Spec => []NumbersShared
<1>1. LedgerInv /\ NumbersInv => NumbersShared
  <2> SUFFICES ASSUME LedgerInv, NumbersInv, faults = 0, NEW i \in Invites,
                      NEW n \in notices
               PROVE  Cardinality(Numbered(i, n.count)) <= Cardinality(Workers)
    BY DEF NumbersShared, Numbered
  <2> DEFINE k == n.count
  <2>1. k \in Nat
    BY DEF LedgerInv, TypeOK, Notice
  <2>2. Holders(i, k) \subseteq Workers
    BY DEF Holders
  <2> HIDE DEF k
  <2>3. /\ IsFiniteSet(Numbered(i, k))
        /\ Cardinality(Numbered(i, k)) + Cardinality(Holders(i, k))
             <= Cardinality(Workers)
    BY <2>1 DEF NumbersInv
  <2>4. /\ Cardinality(Numbered(i, k)) \in Nat
        /\ Cardinality(Holders(i, k)) \in Nat /\ Cardinality(Workers) \in Nat
    BY <2>2, <2>3, RegistrationAssumption, FS_Subset, FS_CardinalityType
  <2> USE DEF k
  <2> QED
    BY <2>3, <2>4
<1> QED
  BY <1>1, NumbersInvariant, PTL

(* The comment's "correct count", where it holds.                          *)
NumbersDistinctWhenAlone ==
  Cardinality(Workers) = 1 /\ faults = 0 => NoticeNumbersDistinct

(* The count in the message is "the correct count" (invite.go) of requests *)
(* that come one at a time, as long as none of their calls fails.          *)
THEOREM NumbersDistinctAlone == Spec => []NumbersDistinctWhenAlone
<1>1. LedgerInv /\ NumbersInv => NumbersDistinctWhenAlone
  <2> SUFFICES ASSUME LedgerInv, NumbersInv, Cardinality(Workers) = 1, faults = 0,
                      NEW m \in notices, NEW n \in notices,
                      m.invite = n.invite, m.count = n.count
               PROVE  m = n
    BY DEF NumbersDistinctWhenAlone, NoticeNumbersDistinct
  <2> DEFINE i == n.invite
             k == n.count
  <2>1. i \in Invites /\ k \in Nat
    BY DEF LedgerInv, TypeOK, Notice
  <2>2. m \in Numbered(i, k) /\ n \in Numbered(i, k)
    BY DEF Numbered
  <2>3. Holders(i, k) \subseteq Workers
    BY DEF Holders
  <2> HIDE DEF i, k
  <2>4. /\ IsFiniteSet(Numbered(i, k))
        /\ Cardinality(Numbered(i, k)) + Cardinality(Holders(i, k)) <= 1
    BY <2>1 DEF NumbersInv
  <2>5. /\ Cardinality(Numbered(i, k)) \in Nat
        /\ Cardinality(Holders(i, k)) \in Nat
    BY <2>3, <2>4, RegistrationAssumption, FS_Subset, FS_CardinalityType
  <2>6. Cardinality(Numbered(i, k)) = 1
    BY <2>2, <2>4, <2>5, FS_EmptySet
  <2>7. PICK x : Numbered(i, k) = {x}
    BY <2>4, <2>6, FS_Singleton
  <2> QED
    BY <2>2, <2>7
<1> QED
  BY <1>1, NumbersInvariant, PTL
=============================================================================
