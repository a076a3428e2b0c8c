---------------------------- MODULE InviteProofs ----------------------------
(***************************************************************************)
(* Proofs about InviteRegistration for every set of workers, invites,      *)
(* users and servers, every bound on the clock and on failures.            *)
(***************************************************************************)
EXTENDS InviteSafety, FiniteSetTheorems, TLAPS

(* A snapshot and the row it was read from: the columns nobody updates are *)
(* equal, and the others have only moved towards "closed".                 *)
SnapshotOf(snap, row) ==
  /\ snap \in Invite /\ row \in Invite
  /\ snap.maxUses = row.maxUses
  /\ snap.expiresAt = row.expiresAt
  /\ snap.libs = row.libs
  /\ snap.useCount <= row.useCount
  /\ snap.revoked => row.revoked

Admits(snap) == snap.maxUses # Unlimited => snap.useCount < snap.maxUses

(* What the program counter says of the locals.                            *)
LocalsOK(w) ==
  /\ pc[w] = "idle" => req[w] = Blank /\ w \notin gone
  /\ pc[w] # "idle" => req[w].invite \in Invites /\ req[w].user \in Users
  /\ pc[w] \notin {"idle", "lookup"} =>
       SnapshotOf(req[w].snap, invites[req[w].invite])
  /\ pc[w] \notin {"idle", "lookup", "check"} => Admits(req[w].snap)
  /\ pc[w] \notin {"idle", "lookup", "check", "token"} =>
       req[w].token \in Servers

Locals == \A w \in Workers : LocalsOK(w)

-----------------------------------------------------------------------------
(* What the create form makes is a row of the table, if it is storable.    *)
LEMMA NewInviteType ==
  ASSUME NEW m \in Int \cup {Unlimited}, NEW e \in Int \cup {Never},
         NEW libs \in SUBSET Libraries, Storable(NewInvite(m, e, libs))
  PROVE  NewInvite(m, e, libs) \in Invite
BY RulesAssumption
   DEF NewInvite, Storable, Invite, ParsedMaxUses, ParsedExpiry

(* The status column and the gate agree on every row at every instant.     *)
LEMMA StatusAgrees ==
  ASSUME NEW inv \in Invite, NEW t \in Nat
  PROVE  DashboardStatus(inv, t) = "active" <=> IsValid(inv, t)
BY RulesAssumption DEF DashboardStatus, IsValid, Invite

(* A policy posted for a list of libraries shows these, or all for none.   *)
LEMMA PolicyShows ==
  ASSUME NEW libs \in SUBSET Libraries
  PROVE  /\ AccessPolicy(libs) \in Policy
         /\ Visible(AccessPolicy(libs)) = IF libs = {} THEN Libraries ELSE libs
BY DEF AccessPolicy, Policy, Visible

(* A refused row stays refused: time passes, and updates only close it.    *)
LEMMA InvalidStaysInvalid ==
  ASSUME NEW snap, NEW row, SnapshotOf(snap, row), NEW t \in Nat, NEW u \in Nat,
         t <= u, ~IsValid(snap, t)
  PROVE  ~IsValid(row, u)
BY RulesAssumption DEF SnapshotOf, IsValid, Invite

LEMMA SnapshotReflexive ==
  ASSUME NEW row \in Invite
  PROVE  SnapshotOf(row, row)
BY DEF SnapshotOf, Invite

LEMMA SnapshotTransitive ==
  ASSUME NEW snap, NEW row, NEW next,
         SnapshotOf(snap, row), SnapshotOf(row, next)
  PROVE  SnapshotOf(snap, next)
BY DEF SnapshotOf, Invite

-----------------------------------------------------------------------------
(* Rows only change as SnapshotOf allows, so snapshots stay snapshots: this *)
(* carries the locals of the workers a step does not touch.                *)
LEMMA OthersKeepLocals ==
  ASSUME Locals, NEW w \in Workers, pc'[w] = pc[w], req'[w] = req[w],
         w \in gone' => w \in gone \/ pc[w] # "idle",
         \A i \in Invites : invites[i] # None => SnapshotOf(invites[i], invites'[i])
  PROVE  LocalsOK(w)'
<1>1. CASE pc[w] \in {"idle", "lookup"}
  BY <1>1 DEF Locals, LocalsOK
<1>2. CASE pc[w] \notin {"idle", "lookup"}
  <2>1. /\ req[w].invite \in Invites
        /\ SnapshotOf(req[w].snap, invites[req[w].invite])
    BY <1>2 DEF Locals, LocalsOK
  <2>2. invites[req[w].invite] # None
    BY <2>1, RegistrationAssumption DEF SnapshotOf
  <2>3. SnapshotOf(req[w].snap, invites'[req[w].invite])
    BY <2>1, <2>2, SnapshotTransitive
  <2> QED
    BY <1>2, <2>3 DEF Locals, LocalsOK
<1> QED
  BY <1>1, <1>2

(* Which steps write the table of invites.                                 *)
LEMMA InvitesStep ==
  ASSUME [Next]_vars
  PROVE  \/ UNCHANGED invites
         \/ \E w \in Workers : IncrementUse(w)
         \/ \E i \in Invites : CreateInvite(i) \/ RevokeInvite(i)
<1> USE DEF config, books, late, local
<1>1. ASSUME NEW w \in Workers, Receive(w) \/ Work(w) \/ Disconnect(w)
      PROVE  UNCHANGED invites \/ IncrementUse(w)
  BY <1>1 DEF Receive, Work, Lookup, CheckInvite, FetchToken, ReadBase,
     CreateUser, ReadBaseAgain, SetLibraryAccess, RecordRegistration,
     ReadWebhook, SendMessage, Disconnect
<1>2. ASSUME \A w \in Workers : ~(Receive(w) \/ Work(w) \/ Disconnect(w)),
             \A i \in Invites : ~(CreateInvite(i) \/ RevokeInvite(i))
      PROVE  UNCHANGED invites
  BY <1>2 DEF Next, vars, Restart, SaveJellyfinURL, Authenticate,
     SetJellyfinAdminToken, LateUser, LatePolicy, Tick
<1> QED
  BY <1>1, <1>2

(* Rows are only added, counted up or revoked.                             *)
LEMMA RowsOnlyClose ==
  ASSUME TypeOK, Locals, [Next]_vars, NEW i \in Invites, invites[i] # None
  PROVE  SnapshotOf(invites[i], invites'[i])
<1> invites[i] \in Invite
  BY DEF TypeOK
<1>1. CASE UNCHANGED invites
  BY <1>1, SnapshotReflexive
<1>2. ASSUME NEW w \in Workers, IncrementUse(w)
      PROVE  SnapshotOf(invites[i], invites'[i])
  <2>1. CASE UNCHANGED invites
    BY <2>1, <1>1
  <2>2. CASE invites' = [invites EXCEPT ![req[w].invite].useCount = @ + 1]
    BY <2>2 DEF TypeOK, SnapshotOf, Invite
  <2> QED
    BY <1>2, <2>1, <2>2 DEF IncrementUse
<1>3. ASSUME NEW j \in Invites, CreateInvite(j)
      PROVE  SnapshotOf(invites[i], invites'[i])
  BY <1>3, SnapshotReflexive DEF CreateInvite, TypeOK
<1>4. ASSUME NEW j \in Invites, RevokeInvite(j)
      PROVE  SnapshotOf(invites[i], invites'[i])
  <2>1. CASE i = j
    <3>1. invites'[i] = [invites[i] EXCEPT !.revoked = TRUE]
      BY <1>4, <2>1 DEF RevokeInvite, TypeOK
    <3>2. invites'[i] \in Invite
      BY <3>1 DEF Invite
    <3>3. /\ invites'[i].maxUses = invites[i].maxUses
          /\ invites'[i].expiresAt = invites[i].expiresAt
          /\ invites'[i].libs = invites[i].libs
          /\ invites'[i].useCount = invites[i].useCount
      BY <3>1 DEF Invite
    <3>4. invites'[i].revoked
      BY <3>1 DEF Invite
    <3>5. invites[i].useCount <= invites[i].useCount
      BY DEF Invite
    <3> QED
      BY <3>2, <3>3, <3>4, <3>5 DEF SnapshotOf
  <2>2. CASE i # j
    BY <1>4, <2>2, SnapshotReflexive DEF RevokeInvite, TypeOK
  <2> QED
    BY <2>1, <2>2
<1> QED
  BY <1>1, <1>2, <1>3, <1>4, InvitesStep

-----------------------------------------------------------------------------
LEMMA BlankType == Blank \in Request
BY DEF Blank, Request

LEMMA GotoType ==
  ASSUME TypeOK, NEW w \in Workers, NEW step \in Steps, Goto(w, step)
  PROVE  pc' \in [Workers -> Steps] /\ gone' \subseteq Workers
BY DEF TypeOK, Goto

LEMMA FinishType ==
  ASSUME TypeOK, NEW w \in Workers, Finish(w)
  PROVE  /\ pc' \in [Workers -> Steps]
         /\ req' \in [Workers -> Request]
         /\ gone' \subseteq Workers
<1>1. pc' \in [Workers -> Steps]
  BY DEF TypeOK, Finish, Steps
<1>2. req' \in [Workers -> Request]
  BY BlankType DEF TypeOK, Finish
<1>3. gone' \subseteq Workers
  BY DEF TypeOK, Finish
<1> QED
  BY <1>1, <1>2, <1>3

LEMMA CallType ==
  ASSUME TypeOK, NEW w \in Workers, CallFails(w) \/ CallAnswers(w)
  PROVE  faults' \in Nat
BY DEF TypeOK, CallFails, CallAnswers

(* What workers can leave with Jellyfin: each has its own type, by the step *)
(* it is at.                                                               *)
LEMMA AbandonType ==
  ASSUME TypeOK, Locals, NEW ws \in SUBSET Workers, Abandon(ws)
  PROVE  lateUsers' \subseteq Account /\ latePolicies' \subseteq Posted
<1>1. ASSUME NEW w \in Posting(ws, "create") PROVE AccountOf(w) \in Account
  BY <1>1 DEF Posting, Locals, LocalsOK, AccountOf, Account
<1>2. ASSUME NEW w \in Posting(ws, "policy")
      PROVE  [ account |-> AccountOf(w),
               policy |-> AccessPolicy(req[w].snap.libs) ] \in Posted
  <2>1. /\ w \in Workers /\ pc[w] = "policy"
        /\ AccountOf(w) \in Account
    BY DEF Posting, Locals, LocalsOK, AccountOf, Account
  <2>2. req[w].snap.libs \in SUBSET Libraries
    BY <2>1 DEF Locals, LocalsOK, SnapshotOf, Invite
  <2> QED
    BY <2>1, <2>2, PolicyShows DEF Posted
<1> QED
  BY <1>1, <1>2 DEF Abandon, TypeOK

(* Assigning one local keeps a request a request.                          *)
LEMMA RequestUpdate ==
  ASSUME NEW r \in Request
  PROVE  /\ \A x \in Invite : [r EXCEPT !.snap = x] \in Request
         /\ \A x \in Servers \cup {None} :
              /\ [r EXCEPT !.token = x] \in Request
              /\ [r EXCEPT !.base = x] \in Request
         /\ \A i \in Invites, u \in Users :
              [Blank EXCEPT !.invite = i, !.user = u] \in Request
<1>1. ASSUME NEW x \in Invite PROVE [r EXCEPT !.snap = x] \in Request
  BY DEF Request
<1>2. ASSUME NEW x \in Servers \cup {None}
      PROVE  /\ [r EXCEPT !.token = x] \in Request
             /\ [r EXCEPT !.base = x] \in Request
  BY DEF Request
<1>3. ASSUME NEW i \in Invites, NEW u \in Users
      PROVE  [Blank EXCEPT !.invite = i, !.user = u] \in Request
  BY DEF Request, Blank
<1> QED
  BY <1>1, <1>2, <1>3

(* Types are preserved by each step, given what the locals are.            *)
LEMMA TypeStep ==
  ASSUME TypeOK, Locals, [Next]_vars
  PROVE  TypeOK'
<1> USE DEF config, books, late, local
<1>1. ASSUME NEW w \in Workers, Receive(w) PROVE TypeOK'
  <2>1. PICK i \in Invites, u \in Users :
          req' = [req EXCEPT ![w] = [Blank EXCEPT !.invite = i, !.user = u]]
    BY <1>1 DEF Receive
  <2>2. req' \in [Workers -> Request]
    BY <2>1, RequestUpdate, BlankType DEF TypeOK
  <2>3. pc' \in [Workers -> Steps] /\ gone' \subseteq Workers
    BY <1>1, GotoType DEF Receive, Steps
  <2> QED
    BY <1>1, <2>2, <2>3 DEF Receive, TypeOK
<1>2. ASSUME NEW w \in Workers, Lookup(w) PROVE TypeOK'
  <2>1. faults' \in Nat
    BY <1>2, CallType DEF Lookup
  <2>2. CASE Finish(w)
    BY <1>2, <2>1, <2>2, FinishType DEF Lookup, TypeOK
  <2>3. CASE ~Finish(w)
    <3>1. /\ invites[req[w].invite] # None
          /\ req' = [req EXCEPT ![w].snap = invites[req[w].invite]]
          /\ Goto(w, "check")
      BY <1>2, <2>3 DEF Lookup
    <3>2. req[w].invite \in Invites
      BY <1>2 DEF Lookup, Locals, LocalsOK
    <3>3. invites[req[w].invite] \in Invite
      BY <3>1, <3>2 DEF TypeOK
    <3>4. req' \in [Workers -> Request]
      BY <3>1, <3>3, RequestUpdate DEF TypeOK
    <3>5. pc' \in [Workers -> Steps] /\ gone' \subseteq Workers
      BY <3>1, GotoType DEF Steps
    <3> QED
      BY <1>2, <2>1, <3>4, <3>5 DEF Lookup, TypeOK
  <2> QED
    BY <2>2, <2>3
<1>3. ASSUME NEW w \in Workers, CheckInvite(w) PROVE TypeOK'
  <2>1. CASE Finish(w)
    BY <1>3, <2>1, FinishType DEF CheckInvite, TypeOK
  <2>2. CASE Goto(w, "token") /\ UNCHANGED req
    BY <1>3, <2>2, GotoType DEF CheckInvite, TypeOK, Steps
  <2> QED
    BY <1>3, <2>1, <2>2 DEF CheckInvite
<1>4. ASSUME NEW w \in Workers, FetchToken(w) PROVE TypeOK'
  <2>1. faults' \in Nat
    BY <1>4, CallType DEF FetchToken
  <2>2. CASE Finish(w)
    BY <1>4, <2>1, <2>2, FinishType DEF FetchToken, TypeOK
  <2>3. CASE /\ req' = [req EXCEPT ![w].token = adminToken]
             /\ Goto(w, "base")
    <3>1. req' \in [Workers -> Request]
      BY <2>3, RequestUpdate DEF TypeOK
    <3> QED
      BY <1>4, <2>1, <2>3, <3>1, GotoType DEF FetchToken, TypeOK, Steps
  <2> QED
    BY <1>4, <2>2, <2>3 DEF FetchToken
<1>5. ASSUME NEW w \in Workers, ReadBase(w) PROVE TypeOK'
  <2>1. faults' \in Nat
    BY <1>5, CallType DEF ReadBase
  <2>2. CASE Finish(w)
    BY <1>5, <2>1, <2>2, FinishType DEF ReadBase, TypeOK
  <2>3. CASE /\ req' = [req EXCEPT ![w].base = jellyfinURL]
             /\ Goto(w, "create")
    <3>1. req' \in [Workers -> Request]
      BY <2>3, RequestUpdate DEF TypeOK
    <3> QED
      BY <1>5, <2>1, <2>3, <3>1, GotoType DEF ReadBase, TypeOK, Steps
  <2> QED
    BY <1>5, <2>2, <2>3 DEF ReadBase
<1>6. ASSUME NEW w \in Workers, CreateUser(w) PROVE TypeOK'
  <2>1. faults' \in Nat
    BY <1>6, CallType DEF CreateUser
  <2>2. AccountOf(w) \in Account
    BY <1>6 DEF CreateUser, Locals, LocalsOK, AccountOf, Account
  <2>3. accounts' \subseteq Account
    BY <1>6, <2>2 DEF CreateUser, TypeOK
  <2>4. lateUsers' \subseteq Account /\ latePolicies' \subseteq Posted
    <3>1. UNCHANGED late \/ \E ws \in SUBSET {w} : Abandon(ws)
      BY <1>6 DEF CreateUser
    <3> QED
      BY <3>1, AbandonType DEF TypeOK
  <2>5. CASE Finish(w)
    BY <1>6, <2>1, <2>3, <2>4, <2>5, FinishType DEF CreateUser, TypeOK
  <2>6. CASE Goto(w, "policyBase") /\ UNCHANGED req
    BY <1>6, <2>1, <2>3, <2>4, <2>6, GotoType DEF CreateUser, TypeOK, Steps
  <2> QED
    BY <1>6, <2>5, <2>6 DEF CreateUser
<1>7. ASSUME NEW w \in Workers, ReadBaseAgain(w) PROVE TypeOK'
  <2>1. faults' \in Nat
    BY <1>7, CallType DEF ReadBaseAgain
  <2>2. req' \in [Workers -> Request]
    <3>1. CASE UNCHANGED req
      BY <3>1 DEF TypeOK
    <3>2. CASE req' = [req EXCEPT ![w].base = jellyfinURL]
      BY <3>2, RequestUpdate DEF TypeOK
    <3> QED
      BY <1>7, <3>1, <3>2 DEF ReadBaseAgain
  <2>3. pc' \in [Workers -> Steps] /\ gone' \subseteq Workers
    BY <1>7, GotoType DEF ReadBaseAgain, Steps
  <2> QED
    BY <1>7, <2>1, <2>2, <2>3 DEF ReadBaseAgain, TypeOK
<1>8. ASSUME NEW w \in Workers, SetLibraryAccess(w) PROVE TypeOK'
  <2>1. faults' \in Nat
    BY <1>8, CallType DEF SetLibraryAccess, TypeOK
  <2>2. AccessPolicy(req[w].snap.libs) \in Policy
    BY <1>8, PolicyShows
       DEF SetLibraryAccess, Locals, LocalsOK, SnapshotOf, Invite
  <2>3. policy' \in [Servers \X Users -> Policy]
    BY <1>8, <2>2 DEF SetLibraryAccess, TypeOK
  <2>4. pc' \in [Workers -> Steps] /\ gone' \subseteq Workers
    BY <1>8, GotoType DEF SetLibraryAccess, Steps
  <2>5. lateUsers' \subseteq Account /\ latePolicies' \subseteq Posted
    <3>1. UNCHANGED late \/ \E ws \in SUBSET {w} : Abandon(ws)
      BY <1>8 DEF SetLibraryAccess
    <3> QED
      BY <3>1, AbandonType DEF TypeOK
  <2> QED
    BY <1>8, <2>1, <2>3, <2>4, <2>5 DEF SetLibraryAccess, TypeOK
<1>9. ASSUME NEW w \in Workers, RecordRegistration(w) PROVE TypeOK'
  <2>1. faults' \in Nat
    BY <1>9, CallType DEF RecordRegistration, TypeOK
  <2>2. AccountOf(w) \in Account
    BY <1>9 DEF RecordRegistration, Locals, LocalsOK, AccountOf, Account
  <2>3. pc' \in [Workers -> Steps] /\ gone' \subseteq Workers
    BY <1>9, GotoType DEF RecordRegistration, Steps
  <2> QED
    BY <1>9, <2>1, <2>2, <2>3 DEF RecordRegistration, TypeOK
<1>10. ASSUME NEW w \in Workers, IncrementUse(w) PROVE TypeOK'
  <2>1. faults' \in Nat
    BY <1>10, CallType DEF IncrementUse, TypeOK
  <2>2. AccountOf(w) \in Account
    BY <1>10 DEF IncrementUse, Locals, LocalsOK, AccountOf, Account
  <2>3. pc' \in [Workers -> Steps] /\ gone' \subseteq Workers
    BY <1>10, GotoType DEF IncrementUse, Steps
  <2>4. invites' \in [Invites -> Invite \cup {None}]
    <3>1. invites[req[w].invite] \in Invite
      BY <1>10 DEF IncrementUse, Locals, LocalsOK, SnapshotOf
    <3>2. [invites[req[w].invite] EXCEPT !.useCount = @ + 1] \in Invite
      BY <3>1 DEF Invite
    <3> QED
      BY <1>10, <3>2 DEF IncrementUse, TypeOK
  <2> QED
    BY <1>10, <2>1, <2>2, <2>3, <2>4 DEF IncrementUse, TypeOK
<1>11. ASSUME NEW w \in Workers, ReadWebhook(w) PROVE TypeOK'
  <2>1. faults' \in Nat
    BY <1>11, CallType DEF ReadWebhook
  <2>2. CASE Finish(w)
    BY <1>11, <2>1, <2>2, FinishType DEF ReadWebhook, TypeOK
  <2>3. CASE Goto(w, "discord") /\ UNCHANGED req
    BY <1>11, <2>1, <2>3, GotoType DEF ReadWebhook, TypeOK, Steps
  <2> QED
    BY <1>11, <2>2, <2>3 DEF ReadWebhook
<1>12. ASSUME NEW w \in Workers, SendMessage(w) PROVE TypeOK'
  <2>1. [ invite |-> req[w].invite, user |-> req[w].user,
          count |-> req[w].snap.useCount + 1 ] \in Notice
    BY <1>12 DEF SendMessage, Locals, LocalsOK, SnapshotOf, Invite, Notice
  <2>2. notices' \subseteq Notice
    BY <1>12, <2>1 DEF SendMessage, TypeOK
  <2> QED
    BY <1>12, <2>2, FinishType DEF SendMessage, TypeOK
<1>13. ASSUME NEW w \in Workers, Disconnect(w) PROVE TypeOK'
  BY <1>13 DEF Disconnect, TypeOK
<1>14. CASE Restart
  <2>1. lateUsers' \subseteq Account /\ latePolicies' \subseteq Posted
    BY <1>14, AbandonType DEF Restart
  <2> QED
    BY <1>14, <2>1, BlankType DEF Restart, TypeOK, Steps
<1>15. ASSUME NEW s \in Servers, SaveJellyfinURL(s) PROVE TypeOK'
  BY <1>15 DEF SaveJellyfinURL, TypeOK
<1>16. CASE Authenticate
  BY <1>16 DEF Authenticate, TypeOK
<1>17. ASSUME NEW s \in Servers, SetJellyfinAdminToken(s) PROVE TypeOK'
  BY <1>17 DEF SetJellyfinAdminToken, TypeOK
<1>18. ASSUME NEW i \in Invites, CreateInvite(i) PROVE TypeOK'
  <2>1. PICK m \in FormMaxUses, e \in FormExpiries, libs \in FormLibraries :
          /\ Storable(NewInvite(m, e, libs))
          /\ invites' = [invites EXCEPT ![i] = NewInvite(m, e, libs)]
    BY <1>18 DEF CreateInvite
  <2>2. NewInvite(m, e, libs) \in Invite
    BY <2>1, NewInviteType, RegistrationAssumption
  <2> QED
    BY <1>18, <2>1, <2>2 DEF CreateInvite, TypeOK
<1>19. ASSUME NEW i \in Invites, RevokeInvite(i) PROVE TypeOK'
  <2>1. [invites[i] EXCEPT !.revoked = TRUE] \in Invite
    BY <1>19 DEF RevokeInvite, TypeOK, Invite
  <2> QED
    BY <1>19, <2>1 DEF RevokeInvite, TypeOK
<1>20. CASE Tick
  BY <1>20 DEF Tick, TypeOK
<1>21. ASSUME NEW a \in lateUsers, LateUser(a) PROVE TypeOK'
  BY <1>21 DEF LateUser, TypeOK
<1>22. ASSUME NEW p \in latePolicies, LatePolicy(p) PROVE TypeOK'
  <2>1. p.policy \in Policy
    BY DEF TypeOK, Posted
  <2>2. policy' \in [Servers \X Users -> Policy]
    BY <1>22, <2>1 DEF LatePolicy, TypeOK
  <2> QED
    BY <1>22, <2>2 DEF LatePolicy, TypeOK
<1>23. CASE UNCHANGED vars
  BY <1>23 DEF vars, TypeOK
<1> QED
  BY <1>1, <1>2, <1>3, <1>4, <1>5, <1>6, <1>7, <1>8, <1>9, <1>10, <1>11,
     <1>12, <1>13, <1>14, <1>15, <1>16, <1>17, <1>18, <1>19, <1>20, <1>21,
     <1>22, <1>23
     DEF Next, Work

-----------------------------------------------------------------------------
(* A worker's step touches no other worker's counter, locals or client.    *)
LEMMA OwnSlotOnly ==
  ASSUME TypeOK, NEW w \in Workers, Receive(w) \/ Work(w) \/ Disconnect(w),
         NEW v \in Workers, v # w
  PROVE  pc'[v] = pc[v] /\ req'[v] = req[v] /\ (v \in gone' <=> v \in gone)
<1> USE DEF TypeOK, Goto, Finish
<1>1. CASE Receive(w)
  BY <1>1 DEF Receive
<1>2. CASE Lookup(w)
  BY <1>2 DEF Lookup
<1>3. CASE CheckInvite(w)
  BY <1>3 DEF CheckInvite
<1>4. CASE FetchToken(w) \/ ReadBase(w) \/ ReadBaseAgain(w)
  BY <1>4 DEF FetchToken, ReadBase, ReadBaseAgain
<1>5. CASE CreateUser(w)
  BY <1>5 DEF CreateUser
<1>6. CASE SetLibraryAccess(w) \/ RecordRegistration(w) \/ IncrementUse(w)
  BY <1>6 DEF SetLibraryAccess, RecordRegistration, IncrementUse
<1>7. CASE ReadWebhook(w) \/ SendMessage(w)
  BY <1>7 DEF ReadWebhook, SendMessage
<1>8. CASE Disconnect(w)
  BY <1>8 DEF Disconnect
<1> QED
  BY <1>1, <1>2, <1>3, <1>4, <1>5, <1>6, <1>7, <1>8 DEF Work

(* A worker past the lookup keeps a snapshot of the row through any step.  *)
LEMMA SnapshotKept ==
  ASSUME TypeOK, Locals, [Next]_vars, NEW w \in Workers,
         pc[w] \notin {"idle", "lookup"}
  PROVE  SnapshotOf(req[w].snap, invites'[req[w].invite])
<1>1. /\ req[w].invite \in Invites
      /\ SnapshotOf(req[w].snap, invites[req[w].invite])
  BY DEF Locals, LocalsOK
<1>2. invites[req[w].invite] # None
  BY <1>1, RegistrationAssumption DEF SnapshotOf
<1> QED
  BY <1>1, <1>2, RowsOnlyClose, SnapshotTransitive

LEMMA FinishLocals ==
  ASSUME TypeOK, NEW w \in Workers, Finish(w)
  PROVE  LocalsOK(w)'
BY DEF TypeOK, Finish, LocalsOK

LEMMA LocalsStep ==
  ASSUME TypeOK, Locals, [Next]_vars
  PROVE  Locals'
<1> USE DEF config, books, late, local
<1>0. ASSUME NEW w \in Workers, Receive(w) \/ Work(w) \/ Disconnect(w),
             LocalsOK(w)'
      PROVE  Locals'
  <2> SUFFICES ASSUME NEW v \in Workers, v # w PROVE LocalsOK(v)'
    BY <1>0 DEF Locals
  <2> QED
    BY <1>0, OwnSlotOnly, OthersKeepLocals, RowsOnlyClose
<1>a. ASSUME NEW w \in Workers PROVE LocalsOK(w)
  BY DEF Locals
<1>1. ASSUME NEW w \in Workers, Receive(w) PROVE Locals'
  <2>1. \E i \in Invites, u \in Users :
          req'[w] = [Blank EXCEPT !.invite = i, !.user = u]
    BY <1>1 DEF Receive, TypeOK
  <2>2. req'[w].invite \in Invites /\ req'[w].user \in Users
    BY <2>1 DEF Blank
  <2>3. pc'[w] = "lookup"
    BY <1>1 DEF Receive, Goto, TypeOK
  <2> QED
    BY <1>0, <1>1, <2>2, <2>3 DEF LocalsOK
<1>2. ASSUME NEW w \in Workers, Lookup(w) PROVE Locals'
  <2>1. CASE Finish(w)
    BY <1>0, <1>2, <2>1, FinishLocals DEF Work
  <2>2. CASE ~Finish(w)
    <3>1. /\ invites[req[w].invite] # None
          /\ req' = [req EXCEPT ![w].snap = invites[req[w].invite]]
          /\ Goto(w, "check")
          /\ UNCHANGED invites
      BY <1>2, <2>2 DEF Lookup
    <3>2. req[w].invite \in Invites /\ req[w].user \in Users
      BY <1>2, <1>a DEF Lookup, LocalsOK
    <3>3. /\ req'[w].snap = invites[req[w].invite]
          /\ req'[w].invite = req[w].invite
          /\ req'[w].user = req[w].user
      BY <3>1 DEF TypeOK, Request
    <3>4. SnapshotOf(req'[w].snap, invites'[req'[w].invite])
      BY <3>1, <3>2, <3>3, SnapshotReflexive DEF TypeOK
    <3>5. pc'[w] = "check"
      BY <3>1 DEF Goto, TypeOK
    <3> QED
      BY <1>0, <1>2, <3>2, <3>3, <3>4, <3>5 DEF Work, LocalsOK
  <2> QED
    BY <2>1, <2>2
<1>3. ASSUME NEW w \in Workers, CheckInvite(w) PROVE Locals'
  <2>1. CASE Finish(w)
    BY <1>0, <1>3, <2>1, FinishLocals DEF Work
  <2>2. CASE IsValid(req[w].snap, now) /\ Goto(w, "token") /\ UNCHANGED req
    <3>1. pc[w] = "check" /\ pc'[w] = "token" /\ req'[w] = req[w]
      BY <1>3, <2>2 DEF CheckInvite, Goto, TypeOK
    <3>2. Admits(req[w].snap)
      BY <2>2 DEF IsValid, Admits
    <3> QED
      BY <1>0, <1>3, <1>a, <3>1, <3>2, SnapshotKept DEF Work, LocalsOK
  <2> QED
    BY <1>3, <2>1, <2>2 DEF CheckInvite
<1>4. ASSUME NEW w \in Workers, FetchToken(w) PROVE Locals'
  <2>1. CASE Finish(w)
    BY <1>0, <1>4, <2>1, FinishLocals DEF Work
  <2>2. CASE /\ adminToken # None
             /\ req' = [req EXCEPT ![w].token = adminToken]
             /\ Goto(w, "base")
    <3>1. /\ pc[w] = "token" /\ pc'[w] = "base"
          /\ req'[w].invite = req[w].invite /\ req'[w].user = req[w].user
          /\ req'[w].snap = req[w].snap /\ req'[w].token \in Servers
      BY <1>4, <2>2 DEF FetchToken, Goto, TypeOK, Request
    <3> QED
      BY <1>0, <1>4, <1>a, <3>1, SnapshotKept DEF Work, LocalsOK
  <2> QED
    BY <1>4, <2>1, <2>2 DEF FetchToken
<1>5. ASSUME NEW w \in Workers, ReadBase(w) \/ ReadBaseAgain(w) PROVE Locals'
  <2>1. CASE Finish(w)
    BY <1>0, <1>5, <2>1, FinishLocals DEF Work
  <2>2. CASE ~Finish(w)
    <3>1. /\ pc[w] \in {"base", "policyBase"}
          /\ pc'[w] \in {"create", "policy", "record"}
          /\ req' = [req EXCEPT ![w].base = jellyfinURL] \/ UNCHANGED req
      BY <1>5, <2>2 DEF ReadBase, ReadBaseAgain, Goto, TypeOK
    <3>2. /\ req'[w].invite = req[w].invite /\ req'[w].user = req[w].user
          /\ req'[w].snap = req[w].snap /\ req'[w].token = req[w].token
      BY <3>1 DEF TypeOK, Request
    <3> QED
      BY <1>0, <1>5, <1>a, <3>1, <3>2, SnapshotKept DEF Work, LocalsOK
  <2> QED
    BY <2>1, <2>2
<1>6. ASSUME NEW w \in Workers, CreateUser(w) PROVE Locals'
  <2>1. CASE Finish(w)
    BY <1>0, <1>6, <2>1, FinishLocals DEF Work
  <2>2. CASE Goto(w, "policyBase") /\ UNCHANGED req
    <3>1. pc[w] = "create" /\ pc'[w] = "policyBase" /\ req'[w] = req[w]
      BY <1>6, <2>2 DEF CreateUser, Goto, TypeOK
    <3> QED
      BY <1>0, <1>6, <1>a, <3>1, SnapshotKept DEF Work, LocalsOK
  <2> QED
    BY <1>6, <2>1, <2>2 DEF CreateUser
<1>7. ASSUME NEW w \in Workers,
             SetLibraryAccess(w) \/ RecordRegistration(w) \/ IncrementUse(w)
      PROVE  Locals'
  <2>1. /\ pc[w] \in {"policy", "record", "count"}
        /\ pc'[w] \in {"record", "count", "notify"}
        /\ req'[w] = req[w]
    BY <1>7 DEF SetLibraryAccess, RecordRegistration, IncrementUse, Goto, TypeOK
  <2> QED
    BY <1>0, <1>7, <1>a, <2>1, SnapshotKept DEF Work, LocalsOK
<1>8. ASSUME NEW w \in Workers, ReadWebhook(w) \/ SendMessage(w) PROVE Locals'
  <2>1. CASE Finish(w)
    BY <1>0, <1>8, <2>1, FinishLocals DEF Work
  <2>2. CASE ReadWebhook(w) /\ Goto(w, "discord") /\ UNCHANGED req
    <3>1. pc[w] = "notify" /\ pc'[w] = "discord" /\ req'[w] = req[w]
      BY <2>2 DEF ReadWebhook, Goto, TypeOK
    <3> QED
      BY <1>0, <1>8, <1>a, <3>1, SnapshotKept DEF Work, LocalsOK
  <2> QED
    BY <1>8, <2>1, <2>2 DEF ReadWebhook, SendMessage
<1>9. ASSUME NEW w \in Workers, Disconnect(w) PROVE Locals'
  <2>1. pc[w] # "idle" /\ pc'[w] = pc[w] /\ req'[w] = req[w]
    BY <1>9 DEF Disconnect
  <2> QED
    BY <1>0, <1>9, <1>a, <2>1, SnapshotKept DEF Disconnect, LocalsOK
<1>10. CASE Restart
  BY <1>10 DEF Restart, Locals, LocalsOK
<1>11. CASE UNCHANGED <<gone, pc, req>>
  BY <1>11, OthersKeepLocals, RowsOnlyClose DEF Locals, LocalsOK
<1> QED
  BY <1>1, <1>2, <1>3, <1>4, <1>5, <1>6, <1>7, <1>8, <1>9, <1>10, <1>11
     DEF Next, Work, SaveJellyfinURL, Authenticate, SetJellyfinAdminToken,
         CreateInvite, RevokeInvite, LateUser, LatePolicy, Tick, vars

LEMMA TypedLocals == Spec => [](TypeOK /\ Locals)
<1>1. Init => TypeOK /\ Locals
  BY BlankType, RegistrationAssumption
     DEF Init, TypeOK, Steps, Locals, LocalsOK
<1>2. TypeOK /\ Locals /\ [Next]_vars => TypeOK' /\ Locals'
  BY TypeStep, LocalsStep
<1> QED
  BY <1>1, <1>2, PTL DEF Spec

(* Every reachable state is well typed; the locals a step reads are the    *)
(* ones the earlier steps have assigned.                                   *)
THEOREM TypeCorrect == Spec => []TypeOK
BY TypedLocals, PTL

(* The dashboard's status column and the registration gate never disagree, *)
(* at any instant and whatever updates the row (admin.go, invite.go).      *)
THEOREM StatusCorrect == Spec => []StatusMatchesGate
<1>1. TypeOK => StatusMatchesGate
  BY StatusAgrees DEF StatusMatchesGate, TypeOK
<1> QED
  BY <1>1, TypedLocals, PTL

=============================================================================
