------------------------ MODULE InviteLedgerProofs -------------------------
(***************************************************************************)
(* Who owns an account, how uses are counted, how many of them failures    *)
(* can lose and how far a quota can be overrun: inductive invariants and   *)
(* their proofs.                                                           *)
(***************************************************************************)
EXTENDS InviteProofs

(* Two workers never hold the same account, and a server never has two of  *)
(* one name: a lost race for a name costs a request, not an account.       *)
OneOwner ==
  /\ \A v, w \in InHand : AccountOf(v) = AccountOf(w) => v = w
  /\ \A a, b \in accounts : a.server = b.server /\ a.user = b.user => a = b

(* Accounts are made once and owned by one worker until they are counted.  *)
Ownership ==
  /\ counted \subseteq accounts
  /\ registrations \subseteq accounts
  /\ \A w \in InHand : AccountOf(w) \in accounts \ counted
  /\ OneOwner
  /\ \A a \in accounts \cup lateUsers : invites[a.via] # None

-----------------------------------------------------------------------------
(* A worker has an account in hand because it had it before the step, or   *)
(* because the step created it.                                            *)
LEMMA HandsStep ==
  ASSUME TypeOK, [Next]_vars, NEW v \in InHand'
  PROVE  /\ v \in Workers
         /\ AccountOf(v)' = AccountOf(v)
         /\ \/ v \in InHand
            \/ /\ CreateUser(v) /\ Accepts(v)
               /\ accounts' = accounts \cup {AccountOf(v)}
<1> USE DEF InHand, AccountOf, config, books, late, local
<1> /\ v \in Workers
    /\ pc'[v] \in {"policyBase", "policy", "record", "count"}
  OBVIOUS
<1>1. ASSUME NEW w \in Workers, Receive(w) \/ Work(w) \/ Disconnect(w), w # v
      PROVE  v \in InHand /\ AccountOf(v)' = AccountOf(v)
  BY <1>1, OwnSlotOnly
<1>2. CASE Receive(v)
  BY <1>2 DEF Receive, Goto, TypeOK
<1>3. CASE Lookup(v) \/ CheckInvite(v)
  BY <1>3 DEF Lookup, CheckInvite, Goto, Finish, TypeOK
<1>4. CASE FetchToken(v) \/ ReadBase(v)
  BY <1>4 DEF FetchToken, ReadBase, Goto, Finish, TypeOK
<1>5. CASE CreateUser(v)
  <2>1. ~Finish(v)
    BY DEF Finish, TypeOK
  <2> QED
    BY <1>5, <2>1 DEF CreateUser
<1>6. CASE ReadBaseAgain(v)
  BY <1>6 DEF ReadBaseAgain, TypeOK, Request
<1>7. CASE SetLibraryAccess(v) \/ RecordRegistration(v)
  BY <1>7 DEF SetLibraryAccess, RecordRegistration
<1>8. CASE IncrementUse(v) \/ ReadWebhook(v) \/ SendMessage(v)
  BY <1>8 DEF IncrementUse, ReadWebhook, SendMessage, Goto, Finish, TypeOK
<1>9. CASE Disconnect(v)
  BY <1>9 DEF Disconnect
<1>10. CASE Restart
  BY <1>10 DEF Restart
<1>11. CASE UNCHANGED <<pc, req>>
  BY <1>11
<1> QED
  BY <1>1, <1>2, <1>3, <1>4, <1>5, <1>6, <1>7, <1>8, <1>9, <1>10, <1>11
     DEF Next, Work, SaveJellyfinURL, Authenticate, SetJellyfinAdminToken,
         CreateInvite, RevokeInvite, LateUser, LatePolicy, Tick, vars

(* Jellyfin is left with a POST only by a caller that was waiting for it.  *)
LEMMA LateStep ==
  ASSUME [Next]_vars, NEW a \in lateUsers', a \notin lateUsers
  PROVE  \E w \in Workers :
           /\ pc[w] = "create" /\ a = AccountOf(w)
           /\ Restart \/ (CreateUser(w) /\ CallFails(w) /\ Finish(w))
<1> USE DEF config, books, late, local
<1>1. ASSUME NEW ws \in SUBSET Workers, Abandon(ws)
      PROVE  \E w \in ws : pc[w] = "create" /\ a = AccountOf(w)
  BY <1>1 DEF Abandon, Posting
<1>2. ASSUME NEW w \in Workers, CreateUser(w)
      PROVE  /\ pc[w] = "create" /\ a = AccountOf(w)
             /\ CallFails(w) /\ Finish(w)
  BY <1>1, <1>2 DEF CreateUser
<1>3. ASSUME NEW w \in Workers PROVE ~SetLibraryAccess(w)
  <2> SUFFICES ASSUME SetLibraryAccess(w) PROVE FALSE
    OBVIOUS
  <2>1. pc[w] = "policy" /\ \E ws \in SUBSET {w} : Abandon(ws)
    BY DEF SetLibraryAccess
  <2> QED
    BY <1>1, <2>1
<1>4. ASSUME NEW w \in Workers, Receive(w) \/ Work(w) \/ Disconnect(w)
      PROVE  CreateUser(w)
  BY <1>3, <1>4 DEF Receive, Work, Lookup, CheckInvite, FetchToken, ReadBase,
     ReadBaseAgain, RecordRegistration, IncrementUse, ReadWebhook, SendMessage,
     Disconnect
<1>5. CASE ~ \E w \in Workers : Receive(w) \/ Work(w) \/ Disconnect(w)
  <2>1. Restart
    BY <1>5 DEF Next, vars, SaveJellyfinURL, Authenticate,
       SetJellyfinAdminToken, CreateInvite, RevokeInvite, LateUser, LatePolicy,
       Tick
  <2> QED
    BY <1>1, <2>1 DEF Restart
<1> QED
  BY <1>2, <1>4, <1>5

(* Which steps write the books, and what each writes.                      *)
LEMMA BooksStep ==
  ASSUME TypeOK, Locals, [Next]_vars
  PROVE  \/ UNCHANGED <<accounts, counted, registrations>>
         \/ \E w \in Workers :
              /\ CreateUser(w) /\ Accepts(w)
              /\ accounts' = accounts \cup {AccountOf(w)}
              /\ UNCHANGED <<counted, registrations, invites, lateUsers>>
         \/ \E a \in lateUsers :
              /\ LateUser(a) /\ Free(a.server, a.user)
              /\ accounts' = accounts \cup {a}
              /\ UNCHANGED <<counted, registrations, invites, pc, req>>
         \/ \E w \in Workers :
              /\ RecordRegistration(w)
              /\ registrations' = registrations \cup {AccountOf(w)}
              /\ UNCHANGED <<accounts, counted, invites>>
         \/ \E w \in Workers :
              /\ IncrementUse(w)
              /\ invites' = [invites EXCEPT ![req[w].invite].useCount = @ + 1]
              /\ counted' = counted \cup {AccountOf(w)}
              /\ UNCHANGED <<accounts, registrations>>
<1> USE DEF config, books, late, local
<1>1. ASSUME NEW w \in Workers, CreateUser(w), accounts' # accounts
      PROVE  /\ Accepts(w)
             /\ accounts' = accounts \cup {AccountOf(w)}
             /\ UNCHANGED <<counted, registrations, invites, lateUsers>>
  BY <1>1 DEF CreateUser
<1>2. ASSUME NEW w \in Workers, CreateUser(w)
      PROVE  UNCHANGED <<counted, registrations>>
  BY <1>2 DEF CreateUser
<1>3. ASSUME NEW w \in Workers, RecordRegistration(w)
      PROVE  /\ UNCHANGED <<accounts, counted, invites>>
             /\ \/ registrations' = registrations \cup {AccountOf(w)}
                \/ UNCHANGED registrations
  BY <1>3 DEF RecordRegistration
<1>4. ASSUME NEW w \in Workers, IncrementUse(w)
      PROVE  /\ UNCHANGED <<accounts, registrations>>
             /\ \/ /\ invites' = [invites EXCEPT ![req[w].invite].useCount = @ + 1]
                   /\ counted' = counted \cup {AccountOf(w)}
                \/ UNCHANGED counted
  BY <1>4 DEF IncrementUse
<1>5. ASSUME NEW w \in Workers,
             \/ Receive(w) \/ Disconnect(w)
             \/ Work(w) /\ ~CreateUser(w) /\ ~RecordRegistration(w) /\ ~IncrementUse(w)
      PROVE  UNCHANGED <<accounts, counted, registrations>>
  BY <1>5 DEF Receive, Disconnect, Work, Lookup, CheckInvite, FetchToken,
              ReadBase, ReadBaseAgain, SetLibraryAccess, ReadWebhook, SendMessage
<1>6. ASSUME NEW a \in lateUsers, LateUser(a)
      PROVE  \/ UNCHANGED <<accounts, counted, registrations>>
             \/ /\ Free(a.server, a.user)
                /\ accounts' = accounts \cup {a}
                /\ UNCHANGED <<counted, registrations, invites, pc, req>>
  BY <1>6 DEF LateUser
<1>7. CASE ~ \E w \in Workers : Receive(w) \/ Work(w) \/ Disconnect(w)
  <2>1. CASE \E a \in lateUsers : LateUser(a)
    BY <1>6, <2>1
  <2>2. CASE ~ \E a \in lateUsers : LateUser(a)
    <3>1. UNCHANGED <<accounts, counted, registrations>>
      BY <1>7, <2>2 DEF Next, vars, Restart, SaveJellyfinURL, Authenticate,
         SetJellyfinAdminToken, CreateInvite, RevokeInvite, LatePolicy, Tick
    <3> QED
      BY <3>1
  <2> QED
    BY <2>1, <2>2
<1> QED
  BY <1>1, <1>2, <1>3, <1>4, <1>5, <1>7

(* A step that makes no account puts none in anybody's hands.              *)
LEMMA HandsShrink ==
  ASSUME TypeOK, [Next]_vars, UNCHANGED accounts, NEW v \in InHand'
  PROVE  v \in InHand /\ AccountOf(v)' = AccountOf(v)
<1>1. CASE Accepts(v) /\ accounts' = accounts \cup {AccountOf(v)}
  BY <1>1, HandsStep DEF Accepts, Free, AccountOf, CreateUser
<1> QED
  BY <1>1, HandsStep

LEMMA OwnershipStep ==
  ASSUME TypeOK, Locals, Ownership, [Next]_vars
  PROVE  Ownership'
<1>0. \A i \in Invites : invites[i] # None => invites'[i] # None
  BY RowsOnlyClose, RegistrationAssumption DEF SnapshotOf
<1>a. \A a \in accounts \cup lateUsers \cup lateUsers' : invites'[a.via] # None
  <2>1. ASSUME NEW a \in lateUsers', a \notin lateUsers
        PROVE  a.via \in Invites /\ invites[a.via] # None
    BY <2>1, LateStep, RegistrationAssumption
       DEF Locals, LocalsOK, SnapshotOf, AccountOf
  <2> QED
    BY <1>0, <2>1 DEF Ownership, TypeOK, Account
<1>1. CASE UNCHANGED <<accounts, counted, registrations>>
  <2>1. \A v \in InHand' : v \in InHand /\ AccountOf(v)' = AccountOf(v)
    BY <1>1, HandsShrink
  <2> QED
    BY <1>a, <1>1, <2>1 DEF Ownership, OneOwner
<1>2. ASSUME NEW w \in Workers, CreateUser(w), Accepts(w),
             accounts' = accounts \cup {AccountOf(w)},
             UNCHANGED <<counted, registrations, invites, lateUsers>>
      PROVE  Ownership'
  <2>1. /\ req[w].token \in Servers /\ req[w].user \in Users
        /\ req[w].invite \in Invites /\ invites[req[w].invite] # None
    BY <1>2, RegistrationAssumption
       DEF CreateUser, Locals, LocalsOK, SnapshotOf
  <2>2. AccountOf(w) \notin accounts
    BY <1>2 DEF Accepts, Free, AccountOf
  <2>3. ASSUME NEW v \in InHand'
        PROVE  /\ AccountOf(v)' = AccountOf(v)
               /\ v = w \/ v \in InHand
    <3>1. CASE v # w /\ v \notin InHand
      <4>1. v \in Workers /\ pc'[v] = pc[v]
        BY <1>2, <3>1, OwnSlotOnly, HandsStep DEF Work
      <4> QED
        BY <3>1, <4>1 DEF InHand
    <3> QED
      BY <3>1, HandsStep
  <2>4. \A v \in InHand' : AccountOf(v)' \in accounts' \ counted'
    BY <1>2, <2>2, <2>3 DEF Ownership
  <2>5. \A u, v \in InHand' : AccountOf(u)' = AccountOf(v)' => u = v
    BY <2>2, <2>3 DEF Ownership, OneOwner
  <2>6. \A a, b \in accounts' : a.server = b.server /\ a.user = b.user => a = b
    BY <1>2 DEF Ownership, OneOwner, Accepts, Free, AccountOf
  <2>7. \A a \in accounts' \cup lateUsers' : invites'[a.via] # None
    BY <1>2, <2>1 DEF Ownership, AccountOf
  <2> QED
    BY <1>2, <2>4, <2>5, <2>6, <2>7 DEF Ownership, OneOwner
<1>3. ASSUME NEW w \in Workers, RecordRegistration(w),
             registrations' = registrations \cup {AccountOf(w)},
             UNCHANGED <<accounts, counted, invites>>
      PROVE  Ownership'
  <2>1. w \in InHand
    BY <1>3 DEF RecordRegistration, InHand
  <2>2. \A v \in InHand' : v \in InHand /\ AccountOf(v)' = AccountOf(v)
    BY <1>3, HandsShrink
  <2> QED
    BY <1>a, <1>3, <2>1, <2>2 DEF Ownership, OneOwner
<1>4. ASSUME NEW w \in Workers, IncrementUse(w),
             counted' = counted \cup {AccountOf(w)},
             UNCHANGED <<accounts, registrations>>
      PROVE  Ownership'
  <2>1. w \in InHand /\ w \notin InHand'
    BY <1>4 DEF IncrementUse, InHand, Goto, TypeOK
  <2>2. \A v \in InHand' : v \in InHand /\ AccountOf(v)' = AccountOf(v)
    BY <1>4, HandsShrink
  <2>3. \A v \in InHand' : AccountOf(v) # AccountOf(w)
    BY <2>1, <2>2 DEF Ownership, OneOwner
  <2> QED
    BY <1>a, <1>4, <2>1, <2>2, <2>3 DEF Ownership, OneOwner
<1>5. ASSUME NEW a \in lateUsers, Free(a.server, a.user),
             accounts' = accounts \cup {a},
             UNCHANGED <<counted, registrations, invites, pc, req>>
      PROVE  Ownership'
  <2>1. a \notin accounts
    BY <1>5 DEF Free
  <2>2. InHand' = InHand /\ \A v \in Workers : AccountOf(v)' = AccountOf(v)
    BY <1>5 DEF InHand, AccountOf
  <2>3. InHand \subseteq Workers
    BY DEF InHand
  <2>4. \A v \in InHand' : AccountOf(v)' \in accounts' \ counted'
    BY <1>5, <2>2, <2>3 DEF Ownership
  <2>5. \A u, v \in InHand' : AccountOf(u)' = AccountOf(v)' => u = v
    BY <2>2, <2>3 DEF Ownership, OneOwner
  <2>6. \A b, c \in accounts' : b.server = c.server /\ b.user = c.user => b = c
    BY <1>5 DEF Ownership, OneOwner, Free
  <2> QED
    BY <1>a, <1>5, <2>4, <2>5, <2>6 DEF Ownership, OneOwner
<1> QED
  BY <1>1, <1>2, <1>3, <1>4, <1>5, BooksStep

-----------------------------------------------------------------------------
(* The use counter of a row is the number of accounts counted for it.      *)
Tally ==
  /\ IsFiniteSet(counted)
  /\ \A i \in Invites : invites[i] # None =>
       invites[i].useCount = Cardinality(Counted(i))

LEMMA TallyStep ==
  ASSUME TypeOK, Locals, Ownership, Tally, [Next]_vars
  PROVE  Tally'
<1>1. CASE UNCHANGED counted /\ \A w \in Workers : ~IncrementUse(w)
  <2>1. ASSUME NEW i \in Invites, invites[i] # None
        PROVE  invites'[i].useCount = invites[i].useCount
    <3>1. CASE UNCHANGED invites
      BY <3>1
    <3>2. ASSUME NEW j \in Invites, CreateInvite(j) \/ RevokeInvite(j)
          PROVE  invites'[i].useCount = invites[i].useCount
      BY <2>1, <3>2 DEF CreateInvite, RevokeInvite, TypeOK, Invite
    <3> QED
      BY <1>1, <3>1, <3>2, InvitesStep
  <2>2. ASSUME NEW i \in Invites, invites[i] = None, invites'[i] # None
        PROVE  invites'[i].useCount = 0 /\ Counted(i) = {}
    <3>1. \E m \in FormMaxUses, e \in FormExpiries, libs \in FormLibraries :
            invites'[i] = NewInvite(m, e, libs)
      <4>1. CASE UNCHANGED invites
        BY <2>2, <4>1
      <4>2. ASSUME NEW j \in Invites, RevokeInvite(j) PROVE FALSE
        BY <2>2, <4>2 DEF RevokeInvite, TypeOK
      <4>3. ASSUME NEW j \in Invites, CreateInvite(j)
            PROVE  \E m \in FormMaxUses, e \in FormExpiries, libs \in FormLibraries :
                     invites'[i] = NewInvite(m, e, libs)
        BY <2>2, <4>3 DEF CreateInvite, TypeOK
      <4> QED
        BY <1>1, <4>1, <4>2, <4>3, InvitesStep
    <3> QED
      BY <2>2, <3>1 DEF NewInvite, Counted, Ownership
  <2>3. \A i \in Invites : Counted(i)' = Counted(i)
    BY <1>1 DEF Counted
  <2> QED
    BY <1>1, <2>1, <2>2, <2>3, FS_EmptySet DEF Tally
<1>2. ASSUME NEW w \in Workers, IncrementUse(w), UNCHANGED <<counted, invites>>
      PROVE  Tally'
  BY <1>2 DEF Tally, Counted
<1>3. ASSUME NEW w \in Workers, IncrementUse(w),
             invites' = [invites EXCEPT ![req[w].invite].useCount = @ + 1],
             counted' = counted \cup {AccountOf(w)}
      PROVE  Tally'
  <2>1. /\ AccountOf(w) \notin counted /\ AccountOf(w).via = req[w].invite
        /\ req[w].invite \in Invites /\ invites[req[w].invite] \in Invite
    BY <1>3 DEF IncrementUse, InHand, Ownership, AccountOf, Locals, LocalsOK,
                SnapshotOf
  <2>2. IsFiniteSet(counted')
    BY <1>3, FS_AddElement DEF Tally
  <2>3. ASSUME NEW i \in Invites, invites'[i] # None
        PROVE  invites'[i].useCount = Cardinality(Counted(i)')
    <3>1. CASE i # req[w].invite
      <4>1. invites'[i] = invites[i] /\ Counted(i)' = Counted(i)
        BY <1>3, <2>1, <3>1 DEF TypeOK, Counted
      <4> QED
        BY <2>3, <4>1 DEF Tally
    <3>2. CASE i = req[w].invite
      <4>1. invites[i] # None
        BY <2>1, <3>2, RegistrationAssumption
      <4>2. invites'[i].useCount = invites[i].useCount + 1
        BY <1>3, <2>1, <3>2 DEF TypeOK, Invite
      <4>3. Counted(i)' = Counted(i) \cup {AccountOf(w)}
        BY <1>3, <2>1, <3>2 DEF Counted
      <4>4. IsFiniteSet(Counted(i)) /\ AccountOf(w) \notin Counted(i)
        BY <2>1, FS_Subset DEF Tally, Counted
      <4> QED
        BY <4>1, <4>2, <4>3, <4>4, FS_AddElement DEF Tally
    <3> QED
      BY <3>1, <3>2
  <2> QED
    BY <2>2, <2>3 DEF Tally
<1>4. ASSUME NEW w \in Workers, IncrementUse(w) PROVE Tally'
  BY <1>2, <1>3, <1>4 DEF IncrementUse
<1> QED
  BY <1>1, <1>4, BooksStep DEF RecordRegistration

-----------------------------------------------------------------------------
(* The quota, made inductive: uses already counted plus requests that have *)
(* passed, or would pass, the check on their snapshot.                     *)
QuotaInv ==
  \A i \in Invites : Limited(i) =>
    invites[i].useCount + Cardinality(Admitted(i))
      <= invites[i].maxUses + Cardinality(Workers) - 1

(* Workers on i that had passed the lookup stay admitted or leave; the     *)
(* only newcomers read a row that still has uses left.                     *)
LEMMA AdmittedStep ==
  ASSUME TypeOK, Locals, [Next]_vars, NEW i \in Invites,
         NEW v \in Admitted(i)'
  PROVE  \/ v \in Admitted(i)
         \/ /\ Lookup(v) /\ UNCHANGED invites
            /\ invites[i] # None /\ Limited(i)
            /\ invites[i].useCount < invites[i].maxUses
<1> USE DEF Admitted, config, books, late, local
<1> v \in Workers
  OBVIOUS
<1>1. ASSUME NEW w \in Workers, Receive(w) \/ Work(w) \/ Disconnect(w), w # v
      PROVE  v \in Admitted(i)
  BY <1>1, OwnSlotOnly
<1>2. CASE Receive(v)
  BY <1>2 DEF Receive, Goto, TypeOK
<1>3. CASE Lookup(v)
  <2>1. ~Finish(v)
    BY DEF Finish, TypeOK
  <2>2. /\ req[v].invite = i /\ UNCHANGED invites
        /\ invites[i] # None /\ req'[v].snap = invites[i]
    BY <1>3, <2>1 DEF Lookup, TypeOK, Request
  <2> QED
    BY <1>3, <2>2 DEF Limited
<1>4. CASE CheckInvite(v)
  BY <1>4 DEF CheckInvite, Goto, Finish, TypeOK
<1>5. CASE FetchToken(v) \/ ReadBase(v)
  BY <1>5 DEF FetchToken, ReadBase, Goto, Finish, TypeOK, Request
<1>6. CASE CreateUser(v)
  BY <1>6 DEF CreateUser, Goto, Finish, TypeOK
<1>7. CASE ReadBaseAgain(v)
  BY <1>7 DEF ReadBaseAgain, TypeOK, Request
<1>8. CASE SetLibraryAccess(v) \/ RecordRegistration(v)
  BY <1>8 DEF SetLibraryAccess, RecordRegistration
<1>9. CASE IncrementUse(v) \/ ReadWebhook(v) \/ SendMessage(v)
  BY <1>9 DEF IncrementUse, ReadWebhook, SendMessage, Goto, Finish, TypeOK
<1>10. CASE Disconnect(v)
  BY <1>10 DEF Disconnect
<1>11. CASE Restart
  BY <1>11 DEF Restart
<1>12. CASE UNCHANGED <<pc, req>>
  BY <1>12
<1> QED
  BY <1>1, <1>2, <1>3, <1>4, <1>5, <1>6, <1>7, <1>8, <1>9, <1>10, <1>11, <1>12
     DEF Next, Work, SaveJellyfinURL, Authenticate, SetJellyfinAdminToken,
         CreateInvite, RevokeInvite, LateUser, LatePolicy, Tick, vars

LEMMA AdmittedFinite ==
  ASSUME NEW i \in Invites
  PROVE  /\ IsFiniteSet(Admitted(i))
         /\ Cardinality(Admitted(i)) \in Nat
         /\ Cardinality(Admitted(i)) <= Cardinality(Workers)
         /\ Cardinality(Workers) \in Nat
         /\ Cardinality(Workers) >= 1
BY RegistrationAssumption, FS_Subset, FS_CardinalityType, FS_EmptySet
   DEF Admitted

LEMMA QuotaStep ==
  ASSUME TypeOK, Locals, QuotaInv, TypeOK', [Next]_vars
  PROVE  QuotaInv'
<1> SUFFICES ASSUME NEW i \in Invites, Limited(i)'
             PROVE  invites'[i].useCount + Cardinality(Admitted(i)')
                      <= invites'[i].maxUses + Cardinality(Workers) - 1
  BY DEF QuotaInv
<1>0. /\ invites'[i] \in Invite
      /\ invites'[i].maxUses \in Nat /\ invites'[i].maxUses >= 1
      /\ invites'[i].useCount \in Nat
  BY RulesAssumption DEF Limited, TypeOK, Invite
<1>f. /\ IsFiniteSet(Admitted(i)) /\ Cardinality(Admitted(i)) \in Nat
      /\ Cardinality(Workers) \in Nat /\ Cardinality(Workers) >= 1
  BY AdmittedFinite
<1>g. /\ Admitted(i)' \subseteq Workers
      /\ IsFiniteSet(Admitted(i)') /\ Cardinality(Admitted(i)') \in Nat
      /\ Cardinality(Admitted(i)') <= Cardinality(Workers)
  BY RegistrationAssumption, FS_Subset, FS_CardinalityType DEF Admitted
<1>1. CASE invites[i] = None
  <2>1. Admitted(i)' = {}
    <3>1. Admitted(i) = {}
      BY <1>1, RegistrationAssumption DEF Admitted, Locals, LocalsOK, SnapshotOf
    <3> QED
      BY <1>1, <3>1, AdmittedStep
  <2>2. invites'[i].useCount = 0
    <3>1. CASE UNCHANGED invites
      BY <1>1, <3>1 DEF Limited
    <3>2. ASSUME NEW w \in Workers, IncrementUse(w) PROVE FALSE
      <4>1. req[w].invite # i
        BY <1>1, <3>2, RegistrationAssumption
           DEF IncrementUse, Locals, LocalsOK, SnapshotOf
      <4> QED
        BY <1>1, <3>2, <4>1 DEF IncrementUse, Limited, TypeOK
    <3>3. ASSUME NEW j \in Invites, RevokeInvite(j) PROVE FALSE
      BY <1>1, <3>3 DEF RevokeInvite, Limited, TypeOK
    <3>4. ASSUME NEW j \in Invites, CreateInvite(j)
          PROVE  invites'[i].useCount = 0
      BY <1>1, <3>4 DEF CreateInvite, Limited, TypeOK, NewInvite
    <3> QED
      BY <3>1, <3>2, <3>3, <3>4, InvitesStep
  <2> QED
    BY <1>0, <1>f, <2>1, <2>2, FS_EmptySet
<1>2. CASE invites[i] # None
  <2>1. /\ SnapshotOf(invites[i], invites'[i])
        /\ Limited(i) /\ invites[i].maxUses = invites'[i].maxUses
    BY <1>2, RowsOnlyClose DEF Limited, SnapshotOf
  <2>2. invites[i].useCount + Cardinality(Admitted(i))
          <= invites[i].maxUses + Cardinality(Workers) - 1
    BY <2>1 DEF QuotaInv
  <2>3. CASE Admitted(i)' \subseteq Admitted(i)
    <3>1. Cardinality(Admitted(i)') <= Cardinality(Admitted(i))
      BY <1>f, <2>3, FS_Subset
    <3>2. CASE invites'[i].useCount = invites[i].useCount
      BY <1>0, <1>f, <1>g, <2>1, <2>2, <3>1, <3>2
    <3>3. ASSUME NEW w \in Workers, IncrementUse(w), req[w].invite = i,
                 invites' = [invites EXCEPT ![req[w].invite].useCount = @ + 1]
          PROVE  invites'[i].useCount + Cardinality(Admitted(i)')
                   <= invites'[i].maxUses + Cardinality(Workers) - 1
      <4>1. w \in Admitted(i)
        BY <2>1, <3>3 DEF Admitted, IncrementUse, Locals, LocalsOK, Admits,
                          SnapshotOf, Limited
      <4>2. w \notin Admitted(i)'
        BY <3>3 DEF Admitted, IncrementUse, Goto, TypeOK
      <4>3. Admitted(i)' \subseteq Admitted(i) \ {w}
        BY <2>3, <4>2
      <4>4. /\ Cardinality(Admitted(i) \ {w}) = Cardinality(Admitted(i)) - 1
            /\ IsFiniteSet(Admitted(i) \ {w})
        BY <1>f, <4>1, FS_RemoveElement
      <4>5. Cardinality(Admitted(i)') <= Cardinality(Admitted(i)) - 1
        BY <4>3, <4>4, FS_Subset
      <4>6. invites'[i].useCount = invites[i].useCount + 1
        BY <3>3, <2>1 DEF TypeOK, SnapshotOf, Invite
      <4> QED
        BY <1>0, <1>f, <1>g, <2>1, <2>2, <4>5, <4>6 DEF SnapshotOf, Invite
    <3>4. CASE invites'[i].useCount # invites[i].useCount
      <4>1. ASSUME NEW j \in Invites, CreateInvite(j) \/ RevokeInvite(j)
            PROVE  FALSE
        BY <1>2, <3>4, <4>1 DEF CreateInvite, RevokeInvite, TypeOK, Invite
      <4>2. ASSUME NEW w \in Workers, IncrementUse(w)
            PROVE  /\ req[w].invite = i
                   /\ invites' = [invites EXCEPT ![req[w].invite].useCount = @ + 1]
        BY <3>4, <4>2 DEF IncrementUse, TypeOK
      <4> QED
        BY <3>3, <3>4, <4>1, <4>2, InvitesStep
    <3> QED
      BY <3>2, <3>4
  <2>4. CASE ~(Admitted(i)' \subseteq Admitted(i))
    <3>1. /\ UNCHANGED invites
          /\ invites[i].useCount < invites[i].maxUses
      BY <2>4, AdmittedStep
    <3> QED
      BY <1>0, <1>f, <1>g, <3>1
  <2> QED
    BY <2>3, <2>4
<1> QED
  BY <1>1, <1>2

-----------------------------------------------------------------------------
LedgerInv == TypeOK /\ Locals /\ Ownership /\ Tally /\ QuotaInv

LEMMA LedgerInvariant == Spec => []LedgerInv
<1>1. Init => TypeOK /\ Locals
  BY BlankType, RegistrationAssumption
     DEF Init, TypeOK, Steps, Locals, LocalsOK
<1>2. Init => Ownership /\ Tally /\ QuotaInv
  <2>1. Init => Ownership
    BY DEF Init, Ownership, OneOwner, InHand
  <2>2. Init => Tally /\ QuotaInv
    BY FS_EmptySet DEF Init, Tally, QuotaInv, Limited
  <2> QED
    BY <2>1, <2>2
<1>3. LedgerInv /\ [Next]_vars => LedgerInv'
  BY TypeStep, LocalsStep, OwnershipStep, TallyStep, QuotaStep DEF LedgerInv
<1> QED
  BY <1>1, <1>2, <1>3, PTL DEF Spec, LedgerInv

(* However requests, hang-ups and restarts interleave, use_count counts    *)
(* distinct accounts of its invite, each of them once (IncrementUse).      *)
THEOREM LedgerBalanced == Spec => []LedgerBalance
<1>1. LedgerInv => LedgerBalance
  BY DEF LedgerInv, Ownership, Tally, LedgerBalance
<1> QED
  BY <1>1, LedgerInvariant, PTL

(* No two workers share an account and no server has two of one name.      *)
THEOREM AccountsOwned == Spec => []OneOwner
<1>1. LedgerInv => OneOwner
  BY DEF LedgerInv, Ownership
<1> QED
  BY <1>1, LedgerInvariant, PTL

(* The quota is overrun by fewer accounts than there are workers: the      *)
(* check on a stale snapshot costs no more (HandleInviteSubmit).           *)
THEOREM QuotaOvershoot == Spec => []OvershootBounded
<1>1. LedgerInv => OvershootBounded
  <2> SUFFICES ASSUME LedgerInv, NEW i \in Invites, Limited(i)
               PROVE  Cardinality(Via(i) \ Lost)
                        <= invites[i].maxUses + Cardinality(Workers) - 1
    BY DEF OvershootBounded
  <2> DEFINE Hands == { w \in InHand : req[w].invite = i }
             Held  == { AccountOf(w) : w \in Hands }
  <2>1. /\ invites[i] \in Invite /\ invites[i].maxUses \in Nat
        /\ invites[i].useCount \in Nat
    BY DEF LedgerInv, TypeOK, Limited, Invite
  <2>2. Via(i) \ Lost \subseteq Counted(i) \cup Held
    BY DEF Via, Lost, Counted, AccountOf
  <2>3. Hands \subseteq Admitted(i)
    BY <2>1 DEF InHand, Admitted, LedgerInv, Locals, LocalsOK, SnapshotOf,
                Admits, Limited
  <2>4. /\ IsFiniteSet(Hands) /\ Cardinality(Hands) \in Nat
        /\ Cardinality(Hands) <= Cardinality(Admitted(i))
        /\ Cardinality(Admitted(i)) \in Nat /\ Cardinality(Workers) \in Nat
    BY <2>3, AdmittedFinite, FS_Subset, FS_CardinalityType
  <2>5. /\ IsFiniteSet(Held) /\ Cardinality(Held) \in Nat
        /\ Cardinality(Held) <= Cardinality(Hands)
    <3> DEFINE f == [w \in Hands |-> AccountOf(w)]
    <3>1. f \in Surjection(Hands, Held)
      BY DEF Surjection
    <3> QED
      BY <2>4, <3>1, FS_Surjection, FS_CardinalityType
  <2>6. IsFiniteSet(Counted(i)) /\ Cardinality(Counted(i)) = invites[i].useCount
    BY FS_Subset DEF LedgerInv, Tally, Counted, Limited
  <2>7. /\ IsFiniteSet(Counted(i) \cup Held)
        /\ Cardinality(Counted(i) \cup Held)
             <= Cardinality(Counted(i)) + Cardinality(Held)
    <3> HIDE DEF Held
    <3>1. IsFiniteSet(Counted(i) \cap Held)
      BY <2>5, <2>6, FS_Intersection
    <3>2. Cardinality(Counted(i) \cap Held) \in Nat
      BY <3>1, FS_CardinalityType
    <3>3. /\ IsFiniteSet(Counted(i) \cup Held)
          /\ Cardinality(Counted(i) \cup Held) = Cardinality(Counted(i))
               + Cardinality(Held) - Cardinality(Counted(i) \cap Held)
      BY <2>5, <2>6, FS_Union
    <3> QED
      BY <2>1, <2>5, <2>6, <3>2, <3>3
  <2>8. /\ Cardinality(Via(i) \ Lost) <= Cardinality(Counted(i) \cup Held)
        /\ Cardinality(Via(i) \ Lost) \in Nat
        /\ Cardinality(Counted(i) \cup Held) \in Nat
    BY <2>2, <2>7, FS_Subset, FS_CardinalityType
  <2>9. invites[i].useCount + Cardinality(Admitted(i))
          <= invites[i].maxUses + Cardinality(Workers) - 1
    BY DEF LedgerInv, QuotaInv
  <2> HIDE DEF Hands, Held
  <2> QED
    BY <2>1, <2>4, <2>5, <2>6, <2>7, <2>8, <2>9
<1> QED
  BY <1>1, LedgerInvariant, PTL
-----------------------------------------------------------------------------
(* Workers whose client has hung up and that can still lose an account:    *)
(* they have spent their failure already.                                  *)
Doomed == { w \in gone : pc[w] \notin {"notify", "discord"} }

(* Accounts nobody will count any more, made or still to be made.          *)
Astray == Lost \cup lateUsers

(* LossBounded, made inductive: what is astray and what may still go       *)
(* astray for free.                                                        *)
LossInv ==
  /\ IsFiniteSet(Astray)
  /\ Cardinality(Astray) + Cardinality(Doomed) <= faults * Cardinality(Workers)

LEMMA AtMostOneMore ==
  ASSUME NEW S, IsFiniteSet(S), NEW x
  PROVE  /\ IsFiniteSet(S \cup {x})
         /\ Cardinality(S) \in Nat /\ Cardinality(S \cup {x}) \in Nat
         /\ Cardinality(S \cup {x}) <= Cardinality(S) + 1
<1>1. IsFiniteSet(S \cup {x}) /\ Cardinality(S) \in Nat
  BY FS_AddElement, FS_CardinalityType
<1>2. Cardinality(S \cup {x}) = Cardinality(S)
        \/ Cardinality(S \cup {x}) = Cardinality(S) + 1
  BY FS_AddElement
<1> QED
  BY <1>1, <1>2

(* Multiplication, where the bound grows by one failure.                   *)
LEMMA OneMoreFailure ==
  ASSUME NEW f \in Nat, NEW n \in Nat
  PROVE  f * n \in Nat /\ (f + 1) * n = f * n + n
OBVIOUS

LEMMA FaultsStep ==
  ASSUME TypeOK, [Next]_vars
  PROVE  /\ faults' = faults \/ faults' = faults + 1
         /\ \A w \in Workers : Disconnect(w) => faults' = faults + 1
         /\ Restart => faults' = faults + 1
<1>1. ASSUME NEW w \in Workers, Work(w)
      PROVE  CallFails(w) \/ UNCHANGED faults \/ faults' = faults + 1
  BY <1>1 DEF Work, Lookup, CheckInvite, FetchToken, ReadBase, CreateUser,
     ReadBaseAgain, SetLibraryAccess, RecordRegistration, IncrementUse,
     ReadWebhook, SendMessage, CallAnswers
<1> QED
  BY <1>1 DEF CallFails, Next, vars, Receive, Disconnect, Restart,
     SaveJellyfinURL, Authenticate, SetJellyfinAdminToken, CreateInvite,
     RevokeInvite, LateUser, LatePolicy, Tick

(* Only counting and a restart take an account out of a worker's hands.    *)
LEMMA HandsStay ==
  ASSUME TypeOK, [Next]_vars, NEW w \in InHand, ~IncrementUse(w), ~Restart
  PROVE  w \in InHand' /\ AccountOf(w)' = AccountOf(w)
<1> USE DEF InHand, AccountOf, config, books, late, local
<1> w \in Workers
  OBVIOUS
<1>1. ASSUME NEW v \in Workers, Receive(v) \/ Work(v) \/ Disconnect(v), v # w
      PROVE  pc'[w] = pc[w] /\ req'[w] = req[w]
  BY <1>1, OwnSlotOnly
<1>2. CASE ReadBaseAgain(w)
  BY <1>2 DEF ReadBaseAgain, Goto, TypeOK, Request
<1>3. CASE SetLibraryAccess(w) \/ RecordRegistration(w)
  BY <1>3 DEF SetLibraryAccess, RecordRegistration, Goto, TypeOK
<1>4. CASE UNCHANGED <<pc, req>>
  BY <1>4
<1>5. Receive(w) \/ Work(w) \/ Disconnect(w) =>
        \/ ReadBaseAgain(w) \/ SetLibraryAccess(w) \/ RecordRegistration(w)
        \/ UNCHANGED <<pc, req>>
  BY DEF Work, Receive, Lookup, CheckInvite, FetchToken, ReadBase, CreateUser,
         ReadWebhook, SendMessage, Disconnect
<1>6. CASE ~ \E v \in Workers : Receive(v) \/ Work(v) \/ Disconnect(v)
  <2>1. UNCHANGED <<pc, req>>
    BY <1>6 DEF Next, SaveJellyfinURL, Authenticate, SetJellyfinAdminToken,
                CreateInvite, RevokeInvite, LateUser, LatePolicy, Tick, vars
  <2> QED
    BY <1>4, <2>1
<1> QED
  BY <1>1, <1>2, <1>3, <1>4, <1>5, <1>6

(* A worker is doomed from its client's hanging up on.                     *)
LEMMA DoomedStep ==
  ASSUME TypeOK, Locals, [Next]_vars, NEW w \in Doomed'
  PROVE  w \in Workers /\ (w \in Doomed \/ Disconnect(w))
<1> USE DEF Doomed, config, books, late, local
<1>0. /\ w \in gone' /\ pc'[w] \notin {"notify", "discord"}
      /\ \A v \in gone : v \in Workers
  BY DEF TypeOK
<1>1. ASSUME NEW v \in Workers, Receive(v) \/ Work(v)
      PROVE  w \in Doomed
  <2>1. gone' = gone \/ gone' = gone \ {v}
    BY <1>1 DEF Receive, Work, Lookup, CheckInvite, FetchToken, ReadBase,
       CreateUser, ReadBaseAgain, SetLibraryAccess, RecordRegistration,
       IncrementUse, ReadWebhook, SendMessage, Goto, Finish
  <2>2. w \in gone /\ w \in Workers
    BY <1>0, <2>1
  <2>3. CASE w # v
    BY <1>0, <1>1, <2>2, <2>3, OwnSlotOnly
  <2>4. CASE w = v
    <3>1. pc[w] \in {"notify", "discord"} => ReadWebhook(w) \/ SendMessage(w)
      BY <1>1, <2>4 DEF Receive, Work, Lookup, CheckInvite, FetchToken,
         ReadBase, CreateUser, ReadBaseAgain, SetLibraryAccess,
         RecordRegistration, IncrementUse
    <3>2. CASE ReadWebhook(w) \/ SendMessage(w)
      BY <1>0, <2>2, <3>2 DEF ReadWebhook, SendMessage, Goto, Finish, TypeOK
    <3> QED
      BY <2>2, <3>1, <3>2
  <2> QED
    BY <2>3, <2>4
<1>2. ASSUME NEW v \in Workers, Disconnect(v)
      PROVE  w \in Workers /\ (w \in Doomed \/ Disconnect(w))
  BY <1>0, <1>2 DEF Disconnect
<1>3. CASE Restart
  BY <1>0, <1>3 DEF Restart
<1>4. CASE UNCHANGED local
  BY <1>0, <1>4
<1> QED
  BY <1>0, <1>1, <1>2, <1>3, <1>4
     DEF Next, SaveJellyfinURL, Authenticate, SetJellyfinAdminToken,
         CreateInvite, RevokeInvite, LateUser, LatePolicy, Tick, vars

(* The two calls that lose an account when they fail.                      *)
Loses(w) ==
  /\ CallFails(w)
  /\ \/ CreateUser(w) /\ Finish(w)
     \/ IncrementUse(w) /\ UNCHANGED counted

LEMMA AstrayStep ==
  ASSUME TypeOK, Locals, Ownership, [Next]_vars, ~Restart,
         NEW a \in Astray', a \notin Astray
  PROVE  \E w \in Workers : Loses(w) /\ a = AccountOf(w)
<1>1. CASE a \in lateUsers'
  <2>1. PICK w \in Workers : /\ CreateUser(w) /\ CallFails(w) /\ Finish(w)
                             /\ a = AccountOf(w)
    BY <1>1, LateStep DEF Astray
  <2> QED
    BY <2>1 DEF Loses
<1>2. CASE a \notin lateUsers'
  <2>0. /\ a \in accounts' /\ a \notin counted' /\ a \notin lateUsers
        /\ \A w \in InHand' : a # AccountOf(w)'
    BY <1>2 DEF Astray, Lost
  <2>1. counted \subseteq counted'
    BY BooksStep
  <2>2. CASE a \in accounts
    <3>1. PICK w \in InHand : a = AccountOf(w)
      BY <2>0, <2>1, <2>2 DEF Astray, Lost
    <3>2. w \in Workers /\ IncrementUse(w)
      BY <2>0, <3>1, HandsStay DEF InHand
    <3>3. CallFails(w) /\ UNCHANGED counted
      BY <2>0, <3>1, <3>2 DEF IncrementUse
    <3> QED
      BY <3>1, <3>2, <3>3 DEF Loses
  <2>3. CASE a \notin accounts
    <3>1. PICK w \in Workers :
            CreateUser(w) /\ accounts' = accounts \cup {AccountOf(w)}
      BY <2>0, <2>3, BooksStep
    <3>2. a = AccountOf(w) /\ accounts' # accounts
      BY <2>0, <2>3, <3>1
    <3>3. Goto(w, "policyBase") /\ UNCHANGED req
      BY <3>1, <3>2 DEF CreateUser
    <3> QED
      BY <2>0, <3>2, <3>3 DEF Goto, InHand, AccountOf, TypeOK
  <2> QED
    BY <2>2, <2>3
<1> QED
  BY <1>1, <1>2

(* Only one worker loses one account in a step, and it pays for it: with a *)
(* failure now, or by no longer being doomed.                              *)
LEMMA LosesOne ==
  ASSUME TypeOK, Locals, Ownership, [Next]_vars, ~Restart,
         NEW w \in Workers, Loses(w)
  PROVE  /\ Astray' \subseteq Astray \cup {AccountOf(w)}
         /\ \/ faults' = faults + 1 /\ Doomed' \subseteq Doomed
            \/ /\ faults' = faults
               /\ w \in Doomed /\ Doomed' \subseteq Doomed \ {w}
<1>1. /\ Work(w)
      /\ \/ pc[w] = "create" /\ Finish(w)
         \/ pc[w] = "count" /\ Goto(w, "notify")
  BY DEF Loses, Work, CreateUser, IncrementUse
<1>2. pc'[w] # pc[w]
  BY <1>1 DEF Finish, Goto, TypeOK
<1>3. \A v \in Workers : Work(v) \/ Disconnect(v) => v = w
  BY <1>2, OwnSlotOnly
<1>4. \A v \in Workers : ~Disconnect(v)
  BY <1>2, <1>3 DEF Disconnect
<1>5. Astray' \subseteq Astray \cup {AccountOf(w)}
  <2>1. \A v \in Workers : Loses(v) => v = w
    BY <1>3 DEF Loses, Work
  <2> QED
    BY <2>1, AstrayStep
<1>6. Doomed' \subseteq Doomed
  BY <1>4, DoomedStep
<1>7. w \notin Doomed'
  BY <1>1 DEF Doomed, Finish, Goto, TypeOK
<1>8. w \in gone => w \in Doomed
  BY <1>1 DEF Doomed
<1> QED
  BY <1>5, <1>6, <1>7, <1>8 DEF Loses, CallFails

LEMMA LossStep ==
  ASSUME TypeOK, Locals, Ownership, LossInv, [Next]_vars
  PROVE  LossInv'
<1> DEFINE W == Cardinality(Workers)
           All == { AccountOf(w) : w \in Workers }
<1>w. /\ W \in Nat /\ W >= 1 /\ faults \in Nat
      /\ IsFiniteSet(Doomed) /\ Cardinality(Doomed) \in Nat
      /\ IsFiniteSet(Doomed') /\ Cardinality(Doomed') \in Nat
      /\ IsFiniteSet(Astray) /\ Cardinality(Astray) \in Nat
  <2>1. Doomed \subseteq Workers
    BY DEF Doomed, TypeOK
  <2>2. Doomed' \subseteq Workers
    BY DoomedStep
  <2> QED
    BY <2>1, <2>2, RegistrationAssumption, FS_Subset, FS_CardinalityType,
       FS_EmptySet DEF LossInv, TypeOK
<1>a. IsFiniteSet(All) /\ Cardinality(All) \in Nat /\ Cardinality(All) <= W
  <2> DEFINE f == [w \in Workers |-> AccountOf(w)]
  <2>1. f \in Surjection(Workers, All)
    BY DEF Surjection
  <2> HIDE DEF f, All
  <2> QED
    BY <2>1, RegistrationAssumption, FS_Surjection, FS_CardinalityType
<1> DEFINE Paid == \/ /\ faults' = faults
                      /\ Cardinality(Astray') + Cardinality(Doomed')
                           <= Cardinality(Astray) + Cardinality(Doomed)
                   \/ /\ faults' = faults + 1
                      /\ Cardinality(Astray') + Cardinality(Doomed')
                           <= Cardinality(Astray) + Cardinality(Doomed) + W
<1> HIDE DEF W, All
<1>1. ASSUME Restart PROVE IsFiniteSet(Astray') /\ Paid
  <2>1. Astray' \subseteq Astray \cup All
    <3>1. UNCHANGED <<accounts, counted>>
      BY <1>1 DEF Restart
    <3>2. Lost' \subseteq Lost \cup All
      BY <3>1 DEF Lost, InHand, All
    <3>3. lateUsers' \subseteq lateUsers \cup All
      BY LateStep DEF All
    <3> QED
      BY <3>2, <3>3 DEF Astray
  <2>2. Doomed' = {} /\ faults' = faults + 1
    BY <1>1 DEF Restart, Doomed
  <2>3. /\ IsFiniteSet(Astray \cup All)
        /\ Cardinality(Astray \cup All) <= Cardinality(Astray) + Cardinality(All)
        /\ Cardinality(Astray \cup All) \in Nat
    <3>1. IsFiniteSet(Astray \cap All) /\ Cardinality(Astray \cap All) \in Nat
      BY <1>w, FS_Intersection, FS_CardinalityType
    <3>2. /\ IsFiniteSet(Astray \cup All)
          /\ Cardinality(Astray \cup All) = Cardinality(Astray) + Cardinality(All)
                                             - Cardinality(Astray \cap All)
      BY <1>w, <1>a, FS_Union
    <3> QED
      BY <1>w, <1>a, <3>1, <3>2, FS_CardinalityType
  <2>4. /\ IsFiniteSet(Astray') /\ Cardinality(Astray') \in Nat
        /\ Cardinality(Astray') <= Cardinality(Astray \cup All)
    BY <2>1, <2>3, FS_Subset, FS_CardinalityType
  <2>5. Cardinality(Doomed') = 0
    BY <2>2, FS_EmptySet
  <2> QED
    BY <1>w, <1>a, <2>2, <2>3, <2>4, <2>5
<1>2. ASSUME ~Restart, NEW w \in Workers, Loses(w)
      PROVE  IsFiniteSet(Astray') /\ Paid
  <2> DEFINE a == AccountOf(w)
  <2>1. /\ Astray' \subseteq Astray \cup {a}
        /\ \/ faults' = faults + 1 /\ Doomed' \subseteq Doomed
           \/ /\ faults' = faults
              /\ w \in Doomed /\ Doomed' \subseteq Doomed \ {w}
    BY <1>2, LosesOne
  <2> HIDE DEF a
  <2>2. /\ IsFiniteSet(Astray \cup {a})
        /\ Cardinality(Astray \cup {a}) \in Nat
        /\ Cardinality(Astray \cup {a}) <= Cardinality(Astray) + 1
    BY <1>w, AtMostOneMore
  <2>3. /\ IsFiniteSet(Astray') /\ Cardinality(Astray') \in Nat
        /\ Cardinality(Astray') <= Cardinality(Astray) + 1
    <3>1. /\ IsFiniteSet(Astray')
          /\ Cardinality(Astray') <= Cardinality(Astray \cup {a})
      BY <2>1, <2>2, FS_Subset
    <3> QED
      BY <1>w, <2>2, <3>1, FS_CardinalityType
  <2>4. CASE faults' = faults + 1 /\ Doomed' \subseteq Doomed
    <3>1. Cardinality(Doomed') <= Cardinality(Doomed)
      BY <1>w, <2>4, FS_Subset
    <3> QED
      BY <1>w, <2>3, <2>4, <3>1
  <2>5. CASE /\ faults' = faults
             /\ w \in Doomed /\ Doomed' \subseteq Doomed \ {w}
    <3>1. /\ IsFiniteSet(Doomed \ {w})
          /\ Cardinality(Doomed \ {w}) = Cardinality(Doomed) - 1
      BY <1>w, <2>5, FS_RemoveElement
    <3>2. Cardinality(Doomed') <= Cardinality(Doomed) - 1
      BY <2>5, <3>1, FS_Subset
    <3> QED
      BY <1>w, <2>3, <2>5, <3>2
  <2> QED
    BY <2>1, <2>4, <2>5
<1>3. ASSUME ~Restart, \A w \in Workers : ~Loses(w)
      PROVE  IsFiniteSet(Astray') /\ Paid
  <2>1. Astray' \subseteq Astray
    BY <1>3, AstrayStep
  <2>2. /\ IsFiniteSet(Astray') /\ Cardinality(Astray') \in Nat
        /\ Cardinality(Astray') <= Cardinality(Astray)
    BY <1>w, <2>1, FS_Subset, FS_CardinalityType
  <2>3. ASSUME NEW w \in Workers, Disconnect(w) PROVE Paid
    <3>1. faults' = faults + 1
      BY <2>3, FaultsStep
    <3>2. Doomed' \subseteq Doomed \cup {w}
      BY <2>3, DoomedStep DEF Disconnect, Doomed
    <3>3. /\ IsFiniteSet(Doomed \cup {w})
          /\ Cardinality(Doomed \cup {w}) \in Nat
          /\ Cardinality(Doomed \cup {w}) <= Cardinality(Doomed) + 1
      BY <1>w, AtMostOneMore
    <3>4. Cardinality(Doomed') <= Cardinality(Doomed \cup {w})
      BY <3>2, <3>3, FS_Subset
    <3> QED
      BY <1>w, <2>2, <3>1, <3>3, <3>4
  <2>4. CASE \A w \in Workers : ~Disconnect(w)
    <3>1. Doomed' \subseteq Doomed
      BY <2>4, DoomedStep
    <3>2. Cardinality(Doomed') <= Cardinality(Doomed)
      BY <1>w, <3>1, FS_Subset
    <3> QED
      BY <1>w, <2>2, <3>2, FaultsStep
  <2> QED
    BY <2>2, <2>3, <2>4
<1>4. IsFiniteSet(Astray') /\ Paid
  BY <1>1, <1>2, <1>3
<1>5. Cardinality(Astray') \in Nat
  BY <1>4, FS_CardinalityType
<1>6. /\ faults * W \in Nat /\ (faults + 1) * W = faults * W + W
      /\ Cardinality(Astray) + Cardinality(Doomed) <= faults * W
  BY <1>w, OneMoreFailure DEF LossInv, W
<1>7. Cardinality(Astray') + Cardinality(Doomed') <= faults' * W
  BY <1>w, <1>4, <1>5, <1>6
<1> QED
  BY <1>4, <1>7 DEF LossInv, W

LEMMA LossInvariant == Spec => []LossInv
<1>1. Init => LossInv
  <2> SUFFICES ASSUME Init PROVE LossInv
    OBVIOUS
  <2>1. Astray = {} /\ Doomed = {} /\ faults = 0
    BY DEF Init, Astray, Lost, Doomed
  <2>2. Cardinality(Workers) \in Nat
    BY RegistrationAssumption, FS_CardinalityType
  <2> QED
    BY <2>1, <2>2, FS_EmptySet DEF LossInv
<1>2. LedgerInv /\ LossInv /\ [Next]_vars => LossInv'
  BY LossStep DEF LedgerInv
<1> QED
  BY <1>1, <1>2, LedgerInvariant, PTL DEF Spec

(* Each failed call or hang-up costs the count at most one account, and    *)
(* each restart one per worker (HandleInviteSubmit, IncrementUse).         *)
THEOREM LossIsBounded == Spec => []LossBounded
<1>1. TypeOK /\ LossInv => LossBounded
  <2> SUFFICES ASSUME TypeOK, LossInv PROVE LossBounded
    OBVIOUS
  <2>1. Doomed \subseteq Workers
    BY DEF Doomed, TypeOK
  <2>2. /\ Cardinality(Doomed) \in Nat /\ Cardinality(Astray) \in Nat
        /\ Cardinality(Workers) \in Nat /\ faults \in Nat
    BY <2>1, RegistrationAssumption, FS_Subset, FS_CardinalityType
       DEF LossInv, TypeOK
  <2>3. Cardinality(Lost) \in Nat /\ Cardinality(Lost) <= Cardinality(Astray)
    BY FS_Subset, FS_CardinalityType DEF LossInv, Astray
  <2>4. faults * Cardinality(Workers) \in Nat
    BY <2>2, OneMoreFailure
  <2> QED
    BY <2>2, <2>3, <2>4 DEF LossInv, LossBounded
<1> QED
  BY <1>1, LossInvariant, LedgerInvariant, PTL DEF LedgerInv

(* All accounts made through a limited invite, those nobody will count     *)
(* included.                                                               *)
QuotaAndLoss ==
  \A i \in Invites : Limited(i) =>
    Cardinality(Via(i)) <= invites[i].maxUses + Cardinality(Workers) - 1
                             + faults * Cardinality(Workers)

(* However many accounts get lost to the count, the quota is overrun by    *)
(* fewer than there are workers, and as many again for each failure        *)
(* (HandleInviteSubmit).                                                   *)
THEOREM QuotaWithLoss == Spec => []QuotaAndLoss
<1>1. LedgerInv /\ LossInv /\ OvershootBounded /\ LossBounded => QuotaAndLoss
  <2> SUFFICES ASSUME LedgerInv, LossInv, OvershootBounded, LossBounded,
                      NEW i \in Invites, Limited(i)
               PROVE  Cardinality(Via(i)) <=
                        invites[i].maxUses + Cardinality(Workers) - 1
                          + faults * Cardinality(Workers)
    BY DEF QuotaAndLoss
  <2> DEFINE All == { AccountOf(w) : w \in Workers }
             A   == Via(i) \ Lost
             L   == Via(i) \cap Lost
  <2>1. invites[i].maxUses \in Nat /\ faults \in Nat
    BY DEF LedgerInv, TypeOK, Limited, Invite
  <2>2. IsFiniteSet(All)
    <3> DEFINE f == [w \in Workers |-> AccountOf(w)]
    <3>1. f \in Surjection(Workers, All)
      BY DEF Surjection
    <3> HIDE DEF f, All
    <3> QED
      BY <3>1, RegistrationAssumption, FS_Surjection
  <2>3. IsFiniteSet(A) /\ Cardinality(A) \in Nat
    <3>1. A \subseteq counted \cup All
      BY DEF Lost, InHand, Via
    <3>2. IsFiniteSet(counted \cup All)
      BY <2>2, FS_Union DEF LedgerInv, Tally
    <3> HIDE DEF All, A
    <3> QED
      BY <3>1, <3>2, FS_Subset, FS_CardinalityType
  <2>4. /\ IsFiniteSet(L) /\ Cardinality(L) \in Nat
        /\ Cardinality(L) <= Cardinality(Lost) /\ Cardinality(Lost) \in Nat
    <3>1. IsFiniteSet(Lost)
      BY FS_Subset DEF LossInv, Astray
    <3> QED
      BY <3>1, FS_Subset, FS_CardinalityType
  <2>5. A \cap L = {} /\ Via(i) = A \cup L
    OBVIOUS
  <2>6. /\ Cardinality(A) <= invites[i].maxUses + Cardinality(Workers) - 1
        /\ Cardinality(Lost) <= faults * Cardinality(Workers)
    BY DEF OvershootBounded, LossBounded
  <2>7. /\ Cardinality(Workers) \in Nat
        /\ faults * Cardinality(Workers) \in Nat
    <3>1. Cardinality(Workers) \in Nat
      BY RegistrationAssumption, FS_CardinalityType
    <3> QED
      BY <2>1, <3>1, OneMoreFailure
  <2> HIDE DEF A, L
  <2>8. Cardinality(Via(i)) = Cardinality(A) + Cardinality(L)
    BY <2>3, <2>4, <2>5, FS_Union, FS_EmptySet
  <2> QED
    BY <2>1, <2>3, <2>4, <2>6, <2>7, <2>8
<1> QED
  BY <1>1, LedgerInvariant, LossInvariant, QuotaOvershoot, LossIsBounded, PTL

(* The README's quota, where it holds.                                     *)
QuotaWhenAlone == Cardinality(Workers) = 1 /\ faults = 0 => QuotaRespected

(* "One-time or multi-use" is true of requests that come one at a time, as *)
(* long as none of their calls fails (README; HandleInviteSubmit).         *)
THEOREM QuotaHoldsAlone == Spec => []QuotaWhenAlone
<1>1. LedgerInv /\ QuotaAndLoss => QuotaWhenAlone
  <2> SUFFICES ASSUME LedgerInv, QuotaAndLoss, Cardinality(Workers) = 1,
                      faults = 0, NEW i \in Invites, Limited(i)
               PROVE  Cardinality(Via(i)) <= invites[i].maxUses
    BY DEF QuotaWhenAlone, QuotaRespected
  <2>1. invites[i].maxUses \in Nat
    BY DEF LedgerInv, TypeOK, Limited, Invite
  <2>2. Cardinality(Via(i)) <= invites[i].maxUses + 1 - 1 + 0 * 1
    BY DEF QuotaAndLoss
  <2> QED
    BY <2>1, <2>2
<1> QED
  BY <1>1, LedgerInvariant, QuotaWithLoss, PTL
=============================================================================
