----------------------- MODULE InviteRefinementProofs -----------------------
(***************************************************************************)
(* The registration handler implements InviteLedger: each of its steps is  *)
(* a step of the ledger or changes nothing the ledger speaks of.           *)
(***************************************************************************)
EXTENDS InviteLedgerProofs

Slips == [w \in Workers |-> SlipOf(w)]
Empty == [ invite |-> None, account |-> None ]

-----------------------------------------------------------------------------
(* A worker's slip is a matter of its own locals and of the clock.         *)
LEMMA SlipKept ==
  ASSUME NEW w \in Workers, pc'[w] = pc[w], req'[w] = req[w], now' = now
  PROVE  SlipOf(w)' = SlipOf(w)
BY DEF SlipOf, InHand, AccountOf

LEMMA OthersKeepSlips ==
  ASSUME TypeOK, NEW w \in Workers, Receive(w) \/ Work(w) \/ Disconnect(w)
  PROVE  /\ now' = now
         /\ \A v \in Workers \ {w} : SlipOf(v)' = SlipOf(v)
<1>1. now' = now
  BY DEF Receive, Work, Disconnect, Lookup, CheckInvite, FetchToken, ReadBase,
         CreateUser, ReadBaseAgain, SetLibraryAccess, RecordRegistration,
         IncrementUse, ReadWebhook, SendMessage
<1> QED
  BY <1>1, OwnSlotOnly, SlipKept

(* A step that only loses slips, of which the ones of leave leave their    *)
(* order with Jellyfin, is the ledger's Pass.                              *)
LEMMA LeavingIsPass ==
  ASSUME now' \in {now, now + 1}, UNCHANGED <<invites, accounts, counted>>,
         \A w \in Workers : SlipOf(w)' \in {SlipOf(w), Empty},
         NEW leave \in SUBSET Workers,
         \A w \in leave : /\ SlipOf(w)' = Empty /\ AccountOf(w) \in Account
                          /\ SlipOf(w) = [ invite |-> AccountOf(w).via,
                                           account |-> None ],
         lateUsers' = lateUsers \cup { AccountOf(w) : w \in leave }
  PROVE  Ledger!Pass
<1> DEFINE lost == { w \in Workers : SlipOf(w)' # SlipOf(w) } \cup leave
           left == [w \in leave |-> AccountOf(w)]
<1>1. lost \in SUBSET Workers /\ leave \in SUBSET lost
  OBVIOUS
<1>2. left \in [leave -> Account]
  OBVIOUS
<1>3. Slips' = [w \in Workers |-> IF w \in lost THEN Empty ELSE Slips[w]]
  BY DEF Slips
<1>4. /\ \A w \in leave :
           Slips[w] = [ invite |-> left[w].via, account |-> None ]
      /\ lateUsers' = lateUsers \cup { left[w] : w \in leave }
  BY DEF Slips
<1> HIDE DEF lost, left
<1> QED
  BY <1>1, <1>2, <1>3, <1>4
     DEF Ledger!Pass, Ledger!NoSlip, Ledger!Slip, Slips, Empty

LEMMA LosingIsPass ==
  ASSUME now' \in {now, now + 1},
         UNCHANGED <<invites, accounts, counted, lateUsers>>,
         \A w \in Workers : SlipOf(w)' \in {SlipOf(w), Empty}
  PROVE  Ledger!Pass
BY LeavingIsPass, {} \in SUBSET Workers

(* Whoever abandons a POST /Users/New had a slip for its account.          *)
LEMMA AbandonedSlips ==
  ASSUME TypeOK, Locals, NEW ws \in SUBSET Workers, Abandon(ws)
  PROVE  /\ Posting(ws, "create") \in SUBSET ws
         /\ \A w \in Posting(ws, "create") :
              /\ AccountOf(w) \in Account
              /\ SlipOf(w) = [ invite |-> AccountOf(w).via, account |-> None ]
         /\ lateUsers' =
              lateUsers \cup { AccountOf(w) : w \in Posting(ws, "create") }
BY DEF Abandon, Posting, SlipOf, AccountOf, Account, Locals, LocalsOK

(* A step of w that issues it a slip, or makes or counts its account,      *)
(* changes its slip and no other.                                          *)
LEMMA OneSlip ==
  ASSUME NEW w \in Workers, \A v \in Workers \ {w} : SlipOf(v)' = SlipOf(v)
  PROVE  Slips' = [Slips EXCEPT ![w] = SlipOf(w)']
BY DEF Slips

-----------------------------------------------------------------------------
LEMMA FinishEmpties ==
  ASSUME TypeOK, NEW w \in Workers, Finish(w)
  PROVE  SlipOf(w)' = Empty
BY DEF Finish, SlipOf, InHand, Empty, TypeOK

(* Most steps of a worker keep its slip or lose it.                        *)
LEMMA QuietStep ==
  ASSUME TypeOK, Locals, NEW w \in Workers,
         \/ Receive(w) \/ CheckInvite(w) \/ FetchToken(w) \/ ReadBase(w)
         \/ ReadBaseAgain(w) \/ SetLibraryAccess(w) \/ RecordRegistration(w)
         \/ ReadWebhook(w) \/ SendMessage(w) \/ Disconnect(w)
  PROVE  Ledger!Pass
<1> USE DEF config, books, late, local, TypeOK
<1>1. UNCHANGED <<invites, accounts, counted, lateUsers>>
  <2>1. CASE SetLibraryAccess(w)
    <3>1. \A ws \in SUBSET {w} : Abandon(ws) => UNCHANGED lateUsers
      BY <2>1 DEF SetLibraryAccess, Abandon, Posting
    <3> QED
      BY <2>1, <3>1 DEF SetLibraryAccess
  <2>2. CASE ~SetLibraryAccess(w)
    BY <2>2 DEF Receive, CheckInvite, FetchToken, ReadBase, ReadBaseAgain,
       RecordRegistration, ReadWebhook, SendMessage, Disconnect
  <2> QED
    BY <2>1, <2>2
<1>2. ASSUME ~Finish(w) PROVE SlipOf(w)' = SlipOf(w)
  <2>1. CASE Receive(w)
    BY <2>1 DEF Receive, Goto, SlipOf, InHand
  <2>2. CASE CheckInvite(w)
    BY <1>2, <2>2 DEF CheckInvite, Goto, SlipOf
  <2>3. CASE FetchToken(w) \/ ReadBase(w)
    <3>1. /\ pc[w] \in {"token", "base"} /\ pc'[w] \in {"base", "create"}
          /\ req'[w].invite = req[w].invite
      BY <1>2, <2>3 DEF FetchToken, ReadBase, Goto, Request
    <3> QED
      BY <3>1 DEF SlipOf
  <2>4. CASE ReadBaseAgain(w) \/ SetLibraryAccess(w) \/ RecordRegistration(w)
    <3>1. /\ pc[w] \in {"policyBase", "policy", "record"}
          /\ pc'[w] \in {"policy", "record", "count"}
          /\ req'[w].invite = req[w].invite
          /\ req'[w].token = req[w].token /\ req'[w].user = req[w].user
      BY <2>4 DEF ReadBaseAgain, SetLibraryAccess, RecordRegistration, Goto,
                  Request
    <3> QED
      BY <3>1 DEF SlipOf, InHand, AccountOf
  <2>5. CASE ReadWebhook(w) \/ SendMessage(w)
    BY <1>2, <2>5 DEF ReadWebhook, SendMessage, Goto, SlipOf, InHand
  <2>6. CASE Disconnect(w)
    BY <2>6, OthersKeepSlips, SlipKept DEF Disconnect
  <2> QED
    BY <2>1, <2>2, <2>3, <2>4, <2>5, <2>6
<1>3. SlipOf(w)' \in {SlipOf(w), Empty}
  BY <1>2, FinishEmpties
<1> QED
  BY <1>1, <1>3, OthersKeepSlips, LosingIsPass DEF Work

(* The lookup of a row the check will let through issues the slip.         *)
LEMMA LookupStep ==
  ASSUME TypeOK, Locals, NEW w \in Workers, Lookup(w)
  PROVE  Ledger!Next
<1> USE DEF config, books, late, local, TypeOK
<1>1. /\ UNCHANGED <<now, invites, accounts, counted, lateUsers>>
      /\ SlipOf(w) = Empty /\ req[w].invite \in Invites
  BY DEF Lookup, SlipOf, InHand, Empty, Locals, LocalsOK
<1>2. CASE SlipOf(w)' = Empty
  BY <1>1, <1>2, OthersKeepSlips, LosingIsPass DEF Work, Ledger!Next
<1>3. CASE SlipOf(w)' # Empty
  <2> DEFINE i == req[w].invite
  <2>1. /\ invites[i] # None /\ pc'[w] = "check"
        /\ req'[w].snap = invites[i] /\ req'[w].invite = i
    BY <1>3, FinishEmpties DEF Lookup, Goto, Request
  <2>2. /\ IsValid(invites[i], now)
        /\ SlipOf(w)' = [ invite |-> i, account |-> None ]
    BY <1>1, <1>3, <2>1 DEF SlipOf, InHand, Empty
  <2>3. Slips' = [Slips EXCEPT ![w] = [ invite |-> i, account |-> None ]]
    BY <2>2, OthersKeepSlips, OneSlip DEF Work
  <2>4. Ledger!Issue(w, i)
    BY <1>1, <2>1, <2>2, <2>3
       DEF Ledger!Issue, Ledger!Slip, Ledger!NoSlip, Ledger!IsValid, IsValid,
           Slips, Empty
  <2> QED
    BY <1>1, <2>4 DEF Ledger!Next
<1> QED
  BY <1>2, <1>3

(* POST /Users/New turns the slip into an account; when it fails the slip  *)
(* is lost, and may leave its order.                                       *)
LEMMA CreateUserStep ==
  ASSUME TypeOK, Locals, NEW w \in Workers, CreateUser(w)
  PROVE  Ledger!Next
<1> USE DEF config, books, late, local, TypeOK
<1> DEFINE a == AccountOf(w)
           i == req[w].invite
<1>1. /\ UNCHANGED <<now, invites, counted>>
      /\ SlipOf(w) = [ invite |-> i, account |-> None ]
      /\ a.via = i /\ a.server = req[w].token /\ a.user = req[w].user
      /\ a \in Account
  BY DEF CreateUser, SlipOf, AccountOf, Account, Locals, LocalsOK
<1>2. now' = now /\ \A v \in Workers \ {w} : SlipOf(v)' = SlipOf(v)
  BY OthersKeepSlips DEF Work
<1>3. CASE Finish(w) /\ UNCHANGED <<accounts, late>>
  BY <1>1, <1>2, <1>3, FinishEmpties, LosingIsPass DEF Ledger!Next
<1>4. ASSUME Finish(w), UNCHANGED accounts,
             NEW ws \in SUBSET {w}, Abandon(ws)
      PROVE  Ledger!Next
  <2>1. SlipOf(w)' = Empty /\ ws \in SUBSET Workers
    BY <1>4, FinishEmpties
  <2> DEFINE leave == Posting(ws, "create")
  <2>2. /\ leave \in SUBSET {w} /\ leave \in SUBSET Workers
        /\ \A v \in leave :
             /\ AccountOf(v) \in Account
             /\ SlipOf(v) = [ invite |-> AccountOf(v).via, account |-> None ]
        /\ lateUsers' = lateUsers \cup { AccountOf(v) : v \in leave }
    BY <1>4, <2>1, AbandonedSlips
  <2> HIDE DEF leave
  <2>3. \A v \in Workers : SlipOf(v)' \in {SlipOf(v), Empty}
    BY <1>2, <2>1
  <2>4. \A v \in leave : SlipOf(v)' = Empty
    BY <2>1, <2>2
  <2>5. UNCHANGED <<now, invites, accounts, counted>>
    BY <1>1, <1>4
  <2>6. Ledger!Pass
    BY <2>2, <2>3, <2>4, <2>5, LeavingIsPass
  <2> QED
    BY <2>6 DEF Ledger!Next
<1>5. CASE /\ accounts' = accounts \cup {a} /\ Accepts(w)
           /\ Goto(w, "policyBase") /\ UNCHANGED <<req, late>>
  <2>1. \A b \in accounts : <<b.server, b.user>> # <<a.server, a.user>>
    BY <1>1, <1>5 DEF Accepts, Free
  <2>2. Slips' = [Slips EXCEPT ![w] = SlipOf(w)']
    BY <1>2, OneSlip
  <2>3. SlipOf(w)' = [ invite |-> i, account |-> a ]
    BY <1>5 DEF Goto, SlipOf, InHand, AccountOf
  <2> HIDE DEF a
  <2>4. Ledger!Make(w, a)
    BY <1>1, <1>5, <2>1, <2>2, <2>3
       DEF Ledger!Make, Ledger!Free, Ledger!Slip, Slips
  <2> QED
    BY <1>1, <2>4 DEF Ledger!Next
<1> QED
  BY <1>3, <1>4, <1>5 DEF CreateUser

(* What Jellyfin does late with a POST settles an order of the ledger, or  *)
(* nothing the ledger knows of.                                            *)
LEMMA LateUserStep ==
  ASSUME TypeOK, NEW a \in lateUsers, LateUser(a)
  PROVE  Ledger!Next
<1>1. a \in Account /\ UNCHANGED <<now, invites, counted, pc, req>>
  BY DEF LateUser, TypeOK, local
<1>2. UNCHANGED Slips
  BY <1>1, SlipKept DEF Slips
<1>3. Free(a.server, a.user) =>
        \A b \in accounts : <<b.server, b.user>> # <<a.server, a.user>>
  BY DEF Free
<1>4. Ledger!Settle(a)
  BY <1>1, <1>2, <1>3 DEF LateUser, Ledger!Settle, Ledger!Free, Slips
<1> QED
  BY <1>1, <1>4 DEF Ledger!Next

(* The UPDATE counts the account in hand, or fails and it is lost.         *)
LEMMA IncrementUseStep ==
  ASSUME TypeOK, Locals, Ownership, NEW w \in Workers, IncrementUse(w)
  PROVE  Ledger!Next
<1> USE DEF config, books, late, local, TypeOK
<1> DEFINE a == AccountOf(w)
           i == req[w].invite
<1>1. /\ UNCHANGED <<now, accounts, lateUsers>>
      /\ SlipOf(w) = [ invite |-> i, account |-> a ] /\ SlipOf(w)' = Empty
      /\ a.via = i /\ a \in accounts \ counted
  BY DEF IncrementUse, Goto, SlipOf, InHand, AccountOf, Empty, Ownership
<1>2. CASE UNCHANGED <<invites, counted>>
  BY <1>1, <1>2, OthersKeepSlips, LosingIsPass DEF Work, Ledger!Next
<1>3. CASE /\ invites' = [invites EXCEPT ![i].useCount = @ + 1]
           /\ counted' = counted \cup {a}
  <2>1. Slips' = [Slips EXCEPT ![w] = Empty]
    BY <1>1, OthersKeepSlips, OneSlip DEF Work
  <2> HIDE DEF a
  <2>2. Ledger!Count(w, a)
    BY <1>1, <1>3, <2>1
       DEF Ledger!Count, Ledger!Slip, Ledger!NoSlip, Slips, Empty
  <2> QED
    BY <1>1, <2>2 DEF Ledger!Next
<1> QED
  BY <1>2, <1>3 DEF IncrementUse

(* The clock can only make a slip worthless that no check has honoured.    *)
LEMMA TickStep ==
  ASSUME TypeOK, Locals, Tick
  PROVE  Ledger!Pass
<1> USE DEF config, books, late, local
<1>1. ASSUME NEW w \in Workers PROVE SlipOf(w)' \in {SlipOf(w), Empty}
  <2>1. pc'[w] = pc[w] /\ req'[w] = req[w]
    BY DEF Tick
  <2>2. CASE pc[w] = "check"
    <3>1. SnapshotOf(req[w].snap, req[w].snap)
      BY <2>2, SnapshotReflexive DEF Locals, LocalsOK, SnapshotOf
    <3>2. ~IsValid(req[w].snap, now) => ~IsValid(req[w].snap, now')
      BY <3>1, InvalidStaysInvalid DEF Tick, TypeOK
    <3> QED
      BY <2>1, <2>2, <3>2 DEF SlipOf, InHand, Empty
  <2>3. CASE pc[w] # "check"
    BY <2>1, <2>3 DEF SlipOf, InHand, AccountOf
  <2> QED
    BY <2>2, <2>3
<1> QED
  BY <1>1, LosingIsPass DEF Tick

(* The admin's handlers.                                                   *)
LEMMA AdminStep ==
  ASSUME TypeOK, TypeOK', NEW i \in Invites, CreateInvite(i) \/ RevokeInvite(i)
  PROVE  Ledger!Next
<1> USE DEF config, books, late, local
<1>1. UNCHANGED <<now, accounts, counted, lateUsers, Slips>>
  <2>1. UNCHANGED <<now, accounts, counted, lateUsers, pc, req>>
    BY DEF CreateInvite, RevokeInvite
  <2> QED
    BY <2>1, SlipKept DEF Slips
<1>2. CASE CreateInvite(i)
  <2>1. PICK m \in FormMaxUses, e \in FormExpiries, libs \in FormLibraries :
          /\ Storable(NewInvite(m, e, libs))
          /\ invites' = [invites EXCEPT ![i] = NewInvite(m, e, libs)]
    BY <1>2 DEF CreateInvite
  <2>2. NewInvite(m, e, libs) \in Invite
    BY <2>1, NewInviteType, RegistrationAssumption
  <2>3. /\ invites[i] = None /\ invites'[i] = NewInvite(m, e, libs)
        /\ invites' = [invites EXCEPT ![i] = invites'[i]]
    BY <1>2, <2>1 DEF CreateInvite, TypeOK
  <2>4. invites'[i].useCount = 0 /\ ~invites'[i].revoked
    BY <2>3 DEF NewInvite
  <2>5. Ledger!Create(i)
    BY <1>1, <2>2, <2>3, <2>4 DEF Ledger!Create, Ledger!Invite, Invite, Slips
  <2> QED
    BY <2>5 DEF Ledger!Next
<1>3. CASE RevokeInvite(i)
  <2>1. Ledger!Revoke(i)
    BY <1>1, <1>3 DEF RevokeInvite, Ledger!Revoke, Slips
  <2> QED
    BY <2>1 DEF Ledger!Next
<1> QED
  BY <1>2, <1>3

(* Requests, failures, hang-ups, restarts, the admin and the clock only    *)
(* ever do to the books what the ledger allows (HandleInviteSubmit).       *)
THEOREM RegistrationImplementsLedger == Spec => ImplementsLedger
<1>1. Init => Ledger!Init
  BY DEF Init, Ledger!Init, Ledger!NoSlip, Ledger!Slip, SlipOf, InHand
<1>2. LedgerInv /\ LedgerInv' /\ [Next]_vars => [Ledger!Next]_(Ledger!vars)
  <2> SUFFICES ASSUME LedgerInv, LedgerInv', [Next]_vars
               PROVE  [Ledger!Next]_(Ledger!vars)
    OBVIOUS
  <2>0. TypeOK /\ TypeOK' /\ Locals /\ Ownership
    BY DEF LedgerInv
  <2>1. ASSUME NEW w \in Workers, Receive(w) \/ Work(w) \/ Disconnect(w)
        PROVE  Ledger!Next
    BY <2>0, <2>1, QuietStep, LookupStep, CreateUserStep, IncrementUseStep
       DEF Work, Ledger!Next
  <2>2. CASE Restart
    <3>1. \A w \in Workers : SlipOf(w)' = Empty
      BY <2>2 DEF Restart, SlipOf, InHand, Empty
    <3>2. PICK ws \in SUBSET Workers : Abandon(ws)
      BY <2>2 DEF Restart
    <3> DEFINE leave == Posting(ws, "create")
    <3>3. /\ leave \in SUBSET Workers
          /\ \A w \in leave :
               /\ AccountOf(w) \in Account
               /\ SlipOf(w) = [ invite |-> AccountOf(w).via, account |-> None ]
          /\ lateUsers' = lateUsers \cup { AccountOf(w) : w \in leave }
      BY <2>0, <3>2, AbandonedSlips
    <3>4. UNCHANGED <<now, invites, accounts, counted>>
      BY <2>2 DEF Restart
    <3> HIDE DEF leave
    <3>5. Ledger!Pass
      BY <3>1, <3>3, <3>4, LeavingIsPass
    <3> QED
      BY <3>5 DEF Ledger!Next
  <2>3. ASSUME NEW i \in Invites, CreateInvite(i) \/ RevokeInvite(i)
        PROVE  Ledger!Next
    BY <2>0, <2>3, AdminStep
  <2>4. CASE Tick
    BY <2>0, <2>4, TickStep DEF Ledger!Next
  <2>5. CASE UNCHANGED <<now, invites, accounts, counted, lateUsers, pc, req>>
    BY <2>5, SlipKept, LosingIsPass DEF Ledger!Next
  <2>6. CASE \/ UNCHANGED vars \/ Authenticate
             \/ \E s \in Servers : SaveJellyfinURL(s) \/ SetJellyfinAdminToken(s)
             \/ \E p \in latePolicies : LatePolicy(p)
    BY <2>5, <2>6 DEF vars, config, books, late, local, Authenticate,
                      SaveJellyfinURL, SetJellyfinAdminToken, LatePolicy
  <2>7. ASSUME NEW a \in lateUsers, LateUser(a)
        PROVE  Ledger!Next
    BY <2>0, <2>7, LateUserStep
  <2> QED
    BY <2>1, <2>2, <2>3, <2>4, <2>6, <2>7 DEF Next
<1> QED
  BY <1>1, <1>2, LedgerInvariant, PTL DEF Spec, ImplementsLedger, Ledger!Spec
=============================================================================
