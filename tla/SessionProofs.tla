--------------------------- MODULE SessionProofs ---------------------------
(***************************************************************************)
(* Proofs about AdminSessions for any browsers, tabs and tokens, any       *)
(* lifetime of a session and any bounds.                                   *)
(***************************************************************************)
EXTENDS AdminSessions, TLAPS

(* A request past RequireSession, or answered with a cookie, names a       *)
(* session; past SetJellyfinAdminToken the admin token is there.           *)
Reached(c) ==
  /\ pc[c] \in {"act", "delete", "setCookie"} => req[c].sid \in Sids
  /\ pc[c] = "createSession" => adminToken

(* Tokens are generated before anything can carry them.                    *)
Known ==
  /\ \A s \in Sids : sessions[s] # None => s \in issued
  /\ \A b \in Browsers : cookie[b] \in issued \cup {None}
  /\ \A c \in Clients : req[c].sid \in issued \cup {None}
  /\ ended \subseteq issued

SessionInv ==
  /\ TypeOK
  /\ \A c \in Clients : Reached(c)
  /\ TokenBeforeSession
  /\ Known

-----------------------------------------------------------------------------
(* Browser b can show session s: in its cookie or in a request under way.  *)
Holds(b, s) == cookie[b] = s \/ \E t \in Tabs : req[<<b, t>>].sid = s

(* No two browsers hold the same session.                                  *)
Owned ==
  \A s \in Sids : \A a, b \in Browsers : Holds(a, s) /\ Holds(b, s) => a = b

(* A session whose cookie is about to be set is held by its sign-in alone. *)
Fresh ==
  \A c \in Clients : pc[c] = "setCookie" =>
    /\ req[c].sid \notin ended
    /\ \A b \in Browsers : cookie[b] # req[c].sid
    /\ \A d \in Clients \ {c} : req[d].sid # req[c].sid

OwnerInv == SessionInv /\ Owned /\ Fresh /\ SignOutComplete

-----------------------------------------------------------------------------
LEMMA ClientParts ==
  ASSUME NEW c \in Clients
  PROVE  c[1] \in Browsers /\ c[2] \in Tabs /\ c = <<c[1], c[2]>>
BY DEF Clients

LEMMA SessionInvInit == Init => OwnerInv
<1> SUFFICES ASSUME Init PROVE OwnerInv
  OBVIOUS
<1> USE SessionsAssumption
<1>1. TypeOK
  BY DEF Init, TypeOK, Request, Blank, Steps
<1>2. (\A c \in Clients : Reached(c)) /\ TokenBeforeSession
  BY DEF Init, Reached, TokenBeforeSession
<1>3. Known
  BY DEF Init, Known, Blank
<1>4. Owned
  BY ClientParts DEF Init, Owned, Holds, Blank, Clients
<1>5. Fresh /\ SignOutComplete
  BY DEF Init, Fresh, SignOutComplete
<1> QED
  BY <1>1, <1>2, <1>3, <1>4, <1>5 DEF OwnerInv, SessionInv


-----------------------------------------------------------------------------
(* One kind of step per lemma; a step touches one request at most.         *)
LEMMA FinishTyped ==
  ASSUME TypeOK, NEW c \in Clients, Finish(c)
  PROVE  /\ pc' \in [Clients -> Steps]
         /\ req' \in [Clients -> Request]
         /\ page' \in [Clients -> {"other", "login", "admin"}]
BY SessionsAssumption DEF TypeOK, Finish, Request, Blank, Steps

LEMMA VisitKeeps ==
  ASSUME SessionInv, NEW c \in Clients, Visit(c)
  PROVE  SessionInv'
<1> USE SessionsAssumption, ClientParts
<1>1. ASSUME NEW kind \in {"login", "admin"}, OpenPage(c, kind)
      PROVE  SessionInv'
  <2>1. TypeOK'
    BY <1>1 DEF SessionInv, TypeOK, OpenPage, SetCSRFCookie, Fault
  <2>2. (\A d \in Clients : Reached(d))' /\ TokenBeforeSession' /\ Known'
    BY <1>1 DEF SessionInv, Reached, TokenBeforeSession, Known, OpenPage,
                SetCSRFCookie
  <2> QED
    BY <2>1, <2>2 DEF SessionInv
<1>2. ASSUME NEW kind \in {"login", "admin"}, NEW logout \in BOOLEAN,
             NEW step \in {"authenticate", "requireSession"},
             Submit(c, kind, logout, step)
      PROVE  SessionInv'
  <2>1. TypeOK'
    BY <1>2 DEF SessionInv, TypeOK, Submit, Goto, Request, Steps
  <2>2. (\A d \in Clients : Reached(d))' /\ TokenBeforeSession'
    BY <1>2 DEF SessionInv, TypeOK, Reached, TokenBeforeSession, Submit, Goto
  <2>3. Known'
    BY <1>2 DEF SessionInv, TypeOK, Known, Submit
  <2> QED
    BY <2>1, <2>2, <2>3 DEF SessionInv
<1> QED
  BY <1>1, <1>2 DEF Visit

(* A request that is answered without a change to the tables.              *)
LEMMA RefusalKeeps ==
  ASSUME SessionInv, NEW c \in Clients, Finish(c),
         faults' \in Nat, issued \subseteq issued', issued' \subseteq Sids,
         \A s \in Sids : sessions'[s] = sessions[s] \/ sessions'[s] = None \/
                         (adminToken /\ s \in issued' /\ sessions'[s] \in Nat),
         sessions' \in [Sids -> Nat \cup {None}],
         cookie' \in [Browsers -> issued' \cup {None}],
         ended' \subseteq issued',
         UNCHANGED <<now, adminToken, lastPage>>
  PROVE  SessionInv'
<1>1. TypeOK'
  BY FinishTyped DEF SessionInv, TypeOK
<1>2. (\A d \in Clients : Reached(d))'
  BY DEF SessionInv, TypeOK, Reached, Finish
<1>3. TokenBeforeSession'
  BY DEF SessionInv, TypeOK, TokenBeforeSession
<1>4. Known'
  BY DEF SessionInv, TypeOK, Known, Finish, Blank
<1> QED
  BY <1>1, <1>2, <1>3, <1>4 DEF SessionInv

(* A request that goes on to its next step.                                *)
LEMMA AdvanceKeeps ==
  ASSUME SessionInv, NEW c \in Clients, NEW step \in Steps, Goto(c, step),
         step \in {"act", "delete"} => req[c].sid \in Sids,
         step = "createSession" => adminToken',
         step # "setCookie",
         adminToken => adminToken', adminToken' \in BOOLEAN,
         UNCHANGED <<now, faults, sessions, issued, cookie, lastPage, page,
                     req, ended>>
  PROVE  SessionInv'
<1>1. TypeOK'
  BY DEF SessionInv, TypeOK, Goto
<1>2. (\A d \in Clients : Reached(d))'
  BY DEF SessionInv, TypeOK, Reached, Goto
<1>3. TokenBeforeSession' /\ Known'
  BY DEF SessionInv, TokenBeforeSession, Known
<1> QED
  BY <1>1, <1>2, <1>3 DEF SessionInv

LEMMA SignInKeeps ==
  ASSUME SessionInv, NEW c \in Clients,
         Authenticate(c) \/ SetJellyfinAdminToken(c) \/ SetCookie(c)
  PROVE  SessionInv'
<1> USE SessionsAssumption, ClientParts
<1>1. CASE Authenticate(c)
  <2>1. CASE Goto(c, "saveToken") /\ UNCHANGED <<req, page>>
    BY <1>1, <2>1, AdvanceKeeps DEF Authenticate, Steps, SessionInv, TypeOK
  <2>2. CASE Finish(c)
    BY <1>1, <2>2, RefusalKeeps DEF Authenticate, SessionInv, TypeOK, Known
  <2> QED
    BY <1>1, <2>1, <2>2 DEF Authenticate
<1>2. CASE SetJellyfinAdminToken(c)
  <2>1. CASE adminToken' /\ Goto(c, "createSession") /\ UNCHANGED <<faults, req, page>>
    BY <1>2, <2>1, AdvanceKeeps DEF SetJellyfinAdminToken, Steps
  <2>2. CASE Fault /\ Finish(c) /\ UNCHANGED adminToken
    BY <1>2, <2>2, RefusalKeeps
       DEF SetJellyfinAdminToken, Fault, SessionInv, TypeOK, Known
  <2>3. CASE Fault /\ Finish(c) /\ adminToken' = TRUE
    <3>1. TypeOK'
      BY <1>2, <2>3, FinishTyped
         DEF SetJellyfinAdminToken, Fault, SessionInv, TypeOK
    <3>2. (\A d \in Clients : Reached(d))' /\ TokenBeforeSession'
      BY <1>2, <2>3
         DEF SessionInv, TypeOK, Reached, TokenBeforeSession, Finish
    <3>3. Known'
      BY <1>2, <2>3
         DEF SetJellyfinAdminToken, SessionInv, TypeOK, Known, Finish, Blank
    <3> QED
      BY <3>1, <3>2, <3>3 DEF SessionInv
  <2> QED
    BY <1>2, <2>1, <2>2, <2>3 DEF SetJellyfinAdminToken
<1>3. CASE SetCookie(c)
  <2>1. Finish(c) /\ faults' \in Nat
    BY <1>3 DEF SetCookie, Fault, SessionInv, TypeOK
  <2>2. cookie' \in [Browsers -> issued \cup {None}]
    BY <1>3 DEF SetCookie, SessionInv, TypeOK, Known
  <2> QED
    BY <1>3, <2>1, <2>2, RefusalKeeps
       DEF SetCookie, SessionInv, TypeOK, Known
<1> QED
  BY <1>1, <1>2, <1>3


LEMMA CreateSessionKeeps ==
  ASSUME SessionInv, NEW c \in Clients, CreateSession(c)
  PROVE  SessionInv'
<1> USE SessionsAssumption
<1>0. adminToken
  BY DEF SessionInv, Reached, CreateSession
<1>1. CASE Finish(c) /\ issued' = issued /\ UNCHANGED <<faults, sessions>>
  BY <1>1, RefusalKeeps DEF CreateSession, SessionInv, TypeOK, Known
<1>2. ASSUME NEW s \in Sids \ issued, issued' = issued \cup {s}, Fault, Finish(c),
             sessions' \in {sessions, [sessions EXCEPT ![s] = now + TTL]}
      PROVE  SessionInv'
  <2>1. /\ sessions' \in [Sids -> Nat \cup {None}]
        /\ \A r \in Sids : sessions'[r] = sessions[r] \/
             (adminToken /\ r \in issued' /\ sessions'[r] \in Nat)
    BY <1>0, <1>2 DEF SessionInv, TypeOK
  <2>2. /\ cookie' \in [Browsers -> issued' \cup {None}]
        /\ ended' \subseteq issued' /\ faults' \in Nat /\ issued' \subseteq Sids
    BY <1>2 DEF SessionInv, TypeOK, Known, CreateSession, Fault
  <2> QED
    BY <1>2, <2>1, <2>2, RefusalKeeps DEF CreateSession
<1>3. ASSUME NEW s \in Sids \ issued, issued' = issued \cup {s},
             sessions' = [sessions EXCEPT ![s] = now + TTL],
             req' = [req EXCEPT ![c].sid = s], Goto(c, "setCookie"),
             UNCHANGED <<faults, page>>
      PROVE  SessionInv'
  <2>1. TypeOK'
    BY <1>3 DEF SessionInv, TypeOK, CreateSession, Goto, Request, Steps
  <2>2. (\A d \in Clients : Reached(d))' /\ TokenBeforeSession'
    BY <1>0, <1>3
       DEF SessionInv, TypeOK, Reached, TokenBeforeSession, CreateSession,
           Goto, Request
  <2>3. Known'
    BY <1>3 DEF SessionInv, TypeOK, Known, CreateSession, Request
  <2> QED
    BY <2>1, <2>2, <2>3 DEF SessionInv
<1> QED
  BY <1>1, <1>2, <1>3 DEF CreateSession

LEMMA GuardedKeeps ==
  ASSUME SessionInv, NEW c \in Clients,
         RequireSession(c) \/ Act(c) \/ Delete(c)
  PROVE  SessionInv'
<1> USE SessionsAssumption
<1>1. CASE RequireSession(c)
  <2>1. CASE Alive(req[c].sid) /\ UNCHANGED <<faults, req, page>> /\
             Goto(c, IF req[c].logout THEN "delete" ELSE "act")
    <3>1. req[c].sid \in Sids
      BY <2>1 DEF Alive, SessionInv, TypeOK, Request
    <3>2. CASE req[c].logout
      BY <1>1, <2>1, <3>1, <3>2, AdvanceKeeps
         DEF RequireSession, Steps, SessionInv, TypeOK
    <3>3. CASE ~req[c].logout
      BY <1>1, <2>1, <3>1, <3>3, AdvanceKeeps
         DEF RequireSession, Steps, SessionInv, TypeOK
    <3> QED
      BY <3>2, <3>3
  <2>2. CASE Finish(c) /\ (UNCHANGED faults \/ Fault)
    BY <1>1, <2>2, RefusalKeeps
       DEF RequireSession, Fault, SessionInv, TypeOK, Known
  <2> QED
    BY <1>1, <2>1, <2>2 DEF RequireSession
<1>2. CASE Act(c)
  BY <1>2, RefusalKeeps DEF Act, SessionInv, TypeOK, Known
<1>3. CASE Delete(c)
  <2>1. req[c].sid \in issued
    BY <1>3 DEF Delete, SessionInv, Reached, Known
  <2>2. /\ sessions' \in [Sids -> Nat \cup {None}]
        /\ \A s \in Sids : sessions'[s] \in {sessions[s], None}
    BY <1>3, <2>1 DEF Delete, WithoutRow, SessionInv, TypeOK
  <2>3. /\ cookie' \in [Browsers -> issued' \cup {None}]
        /\ ended' \subseteq issued' /\ faults' \in Nat
    BY <1>3, <2>1 DEF Delete, SessionInv, TypeOK, Known, Fault
  <2> QED
    BY <1>3, <2>2, <2>3, RefusalKeeps DEF Delete, SessionInv, TypeOK
<1> QED
  BY <1>1, <1>2, <1>3

LEMMA SessionInvStep == SessionInv /\ [Next]_vars => SessionInv'
<1> SUFFICES ASSUME SessionInv, [Next]_vars PROVE SessionInv'
  OBVIOUS
<1>1. CASE UNCHANGED vars
  BY <1>1 DEF vars, SessionInv, TypeOK, Reached, TokenBeforeSession, Known
<1>2. CASE Tick
  BY <1>2, SessionsAssumption
     DEF Tick, SessionInv, TypeOK, Reached, TokenBeforeSession, Known
<1>3. CASE Restart
  <2>1. TypeOK'
    BY <1>3, SessionsAssumption
       DEF Restart, Fault, SessionInv, TypeOK, Request, Blank, Steps
  <2>2. (\A c \in Clients : Reached(c))' /\ TokenBeforeSession' /\ Known'
    BY <1>3 DEF Restart, SessionInv, Reached, TokenBeforeSession, Known, Blank
  <2> QED
    BY <2>1, <2>2 DEF SessionInv
<1>4. ASSUME NEW c \in Clients, Visit(c)  PROVE SessionInv'
  BY <1>4, VisitKeeps
<1>5. ASSUME NEW c \in Clients, Handle(c)  PROVE SessionInv'
  BY <1>5, SignInKeeps, CreateSessionKeeps, GuardedKeeps DEF Handle
<1> QED
  BY <1>1, <1>2, <1>3, <1>4, <1>5 DEF Next

LEMMA SessionInvariance == Spec => []SessionInv
<1>1. Init => SessionInv
  BY SessionInvInit DEF OwnerInv
<1> QED
  BY <1>1, SessionInvStep, PTL DEF Spec

(* Every reachable state is well typed.                                    *)
THEOREM SessionsTyped == Spec => []TypeOK
<1>1. SessionInv => TypeOK
  BY DEF SessionInv
<1> QED
  BY <1>1, SessionInvariance, PTL

(* Whoever has a session has stored an admin token before: HandleLogin     *)
(* creates the session last and gives up at the first error.               *)
THEOREM SessionsFollowToken == Spec => []TokenBeforeSession
<1>1. SessionInv => TokenBeforeSession
  BY DEF SessionInv
<1> QED
  BY <1>1, SessionInvariance, PTL


-----------------------------------------------------------------------------
(* A row that exists, or whose token was generated, is never made again.   *)
LEMMA RowsOnlyEnd ==
  ASSUME SessionInv, [Next]_vars, NEW s \in issued
  PROVE  sessions'[s] \in {sessions[s], None} /\ s \in issued'
<1> s \in Sids
  BY DEF SessionInv, TypeOK
<1>1. CASE UNCHANGED <<sessions, issued>>
  BY <1>1
<1>2. ASSUME NEW c \in Clients, CreateSession(c)
      PROVE  sessions'[s] = sessions[s] /\ s \in issued'
  BY <1>2 DEF CreateSession, SessionInv, TypeOK
<1>3. ASSUME NEW c \in Clients, Delete(c)
      PROVE  sessions'[s] \in {sessions[s], None} /\ s \in issued'
  BY <1>3 DEF Delete, WithoutRow, SessionInv, TypeOK
<1> QED
  BY <1>1, <1>2, <1>3
     DEF Next, vars, Visit, Handle, OpenPage, SetCSRFCookie, Submit,
         Authenticate, SetJellyfinAdminToken, SetCookie, RequireSession, Act, Tick, Restart

(* Only RequireSession lets a request in, and only on a live session.      *)
LEMMA LetIn ==
  ASSUME SessionInv, [Next]_vars, NEW c \in Clients,
         pc'[c] \in {"act", "delete"}
  PROVE  /\ req'[c] = req[c]
         /\ pc[c] = pc'[c] \/ Alive(req[c].sid)
<1>1. CASE UNCHANGED <<pc, req>>
  BY <1>1
<1>2. ASSUME NEW d \in Clients, Handle(d) \/ Visit(d)
      PROVE  /\ req'[c] = req[c]
             /\ pc[c] = pc'[c] \/ Alive(req[c].sid)
  <2>1. CASE d # c
    BY <1>2, <2>1
       DEF SessionInv, TypeOK, Handle, Visit, OpenPage, SetCSRFCookie, Submit,
           Authenticate, SetJellyfinAdminToken, CreateSession, SetCookie, RequireSession,
           Act, Delete, Finish, Goto
  <2>2. CASE d = c /\ Visit(d)
    BY <2>2 DEF SessionInv, TypeOK, Visit, OpenPage, SetCSRFCookie, Submit, Goto
  <2>3. CASE d = c /\ Handle(d)
    BY <2>3
       DEF SessionInv, TypeOK, Handle, Authenticate, SetJellyfinAdminToken,
           CreateSession, SetCookie, RequireSession, Act, Delete, Finish, Goto
  <2> QED
    BY <1>2, <2>1, <2>2, <2>3
<1>3. CASE Restart
  BY <1>3 DEF Restart
<1> QED
  BY <1>1, <1>2, <1>3 DEF Next, vars, Tick

LEMMA OverStaysOver ==
  ASSUME SessionInv, [Next]_vars, NEW s \in Sids
  PROVE  NeverRevived(s)
<1> SUFFICES ASSUME Over(s) PROVE Over(s)' /\ Admitted(s)' \subseteq Admitted(s)
  BY DEF NeverRevived
<1>1. now' \in Nat /\ now <= now'
  BY DEF SessionInv, TypeOK, Next, vars, Visit, Handle, OpenPage,
         SetCSRFCookie, Submit, Authenticate, SetJellyfinAdminToken,
         CreateSession, SetCookie, RequireSession, Act, Delete, Tick, Restart
<1>2. Over(s)'
  <2>1. sessions[s] \in Nat \cup {None} /\ now \in Nat
    BY DEF SessionInv, TypeOK
  <2>2. sessions'[s] \in {sessions[s], None} /\ s \in issued'
    BY RowsOnlyEnd DEF Over
  <2> QED
    BY <1>1, <2>1, <2>2, SessionsAssumption DEF Over
<1>3. ASSUME NEW c \in Clients, pc'[c] \in {"act", "delete"}, req'[c].sid = s
      PROVE  pc[c] \in {"act", "delete"} /\ req[c].sid = s
  <2>1. ~Alive(s)
    BY SessionsAssumption DEF Over, Alive, SessionInv, TypeOK
  <2> QED
    BY <1>3, <2>1, LetIn
<1> QED
  BY <1>2, <1>3 DEF Admitted

(* A session that is signed out or expired never works again: no row is    *)
(* made twice and no expiry is moved, so RequireSession lets nobody in.    *)
THEOREM SessionsEndForGood == Spec => OverForGood
<1>1. SessionInv /\ [Next]_vars => [\A s \in Sids : NeverRevived(s)]_vars
  BY OverStaysOver
<1> QED
  BY <1>1, SessionInvariance, PTL DEF Spec, OverForGood


-----------------------------------------------------------------------------
(* Steps that hand no new token to anybody and sign nobody out.            *)
LEMMA QuietKeeps ==
  ASSUME OwnerInv,
         \A b \in Browsers : cookie'[b] \in {cookie[b], None},
         \A d \in Clients : req'[d].sid \in {req[d].sid, cookie[d[1]], None},
         \A d \in Clients : pc'[d] = "setCookie" =>
                              pc[d] = "setCookie" /\ req'[d] = req[d],
         \A s \in issued : sessions'[s] \in {sessions[s], None},
         ended' = ended, faults' = 0 => faults = 0
  PROVE  Owned' /\ Fresh' /\ SignOutComplete'
<1> USE SessionsAssumption
<1>1. ASSUME NEW b \in Browsers, NEW s \in Sids, Holds(b, s)'
      PROVE  Holds(b, s)
  <2>1. CASE cookie'[b] = s
    BY <2>1 DEF Holds
  <2>2. ASSUME NEW t \in Tabs, req'[<<b, t>>].sid = s
        PROVE  Holds(b, s)
    <3>1. req'[<<b, t>>].sid \in {req[<<b, t>>].sid, cookie[b], None}
      BY DEF Clients
    <3> QED
      BY <2>2, <3>1 DEF Holds
  <2> QED
    BY <1>1, <2>1, <2>2 DEF Holds
<1>2. Owned'
  BY <1>1 DEF OwnerInv, Owned
<1>3. Fresh'
  <2> SUFFICES ASSUME NEW c \in Clients, pc'[c] = "setCookie"
               PROVE  /\ req'[c].sid \notin ended'
                      /\ \A b \in Browsers : cookie'[b] # req'[c].sid
                      /\ \A d \in Clients \ {c} : req'[d].sid # req'[c].sid
    BY DEF Fresh
  <2>1. pc[c] = "setCookie" /\ req'[c] = req[c] /\ req[c].sid \in Sids
    BY DEF OwnerInv, SessionInv, Reached
  <2> QED
    BY <2>1, ClientParts DEF OwnerInv, Fresh
<1>4. SignOutComplete'
  BY DEF OwnerInv, SessionInv, TypeOK, Known, SignOutComplete
<1> QED
  BY <1>2, <1>3, <1>4

LEMMA CreateSessionOwner ==
  ASSUME OwnerInv, NEW c \in Clients, CreateSession(c)
  PROVE  Owned' /\ Fresh' /\ SignOutComplete'
<1> USE SessionsAssumption
<1>0. \A s \in issued : sessions'[s] = sessions[s]
  BY DEF CreateSession, OwnerInv, SessionInv, TypeOK
<1>1. CASE Finish(c)
  <2>1. \A d \in Clients : req'[d].sid \in {req[d].sid, None}
    BY <1>1 DEF Finish, Blank, OwnerInv, SessionInv, TypeOK
  <2>2. \A d \in Clients : pc'[d] = "setCookie" =>
                             pc[d] = "setCookie" /\ req'[d] = req[d]
    BY <1>1 DEF Finish, OwnerInv, SessionInv, TypeOK
  <2>3. UNCHANGED <<cookie, ended>> /\ (faults' = 0 => faults = 0)
    BY DEF CreateSession, Fault, OwnerInv, SessionInv, TypeOK
  <2> QED
    BY <1>0, <2>1, <2>2, <2>3, QuietKeeps
<1>2. ASSUME NEW s \in Sids \ issued, req' = [req EXCEPT ![c].sid = s],
             Goto(c, "setCookie"), UNCHANGED faults
      PROVE  Owned' /\ Fresh' /\ SignOutComplete'
  <2>1. \A d \in Clients : req'[d].sid = IF d = c THEN s ELSE req[d].sid
    BY <1>2 DEF OwnerInv, SessionInv, TypeOK, Request
  <2>2. /\ \A b \in Browsers : ~Holds(b, s)
        /\ \A d \in Clients : req[d].sid # s
        /\ s \notin ended
    BY <1>2 DEF OwnerInv, SessionInv, Known, Holds, Clients
  <2>3. ASSUME NEW b \in Browsers, NEW r \in Sids, Holds(b, r)'
        PROVE  IF r = s THEN b = c[1] ELSE Holds(b, r)
    <3>1. cookie'[b] = cookie[b]
      BY DEF CreateSession
    <3>2. CASE r = s
      <4>1. PICK t \in Tabs : req'[<<b, t>>].sid = s
        BY <2>2, <2>3, <3>1, <3>2 DEF Holds
      <4>2. <<b, t>> \in Clients
        BY DEF Clients
      <4> QED
        BY <2>1, <2>2, <3>2, <4>1, <4>2
    <3>3. CASE r # s
      BY <2>1, <2>3, <3>1, <3>3 DEF Holds, Clients
    <3> QED
      BY <3>2, <3>3
  <2>4. Owned'
    BY <2>3 DEF OwnerInv, Owned
  <2>5. Fresh'
    <3> SUFFICES ASSUME NEW d \in Clients, pc'[d] = "setCookie"
                 PROVE  /\ req'[d].sid \notin ended'
                        /\ \A b \in Browsers : cookie'[b] # req'[d].sid
                        /\ \A e \in Clients \ {d} : req'[e].sid # req'[d].sid
      BY DEF Fresh
    <3>1. CASE d = c
      BY <2>1, <2>2, <3>1 DEF CreateSession, Holds
    <3>2. CASE d # c
      <4>1. pc[d] = "setCookie"
        BY <1>2, <3>2 DEF Goto, OwnerInv, SessionInv, TypeOK
      <4> QED
        BY <2>1, <2>2, <3>2, <4>1 DEF CreateSession, OwnerInv, Fresh
    <3> QED
      BY <3>1, <3>2
  <2>6. SignOutComplete'
    BY <1>0, <1>2 DEF CreateSession, SignOutComplete, OwnerInv, SessionInv, Known
  <2> QED
    BY <2>4, <2>5, <2>6
<1> QED
  BY <1>1, <1>2 DEF CreateSession

LEMMA SetCookieOwner ==
  ASSUME OwnerInv, NEW c \in Clients, SetCookie(c)
  PROVE  Owned' /\ Fresh' /\ SignOutComplete'
<1> USE SessionsAssumption, ClientParts
<1>1. CASE UNCHANGED cookie
  BY <1>1, QuietKeeps
     DEF SetCookie, Finish, Blank, Fault, OwnerInv, SessionInv, TypeOK
<1>2. CASE cookie' = [cookie EXCEPT ![c[1]] = req[c].sid] /\ UNCHANGED faults
  <2>1. /\ \A b \in Browsers :
             cookie'[b] = IF b = c[1] THEN req[c].sid ELSE cookie[b]
        /\ \A d \in Clients : req'[d].sid = IF d = c THEN None ELSE req[d].sid
        /\ \A d \in Clients : pc'[d] = "setCookie" =>
                                d # c /\ pc[d] = "setCookie"
        /\ pc[c] = "setCookie" /\ req[c].sid \in Sids
    BY <1>2 DEF SetCookie, Finish, Blank, OwnerInv, SessionInv, TypeOK, Reached
  <2>2. ASSUME NEW b \in Browsers, NEW r \in Sids, Holds(b, r)'
        PROVE  Holds(b, r)
    <3>1. CASE cookie'[b] = r
      BY <2>1, <3>1 DEF Holds
    <3>2. ASSUME NEW t \in Tabs, req'[<<b, t>>].sid = r
          PROVE  Holds(b, r)
      BY <2>1, <3>2 DEF Holds, Clients
    <3> QED
      BY <2>2, <3>1, <3>2 DEF Holds
  <2>3. Owned'
    BY <2>2 DEF OwnerInv, Owned
  <2>4. Fresh'
    BY <2>1 DEF SetCookie, OwnerInv, Fresh, SessionInv, Reached
  <2>5. SignOutComplete'
    BY <1>2, <2>1 DEF SetCookie, OwnerInv, SignOutComplete, Fresh
  <2> QED
    BY <2>3, <2>4, <2>5
<1> QED
  BY <1>1, <1>2 DEF SetCookie

LEMMA DeleteOwner ==
  ASSUME OwnerInv, NEW c \in Clients, Delete(c)
  PROVE  Owned' /\ Fresh' /\ SignOutComplete'
<1> USE SessionsAssumption, ClientParts
<1>1. /\ \A b \in Browsers : cookie'[b] \in {cookie[b], None}
      /\ \A d \in Clients : req'[d].sid = IF d = c THEN None ELSE req[d].sid
      /\ \A d \in Clients : pc'[d] = "setCookie" =>
                              d # c /\ pc[d] = "setCookie" /\ req'[d] = req[d]
      /\ pc[c] = "delete" /\ req[c].sid \in Sids
  BY DEF Delete, Finish, Blank, OwnerInv, SessionInv, TypeOK, Reached
<1>2. ASSUME NEW b \in Browsers, NEW r \in Sids, Holds(b, r)'
      PROVE  Holds(b, r)
  BY <1>1, <1>2 DEF Holds, Clients
<1>3. Owned'
  BY <1>2 DEF OwnerInv, Owned
<1>4. Fresh'
  BY <1>1 DEF Delete, OwnerInv, Fresh, SessionInv, Reached
<1>5. SignOutComplete'
  <2> SUFFICES ASSUME faults' = 0, NEW s \in ended'
               PROVE  sessions'[s] = None /\ \A b \in Browsers : cookie'[b] # s
    BY DEF SignOutComplete
  <2>1. /\ faults = 0 /\ s \in Sids
        /\ sessions' = WithoutRow(req[c].sid)
        /\ cookie' = [cookie EXCEPT ![c[1]] = None]
    <3>1. ~Fault
      BY DEF Fault, OwnerInv, SessionInv, TypeOK
    <3> QED
      BY <1>1, <3>1 DEF Delete, OwnerInv, SessionInv, TypeOK
  <2>2. CASE s = req[c].sid
    <3>1. Holds(c[1], s)
      BY <2>2 DEF Holds
    <3>2. \A b \in Browsers : cookie[b] = s => b = c[1]
      BY <2>1, <3>1 DEF OwnerInv, Owned, Holds
    <3> QED
      BY <2>1, <2>2, <3>2 DEF WithoutRow, OwnerInv, SessionInv, TypeOK
  <2>3. CASE s # req[c].sid
    BY <2>1, <2>3
       DEF Delete, WithoutRow, OwnerInv, SessionInv, TypeOK, SignOutComplete
  <2> QED
    BY <2>2, <2>3
<1> QED
  BY <1>3, <1>4, <1>5


LEMMA OwnerInvStep == OwnerInv /\ [Next]_vars => OwnerInv'
<1> SUFFICES ASSUME OwnerInv, [Next]_vars
             PROVE  Owned' /\ Fresh' /\ SignOutComplete'
  BY SessionInvStep DEF OwnerInv
<1> USE SessionsAssumption
<1>1. CASE UNCHANGED vars
  BY <1>1, QuietKeeps DEF vars
<1>2. CASE Tick
  BY <1>2, QuietKeeps DEF Tick
<1>3. CASE Restart
  <2>1. \A c \in Clients : pc'[c] # "setCookie" /\ req'[c].sid = None
    BY <1>3 DEF Restart, Blank
  <2>2. faults' # 0
    BY <1>3 DEF Restart, Fault, OwnerInv, SessionInv, TypeOK
  <2> QED
    BY <1>3, <2>1, <2>2, QuietKeeps DEF Restart
<1>4. ASSUME NEW c \in Clients, Visit(c)
      PROVE  Owned' /\ Fresh' /\ SignOutComplete'
  <2>1. UNCHANGED <<cookie, ended, sessions>> /\ (faults' = 0 => faults = 0)
    BY <1>4 DEF Visit, OpenPage, SetCSRFCookie, Submit, Fault, OwnerInv,
                SessionInv, TypeOK
  <2>2. \A d \in Clients : req'[d].sid \in {req[d].sid, cookie[d[1]]}
    BY <1>4 DEF Visit, OpenPage, SetCSRFCookie, Submit, OwnerInv, SessionInv,
                TypeOK
  <2>3. \A d \in Clients : pc'[d] = "setCookie" =>
                             pc[d] = "setCookie" /\ req'[d] = req[d]
    BY <1>4 DEF Visit, OpenPage, SetCSRFCookie, Submit, Goto, OwnerInv,
                SessionInv, TypeOK
  <2> QED
    BY <2>1, <2>2, <2>3, QuietKeeps
<1>5. ASSUME NEW c \in Clients,
             \/ Authenticate(c) \/ SetJellyfinAdminToken(c)
             \/ RequireSession(c) \/ Act(c)
      PROVE  Owned' /\ Fresh' /\ SignOutComplete'
  <2>1. UNCHANGED <<cookie, ended, sessions>> /\ (faults' = 0 => faults = 0)
    BY <1>5 DEF Authenticate, SetJellyfinAdminToken, RequireSession, Act,
                Fault, OwnerInv, SessionInv, TypeOK
  <2>2. /\ \A d \in Clients : req'[d].sid \in {req[d].sid, None}
        /\ \A d \in Clients : pc'[d] = "setCookie" =>
                                pc[d] = "setCookie" /\ req'[d] = req[d]
    <3>1. CASE Finish(c)
      BY <3>1 DEF Finish, Blank, OwnerInv, SessionInv, TypeOK
    <3>2. ASSUME NEW step \in {"saveToken", "createSession", "act", "delete"},
                 Goto(c, step), UNCHANGED req
          PROVE  /\ \A d \in Clients : req'[d].sid \in {req[d].sid, None}
                 /\ \A d \in Clients : pc'[d] = "setCookie" =>
                                         pc[d] = "setCookie" /\ req'[d] = req[d]
      BY <3>2 DEF Goto, OwnerInv, SessionInv, TypeOK
    <3> QED
      BY <1>5, <3>1, <3>2
         DEF Authenticate, SetJellyfinAdminToken, RequireSession, Act
  <2> QED
    BY <2>1, <2>2, QuietKeeps
<1>6. ASSUME NEW c \in Clients, CreateSession(c) \/ SetCookie(c) \/ Delete(c)
      PROVE  Owned' /\ Fresh' /\ SignOutComplete'
  BY <1>6, CreateSessionOwner, SetCookieOwner, DeleteOwner
<1> QED
  BY <1>1, <1>2, <1>3, <1>4, <1>5, <1>6 DEF Next, Handle

(* Without failures an answered sign-out is complete, whatever the other   *)
(* tabs were doing: the session has one owner, so clearing that browser's  *)
(* cookie clears the last one, and no sign-in under way brings it back.    *)
THEOREM SignOutCompletes == Spec => []SignOutComplete
<1>1. OwnerInv => SignOutComplete
  BY DEF OwnerInv
<1> QED
  BY <1>1, SessionInvInit, OwnerInvStep, PTL DEF Spec
-----------------------------------------------------------------------------
(* The session behind each request, all requests together.                 *)
Inside == [c \in Clients |-> InsideOf(c)]

(* A step of c that is seen at most in what c is inside.                   *)
LEMMA OneMoves ==
  ASSUME NEW c \in Clients,
         \A d \in Clients \ {c} : pc'[d] = pc[d] /\ req'[d] = req[d]
  PROVE  /\ Inside' = [Inside EXCEPT ![c] = InsideOf(c)']
         /\ Inside[c] = InsideOf(c)
         /\ InsideOf(c)' = InsideOf(c) => Inside' = Inside
BY DEF Inside, InsideOf

(* Handle moves one request.                                               *)
LEMMA HandleMovesOne ==
  ASSUME SessionInv, NEW c \in Clients, Visit(c) \/ Handle(c)
  PROVE  \A d \in Clients \ {c} : pc'[d] = pc[d] /\ req'[d] = req[d]
<1> USE DEF SessionInv, TypeOK, Finish, Goto
<1>1. CASE Visit(c)
  BY <1>1 DEF Visit, OpenPage, SetCSRFCookie, Submit
<1>2. CASE Handle(c)
  BY <1>2 DEF Handle, Authenticate, SetJellyfinAdminToken, CreateSession,
              SetCookie, RequireSession, Act, Delete
<1> QED
  BY <1>1, <1>2

(* What happens before a request is let in, and with the answer to a       *)
(* sign-in, SessionLife does not see.                                      *)
LEMMA OutsideUnseen ==
  ASSUME SessionInv, NEW c \in Clients,
         Visit(c) \/ Authenticate(c) \/ SetJellyfinAdminToken(c) \/ SetCookie(c)
  PROVE  UNCHANGED Life!vars
<1> USE DEF SessionInv, TypeOK, Finish, Goto
<1>1. UNCHANGED <<now, sessions, issued>>
  BY DEF Visit, OpenPage, SetCSRFCookie, Submit, Authenticate,
         SetJellyfinAdminToken, SetCookie
<1>2. /\ pc[c] \notin {"act", "delete"}
      /\ pc'[c] \notin {"act", "delete"}
  BY DEF Visit, OpenPage, SetCSRFCookie, Submit, Authenticate,
         SetJellyfinAdminToken, SetCookie
<1>3. Inside' = Inside
  BY <1>2, HandleMovesOne, OneMoves DEF InsideOf, Handle
<1> QED
  BY <1>1, <1>3 DEF Life!vars, Inside

LEMMA CreateSessionOpens ==
  ASSUME SessionInv, NEW c \in Clients, CreateSession(c)
  PROVE  Life!Next \/ UNCHANGED Life!vars
<1> USE DEF SessionInv, TypeOK, Finish, Goto
<1>1. /\ pc[c] \notin {"act", "delete"}
      /\ pc'[c] \notin {"act", "delete"}
  BY DEF CreateSession
<1>2. Inside' = Inside
  BY <1>1, HandleMovesOne, OneMoves DEF InsideOf, Handle
<1>3. CASE UNCHANGED <<sessions, issued>>
  BY <1>2, <1>3 DEF Life!vars, Inside, CreateSession
<1>4. ASSUME NEW s \in Sids \ issued, issued' = issued \cup {s},
             sessions' \in {sessions, [sessions EXCEPT ![s] = now + TTL]}
      PROVE  Life!Next
  BY <1>2, <1>4 DEF Life!Next, Life!Open, Inside, CreateSession
<1> QED
  BY <1>3, <1>4 DEF CreateSession

(* A request is let in by a live session, or refused.                      *)
LEMMA RequireSessionLetsIn ==
  ASSUME SessionInv, NEW c \in Clients, RequireSession(c)
  PROVE  Life!Next \/ UNCHANGED Life!vars
<1> USE DEF SessionInv, TypeOK, Finish, Goto
<1>1. /\ UNCHANGED <<now, sessions, issued>>
      /\ InsideOf(c) = None
  BY DEF RequireSession, InsideOf
<1>2. CASE Finish(c)
  <2>1. InsideOf(c)' = None
    BY <1>2 DEF InsideOf
  <2>2. Inside' = Inside
    BY <1>1, <2>1, HandleMovesOne, OneMoves DEF Handle
  <2> QED
    BY <1>1, <2>2 DEF Life!vars, Inside
<1>3. CASE /\ Alive(req[c].sid) /\ UNCHANGED req
           /\ Goto(c, IF req[c].logout THEN "delete" ELSE "act")
  <2>1. req[c].sid \in Sids /\ Life!Lives(req[c].sid)
    BY <1>3 DEF Alive, Life!Lives, Request
  <2>2. InsideOf(c)' = req[c].sid
    BY <1>3 DEF InsideOf
  <2>3. Inside' = [Inside EXCEPT ![c] = req[c].sid] /\ Inside[c] = None
    BY <1>1, <2>2, HandleMovesOne, OneMoves DEF Handle
  <2>4. Life!LetIn(c, req[c].sid)
    BY <1>1, <2>1, <2>3 DEF Life!LetIn, Inside
  <2> QED
    BY <2>1, <2>4 DEF Life!Next
<1> QED
  BY <1>2, <1>3 DEF RequireSession

(* A request that was let in is answered; a sign-out may take its own row  *)
(* along and no other.                                                     *)
LEMMA AnsweredGoes ==
  ASSUME SessionInv, NEW c \in Clients, Act(c) \/ Delete(c)
  PROVE  Life!Next
<1> USE SessionsAssumption DEF SessionInv, TypeOK, Finish, Goto
<1>1. /\ UNCHANGED <<now, issued>>
      /\ pc[c] \in {"act", "delete"} /\ pc'[c] = "idle"
      /\ sessions' \in {sessions, WithoutRow(req[c].sid)}
  BY DEF Act, Delete
<1>2. InsideOf(c) = req[c].sid /\ req[c].sid \in Sids /\ InsideOf(c)' = None
  BY <1>1 DEF InsideOf, Reached
<1>3. Inside' = [Inside EXCEPT ![c] = None] /\ Inside[c] = req[c].sid
  BY <1>2, HandleMovesOne, OneMoves DEF Handle
<1>4. Life!Go(c)
  BY <1>1, <1>2, <1>3 DEF Life!Go, Inside, WithoutRow
<1> QED
  BY <1>4 DEF Life!Next

LEMMA LifeStep ==
  ASSUME SessionInv, [Next]_vars
  PROVE  Life!Next \/ UNCHANGED Life!vars
<1>1. CASE UNCHANGED vars
  BY <1>1 DEF vars, Life!vars, InsideOf
<1>2. ASSUME NEW c \in Clients, Visit(c) \/ Handle(c)
      PROVE  Life!Next \/ UNCHANGED Life!vars
  BY <1>2, OutsideUnseen, CreateSessionOpens, RequireSessionLetsIn, AnsweredGoes
     DEF Handle
<1>3. CASE Tick
  BY <1>3 DEF Tick, Life!Next, Life!Pass, InsideOf
<1>4. CASE Restart
  BY <1>4 DEF Restart, Life!Next, Life!Crash, InsideOf
<1> QED
  BY <1>1, <1>2, <1>3, <1>4 DEF Next

(* However many tabs, browsers and sign-ins there are, and whatever fails: *)
(* a request acts only for a session that lived when it was let in, and    *)
(* nothing but such a request or time ends a session (auth.go, session.go).*)
THEOREM SessionsImplementLife == Spec => ImplementsLife
<1>1. Init => Life!Init
  BY DEF Init, Life!Init, InsideOf
<1>2. SessionInv /\ [Next]_vars => [Life!Next]_(Life!vars)
  BY LifeStep
<1> QED
  BY <1>1, <1>2, SessionInvariance, PTL DEF Spec, ImplementsLife, Life!Spec
=============================================================================
