---------------------------- MODULE AdminSessions ----------------------------
(***************************************************************************)
(* Admin sign-in, sessions and form tokens: HandleLogin, HandleLogout and  *)
(* the pages and forms behind RequireSession, used from several tabs of    *)
(* several browsers against one sessions table.                            *)
(*                                                                         *)
(* A browser has one cookie jar for all its tabs.  Every page the server   *)
(* renders carries a fresh CSRF token and sets the CSRF cookie to it, so   *)
(* the cookie matches the form of the page loaded last and of no other:    *)
(* lastPage[b] is that tab.  A tab has one request on its way at a time.   *)
(* The session cookie expires with its row; past that moment it is the     *)
(* same to the server whether the browser still sends it.                  *)
(*                                                                         *)
(* A definition named X_<Mistake> is X with a plausible mistake; nothing   *)
(* uses it, but the properties must tell the two apart.                    *)
(***************************************************************************)
EXTENDS Integers, FiniteSets

CONSTANTS
  Browsers,
  Tabs,            \* tabs of each browser
  Sids,            \* session tokens, each generated at most once
  None,            \* absent: a missing row, an empty cookie
  TTL,             \* sessionTTL
  MaxTime,         \* bound on the clock
  MaxFaults        \* bound on failing calls, lost replies and restarts

ASSUME SessionsAssumption ==
  /\ None \notin Sids \cup Tabs \cup Nat
  /\ TTL \in Nat
  /\ MaxTime \in Nat /\ MaxFaults \in Nat

VARIABLES
  now,             \* the wall clock
  faults,          \* failures so far
  sessions,        \* table sessions: when each row expires
  issued,          \* session tokens generated so far
  adminToken,      \* setting jellyfin_admin_token is stored
  cookie,          \* session cookie of each browser
  lastPage,        \* tab whose form matches the CSRF cookie
  page,            \* what each tab shows
  pc, req,         \* program counter and locals of each tab's request
  ended            \* history: sessions whose sign-out was answered

vars == <<now, faults, sessions, issued, adminToken, cookie, lastPage,
          page, pc, req, ended>>

Clients == Browsers \X Tabs

Steps == { "idle", "authenticate", "saveToken", "createSession", "setCookie",
           "requireSession", "act", "delete" }

(* What the request carries: the session cookie, whether its form matches  *)
(* the CSRF cookie, and whether it is a sign-out.                          *)
Request == [ sid : Sids \cup {None}, csrf : BOOLEAN, logout : BOOLEAN ]
Blank   == [ sid |-> None, csrf |-> FALSE, logout |-> FALSE ]

TypeOK ==
  /\ now \in Nat
  /\ faults \in Nat
  /\ sessions \in [Sids -> Nat \cup {None}]
  /\ issued \subseteq Sids
  /\ adminToken \in BOOLEAN
  /\ cookie \in [Browsers -> Sids \cup {None}]
  /\ lastPage \in [Browsers -> Tabs \cup {None}]
  /\ page \in [Clients -> {"other", "login", "admin"}]
  /\ pc \in [Clients -> Steps]
  /\ req \in [Clients -> Request]
  /\ ended \subseteq Sids

Init ==
  /\ now = 0
  /\ faults = 0
  /\ sessions = [s \in Sids |-> None]
  /\ issued = {}
  /\ adminToken = FALSE
  /\ cookie = [b \in Browsers |-> None]
  /\ lastPage = [b \in Browsers |-> None]
  /\ page = [c \in Clients |-> "other"]
  /\ pc = [c \in Clients |-> "idle"]
  /\ req = [c \in Clients |-> Blank]
  /\ ended = {}

-----------------------------------------------------------------------------
Fault == faults < MaxFaults /\ faults' = faults + 1

Goto(c, step) == pc' = [pc EXCEPT ![c] = step]

(* The handler returns; the tab shows an error or follows a redirect.      *)
Finish(c) ==
  /\ pc' = [pc EXCEPT ![c] = "idle"]
  /\ req' = [req EXCEPT ![c] = Blank]
  /\ page' = [page EXCEPT ![c] = "other"]

(* SessionStore.Get returns a session: its row is there and not expired.   *)
Alive_NoExpiry(s) == s # None /\ sessions[s] # None

Alive(s) == s # None /\ sessions[s] # None /\ now <= sessions[s]

(* The browser's CSRF cookie is replaced by the token of one tab's page,   *)
(* or of a page without a form.                                            *)
SetCSRFCookie(b, tab) == lastPage' = [lastPage EXCEPT ![b] = tab]

(* SetCSRFCookie, then a page is rendered: the login form for everybody,   *)
(* the dashboard and the settings for a session.  If a read fails, the     *)
(* error page carries the new cookie or, before SetCSRFCookie, none.       *)
OpenPage(c, kind) ==
  /\ pc[c] = "idle"
  /\ kind = "admin" => Alive(cookie[c[1]])
  /\ \/ /\ SetCSRFCookie(c[1], c[2])
        /\ page' = [page EXCEPT ![c] = kind]
        /\ UNCHANGED faults
     \/ /\ Fault
        /\ SetCSRFCookie(c[1], None) \/ UNCHANGED lastPage
        /\ page' = [page EXCEPT ![c] = "other"]
  /\ UNCHANGED <<now, sessions, issued, adminToken, cookie, pc, req, ended>>

(* A form is sent, with the cookies of this moment.                        *)
Submit(c, kind, logout, step) ==
  /\ pc[c] = "idle" /\ page[c] = kind
  /\ req' = [req EXCEPT ![c] = [ sid    |-> cookie[c[1]],
                                 csrf   |-> lastPage[c[1]] = c[2],
                                 logout |-> logout ] ]
  /\ Goto(c, step)
  /\ UNCHANGED <<now, faults, sessions, issued, adminToken, cookie, lastPage,
                 page, ended>>

(* HandleLogin: ValidateCSRF, then Jellyfin's verdict on the credentials.  *)
Authenticate(c) ==
  /\ pc[c] = "authenticate"
  /\ \/ req[c].csrf /\ Goto(c, "saveToken") /\ UNCHANGED <<req, page>>
     \/ Finish(c)      \* 403, or back to the login form
  /\ UNCHANGED <<now, faults, sessions, issued, adminToken, cookie, lastPage,
                 ended>>

SetJellyfinAdminToken_Later(c) ==
  /\ pc[c] = "saveToken"
  /\ Goto(c, "createSession")
  /\ UNCHANGED <<now, faults, sessions, issued, adminToken, cookie, lastPage,
                 page, req, ended>>

(* settings.SetJellyfinAdminToken; the upsert whose answer is lost has     *)
(* taken effect all the same.                                              *)
SetJellyfinAdminToken(c) ==
  /\ pc[c] = "saveToken"
  /\ \/ /\ adminToken' = TRUE
        /\ Goto(c, "createSession")
        /\ UNCHANGED <<faults, req, page>>
     \/ /\ Fault /\ Finish(c)
        /\ adminToken' = TRUE \/ UNCHANGED adminToken
  /\ UNCHANGED <<now, sessions, issued, cookie, lastPage, ended>>

(* Manager.Create: a new token and its row.  An INSERT whose answer is     *)
(* lost leaves a row nobody has the token of.  Sids bounds the sign-ins:   *)
(* when all are used, no token is generated and the sign-in fails.         *)
CreateSession(c) ==
  /\ pc[c] = "createSession"
  /\ \/ issued = Sids /\ Finish(c) /\ UNCHANGED <<faults, sessions, issued>>
     \/ \E s \in Sids \ issued :
          /\ issued' = issued \cup {s}
          /\ \/ /\ sessions' = [sessions EXCEPT ![s] = now + TTL]
                /\ req' = [req EXCEPT ![c].sid = s]
                /\ Goto(c, "setCookie")
                /\ UNCHANGED <<faults, page>>
             \/ Fault /\ Finish(c) /\ UNCHANGED sessions
             \/ /\ Fault /\ Finish(c)
                /\ sessions' = [sessions EXCEPT ![s] = now + TTL]
  /\ UNCHANGED <<now, adminToken, cookie, lastPage, ended>>

(* The reply reaches the browser, or does not; an earlier session of the   *)
(* browser loses its cookie and keeps its row.                             *)
SetCookie(c) ==
  /\ pc[c] = "setCookie"
  /\ \/ cookie' = [cookie EXCEPT ![c[1]] = req[c].sid] /\ UNCHANGED faults
     \/ Fault /\ UNCHANGED cookie
  /\ Finish(c)
  /\ UNCHANGED <<now, sessions, issued, adminToken, lastPage, ended>>

RequireSession_LetsAllIn(c) ==
  /\ pc[c] = "requireSession"
  /\ Goto(c, IF req[c].logout THEN "delete" ELSE "act")
  /\ UNCHANGED <<now, faults, sessions, issued, adminToken, cookie, lastPage,
                 page, req, ended>>

(* middleware.RequireSession, before every form behind a session.          *)
RequireSession(c) ==
  /\ pc[c] = "requireSession"
  /\ \/ /\ Alive(req[c].sid)
        /\ Goto(c, IF req[c].logout THEN "delete" ELSE "act")
        /\ UNCHANGED <<faults, req, page>>
     \/ ~Alive(req[c].sid) /\ Finish(c) /\ UNCHANGED faults
     \/ Fault /\ Finish(c)
  /\ UNCHANGED <<now, sessions, issued, adminToken, cookie, lastPage, ended>>

(* HandleCreateInvite, HandleRevokeInvite, HandleSettingsSubmit: refused   *)
(* unless ValidateCSRF agrees; what they change is in other modules.       *)
Act(c) ==
  /\ pc[c] = "act"
  /\ Finish(c)
  /\ UNCHANGED <<now, faults, sessions, issued, adminToken, cookie, lastPage,
                 ended>>

Delete_CookieOnly(c) ==
  /\ pc[c] = "delete"
  /\ cookie' = [cookie EXCEPT ![c[1]] = None]
  /\ Finish(c)
  /\ ended' = ended \cup {req[c].sid}
  /\ UNCHANGED <<now, faults, sessions, issued, adminToken, lastPage>>

WithoutRow(s) == [sessions EXCEPT ![s] = None]

(* HandleLogout drops the error of Manager.Delete, which clears the cookie *)
(* only if the DELETE was seen to succeed, and sends the browser to the    *)
(* login form all the same.                                                *)
Delete(c) ==
  /\ pc[c] = "delete"
  /\ \/ /\ sessions' = WithoutRow(req[c].sid)
        /\ cookie' = [cookie EXCEPT ![c[1]] = None]
        /\ UNCHANGED faults
     \/ /\ Fault
        /\ sessions' \in {sessions, WithoutRow(req[c].sid)}
        /\ UNCHANGED cookie
  /\ Finish(c)
  /\ ended' = ended \cup {req[c].sid}
  /\ UNCHANGED <<now, issued, adminToken, lastPage>>

Handle(c) ==
  \/ Authenticate(c) \/ SetJellyfinAdminToken(c) \/ CreateSession(c)
  \/ SetCookie(c) \/ RequireSession(c) \/ Act(c) \/ Delete(c)

-----------------------------------------------------------------------------
Tick ==
  /\ now < MaxTime
  /\ now' = now + 1
  /\ UNCHANGED <<faults, sessions, issued, adminToken, cookie, lastPage,
                 page, pc, req, ended>>

(* The process dies and starts again: requests are lost, the table is not. *)
Restart ==
  /\ Fault
  /\ pc' = [c \in Clients |-> "idle"]
  /\ req' = [c \in Clients |-> Blank]
  /\ UNCHANGED <<now, sessions, issued, adminToken, cookie, lastPage, page,
                 ended>>

Visit(c) ==
  \/ \E kind \in {"login", "admin"} : OpenPage(c, kind)
  \/ Submit(c, "login", FALSE, "authenticate")
  \/ \E logout \in BOOLEAN : Submit(c, "admin", logout, "requireSession")

Next ==
  \/ \E c \in Clients : Visit(c) \/ Handle(c)
  \/ Tick
  \/ Restart

Spec == Init /\ [][Next]_vars

-----------------------------------------------------------------------------
(* Requests past RequireSession on session s.                              *)
Admitted(s) == { c \in Clients : pc[c] \in {"act", "delete"} /\ req[c].sid = s }

(* A session means that the admin token was stored before: sessions are    *)
(* created last, and a failed HandleLogin leaves none behind.  The invite  *)
(* handler relies on it: whoever can create an invite has stored a token.  *)
TokenBeforeSession == (\E s \in Sids : sessions[s] # None) => adminToken

(* Session s is over: its token was generated, and its row is gone, was    *)
(* never made, or has expired.                                             *)
Over(s) == s \in issued /\ (sessions[s] # None => now > sessions[s])

(* A session that is over stays over, and admits no further request; only  *)
(* those already past RequireSession go on.                                *)
NeverRevived(s) == Over(s) => Over(s)' /\ Admitted(s)' \subseteq Admitted(s)
OverForGood     == [][\A s \in Sids : NeverRevived(s)]_vars

(* A sign-out that met no failure is complete: the row is gone, whatever   *)
(* the other tabs were doing, and no browser still sends the token.        *)
SignOutComplete ==
  faults = 0 => \A s \in ended :
    sessions[s] = None /\ \A b \in Browsers : cookie[b] # s

(* "best-effort; always log out" (admin.go, HandleLogout): an answered     *)
(* sign-out ends the session.                                              *)
AlwaysLogOut ==
  \A s \in ended : ~Alive(s) \/ \A b \in Browsers : cookie[b] # s

-----------------------------------------------------------------------------
(* The session a request is past RequireSession on.                        *)
InsideOf(c) == IF pc[c] \in {"act", "delete"} THEN req[c].sid ELSE None

Life == INSTANCE SessionLife
          WITH Slots <- Clients, expires <- sessions,
               inside <- [c \in Clients |-> InsideOf(c)]

(* Tabs, cookies, failed calls and restarts notwithstanding, a request     *)
(* acts for a session only after it was let in while that session lived, a *)
(* session begins once, and only a request it let in, or time, ends it     *)
(* (auth.go, session.go).                                                  *)
ImplementsLife == Life!Spec
=============================================================================
