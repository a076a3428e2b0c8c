----------------------------- MODULE SessionLife -----------------------------
(***************************************************************************)
(* What a session is, without browsers, cookies, forms or handlers: it is  *)
(* opened once, lives until it expires or is ended, and lets requests in   *)
(* while it lives.  Only a request it let in ends it before its time.      *)
(***************************************************************************)
EXTENDS Integers

CONSTANTS
  Slots,           \* who can be let in
  Sids,            \* session tokens
  None,            \* no row, not let in
  TTL              \* how long a session lives

VARIABLES
  now,             \* the wall clock
  expires,         \* when each session expires
  issued,          \* tokens generated so far
  inside           \* the session each slot was let in by

vars == <<now, expires, issued, inside>>

Init ==
  /\ now = 0
  /\ expires = [s \in Sids |-> None]
  /\ issued = {}
  /\ inside = [c \in Slots |-> None]

Lives(s) == expires[s] # None /\ now <= expires[s]

(* A token is generated once; its session begins then or never.            *)
Open(s) ==
  /\ s \notin issued /\ issued' = issued \cup {s}
  /\ expires' \in {expires, [expires EXCEPT ![s] = now + TTL]}
  /\ UNCHANGED <<now, inside>>

LetIn(c, s) ==
  /\ inside[c] = None /\ Lives(s)
  /\ inside' = [inside EXCEPT ![c] = s]
  /\ UNCHANGED <<now, expires, issued>>

(* A request that was let in goes, and may end its session, even one that  *)
(* has expired or was ended meanwhile.                                     *)
Go(c) ==
  /\ inside[c] # None /\ inside' = [inside EXCEPT ![c] = None]
  /\ expires' \in {expires, [expires EXCEPT ![inside[c]] = None]}
  /\ UNCHANGED <<now, issued>>

(* Time passes.                                                            *)
Pass == now' = now + 1 /\ UNCHANGED <<expires, issued, inside>>

(* All requests are lost.                                                  *)
Crash ==
  /\ inside' = [c \in Slots |-> None]
  /\ UNCHANGED <<now, expires, issued>>

Next ==
  \/ \E s \in Sids : Open(s)
  \/ \E c \in Slots : Go(c) \/ \E s \in Sids : LetIn(c, s)
  \/ Pass
  \/ Crash

Spec == Init /\ [][Next]_vars
=============================================================================
