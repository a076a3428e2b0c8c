---------------------------- MODULE FixedWindow ----------------------------
(***************************************************************************)
(* What the rate limiter promises: per address, windows of a fixed length, *)
(* each opened by the first request after the last one closed, and in each *)
(* at most Limit requests let through.  A window closes by itself the      *)
(* moment it is over; there is no map, no cleanup and no mutex here.       *)
(***************************************************************************)
EXTENDS Integers

CONSTANTS IPs, None, Limit, Window

VARIABLES now, window, passed, boots

vars == <<now, window, passed, boots>>

Open == [ count : Nat, windowEnd : Nat ]

Init ==
  /\ now = 0
  /\ window = [ip \in IPs |-> None]
  /\ passed = {}
  /\ boots = 0

(* One more request in window e of ip: let through up to Limit.            *)
Count(ip, e) ==
  /\ window' = [window EXCEPT ![ip] = [e EXCEPT !.count = @ + 1]]
  /\ passed' = IF e.count >= Limit THEN passed
               ELSE passed \cup { [ ip |-> ip, boot |-> boots, at |-> now,
                                    windowEnd |-> e.windowEnd,
                                    n |-> e.count + 1 ] }
  /\ UNCHANGED <<now, boots>>

Request(ip) ==
  \/ window[ip] # None /\ Count(ip, window[ip])
  \/ window[ip] = None
       /\ Count(ip, [ count |-> 0, windowEnd |-> now + Window ])

Tick ==
  /\ now' = now + 1
  /\ window' = [ip \in IPs |->
       IF window[ip] # None /\ window[ip].windowEnd < now' THEN None
       ELSE window[ip]]
  /\ UNCHANGED <<passed, boots>>

(* The process starts again and has forgotten every window.                *)
Reboot ==
  /\ boots' = boots + 1
  /\ window' = [ip \in IPs |-> None]
  /\ UNCHANGED <<now, passed>>

Next == (\E ip \in IPs : Request(ip)) \/ Tick \/ Reboot

Spec == Init /\ [][Next]_vars
=============================================================================
