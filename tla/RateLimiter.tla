---------------------------- MODULE RateLimiter ----------------------------
(***************************************************************************)
(* middleware.RateLimit, which main.go puts before both invite routes: a   *)
(* map from addresses to buckets under one mutex, used by every request    *)
(* and by a goroutine that deletes the buckets whose window is over.       *)
(*                                                                         *)
(* The handler reads the clock twice inside the mutex, to test a window    *)
(* and to open the next one, and time may pass in between; so opening a    *)
(* window takes two steps, and mu is held from the first to the second.    *)
(* Every other critical section reads the clock once and is one step.      *)
(*                                                                         *)
(* A definition named X_<Mistake> is X with a plausible mistake; nothing   *)
(* uses it, but the properties must tell the two apart.                    *)
(***************************************************************************)
EXTENDS Integers, FiniteSets

CONSTANTS
  IPs,             \* addresses
  None,            \* absent: no bucket, a free mutex, no usable header
  Limit,           \* max
  Window,          \* window
  BehindProxy,     \* behindProxy
  MaxTime,         \* bound on the clock
  MaxCount,        \* bound on the requests of one window
  MaxBoots         \* bound on restarts

ASSUME LimiterAssumption ==
  /\ None \notin IPs \cup [ count : Nat, windowEnd : Nat ]
  /\ Limit \in Nat
  /\ Window \in Nat \ {0}
  /\ BehindProxy \in BOOLEAN
  /\ MaxTime \in Nat /\ MaxCount \in Nat /\ MaxBoots \in Nat

VARIABLES
  now,             \* the monotonic clock
  buckets,         \* buckets
  mu,              \* address whose handler holds the mutex, about to renew
  boots,           \* restarts so far
  passed,          \* history: requests let through
  refused          \* history: requests answered 429

vars == <<now, buckets, mu, boots, passed, refused>>

Bucket == [ count : Nat, windowEnd : Nat ]

(* The n-th request of a window, let through at an instant.                *)
Pass    == [ ip : IPs, boot : Nat, at : Nat, windowEnd : Nat, n : Nat ]
Refusal == [ ip : IPs, boot : Nat, at : Nat ]

TypeOK ==
  /\ now \in Nat
  /\ buckets \in [IPs -> Bucket \cup {None}]
  /\ mu \in IPs \cup {None}
  /\ boots \in Nat
  /\ passed \subseteq Pass
  /\ refused \subseteq Refusal

NoBuckets == [ip \in IPs |-> None]

Init ==
  /\ now = 0
  /\ buckets = NoBuckets
  /\ mu = None
  /\ boots = 0
  /\ passed = {}
  /\ refused = {}

-----------------------------------------------------------------------------
(* clientIP: the first address of X-Forwarded-For behind a proxy, if it    *)
(* parses, and the peer's otherwise.                                       *)
ClientIP(forwarded, peer) ==
  IF BehindProxy /\ forwarded # None THEN forwarded ELSE peer

Over(e) == e # None /\ now > e.windowEnd

(* e.count++ and the verdict.                                              *)
Count_OffByOne(ip, e) ==
  /\ buckets' = [buckets EXCEPT ![ip] = [e EXCEPT !.count = @ + 1]]
  /\ \/ /\ e.count + 1 <= Limit + 1
        /\ passed' = passed \cup
             { [ ip |-> ip, boot |-> boots, at |-> now,
                 windowEnd |-> e.windowEnd, n |-> e.count + 1 ] }
        /\ UNCHANGED refused
     \/ /\ e.count + 1 > Limit + 1
        /\ refused' = refused \cup { [ ip |-> ip, boot |-> boots, at |-> now ] }
        /\ UNCHANGED passed

Count(ip, e) ==
  /\ buckets' = [buckets EXCEPT ![ip] = [e EXCEPT !.count = @ + 1]]
  /\ \/ /\ e.count + 1 <= Limit
        /\ passed' = passed \cup
             { [ ip |-> ip, boot |-> boots, at |-> now,
                 windowEnd |-> e.windowEnd, n |-> e.count + 1 ] }
        /\ UNCHANGED refused
     \/ /\ e.count + 1 > Limit
        /\ refused' = refused \cup { [ ip |-> ip, boot |-> boots, at |-> now ] }
        /\ UNCHANGED passed

Handle_NoClock(ip) ==
  /\ mu = None
  /\ buckets[ip] # None
  /\ buckets[ip].count < MaxCount
  /\ Count(ip, buckets[ip])
  /\ UNCHANGED <<now, mu, boots>>

(* The handler finds the window of ip open.                                *)
Handle(ip) ==
  /\ mu = None
  /\ buckets[ip] # None /\ ~Over(buckets[ip])
  /\ buckets[ip].count < MaxCount
  /\ Count(ip, buckets[ip])
  /\ UNCHANGED <<now, mu, boots>>

(* It finds none, or one that is over: the first clock read ...            *)
FindStale(ip) ==
  /\ mu = None
  /\ buckets[ip] = None \/ Over(buckets[ip])
  /\ mu' = ip
  /\ UNCHANGED <<now, buckets, boots, passed, refused>>

(* ... and the second, which opens the next window.                        *)
Renew ==
  /\ mu # None
  /\ Count(mu, [ count |-> 0, windowEnd |-> now + Window ])
  /\ mu' = None
  /\ UNCHANGED <<now, boots>>

Receive ==
  \E forwarded \in IPs \cup {None}, peer \in IPs :
    LET ip == ClientIP(forwarded, peer) IN Handle(ip) \/ FindStale(ip)

Sweep_Everything ==
  /\ mu = None
  /\ buckets' = NoBuckets
  /\ UNCHANGED <<now, mu, boots, passed, refused>>

Sweep_Reversed ==
  /\ mu = None
  /\ buckets' = [ip \in IPs |-> IF Over(buckets[ip]) THEN buckets[ip] ELSE None]
  /\ UNCHANGED <<now, mu, boots, passed, refused>>

(* The cleanup goroutine.  Its ticks come once per window; they are left   *)
(* free here, so that what holds does not depend on when it runs.          *)
Sweep ==
  /\ mu = None
  /\ buckets' = [ip \in IPs |-> IF Over(buckets[ip]) THEN None ELSE buckets[ip]]
  /\ UNCHANGED <<now, mu, boots, passed, refused>>

Tick ==
  /\ now < MaxTime
  /\ now' = now + 1
  /\ UNCHANGED <<buckets, mu, boots, passed, refused>>

(* The buckets live in memory only.                                        *)
Restart ==
  /\ boots < MaxBoots
  /\ boots' = boots + 1
  /\ buckets' = NoBuckets
  /\ mu' = None
  /\ UNCHANGED <<now, passed, refused>>

Next == Receive \/ Renew \/ Sweep \/ Tick \/ Restart

Spec == Init /\ [][Next]_vars

(* A mutex holder runs on, and sync.Mutex lets no waiter starve.           *)
LiveSpec == Spec /\ WF_vars(Renew) /\ SF_vars(Sweep)

-----------------------------------------------------------------------------
(* Requests of ip that one process lets through from instant t to t+Window *)
PassedFrom(ip, b, t) ==
  { p \in passed : p.ip = ip /\ p.boot = b /\ t <= p.at /\ p.at <= t + Window }

(* The windows are fixed, not sliding, but no burst across the boundary of *)
(* two of them, with the cleanup in between or not, lets through more than *)
(* twice the limit in any span of one window.                              *)
BurstBounded ==
  \A ip \in IPs, b \in 0..boots, t \in 0..now :
    Cardinality(PassedFrom(ip, b, t)) <= 2 * Limit

(* Nobody is refused who kept to the limit: a 429 comes only after Limit   *)
(* requests of that address were let through within the last window.       *)
RefusalJustified ==
  \A r \in refused :
    Cardinality(PassedFrom(r.ip, r.boot, r.at - Window)) >= Limit

(* The comment in main.go, "10 requests/hour per IP", read as it stands.   *)
HourlyLimit ==
  \A ip \in IPs, b \in 0..boots, t \in 0..now :
    Cardinality(PassedFrom(ip, b, t)) <= Limit

(* A bucket whose window is over does not stay: the map holds no more than *)
(* the addresses seen lately.                                              *)
Forgotten == \A ip \in IPs : Over(buckets[ip]) ~> ~Over(buckets[ip])

-----------------------------------------------------------------------------
(* A bucket not yet swept stands for no window once its own is over.       *)
LiveWindow ==
  [ip \in IPs |-> IF Over(buckets[ip]) THEN None ELSE buckets[ip]]

Abstract == INSTANCE FixedWindow WITH window <- LiveWindow

(* The limiter implements fixed windows: cleanup, the mutex and the second *)
(* clock read are invisible.                                               *)
ImplementsFixedWindow == Abstract!Spec
=============================================================================
