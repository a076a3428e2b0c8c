------------------------- MODULE RateLimiterProofs -------------------------
(***************************************************************************)
(* The rate limiter is typed, implements fixed windows, lets no burst      *)
(* exceed twice its limit, and refuses nobody without cause.               *)
(***************************************************************************)
EXTENDS RateLimiter, FiniteSetTheorems, TLAPS

(* A handler that holds the mutex has no open window to count in.          *)
Renewing == mu # None => buckets[mu] = None \/ Over(buckets[mu])

(* A request counted in a window is let through while that window lasts,   *)
(* and no two carry the same number.                                       *)
Serial ==
  /\ \A p \in passed :
       /\ p.boot <= boots /\ p.at <= now
       /\ p.n \in 1..Limit
       /\ p.at <= p.windowEnd /\ p.windowEnd <= p.at + Window
  /\ \A p, q \in passed :
       /\ p.ip = q.ip /\ p.boot = q.boot
       /\ p.windowEnd = q.windowEnd /\ p.n = q.n
       => p = q

(* Two windows of an address, in one process, do not even touch.           *)
Apart ==
  \A p, q \in passed : p.ip = q.ip /\ p.boot = q.boot =>
    \/ p.windowEnd = q.windowEnd
    \/ p.windowEnd + Window < q.windowEnd
    \/ q.windowEnd + Window < p.windowEnd

(* What the map remembers of the requests this process let through.        *)
Remembered ==
  /\ \A p \in passed : p.boot = boots =>
       \/ buckets[p.ip] = None /\ p.windowEnd < now
       \/ /\ buckets[p.ip] # None
          /\ \/ p.windowEnd + Window < buckets[p.ip].windowEnd
             \/ /\ p.windowEnd = buckets[p.ip].windowEnd
                /\ p.n <= buckets[p.ip].count
  /\ \A ip \in IPs : buckets[ip] # None =>
       buckets[ip].windowEnd <= now + Window

LimiterInv == Renewing /\ Serial /\ Apart /\ Remembered

-----------------------------------------------------------------------------
(* Every reachable state of the limiter is well typed.                     *)
THEOREM LimiterTyped == Spec => []TypeOK
<1> USE LimiterAssumption DEF TypeOK, Bucket, Pass, Refusal, NoBuckets
<1>1. Init => TypeOK
  BY DEF Init
<1>2. TypeOK /\ [Next]_vars => TypeOK'
  <2> SUFFICES ASSUME TypeOK, [Next]_vars PROVE TypeOK'
    OBVIOUS
  <2>1. ASSUME NEW ip \in IPs, Handle(ip) PROVE TypeOK'
    BY <2>1 DEF Handle, Count
  <2>2. ASSUME NEW ip \in IPs, FindStale(ip) PROVE TypeOK'
    BY <2>2 DEF FindStale
  <2>3. CASE Renew
    BY <2>3 DEF Renew, Count
  <2>4. CASE Sweep
    BY <2>4 DEF Sweep
  <2>5. CASE Tick
    BY <2>5 DEF Tick
  <2>6. CASE Restart
    BY <2>6 DEF Restart
  <2>7. CASE UNCHANGED vars
    BY <2>7 DEF vars
  <2> QED
    BY <2>1, <2>2, <2>3, <2>4, <2>5, <2>6, <2>7 DEF Next, Receive, ClientIP
<1> QED
  BY <1>1, <1>2, PTL DEF Spec

(* Every step is one of these, whatever address clientIP extracts.         *)
LEMMA LimiterSteps ==
  ASSUME [Next]_vars
  PROVE  \/ \E ip \in IPs : Handle(ip) \/ FindStale(ip)
         \/ Renew \/ Sweep \/ Tick \/ Restart \/ UNCHANGED vars
BY LimiterAssumption DEF Next, Receive, ClientIP

(* The mutex keeps a stale bucket stale until its handler replaces it.     *)
LEMMA RenewingStep ==
  ASSUME TypeOK, Renewing, [Next]_vars
  PROVE  Renewing'
<1> USE LimiterAssumption DEF TypeOK, Bucket, Renewing, Over, NoBuckets
<1>1. CASE \E ip \in IPs : Handle(ip) \/ FindStale(ip)
  BY <1>1 DEF Handle, FindStale
<1>2. CASE Renew \/ Sweep \/ Tick \/ Restart \/ UNCHANGED vars
  BY <1>2 DEF Renew, Sweep, Tick, Restart, vars
<1> QED
  BY <1>1, <1>2, LimiterSteps

(* Counting one more request in a window that is open, whether it is the   *)
(* current one of its address or a new one.                                *)
LEMMA CountStep ==
  ASSUME TypeOK, LimiterInv, NEW ip \in IPs, NEW e \in Bucket, Count(ip, e),
         UNCHANGED <<now, boots>>,
         now <= e.windowEnd, e.windowEnd <= now + Window,
         \/ e = buckets[ip]
         \/ /\ e.count = 0 /\ e.windowEnd = now + Window
            /\ buckets[ip] = None \/ Over(buckets[ip])
  PROVE  Serial' /\ Apart' /\ Remembered'
<1> DEFINE pass == [ ip |-> ip, boot |-> boots, at |-> now,
                     windowEnd |-> e.windowEnd, n |-> e.count + 1 ]
<1> USE LimiterAssumption DEF TypeOK, Bucket, Pass
<1>1. /\ passed' \subseteq passed \cup {pass}
      /\ pass \in passed' => e.count + 1 <= Limit \/ pass \in passed
  BY DEF Count
<1>2. /\ buckets'[ip] = [e EXCEPT !.count = @ + 1]
      /\ \A j \in IPs \ {ip} : buckets'[j] = buckets[j]
  BY DEF Count
<1>3. \A p \in passed : p.ip = ip /\ p.boot = boots =>
        \/ p.windowEnd + Window < e.windowEnd
        \/ p.windowEnd = e.windowEnd /\ p.n <= e.count
  BY DEF LimiterInv, Remembered, Over
<1>4. Serial'
  <2>1. ASSUME pass \in passed', pass \notin passed
        PROVE  pass.n \in 1..Limit
    BY <1>1, <2>1
  <2>2. \A p \in passed : p.ip = pass.ip /\ p.boot = pass.boot
                          /\ p.windowEnd = pass.windowEnd => p.n # pass.n
    BY <1>3
  <2> QED
    BY <1>1, <2>1, <2>2 DEF LimiterInv, Serial
<1>5. Apart'
  BY <1>1, <1>3 DEF LimiterInv, Apart
<1>6. Remembered'
  BY <1>1, <1>2, <1>3 DEF LimiterInv, Remembered
<1> QED
  BY <1>4, <1>5, <1>6

LEMMA LimiterInvStep ==
  ASSUME TypeOK, LimiterInv, [Next]_vars
  PROVE  LimiterInv'
<1> USE LimiterAssumption
<1> SUFFICES Serial' /\ Apart' /\ Remembered'
  BY RenewingStep DEF LimiterInv
<1>1. ASSUME NEW ip \in IPs, Handle(ip)
      PROVE  Serial' /\ Apart' /\ Remembered'
  <2>1. /\ buckets[ip] \in Bucket
        /\ now <= buckets[ip].windowEnd
        /\ buckets[ip].windowEnd <= now + Window
        /\ Count(ip, buckets[ip]) /\ UNCHANGED <<now, boots>>
    BY <1>1 DEF Handle, Over, TypeOK, Bucket, LimiterInv, Remembered
  <2> QED
    BY <2>1, CountStep
<1>2. ASSUME NEW ip \in IPs, FindStale(ip)
      PROVE  Serial' /\ Apart' /\ Remembered'
  BY <1>2 DEF FindStale, LimiterInv, Serial, Apart, Remembered
<1>3. CASE Renew
  <2> DEFINE e == [ count |-> 0, windowEnd |-> now + Window ]
  <2>1. /\ mu \in IPs /\ e \in Bucket
        /\ buckets[mu] = None \/ Over(buckets[mu])
        /\ Count(mu, e) /\ UNCHANGED <<now, boots>>
    BY <1>3 DEF Renew, TypeOK, Bucket, LimiterInv, Renewing
  <2>2. /\ now <= e.windowEnd /\ e.windowEnd <= now + Window
        /\ e.count = 0 /\ e.windowEnd = now + Window
    BY DEF TypeOK
  <2> HIDE DEF e
  <2> QED
    BY <2>1, <2>2, CountStep
<1>4. CASE Sweep
  <2>1. UNCHANGED <<now, boots, passed>>
    BY <1>4 DEF Sweep
  <2>2. \A ip \in IPs : \/ buckets'[ip] = buckets[ip]
                        \/ buckets'[ip] = None /\ Over(buckets[ip])
    BY <1>4 DEF Sweep
  <2>3. Remembered'
    BY <2>1, <2>2 DEF LimiterInv, Remembered, Over, TypeOK, Bucket, Pass
  <2>4. Serial' /\ Apart'
    BY <2>1 DEF LimiterInv, Serial, Apart
  <2> QED
    BY <2>3, <2>4
<1>5. CASE Tick
  <2> USE <1>5 DEF Tick, TypeOK, LimiterInv
  <2>1. Serial'
    BY DEF Serial, Pass
  <2>2. Apart'
    BY DEF Apart
  <2>3. Remembered'
    BY DEF Remembered, Pass, Bucket
  <2> QED
    BY <2>1, <2>2, <2>3
<1>6. CASE Restart
  <2> USE <1>6 DEF Restart, TypeOK, LimiterInv
  <2>1. Serial'
    BY DEF Serial, Pass
  <2>2. Apart'
    BY DEF Apart
  <2>3. Remembered'
    BY DEF Remembered, Pass, NoBuckets, Serial
  <2> QED
    BY <2>1, <2>2, <2>3
<1>7. CASE UNCHANGED vars
  <2> USE <1>7 DEF vars, LimiterInv
  <2>1. Serial' /\ Apart'
    BY DEF Serial, Apart
  <2>2. Remembered'
    BY DEF Remembered
  <2> QED
    BY <2>1, <2>2
<1> QED
  BY <1>1, <1>2, <1>3, <1>4, <1>5, <1>6, <1>7, LimiterSteps

LEMMA LimiterInvariant == Spec => []LimiterInv
<1>1. Init => LimiterInv
  BY LimiterAssumption
     DEF Init, NoBuckets, LimiterInv, Renewing, Serial, Apart, Remembered
<1> QED
  BY <1>1, LimiterInvStep, LimiterTyped, PTL DEF Spec

-----------------------------------------------------------------------------
(* One window lets at most Limit requests through: they are numbered.      *)
LEMMA WindowQuota ==
  ASSUME TypeOK, Serial, NEW ip \in IPs, NEW b \in Nat, NEW end \in Nat,
         NEW S \in SUBSET passed,
         \A p \in S : p.ip = ip /\ p.boot = b /\ p.windowEnd = end
  PROVE  IsFiniteSet(S) /\ Cardinality(S) \in Nat /\ Cardinality(S) <= Limit
<1> DEFINE number == [p \in S |-> p.n]
<1>1. number \in Injection(S, 1..Limit)
  BY DEF Serial, Injection, IsInjective
<1>2. IsFiniteSet(1..Limit) /\ Cardinality(1..Limit) = Limit
  BY LimiterAssumption, FS_Interval
<1> HIDE DEF number
<1> QED
  BY <1>1, <1>2, FS_Injection, FS_CardinalityType

(* No span of one window meets three windows of an address.                *)
LEMMA TwoWindows ==
  ASSUME TypeOK, Serial, Apart, NEW ip \in IPs, NEW b \in Nat, NEW t \in Int
  PROVE  \E c, d \in Nat : \A p \in PassedFrom(ip, b, t) :
           p.windowEnd \in {c, d}
<1> DEFINE S == PassedFrom(ip, b, t)
<1> USE LimiterAssumption
<1>1. \A p \in S : /\ p \in passed /\ p.ip = ip /\ p.boot = b
                   /\ p.at \in Nat /\ p.windowEnd \in Nat
                   /\ t <= p.at /\ p.at <= t + Window
                   /\ p.at <= p.windowEnd /\ p.windowEnd <= p.at + Window
  BY DEF PassedFrom, TypeOK, Pass, Serial
<1>2. \A p, q \in S : \/ p.windowEnd = q.windowEnd
                      \/ p.windowEnd + Window < q.windowEnd
                      \/ q.windowEnd + Window < p.windowEnd
  BY <1>1 DEF Apart
<1> HIDE DEF S
<1>3. ASSUME NEW p \in S, NEW q \in S, p.windowEnd # q.windowEnd
      PROVE  \A r \in S : r.windowEnd \in {p.windowEnd, q.windowEnd}
  BY <1>1, <1>2, <1>3
<1>4. CASE \E p, q \in S : p.windowEnd # q.windowEnd
  <2>1. PICK p \in S, q \in S : p.windowEnd # q.windowEnd
    BY <1>4
  <2>2. p.windowEnd \in Nat /\ q.windowEnd \in Nat
    BY <1>1
  <2> QED
    BY <1>3, <2>1, <2>2 DEF S
<1>5. CASE \A p, q \in S : p.windowEnd = q.windowEnd
  <2>1. CASE S = {}
    BY <2>1 DEF S
  <2>2. ASSUME NEW p \in S PROVE \A q \in S : q.windowEnd \in {p.windowEnd, p.windowEnd}
    BY <1>5
  <2> QED
    BY <1>1, <2>1, <2>2 DEF S
<1> QED
  BY <1>4, <1>5

(* However requests, cleanup, clock and restarts interleave, a process     *)
(* lets at most twice Limit requests of an address through in any span of  *)
(* one window.                                                             *)
THEOREM BurstAtMostDouble == Spec => []BurstBounded
<1>1. TypeOK /\ LimiterInv => BurstBounded
  <2> SUFFICES ASSUME TypeOK, LimiterInv, NEW ip \in IPs, NEW b \in 0..boots,
                      NEW t \in 0..now
               PROVE  Cardinality(PassedFrom(ip, b, t)) <= 2 * Limit
    BY DEF BurstBounded
  <2> DEFINE S == PassedFrom(ip, b, t)
  <2> b \in Nat /\ t \in Int
    BY DEF TypeOK
  <2>1. PICK c \in Nat, d \in Nat : \A p \in S : p.windowEnd \in {c, d}
    BY TwoWindows DEF LimiterInv
  <2> DEFINE In(end) == { p \in S : p.windowEnd = end }
  <2>2. ASSUME NEW end \in Nat
        PROVE  /\ IsFiniteSet(In(end)) /\ Cardinality(In(end)) \in Nat
               /\ Cardinality(In(end)) <= Limit
    BY WindowQuota DEF LimiterInv, PassedFrom
  <2>3. S = In(c) \cup In(d)
    BY <2>1
  <2>4. /\ IsFiniteSet(In(c) \cap In(d))
        /\ Cardinality(In(c) \cap In(d)) \in Nat
    BY <2>2, FS_Subset, FS_CardinalityType
  <2>5. Cardinality(S) = Cardinality(In(c)) + Cardinality(In(d))
                           - Cardinality(In(c) \cap In(d))
    BY <2>2, <2>3, FS_Union
  <2>6. /\ Cardinality(In(c)) \in Nat /\ Cardinality(In(c)) <= Limit
        /\ Cardinality(In(d)) \in Nat /\ Cardinality(In(d)) <= Limit
    BY <2>2
  <2> HIDE DEF In
  <2> QED
    BY <2>4, <2>5, <2>6, LimiterAssumption
<1> QED
  BY <1>1, LimiterTyped, LimiterInvariant, PTL

-----------------------------------------------------------------------------
(* Every number up to the count of a window was given to a request that    *)
(* was let through in it.                                                  *)
Numbered ==
  /\ IsFiniteSet(passed)
  /\ \A ip \in IPs : buckets[ip] # None =>
       \A n \in 1..Limit : n <= buckets[ip].count =>
         \E p \in passed : /\ p.ip = ip /\ p.boot = boots /\ p.n = n
                           /\ p.windowEnd = buckets[ip].windowEnd

(* Behind every refusal there are Limit numbered requests.                 *)
Backed ==
  \A r \in refused, n \in 1..Limit :
    \E p \in PassedFrom(r.ip, r.boot, r.at - Window) : p.n = n

LEMMA RefusalCountStep ==
  ASSUME TypeOK, LimiterInv, Numbered, Backed,
         NEW ip \in IPs, NEW e \in Bucket, Count(ip, e),
         UNCHANGED <<now, boots>>, now <= e.windowEnd,
         \/ e = buckets[ip]
         \/ e.count = 0
  PROVE  Numbered' /\ Backed'
<1> DEFINE pass == [ ip |-> ip, boot |-> boots, at |-> now,
                     windowEnd |-> e.windowEnd, n |-> e.count + 1 ]
<1> USE LimiterAssumption DEF TypeOK, Bucket
<1>1. /\ buckets'[ip] = [e EXCEPT !.count = @ + 1]
      /\ \A j \in IPs \ {ip} : buckets'[j] = buckets[j]
      /\ passed \subseteq passed'
      /\ e.count + 1 <= Limit => pass \in passed'
      /\ passed' = passed \/ passed' = passed \cup {pass}
  BY DEF Count
<1>2. \A n \in 1..Limit : n <= e.count =>
        \E p \in passed : /\ p.ip = ip /\ p.boot = boots /\ p.n = n
                          /\ p.windowEnd = e.windowEnd
  BY DEF Numbered
<1>3. Numbered'
  <2>1. IsFiniteSet(passed')
    <3> HIDE DEF pass
    <3> QED
      BY <1>1, FS_AddElement DEF Numbered
  <2>2. ASSUME NEW n \in 1..Limit, n <= e.count + 1
        PROVE  \E p \in passed' : /\ p.ip = ip /\ p.boot = boots /\ p.n = n
                                  /\ p.windowEnd = e.windowEnd
    <3>1. CASE n <= e.count
      BY <1>1, <1>2, <3>1
    <3>2. CASE n = e.count + 1
      BY <1>1, <3>2
    <3> QED
      BY <2>2, <3>1, <3>2
  <2> QED
    BY <1>1, <2>1, <2>2 DEF Numbered
<1>4. Backed'
  <2> SUFFICES ASSUME NEW r \in refused', NEW n \in 1..Limit
               PROVE  \E p \in PassedFrom(r.ip, r.boot, r.at - Window)' : p.n = n
    BY DEF Backed
  <2>1. CASE r \in refused
    BY <1>1, <2>1 DEF Backed, PassedFrom
  <2>2. CASE r \notin refused
    <3>1. r = [ ip |-> ip, boot |-> boots, at |-> now ] /\ e.count + 1 > Limit
      BY <2>2 DEF Count
    <3>2. PICK p \in passed : /\ p.ip = ip /\ p.boot = boots /\ p.n = n
                              /\ p.windowEnd = e.windowEnd
      BY <1>2, <3>1
    <3>3. /\ p.at \in Nat /\ p.at <= now
          /\ p.windowEnd <= p.at + Window
      BY <3>2 DEF LimiterInv, Serial, Pass
    <3>4. now - Window <= p.at /\ p.at <= (now - Window) + Window
      BY <3>2, <3>3
    <3> QED
      BY <1>1, <3>1, <3>2, <3>4 DEF PassedFrom
  <2> QED
    BY <2>1, <2>2
<1> QED
  BY <1>3, <1>4

(* A 429 is never undeserved, whatever the cleanup and restarts do: the    *)
(* address had Limit requests let through within the last window.          *)
THEOREM RefusalsAreJustified == Spec => []RefusalJustified
<1> USE LimiterAssumption
<1>1. Init => Numbered /\ Backed
  BY FS_EmptySet DEF Init, NoBuckets, Numbered, Backed
<1>2. TypeOK /\ LimiterInv /\ Numbered /\ Backed /\ [Next]_vars
        => Numbered' /\ Backed'
  <2> SUFFICES ASSUME TypeOK, LimiterInv, Numbered, Backed, [Next]_vars
               PROVE  Numbered' /\ Backed'
    OBVIOUS
  <2>1. ASSUME NEW ip \in IPs, Handle(ip) PROVE Numbered' /\ Backed'
    <3>1. /\ buckets[ip] \in Bucket /\ now <= buckets[ip].windowEnd
          /\ Count(ip, buckets[ip]) /\ UNCHANGED <<now, boots>>
      BY <2>1 DEF Handle, Over, TypeOK, Bucket
    <3> QED
      BY <3>1, RefusalCountStep
  <2>2. CASE Renew
    <3> DEFINE e == [ count |-> 0, windowEnd |-> now + Window ]
    <3>1. /\ mu \in IPs /\ e \in Bucket /\ e.count = 0 /\ now <= e.windowEnd
          /\ Count(mu, e) /\ UNCHANGED <<now, boots>>
      BY <2>2 DEF Renew, TypeOK, Bucket
    <3> HIDE DEF e
    <3> QED
      BY <3>1, RefusalCountStep
  <2>3. CASE Sweep
    BY <2>3 DEF Sweep, TypeOK, Numbered, Backed, PassedFrom
  <2>4. CASE Restart
    BY <2>4 DEF Restart, NoBuckets, Numbered, Backed, PassedFrom
  <2>5. ASSUME UNCHANGED <<buckets, boots, passed, refused>>
        PROVE  Numbered' /\ Backed'
    BY <2>5 DEF Numbered, Backed, PassedFrom
  <2> QED
    BY <2>1, <2>2, <2>3, <2>4, <2>5, LimiterSteps DEF FindStale, Tick, vars
<1>3. TypeOK /\ Numbered /\ Backed => RefusalJustified
  <2> SUFFICES ASSUME TypeOK, Numbered, Backed, NEW r \in refused
               PROVE  Cardinality(PassedFrom(r.ip, r.boot, r.at - Window)) >= Limit
    BY DEF RefusalJustified
  <2> DEFINE S == PassedFrom(r.ip, r.boot, r.at - Window)
             witness == [n \in 1..Limit |-> CHOOSE p \in S : p.n = n]
  <2>1. \A n \in 1..Limit : witness[n] \in S /\ witness[n].n = n
    BY DEF Backed
  <2>2. IsFiniteSet(S)
    BY FS_Subset DEF Numbered, PassedFrom
  <2>3. witness \in Injection(1..Limit, S)
    BY <2>1 DEF Injection, IsInjective
  <2>4. IsFiniteSet(1..Limit) /\ Cardinality(1..Limit) = Limit
    BY FS_Interval
  <2> HIDE DEF S, witness
  <2>5. Cardinality(1..Limit) <= Cardinality(S)
    BY <2>2, <2>3, FS_Injection
  <2>6. Cardinality(S) >= Limit
    BY <2>2, <2>4, <2>5, FS_CardinalityType
  <2> QED
    BY <2>6 DEF S
<1> QED
  BY <1>1, <1>2, <1>3, LimiterTyped, LimiterInvariant, PTL DEF Spec

-----------------------------------------------------------------------------
(* The map with lazy and swept expiry behaves as fixed windows that expire *)
(* on time: what cleanup deletes nobody could still be counted in, and the *)
(* clock moving between the two reads shows nowhere.                       *)
THEOREM LimiterImplementsWindows == Spec => ImplementsFixedWindow
<1> USE LimiterAssumption
<1>1. Init => Abstract!Init
  BY DEF Init, NoBuckets, Abstract!Init, LiveWindow, Over
<1>2. TypeOK /\ TypeOK' /\ LimiterInv /\ [Next]_vars
        => [Abstract!Next]_(Abstract!vars)
  <2> SUFFICES ASSUME TypeOK, LimiterInv, [Next]_vars
               PROVE  [Abstract!Next]_(Abstract!vars)
    OBVIOUS
  <2> USE DEF TypeOK, Bucket
  <2>1. ASSUME NEW ip \in IPs, Handle(ip) PROVE Abstract!Request(ip)
    <3>1. LiveWindow[ip] = buckets[ip] /\ buckets[ip] \in Bucket
      BY <2>1 DEF Handle, LiveWindow
    <3>2. LiveWindow' = [LiveWindow EXCEPT ![ip] = [buckets[ip] EXCEPT !.count = @ + 1]]
      BY <2>1, <3>1 DEF Handle, Count, LiveWindow, Over
    <3>3. passed' = IF buckets[ip].count >= Limit THEN passed
                    ELSE passed \cup { [ ip |-> ip, boot |-> boots, at |-> now,
                                         windowEnd |-> buckets[ip].windowEnd,
                                         n |-> buckets[ip].count + 1 ] }
      BY <2>1, <3>1 DEF Handle, Count
    <3> QED
      BY <2>1, <3>1, <3>2, <3>3 DEF Handle, Abstract!Request, Abstract!Count
  <2>2. CASE Renew
    <3> DEFINE e == [ count |-> 0, windowEnd |-> now + Window ]
    <3>1. mu \in IPs /\ LiveWindow[mu] = None
      BY <2>2 DEF Renew, LiveWindow, LimiterInv, Renewing
    <3>2. LiveWindow' = [LiveWindow EXCEPT ![mu] = [e EXCEPT !.count = @ + 1]]
      <4> DEFINE first == [e EXCEPT !.count = @ + 1]
      <4>1. first.windowEnd \in Nat /\ first.windowEnd >= now /\ first # None
        <5>1. first = [ count |-> 1, windowEnd |-> now + Window ]
          OBVIOUS
        <5> QED
          BY <5>1
      <4>2. now' = now /\ buckets' = [buckets EXCEPT ![mu] = first]
        BY <2>2 DEF Renew, Count
      <4> HIDE DEF first, e
      <4>3. buckets'[mu] = first
            /\ \A ip \in IPs \ {mu} : buckets'[ip] = buckets[ip]
        BY <3>1, <4>2
      <4>4. LiveWindow'[mu] = first
        BY <3>1, <4>1, <4>2, <4>3 DEF LiveWindow, Over
      <4>5. \A ip \in IPs \ {mu} : LiveWindow'[ip] = LiveWindow[ip]
        BY <4>2, <4>3 DEF LiveWindow, Over
      <4>6. LiveWindow' = [ip \in IPs |-> LiveWindow'[ip]]
        BY DEF LiveWindow
      <4> QED
        BY <3>1, <4>4, <4>5, <4>6 DEF first, LiveWindow
    <3>3. passed' = IF e.count >= Limit THEN passed
                    ELSE passed \cup { [ ip |-> mu, boot |-> boots, at |-> now,
                                         windowEnd |-> e.windowEnd,
                                         n |-> e.count + 1 ] }
      BY <2>2 DEF Renew, Count
    <3>4. Abstract!Count(mu, e)
      BY <2>2, <3>2, <3>3 DEF Renew, Abstract!Count
    <3> QED
      BY <3>1, <3>4 DEF Abstract!Request, Abstract!Next
  <2>3. CASE Tick
    <3>1. LiveWindow' = [ip \in IPs |->
            IF LiveWindow[ip] # None /\ LiveWindow[ip].windowEnd < now' THEN None
            ELSE LiveWindow[ip]]
      BY <2>3 DEF Tick, LiveWindow, Over
    <3> QED
      BY <2>3, <3>1 DEF Tick, Abstract!Next, Abstract!Tick
  <2>4. CASE Restart
    BY <2>4 DEF Restart, NoBuckets, LiveWindow, Over,
                Abstract!Next, Abstract!Reboot
  <2>5. CASE Sweep
    BY <2>5 DEF Sweep, LiveWindow, Over, Abstract!vars
  <2>6. ASSUME UNCHANGED <<now, buckets, boots, passed>>
        PROVE  UNCHANGED Abstract!vars
    BY <2>6 DEF LiveWindow, Over, Abstract!vars
  <2> QED
    BY <2>1, <2>2, <2>3, <2>4, <2>5, <2>6, LimiterSteps
       DEF FindStale, vars, Abstract!Next
<1> QED
  BY <1>1, <1>2, LimiterTyped, LimiterInvariant, PTL
     DEF Spec, ImplementsFixedWindow, Abstract!Spec
=============================================================================
