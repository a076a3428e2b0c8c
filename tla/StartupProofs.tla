--------------------------- MODULE StartupProofs ---------------------------
(***************************************************************************)
(* Proofs about Startup for any number of processes, images, migrations    *)
(* and failures.                                                           *)
(***************************************************************************)
EXTENDS Startup, TLAPS

(* Only the holder of the lock is between reading the version and giving   *)
(* the lock back.                                                          *)
Exclusive ==
  \A p \in Processes :
    pc[p] \in {"read", "mark", "run", "clear", "unlock"} => lock = p

(* What the holder knows of the table and of the schema.                   *)
AtMigration ==
  \A p \in Processes :
    /\ pc[p] \in {"mark", "run", "clear"} => target[p] \in 1..Known[p]
    /\ pc[p] = "mark" => ~dirty /\ target[p] = version + 1
    /\ pc[p] \in {"run", "clear"} => dirty /\ target[p] = version
    /\ pc[p] = "run" => applied[version] = 0
    /\ pc[p] = "clear" => applied[version] = 1
    /\ pc[p] = "unlock" => ~dirty /\ version = Known[p]

(* Past the migrations, and about to be.                                   *)
Migrated ==
  \A p \in Processes : pc[p] \in {"unlock", "listen", "serving"} =>
    \A m \in 1..Known[p] : applied[m] = 1

StartupInv == TypeOK /\ Exclusive /\ AtMigration /\ OnceInOrder /\ Migrated

LEMMA StartupInvInit == Init => StartupInv
<1> SUFFICES ASSUME Init PROVE StartupInv
  OBVIOUS
<1> USE StartupAssumption DEF Init
<1>1. TypeOK
  <2>1. 0 \in 0..Last
    OBVIOUS
  <2>2. /\ target \in [Processes -> 0..Last]
        /\ applied \in [1..Last -> Nat]
        /\ pc \in [Processes -> Steps]
    BY <2>1 DEF Steps
  <2> QED
    BY <2>1, <2>2 DEF TypeOK
<1>2. Exclusive /\ AtMigration /\ Migrated
  BY DEF Exclusive, AtMigration, Migrated
<1>3. OnceInOrder
  BY DEF OnceInOrder
<1> QED
  BY <1>1, <1>2, <1>3 DEF StartupInv

-----------------------------------------------------------------------------
(* Going down is always possible, as far as the others are concerned.      *)
LEMMA ExitKeeps ==
  ASSUME StartupInv, NEW p \in Processes, Exit(p), UNCHANGED db, faults' \in Nat
  PROVE  StartupInv'
<1> USE StartupAssumption DEF StartupInv, db, Exit
<1>1. TypeOK'
  BY DEF TypeOK, Steps
<1>2. Exclusive'
  BY DEF TypeOK, Exclusive
<1>3. AtMigration'
  BY DEF TypeOK, AtMigration
<1>4. OnceInOrder' /\ Migrated'
  BY DEF TypeOK, OnceInOrder, Migrated
<1> QED
  BY <1>1, <1>2, <1>3, <1>4

(* A step that moves p alone and leaves the database as it is.             *)
LEMMA QuietKeeps ==
  ASSUME StartupInv, NEW p \in Processes, UNCHANGED <<db, faults>>,
         Start(p) \/ Open(p) \/ Lock(p) \/ Unlock(p) \/ Listen(p)
  PROVE  StartupInv'
<1> USE StartupAssumption DEF StartupInv, db, Goto, Start, Open, Lock, Unlock,
                              Listen
<1>1. TypeOK'
  BY DEF TypeOK, Steps
<1>2. Exclusive'
  BY DEF TypeOK, Exclusive
<1>3. AtMigration'
  BY DEF TypeOK, AtMigration
<1>4. OnceInOrder' /\ Migrated'
  BY DEF TypeOK, OnceInOrder, Migrated
<1> QED
  BY <1>1, <1>2, <1>3, <1>4

LEMMA ReadVersionKeeps ==
  ASSUME StartupInv, NEW p \in Processes, ReadVersion(p)
  PROVE  StartupInv'
<1> USE StartupAssumption DEF StartupInv, db
<1>t. /\ version \in 0..Last /\ Known[p] \in 0..Last
      /\ pc[p] = "read" /\ UNCHANGED <<version, dirty, applied, faults>>
  BY DEF TypeOK, ReadVersion, Goto
<1>1. CASE Exit(p)
  BY <1>1, <1>t, ExitKeeps DEF TypeOK
<1>2. CASE /\ ~dirty /\ Pending(p) /\ Goto(p, "read", "mark")
           /\ target' = [target EXCEPT ![p] = version + 1]
           /\ UNCHANGED lock
  <2>1. version + 1 \in 1..Known[p] /\ version + 1 \in 0..Last
    BY <1>2, <1>t DEF Pending
  <2>2. TypeOK'
    BY <1>2, <1>t, <2>1 DEF TypeOK, Steps, Goto
  <2>3. Exclusive' /\ AtMigration'
    BY <1>2, <1>t, <2>1 DEF TypeOK, Exclusive, AtMigration, Goto
  <2>4. OnceInOrder' /\ Migrated'
    BY <1>2, <1>t DEF TypeOK, OnceInOrder, Migrated, Goto
  <2> QED
    BY <2>2, <2>3, <2>4
<1>3. CASE /\ ~dirty /\ UpToDate(p) /\ Goto(p, "read", "unlock")
           /\ UNCHANGED <<lock, target>>
  <2>1. \A m \in 1..Known[p] : applied[m] = 1
    BY <1>3, <1>t DEF UpToDate, OnceInOrder
  <2>2. TypeOK'
    BY <1>3, <1>t DEF TypeOK, Steps, Goto
  <2>3. Exclusive' /\ AtMigration'
    BY <1>3, <1>t DEF TypeOK, Exclusive, AtMigration, Goto, UpToDate
  <2>4. OnceInOrder' /\ Migrated'
    BY <1>3, <1>t, <2>1 DEF TypeOK, OnceInOrder, Migrated, Goto
  <2> QED
    BY <2>2, <2>3, <2>4
<1> QED
  BY <1>1, <1>2, <1>3 DEF ReadVersion

-----------------------------------------------------------------------------
(* What the statement p is at does to the database: nobody else is at one, *)
(* and what was applied stays applied.                                     *)
LEMMA StatementKeeps ==
  ASSUME StartupInv, NEW p \in Processes, Statement(p)
  PROVE  /\ lock = p /\ target[p] \in 1..Known[p] /\ target[p] \in 1..Last
         /\ \A q \in Processes \ {p} :
              pc[q] \notin {"read", "mark", "run", "clear", "unlock"}
         /\ version' = target[p] /\ dirty' \in BOOLEAN
         /\ applied' \in [1..Last -> Nat]
         /\ \A m \in 1..Last : applied[m] = 1 => applied'[m] = 1
         /\ pc[p] = "mark" => dirty' /\ applied'[target[p]] = 0
         /\ pc[p] = "run" => dirty' /\ applied'[target[p]] = 1
         /\ pc[p] = "clear" => ~dirty' /\ applied'[target[p]] = 1
         /\ OnceInOrder'
<1> USE StartupAssumption DEF StartupInv
<1>1. /\ pc[p] \in {"mark", "run", "clear"}
      /\ lock = p /\ target[p] \in 1..Known[p] /\ target[p] \in 1..Last
      /\ version \in 0..Last /\ Known[p] \in 0..Last
  <2>1. pc[p] \in {"mark", "run", "clear"}
    BY DEF Statement
  <2>2. lock = p /\ target[p] \in 1..Known[p]
    BY <2>1 DEF Exclusive, AtMigration
  <2>3. version \in 0..Last /\ Known[p] \in 0..Last
    BY DEF TypeOK
  <2> QED
    BY <2>1, <2>2, <2>3
<1>2. \A q \in Processes \ {p} :
        pc[q] \notin {"read", "mark", "run", "clear", "unlock"}
  BY <1>1 DEF Exclusive
<1>3. CASE pc[p] = "mark"
  <2>1. /\ version' = target[p] /\ dirty' = TRUE /\ applied' = applied
        /\ target[p] = version + 1
    BY <1>3 DEF Statement, SetVersion, AtMigration
  <2>2. applied[target[p]] = 0
    BY <1>1, <2>1 DEF OnceInOrder, TypeOK
  <2>3. OnceInOrder'
    <3> SUFFICES ASSUME NEW m \in 1..Last
                 PROVE  /\ m < version' => applied'[m] = 1
                        /\ m > version' => applied'[m] = 0
                        /\ m = version' => applied'[m] \in {0, 1}
      BY <2>1 DEF OnceInOrder
    <3>1. CASE m <= version
      BY <1>1, <2>1, <3>1, <1>3 DEF OnceInOrder, AtMigration
    <3>2. CASE m > version
      BY <1>1, <2>1, <2>2, <3>2 DEF OnceInOrder
    <3> QED
      BY <1>1, <3>1, <3>2
  <2> QED
    BY <1>1, <1>2, <1>3, <2>1, <2>2, <2>3 DEF TypeOK
<1>4. CASE pc[p] = "run"
  <2>1. /\ applied' = [applied EXCEPT ![target[p]] = @ + 1]
        /\ version' = version /\ dirty' = dirty
        /\ dirty /\ target[p] = version /\ applied[version] = 0
    BY <1>4 DEF Statement, RunBody, AtMigration
  <2>2. /\ applied'[version] = 1
        /\ \A m \in 1..Last : m # version => applied'[m] = applied[m]
        /\ applied' \in [1..Last -> Nat]
    BY <1>1, <2>1 DEF TypeOK
  <2>3. OnceInOrder'
    BY <1>1, <2>1, <2>2 DEF OnceInOrder
  <2> QED
    BY <1>1, <1>2, <1>4, <2>1, <2>2, <2>3 DEF TypeOK
<1>5. CASE pc[p] = "clear"
  <2>1. /\ version' = version /\ dirty' = FALSE /\ applied' = applied
        /\ target[p] = version /\ applied[version] = 1
    BY <1>5 DEF Statement, SetVersion, AtMigration
  <2>2. OnceInOrder'
    BY <1>1, <2>1 DEF OnceInOrder
  <2> QED
    BY <1>1, <1>2, <1>5, <2>1, <2>2 DEF TypeOK
<1> QED
  BY <1>1, <1>3, <1>4, <1>5

LEMMA MigrationStepKeeps ==
  ASSUME StartupInv, NEW p \in Processes, Mark(p) \/ Run(p) \/ Clear(p)
  PROVE  StartupInv'
<1> USE StartupAssumption DEF StartupInv, Goto
<1>0. Statement(p) /\ UNCHANGED <<lock, faults>>
  BY DEF Mark, Run, Clear
<1>s. /\ lock = p /\ target[p] \in 1..Known[p] /\ target[p] \in 1..Last
      /\ \A q \in Processes \ {p} :
           pc[q] \notin {"read", "mark", "run", "clear", "unlock"}
      /\ version' = target[p] /\ dirty' \in BOOLEAN
      /\ applied' \in [1..Last -> Nat]
      /\ \A m \in 1..Last : applied[m] = 1 => applied'[m] = 1
      /\ pc[p] = "mark" => dirty' /\ applied'[target[p]] = 0
      /\ pc[p] = "run" => dirty' /\ applied'[target[p]] = 1
      /\ pc[p] = "clear" => ~dirty' /\ applied'[target[p]] = 1
      /\ OnceInOrder'
  BY <1>0, StatementKeeps
<1>k. Known[p] \in 0..Last
  OBVIOUS
<1>1. TypeOK'
  <2>1. pc' \in [Processes -> Steps]
    BY DEF TypeOK, Mark, Run, Clear, Steps
  <2>2. target' \in [Processes -> 0..Last]
    <3>1. CASE UNCHANGED target
      BY <3>1 DEF TypeOK
    <3>2. CASE target' = [target EXCEPT ![p] = @ + 1] /\ target[p] < Known[p]
      <4>1. target[p] + 1 \in 0..Last
        BY <1>s, <1>k, <3>2
      <4> QED
        BY <3>2, <4>1 DEF TypeOK
    <3> QED
      BY <3>1, <3>2 DEF Mark, Run, Clear
  <2>3. version' \in 0..Last
    BY <1>s
  <2> QED
    BY <1>0, <1>s, <2>1, <2>2, <2>3 DEF TypeOK
<1>2. Exclusive'
  BY <1>0, <1>s DEF TypeOK, Exclusive, Mark, Run, Clear
<1>3. AtMigration'
  <2>1. \A q \in Processes \ {p} : pc'[q] = pc[q]
    BY DEF Mark, Run, Clear, TypeOK
  <2>2. CASE Mark(p)
    BY <1>s, <2>1, <2>2 DEF AtMigration, Mark, TypeOK
  <2>3. CASE Run(p)
    BY <1>s, <2>1, <2>3 DEF AtMigration, Run, TypeOK
  <2>4. CASE Clear(p)
    BY <1>s, <1>k, <2>1, <2>4 DEF AtMigration, Clear, TypeOK
  <2> QED
    BY <2>2, <2>3, <2>4
<1>4. Migrated'
  <2> SUFFICES ASSUME NEW q \in Processes,
                      pc'[q] \in {"unlock", "listen", "serving"},
                      NEW m \in 1..Known[q]
               PROVE  applied'[m] = 1
    BY DEF Migrated
  <2>1. m \in 1..Last
    OBVIOUS
  <2>2. CASE q # p
    <3>1. pc[q] \in {"listen", "serving"}
      BY <1>s, <2>2 DEF Mark, Run, Clear, TypeOK
    <3> QED
      BY <1>s, <2>1, <3>1 DEF Migrated
  <2>3. CASE q = p
    <3>1. Clear(p) /\ target[p] = Known[p] /\ ~dirty' /\ pc[p] = "clear"
      BY <1>s, <2>3 DEF Mark, Run, Clear, TypeOK
    <3>2. CASE m = target[p]
      BY <1>s, <3>1, <3>2
    <3>3. CASE m # target[p]
      BY <1>s, <2>1, <2>3, <3>1, <3>3 DEF OnceInOrder
    <3> QED
      BY <3>2, <3>3
  <2> QED
    BY <2>2, <2>3
<1> QED
  BY <1>1, <1>2, <1>3, <1>4, <1>s

(* The statement a process dies at may have taken effect.                  *)
LEMMA InterruptKeeps ==
  ASSUME StartupInv, NEW p \in Processes, Interrupt(p)
  PROVE  StartupInv'
<1> USE StartupAssumption DEF StartupInv
<1>0. Exit(p) /\ faults' \in Nat
  BY DEF Interrupt, TypeOK
<1>1. CASE UNCHANGED db
  BY <1>0, <1>1, ExitKeeps
<1>2. CASE Statement(p)
  <2>s. /\ lock = p
        /\ \A q \in Processes \ {p} :
             pc[q] \notin {"read", "mark", "run", "clear", "unlock"}
        /\ version' = target[p] /\ dirty' \in BOOLEAN /\ target[p] \in 1..Last
        /\ applied' \in [1..Last -> Nat]
        /\ \A m \in 1..Last : applied[m] = 1 => applied'[m] = 1
        /\ OnceInOrder'
    BY <1>2, StatementKeeps
  <2>1. TypeOK'
    BY <1>0, <2>s DEF TypeOK, Exit, Steps
  <2>2. Exclusive' /\ AtMigration'
    BY <1>0, <2>s DEF TypeOK, Exit, Exclusive, AtMigration
  <2>3. Migrated'
    BY <1>0, <2>s DEF TypeOK, Exit, Migrated
  <2> QED
    BY <2>1, <2>2, <2>3, <2>s
<1> QED
  BY <1>1, <1>2 DEF Interrupt

LEMMA StartupInvariance == Spec => []StartupInv
<1>1. StartupInv /\ [Next]_vars => StartupInv'
  <2> SUFFICES ASSUME StartupInv, [Next]_vars PROVE StartupInv'
    OBVIOUS
  <2>1. CASE UNCHANGED vars
    BY <2>1 DEF vars, StartupInv, TypeOK, Exclusive, AtMigration, OnceInOrder,
                Migrated
  <2>2. ASSUME NEW p \in Processes, Start(p) \/ Step(p) \/ Interrupt(p)
        PROVE  StartupInv'
    <3>1. CASE Start(p) \/ Open(p) \/ Lock(p) \/ Unlock(p) \/ Listen(p)
      BY <3>1, QuietKeeps DEF Start, Open, Lock, Unlock, Listen
    <3> QED
      BY <2>2, <3>1, ReadVersionKeeps, MigrationStepKeeps, InterruptKeeps
         DEF Step
  <2> QED
    BY <2>1, <2>2 DEF Next
<1> QED
  BY <1>1, StartupInvInit, PTL DEF Spec

-----------------------------------------------------------------------------
(* For whoever serves, or is about to, every migration its image embeds    *)
(* has been applied exactly once (main.go, store.go).                      *)
THEOREM ServesOnlyMigrated == Spec => []ServesMigrated
<1>1. StartupInv => ServesMigrated
  BY DEF StartupInv, Migrated, ServesMigrated, Ready
<1> QED
  BY <1>1, StartupInvariance, PTL

(* The version stays among the migrations there are, and so does the one   *)
(* each process is at (store.go, Migrate).                                 *)
THEOREM StartupTyped == Spec => []TypeOK
<1>1. StartupInv => TypeOK
  BY DEF StartupInv
<1> QED
  BY <1>1, StartupInvariance, PTL

(* However processes start, die and restart, migrations are applied in     *)
(* order and none twice (store.go, Migrate).                               *)
THEOREM MigrationsOnceInOrder == Spec => []OnceInOrder
<1>1. StartupInv => OnceInOrder
  BY DEF StartupInv
<1> QED
  BY <1>1, StartupInvariance, PTL

(* An interrupted migration is never mended by a restart (compose.yaml).   *)
THEOREM InterruptedForGood == Spec => BrokenForGood
<1>1. StartupInv /\ [Next]_vars => StaysBroken
  <2> SUFFICES ASSUME StartupInv, Broken, [Next]_vars
               PROVE  Broken' /\ Ready' \subseteq Ready
    BY DEF StaysBroken
  <2>0. \A p \in Processes : pc[p] \notin {"mark", "run", "clear", "unlock"}
    BY DEF StartupInv, AtMigration, Broken
  <2>1. CASE UNCHANGED vars
    BY <2>1 DEF vars, Broken, Ready
  <2>2. ASSUME NEW p \in Processes, Start(p) \/ Step(p) \/ Interrupt(p)
        PROVE  Broken' /\ Ready' \subseteq Ready
    <3>1. UNCHANGED dirty
      BY <2>0, <2>2 DEF Start, Step, Interrupt, Open, Lock, ReadVersion, Mark,
                        Run, Clear, Unlock, Listen, Statement, Goto, db
    <3>2. /\ \A q \in Processes \ {p} : pc'[q] = pc[q]
          /\ pc'[p] \notin {"run", "clear"}
          /\ pc'[p] \in {"listen", "serving"} => pc[p] = "listen"
      BY <2>0, <2>2 DEF StartupInv, TypeOK, Broken, Start, Step, Interrupt,
                        Open, Lock, ReadVersion, Mark, Run, Clear, Unlock,
                        Listen, Goto, Exit
    <3> QED
      BY <3>1, <3>2 DEF Broken, Ready
  <2> QED
    BY <2>1, <2>2 DEF Next
<1> QED
  BY <1>1, StartupInvariance, PTL DEF Spec, BrokenForGood
-----------------------------------------------------------------------------
(* What SchemaUpgrade sees of the table and of the schema while p is at a  *)
(* migration.                                                              *)
LEMMA SeenAt ==
  ASSUME StartupInv, NEW p \in Processes
  PROVE  /\ pc[p] = "mark" =>
              ~dirty /\ Schema = version /\ target[p] = Schema + 1
         /\ pc[p] = "run" => dirty /\ version = Schema + 1 /\ target[p] = version
         /\ pc[p] = "clear" => dirty /\ version = Schema /\ target[p] = version
         /\ pc[p] = "unlock" => ~dirty /\ Schema = Known[p]
         /\ pc[p] \in {"mark", "run"} => Upgrade!Pending
         /\ pc[p] \in {"mark", "run", "clear", "unlock"} => ~Broken
<1> USE StartupAssumption
<1>1. version \in 0..Last /\ Known[p] \in 0..Last
  BY DEF StartupInv, TypeOK
<1>2. CASE pc[p] = "mark"
  BY <1>1, <1>2 DEF StartupInv, AtMigration, Schema, Broken, Upgrade!Pending
<1>3. CASE pc[p] = "run"
  BY <1>1, <1>3 DEF StartupInv, AtMigration, Schema, Broken, Upgrade!Pending
<1>4. CASE pc[p] \in {"clear", "unlock"}
  BY <1>1, <1>4 DEF StartupInv, AtMigration, Schema, Broken
<1> QED
  BY <1>2, <1>3, <1>4

(* A step after which the flag, the table and the schema are as before,    *)
(* and nobody comes to a migration or leaves one.                          *)
LEMMA SeenSame ==
  ASSUME NEW p \in Processes, pc \in [Processes -> Steps], UNCHANGED db,
         pc' = [pc EXCEPT ![p] = pc'[p]],
         pc[p] \notin {"run", "clear"}, pc'[p] \notin {"run", "clear"}
  PROVE  UNCHANGED <<Schema, Broken>>
BY DEF db, Schema, Broken

(* p dies, and with it its statement or without.                           *)
LEMMA InterruptSeen ==
  ASSUME StartupInv, NEW p \in Processes, Interrupt(p)
  PROVE  Upgrade!Next \/ UNCHANGED Upgrade!vars
<1>0. /\ Exit(p) /\ pc'[p] = "down" /\ pc' = [pc EXCEPT ![p] = pc'[p]]
      /\ pc \in [Processes -> Steps]
      /\ Ready' = Ready \ {p}
  BY DEF Interrupt, Exit, StartupInv, TypeOK, Ready
<1>a. ASSUME pc[p] \in {"mark", "run", "clear"}
      PROVE  /\ \A q \in Processes : pc'[q] \notin {"run", "clear"}
             /\ Broken' = dirty'
             /\ UNCHANGED Ready
  <2>1. \A q \in Processes \ {p} : pc[q] \notin {"run", "clear"}
    BY <1>a DEF StartupInv, Exclusive
  <2>2. \A q \in Processes : pc'[q] \notin {"run", "clear"}
    BY <1>0, <2>1
  <2>3. p \notin Ready
    BY <1>a DEF Ready
  <2>4. dirty' \in BOOLEAN
    BY InterruptKeeps DEF StartupInv, TypeOK
  <2> QED
    BY <1>0, <2>2, <2>3, <2>4 DEF Broken
<1>1. CASE Statement(p)
  <2>s. /\ version' = target[p] /\ target[p] \in 1..Last
        /\ pc[p] = "mark" => dirty' /\ applied'[target[p]] = 0
        /\ pc[p] = "run" => dirty' /\ applied'[target[p]] = 1
        /\ pc[p] = "clear" => ~dirty'
    BY <1>1, StatementKeeps
  <2>1. CASE pc[p] = "mark"
    <3>1. Schema' = Schema /\ Broken' = TRUE /\ ~Broken
      BY <1>a, <2>1, <2>s, SeenAt, StartupAssumption DEF Schema, StartupInv, TypeOK
    <3> QED
      BY <1>a, <2>1, <3>1 DEF Upgrade!Next, Upgrade!Break
  <2>2. CASE pc[p] = "run"
    <3>1. Schema' = Schema + 1 /\ Broken' = TRUE /\ ~Broken /\ Upgrade!Pending
      BY <1>a, <2>2, <2>s, SeenAt DEF Schema
    <3> QED
      BY <1>a, <2>2, <3>1 DEF Upgrade!Next, Upgrade!Break
  <2>3. CASE pc[p] = "clear"
    <3>1. Schema' = Schema /\ Broken' = Broken
      BY <1>a, <2>3, <2>s, SeenAt DEF Schema, Broken
    <3> QED
      BY <1>a, <2>3, <3>1 DEF Upgrade!vars
  <2> QED
    BY <1>1, <2>1, <2>2, <2>3 DEF Statement
<1>2. CASE UNCHANGED db /\ pc[p] \in {"run", "clear"}
  <2>1. Schema' = Schema /\ Broken' = TRUE /\ ~Broken
    BY <1>2, <1>a, SeenAt DEF Schema, db, Broken
  <2> QED
    BY <1>2, <1>a, <2>1 DEF Upgrade!Next, Upgrade!Break
<1>3. CASE UNCHANGED db /\ pc[p] \notin {"run", "clear"}
  <2>1. UNCHANGED <<Schema, Broken>>
    BY <1>0, <1>3, SeenSame
  <2> QED
    BY <1>0, <2>1 DEF Upgrade!Next, Upgrade!Leave
<1> QED
  BY <1>1, <1>2, <1>3 DEF Interrupt

(* Steps between the statements: only giving the lock back is seen.        *)
LEMMA QuietSeen ==
  ASSUME StartupInv, NEW p \in Processes,
         Start(p) \/ Open(p) \/ Lock(p) \/ ReadVersion(p) \/ Unlock(p) \/ Listen(p)
  PROVE  Upgrade!Next \/ UNCHANGED Upgrade!vars
<1> USE DEF Start, Open, Lock, ReadVersion, Unlock, Listen, Goto, Exit
<1>0. /\ UNCHANGED db /\ pc' = [pc EXCEPT ![p] = pc'[p]]
      /\ pc \in [Processes -> Steps]
      /\ pc[p] \notin {"run", "clear"} /\ pc'[p] \notin {"run", "clear"}
  BY DEF StartupInv, TypeOK, db
<1>1. UNCHANGED <<Schema, Broken>>
  BY <1>0, SeenSame
<1>2. CASE Unlock(p)
  <2>1. Ready' = Ready \cup {p}
    BY <1>0, <1>2 DEF Ready
  <2>2. ~Broken /\ Schema = Known[p]
    BY <1>2, SeenAt
  <2> QED
    BY <1>1, <2>1, <2>2 DEF Upgrade!Next, Upgrade!Admit
<1>3. CASE ~Unlock(p)
  <2>1. Ready' = Ready
    BY <1>0, <1>3 DEF Ready
  <2> QED
    BY <1>1, <2>1 DEF Upgrade!vars
<1> QED
  BY <1>2, <1>3

(* The statements of a migration: the second is the one that counts.       *)
LEMMA MigrationSeen ==
  ASSUME StartupInv, StartupInv', NEW p \in Processes,
         Mark(p) \/ Run(p) \/ Clear(p)
  PROVE  Upgrade!Next \/ UNCHANGED Upgrade!vars
<1>0. Ready' = Ready
  BY DEF Mark, Run, Clear, Goto, Ready, StartupInv, TypeOK
<1>1. CASE Mark(p)
  <2>1. pc[p] = "mark" /\ pc'[p] = "run" /\ version' = target[p]
    BY <1>1 DEF Mark, Goto, Statement, SetVersion, StartupInv, TypeOK
  <2>2. version \in Int /\ version' \in Int
    BY StartupAssumption DEF StartupInv, TypeOK
  <2>3. Schema' = version' - 1
    BY <2>1 DEF StartupInv, AtMigration, Schema
  <2>4. target[p] = version + 1 /\ Schema = version /\ ~dirty
    BY <2>1, SeenAt
  <2>5. Schema' = Schema
    BY <2>1, <2>2, <2>3, <2>4
  <2>6. UNCHANGED Broken
    BY <2>1, <2>4 DEF Broken
  <2> QED
    BY <1>0, <2>5, <2>6 DEF Upgrade!vars
<1>2. CASE Run(p)
  <2>1. /\ pc[p] = "run" /\ pc'[p] = "clear" /\ version' = version
    BY <1>2 DEF Run, Goto, Statement, RunBody, StartupInv, TypeOK
  <2>2. Schema' = version'
    BY <2>1 DEF StartupInv, AtMigration, Schema
  <2>3. ~Broken /\ version = Schema + 1 /\ Upgrade!Pending
    BY <2>1, SeenAt
  <2>4. UNCHANGED Broken
    BY <2>1 DEF Broken
  <2> QED
    BY <1>0, <2>1, <2>2, <2>3, <2>4 DEF Upgrade!Next, Upgrade!Apply
<1>3. CASE Clear(p)
  <2>1. /\ pc[p] = "clear" /\ version' = target[p] /\ dirty' = FALSE
    BY <1>3 DEF Clear, Goto, Statement, SetVersion
  <2>2. Schema' = version'
    BY <2>1 DEF Schema
  <2>3. Schema = target[p]
    BY <2>1, SeenAt
  <2>4. UNCHANGED Broken
    BY <2>1 DEF Broken
  <2> QED
    BY <1>0, <2>1, <2>2, <2>3, <2>4 DEF Upgrade!vars
<1> QED
  BY <1>1, <1>2, <1>3

(* Whatever the number of processes, images and failures: the lock, the    *)
(* flag and the three statements amount to whole migrations, one after the *)
(* other, and a process gets to serve when the schema is its own           *)
(* (store.go, Migrate; main.go).                                           *)
THEOREM StartupImplementsUpgrade == Spec => ImplementsUpgrade
<1>1. Init => Upgrade!Init
  BY StartupAssumption DEF Init, Upgrade!Init, Schema, Broken, Ready
<1>2. StartupInv /\ StartupInv' /\ [Next]_vars => [Upgrade!Next]_(Upgrade!vars)
  <2> SUFFICES ASSUME StartupInv, StartupInv', [Next]_vars
               PROVE  Upgrade!Next \/ UNCHANGED Upgrade!vars
    OBVIOUS
  <2>1. CASE UNCHANGED vars
    BY <2>1 DEF vars, Upgrade!vars, Schema, Broken, Ready
  <2>2. ASSUME NEW p \in Processes, Start(p) \/ Step(p) \/ Interrupt(p)
        PROVE  Upgrade!Next \/ UNCHANGED Upgrade!vars
    BY <2>2, QuietSeen, MigrationSeen, InterruptSeen DEF Step
  <2> QED
    BY <2>1, <2>2 DEF Next
<1> QED
  BY <1>1, <1>2, StartupInvariance, PTL DEF Spec, ImplementsUpgrade, Upgrade!Spec
=============================================================================
