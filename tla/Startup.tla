------------------------------ MODULE Startup ------------------------------
(***************************************************************************)
(* From the start of the process to its first request: main opens the      *)
(* database, applies the pending migrations and listens.  Every error ends *)
(* the process and compose.yaml starts it again, so an error, a crash and  *)
(* a kill are one event here: the process is down, and the statement it    *)
(* was at has taken effect or not.                                         *)
(*                                                                         *)
(* Several processes may share the database, of images that embed more or  *)
(* fewer migrations: a new version next to the old one, or after it.       *)
(*                                                                         *)
(* golang-migrate is known by what Migrate relies on: an advisory lock of  *)
(* the session, a table with the version and a dirty flag raised around    *)
(* each migration, and each file one transaction.                          *)
(*                                                                         *)
(* A definition named X_<Mistake> is X with a plausible mistake; nothing   *)
(* uses it, but the properties must tell the two apart.                    *)
(***************************************************************************)
EXTENDS Integers

CONSTANTS
  Processes,       \* processes that share the database
  Last,            \* the number of the last migration there is
  Known,           \* the last migration the image of each process embeds
  None,            \* nobody
  MaxFaults        \* bound on failing calls, crashes and kills

ASSUME StartupAssumption ==
  /\ Last \in Nat
  /\ Known \in [Processes -> 0..Last]
  /\ None \notin Processes
  /\ MaxFaults \in Nat

VARIABLES
  version, dirty,  \* table schema_migrations; version 0 means no row
  applied,         \* how often each migration has changed the schema
  lock,            \* who holds the advisory lock
  pc,              \* where each process is
  target,          \* the migration it is at
  faults           \* failures so far

db   == <<version, dirty, applied>>
vars == <<version, dirty, applied, lock, pc, target, faults>>

Steps == { "down", "open", "lock", "read", "mark", "run", "clear", "unlock",
           "listen", "serving" }

TypeOK ==
  /\ version \in 0..Last
  /\ dirty \in BOOLEAN
  /\ applied \in [1..Last -> Nat]
  /\ lock \in Processes \cup {None}
  /\ pc \in [Processes -> Steps]
  /\ target \in [Processes -> 0..Last]
  /\ faults \in Nat

Init ==
  /\ version = 0 /\ dirty = FALSE
  /\ applied = [m \in 1..Last |-> 0]
  /\ lock = None
  /\ pc = [p \in Processes |-> "down"]
  /\ target = [p \in Processes |-> 0]
  /\ faults = 0

-----------------------------------------------------------------------------
Goto(p, from, to) == pc[p] = from /\ pc' = [pc EXCEPT ![p] = to]

(* os.Exit(1), or the process is killed: the session's lock goes with it.  *)
Exit(p) ==
  /\ pc' = [pc EXCEPT ![p] = "down"]
  /\ target' = [target EXCEPT ![p] = 0]
  /\ lock' = IF lock = p THEN None ELSE lock

(* restart: unless-stopped.                                                *)
Start(p) == Goto(p, "down", "open") /\ UNCHANGED <<db, lock, target, faults>>

(* store.Open: the pool answers a ping.                                    *)
Open(p) == Goto(p, "open", "lock") /\ UNCHANGED <<db, lock, target, faults>>

Lock_Skipped(p) ==
  Goto(p, "lock", "read") /\ UNCHANGED <<db, lock, target, faults>>

(* m.Up begins by taking the lock, or waiting for it.                      *)
Lock(p) ==
  /\ Goto(p, "lock", "read")
  /\ lock = None /\ lock' = p
  /\ UNCHANGED <<db, target, faults>>

(* What the rest of m.Up depends on: the flag and the version.  A version  *)
(* this image does not embed is an error.                                  *)
UpToDate(p) == version = Known[p]

Pending_OffByOne(p) == version <= Known[p]
Pending(p)          == version < Known[p]

ReadVersion_IgnoresDirty(p) ==
  /\ \/ /\ Pending(p) /\ Goto(p, "read", "mark")
        /\ target' = [target EXCEPT ![p] = version + 1]
        /\ UNCHANGED lock
     \/ UpToDate(p) /\ Goto(p, "read", "unlock") /\ UNCHANGED <<lock, target>>
     \/ version > Known[p] /\ pc[p] = "read" /\ Exit(p)
  /\ UNCHANGED <<db, faults>>

ReadVersion_NoChangeFails(p) ==
  /\ \/ /\ ~dirty /\ Pending(p) /\ Goto(p, "read", "mark")
        /\ target' = [target EXCEPT ![p] = version + 1]
        /\ UNCHANGED lock
     \/ (dirty \/ version >= Known[p]) /\ pc[p] = "read" /\ Exit(p)
  /\ UNCHANGED <<db, faults>>

(* migrate.ErrNoChange is a success.                                       *)
ReadVersion(p) ==
  /\ \/ /\ ~dirty /\ Pending(p) /\ Goto(p, "read", "mark")
        /\ target' = [target EXCEPT ![p] = version + 1]
        /\ UNCHANGED lock
     \/ /\ ~dirty /\ UpToDate(p) /\ Goto(p, "read", "unlock")
        /\ UNCHANGED <<lock, target>>
     \/ (dirty \/ version > Known[p]) /\ pc[p] = "read" /\ Exit(p)
  /\ UNCHANGED <<db, faults>>

(* The three statements of a migration.                                    *)
SetVersion(p, flag) ==
  version' = target[p] /\ dirty' = flag /\ UNCHANGED applied

RunBody(p) ==
  /\ applied' = [applied EXCEPT ![target[p]] = @ + 1]
  /\ UNCHANGED <<version, dirty>>

Statement(p) ==
  \/ pc[p] = "mark"  /\ SetVersion(p, TRUE)
  \/ pc[p] = "run"   /\ RunBody(p)
  \/ pc[p] = "clear" /\ SetVersion(p, FALSE)

Mark(p) ==
  /\ Goto(p, "mark", "run") /\ Statement(p)
  /\ UNCHANGED <<lock, target, faults>>

Run(p) ==
  /\ Goto(p, "run", "clear") /\ Statement(p)
  /\ UNCHANGED <<lock, target, faults>>

Clear(p) ==
  /\ Statement(p)
  /\ \/ /\ target[p] < Known[p] /\ Goto(p, "clear", "mark")
        /\ target' = [target EXCEPT ![p] = @ + 1]
     \/ target[p] = Known[p] /\ Goto(p, "clear", "unlock") /\ UNCHANGED target
  /\ UNCHANGED <<lock, faults>>

Unlock(p) ==
  /\ Goto(p, "unlock", "listen")
  /\ lock' = None
  /\ UNCHANGED <<db, target, faults>>

(* http.ListenAndServe.                                                    *)
Listen(p) == Goto(p, "listen", "serving") /\ UNCHANGED <<db, lock, target, faults>>

(* A call fails, the lock is not had in time, the port is taken or the     *)
(* process dies, at any point.                                             *)
Interrupt(p) ==
  /\ pc[p] # "down"
  /\ faults < MaxFaults /\ faults' = faults + 1
  /\ Statement(p) \/ UNCHANGED db
  /\ Exit(p)

Step(p) ==
  \/ Open(p) \/ Lock(p) \/ ReadVersion(p) \/ Mark(p) \/ Run(p) \/ Clear(p)
  \/ Unlock(p) \/ Listen(p)

Next == \E p \in Processes : Start(p) \/ Step(p) \/ Interrupt(p)

Spec == Init /\ [][Next]_vars

(* The container is restarted for ever, each call ends, and whoever keeps  *)
(* asking for the lock gets it: Postgres queues those who wait.            *)
LiveSpec ==
  Spec /\ \A p \in Processes :
    WF_vars(Start(p)) /\ WF_vars(Step(p)) /\ SF_vars(Lock(p))

-----------------------------------------------------------------------------
(* Past the migrations.                                                    *)
Ready == { p \in Processes : pc[p] \in {"listen", "serving"} }

(* For whoever serves, each migration its image embeds has been applied,   *)
(* exactly once, whatever crashed before and whoever else was starting.    *)
(* The schema may have later ones too: an old process keeps serving while  *)
(* a newer image migrates (store.go, Migrate; main.go).                    *)
ServesMigrated ==
  \A p \in Ready : \A m \in 1..Known[p] : applied[m] = 1

(* Migrations are applied in order, none twice, and the version says which *)
(* are; while the flag is up, the last one may or may not be.              *)
OnceInOrder ==
  \A m \in 1..Last :
    /\ m < version => applied[m] = 1
    /\ m > version => applied[m] = 0
    /\ m = version => applied[m] \in IF dirty THEN {0, 1} ELSE {1}

(* A migration was interrupted: the flag is up and nobody is at it.        *)
Broken == dirty /\ \A p \in Processes : pc[p] \notin {"run", "clear"}

(* From then on nobody gets to serve who does not already: no restart      *)
(* mends it, the flag is never taken down (compose.yaml, restart).         *)
StaysBroken   == Broken => Broken' /\ Ready' \subseteq Ready
BrokenForGood == [][StaysBroken]_vars

(* Every process of the newest image gets to serve and keeps serving,      *)
(* unless a migration was interrupted; restarts that find nothing to do    *)
(* are no error.                                                           *)
ComesUp ==
  \A p \in Processes : (\A q \in Processes : Known[q] <= Known[p]) =>
    <>[](Broken \/ pc[p] = "serving")

-----------------------------------------------------------------------------
(* The last migration the schema has seen: the one the table names, unless *)
(* it is marked and not run yet.                                           *)
Schema == IF dirty /\ applied[version] = 0 THEN version - 1 ELSE version

Upgrade == INSTANCE SchemaUpgrade
             WITH schema <- Schema, broken <- Broken, serving <- Ready

(* Whoever crashes or competes, the processes do what one that upgrades    *)
(* the schema in whole migrations would, and each gets to serve at a       *)
(* moment when the schema is exactly its own (store.go, main.go).          *)
ImplementsUpgrade == Upgrade!Spec
=============================================================================
