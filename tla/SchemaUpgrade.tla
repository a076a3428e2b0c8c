---------------------------- MODULE SchemaUpgrade ----------------------------
(***************************************************************************)
(* What starting up amounts to, without the processes' steps, the lock or  *)
(* the dirty flag: a schema that moves up by one migration at a time, each *)
(* of them whole, and processes that get to serve at a moment when the     *)
(* schema is the one their image was written for.  An upgrade that is cut  *)
(* short leaves the schema before or after that migration, and nothing but *)
(* stopping happens from then on.                                          *)
(***************************************************************************)
EXTENDS Integers

CONSTANTS
  Processes,       \* processes that share the database
  Known            \* the last migration the image of each process embeds

VARIABLES
  schema,          \* the last migration that has been applied
  broken,          \* an upgrade was cut short
  serving          \* processes past the migrations

vars == <<schema, broken, serving>>

Init == schema = 0 /\ broken = FALSE /\ serving = {}

(* Only a migration somebody knows.                                        *)
Pending == \E p \in Processes : schema < Known[p]

Apply ==
  /\ ~broken /\ Pending
  /\ schema' = schema + 1
  /\ UNCHANGED <<broken, serving>>

(* Cut short between two statements of a migration, the first, the last or *)
(* in the middle.                                                          *)
Break ==
  /\ ~broken
  /\ broken' = TRUE
  /\ schema' = schema \/ (Pending /\ schema' = schema + 1)
  /\ UNCHANGED serving

Admit(p) ==
  /\ ~broken /\ schema = Known[p]
  /\ serving' = serving \cup {p}
  /\ UNCHANGED <<schema, broken>>

Leave(p) ==
  /\ serving' = serving \ {p}
  /\ UNCHANGED <<schema, broken>>

Next == Apply \/ Break \/ \E p \in Processes : Admit(p) \/ Leave(p)

Spec == Init /\ [][Next]_vars
=============================================================================
