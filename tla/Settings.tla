------------------------------ MODULE Settings ------------------------------
(***************************************************************************)
(* The settings an admin edits: HandleSettingsForm and HandleSettings-     *)
(* Submit, the setup wizard's HandleSetupSubmit, the settings table under  *)
(* them, and the visitors RequireSetup lets in for its sake, to pages like *)
(* the tutorial's.  Every key is read and written by a statement of its    *)
(* own: a form shows what two queries returned, and saving it writes all   *)
(* of it back, the fields nobody touched included.                         *)
(*                                                                         *)
(* A definition named X_<Mistake> is X with a plausible mistake; nothing   *)
(* uses it, but the properties must tell the two apart.                    *)
(***************************************************************************)
EXTENDS Integers, FiniteSets

CONSTANTS
  Editors,         \* admins' tabs, each with one form open at a time
  Visitors,        \* anyone with a request for a page behind RequireSetup
  URLs,            \* absolute http or https URLs
  Blank,           \* the empty string
  None,            \* no row
  MaxFaults        \* bound on failing statements and restarts

ASSUME SettingsAssumption ==
  /\ Blank # None
  /\ {Blank, None} \cap URLs = {}
  /\ MaxFaults \in Nat

VARIABLES
  table,           \* table settings, without the admin token
  faults,          \* failures so far
  pc,              \* where each editor is
  form,            \* what each editor's form holds
  visitor,         \* where each visitor is
  touched,         \* history: fields of a form that may not be the table's
  intended,        \* history: the values each key may show, until crowded
  crowded          \* history: two forms were open at once

vars == <<table, faults, pc, form, visitor, touched, intended, crowded>>

Optional == {"seerr", "discord"}
Keys     == Optional \cup {"jellyfin"}

TypeOK ==
  /\ table \in [Keys -> URLs \cup {Blank, None}]
  /\ table["jellyfin"] # Blank
  /\ faults \in Nat
  /\ pc \in [Editors -> { "closed", "readSeerr", "readDiscord", "editing",
                          "setup", "saveJellyfin", "saveSeerr",
                          "saveDiscord", "setupSeerr", "setupDiscord" }]
  /\ form \in [Editors -> [Keys -> URLs \cup {Blank}]]
  /\ visitor \in [Visitors -> {"away", "inside", "lost"}]
  /\ touched \in [Editors -> SUBSET Keys]
  /\ intended \in [Keys -> SUBSET (URLs \cup {Blank})]
  /\ crowded \in BOOLEAN

EmptyForm == [k \in Keys |-> Blank]

Init ==
  /\ table = [k \in Keys |-> None]
  /\ faults = 0
  /\ pc = [e \in Editors |-> "closed"]
  /\ form = [e \in Editors |-> EmptyForm]
  /\ visitor = [v \in Visitors |-> "away"]
  /\ touched = [e \in Editors |-> {}]
  /\ intended = [k \in Keys |-> {Blank}]
  /\ crowded = FALSE

-----------------------------------------------------------------------------
Fault == faults < MaxFaults /\ faults' = faults + 1

(* What a template gets of a setting: a missing row and, with the error    *)
(* dropped, a failed query both show as blank.                             *)
Shown(v) == IF v = None THEN Blank ELSE v

(* History is kept until two forms are open at once.                       *)
Note(t, i) ==
  IF crowded'
  THEN /\ touched' = [e \in Editors |-> {}]
       /\ intended' = [k \in Keys |-> {Blank}]
  ELSE touched' = t /\ intended' = i

(* The browser shows a form, and no request of it is under way.            *)
AtForm(e) == pc[e] \in {"editing", "setup"}

Goto(e, step) == pc' = [pc EXCEPT ![e] = step]

Close(e) ==
  /\ Goto(e, "closed")
  /\ form' = [form EXCEPT ![e] = EmptyForm]

(* A tab gets a form, in place of the one it had: the settings page, which *)
(* RequireSetup keeps shut until a Jellyfin URL is stored, or the wizard,  *)
(* open before and after.                                                  *)
Open(e, step) ==
  /\ pc[e] = "closed" \/ AtForm(e)
  /\ step = "readSeerr" => table["jellyfin"] # None
  /\ Goto(e, step)
  /\ form' = [form EXCEPT ![e] = EmptyForm]
  /\ crowded' = (crowded \/ \E d \in Editors \ {e} : pc[d] # "closed")
  /\ Note([touched EXCEPT ![e] = {}], intended)
  /\ UNCHANGED <<table, faults, visitor>>

(* One query of HandleSettingsForm.  If it fails the field is left blank.  *)
Read(e, step, k, next) ==
  /\ pc[e] = step
  /\ Goto(e, next)
  /\ UNCHANGED <<table, visitor, crowded>>
  /\ \/ /\ form' = [form EXCEPT ![e][k] = Shown(table[k])]
        /\ Note(touched, intended)
        /\ UNCHANGED faults
     \/ /\ Fault /\ UNCHANGED form
        /\ Note([touched EXCEPT ![e] = @ \cup {k}], intended)

(* The admin fills in a field.  validateAbsoluteURL keeps anything but a   *)
(* URL or, in an optional field, a blank from being submitted; a refused   *)
(* form is shown again as it was.                                          *)
Type(e, k) ==
  /\ \/ pc[e] = "editing" /\ k \in Optional
     \/ pc[e] = "setup"
  /\ \E v \in URLs \cup {Blank} : form' = [form EXCEPT ![e][k] = v]
  /\ UNCHANGED <<table, faults, pc, visitor, crowded>>
  /\ Note([touched EXCEPT ![e] = @ \cup {k}], intended)

(* The fields a save is to change; in the wizard a blank means nothing.    *)
Meant(e) ==
  { k \in touched[e] :
      pc[e] \in {"setup", "saveJellyfin", "setupSeerr", "setupDiscord"} =>
        form[e][k] # Blank }

(* While a save runs, what it is to change shows the old value or the new. *)
Begin(e) ==
  /\ UNCHANGED <<table, faults, form, visitor, crowded>>
  /\ Note(touched, [k \in Keys |-> IF k \in Meant(e)
                                   THEN intended[k] \cup {form[e][k]}
                                   ELSE intended[k]])

Submit_Unchecked(e) ==
  /\ \/ pc[e] = "editing" /\ Goto(e, "saveSeerr")
     \/ pc[e] = "setup" /\ Goto(e, "saveJellyfin")
  /\ Begin(e)

Submit(e) ==
  /\ \/ pc[e] = "editing" /\ Goto(e, "saveSeerr")
     \/ /\ pc[e] = "setup" /\ form[e]["jellyfin"] # Blank
        /\ Goto(e, "saveJellyfin")
  /\ Begin(e)

Stored(e, k) == [table EXCEPT ![k] = form[e][k]]

(* The handler goes on to its next statement, or has answered "saved".     *)
Proceed(e, next) ==
  IF next = "closed"
  THEN /\ Close(e)
       /\ Note([touched EXCEPT ![e] = {}],
               [k \in Keys |-> IF k \in Meant(e) THEN {form[e][k]}
                              ELSE intended[k]])
  ELSE Goto(e, next) /\ UNCHANGED form /\ Note(touched, intended)

GiveUp(e) == Close(e) /\ Note([touched EXCEPT ![e] = {}], intended)

Save_DeletesFirst(e, step, k, next) ==
  /\ pc[e] = step
  /\ UNCHANGED <<visitor, crowded>>
  /\ \/ table' = Stored(e, k) /\ Proceed(e, next) /\ UNCHANGED faults
     \/ Fault /\ GiveUp(e) /\ table' = [table EXCEPT ![k] = None]

Save_IgnoresErrors(e, step, k, next) ==
  /\ pc[e] = step
  /\ UNCHANGED <<visitor, crowded>>
  /\ Proceed(e, next)
  /\ \/ table' = Stored(e, k) /\ UNCHANGED faults
     \/ Fault /\ table' \in {table, Stored(e, k)}

(* One statement of a save: the key is upserted and the handler goes on,   *)
(* or it fails, or only its answer is lost, and the handler stops there.   *)
Save(e, step, k, next) ==
  /\ pc[e] = step
  /\ UNCHANGED <<visitor, crowded>>
  /\ \/ table' = Stored(e, k) /\ Proceed(e, next) /\ UNCHANGED faults
     \/ Fault /\ GiveUp(e) /\ table' \in {table, Stored(e, k)}

(* HandleSetupSubmit skips an optional field left blank.                   *)
SaveIfAny(e, step, k, next) ==
  \/ form[e][k] # Blank /\ Save(e, step, k, next)
  \/ /\ pc[e] = step /\ form[e][k] = Blank
     /\ UNCHANGED <<table, faults, visitor, crowded>>
     /\ Proceed(e, next)

HandleSettingsForm(e) ==
  \/ Read(e, "readSeerr", "seerr", "readDiscord")
  \/ Read(e, "readDiscord", "discord", "editing")

HandleSettingsSubmit(e) ==
  \/ Save(e, "saveSeerr", "seerr", "saveDiscord")
  \/ Save(e, "saveDiscord", "discord", "closed")

HandleSetupSubmit(e) ==
  \/ Save(e, "saveJellyfin", "jellyfin", "setupSeerr")
  \/ SaveIfAny(e, "setupSeerr", "seerr", "setupDiscord")
  \/ SaveIfAny(e, "setupDiscord", "discord", "closed")

RequireSetup_LetsAllIn(v) ==
  /\ visitor[v] = "away"
  /\ visitor' = [visitor EXCEPT ![v] = "inside"]
  /\ UNCHANGED <<table, faults, pc, form, touched, intended, crowded>>

(* RequireSetup lets a visitor in, or sends them to /setup.                *)
RequireSetup(v) ==
  /\ visitor[v] = "away" /\ table["jellyfin"] # None
  /\ visitor' = [visitor EXCEPT ![v] = "inside"]
  /\ UNCHANGED <<table, faults, pc, form, touched, intended, crowded>>

(* The handler reads the URL again and leads the visitor there: at once,   *)
(* HandleTutorialSkip and HandleTutorialComplete, or by a link in the page,*)
(* HandleTutorial.  It drops the error, and if the query fails or finds    *)
(* nothing the way leads nowhere: "lost" is the visitor of the latter.     *)
HandleTutorial(v) ==
  /\ visitor[v] = "inside"
  /\ \/ /\ visitor' = [visitor EXCEPT ![v] =
                          IF table["jellyfin"] \in URLs THEN "away" ELSE "lost"]
        /\ UNCHANGED faults
     \/ Fault /\ visitor' = [visitor EXCEPT ![v] = "away"]
  /\ UNCHANGED <<table, pc, form, touched, intended, crowded>>

(* The process is killed and started again: the requests under way are     *)
(* lost, the forms open in browsers stay.                                  *)
Restart ==
  /\ Fault
  /\ pc' = [e \in Editors |-> IF AtForm(e) THEN pc[e] ELSE "closed"]
  /\ form' = [e \in Editors |-> IF AtForm(e) THEN form[e] ELSE EmptyForm]
  /\ visitor' = [v \in Visitors |-> "away"]
  /\ UNCHANGED <<table, crowded>>
  /\ Note([e \in Editors |-> IF AtForm(e) THEN touched[e] ELSE {}], intended)

Next ==
  \/ \E e \in Editors :
       \/ Open(e, "readSeerr") \/ Open(e, "setup")
       \/ \E k \in Keys : Type(e, k)
       \/ Submit(e)
       \/ HandleSettingsForm(e) \/ HandleSettingsSubmit(e)
       \/ HandleSetupSubmit(e)
  \/ \E v \in Visitors : RequireSetup(v) \/ HandleTutorial(v)
  \/ Restart

Spec == Init /\ [][Next]_vars

-----------------------------------------------------------------------------
(* Once stored, a Jellyfin URL is there for good, whatever fails half-way: *)
(* RequireSetup never sends visitors back to the wizard.                   *)
ConfiguredForGood ==
  [][table["jellyfin"] # None => table'["jellyfin"] \in URLs]_table

(* RequireSetup asks once and handlers read the URL again, in a query of   *)
(* their own, whatever the wizard writes in between: nobody it lets in is  *)
(* led nowhere because the URL has gone.                                   *)
NobodyLost == \A v \in Visitors : visitor[v] # "lost"

(* Forms edited one after another change only the fields the admins typed *)
(* in, though every save writes the whole form and the wizard starts from  *)
(* a blank one.  A save that reports success leaves its values; one that   *)
(* fails or is cut short leaves a field's old value or its new one.  The   *)
(* one exception is a query of the settings page that fails: the blank it  *)
(* leaves in the form counts as typed, and is stored.                      *)
OneAtATime ==
  ~crowded => \A k \in Keys : Shown(table[k]) \in intended[k]
=============================================================================
