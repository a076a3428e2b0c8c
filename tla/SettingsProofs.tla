--------------------------- MODULE SettingsProofs ---------------------------
(***************************************************************************)
(* Proofs about Settings for any editors, any URLs and any number of       *)
(* failures.                                                               *)
(***************************************************************************)
EXTENDS Settings, TLAPS

(* HandleSetupSubmit gets to the database with a Jellyfin URL only.        *)
Checked ==
  \A e \in Editors : pc[e] = "saveJellyfin" => form[e]["jellyfin"] # Blank

SettingsInv == TypeOK /\ Checked

LEMMA EmptyFormType == EmptyForm \in [Keys -> URLs \cup {Blank}]
BY DEF EmptyForm

LEMMA SettingsInvInit == Init => SettingsInv
<1> SUFFICES ASSUME Init PROVE SettingsInv
  OBVIOUS
<1>1. "jellyfin" \in Keys
  BY DEF Keys
<1>2. form \in [Editors -> [Keys -> URLs \cup {Blank}]]
  BY EmptyFormType DEF Init
<1>3. table \in [Keys -> URLs \cup {Blank, None}] /\ table["jellyfin"] # Blank
  BY <1>1, SettingsAssumption DEF Init
<1> QED
  BY <1>2, <1>3 DEF Init, SettingsInv, TypeOK, Checked

LEMMA KeysListed == Keys = {"seerr", "discord", "jellyfin"}
BY DEF Keys, Optional

LEMMA NoteType ==
  ASSUME NEW t \in [Editors -> SUBSET Keys],
         NEW i \in [Keys -> SUBSET (URLs \cup {Blank})],
         Note(t, i)
  PROVE  /\ touched' \in [Editors -> SUBSET Keys]
         /\ intended' \in [Keys -> SUBSET (URLs \cup {Blank})]
BY DEF Note

(* The rest of a handler's step, or the end of the handler.                *)
LEMMA ProceedKeeps ==
  ASSUME SettingsInv, NEW e \in Editors,
         NEW next \in {"closed", "saveDiscord", "setupSeerr", "setupDiscord"},
         Proceed(e, next) \/ GiveUp(e),
         UNCHANGED <<visitor, crowded>>, faults' \in Nat,
         table' \in [Keys -> URLs \cup {Blank, None}], table'["jellyfin"] # Blank
  PROVE  SettingsInv'
<1> DEFINE t == [touched EXCEPT ![e] = {}]
           i == [k \in Keys |-> IF k \in Meant(e) THEN {form[e][k]}
                               ELSE intended[k]]
<1>1. /\ t \in [Editors -> SUBSET Keys]
      /\ i \in [Keys -> SUBSET (URLs \cup {Blank})]
  BY DEF SettingsInv, TypeOK
<1>2. CASE Close(e) /\ (Note(t, i) \/ Note(t, intended))
  <2> HIDE DEF t, i
  <2>1. /\ touched' \in [Editors -> SUBSET Keys]
        /\ intended' \in [Keys -> SUBSET (URLs \cup {Blank})]
    BY <1>1, <1>2, NoteType DEF SettingsInv, TypeOK
  <2> QED
    BY <1>2, <2>1, EmptyFormType
       DEF Close, Goto, SettingsInv, TypeOK, Checked
<1>3. CASE Goto(e, next) /\ UNCHANGED form /\ Note(touched, intended)
  <2>1. /\ touched' \in [Editors -> SUBSET Keys]
        /\ intended' \in [Keys -> SUBSET (URLs \cup {Blank})]
    BY <1>3, NoteType DEF SettingsInv, TypeOK
  <2> QED
    BY <1>3, <2>1 DEF Goto, SettingsInv, TypeOK, Checked
<1> QED
  BY <1>2, <1>3 DEF Proceed, GiveUp

(* A statement of a save leaves the table with the old or the form's value *)
(* and the form as it was, or closed.                                      *)
LEMMA SaveKeeps ==
  ASSUME SettingsInv, NEW e \in Editors, NEW k \in Keys,
         NEW step,
         NEW next \in {"closed", "saveDiscord", "setupSeerr", "setupDiscord"},
         Save(e, step, k, next),
         k = "jellyfin" => step = "saveJellyfin"
  PROVE  /\ SettingsInv'
         /\ table["jellyfin"] # None => table'["jellyfin"] \in URLs
<1> USE SettingsAssumption, KeysListed
<1>1. k = "jellyfin" => form[e][k] # Blank
  BY DEF Save, SettingsInv, Checked
<1>2. Stored(e, k) \in [Keys -> URLs \cup {Blank, None}]
  BY DEF Stored, SettingsInv, TypeOK
<1>3. table' \in {table, Stored(e, k)} /\ faults' \in Nat
  BY DEF Save, Fault, SettingsInv, TypeOK
<1>4. /\ Stored(e, k)["jellyfin"] # Blank
      /\ table["jellyfin"] # None => Stored(e, k)["jellyfin"] \in URLs
  BY <1>1 DEF Stored, SettingsInv, TypeOK
<1>5. /\ table' \in [Keys -> URLs \cup {Blank, None}]
      /\ table'["jellyfin"] # Blank
      /\ table["jellyfin"] # None => table'["jellyfin"] \in URLs
  BY <1>2, <1>3, <1>4 DEF SettingsInv, TypeOK
<1> QED
  BY <1>3, <1>5, ProceedKeeps DEF Save

LEMMA SettingsInvStep ==
  ASSUME SettingsInv, [Next]_vars
  PROVE  /\ SettingsInv'
         /\ table["jellyfin"] # None => table'["jellyfin"] \in URLs
<1> USE SettingsAssumption, KeysListed
<1>0. SettingsInv => (table["jellyfin"] # None => table["jellyfin"] \in URLs)
  BY DEF SettingsInv, TypeOK
<1>1. CASE UNCHANGED vars
  BY <1>0, <1>1 DEF vars, SettingsInv, TypeOK, Checked
<1>2. CASE Restart
  <2>1. /\ touched' \in [Editors -> SUBSET Keys]
        /\ intended' \in [Keys -> SUBSET (URLs \cup {Blank})]
    BY <1>2 DEF Restart, AtForm, Note, SettingsInv, TypeOK
  <2> QED
    BY <1>0, <1>2, <2>1
       DEF Restart, AtForm, Fault, EmptyForm, SettingsInv, TypeOK, Checked
<1>3. ASSUME NEW e \in Editors, Open(e, "readSeerr") \/ Open(e, "setup")
      PROVE  SettingsInv' /\ table' = table
  <2> DEFINE t == [touched EXCEPT ![e] = {}]
  <2>1. t \in [Editors -> SUBSET Keys] /\ Note(t, intended)
    BY <1>3 DEF Open, SettingsInv, TypeOK
  <2>2. /\ touched' \in [Editors -> SUBSET Keys]
        /\ intended' \in [Keys -> SUBSET (URLs \cup {Blank})]
    BY <2>1, NoteType DEF SettingsInv, TypeOK
  <2>3. form' \in [Editors -> [Keys -> URLs \cup {Blank}]]
    BY <1>3, EmptyFormType DEF Open, SettingsInv, TypeOK
  <2>4. crowded' \in BOOLEAN
    BY <1>3 DEF Open, SettingsInv, TypeOK
  <2>5. Checked'
    BY <1>3 DEF Open, AtForm, Goto, SettingsInv, TypeOK, Checked
  <2> QED
    BY <1>3, <2>2, <2>3, <2>4, <2>5 DEF Open, Goto, SettingsInv, TypeOK
<1>4. ASSUME NEW e \in Editors, NEW k \in Keys, Type(e, k)
      PROVE  SettingsInv' /\ table' = table
  <2> DEFINE t == [touched EXCEPT ![e] = @ \cup {k}]
  <2>1. t \in [Editors -> SUBSET Keys] /\ Note(t, intended)
    BY <1>4 DEF Type, SettingsInv, TypeOK
  <2>2. /\ touched' \in [Editors -> SUBSET Keys]
        /\ intended' \in [Keys -> SUBSET (URLs \cup {Blank})]
    BY <2>1, NoteType DEF SettingsInv, TypeOK
  <2>3. PICK v \in URLs \cup {Blank} : form' = [form EXCEPT ![e][k] = v]
    BY <1>4 DEF Type
  <2> QED
    BY <1>4, <2>2, <2>3 DEF Type, SettingsInv, TypeOK, Checked
<1>5. ASSUME NEW e \in Editors, Submit(e)
      PROVE  SettingsInv' /\ table' = table
  <2> DEFINE i == [k \in Keys |-> IF k \in Meant(e)
                                 THEN intended[k] \cup {form[e][k]}
                                 ELSE intended[k]]
  <2>1. i \in [Keys -> SUBSET (URLs \cup {Blank})] /\ Note(touched, i)
    BY <1>5 DEF Submit, Begin, SettingsInv, TypeOK
  <2>2. /\ touched' \in [Editors -> SUBSET Keys]
        /\ intended' \in [Keys -> SUBSET (URLs \cup {Blank})]
    BY <2>1, NoteType DEF SettingsInv, TypeOK
  <2> QED
    BY <1>5, <2>2 DEF Submit, Begin, Goto, SettingsInv, TypeOK, Checked
<1>6. ASSUME NEW e \in Editors, HandleSettingsForm(e)
      PROVE  SettingsInv' /\ table' = table
  <2>1. ASSUME NEW k \in Optional, NEW step,
               NEW next \in {"readDiscord", "editing"}, Read(e, step, k, next)
        PROVE  SettingsInv' /\ table' = table
    <3> DEFINE t == [touched EXCEPT ![e] = @ \cup {k}]
    <3>0. /\ t \in [Editors -> SUBSET Keys]
          /\ Note(t, intended) \/ Note(touched, intended)
      BY <2>1 DEF Read, SettingsInv, TypeOK, Optional
    <3>1. /\ touched' \in [Editors -> SUBSET Keys]
          /\ intended' \in [Keys -> SUBSET (URLs \cup {Blank})]
      BY <3>0, NoteType DEF SettingsInv, TypeOK
    <3>2. form' \in [Editors -> [Keys -> URLs \cup {Blank}]]
      BY <2>1 DEF Read, Shown, SettingsInv, TypeOK, Optional
    <3>3. faults' \in Nat
      BY <2>1 DEF Read, Fault, SettingsInv, TypeOK
    <3>4. \A d \in Editors : form'[d]["jellyfin"] = form[d]["jellyfin"]
      BY <2>1 DEF Read, SettingsInv, TypeOK, Optional
    <3> QED
      BY <2>1, <3>1, <3>2, <3>3, <3>4
         DEF Read, Goto, SettingsInv, TypeOK, Checked
  <2> QED
    BY <1>6, <2>1 DEF HandleSettingsForm, Optional
<1>7. ASSUME NEW e \in Editors, HandleSettingsSubmit(e)
      PROVE  /\ SettingsInv'
             /\ table["jellyfin"] # None => table'["jellyfin"] \in URLs
  BY <1>7, SaveKeeps DEF HandleSettingsSubmit
<1>8. ASSUME NEW e \in Editors, HandleSetupSubmit(e)
      PROVE  /\ SettingsInv'
             /\ table["jellyfin"] # None => table'["jellyfin"] \in URLs
  <2>1. ASSUME NEW k \in Optional, NEW step,
               NEW next \in {"setupDiscord", "closed"},
               SaveIfAny(e, step, k, next)
        PROVE  /\ SettingsInv'
               /\ table["jellyfin"] # None => table'["jellyfin"] \in URLs
    <3>1. CASE Save(e, step, k, next)
      BY <3>1, SaveKeeps DEF Optional
    <3>2. CASE Proceed(e, next) /\ UNCHANGED <<table, faults, visitor, crowded>>
      BY <1>0, <3>2, ProceedKeeps DEF SettingsInv, TypeOK
    <3> QED
      BY <2>1, <3>1, <3>2 DEF SaveIfAny
  <2>2. CASE Save(e, "saveJellyfin", "jellyfin", "setupSeerr")
    BY <2>2, SaveKeeps
  <2> QED
    BY <1>8, <2>1, <2>2 DEF HandleSetupSubmit, Optional
<1>9. ASSUME NEW v \in Visitors, RequireSetup(v) \/ HandleTutorial(v)
      PROVE  SettingsInv' /\ table' = table
  <2>1. visitor' \in [Visitors -> {"away", "inside", "lost"}] /\ faults' \in Nat
    BY <1>9 DEF RequireSetup, HandleTutorial, Fault, SettingsInv, TypeOK
  <2> QED
    BY <1>9, <2>1 DEF RequireSetup, HandleTutorial, SettingsInv, TypeOK, Checked
<1> QED
  BY <1>0, <1>1, <1>2, <1>3, <1>4, <1>5, <1>6, <1>7, <1>8, <1>9 DEF Next

LEMMA SettingsInvariance == Spec => []SettingsInv
<1>1. SettingsInv /\ [Next]_vars => SettingsInv'
  BY SettingsInvStep
<1> QED
  BY <1>1, SettingsInvInit, PTL DEF Spec

(* Every reachable state is well typed; no blank Jellyfin URL is stored.   *)
THEOREM SettingsTyped == Spec => []TypeOK
<1>1. SettingsInv => TypeOK
  BY DEF SettingsInv
<1> QED
  BY <1>1, SettingsInvariance, PTL

(* Setup is done once: HandleSetupSubmit replaces the Jellyfin URL by      *)
(* another valid one or leaves it, whoever else saves and whatever fails.  *)
THEOREM StaysConfigured == Spec => ConfiguredForGood
<1>1. SettingsInv /\ [Next]_vars =>
        [table["jellyfin"] # None => table'["jellyfin"] \in URLs]_table
  BY SettingsInvStep
<1> QED
  BY <1>1, SettingsInvariance, PTL DEF Spec, ConfiguredForGood

(* Visitors RequireSetup has let in find the URL when they read it again.  *)
LetIn == \A v \in Visitors :
  visitor[v] = "inside" => table["jellyfin"] \in URLs

LEMMA VisitorsStep ==
  ASSUME SettingsInv, LetIn, NobodyLost, [Next]_vars
  PROVE  LetIn' /\ NobodyLost'
<1> USE SettingsAssumption
<1>0. table["jellyfin"] # None => /\ table["jellyfin"] \in URLs
                                  /\ table'["jellyfin"] \in URLs
  BY SettingsInvStep, KeysListed DEF SettingsInv, TypeOK
<1>1. CASE UNCHANGED visitor
  BY <1>0, <1>1 DEF LetIn, NobodyLost
<1>2. ASSUME NEW v \in Visitors, RequireSetup(v) \/ HandleTutorial(v)
      PROVE  LetIn' /\ NobodyLost'
  BY <1>0, <1>2
     DEF RequireSetup, HandleTutorial, LetIn, NobodyLost, SettingsInv, TypeOK
<1>3. CASE Restart
  BY <1>3 DEF Restart, LetIn, NobodyLost
<1>4. ASSUME NEW e \in Editors,
             \/ Open(e, "readSeerr") \/ Open(e, "setup")
             \/ \E k \in Keys : Type(e, k)
             \/ Submit(e) \/ HandleSettingsForm(e)
             \/ HandleSettingsSubmit(e) \/ HandleSetupSubmit(e)
      PROVE  UNCHANGED visitor
  BY <1>4 DEF Open, Type, Submit, Begin, HandleSettingsForm, Read,
              HandleSettingsSubmit, HandleSetupSubmit, SaveIfAny, Save
<1> QED
  BY <1>1, <1>2, <1>3, <1>4 DEF Next, vars

(* Nobody past RequireSetup is led nowhere for want of a Jellyfin URL,     *)
(* whoever runs the wizard again meanwhile and whatever fails.             *)
THEOREM VisitorsFindJellyfin == Spec => []NobodyLost
<1>1. Init => LetIn /\ NobodyLost
  BY DEF Init, LetIn, NobodyLost
<1> QED
  BY <1>1, VisitorsStep, SettingsInvariance, PTL DEF Spec


-----------------------------------------------------------------------------
(* What the settings page would show of a key is a value it may show.      *)
Agree(k) == Shown(table[k]) \in intended[k]

Wizard == {"setup", "saveJellyfin", "setupSeerr", "setupDiscord"}
Saving == {"saveJellyfin", "setupSeerr", "setupDiscord", "saveSeerr", "saveDiscord"}

(* The keys a save at this step has not come to yet.                       *)
Rest(step) ==
  IF step = "saveJellyfin" THEN Keys
  ELSE IF step \in {"saveSeerr", "setupSeerr"} THEN Optional
  ELSE IF step \in {"saveDiscord", "setupDiscord"} THEN {"discord"}
  ELSE {}

(* The keys the whole save writes.                                         *)
Target(e) == { k \in Keys : IF pc[e] \in Wizard THEN form[e][k] # Blank
                            ELSE k \in Optional }

(* What the form of the only editor at work has to do with the table.      *)
FormOK(e) ==
  /\ pc[e] = "readSeerr" => touched[e] = {}
  /\ pc[e] = "readDiscord" =>
       /\ touched[e] \subseteq {"seerr"}
       /\ "seerr" \in touched[e] \/ form[e]["seerr"] = Shown(table["seerr"])
  /\ pc[e] = "editing" =>
       /\ touched[e] \subseteq Optional
       /\ \A k \in Optional \ touched[e] : form[e][k] = Shown(table[k])
  /\ pc[e] = "setup" => \A k \in Keys \ touched[e] : form[e][k] = Blank
  /\ pc[e] \in Saving =>
       /\ Meant(e) \subseteq Target(e)
       /\ \A k \in Target(e) : IF k \in Rest(pc[e]) THEN form[e][k] \in intended[k]
                               ELSE Shown(table[k]) = form[e][k]

(* One at a time: at most one editor is at work, and its form accounts for *)
(* every way the table can still change.                                   *)
SerialInv ==
  ~crowded =>
    /\ \A d, e \in Editors : pc[d] # "closed" /\ pc[e] # "closed" => d = e
    /\ \A e \in Editors : pc[e] # "closed" => FormOK(e)
    /\ \A k \in Keys : Agree(k)

EditInv == SettingsInv /\ SerialInv

LEMMA EditInvInit == Init => EditInv
<1> SUFFICES ASSUME Init PROVE EditInv
  OBVIOUS
<1>1. SerialInv
  BY SettingsAssumption DEF Init, SerialInv, Agree, Shown
<1> QED
  BY <1>1, SettingsInvInit DEF EditInv

(* The editor at work is the only one, so only its form needs a look.      *)
LEMMA LoneStep ==
  ASSUME EditInv, ~crowded, NEW e \in Editors, pc[e] # "closed",
         \A d \in Editors \ {e} : pc'[d] = pc[d],
         pc'[e] # "closed" => FormOK(e)',
         \A k \in Keys : Agree(k)'
  PROVE  SerialInv'
<1>1. \A d \in Editors \ {e} : pc'[d] = "closed"
  BY DEF EditInv, SerialInv
<1> QED
  BY <1>1 DEF SerialInv

(* The form an editor at work has.                                         *)
LEMMA LoneForm ==
  ASSUME EditInv, ~crowded, NEW e \in Editors, pc[e] # "closed"
  PROVE  FormOK(e) /\ \A k \in Keys : Agree(k)
BY DEF EditInv, SerialInv

-----------------------------------------------------------------------------
LEMMA OpenSerial ==
  ASSUME EditInv, NEW e \in Editors, Open(e, "readSeerr") \/ Open(e, "setup")
  PROVE  SerialInv'
<1> SUFFICES ASSUME ~crowded' PROVE SerialInv'
  BY DEF SerialInv
<1>1. /\ ~crowded /\ \A d \in Editors \ {e} : pc[d] = "closed"
      /\ \A d \in Editors \ {e} : pc'[d] = "closed"
      /\ pc'[e] \in {"readSeerr", "setup"}
      /\ touched'[e] = {} /\ form'[e] = EmptyForm
      /\ UNCHANGED <<table, intended>>
  BY DEF Open, Goto, Note, EditInv, SettingsInv, TypeOK
<1>2. \A k \in Keys : Agree(k)'
  BY <1>1 DEF EditInv, SerialInv, Agree
<1>3. FormOK(e)'
  BY <1>1 DEF FormOK, EmptyForm, Saving
<1> QED
  BY <1>1, <1>2, <1>3 DEF SerialInv

LEMMA ReadSerial ==
  ASSUME EditInv, NEW e \in Editors, HandleSettingsForm(e)
  PROVE  SerialInv'
<1> SUFFICES ASSUME ~crowded' PROVE SerialInv'
  BY DEF SerialInv
<1> USE KeysListed
<1>1. /\ ~crowded /\ pc[e] # "closed"
      /\ UNCHANGED <<table, intended>>
      /\ \A d \in Editors \ {e} : pc'[d] = pc[d]
  BY DEF HandleSettingsForm, Read, Goto, Note, EditInv, SettingsInv, TypeOK
<1>2. FormOK(e) /\ \A k \in Keys : Agree(k)'
  BY <1>1, LoneForm DEF Agree
<1>3. CASE Read(e, "readSeerr", "seerr", "readDiscord")
  <2>1. /\ pc[e] = "readSeerr" /\ pc'[e] = "readDiscord"
        /\ \/ /\ form'[e]["seerr"] = Shown(table["seerr"])
              /\ touched' = touched
           \/ touched'[e] = touched[e] \cup {"seerr"}
    BY <1>1, <1>3 DEF Read, Goto, Note, EditInv, SettingsInv, TypeOK
  <2>2. FormOK(e)'
    BY <1>1, <1>2, <2>1 DEF FormOK, Saving
  <2> QED
    BY <1>1, <1>2, <2>2, LoneStep
<1>4. CASE Read(e, "readDiscord", "discord", "editing")
  <2>1. /\ pc[e] = "readDiscord" /\ pc'[e] = "editing"
        /\ form'[e]["seerr"] = form[e]["seerr"]
        /\ \/ /\ form'[e]["discord"] = Shown(table["discord"])
              /\ touched' = touched
           \/ touched'[e] = touched[e] \cup {"discord"}
    BY <1>1, <1>4 DEF Read, Goto, Note, EditInv, SettingsInv, TypeOK
  <2>2. FormOK(e)'
    BY <1>1, <1>2, <2>1 DEF FormOK, Saving, Optional
  <2> QED
    BY <1>1, <1>2, <2>2, LoneStep
<1> QED
  BY <1>3, <1>4 DEF HandleSettingsForm

LEMMA TypeSerial ==
  ASSUME EditInv, NEW e \in Editors, NEW k \in Keys, Type(e, k)
  PROVE  SerialInv'
<1> SUFFICES ASSUME ~crowded' PROVE SerialInv'
  BY DEF SerialInv
<1>1. /\ ~crowded /\ pc[e] \in {"editing", "setup"}
      /\ UNCHANGED <<table, pc, intended>>
      /\ touched'[e] = touched[e] \cup {k}
      /\ pc[e] = "editing" => k \in Optional
  BY DEF Type, Note, EditInv, SettingsInv, TypeOK
<1>2. FormOK(e) /\ \A j \in Keys : Agree(j)'
  BY <1>1, LoneForm DEF Agree
<1>3. \A j \in Keys \ {k} : form'[e][j] = form[e][j]
  BY DEF Type, EditInv, SettingsInv, TypeOK
<1>4. FormOK(e)'
  BY <1>1, <1>2, <1>3, KeysListed DEF FormOK, Saving, Optional
<1> QED
  BY <1>1, <1>2, <1>4, LoneStep

LEMMA SubmitSerial ==
  ASSUME EditInv, NEW e \in Editors, Submit(e)
  PROVE  SerialInv'
<1> SUFFICES ASSUME ~crowded' PROVE SerialInv'
  BY DEF SerialInv
<1> USE SettingsAssumption, KeysListed
<1>1. /\ ~crowded /\ pc[e] \in {"editing", "setup"}
      /\ \A d \in Editors \ {e} : pc'[d] = pc[d]
      /\ UNCHANGED <<table, form, touched>>
      /\ pc'[e] = IF pc[e] = "editing" THEN "saveSeerr" ELSE "saveJellyfin"
  BY DEF Submit, Begin, Goto, Note, EditInv, SettingsInv, TypeOK
<1>2. FormOK(e) /\ \A k \in Keys : Agree(k)
  BY <1>1, LoneForm
<1>3. \A k \in Keys : intended'[k] = IF k \in Meant(e)
                                     THEN intended[k] \cup {form[e][k]}
                                     ELSE intended[k]
  BY <1>1 DEF Submit, Begin, Note
<1>4. \A k \in Keys : Agree(k)'
  BY <1>1, <1>2, <1>3 DEF Agree
<1>5. CASE pc[e] = "editing"
  <2>1. Meant(e) = touched[e] /\ Meant(e)' = touched[e] /\ Target(e)' = Optional
    BY <1>1, <1>5 DEF Meant, Target, Wizard, Optional, EditInv, SettingsInv, TypeOK
  <2>2. \A k \in Optional : form[e][k] \in intended'[k]
    BY <1>2, <1>3, <1>5, <2>1 DEF FormOK, Agree, Optional
  <2>3. Rest(pc'[e]) = Optional /\ touched[e] \subseteq Optional
    BY <1>1, <1>2, <1>5 DEF Rest, FormOK
  <2>4. FormOK(e)'
    BY <1>1, <1>5, <2>1, <2>2, <2>3 DEF FormOK
  <2> QED
    BY <1>1, <1>4, <2>4, LoneStep
<1>6. CASE pc[e] = "setup"
  <2>1. /\ Target(e)' = { k \in Keys : form[e][k] # Blank }
        /\ Meant(e) = Target(e)' /\ Meant(e)' = Target(e)'
    BY <1>1, <1>2, <1>6
       DEF FormOK, Meant, Target, Wizard, EditInv, SettingsInv, TypeOK
  <2>2. Rest(pc'[e]) = Keys
    BY <1>1, <1>6 DEF Rest
  <2>3. FormOK(e)'
    BY <1>1, <1>3, <1>6, <2>1, <2>2 DEF FormOK, Target
  <2> QED
    BY <1>1, <1>4, <2>3, LoneStep
<1> QED
  BY <1>1, <1>5, <1>6

-----------------------------------------------------------------------------
(* The statements of the two saves, each with the one after it.            *)
Statements ==
  { <<"saveSeerr", "seerr", "saveDiscord">>, <<"saveDiscord", "discord", "closed">>,
    <<"saveJellyfin", "jellyfin", "setupSeerr">>,
    <<"setupSeerr", "seerr", "setupDiscord">>, <<"setupDiscord", "discord", "closed">> }

LEMMA StatementOrder ==
  ASSUME NEW step, NEW k, NEW next, <<step, k, next>> \in Statements
  PROVE  /\ k \in Keys /\ k \in Rest(step) /\ Rest(next) = Rest(step) \ {k}
         /\ step \in Saving /\ next \in Saving \cup {"closed"}
         /\ next # "closed" => (next \in Wizard <=> step \in Wizard)
         /\ next = "closed" => Rest(step) = {k}
BY DEF Statements, Rest, Saving, Wizard, Keys, Optional

(* After a statement of a save, its key has the form's value, if the save  *)
(* writes it at all; after the last one every key does.                    *)
LEMMA ProceedSerial ==
  ASSUME EditInv, ~crowded, ~crowded', NEW e \in Editors,
         NEW step, NEW k, NEW next, <<step, k, next>> \in Statements,
         pc[e] = step, Proceed(e, next),
         \A j \in Keys : table'[j] = IF j = k /\ k \in Target(e) THEN form[e][k]
                                     ELSE table[j]
  PROVE  SerialInv'
<1> USE SettingsAssumption
<1>1. FormOK(e) /\ \A j \in Keys : Agree(j)
  BY LoneForm, StatementOrder DEF Saving
<1>2. /\ Meant(e) \subseteq Target(e) /\ Target(e) \subseteq Keys
      /\ \A j \in Target(e) : IF j \in Rest(step) THEN form[e][j] \in intended[j]
                              ELSE Shown(table[j]) = form[e][j]
  BY <1>1, StatementOrder DEF FormOK, Target
<1>3. \A j \in Keys : Shown(form[e][j]) = form[e][j]
  BY DEF Shown, EditInv, SettingsInv, TypeOK
<1>4. \A d \in Editors \ {e} : pc'[d] = pc[d]
  BY DEF Proceed, Close, Goto, EditInv, SettingsInv, TypeOK
<1>5. \A j \in Target(e) : j \notin Rest(step) \ {k} => Shown(table'[j]) = form[e][j]
  BY <1>2, <1>3
<1>6. CASE next = "closed"
  <2>1. \A j \in Keys : intended'[j] = IF j \in Meant(e) THEN {form[e][j]}
                                       ELSE intended[j]
    BY <1>6 DEF Proceed, Note
  <2>2. \A j \in Target(e) : Shown(table'[j]) = form[e][j]
    BY <1>5, <1>6, StatementOrder
  <2>3. ASSUME NEW j \in Keys PROVE Agree(j)'
    <3>1. CASE j \in Meant(e)
      BY <1>2, <2>1, <2>2, <3>1 DEF Agree
    <3>2. CASE j \notin Meant(e)
      BY <1>1, <1>2, <1>3, <2>1, <3>2, StatementOrder DEF Agree
    <3> QED
      BY <3>1, <3>2
  <2>4. pc'[e] = "closed"
    BY <1>6 DEF Proceed, Close, Goto, EditInv, SettingsInv, TypeOK
  <2> QED
    BY <1>4, <2>3, <2>4, LoneStep, StatementOrder DEF Saving
<1>7. CASE next # "closed"
  <2>1. pc'[e] = next /\ UNCHANGED <<form, touched, intended>>
    BY <1>7 DEF Proceed, Goto, Note, EditInv, SettingsInv, TypeOK
  <2>2. Target(e)' = Target(e)
    BY <1>7, <2>1, StatementOrder DEF Target
  <2>3. Meant(e)' = Meant(e)
    BY <1>7, <2>1, StatementOrder DEF Meant, Wizard
  <2>4. \A j \in Keys : Agree(j)'
    BY <1>1, <1>2, <1>3, <2>1, StatementOrder DEF Agree
  <2>5. FormOK(e)'
    <3>1. \A j \in Target(e) : IF j \in Rest(next) THEN form[e][j] \in intended[j]
                               ELSE Shown(table'[j]) = form[e][j]
      BY <1>2, <1>5, StatementOrder
    <3> QED
      BY <1>2, <1>7, <2>1, <2>2, <2>3, <3>1, StatementOrder DEF FormOK, Saving
  <2> QED
    BY <1>4, <2>4, <2>5, LoneStep, StatementOrder DEF Saving
<1> QED
  BY <1>6, <1>7

LEMMA SaveSerial ==
  ASSUME EditInv, ~crowded', NEW e \in Editors,
         NEW step, NEW k, NEW next, <<step, k, next>> \in Statements,
         Save(e, step, k, next), k \in Target(e)
  PROVE  SerialInv'
<1> USE SettingsAssumption
<1>1. ~crowded /\ pc[e] = step
  BY DEF Save
<1>2. k \in Keys /\ pc[e] # "closed" /\ k \in Rest(step)
  BY <1>1, StatementOrder DEF Saving
<1>3. \A j \in Keys : Stored(e, k)[j] = IF j = k THEN form[e][k] ELSE table[j]
  BY <1>2 DEF Stored, EditInv, SettingsInv, TypeOK
<1>4. CASE table' = Stored(e, k) /\ Proceed(e, next)
  BY <1>1, <1>3, <1>4, ProceedSerial
<1>5. CASE GiveUp(e) /\ table' \in {table, Stored(e, k)}
  <2>1. /\ pc'[e] = "closed" /\ intended' = intended
        /\ \A d \in Editors \ {e} : pc'[d] = pc[d]
    BY <1>5 DEF GiveUp, Close, Goto, Note, EditInv, SettingsInv, TypeOK
  <2>2. FormOK(e) /\ \A j \in Keys : Agree(j)
    BY <1>1, <1>2, LoneForm
  <2>3. form[e][k] \in intended[k] /\ Shown(form[e][k]) = form[e][k]
    BY <1>1, <1>2, <2>2, StatementOrder
       DEF FormOK, Shown, EditInv, SettingsInv, TypeOK
  <2>4. \A j \in Keys : Agree(j)'
    BY <1>3, <1>5, <2>1, <2>2, <2>3 DEF Agree
  <2> QED
    BY <1>1, <1>2, <2>1, <2>4, LoneStep
<1> QED
  BY <1>4, <1>5 DEF Save

LEMMA SettingsSubmitSerial ==
  ASSUME EditInv, NEW e \in Editors, HandleSettingsSubmit(e)
  PROVE  SerialInv'
<1> SUFFICES ASSUME ~crowded' PROVE SerialInv'
  BY DEF SerialInv
<1>1. ASSUME NEW step, NEW k, NEW next, <<step, k, next>> \in Statements,
             step \notin Wizard, Save(e, step, k, next)
      PROVE  SerialInv'
  <2>1. k \in Target(e)
    BY <1>1 DEF Save, Target, Statements, Wizard, Keys, Optional
  <2> QED
    BY <1>1, <2>1, SaveSerial
<1> QED
  BY <1>1 DEF HandleSettingsSubmit, Statements, Wizard

LEMMA SetupSubmitSerial ==
  ASSUME EditInv, NEW e \in Editors, HandleSetupSubmit(e)
  PROVE  SerialInv'
<1> SUFFICES ASSUME ~crowded' PROVE SerialInv'
  BY DEF SerialInv
<1>1. ASSUME NEW step, NEW k, NEW next, <<step, k, next>> \in Statements,
             step \in Wizard, Save(e, step, k, next), form[e][k] # Blank
      PROVE  SerialInv'
  <2>1. k \in Target(e)
    BY <1>1, StatementOrder DEF Save, Target
  <2> QED
    BY <1>1, <2>1, SaveSerial
<1>2. CASE Save(e, "saveJellyfin", "jellyfin", "setupSeerr")
  <2>1. form[e]["jellyfin"] # Blank
    BY <1>2 DEF Save, EditInv, SettingsInv, Checked
  <2> QED
    BY <1>1, <1>2, <2>1 DEF Statements, Wizard
<1>3. ASSUME NEW step, NEW k, NEW next, <<step, k, next>> \in Statements,
             step \in Wizard, SaveIfAny(e, step, k, next)
      PROVE  SerialInv'
  <2>1. CASE pc[e] = step /\ form[e][k] = Blank
    <3>1. ~crowded /\ table' = table /\ Proceed(e, next)
      BY <1>3, <2>1 DEF SaveIfAny
    <3>2. k \notin Target(e)
      BY <1>3, <2>1 DEF Target
    <3> QED
      BY <1>3, <2>1, <3>1, <3>2, ProceedSerial
  <2> QED
    BY <1>1, <1>3, <2>1 DEF SaveIfAny
<1> QED
  BY <1>2, <1>3 DEF HandleSetupSubmit, Statements, Wizard

LEMMA EditInvStep == EditInv /\ [Next]_vars => EditInv'
<1> SUFFICES ASSUME EditInv, [Next]_vars PROVE SerialInv'
  BY SettingsInvStep DEF EditInv
<1>1. CASE UNCHANGED vars
  BY <1>1 DEF vars, EditInv, SerialInv, FormOK, Meant, Target, Agree
<1>2. CASE Restart
  <2> SUFFICES ASSUME ~crowded' PROVE SerialInv'
    BY DEF SerialInv
  <2>1. ~crowded /\ UNCHANGED <<table, intended>>
    BY <1>2 DEF Restart, Note
  <2>2. ASSUME NEW e \in Editors, pc'[e] # "closed"
        PROVE  /\ AtForm(e) /\ pc'[e] = pc[e] /\ form'[e] = form[e]
               /\ touched'[e] = touched[e] /\ pc[e] # "closed"
    BY <1>2, <2>2 DEF Restart, AtForm, Note, EditInv, SettingsInv, TypeOK
  <2>3. ASSUME NEW e \in Editors, pc'[e] # "closed"  PROVE FormOK(e)'
    BY <2>1, <2>2, <2>3, LoneForm DEF FormOK, AtForm, Saving
  <2>4. \A k \in Keys : Agree(k)'
    BY <2>1 DEF Agree, EditInv, SerialInv
  <2> QED
    BY <2>1, <2>2, <2>3, <2>4 DEF EditInv, SerialInv
<1>3. ASSUME NEW v \in Visitors, RequireSetup(v) \/ HandleTutorial(v)
      PROVE  SerialInv'
  BY <1>3 DEF RequireSetup, HandleTutorial, EditInv, SerialInv, FormOK, Meant,
              Target, Agree
<1> QED
  BY <1>1, <1>2, <1>3, OpenSerial, ReadSerial, TypeSerial, SubmitSerial,
     SettingsSubmitSerial, SetupSubmitSerial DEF Next

(* Forms saved one after another change just the fields the admins typed   *)
(* in, or a failed query blanked: the other values HandleSettingsSubmit    *)
(* writes back are those it showed, HandleSetupSubmit skips what was left  *)
(* blank, and a save that stops half-way leaves old or new values.         *)
THEOREM EditsAreExact == Spec => []OneAtATime
<1>1. EditInv => OneAtATime
  BY DEF EditInv, SerialInv, OneAtATime, Agree
<1> QED
  BY <1>1, EditInvInit, EditInvStep, PTL DEF Spec
=============================================================================
