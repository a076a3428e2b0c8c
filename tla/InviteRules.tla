---------------------------- MODULE InviteRules ----------------------------
(***************************************************************************)
(* The rules of an invite that involve no interleaving: what HandleCreate- *)
(* Invite makes of the admin's form, when Invite.IsValid lets a visitor    *)
(* in, what the dashboard says of the same invite, and which library       *)
(* access its registrants are given.                                       *)
(*                                                                         *)
(* Instants are naturals; time.Now().After(x) is "now > x".                *)
(*                                                                         *)
(* A definition whose name ends in _<Mistake> is the one after it with a   *)
(* plausible mistake; no specification uses it, but the properties must    *)
(* tell the two apart.                                                     *)
(***************************************************************************)
EXTENDS Integers

CONSTANTS
  Libraries,    \* ids of the Jellyfin libraries
  Unlimited,    \* a nil MaxUses
  Never,        \* a nil ExpiresAt
  Int4Max       \* the largest value of the INTEGER column max_uses

ASSUME RulesAssumption ==
  /\ Int4Max \in Nat \ {0}
  /\ Unlimited \notin Int
  /\ Never \notin Int

(* A row of table invites, without the columns no decision depends on.     *)
Invite == [ maxUses   : 1..Int4Max \cup {Unlimited},
            expiresAt : Nat \cup {Never},
            useCount  : Nat,
            revoked   : BOOLEAN,
            libs      : SUBSET Libraries ]

-----------------------------------------------------------------------------
(* HandleCreateInvite keeps a max_uses that parses as a positive integer   *)
(* and an expires_at that parses as a local time; a blank or malformed     *)
(* field leaves the pointer nil, which means "unlimited" or "never".       *)
ParsedMaxUses_KeepsZero(raw) == IF raw \in Nat THEN raw ELSE Unlimited

ParsedMaxUses(raw) == IF raw \in Nat \ {0} THEN raw ELSE Unlimited
ParsedExpiry(raw)  == IF raw \in Nat THEN raw ELSE Never

(* The row InviteStore.Create inserts: use_count and revoked come from the *)
(* column defaults.                                                        *)
NewInvite(rawMaxUses, rawExpiry, libs) ==
  [ maxUses   |-> ParsedMaxUses(rawMaxUses),
    expiresAt |-> ParsedExpiry(rawExpiry),
    useCount  |-> 0,
    revoked   |-> FALSE,
    libs      |-> libs ]

(* Postgres refuses a max_uses that does not fit the INTEGER column.       *)
Storable(inv) == inv.maxUses # Unlimited => inv.maxUses <= Int4Max

-----------------------------------------------------------------------------
IsValid_OffByOne(inv, t) ==
  /\ ~inv.revoked
  /\ inv.expiresAt # Never => t <= inv.expiresAt
  /\ inv.maxUses # Unlimited => inv.useCount <= inv.maxUses

(* Invite.IsValid: nil error.                                              *)
IsValid(inv, t) ==
  /\ ~inv.revoked
  /\ inv.expiresAt # Never => t <= inv.expiresAt
  /\ inv.maxUses # Unlimited => inv.useCount < inv.maxUses

DashboardStatus_OffByOne(inv, t) ==
  IF inv.revoked THEN "revoked"
  ELSE IF inv.expiresAt # Never /\ t > inv.expiresAt THEN "expired"
  ELSE IF inv.maxUses # Unlimited /\ inv.useCount > inv.maxUses THEN "exhausted"
  ELSE "active"

(* Admin.toViews: the status column of the dashboard.                      *)
DashboardStatus(inv, t) ==
  IF inv.revoked THEN "revoked"
  ELSE IF inv.expiresAt # Never /\ t > inv.expiresAt THEN "expired"
  ELSE IF inv.maxUses # Unlimited /\ inv.useCount >= inv.maxUses THEN "exhausted"
  ELSE "active"

(* The access policy SetLibraryAccess posts for a list of library ids.     *)
Policy == [ all : BOOLEAN, folders : SUBSET Libraries ]

AccessPolicy_LeavesAll(libs) == [ all |-> TRUE, folders |-> libs ]

AccessPolicy(libs) == [ all |-> libs = {}, folders |-> libs ]

(* The libraries Jellyfin shows a user under a policy.                     *)
Visible(p) == IF p.all THEN Libraries ELSE p.folders
=============================================================================
