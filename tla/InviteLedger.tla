---------------------------- MODULE InviteLedger ----------------------------
(***************************************************************************)
(* What registration through invites amounts to, without the handlers'     *)
(* steps, the Jellyfin servers, or a count of what fails: a slip is issued *)
(* against an invite that is valid at that moment, is good for one account *)
(* made later, and then for one use counted.  It may get lost at any time, *)
(* and nobody can tell whether it was; one that has made no account may    *)
(* leave behind the order for it, which will not be counted.               *)
(***************************************************************************)
EXTENDS InviteRules

CONSTANTS
  Slots,           \* who can hold a slip
  Ids,             \* ids of invites
  Accounts,        \* possible accounts; via is the id of the invite
  None             \* no row, no slip, no account yet

VARIABLES
  now,             \* the wall clock
  invites,         \* rows of the invites
  accounts,        \* accounts made
  counted,         \* accounts counted as uses
  slip,            \* what each slot holds
  orders           \* accounts ordered by slips since lost

vars == <<now, invites, accounts, counted, slip, orders>>

Slip(i, a) == [ invite |-> i, account |-> a ]
NoSlip     == Slip(None, None)

Init ==
  /\ now = 0
  /\ invites = [i \in Ids |-> None]
  /\ accounts = {}
  /\ counted = {}
  /\ slip = [s \in Slots |-> NoSlip]
  /\ orders = {}

(* A server has each name once.                                            *)
Free(a) == \A b \in accounts : <<b.server, b.user>> # <<a.server, a.user>>

(* An unused row is added.                                                 *)
Create(i) ==
  /\ invites[i] = None
  /\ invites'[i] \in Invite
  /\ invites'[i].useCount = 0 /\ ~invites'[i].revoked
  /\ invites' = [invites EXCEPT ![i] = invites'[i]]
  /\ UNCHANGED <<now, accounts, counted, slip, orders>>

Revoke(i) ==
  /\ invites[i] # None
  /\ invites' = [invites EXCEPT ![i].revoked = TRUE]
  /\ UNCHANGED <<now, accounts, counted, slip, orders>>

(* A slip is only issued while its invite is valid.                        *)
Issue(s, i) ==
  /\ slip[s] = NoSlip
  /\ invites[i] # None /\ IsValid(invites[i], now)
  /\ slip' = [slip EXCEPT ![s] = Slip(i, None)]
  /\ UNCHANGED <<now, invites, accounts, counted, orders>>

(* A slip makes one new account of its invite, with a name that is free.   *)
Make(s, a) ==
  /\ slip[s] = Slip(a.via, None)
  /\ Free(a)
  /\ accounts' = accounts \cup {a}
  /\ slip' = [slip EXCEPT ![s] = Slip(a.via, a)]
  /\ UNCHANGED <<now, invites, counted, orders>>

(* The account is counted once, on the row of its invite.                  *)
Count(s, a) ==
  /\ slip[s] = Slip(a.via, a) /\ a \notin counted
  /\ counted' = counted \cup {a}
  /\ invites' = [invites EXCEPT ![a.via].useCount = @ + 1]
  /\ slip' = [slip EXCEPT ![s] = NoSlip]
  /\ UNCHANGED <<now, accounts, orders>>

(* Time passes and slips are lost, each or none; some leave an order each. *)
Pass ==
  /\ now' \in {now, now + 1}
  /\ \E lost \in SUBSET Slots : \E leave \in SUBSET lost :
       \E left \in [leave -> Accounts] :
         /\ \A s \in leave : slip[s] = Slip(left[s].via, None)
         /\ slip' = [s \in Slots |-> IF s \in lost THEN NoSlip ELSE slip[s]]
         /\ orders' = orders \cup { left[s] : s \in leave }
  /\ UNCHANGED <<invites, accounts, counted>>

(* An order left behind is carried out or dropped.                         *)
Settle(a) ==
  /\ a \in orders
  /\ orders' = orders \ {a}
  /\ \/ Free(a) /\ accounts' = accounts \cup {a}
     \/ UNCHANGED accounts
  /\ UNCHANGED <<now, invites, counted, slip>>

Next ==
  \/ \E i \in Ids : Create(i) \/ Revoke(i)
  \/ \E s \in Slots, i \in Ids : Issue(s, i)
  \/ \E s \in Slots, a \in Accounts : Make(s, a) \/ Count(s, a)
  \/ \E a \in Accounts : Settle(a)
  \/ Pass

Spec == Init /\ [][Next]_vars
=============================================================================
