---------------------------- MODULE InviteSafety ----------------------------
(***************************************************************************)
(* What registration through invites promises, over InviteRegistration.    *)
(***************************************************************************)
EXTENDS InviteRegistration

(* The accounts made through invite i, and those IncrementUse has counted. *)
Via(i)     == { a \in accounts : a.via = i }
Counted(i) == { a \in counted : a.via = i }

(* Workers between creating the account and counting it.                   *)
InHand == { w \in Workers :
              pc[w] \in {"policyBase", "policy", "record", "count"} }

(* Workers on invite i whose snapshot lets them through, up to the step    *)
(* that counts the use.                                                    *)
Admitted(i) ==
  { w \in Workers :
      /\ pc[w] \in {"check", "token", "base", "create",
                    "policyBase", "policy", "record", "count"}
      /\ req[w].invite = i
      /\ req[w].snap.maxUses # Unlimited
      /\ req[w].snap.useCount < req[w].snap.maxUses }

(* Accounts nobody will count any more: the client, the reply, the         *)
(* increment or the process was lost.                                      *)
Lost == accounts \ (counted \cup { AccountOf(w) : w \in InHand })

Limited(i) == invites[i] # None /\ invites[i].maxUses # Unlimited

-----------------------------------------------------------------------------
(* The ledger: use_count is the number of distinct accounts counted, each  *)
(* a real account of that invite.  No account is counted twice, and none   *)
(* in hand is counted already, however requests, hang-ups and restarts     *)
(* interleave (invite_store.go, IncrementUse).                             *)
LedgerBalance ==
  /\ counted \subseteq accounts
  /\ \A i \in Invites : invites[i] # None =>
       invites[i].useCount = Cardinality(Counted(i))
  /\ \A w \in InHand : AccountOf(w) \in accounts \ counted

(* The quota is checked on a snapshot and counted much later, so it can be *)
(* overrun; but never by more than the other requests in flight at once.   *)
OvershootBounded ==
  \A i \in Invites : Limited(i) =>
    Cardinality(Via(i) \ Lost) <= invites[i].maxUses + Cardinality(Workers) - 1

(* Accounts get lost to the count by failures only: a failed call or a     *)
(* hang-up costs at most one of them, and a restart one per worker.        *)
LossBounded == Cardinality(Lost) <= faults * Cardinality(Workers)

(* The quota as the README states it ("one-time or multi-use"): never more *)
(* accounts than max_uses.                                                 *)
QuotaRespected ==
  \A i \in Invites : Limited(i) => Cardinality(Via(i)) <= invites[i].maxUses

(* Without failures the books are complete: each account is in a worker's  *)
(* hands or counted, and it is registered before it is counted, though     *)
(* both writes drop their errors.                                          *)
BooksComplete ==
  /\ faults = 0 => Lost = {}
  /\ faults = 0 => counted \subseteq registrations
  /\ registrations \subseteq accounts

(* What an account may see by its invite: exactly the libraries listed.    *)
(* For an empty list the comment of SetLibraryAccess says none and its     *)
(* test all; either is accepted here, and OnlyListed takes up the matter.  *)
Promised(i) ==
  LET libs == invites[i].libs IN IF libs = {} THEN {{}, Libraries} ELSE {libs}

Seen(a) == Visible(policy[<<a.server, a.user>>])

(* Whatever fails or comes late, and whichever server the settings point   *)
(* at meanwhile, an account has the default policy or shows what its own   *)
(* invite promises (client.go, SetLibraryAccess).                          *)
ScopeIsolation ==
  \A a \in accounts :
    policy[<<a.server, a.user>>] = DefaultPolicy \/ Seen(a) \in Promised(a.via)

(* With one server and no failures, a counted account shows what its       *)
(* invite promises, whatever the default policy is.                        *)
ScopeApplied ==
  faults = 0 /\ (\A s, t \in Servers : s = t) =>
    \A a \in counted : Seen(a) \in Promised(a.via)

(* "Only the listed libraryIDs will be enabled; all others are blocked"    *)
(* (comment of SetLibraryAccess), of the accounts counted without failures *)
(* on one server.                                                          *)
OnlyListed ==
  faults = 0 /\ (\A s, t \in Servers : s = t) =>
    \A a \in counted : Seen(a) \subseteq invites[a.via].libs

(* A message to Discord is about an account its invite made; without       *)
(* failures that account is registered and counted by then, and the        *)
(* message claims no more uses than the row has.                           *)
NoticesFollowBooks ==
  \A n \in notices :
    \E a \in Via(n.invite) :
      /\ a.user = n.user
      /\ faults = 0 => /\ a \in registrations \cap counted
                       /\ n.count <= invites[n.invite].useCount

(* The use count in the message is "the correct count": it numbers the     *)
(* registrations of an invite, so no two messages share one.               *)
NoticeNumbersDistinct ==
  \A m, n \in notices : m.invite = n.invite /\ m.count = n.count => m = n

(* It is not, but as long as nothing fails no number is announced more     *)
(* often than there are workers, for a number is out of use once the row   *)
(* has reached it.                                                         *)
NumbersShared ==
  faults = 0 => \A i \in Invites, k \in { n.count : n \in notices } :
    Cardinality({ n \in notices : n.invite = i /\ n.count = k })
      <= Cardinality(Workers)

(* The dashboard calls an invite active exactly when the registration      *)
(* handler would let a visitor in at that moment (admin.go, invite.go).    *)
StatusMatchesGate ==
  \A i \in Invites : invites[i] # None =>
    (DashboardStatus(invites[i], now) = "active" <=> IsValid(invites[i], now))

-----------------------------------------------------------------------------
(* Nobody can still create an account on invite i: no worker is past the   *)
(* check, none holds a snapshot that would pass it, and Jellyfin has no    *)
(* POST left whose caller is gone.                                         *)
Drained(i) ==
  /\ \A w \in Workers : req[w].invite = i =>
       /\ pc[w] \notin {"token", "base", "create"}
       /\ pc[w] = "check" => ~IsValid(req[w].snap, now)
  /\ \A a \in lateUsers : a.via # i

(* Invite i is used up, expired or revoked, and drained.                   *)
Closed(i) == invites[i] # None /\ ~IsValid(invites[i], now) /\ Drained(i)

(* An invite once closed stays closed and yields no further account:       *)
(* revocation, expiry and exhaustion are final after the requests already  *)
(* admitted are through, and Jellyfin with what they posted (invite.go,    *)
(* HandleInviteSubmit; client.go, CreateUser).                             *)
StaysClosed(i) == Closed(i) => Closed(i)' /\ Via(i)' = Via(i)
ClosedForGood  == [][\A i \in Invites : StaysClosed(i)]_vars

(* Every request is answered, if every peer answers.                       *)
Answered ==
  PeersAnswer => \A w \in Workers : pc[w] # "idle" ~> pc[w] = "idle"

(* Revoking an invite does, in the end, stop accounts being made with it.  *)
RevocationTakesHold ==
  PeersAnswer =>
    \A i \in Invites : (invites[i] # None /\ invites[i].revoked) ~> Closed(i)

(* A client that hangs up frees its worker even when Jellyfin is silent,   *)
(* unless the worker is in the one call that has no context (discord.go).  *)
HangUpReleases ==
  \A w \in Workers : w \in gone ~> pc[w] \in {"idle", "discord"}

-----------------------------------------------------------------------------
(* What a worker holds in the terms of InviteLedger: a slip from the       *)
(* lookup of a row the check will let through until the account is made,   *)
(* then the account until it is counted.                                   *)
SlipOf(w) ==
  IF \/ pc[w] \in {"token", "base", "create"}
     \/ pc[w] = "check" /\ IsValid(req[w].snap, now)
  THEN [ invite |-> req[w].invite, account |-> None ]
  ELSE IF w \in InHand
  THEN [ invite |-> req[w].invite, account |-> AccountOf(w) ]
  ELSE [ invite |-> None, account |-> None ]

Ledger == INSTANCE InviteLedger
            WITH Slots <- Workers, Ids <- Invites, Accounts <- Account,
                 slip <- [w \in Workers |-> SlipOf(w)],
                 orders <- lateUsers

(* Whatever fails and however requests interleave, every account comes     *)
(* from one admission of a visitor while the invite was valid, no          *)
(* admission makes two accounts, and every use counted is one such account *)
(* counted once on its own invite: the handler implements the ledger.      *)
ImplementsLedger == Ledger!Spec
=============================================================================
