------------------------ MODULE MCInviteRegistration ------------------------
(* InviteRegistration on small instances.                                  *)
EXTENDS InviteSafety, TLC

CONSTANTS l1, l2   \* model values

MCInt4Max == 2

\* What admins type in max_uses: nothing, a refused value, a usable one, one
\* too large for the column.  ZeroOrOne makes unlimited and one-use invites.
AllMaxUses == {Unlimited, 0, 1, 2, MCInt4Max + 1}
ZeroOrOne  == {0, 1}
OneUse     == {1}
ManyUses   == {Unlimited}

NeverOnly   == {Never}
SoonOrNever == {0, Never}

NoneOrOne    == { {}, {l1} }
OneLibrary   == { {l1} }
EitherOne    == { {l1}, {l2} }

\* A new Jellyfin account sees everything until a policy is posted.
OpenPolicy == [ all |-> TRUE, folders |-> {} ]
\* A server whose template user sees nothing.
ShutPolicy == [ all |-> FALSE, folders |-> {} ]

Interchangeable ==
  Permutations(Workers) \cup Permutations(Users)
    \cup Permutations(Servers) \cup Permutations(Invites)
=============================================================================
