-------------------------- MODULE MCAdminSessions --------------------------
(* AdminSessions on small instances.                                       *)
EXTENDS AdminSessions, TLC

Interchangeable ==
  Permutations(Browsers) \cup Permutations(Tabs) \cup Permutations(Sids)
=============================================================================
