--------------------------- MODULE MCRunLifecycle ---------------------------
(***************************************************************************)
(* Instances of RunLifecycle for TLC.                                      *)
(***************************************************************************)
EXTENDS RunInvariants, TLC

CONSTANTS r1, r2, c1, c2, p1, p2, p3, p4, d1, d2

\* Two runs of one conversation.
OneConversation == (r1 :> c1 @@ r2 :> c1)

Single == (r1 :> c1)

TwoConversations == (r1 :> c1 @@ r2 :> c2)

Symmetry == Permutations(Permits) \cup Permutations(Dispatchers)

\* Both runs have the same conversation and may be exchanged.
RunSymmetry == Symmetry \cup Permutations(Runs)
=============================================================================
