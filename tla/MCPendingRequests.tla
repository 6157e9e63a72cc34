------------------------- MODULE MCPendingRequests -------------------------
(* One request of each kind and two answers that may overlap. *)
EXTENDS PendingRequests, TLC

CONSTANTS ap, in, tl

OneApproval == {ap}
OneInput    == {in}
OneTool     == {tl}
YesOrNo     == {"accept", "decline"}

\* Two announcements, an end and a crash, but not all four in one behaviour.
FewMishaps  == {count \in (0..2) \X (0..1) \X (0..1) : count[1] + count[2] + count[3] <= 3}
=============================================================================
