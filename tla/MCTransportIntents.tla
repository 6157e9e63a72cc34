------------------------- MODULE MCTransportIntents -------------------------
(* Two intents for one resource, which may have a session already, and one *)
(* pending intent that another scope left.                                *)
EXTENDS TransportIntents, TLC

CONSTANTS r1

OneResource == {r1}
AllTypes    == {"ensure", "delete", "archive", "resume", "message"}
=============================================================================
