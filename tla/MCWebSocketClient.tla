------------------------- MODULE MCWebSocketClient -------------------------
(* Two socket identities: one more than a correct client ever has at a time. *)
EXTENDS WebSocketClient

CONSTANTS s1, s2
=============================================================================
