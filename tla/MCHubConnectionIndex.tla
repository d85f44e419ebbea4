----------------------- MODULE MCHubConnectionIndex -----------------------
(* Five connections of two users: one user has three, so that a removal may *)
(* move a connection that is first, inside, or last in either list.         *)
EXTENDS HubConnectionIndex, TLC

CONSTANTS c1, c2, c3, c4, c5, alice, bob

MCConns  == {c1, c2, c3, c4, c5}
MCUsers  == {alice, bob}
MCUserOf == (c1 :> alice) @@ (c2 :> alice) @@ (c3 :> bob) @@ (c4 :> alice) @@ (c5 :> bob)
=============================================================================
