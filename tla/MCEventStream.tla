--------------------------- MODULE MCEventStream ----------------------------
(***************************************************************************)
(* Instances of EventStream for TLC: two sessions, one client that watches *)
(* the first, or two that watch it.                                        *)
(***************************************************************************)
EXTENDS EventStream, TLC

CONSTANTS s1, s2, c1, c2

MCOneClient == c1 :> s1
MCTwoClients == c1 :> s1 @@ c2 :> s1
=============================================================================
