-------------------------- MODULE MCTsBroadcaster --------------------------
(***************************************************************************)
(* Two interchangeable clients with buffers of two packets and a tuner     *)
(* that pushes one, two or (more than a buffer) three packets at a time.   *)
(***************************************************************************)
EXTENDS TsBroadcaster, TLC

CONSTANTS c1, c2

MCClients == {c1, c2}
MCPushSizes == 1..3
ClientSymmetry == Permutations(MCClients)
=============================================================================
