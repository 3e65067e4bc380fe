--------------------------- MODULE MCHttpStreamer ---------------------------
(***************************************************************************)
(* Two connections at a time and a handle more than the limit, so that     *)
(* connections are refused and handles reused.                             *)
(***************************************************************************)
EXTENDS HttpStreamer

CONSTANTS t1, t2, k1, k2, k3

MCHandlers == {t1, t2}
MCSockets == {k1, k2, k3}
=============================================================================
