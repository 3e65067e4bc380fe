--------------------------- MODULE MCTsSubscriber ---------------------------
(***************************************************************************)
(* A ring of three two-byte packets, asked for with one byte too many, so  *)
(* that rounding, dropping, wrapping and oversized pushes all occur.       *)
(***************************************************************************)
EXTENDS TsSubscriber

MCPushSizes == {0, 2, 3, 4, 8}
MCPopSizes == {0, 2, 3, 4, 8}
=============================================================================
