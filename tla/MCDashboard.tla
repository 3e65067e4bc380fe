----------------------------- MODULE MCDashboard -----------------------------
(***************************************************************************)
(* Two requests of the page at a time, which can overtake each other; four *)
(* sequence numbers, which wrap around as 65536 do; a buffer of two.       *)
(***************************************************************************)
EXTENDS Dashboard

CONSTANTS f1, f2

MCFetches == {f1, f2}
=============================================================================
