----------------------------- MODULE MCLifecycle -----------------------------
(***************************************************************************)
(* Two HTTP threads that command the core beside main, and two broadcasts. *)
(* Only main restores the last broadcast. One packet is enough: what is    *)
(* done with one does not depend on the others, and a single packet of an  *)
(* old broadcast would show.                                               *)
(***************************************************************************)
EXTENDS Lifecycle

CONSTANTS h1, h2, mainThread, ch15, ch22

MCCommanders == {h1, h2, mainThread}
MCBroadcasts == {ch15, ch22}
MCOps == {"tune", "select", "scan", "stop", "cancel"}
=============================================================================
