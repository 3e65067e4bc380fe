-------------------------- MODULE MCChannelSwitch --------------------------
(***************************************************************************)
(* Two threads that send commands at once, and two broadcasts to switch    *)
(* between. The configurations differ in which commands they send.         *)
(***************************************************************************)
EXTENDS ChannelSwitch

CONSTANTS h1, h2, ch15, ch22

TwoCommanders == {h1, h2}
MCBroadcasts == {ch15, ch22}
TuneOnly == {"tune"}
=============================================================================
