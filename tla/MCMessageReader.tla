--------------------------- MODULE MCMessageReader ---------------------------
(***************************************************************************)
(* Requests without and with a body, which may look like an end of header  *)
(* or the start of a frame; frames, empty and with data that looks like a  *)
(* request; and each kind of bad message.                                  *)
(***************************************************************************)
EXTENDS MessageReader

Msg(v, b) == [bytes |-> b, verdict |-> v]

MCMessages ==
  {Msg("Request", <<Text, NL, NL>>),
   Msg("Request", <<Text, NL, Text, NL, 2, NL, NL, NL, NL>>),
   Msg("Request", <<Text, NL, 1, NL, NL, Dollar>>),
   Msg("Interleaved", <<Dollar, 0, 0>>),
   Msg("Interleaved", <<Dollar, NL, 3, Text, NL, NL>>),
   Msg("Invalid", <<Junk, NL, NL>>),
   Msg("Invalid", <<Text, NL, 0, NL, 1, NL, NL>>),
   Msg("TooLarge", <<Text, NL, 3, NL, NL, Text, Text, Text>>),
   Msg("TooLarge", <<Text, NL, Text, NL, Text, NL, Text, NL, Text, NL, NL>>)}
=============================================================================
