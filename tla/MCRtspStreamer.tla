--------------------------- MODULE MCRtspStreamer ---------------------------
(***************************************************************************)
(* One session with every kind of request, and two sessions with the       *)
(* requests that start and end streams, which need no turns on the         *)
(* connection.                                                             *)
(***************************************************************************)
EXTENDS RtspStreamer, TLC

CONSTANTS s1, s2

OneSession == {s1}
TwoSessions == {s1, s2}
SessionSymmetry == Permutations(TwoSessions)

Req(m, t, v) == [method |-> m, transport |-> t, valid |-> v]

AllRequests ==
  {Req("SETUP", t, v) : t \in {"udp", "tcp"}, v \in BOOLEAN}
    \cup {Req(m, "udp", v) : m \in {"PLAY", "RTCP"}, v \in BOOLEAN}
    \cup {Req(m, "udp", TRUE) : m \in {"OPTIONS", "PAUSE", "TEARDOWN", "PING"}}

FewRequests == {Req("SETUP", "udp", TRUE), Req("PLAY", "udp", TRUE)}
=============================================================================
