---------------------------- MODULE WireProtocol ----------------------------
(***************************************************************************)
(* WireProtocol::Extract (src/include/WireProtocol.h): takes one message   *)
(* off the front of a receive buffer, a request or, on an RTSP connection, *)
(* a binary frame. Pure operators.                                         *)
(*                                                                         *)
(* The buffer is a sequence of symbols: a line of text with its meaning, a *)
(* line end, the '$' a frame starts with, or a number. A number stands     *)
(* for the header line Content-Length with that value, or for the size in  *)
(* a frame (two bytes in the code); in a body it is data like any symbol.  *)
(***************************************************************************)
EXTENDS Integers, Sequences

CONSTANTS MaxHeader, MaxBody, MaxBuffered,   \* 8192, 16384, 73728
          MaxFrame                           \* the largest size of a frame: 65535

Text == -1                   \* a start line or header line that can be parsed
Junk == -2                   \* one that cannot, or that is refused
NL == -3                     \* CR LF
Dollar == -4

Symbols == -4..MaxFrame

\* What Extract returns, and how many symbols it erases from the buffer.
Result(r, n) == [result |-> r, size |-> n]

NeedMore == Result("NeedMore", 0)

\* Text where a size is expected reads as a large number.
Number(s) == IF s >= 0 THEN s ELSE MaxFrame

\* '$', the channel, the size, and that much data.
Frame(b) ==
  IF Len(b) >= 3 /\ Len(b) >= 3 + Number(b[3])
  THEN Result("Interleaved", 3 + Number(b[3]))
  ELSE NeedMore

Ends(b) == {i \in 2..Len(b) : b[i - 1] = NL /\ b[i] = NL}

First(S) == CHOOSE i \in S : \A j \in S : i <= j

\* Lines of text, the first one no Content-Length, and at most one of those.
Wellformed(h) ==
  /\ h # <<>> /\ h[1] = Text
  /\ \A i \in 1..Len(h) : /\ h[i] = NL <=> i % 2 = 0
                          /\ h[i] \notin {Junk, Dollar}
                          /\ \A j \in 1..Len(h) : h[i] >= 0 /\ h[j] >= 0 => i = j

BodyLength(h) ==
  IF \E i \in 1..Len(h) : h[i] >= 0
  THEN h[CHOOSE i \in 1..Len(h) : h[i] >= 0] ELSE 0

\* Variant: a header that does not end is waited for.
HeaderMayGrow(b) == FALSE

HeaderTooLong(b) == Len(b) > MaxHeader

Request(b) ==
  LET end == First(Ends(b))
      header == SubSeq(b, 1, end - 2)
      n == BodyLength(header)
  IN IF Ends(b) = {} THEN IF HeaderTooLong(b) THEN Result("TooLarge", 0) ELSE NeedMore
     ELSE IF end > MaxHeader THEN Result("TooLarge", 0)
     ELSE IF ~Wellformed(header) THEN Result("Invalid", 0)
     ELSE IF n > MaxBody THEN Result("TooLarge", 0)
     ELSE IF Len(b) < end + n THEN NeedMore
     ELSE Result("Request", end + n)

Extract(b, interleaved) ==
  IF Len(b) > MaxBuffered THEN Result("TooLarge", 0)
  ELSE IF b = <<>> THEN NeedMore
  ELSE IF interleaved /\ b[1] = Dollar THEN Frame(b)
  ELSE Request(b)
=============================================================================
