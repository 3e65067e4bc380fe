--------------------------- MODULE MCQualityStore ---------------------------
(***************************************************************************)
(* Two concurrent posts, two players of which one finds no room, settings  *)
(* of two kinds, and revisions that run out at the third update.           *)
(***************************************************************************)
EXTENDS QualityStore, TLC

CONSTANTS h1, h2, p1, p2, bob, yadif

MCPosters == {h1, h2}
MCPlayers == {p1, p2}
MCSettings == {bob, yadif}
MCSymmetry == Permutations(MCPosters) \cup Permutations(MCPlayers)
=============================================================================
