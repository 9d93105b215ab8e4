-------------------------- MODULE MCClientSessions --------------------------
(* Small instances of ClientSessions for TLC. *)
EXTENDS ClientSessions, TLC

CONSTANTS w1, w2, r1, r2, r3, r4, p1, p2

Symmetry == Permutations(Wsi) \cup Permutations(Req) \cup Permutations(Pattern)
=============================================================================
